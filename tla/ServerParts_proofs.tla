------------------------- MODULE ServerParts_proofs -------------------------
(***************************************************************************)
(* Proofs about the parts of the program that follow the app-server: an    *)
(* inductive invariant of each, and from it the theorem that its property  *)
(* holds, whatever the constants.                                          *)
(***************************************************************************)
EXTENDS ServerParts, SequenceTheorems, WellFoundedInduction, NaturalsInduction, TLAPS

---------------------------------------------------------------------------
(* Sequences.                                                              *)

\* What is put at the end of a stream.
Grows(R, t, s, e) == s \in Seq(R) /\ e \in Seq(R) /\ t = s \o e

LEMMA Grown ==
    ASSUME NEW R, NEW t, NEW s, NEW e, Grows(R, t, s, e)
    PROVE  /\ t \in Seq(R) /\ Len(s) \in Nat
           /\ \A i \in DOMAIN s : i \in Nat /\ i <= Len(s) /\ i \in DOMAIN t /\ t[i] = s[i]
           /\ \A j \in DOMAIN e : j \in Nat /\ j >= 1 /\ Len(s) + j \in DOMAIN t /\ t[Len(s) + j] = e[j]
           /\ \A i \in DOMAIN t : i \in DOMAIN s \/ \E j \in DOMAIN e : i = Len(s) + j
<1>0. s \in Seq(R) /\ e \in Seq(R) /\ t = s \o e BY DEF Grows
<1>1. /\ Len(s) \in Nat /\ DOMAIN s = 1..Len(s) /\ Len(e) \in Nat /\ DOMAIN e = 1..Len(e)
  BY <1>0, LenProperties
<1>2. PICK u : u = s \o e OBVIOUS
<1>3. /\ t \in Seq(R) /\ Len(t) = Len(s) + Len(e)
      /\ \A i \in 1..Len(s) + Len(e) : t[i] = IF i <= Len(s) THEN s[i] ELSE e[i - Len(s)]
  <2>1. /\ u \in Seq(R) /\ Len(u) = Len(s) + Len(e)
        /\ \A i \in 1..Len(s) + Len(e) : u[i] = IF i <= Len(s) THEN s[i] ELSE e[i - Len(s)]
    BY <1>0, <1>2, ConcatProperties
  <2>2. u = t BY <1>0, <1>2
  <2> QED BY <2>1, <2>2
<1>4. DOMAIN t = 1..Len(s) + Len(e) BY <1>3, LenProperties
<1>5. ASSUME NEW j \in DOMAIN e PROVE j \in Nat /\ j >= 1 /\ Len(s) + j \in DOMAIN t /\ t[Len(s) + j] = e[j]
  <2>1. /\ Len(s) + j \in 1..Len(s) + Len(e) /\ ~(Len(s) + j <= Len(s)) /\ (Len(s) + j) - Len(s) = j
        /\ j \in Nat /\ j >= 1
    BY <1>1
  <2> QED BY <1>3, <1>4, <2>1
<1>6. ASSUME NEW i \in DOMAIN t PROVE i \in DOMAIN s \/ \E j \in DOMAIN e : i = Len(s) + j
  <2>1. CASE i > Len(s)
    <3>1. i - Len(s) \in DOMAIN e /\ i = Len(s) + (i - Len(s)) BY <1>1, <1>4, <2>1
    <3> QED BY <3>1
  <2> QED BY <1>1, <1>4, <2>1
<1>7. ASSUME NEW i \in DOMAIN s PROVE i \in Nat /\ i <= Len(s) /\ i \in DOMAIN t /\ t[i] = s[i]
  <2>1. i \in Nat /\ i >= 1 /\ i <= Len(s) /\ i \in 1..Len(s) + Len(e) BY <1>1
  <2> QED BY <1>3, <1>4, <2>1
<1> QED BY <1>1, <1>3, <1>5, <1>6, <1>7

\* What is first on a stream is taken off it.
LEMMA Drained ==
    ASSUME NEW R, NEW s \in Seq(R), s # <<>>
    PROVE  /\ Head(s) \in R /\ Head(s) = s[1] /\ 1 \in DOMAIN s /\ Tail(s) \in Seq(R)
           /\ \A i \in DOMAIN Tail(s) : i \in Nat /\ i >= 1 /\ i + 1 \in DOMAIN s /\ Tail(s)[i] = s[i + 1]
           /\ \A i \in DOMAIN s : i \in Nat /\ i >= 1 /\ (i = 1 \/ i - 1 \in DOMAIN Tail(s))
<1>1. /\ Head(s) \in R /\ Tail(s) \in Seq(R) /\ Len(Tail(s)) = Len(s) - 1
      /\ \A i \in 1..Len(Tail(s)) : Tail(s)[i] = s[i + 1]
  BY HeadTailProperties
<1>2. Len(s) \in Nat /\ Len(s) # 0 /\ DOMAIN s = 1..Len(s) BY LenProperties, EmptySeq
<1>3. DOMAIN Tail(s) = 1..Len(Tail(s)) BY <1>1, LenProperties
<1>4. Head(s) = s[1] OBVIOUS
<1> QED BY <1>1, <1>2, <1>3, <1>4

---------------------------------------------------------------------------
(* The context of a task.                                                  *)

Texts == Contents \cup {FirstContent, "none"}
Evidences == [file : Nat, hash : Texts]
Jobs == [at : {"asked", "identified", "read", "done"}, gen : Nat, after : BOOLEAN, auto : BOOLEAN,
         prev : Evidences, evidence : Evidences]

CtxTyped ==
    /\ contextWindow = [ready |-> contextWindow.ready, busy |-> contextWindow.busy,
                        usage |-> contextWindow.usage, inflight |-> contextWindow.inflight,
                        asked |-> contextWindow.asked, prompted |-> contextWindow.prompted]
    /\ metrics = [gen |-> metrics.gen, cp |-> metrics.cp, id |-> metrics.id]
    /\ metrics.gen \in Nat /\ metrics.cp \in Int
    /\ receipt = [gen |-> receipt.gen, evidence |-> receipt.evidence] /\ receipt.evidence \in Evidences
    /\ job \in Jobs \cup {Context!NoJob}
    /\ versions \in Seq(Texts) /\ Len(versions) >= 1
    /\ made \in [0..MaxItems -> Nat]

\* The generations only grow, and with them the one of the newest checkpoint;
\* an automatic one was never taken of a generation ahead of it.
Generations ==
    /\ metrics.cp <= metrics.gen
    /\ \A g \in DOMAIN made : made[g] = 0 \/ (made[g] = 1 /\ g <= metrics.cp)

\* One job at a time, of a generation between those two; an automatic one is
\* the first of its generation.
OneJob ==
    job # Context!NoJob =>
      /\ contextWindow.inflight /\ metrics.cp <= job.gen /\ job.gen <= metrics.gen
      /\ job.auto /\ job.gen \in DOMAIN made => made[job.gen] = 0

TrueHash(e) == e.hash = "none" \/ (e.file \in DOMAIN versions /\ e.hash = versions[e.file])

\* What a job knows so far: the hash it read is that of the file it
\* identified or of a later one.
Evidenced ==
    /\ TrueHash(receipt.evidence)
    /\ job # Context!NoJob =>
         /\ TrueHash(job.prev)
         /\ job.at = "asked" => job.evidence.hash = "none"
         /\ job.at = "identified" => job.evidence.file \in DOMAIN versions /\ job.evidence.hash = "none"
         /\ job.at = "read" => \E k \in DOMAIN versions : job.evidence.file <= k /\ job.evidence.hash = versions[k]
         /\ job.at = "done" => TrueHash(job.evidence)

ContextInv == CtxTyped /\ Generations /\ OneJob /\ Evidenced

Shape(w) == w = [ready |-> w.ready, busy |-> w.busy, usage |-> w.usage, inflight |-> w.inflight,
                 asked |-> w.asked, prompted |-> w.prompted]

LEMMA NoJobKnown == Context!NoJob \notin Jobs
BY DEF Context!NoJob, Jobs

\* What touches neither a checkpoint nor its job.
LEMMA CheckpointsSame ==
    ASSUME ContextInv, UNCHANGED <<metrics, receipt, job, versions, made>>, Shape(contextWindow'),
           contextWindow'.inflight = contextWindow.inflight
    PROVE  ContextInv'
<1>1. CtxTyped' BY DEF ContextInv, CtxTyped, Shape
<1>2. Generations' /\ OneJob' BY DEF ContextInv, Generations, OneJob
<1>3. Evidenced' BY DEF ContextInv, Evidenced, TrueHash
<1> QED BY <1>1, <1>2, <1>3 DEF ContextInv

\* A checkpoint is asked for: none is being made, and an automatic one only
\* if the newest is of an earlier generation.
LEMMA QueueSafe ==
    ASSUME ContextInv, NEW w, Shape(w), w.inflight = contextWindow.inflight,
           NEW compactAfter \in BOOLEAN, NEW automatic \in BOOLEAN,
           automatic => ~Context!CheckpointCurrent,
           Context!Queue(w, compactAfter, automatic), UNCHANGED <<metrics, receipt, versions, made>>
    PROVE  ContextInv'
<1>1. CASE contextWindow' = w /\ UNCHANGED job BY <1>1, CheckpointsSame
<1>2. CASE /\ ~w.inflight /\ contextWindow' = [w EXCEPT !.inflight = TRUE]
           /\ job' = [at |-> "asked", gen |-> metrics.gen, after |-> compactAfter,
                      auto |-> automatic, prev |-> receipt.evidence, evidence |-> Context!NoEvidence]
  <2>1. Context!NoEvidence \in Evidences /\ Context!NoEvidence.hash = "none"
    BY DEF Context!NoEvidence, Evidences, Texts
  <2>2. job' \in Jobs BY <1>2, <2>1 DEF ContextInv, CtxTyped, Jobs
  <2>3. /\ job'.at = "asked" /\ job'.gen = metrics.gen /\ job'.auto = automatic
        /\ job'.prev = receipt.evidence /\ job'.evidence = Context!NoEvidence
    BY <1>2
  <2>4. /\ contextWindow' = [ready |-> w.ready, busy |-> w.busy, usage |-> w.usage, inflight |-> TRUE,
                             asked |-> w.asked, prompted |-> w.prompted]
    BY <1>2 DEF Shape
  <2>5. CtxTyped' BY <2>2, <2>4 DEF ContextInv, CtxTyped
  <2>6. OneJob'
    <3>1. contextWindow'.inflight BY <2>4
    <3>2. automatic => metrics.cp < metrics.gen
      BY DEF ContextInv, CtxTyped, Generations, Context!CheckpointCurrent
    <3>3. automatic /\ metrics.gen \in DOMAIN made => made[metrics.gen] = 0
      BY <3>2 DEF ContextInv, CtxTyped, Generations
    <3> QED BY <2>3, <3>1, <3>3 DEF ContextInv, CtxTyped, Generations, OneJob
  <2>7. Evidenced' BY <2>1, <2>3 DEF ContextInv, Evidenced, TrueHash
  <2> QED BY <2>5, <2>6, <2>7 DEF ContextInv, Generations
<1> QED BY <1>1, <1>2 DEF Context!Queue

LEMMA ManageSafe ==
    ASSUME ContextInv, NEW w, Shape(w), w.inflight = contextWindow.inflight,
           Context!Manage(w), UNCHANGED <<metrics, receipt, versions, made>>
    PROVE  ContextInv'
<1>1. CASE Context!Due(w) /\ mode = "auto"
  <2>1. Context!Queue(w, FALSE, TRUE) /\ ~Context!CheckpointCurrent
    BY <1>1 DEF Context!Manage, Context!Due
  <2> QED BY <2>1, QueueSafe
<1>2. CASE ~(Context!Due(w) /\ mode = "auto")
  <2>1. PICK p : contextWindow' = [w EXCEPT !.prompted = p] /\ UNCHANGED job
    BY <1>2 DEF Context!Manage
  <2>2. contextWindow' = [ready |-> w.ready, busy |-> w.busy, usage |-> w.usage, inflight |-> w.inflight,
                          asked |-> w.asked, prompted |-> p]
    BY <2>1 DEF Shape
  <2>3. Shape(contextWindow') /\ contextWindow'.inflight = contextWindow.inflight BY <2>2 DEF Shape
  <2> QED BY <2>1, <2>3, CheckpointsSame
<1> QED BY <1>1, <1>2

LEMMA ShapeKept ==
    ASSUME ContextInv, NEW u
    PROVE  /\ Shape(contextWindow)
           /\ Shape([contextWindow EXCEPT !.usage = u]) /\ Shape([contextWindow EXCEPT !.busy = u])
           /\ Shape([contextWindow EXCEPT !.asked = u]) /\ Shape([contextWindow EXCEPT !.prompted = u])
           /\ [contextWindow EXCEPT !.usage = u].inflight = contextWindow.inflight
           /\ [contextWindow EXCEPT !.busy = u].inflight = contextWindow.inflight
           /\ [contextWindow EXCEPT !.asked = u].inflight = contextWindow.inflight
           /\ [contextWindow EXCEPT !.prompted = u].inflight = contextWindow.inflight
<1>1. Shape(contextWindow) BY DEF ContextInv, CtxTyped, Shape
<1>2. PICK w : w = contextWindow OBVIOUS
<1>3. Shape(w) BY <1>1, <1>2
<1>4. /\ [w EXCEPT !.usage = u] = [ready |-> w.ready, busy |-> w.busy, usage |-> u, inflight |-> w.inflight,
                                   asked |-> w.asked, prompted |-> w.prompted]
      /\ [w EXCEPT !.busy = u] = [ready |-> w.ready, busy |-> u, usage |-> w.usage, inflight |-> w.inflight,
                                  asked |-> w.asked, prompted |-> w.prompted]
      /\ [w EXCEPT !.asked = u] = [ready |-> w.ready, busy |-> w.busy, usage |-> w.usage,
                                   inflight |-> w.inflight, asked |-> u, prompted |-> w.prompted]
      /\ [w EXCEPT !.prompted = u] = [ready |-> w.ready, busy |-> w.busy, usage |-> w.usage,
                                      inflight |-> w.inflight, asked |-> w.asked, prompted |-> u]
  BY <1>3 DEF Shape
<1> QED BY <1>1, <1>2, <1>4 DEF Shape

LEMMA CtxReceiveSafe == ASSUME ContextInv, Context!Receive PROVE ContextInv'
<1>1. UNCHANGED <<versions, made>> BY DEF Context!Receive, Context!Outside
<1>2. PICK event : event = Head(contextStream) OBVIOUS
<1>3. CASE event.kind = "usage" /\ Context!OnUsage(event)
  <2>1. PICK w : w = [contextWindow EXCEPT !.usage = event.usage] OBVIOUS
  <2>2. Shape(w) /\ w.inflight = contextWindow.inflight BY <2>1, ShapeKept
  <2>3. CASE measure.completed
    <3>1. contextWindow' = w /\ UNCHANGED <<job, metrics, receipt>> BY <1>3, <2>1, <2>3 DEF Context!OnUsage
    <3> QED BY <1>1, <2>2, <3>1, CheckpointsSame
  <2>4. CASE ~measure.completed
    <3>1. Context!Manage(w) /\ UNCHANGED <<metrics, receipt>> BY <1>3, <2>1, <2>4 DEF Context!OnUsage
    <3> QED BY <1>1, <2>2, <3>1, ManageSafe
  <2> QED BY <2>3, <2>4
<1>4. CASE event.kind = "started" /\ Context!OnStarted(event)
  <2>1. UNCHANGED <<metrics, receipt>> BY <1>4 DEF Context!OnStarted
  <2>2. CASE UNCHANGED <<contextWindow, job>> BY <1>1, <2>1, <2>2, ShapeKept, CheckpointsSame
  <2>3. CASE ~Context!CheckpointCurrent /\ Context!Queue(contextWindow, FALSE, TRUE)
    BY <1>1, <2>1, <2>3, ShapeKept, QueueSafe
  <2> QED BY <1>4, <2>2, <2>3 DEF Context!OnStarted
<1>5. CASE event.kind = "completed" /\ Context!OnCompacted(event)
  <2>1. UNCHANGED <<job, receipt>> BY <1>5 DEF Context!OnCompacted
  <2>2. CASE UNCHANGED <<metrics, contextWindow>> BY <1>1, <2>1, <2>2, ShapeKept, CheckpointsSame
  <2>3. CASE /\ metrics' = [metrics EXCEPT !.gen = @ + 1, !.id = event.item]
             /\ contextWindow' = [contextWindow EXCEPT !.prompted = FALSE]
    <3>1. metrics' = [gen |-> metrics.gen + 1, cp |-> metrics.cp, id |-> event.item]
      BY <2>3 DEF ContextInv, CtxTyped
    <3>2. Shape(contextWindow') /\ contextWindow'.inflight = contextWindow.inflight
      BY <2>3, ShapeKept
    <3>3. CtxTyped' BY <1>1, <2>1, <3>1, <3>2 DEF ContextInv, CtxTyped, Shape
    <3>4. Generations' BY <1>1, <3>1 DEF ContextInv, CtxTyped, Generations
    <3>5. job # Context!NoJob => job.gen \in Nat BY DEF ContextInv, CtxTyped, Jobs
    <3>6. OneJob' BY <1>1, <2>1, <3>1, <3>2, <3>5 DEF ContextInv, CtxTyped, OneJob
    <3>7. Evidenced' BY <1>1, <2>1 DEF ContextInv, Evidenced, TrueHash
    <3> QED BY <3>3, <3>4, <3>6, <3>7 DEF ContextInv
  <2> QED BY <1>5, <2>2, <2>3 DEF Context!OnCompacted
<1>6. CASE /\ event.kind = "begun" /\ contextWindow' = [contextWindow EXCEPT !.busy = TRUE]
           /\ UNCHANGED <<measure, metrics, receipt, job>>
  BY <1>1, <1>6, ShapeKept, CheckpointsSame
<1>7. CASE /\ event.kind = "ended" /\ UNCHANGED <<measure, metrics, receipt>>
           /\ Context!Manage([contextWindow EXCEPT !.busy = FALSE])
  <2>1. PICK w : w = [contextWindow EXCEPT !.busy = FALSE] OBVIOUS
  <2>2. Shape(w) /\ w.inflight = contextWindow.inflight BY <2>1, ShapeKept
  <2> QED BY <1>1, <1>7, <2>1, <2>2, ManageSafe
<1>8. CASE /\ event.kind = "accepted" /\ contextWindow' = [contextWindow EXCEPT !.asked = FALSE]
           /\ UNCHANGED <<measure, metrics, receipt, job>>
  BY <1>1, <1>8, ShapeKept, CheckpointsSame
<1> QED BY <1>2, <1>3, <1>4, <1>5, <1>6, <1>7, <1>8 DEF Context!Receive

LEMMA CtxClickSafe == ASSUME ContextInv, Context!Click PROVE ContextInv'
<1>1. UNCHANGED <<metrics, receipt, versions, made>> BY DEF Context!Click, Context!Outside
<1>2. PICK after \in BOOLEAN : Context!Queue(contextWindow, after, FALSE) BY DEF Context!Click
<1> QED BY <1>1, <1>2, ShapeKept, QueueSafe

\* The worker goes on with its job.
LEMMA WorkerSafe ==
    ASSUME ContextInv, Context!Worker, job # Context!NoJob, job' \in Jobs,
           job'.gen = job.gen, job'.auto = job.auto, job'.prev = job.prev,
           job'.at # "asked",
           job'.at = "identified" => job'.evidence.file \in DOMAIN versions /\ job'.evidence.hash = "none",
           job'.at = "read" =>
             \E k \in DOMAIN versions : job'.evidence.file <= k /\ job'.evidence.hash = versions[k],
           job'.at = "done" => TrueHash(job'.evidence)
    PROVE  ContextInv'
<1>1. UNCHANGED <<versions, contextWindow, metrics, receipt, made>> BY DEF Context!Worker, Context!Outside
<1>2. CtxTyped' BY <1>1 DEF ContextInv, CtxTyped
<1>3. Generations' /\ OneJob' BY <1>1 DEF ContextInv, Generations, OneJob
<1>4. Evidenced' BY <1>1 DEF ContextInv, Evidenced, TrueHash
<1> QED BY <1>2, <1>3, <1>4 DEF ContextInv

LEMMA LastVersion ==
    ASSUME ContextInv
    PROVE  /\ Context!Ident \in DOMAIN versions /\ versions[Context!Ident] \in Texts
           /\ DOMAIN versions \subseteq Nat /\ \A k \in DOMAIN versions : k <= Context!Ident
<1>1. DOMAIN versions = 1..Len(versions) /\ Len(versions) \in Nat /\ Len(versions) >= 1
  BY LenProperties DEF ContextInv, CtxTyped
<1> QED BY <1>1, ElementOfSeq DEF ContextInv, CtxTyped, Context!Ident

LEMMA IdentifySafe == ASSUME ContextInv, Context!Identify PROVE ContextInv'
<1>1. job.at = "asked" /\ Context!Worker BY DEF Context!Identify
<1>2. job # Context!NoJob BY <1>1 DEF Context!NoJob
<1>3. job \in Jobs /\ Context!Ident \in Nat /\ Context!Ident \in DOMAIN versions
  BY <1>2, LastVersion DEF ContextInv, CtxTyped
<1>4. job.evidence.hash = "none" /\ TrueHash(job.prev) BY <1>1, <1>2 DEF ContextInv, Evidenced
<1>5. CASE job' = [job EXCEPT !.at = "done", !.evidence = job.prev]
  <2>1. /\ job' \in Jobs /\ job'.gen = job.gen /\ job'.auto = job.auto /\ job'.prev = job.prev
        /\ job'.at = "done" /\ job'.evidence = job.prev
    BY <1>3, <1>5 DEF Jobs
  <2> QED BY <1>1, <1>2, <1>4, <2>1, WorkerSafe
<1>6. CASE job' = [job EXCEPT !.at = "identified", !.evidence.file = Context!Ident]
  <2>1. PICK k \in Nat : k = Context!Ident BY <1>3
  <2>2. PICK e \in Evidences : e = job.evidence BY <1>3 DEF Jobs
  <2>3. PICK f \in Evidences : f = [e EXCEPT !.file = k] /\ f.file = k /\ f.hash = e.hash
    <3>1. [e EXCEPT !.file = k] \in Evidences BY DEF Evidences
    <3> QED BY <3>1 DEF Evidences
  <2>4. job' = [job EXCEPT !.at = "identified", !.evidence = f] BY <1>3, <1>6, <2>1, <2>2, <2>3 DEF Jobs
  <2>5. /\ job' \in Jobs /\ job'.gen = job.gen /\ job'.auto = job.auto /\ job'.prev = job.prev
        /\ job'.at = "identified" /\ job'.evidence = f
    BY <1>3, <2>4 DEF Jobs
  <2> QED BY <1>1, <1>2, <1>3, <1>4, <2>1, <2>2, <2>3, <2>5, WorkerSafe
<1> QED BY <1>5, <1>6 DEF Context!Identify

LEMMA ReadFileSafe == ASSUME ContextInv, Context!ReadFile PROVE ContextInv'
<1>1. job.at = "identified" /\ Context!Worker BY DEF Context!ReadFile
<1>2. job # Context!NoJob BY <1>1 DEF Context!NoJob
<1>3. job \in Jobs BY <1>2 DEF ContextInv, CtxTyped
<1>4. job.evidence.file \in DOMAIN versions BY <1>1, <1>2 DEF ContextInv, Evidenced
<1>5. PICK x \in Texts : x = versions[Context!Ident] BY LastVersion
<1>6. PICK e \in Evidences : e = job.evidence BY <1>3 DEF Jobs
<1>7. PICK f \in Evidences : f = [e EXCEPT !.hash = x] /\ f.file = e.file /\ f.hash = x
  <2>1. [e EXCEPT !.hash = x] \in Evidences BY DEF Evidences
  <2> QED BY <2>1 DEF Evidences
<1>8. job' = [job EXCEPT !.at = "read", !.evidence = f]
  BY <1>3, <1>5, <1>6, <1>7 DEF Context!ReadFile, Jobs
<1>9. /\ job' \in Jobs /\ job'.gen = job.gen /\ job'.auto = job.auto /\ job'.prev = job.prev
      /\ job'.at = "read" /\ job'.evidence = f
  BY <1>3, <1>8 DEF Jobs
<1>10. f.file <= Context!Ident /\ f.hash = versions[Context!Ident] /\ Context!Ident \in DOMAIN versions
  BY <1>4, <1>5, <1>6, <1>7, LastVersion
<1> QED BY <1>1, <1>2, <1>9, <1>10, WorkerSafe

LEMMA VerifySafe == ASSUME ContextInv, Context!Verify PROVE ContextInv'
<1>1. job.at = "read" /\ Context!Worker BY DEF Context!Verify
<1>2. job # Context!NoJob BY <1>1 DEF Context!NoJob
<1>3. job \in Jobs BY <1>2 DEF ContextInv, CtxTyped
<1>4. PICK e \in Evidences : e = job.evidence BY <1>3 DEF Jobs
<1>5. PICK k \in DOMAIN versions : e.file <= k /\ e.hash = versions[k]
  BY <1>1, <1>2, <1>4 DEF ContextInv, Evidenced
<1>6. PICK f \in Evidences : f = Context!Stable(e) /\ TrueHash(f)
  <2>1. PICK f : f = Context!Stable(e) OBVIOUS
  <2>2. CASE e.file = Context!Ident
    <3>1. f = e BY <2>1, <2>2 DEF Context!Stable
    <3>2. k = e.file BY <1>5, <2>2, LastVersion DEF Evidences
    <3> QED BY <1>5, <2>1, <3>1, <3>2 DEF TrueHash
  <2>3. CASE e.file # Context!Ident
    <3>1. f = [e EXCEPT !.hash = "none"] BY <2>1, <2>3 DEF Context!Stable
    <3>2. f \in Evidences /\ f.hash = "none" BY <3>1 DEF Evidences, Texts
    <3> QED BY <2>1, <3>2 DEF TrueHash
  <2> QED BY <2>2, <2>3
<1>7. job' = [job EXCEPT !.at = "done", !.evidence = f] BY <1>3, <1>4, <1>6 DEF Context!Verify, Jobs
<1>8. /\ job' \in Jobs /\ job'.gen = job.gen /\ job'.auto = job.auto /\ job'.prev = job.prev
      /\ job'.at = "done" /\ job'.evidence = f
  BY <1>3, <1>7 DEF Jobs
<1> QED BY <1>1, <1>2, <1>6, <1>8, WorkerSafe

LEMMA OnCheckpointSafe == ASSUME ContextInv, Context!OnCheckpoint PROVE ContextInv'
<1>1. job.at = "done" /\ job' = Context!NoJob /\ UNCHANGED versions BY DEF Context!OnCheckpoint
<1>2. job # Context!NoJob BY <1>1 DEF Context!NoJob
<1>3. job \in Jobs /\ job.gen \in Nat /\ job.evidence \in Evidences BY <1>2 DEF ContextInv, CtxTyped, Jobs
<1>4. metrics' = [gen |-> metrics.gen, cp |-> job.gen, id |-> metrics.id]
  BY DEF Context!OnCheckpoint, ContextInv, CtxTyped
<1>5. /\ receipt' = [gen |-> job.gen, evidence |-> job.evidence]
      /\ made' = IF job.auto THEN [made EXCEPT ![job.gen] = @ + 1] ELSE made
  BY DEF Context!OnCheckpoint
<1>6. Shape(contextWindow')
  <2>1. PICK begin : contextWindow' = [contextWindow EXCEPT !.inflight = FALSE, !.asked = @ \/ begin]
    BY DEF Context!OnCheckpoint
  <2>2. PICK a : a = (contextWindow.asked \/ begin) OBVIOUS
  <2>3. contextWindow' = [ready |-> contextWindow.ready, busy |-> contextWindow.busy,
                          usage |-> contextWindow.usage, inflight |-> FALSE,
                          asked |-> a, prompted |-> contextWindow.prompted]
    BY <2>1, <2>2 DEF ContextInv, CtxTyped
  <2> QED BY <2>3 DEF Shape
<1>7. made' \in [0..MaxItems -> Nat]
  <2>1. made \in [0..MaxItems -> Nat] BY DEF ContextInv, CtxTyped
  <2>2. CASE made' = made BY <2>1, <2>2
  <2>3. CASE made' = [made EXCEPT ![job.gen] = @ + 1]
    <3>1. \A g \in 0..MaxItems : made[g] \in Nat /\ made[g] + 1 \in Nat BY <2>1
    <3>2. made' = [g \in 0..MaxItems |-> IF g = job.gen THEN made[g] + 1 ELSE made[g]] BY <2>1, <2>3
    <3> QED BY <3>1, <3>2
  <2> QED BY <1>5, <2>2, <2>3
<1>8. CtxTyped' BY <1>1, <1>3, <1>4, <1>5, <1>6, <1>7 DEF ContextInv, CtxTyped, Shape
<1>9. metrics.cp <= job.gen /\ job.gen <= metrics.gen
      /\ (job.auto /\ job.gen \in DOMAIN made => made[job.gen] = 0)
  BY <1>2 DEF ContextInv, OneJob
<1>10. Generations'
  <2>1. metrics'.cp <= metrics'.gen BY <1>4, <1>9
  <2>2. ASSUME NEW g \in DOMAIN made PROVE made'[g] = 0 \/ (made'[g] = 1 /\ g <= job.gen)
    <3>1. g \in Int BY DEF ContextInv, CtxTyped
    <3>2. made[g] = 0 \/ (made[g] = 1 /\ g <= metrics.cp) BY DEF ContextInv, Generations
    <3>3. CASE job.auto /\ g = job.gen BY <1>3, <1>5, <1>9, <3>3 DEF ContextInv, CtxTyped
    <3>4. CASE ~(job.auto /\ g = job.gen)
      <4>1. made'[g] = made[g] BY <1>5, <3>4 DEF ContextInv, CtxTyped
      <4> QED BY <1>3, <1>9, <3>1, <3>2, <4>1 DEF ContextInv, CtxTyped
    <3> QED BY <3>3, <3>4
  <2> QED BY <1>4, <1>7, <2>1, <2>2 DEF ContextInv, CtxTyped, Generations
<1>11. OneJob' BY <1>1 DEF OneJob, Context!NoJob
<1>12. Evidenced' BY <1>1, <1>2, <1>5 DEF ContextInv, Evidenced, TrueHash, Context!NoJob
<1> QED BY <1>8, <1>10, <1>11, <1>12 DEF ContextInv

\* The job is gone and nothing else with it.
LEMMA JobLost ==
    ASSUME ContextInv, job' = Context!NoJob, Shape(contextWindow'), UNCHANGED <<metrics, receipt, versions, made>>
    PROVE  ContextInv'
<1>1. CtxTyped' BY DEF ContextInv, CtxTyped, Shape
<1>2. Generations' /\ OneJob' BY DEF ContextInv, Generations, OneJob, Context!NoJob
<1>3. Evidenced' BY DEF ContextInv, Evidenced, TrueHash, Context!NoJob
<1> QED BY <1>1, <1>2, <1>3 DEF ContextInv

LEMMA WriteFileSafe == ASSUME ContextInv, Context!WriteFile PROVE ContextInv'
<1>1. PICK c \in Texts : versions' = Append(versions, c) BY DEF Context!WriteFile, Texts
<1>2. UNCHANGED <<contextWindow, metrics, receipt, job, made>> BY DEF Context!WriteFile, Context!Client
<1>3. /\ versions' \in Seq(Texts) /\ Len(versions') = Len(versions) + 1 /\ Len(versions) \in Nat
      /\ \A k \in DOMAIN versions : k \in DOMAIN versions' /\ versions'[k] = versions[k]
  BY <1>1, AppendProperties, LenProperties DEF ContextInv, CtxTyped
<1>4. CtxTyped' BY <1>2, <1>3 DEF ContextInv, CtxTyped
<1>5. Generations' /\ OneJob' BY <1>2 DEF ContextInv, Generations, OneJob
<1>6. Evidenced' BY <1>2, <1>3 DEF ContextInv, Evidenced, TrueHash
<1> QED BY <1>4, <1>5, <1>6 DEF ContextInv

LEMMA ContextSteps == ASSUME ContextInv, [Context!Next]_Context!vars PROVE ContextInv'
<1>1. CASE UNCHANGED Context!vars BY <1>1, ShapeKept, CheckpointsSame DEF Context!vars
<1>2. CASE Context!Turn \/ Context!Report \/ Context!StartCompaction \/ Context!RefuseCompaction
           \/ Context!EndCompaction
  <2>1. UNCHANGED <<contextWindow, metrics, receipt, job, versions, made>>
    BY <1>2 DEF Context!Turn, Context!Report, Context!StartCompaction, Context!RefuseCompaction,
                Context!EndCompaction, Context!Client
  <2> QED BY <2>1, ShapeKept, CheckpointsSame
<1>3. CASE Context!OnCheckpointError
  <2>1. contextWindow' = [ready |-> contextWindow.ready, busy |-> contextWindow.busy,
                          usage |-> contextWindow.usage, inflight |-> FALSE,
                          asked |-> contextWindow.asked, prompted |-> contextWindow.prompted]
    BY <1>3 DEF Context!OnCheckpointError, ContextInv, CtxTyped
  <2>2. Shape(contextWindow') BY <2>1 DEF Shape
  <2> QED BY <1>3, <2>2, JobLost DEF Context!OnCheckpointError, Context!Outside
<1>4. CASE Context!Disconnect
  <2>1. contextWindow' = [ready |-> FALSE, busy |-> contextWindow.busy,
                          usage |-> contextWindow.usage, inflight |-> contextWindow.inflight,
                          asked |-> FALSE, prompted |-> contextWindow.prompted]
    BY <1>4 DEF Context!Disconnect, ContextInv, CtxTyped
  <2>2. Shape(contextWindow') /\ contextWindow'.inflight = contextWindow.inflight BY <2>1 DEF Shape
  <2> QED BY <1>4, <2>2, CheckpointsSame DEF Context!Disconnect
<1>5. CASE Context!Connect
  <2>1. contextWindow' = [ready |-> TRUE, busy |-> contextServer.turn,
                          usage |-> contextWindow.usage, inflight |-> contextWindow.inflight,
                          asked |-> contextWindow.asked, prompted |-> contextWindow.prompted]
    BY <1>5 DEF Context!Connect, ContextInv, CtxTyped
  <2>2. Shape(contextWindow') /\ contextWindow'.inflight = contextWindow.inflight BY <2>1 DEF Shape
  <2> QED BY <1>5, <2>2, CheckpointsSame DEF Context!Connect, Context!Outside
<1>6. CASE Context!Restart
  <2>1. Shape(contextWindow') BY <1>6 DEF Context!Restart, Shape
  <2> QED BY <1>6, <2>1, JobLost DEF Context!Restart
<1> QED
  BY <1>1, <1>2, <1>3, <1>4, <1>5, <1>6, CtxReceiveSafe, CtxClickSafe, IdentifySafe, ReadFileSafe,
     VerifySafe, OnCheckpointSafe, WriteFileSafe
  DEF Context!Next

LEMMA ContextAlways == Context!Spec => []ContextInv
<1>1. Context!Init => ContextInv
  <2> SUFFICES ASSUME Context!Init PROVE ContextInv OBVIOUS
  <2>1. /\ contextWindow = [ready |-> TRUE, busy |-> FALSE, usage |-> "unknown", inflight |-> FALSE,
                            asked |-> FALSE, prompted |-> FALSE]
        /\ metrics = [gen |-> 0, cp |-> -1, id |-> 0]
        /\ receipt = [gen |-> -1, evidence |-> [file |-> 0, hash |-> "none"]]
        /\ job = Context!NoJob /\ versions = <<FirstContent>> /\ made = [g \in 0..MaxItems |-> 0]
    BY DEF Context!Init, Context!None, Context!NoReceipt, Context!NoEvidence
  <2>2. versions \in Seq(Texts) /\ Len(versions) = 1 BY <2>1 DEF Texts
  <2>3. [file |-> 0, hash |-> "none"] \in Evidences BY DEF Evidences, Texts
  <2>4. CtxTyped BY <2>1, <2>2, <2>3 DEF CtxTyped
  <2>5. Generations /\ OneJob BY <2>1 DEF Generations, OneJob
  <2>6. Evidenced BY <2>1 DEF Evidenced, TrueHash
  <2> QED BY <2>4, <2>5, <2>6 DEF ContextInv
<1> QED BY <1>1, ContextSteps, PTL DEF Context!Spec

\* A generation gets one automatic checkpoint, whatever reports of usage,
\* compactions, clicks, lost connections and restarts come together
\* (compaction_decision, context.rs).
THEOREM OneCheckpoint == Context!Spec => []OneCheckpointEach
<1>1. ContextInv => OneCheckpointEach
  BY DEF ContextInv, CtxTyped, Generations, OneCheckpointEach, Context!OneCheckpointEach
<1> QED BY <1>1, ContextAlways, PTL

\* A hash that a checkpoint records or takes over is that of the file it
\* identifies, though the file was written meanwhile (fingerprint_evidence,
\* context.rs).
THEOREM HashesTrue == Context!Spec => []EvidenceTrue
<1>1. ContextInv => EvidenceTrue
  BY DEF ContextInv, Evidenced, TrueHash, EvidenceTrue, Context!EvidenceTrue
<1> QED BY <1>1, ContextAlways, PTL

---------------------------------------------------------------------------
(* What the window takes for running.                                      *)

Notices ==
    [kind : {"started", "plan", "completed", "sent"}, task : Threads, turn : Nat \ {0}]
    \cup [kind : {"idle", "refused"}, task : Threads]
Asks == [task : Threads, steer : Nat \cup {-1}]

RunTyped ==
    /\ serverTurn \in [Threads -> Nat] /\ lastTurn \in Nat /\ stream \in Seq(Notices)
    /\ turnAsked = <<>> \/ \E a \in Asks : turnAsked = <<a>>
    /\ resumed \subseteq Threads /\ turnActive \in resumed \cup {NoThread} /\ activeTurn \in Nat
    /\ busy \subseteq Threads /\ turnProgress \subseteq Threads /\ turns \in [Threads -> SUBSET (Nat \ {0})]

\* Only a task that was opened is spoken of, marked or asked about.
Subscribed ==
    /\ \A i \in DOMAIN stream : stream[i].task \in resumed
    /\ turnAsked # <<>> => turnAsked[1].task \in resumed
    /\ busy \cup turnProgress \subseteq resumed
    /\ \A t \in Threads : turns[t] # {} => t \in resumed

AnswersAsk(i) == i \in DOMAIN stream /\ stream[i].kind \in {"sent", "refused"}

\* One answer is on its way, and only to what was asked.
OneAnswer ==
    /\ \A i : AnswersAsk(i) => turnAsked # <<>> /\ turnAsked[1].steer = -1
    /\ \A i, j : AnswersAsk(i) /\ AnswersAsk(j) => i = j

\* The end of turn n of task t is still to come, after place i of the stream.
EndsAfter(t, n, i) ==
    \/ serverTurn[t] = n
    \/ \E j \in DOMAIN stream : j > i /\ stream[j].kind = "completed" /\ stream[j].task = t /\ stream[j].turn = n

IdleAfter(t, i) ==
    \/ serverTurn[t] # 0
    \/ \E j \in DOMAIN stream : j > i /\ stream[j].kind = "idle" /\ stream[j].task = t

Refusal(t) == \E j \in DOMAIN stream : stream[j].kind = "refused" /\ stream[j].task = t

\* Whatever is marked as running, or will be, has what clears it behind it.
Cleared ==
    /\ \A t \in busy \cup turnProgress : IdleAfter(t, 0)
    /\ \A i \in DOMAIN stream : \A t \in Threads :
         stream[i].kind \in {"started", "plan", "sent"} /\ stream[i].task = t => IdleAfter(t, i)
    /\ \A i \in DOMAIN stream : \A t \in Threads : \A n \in Nat :
         stream[i].kind = "started" /\ stream[i].task = t /\ stream[i].turn = n => EndsAfter(t, n, i)

\* So has every turn of a task, but the one a message was to steer: if that is
\* not the task's own, the server refuses and the refusal clears it.
Steered(t, n) == turnAsked # <<>> /\ turnAsked[1].task = t /\ turnAsked[1].steer = n

TurnsCleared ==
    \A t \in Threads : \A n \in turns[t] : EndsAfter(t, n, 0) \/ Steered(t, n) \/ Refusal(t)

RunInv == RunTyped /\ Subscribed /\ OneAnswer /\ Cleared /\ TurnsCleared

\* The server says e, and may start or end turns as it does.
Tells(e) ==
    /\ stream' = stream \o e
    /\ UNCHANGED <<resumed, turnActive, activeTurn, busy, turnProgress, turns, turnMoves>>
    /\ serverTurn' \in [Threads -> Nat] /\ lastTurn' \in Nat
    /\ turnAsked' = <<>> \/ \E a \in Asks : turnAsked' = <<a>>
    /\ turnAsked' # <<>> => turnAsked'[1].task \in resumed
    /\ \A j \in DOMAIN e : e[j].task \in resumed
    /\ \A t \in resumed : serverTurn[t] # 0 =>
         \/ serverTurn'[t] = serverTurn[t]
         \/ /\ \E j \in DOMAIN e : e[j].kind = "completed" /\ e[j].task = t /\ e[j].turn = serverTurn[t]
            /\ \E j \in DOMAIN e : e[j].kind = "idle" /\ e[j].task = t
    /\ \A j \in DOMAIN e : e[j].kind \in {"started", "plan", "sent"} => serverTurn'[e[j].task] # 0
    /\ \A j \in DOMAIN e : e[j].kind = "started" => serverTurn'[e[j].task] = e[j].turn
    /\ \/ turnAsked' = turnAsked /\ \A j \in DOMAIN e : e[j].kind \notin {"sent", "refused"}
       \/ /\ turnAsked # <<>> /\ turnAsked[1].steer # -1 /\ turnAsked' # <<>> /\ turnAsked'[1].steer = -1
          /\ \A j, k \in DOMAIN e : e[j].kind \in {"sent", "refused"} /\ e[k].kind \in {"sent", "refused"}
                                      => j = k
          /\ \A t \in Threads : \A n \in Nat : Steered(t, n) =>
               n = 0 \/ serverTurn'[t] = n \/ \E j \in DOMAIN e : e[j].kind = "refused" /\ e[j].task = t

\* Where what is said stands on the stream.
LEMMA Said ==
    ASSUME stream \in Seq(Notices), NEW e \in Seq(Notices), stream' = stream \o e
    PROVE  /\ stream' \in Seq(Notices) /\ Len(stream) \in Nat
           /\ \A i \in DOMAIN stream : i \in Nat /\ i <= Len(stream) /\ i \in DOMAIN stream' /\ stream'[i] = stream[i]
           /\ \A j \in DOMAIN e : j \in Nat /\ j >= 1 /\ Len(stream) + j \in DOMAIN stream' /\ stream'[Len(stream) + j] = e[j]
           /\ \A i \in DOMAIN stream' : i \in DOMAIN stream \/ \E j \in DOMAIN e : i = Len(stream) + j
<1>1. PICK r, s : r = stream' /\ s = stream OBVIOUS
<1>2. Grows(Notices, r, s, e) BY <1>1 DEF Grows
<1>3. /\ r \in Seq(Notices) /\ Len(s) \in Nat
      /\ \A i \in DOMAIN s : i \in Nat /\ i <= Len(s) /\ i \in DOMAIN r /\ r[i] = s[i]
      /\ \A j \in DOMAIN e : j \in Nat /\ j >= 1 /\ Len(s) + j \in DOMAIN r /\ r[Len(s) + j] = e[j]
      /\ \A i \in DOMAIN r : i \in DOMAIN s \/ \E j \in DOMAIN e : i = Len(s) + j
  BY <1>2, Grown
<1> QED BY <1>1, <1>3

\* The server speaks: what was still to come comes, and what it starts it runs.
LEMMA ServerSpeaks ==
    ASSUME RunInv, NEW e \in Seq(Notices), Tells(e)
    PROVE  RunInv'
<1> USE DEF RunInv
<1>1. /\ stream' \in Seq(Notices) /\ Len(stream) \in Nat
      /\ \A i \in DOMAIN stream : i \in Nat /\ i <= Len(stream) /\ i \in DOMAIN stream' /\ stream'[i] = stream[i]
      /\ \A j \in DOMAIN e : j \in Nat /\ j >= 1 /\ Len(stream) + j \in DOMAIN stream' /\ stream'[Len(stream) + j] = e[j]
      /\ \A i \in DOMAIN stream' : i \in DOMAIN stream \/ \E j \in DOMAIN e : i = Len(stream) + j
  <2>1. stream \in Seq(Notices) /\ stream' = stream \o e BY DEF RunTyped, Tells
  <2> HIDE DEF RunInv
  <2> QED BY <2>1, Said
<1> USE DEF Tells
<1>2. RunTyped' BY <1>1 DEF RunTyped
<1>3. Subscribed' BY <1>1 DEF Subscribed
<1>4. OneAnswer'
  <2>1. CASE turnAsked' = turnAsked /\ \A j \in DOMAIN e : e[j].kind \notin {"sent", "refused"}
    <3>1. \A i : AnswersAsk(i)' => AnswersAsk(i) BY <1>1, <2>1 DEF AnswersAsk
    <3> QED BY <2>1, <3>1 DEF OneAnswer
  <2>2. CASE /\ turnAsked # <<>> /\ turnAsked[1].steer # -1 /\ turnAsked' # <<>> /\ turnAsked'[1].steer = -1
             /\ \A j, k \in DOMAIN e : e[j].kind \in {"sent", "refused"} /\ e[k].kind \in {"sent", "refused"}
                                         => j = k
    <3>1. \A i : ~AnswersAsk(i) BY <2>2 DEF OneAnswer
    <3>2. \A i : AnswersAsk(i)' => \E j \in DOMAIN e : i = Len(stream) + j /\ e[j].kind \in {"sent", "refused"}
      BY <1>1, <3>1 DEF AnswersAsk
    <3> QED BY <2>2, <3>2 DEF OneAnswer
  <2> QED BY <2>1, <2>2
<1>5. ASSUME NEW t \in resumed, NEW n, NEW i \in Nat, n # 0, i <= Len(stream), EndsAfter(t, n, i)
      PROVE  EndsAfter(t, n, i)'
  <2>1. CASE serverTurn[t] = n
    <3>1. CASE serverTurn'[t] = n BY <3>1 DEF EndsAfter
    <3>2. CASE \E j \in DOMAIN e : e[j].kind = "completed" /\ e[j].task = t /\ e[j].turn = n
      <4>1. PICK j \in DOMAIN e : e[j].kind = "completed" /\ e[j].task = t /\ e[j].turn = n BY <3>2
      <4>2. Len(stream) + j \in DOMAIN stream' /\ stream'[Len(stream) + j] = e[j] /\ Len(stream) + j > i
        <5>1. /\ j \in Nat /\ j >= 1 /\ Len(stream) \in Nat
              /\ Len(stream) + j \in DOMAIN stream' /\ stream'[Len(stream) + j] = e[j]
          BY <1>1
        <5>2. Len(stream) + j > i BY <5>1, <1>5
        <5> QED BY <5>1, <5>2
      <4> QED BY <4>1, <4>2 DEF EndsAfter
    <3> QED BY <1>5, <2>1, <3>1, <3>2
  <2>2. CASE \E j \in DOMAIN stream : j > i /\ stream[j].kind = "completed" /\ stream[j].task = t
                                      /\ stream[j].turn = n
    BY <1>1, <2>2 DEF EndsAfter
  <2> QED BY <1>5, <2>1, <2>2 DEF EndsAfter
<1>6. ASSUME NEW t \in resumed, NEW i \in Nat, i <= Len(stream), IdleAfter(t, i)
      PROVE  IdleAfter(t, i)'
  <2>1. CASE serverTurn[t] # 0
    <3>1. CASE serverTurn'[t] # 0 BY <3>1 DEF IdleAfter
    <3>2. CASE \E j \in DOMAIN e : e[j].kind = "idle" /\ e[j].task = t
      <4>1. PICK j \in DOMAIN e : e[j].kind = "idle" /\ e[j].task = t BY <3>2
      <4>2. Len(stream) + j \in DOMAIN stream' /\ stream'[Len(stream) + j] = e[j] /\ Len(stream) + j > i
        <5>1. /\ j \in Nat /\ j >= 1 /\ Len(stream) \in Nat
              /\ Len(stream) + j \in DOMAIN stream' /\ stream'[Len(stream) + j] = e[j]
          BY <1>1
        <5>2. Len(stream) + j > i BY <5>1, <1>6
        <5> QED BY <5>1, <5>2
      <4> QED BY <4>1, <4>2 DEF IdleAfter
    <3> QED BY <2>1, <3>1, <3>2
  <2>2. CASE \E j \in DOMAIN stream : j > i /\ stream[j].kind = "idle" /\ stream[j].task = t
    BY <1>1, <2>2 DEF IdleAfter
  <2> QED BY <1>6, <2>1, <2>2 DEF IdleAfter
<1>7. Cleared'
  <2>1. \A t \in busy' \cup turnProgress' : IdleAfter(t, 0)' BY <1>1, <1>6 DEF Cleared, Subscribed
  <2>2. ASSUME NEW i \in DOMAIN stream', stream'[i].kind \in {"started", "plan", "sent"},
               NEW t \in Threads, t = stream'[i].task
        PROVE  IdleAfter(t, i)'
    <3>1. CASE i \in DOMAIN stream
      <4>1. /\ stream[i].kind \in {"started", "plan", "sent"} /\ stream[i].task = t
            /\ t \in resumed /\ i \in Nat /\ i <= Len(stream)
        BY <1>1, <2>2, <3>1 DEF Subscribed
      <4>2. IdleAfter(t, i) BY <3>1, <4>1 DEF Cleared
      <4> QED BY <1>6, <4>1, <4>2
    <3>2. CASE \E j \in DOMAIN e : i = Len(stream) + j
      <4>1. PICK j \in DOMAIN e : i = Len(stream) + j BY <3>2
      <4>2. stream'[i] = e[j] BY <1>1, <4>1
      <4>3. serverTurn'[t] # 0 BY <2>2, <4>2
      <4> QED BY <4>3 DEF IdleAfter
    <3> QED BY <1>1, <3>1, <3>2
  <2>3. ASSUME NEW i \in DOMAIN stream', stream'[i].kind = "started",
               NEW t \in Threads, t = stream'[i].task, NEW n \in Nat, n = stream'[i].turn
        PROVE  EndsAfter(t, n, i)'
    <3>1. CASE i \in DOMAIN stream
      <4>1. /\ stream[i].kind = "started" /\ stream[i].task = t /\ stream[i].turn = n
            /\ t \in resumed /\ i \in Nat /\ i <= Len(stream)
        BY <1>1, <2>3, <3>1 DEF Subscribed
      <4>2. n # 0
        <5>1. stream[i] \in Notices BY <3>1, ElementOfSeq, LenProperties DEF RunTyped
        <5> QED BY <4>1, <5>1 DEF Notices
      <4>3. EndsAfter(t, n, i) BY <3>1, <4>1 DEF Cleared
      <4> QED BY <1>5, <4>1, <4>2, <4>3
    <3>2. CASE \E j \in DOMAIN e : i = Len(stream) + j
      <4>1. PICK j \in DOMAIN e : i = Len(stream) + j BY <3>2
      <4>2. stream'[i] = e[j] BY <1>1, <4>1
      <4>3. serverTurn'[t] = n BY <2>3, <4>2
      <4> QED BY <4>3 DEF EndsAfter
    <3> QED BY <1>1, <3>1, <3>2
  <2> QED BY <2>1, <2>2, <2>3 DEF Cleared
<1>8. TurnsCleared'
  <2> SUFFICES ASSUME NEW t \in Threads, NEW n \in turns[t]
               PROVE  EndsAfter(t, n, 0)' \/ Steered(t, n)' \/ Refusal(t)'
    BY DEF TurnsCleared
  <2>1. t \in resumed /\ n \in Nat \ {0} BY DEF Subscribed, RunTyped
  <2>2. CASE EndsAfter(t, n, 0) BY <1>1, <1>5, <2>1, <2>2
  <2>3. CASE Refusal(t) BY <1>1, <2>3 DEF Refusal
  <2>4. CASE Steered(t, n)
    <3>1. CASE turnAsked' = turnAsked BY <2>4, <3>1 DEF Steered
    <3>2. CASE serverTurn'[t] = n BY <3>2 DEF EndsAfter
    <3>3. CASE \E j \in DOMAIN e : e[j].kind = "refused" /\ e[j].task = t
      <4>1. PICK j \in DOMAIN e : e[j].kind = "refused" /\ e[j].task = t BY <3>3
      <4>2. Len(stream) + j \in DOMAIN stream' /\ stream'[Len(stream) + j] = e[j] BY <1>1
      <4> QED BY <4>1, <4>2 DEF Refusal
    <3> QED BY <2>1, <2>4, <3>1, <3>2, <3>3
  <2> QED BY <2>2, <2>3, <2>4 DEF TurnsCleared
<1> QED BY <1>2, <1>3, <1>4, <1>7, <1>8

LEMMA ElsewhereStarts == RunInv /\ Turn!StartElsewhere => RunInv'
<1> SUFFICES ASSUME RunInv, Turn!StartElsewhere PROVE RunInv' OBVIOUS
<1>1. PICK t \in Threads :
        /\ serverTurn[t] = 0 /\ lastTurn' = lastTurn + 1
        /\ serverTurn' = [serverTurn EXCEPT ![t] = lastTurn + 1]
        /\ stream' = IF t \in resumed
                     THEN stream \o <<[kind |-> "started", task |-> t, turn |-> lastTurn + 1]>> ELSE stream
        /\ UNCHANGED <<resumed, turnActive, activeTurn, busy, turnProgress, turns, turnMoves, turnAsked>>
  BY DEF Turn!StartElsewhere, Turn!StartTurn, Turn!Notify, Turn!Starting, Turn!ClientSame
<1>2. PICK e : e = IF t \in resumed THEN <<[kind |-> "started", task |-> t, turn |-> lastTurn + 1]>> ELSE <<>>
  OBVIOUS
<1>3. lastTurn \in Nat /\ lastTurn + 1 \in Nat \ {0} BY DEF RunInv, RunTyped
<1>4. [kind |-> "started", task |-> t, turn |-> lastTurn + 1] \in Notices BY <1>3 DEF Notices
<1>5. e \in Seq(Notices) BY <1>2, <1>4
<1>6. stream \in Seq(Notices) BY DEF RunInv, RunTyped
<1>7. stream' = stream \o e
  <2>1. stream \o <<>> = stream BY <1>6, ConcatEmptySeq
  <2> QED BY <1>1, <1>2, <2>1
<1>8. \A j \in DOMAIN e : /\ t \in resumed /\ e[j].kind = "started" /\ e[j].task = t
                          /\ e[j].turn = lastTurn + 1
  BY <1>2
<1>9. serverTurn' \in [Threads -> Nat] /\ lastTurn' \in Nat /\ serverTurn'[t] = lastTurn + 1
      /\ \A u \in resumed : serverTurn[u] # 0 => serverTurn'[u] = serverTurn[u]
  BY <1>1, <1>3 DEF RunInv, RunTyped
<1> QED
  <2>1. /\ turnAsked' = turnAsked
        /\ UNCHANGED <<resumed, turnActive, activeTurn, busy, turnProgress, turns, turnMoves>>
    BY <1>1
  <2>2. /\ turnAsked' = <<>> \/ \E a \in Asks : turnAsked' = <<a>>
        /\ turnAsked' # <<>> => turnAsked'[1].task \in resumed
    BY <2>1 DEF RunInv, RunTyped, Subscribed
  <2>9. Tells(e) BY <1>3, <1>5, <1>7, <1>8, <1>9, <2>1, <2>2 DEF Tells
  <2> HIDE DEF RunInv
  <2> QED BY <1>5, <2>9, ServerSpeaks

LEMMA PlanComes == RunInv /\ Turn!Plan => RunInv'
<1> SUFFICES ASSUME RunInv, Turn!Plan PROVE RunInv' OBVIOUS
<1>1. PICK t \in Threads :
        /\ serverTurn[t] # 0
        /\ stream' = IF t \in resumed
                     THEN stream \o <<[kind |-> "plan", task |-> t, turn |-> serverTurn[t]]>> ELSE stream
        /\ UNCHANGED <<serverTurn, lastTurn, resumed, turnActive, activeTurn, busy, turnProgress, turns,
                       turnMoves, turnAsked>>
  BY DEF Turn!Plan, Turn!Notify, Turn!ClientSame
<1>2. PICK e : e = IF t \in resumed THEN <<[kind |-> "plan", task |-> t, turn |-> serverTurn[t]]>> ELSE <<>>
  OBVIOUS
<1>3. serverTurn[t] \in Nat \ {0} BY <1>1 DEF RunInv, RunTyped
<1>4. [kind |-> "plan", task |-> t, turn |-> serverTurn[t]] \in Notices BY <1>3 DEF Notices
<1>5. e \in Seq(Notices) BY <1>2, <1>4
<1>6. stream \in Seq(Notices) BY DEF RunInv, RunTyped
<1>7. stream' = stream \o e
  <2>1. stream \o <<>> = stream BY <1>6, ConcatEmptySeq
  <2> QED BY <1>1, <1>2, <2>1
<1>8. \A j \in DOMAIN e : t \in resumed /\ e[j].kind = "plan" /\ e[j].task = t
  BY <1>2
<1>9. serverTurn' \in [Threads -> Nat] /\ lastTurn' \in Nat /\ serverTurn' = serverTurn
  BY <1>1 DEF RunInv, RunTyped
<1> QED
  <2>1. /\ turnAsked' = turnAsked
        /\ UNCHANGED <<resumed, turnActive, activeTurn, busy, turnProgress, turns, turnMoves>>
    BY <1>1
  <2>2. /\ turnAsked' = <<>> \/ \E a \in Asks : turnAsked' = <<a>>
        /\ turnAsked' # <<>> => turnAsked'[1].task \in resumed
    BY <2>1 DEF RunInv, RunTyped, Subscribed
  <2>9. Tells(e) BY <1>1, <1>5, <1>7, <1>8, <1>9, <2>1, <2>2 DEF Tells
  <2> HIDE DEF RunInv
  <2> QED BY <1>5, <2>9, ServerSpeaks

LEMMA TurnEnds == RunInv /\ Turn!EndTurn => RunInv'
<1> SUFFICES ASSUME RunInv, Turn!EndTurn PROVE RunInv' OBVIOUS
<1>1. PICK t \in Threads :
        /\ serverTurn[t] # 0 /\ serverTurn' = [serverTurn EXCEPT ![t] = 0]
        /\ stream' = IF t \in resumed
                     THEN stream \o <<[kind |-> "completed", task |-> t, turn |-> serverTurn[t]],
                                      [kind |-> "idle", task |-> t]>>
                     ELSE stream
        /\ UNCHANGED <<lastTurn, resumed, turnActive, activeTurn, busy, turnProgress, turns,
                       turnMoves, turnAsked>>
  BY DEF Turn!EndTurn, Turn!Notify, Turn!ClientSame
<1>2. PICK e : e = IF t \in resumed
                   THEN <<[kind |-> "completed", task |-> t, turn |-> serverTurn[t]],
                          [kind |-> "idle", task |-> t]>>
                   ELSE <<>>
  OBVIOUS
<1>3. serverTurn[t] \in Nat \ {0} BY <1>1 DEF RunInv, RunTyped
<1>4. /\ [kind |-> "completed", task |-> t, turn |-> serverTurn[t]] \in Notices
      /\ [kind |-> "idle", task |-> t] \in Notices
  BY <1>3 DEF Notices
<1>5. e \in Seq(Notices) BY <1>2, <1>4
<1>6. stream \in Seq(Notices) BY DEF RunInv, RunTyped
<1>7. stream' = stream \o e
  <2>1. stream \o <<>> = stream BY <1>6, ConcatEmptySeq
  <2> QED BY <1>1, <1>2, <2>1
<1>8. \A j \in DOMAIN e : t \in resumed /\ e[j].kind \in {"completed", "idle"} /\ e[j].task = t
  BY <1>2
<1>9. serverTurn' \in [Threads -> Nat] /\ lastTurn' \in Nat
  BY <1>1 DEF RunInv, RunTyped
<1>10. ASSUME NEW u \in resumed, serverTurn[u] # 0
       PROVE  \/ serverTurn'[u] = serverTurn[u]
              \/ /\ \E j \in DOMAIN e : e[j].kind = "completed" /\ e[j].task = u /\ e[j].turn = serverTurn[u]
                 /\ \E j \in DOMAIN e : e[j].kind = "idle" /\ e[j].task = u
  <2>1. u \in Threads BY DEF RunInv, RunTyped
  <2>2. CASE u = t
    <3>1. 1 \in DOMAIN e /\ 2 \in DOMAIN e
          /\ e[1] = [kind |-> "completed", task |-> t, turn |-> serverTurn[t]]
          /\ e[2] = [kind |-> "idle", task |-> t]
      BY <1>2, <2>2
    <3> QED BY <2>2, <3>1
  <2> QED BY <1>1, <2>1, <2>2 DEF RunInv, RunTyped
<1>11. /\ \A j \in DOMAIN e : e[j].task \in resumed
       /\ \A j \in DOMAIN e : e[j].kind \in {"started", "plan", "sent"} => serverTurn'[e[j].task] # 0
       /\ \A j \in DOMAIN e : e[j].kind = "started" => serverTurn'[e[j].task] = e[j].turn
       /\ \A j \in DOMAIN e : e[j].kind \notin {"sent", "refused"}
  BY <1>8
<1> QED
  <2>1. /\ turnAsked' = turnAsked
        /\ UNCHANGED <<resumed, turnActive, activeTurn, busy, turnProgress, turns, turnMoves>>
    BY <1>1
  <2>2. /\ turnAsked' = <<>> \/ \E a \in Asks : turnAsked' = <<a>>
        /\ turnAsked' # <<>> => turnAsked'[1].task \in resumed
    BY <2>1 DEF RunInv, RunTyped, Subscribed
  <2>9. Tells(e) BY <1>5, <1>7, <1>9, <1>10, <1>11, <2>1, <2>2 DEF Tells
  <2> HIDE DEF RunInv
  <2> QED BY <1>5, <2>9, ServerSpeaks

LEMMA AskHandled == RunInv /\ Turn!HandleAsk => RunInv'
<1> SUFFICES ASSUME RunInv, Turn!HandleAsk PROVE RunInv' OBVIOUS
<1>1. PICK ask \in Asks : turnAsked = <<ask>>
  BY DEF RunInv, RunTyped, Turn!HandleAsk
<1>2. PICK t \in Threads, n \in Nat \cup {-1} : t = ask.task /\ n = ask.steer BY DEF Asks
<1>3. /\ n # -1 /\ t \in resumed /\ turnAsked[1] = ask /\ turnAsked # <<>>
      /\ turnAsked' = <<[ask EXCEPT !.steer = -1]>>
      /\ UNCHANGED <<resumed, turnActive, activeTurn, busy, turnProgress, turns, turnMoves>>
  BY <1>1, <1>2 DEF Turn!HandleAsk, Turn!Handled, Turn!ClientSame, RunInv, Subscribed
<1>4. /\ [ask EXCEPT !.steer = -1] \in Asks
      /\ turnAsked' # <<>> /\ turnAsked'[1].steer = -1 /\ turnAsked'[1].task = t
  BY <1>2, <1>3 DEF Asks
<1>5. PICK e \in Seq(Notices) :
        /\ stream' = stream \o e
        /\ serverTurn' \in [Threads -> Nat] /\ lastTurn' \in Nat
        /\ \A u \in resumed : serverTurn[u] # 0 => serverTurn'[u] = serverTurn[u]
        /\ \A j \in DOMAIN e : e[j].task = t
        /\ \A j \in DOMAIN e : e[j].kind \in {"started", "plan", "sent"} => serverTurn'[t] # 0
        /\ \A j \in DOMAIN e : e[j].kind = "started" => serverTurn'[t] = e[j].turn
        /\ \A j, k \in DOMAIN e : e[j].kind \in {"sent", "refused"} /\ e[k].kind \in {"sent", "refused"}
                                    => j = k
        /\ n = 0 \/ serverTurn'[t] = n \/ \E j \in DOMAIN e : e[j].kind = "refused" /\ e[j].task = t
  <2>1. /\ stream \in Seq(Notices) /\ serverTurn \in [Threads -> Nat] /\ lastTurn \in Nat
        /\ resumed \subseteq Threads
    BY DEF RunInv, RunTyped
  <2>2. CASE /\ n = 0 /\ serverTurn[t] = 0 /\ lastTurn' = lastTurn + 1
             /\ serverTurn' = [serverTurn EXCEPT ![t] = lastTurn + 1]
             /\ stream' = stream \o <<[kind |-> "sent", task |-> t, turn |-> lastTurn + 1]>>
                                 \o <<[kind |-> "started", task |-> t, turn |-> lastTurn + 1]>>
    <3>1. PICK a, b : /\ a = [kind |-> "sent", task |-> t, turn |-> lastTurn + 1]
                      /\ b = [kind |-> "started", task |-> t, turn |-> lastTurn + 1]
      OBVIOUS
    <3>2. a \in Notices /\ b \in Notices BY <2>1, <3>1 DEF Notices
    <3>3. (stream \o <<a>>) \o <<b>> = stream \o <<a, b>>
      <4>1. (stream \o <<a>>) \o <<b>> = stream \o (<<a>> \o <<b>>)
        BY <2>1, <3>2, ConcatAssociative
      <4>2. <<a>> \o <<b>> = Append(<<a>>, b)
        <5>1. <<a>> \in Seq(Notices) BY <3>2
        <5> QED BY <3>2, <5>1, AppendIsConcat
      <4>3. Append(<<a>>, b) = <<a, b>>
        <5>1. <<a>> \in Seq(Notices) /\ Len(<<a>>) = 1 /\ <<a>>[1] = a BY <3>2
        <5>2. /\ Append(<<a>>, b) \in Seq(Notices) /\ Len(Append(<<a>>, b)) = 2
              /\ Append(<<a>>, b)[1] = a /\ Append(<<a>>, b)[2] = b
          BY <3>2, <5>1, AppendProperties
        <5>3. <<a, b>> \in Seq(Notices) /\ Len(<<a, b>>) = 2 /\ <<a, b>>[1] = a /\ <<a, b>>[2] = b
          BY <3>2
        <5>4. \A i \in 1..2 : i = 1 \/ i = 2 OBVIOUS
        <5> QED BY <5>2, <5>3, <5>4, SeqEqual
      <4>4. (stream \o <<a>>) \o <<b>> = stream \o Append(<<a>>, b) BY <4>1, <4>2
      <4> QED BY <4>3, <4>4
    <3>4. PICK e : e = <<a, b>> OBVIOUS
    <3>5. e \in Seq(Notices) /\ DOMAIN e = {1, 2} /\ e[1] = a /\ e[2] = b BY <3>2, <3>4
    <3>6. stream' = stream \o e BY <2>2, <3>1, <3>3, <3>4
    <3>7. /\ serverTurn' \in [Threads -> Nat] /\ lastTurn' \in Nat /\ serverTurn'[t] = lastTurn + 1
          /\ \A u \in resumed : serverTurn[u] # 0 => serverTurn'[u] = serverTurn[u]
      BY <2>1, <2>2
    <3>8. /\ \A j \in DOMAIN e : e[j].task = t
          /\ \A j \in DOMAIN e : e[j].kind = "started" => serverTurn'[t] = e[j].turn
          /\ \A j, k \in DOMAIN e : e[j].kind \in {"sent", "refused"} /\ e[k].kind \in {"sent", "refused"}
                                      => j = k
      BY <3>1, <3>5, <3>7
    <3>9. serverTurn'[t] # 0 BY <2>1, <3>7
    <3> QED BY <2>2, <3>5, <3>6, <3>7, <3>8, <3>9
  <2>3. CASE /\ serverTurn[t] # 0 /\ n \in {0, serverTurn[t]}
             /\ stream' = Append(stream, [kind |-> "sent", task |-> t, turn |-> serverTurn[t]])
             /\ UNCHANGED <<serverTurn, lastTurn>>
    <3>1. PICK a : a = [kind |-> "sent", task |-> t, turn |-> serverTurn[t]] OBVIOUS
    <3>2. a \in Notices BY <2>1, <2>3, <3>1 DEF Notices
    <3>3. PICK e : e = <<a>> OBVIOUS
    <3>4. e \in Seq(Notices) /\ DOMAIN e = {1} /\ e[1] = a BY <3>2, <3>3
    <3>5. stream' = stream \o e BY <2>1, <2>3, <3>1, <3>2, <3>3, AppendIsConcat
    <3>6. /\ serverTurn' \in [Threads -> Nat] /\ lastTurn' \in Nat
          /\ \A u \in resumed : serverTurn[u] # 0 => serverTurn'[u] = serverTurn[u]
          /\ \A j \in DOMAIN e : e[j].task = t
          /\ \A j \in DOMAIN e : e[j].kind \in {"started", "plan", "sent"} => serverTurn'[t] # 0
          /\ \A j \in DOMAIN e : e[j].kind = "started" => serverTurn'[t] = e[j].turn
          /\ \A j, k \in DOMAIN e : e[j].kind \in {"sent", "refused"} /\ e[k].kind \in {"sent", "refused"}
                                      => j = k
      BY <2>1, <2>3, <3>1, <3>4
    <3>7. n = 0 \/ serverTurn'[t] = n \/ \E j \in DOMAIN e : e[j].kind = "refused" /\ e[j].task = t
      BY <2>1, <2>3, <3>1, <3>4
    <3> QED BY <3>4, <3>5, <3>6, <3>7
  <2>4. CASE /\ stream' = Append(stream, [kind |-> "refused", task |-> t])
             /\ UNCHANGED <<serverTurn, lastTurn>>
    <3>1. PICK a : a = [kind |-> "refused", task |-> t] OBVIOUS
    <3>2. a \in Notices BY <3>1 DEF Notices
    <3>3. PICK e : e = <<a>> OBVIOUS
    <3>4. e \in Seq(Notices) /\ DOMAIN e = {1} /\ e[1] = a BY <3>2, <3>3
    <3>5. stream' = stream \o e BY <2>1, <2>4, <3>1, <3>2, <3>3, AppendIsConcat
    <3>6. /\ serverTurn' \in [Threads -> Nat] /\ lastTurn' \in Nat
          /\ \A u \in resumed : serverTurn[u] # 0 => serverTurn'[u] = serverTurn[u]
          /\ \A j \in DOMAIN e : e[j].task = t
          /\ \A j \in DOMAIN e : e[j].kind \in {"started", "plan", "sent"} => serverTurn'[t] # 0
          /\ \A j \in DOMAIN e : e[j].kind = "started" => serverTurn'[t] = e[j].turn
          /\ \A j, k \in DOMAIN e : e[j].kind \in {"sent", "refused"} /\ e[k].kind \in {"sent", "refused"}
                                      => j = k
      BY <2>1, <2>4, <3>1, <3>4
    <3>7. n = 0 \/ serverTurn'[t] = n \/ \E j \in DOMAIN e : e[j].kind = "refused" /\ e[j].task = t
      BY <2>1, <2>4, <3>1, <3>4
    <3> QED BY <3>4, <3>5, <3>6, <3>7
  <2> QED BY <1>2, <1>3, <2>2, <2>3, <2>4 DEF Turn!HandleAsk, Turn!StartTurn, Turn!Starting
<1>6. /\ \A j \in DOMAIN e : e[j].task \in resumed
      /\ \A j \in DOMAIN e : e[j].kind \in {"started", "plan", "sent"} => serverTurn'[e[j].task] # 0
      /\ \A j \in DOMAIN e : e[j].kind = "started" => serverTurn'[e[j].task] = e[j].turn
  BY <1>3, <1>5
<1>7. /\ turnAsked' = <<>> \/ \E a \in Asks : turnAsked' = <<a>>
      /\ turnAsked' # <<>> => turnAsked'[1].task \in resumed
      /\ turnAsked[1].steer # -1
      /\ \A u \in Threads : \A m \in Nat : Steered(u, m) => u = t /\ m = n
  BY <1>2, <1>3, <1>4 DEF Steered
<1>8. /\ turnAsked # <<>> /\ turnAsked[1].steer # -1 /\ turnAsked' # <<>> /\ turnAsked'[1].steer = -1
      /\ \A j, k \in DOMAIN e : e[j].kind \in {"sent", "refused"} /\ e[k].kind \in {"sent", "refused"}
                                  => j = k
      /\ \A u \in Threads : \A m \in Nat : Steered(u, m) =>
           m = 0 \/ serverTurn'[u] = m \/ \E j \in DOMAIN e : e[j].kind = "refused" /\ e[j].task = u
  BY <1>3, <1>4, <1>5, <1>7
<1> QED
  <2>1. \A u \in resumed : serverTurn[u] # 0 =>
          \/ serverTurn'[u] = serverTurn[u]
          \/ /\ \E j \in DOMAIN e : e[j].kind = "completed" /\ e[j].task = u /\ e[j].turn = serverTurn[u]
             /\ \E j \in DOMAIN e : e[j].kind = "idle" /\ e[j].task = u
    BY <1>5
  <2>9. Tells(e) BY <1>3, <1>5, <1>6, <1>7, <1>8, <2>1 DEF Tells
  <2> HIDE DEF RunInv
  <2> QED BY <1>5, <2>9, ServerSpeaks

\* The window takes what is first on the stream.
LEMMA WindowTakes ==
    ASSUME RunInv, stream # <<>>, stream' = Tail(stream), serverTurn' = serverTurn,
           NEW h, h = Head(stream)
    PROVE  /\ h \in Notices /\ h.task \in resumed /\ stream' \in Seq(Notices)
           /\ \A i \in DOMAIN stream' : stream'[i].task \in resumed
           /\ \A t \in Threads : IdleAfter(t, 0) => IdleAfter(t, 0)' \/ (h.kind = "idle" /\ h.task = t)
           /\ h.kind \in {"started", "plan", "sent"} => IdleAfter(h.task, 0)'
           /\ \A t \in Threads : \A n \in Nat \ {0} :
                EndsAfter(t, n, 0) =>
                  EndsAfter(t, n, 0)' \/ (h.kind = "completed" /\ h.task = t /\ h.turn = n)
           /\ h.kind = "started" => EndsAfter(h.task, h.turn, 0)'
           /\ \A i \in DOMAIN stream' : \A t \in Threads :
                stream'[i].kind \in {"started", "plan", "sent"} /\ stream'[i].task = t => IdleAfter(t, i)'
           /\ \A i \in DOMAIN stream' : \A t \in Threads : \A n \in Nat :
                stream'[i].kind = "started" /\ stream'[i].task = t /\ stream'[i].turn = n => EndsAfter(t, n, i)'
           /\ \A i : AnswersAsk(i)' => AnswersAsk(i + 1) /\ i \in Nat /\ i # 0
           /\ h.kind \in {"sent", "refused"} => AnswersAsk(1)
           /\ \A t \in Threads : Refusal(t) => Refusal(t)' \/ (h.kind = "refused" /\ h.task = t)
           /\ \A t \in Threads : Refusal(t) => \E i \in Nat : AnswersAsk(i) /\ stream[i].task = t
                                                 /\ stream[i].kind = "refused"
<1>1. /\ stream \in Seq(Notices) /\ serverTurn \in [Threads -> Nat] /\ resumed \subseteq Threads
  BY DEF RunInv, RunTyped
<1>2. /\ h \in Notices /\ h = stream[1] /\ 1 \in DOMAIN stream /\ stream' \in Seq(Notices)
      /\ \A i \in DOMAIN stream' : i \in Nat /\ i >= 1 /\ i + 1 \in DOMAIN stream /\ stream'[i] = stream[i + 1]
      /\ \A i \in DOMAIN stream : i \in Nat /\ i >= 1 /\ (i = 1 \/ i - 1 \in DOMAIN stream')
  BY <1>1, Drained
<1>3. ASSUME NEW t \in Threads, NEW i \in Nat, IdleAfter(t, i + 1) PROVE IdleAfter(t, i)'
  <2>1. CASE \E j \in DOMAIN stream : j > i + 1 /\ stream[j].kind = "idle" /\ stream[j].task = t
    <3>1. PICK j \in DOMAIN stream : j > i + 1 /\ stream[j].kind = "idle" /\ stream[j].task = t BY <2>1
    <3>2. j - 1 \in DOMAIN stream' /\ stream'[j - 1] = stream[j] /\ j - 1 > i BY <1>2, <3>1
    <3> QED BY <3>1, <3>2 DEF IdleAfter
  <2> QED BY <1>3, <2>1 DEF IdleAfter
<1>4. ASSUME NEW t \in Threads, NEW n \in Nat, NEW i \in Nat, EndsAfter(t, n, i + 1) PROVE EndsAfter(t, n, i)'
  <2>1. CASE \E j \in DOMAIN stream : j > i + 1 /\ stream[j].kind = "completed" /\ stream[j].task = t
                                      /\ stream[j].turn = n
    <3>1. PICK j \in DOMAIN stream : j > i + 1 /\ stream[j].kind = "completed" /\ stream[j].task = t
                                     /\ stream[j].turn = n
      BY <2>1
    <3>2. j - 1 \in DOMAIN stream' /\ stream'[j - 1] = stream[j] /\ j - 1 > i BY <1>2, <3>1
    <3> QED BY <3>1, <3>2 DEF EndsAfter
  <2> QED BY <1>4, <2>1 DEF EndsAfter
<1>5. ASSUME NEW t \in Threads, IdleAfter(t, 0), ~(h.kind = "idle" /\ h.task = t) PROVE IdleAfter(t, 0)'
  <2>1. IdleAfter(t, 1) BY <1>2, <1>5 DEF IdleAfter
  <2> QED BY <1>3, <2>1
<1>6. ASSUME NEW t \in Threads, NEW n \in Nat, EndsAfter(t, n, 0),
             ~(h.kind = "completed" /\ h.task = t /\ h.turn = n)
      PROVE  EndsAfter(t, n, 0)'
  <2>1. EndsAfter(t, n, 1) BY <1>2, <1>6 DEF EndsAfter
  <2> QED BY <1>4, <2>1
<1>7. h.task \in resumed /\ \A i \in DOMAIN stream' : stream'[i].task \in resumed
  BY <1>2 DEF RunInv, Subscribed
<1>8. ASSUME h.kind \in {"started", "plan", "sent"} PROVE IdleAfter(h.task, 0)'
  <2>1. PICK t \in Threads : t = h.task BY <1>1, <1>7
  <2>2. IdleAfter(t, 1) BY <1>2, <1>8, <2>1 DEF RunInv, Cleared
  <2>3. IdleAfter(t, 0)' BY <1>3, <2>2
  <2> QED BY <2>1, <2>3
<1>9. ASSUME h.kind = "started" PROVE EndsAfter(h.task, h.turn, 0)'
  <2>1. PICK t \in Threads : t = h.task BY <1>1, <1>7
  <2>2. PICK n \in Nat : n = h.turn BY <1>2, <1>9 DEF Notices
  <2>3. EndsAfter(t, n, 1) BY <1>2, <1>9, <2>1, <2>2 DEF RunInv, Cleared
  <2>4. EndsAfter(t, n, 0)' BY <1>4, <2>3
  <2> QED BY <2>1, <2>2, <2>4
<1>10. ASSUME NEW i \in DOMAIN stream', NEW t \in Threads,
              stream'[i].kind \in {"started", "plan", "sent"}, stream'[i].task = t
       PROVE  IdleAfter(t, i)'
  <2>1. IdleAfter(t, i + 1) BY <1>2, <1>10 DEF RunInv, Cleared
  <2> QED BY <1>2, <1>3, <2>1
<1>11. ASSUME NEW i \in DOMAIN stream', NEW t \in Threads, NEW n \in Nat,
              stream'[i].kind = "started", stream'[i].task = t, stream'[i].turn = n
       PROVE  EndsAfter(t, n, i)'
  <2>1. EndsAfter(t, n, i + 1) BY <1>2, <1>11 DEF RunInv, Cleared
  <2> QED BY <1>2, <1>4, <2>1
<1>12. /\ \A i : AnswersAsk(i)' => AnswersAsk(i + 1) /\ i \in Nat /\ i # 0
       /\ h.kind \in {"sent", "refused"} => AnswersAsk(1)
  BY <1>2 DEF AnswersAsk
<1>13. ASSUME NEW t \in Threads, Refusal(t)
       PROVE  /\ Refusal(t)' \/ (h.kind = "refused" /\ h.task = t)
              /\ \E i \in Nat : AnswersAsk(i) /\ stream[i].task = t /\ stream[i].kind = "refused"
  <2>1. PICK j \in DOMAIN stream : stream[j].kind = "refused" /\ stream[j].task = t BY <1>13 DEF Refusal
  <2>2. AnswersAsk(j) /\ j \in Nat BY <1>2, <2>1 DEF AnswersAsk
  <2>3. CASE j # 1
    <3>1. j - 1 \in DOMAIN stream' /\ stream'[j - 1] = stream[j] BY <1>2, <2>3
    <3> QED BY <2>1, <2>2, <3>1 DEF Refusal
  <2> QED BY <1>2, <2>1, <2>2, <2>3
<1> QED BY <1>2, <1>5, <1>6, <1>7, <1>8, <1>9, <1>10, <1>11, <1>12, <1>13

\* Nothing is both cleared and still marked.
LEMMA AnswerTaken == RunInv /\ Turn!Receive => RunInv'
<1> SUFFICES ASSUME RunInv, Turn!Receive PROVE RunInv' OBVIOUS
<1>1. PICK h : h = Head(stream) OBVIOUS
<1>2. /\ stream # <<>> /\ stream' = Tail(stream)
      /\ UNCHANGED <<resumed, turnActive, turnMoves, serverTurn, lastTurn>>
  BY DEF Turn!Receive, Turn!Same
<1>3. /\ h \in Notices /\ h.task \in resumed /\ stream' \in Seq(Notices)
      /\ \A i \in DOMAIN stream' : stream'[i].task \in resumed
      /\ \A t \in Threads : IdleAfter(t, 0) => IdleAfter(t, 0)' \/ (h.kind = "idle" /\ h.task = t)
      /\ h.kind \in {"started", "plan", "sent"} => IdleAfter(h.task, 0)'
      /\ \A t \in Threads : \A n \in Nat \ {0} :
           EndsAfter(t, n, 0) =>
             EndsAfter(t, n, 0)' \/ (h.kind = "completed" /\ h.task = t /\ h.turn = n)
      /\ h.kind = "started" => EndsAfter(h.task, h.turn, 0)'
      /\ \A i \in DOMAIN stream' : \A t \in Threads :
           stream'[i].kind \in {"started", "plan", "sent"} /\ stream'[i].task = t => IdleAfter(t, i)'
      /\ \A i \in DOMAIN stream' : \A t \in Threads : \A n \in Nat :
           stream'[i].kind = "started" /\ stream'[i].task = t /\ stream'[i].turn = n => EndsAfter(t, n, i)'
      /\ \A i : AnswersAsk(i)' => AnswersAsk(i + 1) /\ i \in Nat /\ i # 0
      /\ h.kind \in {"sent", "refused"} => AnswersAsk(1)
      /\ \A t \in Threads : Refusal(t) => Refusal(t)' \/ (h.kind = "refused" /\ h.task = t)
      /\ \A t \in Threads : Refusal(t) => \E i \in Nat : AnswersAsk(i) /\ stream[i].task = t
                                            /\ stream[i].kind = "refused"
  <2> HIDE DEF RunInv
  <2> QED BY <1>1, <1>2, WindowTakes
<1>4. PICK t \in Threads : t = h.task /\ t \in resumed BY <1>3 DEF RunInv, RunTyped
<1>5. /\ resumed \subseteq Threads /\ resumed' = resumed /\ turnActive' = turnActive
      /\ busy \subseteq resumed /\ turnProgress \subseteq resumed
      /\ turns \in [Threads -> SUBSET (Nat \ {0})] /\ activeTurn \in Nat
      /\ \A u \in Threads : turns[u] # {} => u \in resumed
      /\ turnActive \in resumed \cup {NoThread}
  BY <1>2 DEF RunInv, RunTyped, Subscribed
\* What each kind does to the marks.
<1>6. \/ /\ h.kind = "started"
         /\ activeTurn' \in Nat /\ busy' = busy \cup {t} /\ turnProgress' = turnProgress \cup {t}
         /\ turns' = [turns EXCEPT ![t] = @ \cup {h.turn}] /\ h.turn \in Nat \ {0} /\ turnAsked' = turnAsked
      \/ /\ h.kind = "plan" /\ turnProgress' = turnProgress \cup {t}
         /\ UNCHANGED <<activeTurn, busy, turns, turnAsked>>
      \/ /\ h.kind = "completed" /\ activeTurn' \in Nat /\ busy' \subseteq busy
         /\ turnProgress' \subseteq turnProgress /\ turns' = [turns EXCEPT ![t] = @ \ {h.turn}]
         /\ turnAsked' = turnAsked
      \/ /\ h.kind = "idle" /\ activeTurn' \in Nat /\ busy' = busy \ {t} /\ turnProgress' = turnProgress \ {t}
         /\ \E s \in SUBSET turns[t] : turns' = [turns EXCEPT ![t] = s]
         /\ turnAsked' = turnAsked
      \/ /\ h.kind = "sent" /\ turnAsked' = <<>> /\ activeTurn' \in Nat /\ busy' = busy \cup {t}
         /\ UNCHANGED <<turnProgress, turns>>
      \/ /\ h.kind = "refused" /\ activeTurn' \in Nat /\ busy' = busy \ {t}
         /\ turnProgress' = turnProgress \ {t} /\ turns' = [turns EXCEPT ![t] = {}]
         /\ turnAsked' = <<[task |-> t, steer |-> 0]>>
  <2>1. CASE h.kind = "started"
    <3>1. h.turn \in Nat \ {0} BY <1>3, <2>1 DEF Notices
    <3> QED BY <1>1, <1>4, <2>1, <3>1 DEF Turn!Receive
  <2>2. CASE h.kind = "plan" BY <1>1, <1>4, <2>2 DEF Turn!Receive
  <2>3. CASE h.kind = "completed"
    <3>1. h.turn \in Nat \ {0} BY <1>3, <2>3 DEF Notices
    <3>2. Turn!Complete(t, h.turn) /\ turnAsked' = turnAsked BY <1>1, <1>4, <2>3 DEF Turn!Receive
    <3> QED BY <1>5, <2>3, <3>1, <3>2 DEF Turn!Complete
  <2>4. CASE h.kind = "idle"
    <3>1. Turn!Complete(t, 0) /\ turnAsked' = turnAsked
      BY <1>1, <1>4, <2>4 DEF Turn!Receive, Turn!BecomeIdle
    <3>2. /\ activeTurn' \in Nat /\ busy' = busy \ {t} /\ turnProgress' = turnProgress \ {t}
          /\ \/ turns' = [turns EXCEPT ![t] = {}]
             \/ \E n : turns' = [turns EXCEPT ![t] = @ \ {n}]
      <4>1. ~Turn!NewerRuns(t, 0) BY DEF Turn!NewerRuns
      <4>2. /\ activeTurn' = IF turnActive = t THEN 0 ELSE activeTurn
            /\ busy' = busy \ {t} /\ turnProgress' = turnProgress \ {t}
        BY <3>1, <4>1 DEF Turn!Complete
      <4>3. PICK n : turns' = [turns EXCEPT ![t] = IF n = 0 THEN {} ELSE @ \ {n}]
        BY <3>1, <4>1 DEF Turn!Complete
      <4> QED BY <1>5, <4>2, <4>3
    <3>3. \E s \in SUBSET turns[t] : turns' = [turns EXCEPT ![t] = s] BY <3>2
    <3> QED BY <2>4, <3>1, <3>2, <3>3
  <2>5. CASE h.kind = "sent"
    <3>1. h.turn \in Nat \ {0} BY <1>3, <2>5 DEF Notices
    <3> QED BY <1>1, <1>4, <1>5, <2>5, <3>1 DEF Turn!Receive
  <2>6. CASE h.kind = "refused" BY <1>1, <1>4, <1>5, <2>6 DEF Turn!Receive, Turn!ClearStale
  <2> QED BY <1>3, <2>1, <2>2, <2>3, <2>4, <2>5, <2>6 DEF Notices
\* Only the turns of its task, and only a started one is added.
<1>12. /\ turns' \in [Threads -> SUBSET (Nat \ {0})]
       /\ \A u \in Threads : \A n \in turns'[u] : n \in turns[u] \/ (h.kind = "started" /\ u = t /\ n = h.turn)
  <2>1. CASE h.kind = "started" BY <1>5, <1>6, <2>1
  <2>2. CASE h.kind = "completed" BY <1>5, <1>6, <2>2
  <2>3. CASE h.kind = "idle"
    <3>1. PICK s \in SUBSET turns[t] : turns' = [turns EXCEPT ![t] = s] BY <1>6, <2>3
    <3> QED BY <1>5, <3>1
  <2>4. CASE h.kind \in {"plan", "sent"}
    <3>1. turns' = turns BY <1>6, <2>4
    <3> QED BY <1>5, <3>1
  <2>5. CASE h.kind = "refused"
    <3>1. turns' = [turns EXCEPT ![t] = {}] BY <1>6, <2>5
    <3> QED BY <1>5, <3>1
  <2> QED BY <1>6, <2>1, <2>2, <2>3, <2>4, <2>5
<1>7. RunTyped'
  <2>1. /\ serverTurn' \in [Threads -> Nat] /\ lastTurn' \in Nat
        /\ turnAsked = <<>> \/ \E a \in Asks : turnAsked = <<a>>
    BY <1>2 DEF RunInv, RunTyped
  <2>2. [task |-> t, steer |-> 0] \in Asks BY DEF Asks
  <2>3. turnAsked' = <<>> \/ \E a \in Asks : turnAsked' = <<a>> BY <1>6, <2>1, <2>2
  <2>4. activeTurn' \in Nat /\ busy' \subseteq Threads /\ turnProgress' \subseteq Threads
    BY <1>4, <1>5, <1>6
  <2> QED BY <1>2, <1>3, <1>5, <1>12, <2>1, <2>3, <2>4 DEF RunTyped
<1>8. Subscribed'
  <2>1. turnAsked' # <<>> => turnAsked'[1].task \in resumed
    BY <1>4, <1>6 DEF RunInv, Subscribed
  <2>2. busy' \cup turnProgress' \subseteq resumed BY <1>4, <1>5, <1>6
  <2>3. \A u \in Threads : turns'[u] # {} => u \in resumed BY <1>4, <1>5, <1>12
  <2> QED BY <1>3, <1>5, <2>1, <2>2, <2>3 DEF Subscribed
<1>9. OneAnswer'
  <2>1. CASE turnAsked' = turnAsked BY <1>3, <2>1 DEF RunInv, OneAnswer
  <2>2. CASE h.kind \in {"sent", "refused"}
    <3>1. \A i : ~AnswersAsk(i)' BY <1>3, <2>2 DEF RunInv, OneAnswer
    <3> QED BY <3>1 DEF OneAnswer
  <2> QED BY <1>6, <2>1, <2>2
<1>10. Cleared'
  <2>1. ASSUME NEW u \in busy' \cup turnProgress' PROVE IdleAfter(u, 0)'
    <3>1. u \in Threads BY <1>4, <1>5, <1>6
    <3>2. CASE u \in busy \cup turnProgress /\ ~(h.kind = "idle" /\ h.task = u)
      <4>1. IdleAfter(u, 0) BY <3>2 DEF RunInv, Cleared
      <4> QED BY <1>3, <3>1, <3>2, <4>1
    <3>3. CASE u = t /\ h.kind \in {"started", "plan", "sent"} BY <1>3, <1>4, <3>3
    <3> QED BY <1>4, <1>6, <2>1, <3>2, <3>3
  <2> QED BY <1>3, <2>1 DEF Cleared
<1>11. TurnsCleared'
  <2> SUFFICES ASSUME NEW u \in Threads, NEW n \in turns'[u]
               PROVE  EndsAfter(u, n, 0)' \/ Steered(u, n)' \/ Refusal(u)'
    BY DEF TurnsCleared
  <2>1. CASE n \notin turns[u]
    <3>1. h.kind = "started" /\ u = t /\ n = h.turn BY <1>12, <2>1
    <3> QED BY <1>3, <1>4, <3>1
  <2>2. CASE n \in turns[u]
    <3>1. n \in Nat \ {0} BY <1>5, <2>2
    <3>2. ~(h.kind = "completed" /\ h.task = u /\ h.turn = n) BY <1>4, <1>5, <1>6
    <3>3. ~(h.kind = "refused" /\ h.task = u) BY <1>4, <1>5, <1>6
    <3>4. CASE EndsAfter(u, n, 0) BY <1>3, <3>1, <3>2, <3>4
    <3>5. CASE Refusal(u) BY <1>3, <3>3, <3>5
    <3>6. CASE Steered(u, n)
      <4>1. turnAsked[1].steer # -1 BY <3>1, <3>6 DEF Steered
      <4>2. h.kind \notin {"sent", "refused"} BY <1>3, <4>1 DEF RunInv, OneAnswer
      <4>3. turnAsked' = turnAsked BY <1>6, <4>2
      <4> QED BY <3>6, <4>3 DEF Steered
    <3> QED BY <2>2, <3>4, <3>5, <3>6 DEF RunInv, TurnsCleared
  <2> QED BY <2>1, <2>2
<1> QED BY <1>7, <1>8, <1>9, <1>10, <1>11 DEF RunInv

\* A message is sent: what it marks is what it asks to steer.
LEMMA MessageGoes == RunInv /\ Turn!SendMessage => RunInv'
<1> SUFFICES ASSUME RunInv, Turn!SendMessage PROVE RunInv' OBVIOUS
<1>1. /\ turnActive # NoThread /\ turnAsked = <<>>
      /\ turnAsked' = <<[task |-> turnActive, steer |-> activeTurn]>>
      /\ turns' = IF activeTurn = 0 THEN turns ELSE [turns EXCEPT ![turnActive] = @ \cup {activeTurn}]
      /\ UNCHANGED <<stream, resumed, turnActive, activeTurn, busy, turnProgress, serverTurn, lastTurn>>
  BY DEF Turn!SendMessage, Turn!Same
<1>2. /\ turnActive \in resumed /\ turnActive \in Threads /\ activeTurn \in Nat
      /\ [task |-> turnActive, steer |-> activeTurn] \in Asks
  BY <1>1 DEF RunInv, RunTyped, Asks
<1>3. turns' \in [Threads -> SUBSET (Nat \ {0})] BY <1>1, <1>2 DEF RunInv, RunTyped
<1>4. RunTyped' BY <1>1, <1>2, <1>3 DEF RunInv, RunTyped
<1>5. Subscribed' BY <1>1, <1>2 DEF RunInv, RunTyped, Subscribed
<1>6. OneAnswer' BY <1>1 DEF RunInv, OneAnswer, AnswersAsk
<1>7. Cleared' BY <1>1 DEF RunInv, Cleared, IdleAfter, EndsAfter
<1>8. TurnsCleared'
  <2> SUFFICES ASSUME NEW u \in Threads, NEW n \in turns'[u]
               PROVE  EndsAfter(u, n, 0)' \/ Steered(u, n)' \/ Refusal(u)'
    BY DEF TurnsCleared
  <2>1. CASE n \in turns[u]
    BY <1>1, <2>1 DEF RunInv, TurnsCleared, EndsAfter, Steered, Refusal
  <2>2. CASE n \notin turns[u]
    <3>1. u = turnActive /\ n = activeTurn BY <1>1, <1>2, <2>2 DEF RunInv, RunTyped
    <3> QED BY <1>1, <3>1 DEF Steered
  <2> QED BY <2>1, <2>2
<1> QED BY <1>4, <1>5, <1>6, <1>7, <1>8 DEF RunInv

\* Another task is opened.
LEMMA TaskOpens == RunInv /\ Turn!Activate => RunInv'
<1> SUFFICES ASSUME RunInv, Turn!Activate PROVE RunInv' OBVIOUS
<1>1. PICK t \in Threads :
        /\ turnActive' = t /\ activeTurn' = 0 /\ resumed' = resumed \cup {t}
        /\ turns' = [u \in Threads |-> IF u = t THEN turns[u] ELSE {}]
        /\ UNCHANGED <<stream, turnAsked, busy, turnProgress, serverTurn, lastTurn>>
  BY DEF Turn!Activate, Turn!Same
<1>2. RunTyped' BY <1>1 DEF RunInv, RunTyped
<1>3. Subscribed' BY <1>1 DEF RunInv, RunTyped, Subscribed
<1>4. OneAnswer' BY <1>1 DEF RunInv, OneAnswer, AnswersAsk
<1>5. Cleared' BY <1>1 DEF RunInv, Cleared, IdleAfter, EndsAfter
<1>6. TurnsCleared' BY <1>1 DEF RunInv, RunTyped, TurnsCleared, EndsAfter, Steered, Refusal
<1> QED BY <1>2, <1>3, <1>4, <1>5, <1>6 DEF RunInv

\* Everything the window takes for running has what clears it on its way.
LEMMA RunAlways == Turn!Spec => []RunInv
<1>1. ASSUME Turn!Init PROVE RunInv
  <2>1. /\ stream = <<>> /\ DOMAIN stream = {} /\ turnAsked = <<>>
    BY <1>1 DEF Turn!Init
  <2>2. stream \in Seq(Notices) BY <2>1
  <2>3. RunTyped BY <1>1, <2>2 DEF Turn!Init, RunTyped
  <2>4. Subscribed /\ OneAnswer /\ Cleared /\ TurnsCleared
    BY <1>1, <2>1 DEF Turn!Init, Subscribed, OneAnswer, AnswersAsk, Cleared, TurnsCleared
  <2> QED BY <2>3, <2>4 DEF RunInv
<1>2. RunInv /\ UNCHANGED Turn!vars => RunInv'
  BY DEF Turn!vars, RunInv, RunTyped, Subscribed, OneAnswer, AnswersAsk, Cleared, TurnsCleared, IdleAfter,
         EndsAfter, Steered, Refusal
<1>3. RunInv /\ [Turn!Next]_(Turn!vars) => RunInv'
  BY <1>2, ElsewhereStarts, PlanComes, TurnEnds, AskHandled, AnswerTaken, MessageGoes, TaskOpens DEF Turn!Next
<1> QED BY <1>1, <1>3, PTL DEF Turn!Spec

\* A task that runs nothing shows nothing running once everything sent has
\* arrived: not its status, not its progress, not one of its turns
\* (BecomeIdle, Complete, ClearStale).
THEOREM IdleTasks == Turn!Spec => []IdleLooksIdle
<1>1. RunInv => IdleLooksIdle
  <2> SUFFICES ASSUME RunInv, stream = <<>>, turnAsked = <<>>, NEW t \in Threads, serverTurn[t] = 0
               PROVE  t \notin busy \cup turnProgress /\ turns[t] = {}
    BY DEF IdleLooksIdle, Turn!IdleLooksIdle
  <2>1. DOMAIN stream = {} OBVIOUS
  <2>2. ~IdleAfter(t, 0) BY <2>1 DEF IdleAfter
  <2>3. \A n \in turns[t] : ~EndsAfter(t, n, 0) /\ ~Steered(t, n) /\ ~Refusal(t)
    BY <2>1 DEF EndsAfter, Steered, Refusal, RunInv, RunTyped
  <2> QED BY <2>2, <2>3 DEF RunInv, Cleared, TurnsCleared
<1> QED BY <1>1, RunAlways, PTL

---------------------------------------------------------------------------
(* The ledger of turns.                                                    *)

Numbers == 1..MaxLedgerTurns

\* What each notice names; their other fields are of no matter here.
Named(e) ==
    /\ e.kind \in {"answer", "started", "item", "completed"} => e.turn \in Numbers
    /\ e.kind = "completed" => e.items \subseteq Numbers

LedgerTyped ==
    /\ ledgerServer = [turn |-> ledgerServer.turn, last |-> ledgerServer.last, took |-> ledgerServer.took,
                       reported |-> ledgerServer.reported, settings |-> ledgerServer.settings]
    /\ ledgerServer.last \in 0..MaxLedgerTurns
    /\ ledgerServer.turn \in Numbers \cup {0, -1} /\ ledgerServer.turn <= ledgerServer.last
    /\ \E S : ledgerStream \in Seq(S)
    /\ \A i \in DOMAIN ledgerStream : Named(ledgerStream[i])
    /\ wired \in BOOLEAN
    /\ obs = [turn |-> obs.turn, before |-> obs.before, latest |-> obs.latest, seen |-> obs.seen,
              completed |-> obs.completed, events |-> obs.events]
    /\ obs.turn \in Numbers \cup {-1} /\ obs.completed \in BOOLEAN /\ obs.events \subseteq Numbers
    /\ timers \subseteq Numbers
    /\ records = [t \in Numbers |-> records[t]]
    /\ macro = [pending |-> macro.pending, samples |-> macro.samples]
    /\ macro.pending \in Numbers \cup {-1} /\ macro.samples \in [Numbers -> Nat]
    /\ seen = [answers |-> seen.answers, ends |-> seen.ends] /\ seen.ends \subseteq Numbers
    /\ ledgerBounds = [picks |-> ledgerBounds.picks, losses |-> ledgerBounds.losses]
    /\ ledgerBounds.losses \in Nat
    /\ ~wired => ledgerStream = <<>> /\ ledgerBounds.losses # 0

Completes(i, t) == ledgerStream[i].kind = "completed" /\ ledgerStream[i].turn = t
Begins(i) == ledgerStream[i].kind = "started"

\* A turn ends once, after all that is said of its start.
Ordered ==
    /\ \A i \in DOMAIN ledgerStream : \A t \in Numbers :
         ledgerStream[i].kind \in {"answer", "started"} /\ ledgerStream[i].turn = t =>
           ledgerServer.turn = t \/ \E j \in DOMAIN ledgerStream : j > i /\ Completes(j, t)
    /\ \A i \in DOMAIN ledgerStream : \A t \in Numbers : Completes(i, t) =>
         /\ t <= ledgerServer.last /\ ledgerServer.turn # t
         /\ \A j \in DOMAIN ledgerStream : Completes(j, t) => j = i

\* What has yet to end has left nothing in the window.
Undone(t) ==
    \/ ledgerServer.turn = t \/ t > ledgerServer.last
    \/ \E i \in DOMAIN ledgerStream : Completes(i, t)

NothingYet ==
    \A t \in Numbers : Undone(t) => macro.samples[t] = 0 /\ macro.pending # t /\ t \notin seen.ends

\* Nothing waits for a turn's usage.
Clear == ~obs.completed /\ (ledgerBounds.losses = 0 => macro.pending = -1)

\* Nothing will, when what stands at i arrives: a start clears what a turn
\* before left.
Fresh(i) ==
    \/ Clear /\ \A k \in DOMAIN ledgerStream : k < i => ledgerStream[k].kind # "completed"
    \/ \E k \in DOMAIN ledgerStream :
         k < i /\ Begins(k) /\ \A m \in DOMAIN ledgerStream : k < m /\ m < i => ledgerStream[m].kind # "completed"

FreshAtLast ==
    \/ Clear /\ \A k \in DOMAIN ledgerStream : ledgerStream[k].kind # "completed"
    \/ \E k \in DOMAIN ledgerStream :
         Begins(k) /\ \A m \in DOMAIN ledgerStream : k < m => ledgerStream[m].kind # "completed"

EndsFresh ==
    /\ \A i \in DOMAIN ledgerStream : ledgerStream[i].kind = "completed" => Fresh(i)
    /\ wired /\ ledgerServer.turn \in Numbers => FreshAtLast

Counted ==
    /\ \A t \in Numbers : macro.samples[t] <= 1 /\ (macro.pending = t => macro.samples[t] = 0)
    /\ ledgerBounds.losses = 0 => \A t \in seen.ends : macro.samples[t] = 1 \/ macro.pending = t

Waits == obs.completed => obs.turn \in timers

Receipts ==
    \A t \in seen.ends :
      records[t].receipt # Ledger!NoReceipt \/ (t \in timers /\ obs.turn = t /\ obs.completed)

LedgerInv ==
    LedgerTyped /\ Ordered /\ NothingYet /\ EndsFresh /\ Counted /\ Waits /\ Receipts

\* Nothing of the window changes as the server speaks.
Listens == UNCHANGED <<wired, obs, timers, records, macro, seen>> /\ ledgerBounds'.losses = ledgerBounds.losses
             /\ ledgerBounds' = [picks |-> ledgerBounds'.picks, losses |-> ledgerBounds'.losses]

ServerShape ==
    /\ ledgerServer' = [turn |-> ledgerServer'.turn, last |-> ledgerServer'.last, took |-> ledgerServer'.took,
                        reported |-> ledgerServer'.reported, settings |-> ledgerServer'.settings]

\* The server says e of no turn's start or end, starts a turn, or ends one.
Quiet(e) ==
    /\ \A j \in DOMAIN e : e[j].kind \notin {"answer", "started", "completed"}
    /\ ledgerServer'.last = ledgerServer.last
    /\ ledgerServer'.turn = ledgerServer.turn \/ (ledgerServer.turn = 0 /\ ledgerServer'.turn = -1)

Starts(e, t) ==
    /\ \A j \in DOMAIN e : e[j].kind \in {"answer", "started"} /\ e[j].turn = t
    /\ \E j \in DOMAIN e : e[j].kind = "started"
    /\ ledgerServer.turn = 0 /\ t = ledgerServer.last + 1 /\ t \in Numbers
    /\ ledgerServer'.turn = t /\ ledgerServer'.last = t

Ends(e, t) ==
    /\ \A j \in DOMAIN e : e[j].kind = "completed" /\ e[j].turn = t /\ \A k \in DOMAIN e : k = j
    /\ DOMAIN e # {}
    /\ t \in Numbers /\ ledgerServer.turn = t
    /\ ledgerServer'.turn = 0 /\ ledgerServer'.last = ledgerServer.last

LEMMA StreamGrows ==
    ASSUME LedgerInv, wired, NEW S, NEW e \in Seq(S), ledgerStream' = ledgerStream \o e
    PROVE  /\ \E R : ledgerStream' \in Seq(R)
           /\ Len(ledgerStream) \in Nat
           /\ \A i \in DOMAIN ledgerStream : /\ i \in Nat /\ i <= Len(ledgerStream) /\ i \in DOMAIN ledgerStream'
                                             /\ ledgerStream'[i] = ledgerStream[i]
           /\ \A j \in DOMAIN e : /\ j \in Nat /\ j >= 1 /\ Len(ledgerStream) + j \in DOMAIN ledgerStream'
                                  /\ ledgerStream'[Len(ledgerStream) + j] = e[j]
           /\ \A i \in DOMAIN ledgerStream' :
                i \in DOMAIN ledgerStream \/ \E j \in DOMAIN e : i = Len(ledgerStream) + j
<1>1. PICK T : ledgerStream \in Seq(T) BY DEF LedgerInv, LedgerTyped
<1>2. PICK R : R = S \cup T OBVIOUS
<1>3. PICK s : s = ledgerStream \o e OBVIOUS
<1>4. ledgerStream \in Seq(R) /\ e \in Seq(R)
  <2>1. e \in Seq(S) OBVIOUS
  <2>2. S \subseteq R /\ T \subseteq R BY <1>2
  <2> QED BY <1>1, <2>1, <2>2, SeqMonotonic
<1>5. /\ s \in Seq(R) /\ Len(ledgerStream) \in Nat
      /\ \A i \in DOMAIN ledgerStream : i \in Nat /\ i <= Len(ledgerStream) /\ i \in DOMAIN s /\ s[i] = ledgerStream[i]
      /\ \A j \in DOMAIN e : /\ j \in Nat /\ j >= 1 /\ Len(ledgerStream) + j \in DOMAIN s
                             /\ s[Len(ledgerStream) + j] = e[j]
      /\ \A i \in DOMAIN s : i \in DOMAIN ledgerStream \/ \E j \in DOMAIN e : i = Len(ledgerStream) + j
  <2>1. Grows(R, s, ledgerStream, e) BY <1>3, <1>4 DEF Grows
  <2> QED BY <2>1, Grown
<1> QED BY <1>3, <1>5

\* The server speaks while the window hears it.
LEMMA LedgerSpeaks ==
    ASSUME LedgerInv, wired, Listens, ServerShape, MaxLedgerTurns \in Nat,
           NEW S, NEW e \in Seq(S), ledgerStream' = ledgerStream \o e,
           \A j \in DOMAIN e : Named(e[j]),
           Quiet(e) \/ \E t : Starts(e, t) \/ Ends(e, t)
    PROVE  LedgerInv'
<1>1. /\ \E R : ledgerStream' \in Seq(R)
      /\ Len(ledgerStream) \in Nat
      /\ \A i \in DOMAIN ledgerStream : /\ i \in Nat /\ i <= Len(ledgerStream) /\ i \in DOMAIN ledgerStream'
                                        /\ ledgerStream'[i] = ledgerStream[i]
      /\ \A j \in DOMAIN e : /\ j \in Nat /\ j >= 1 /\ Len(ledgerStream) + j \in DOMAIN ledgerStream'
                             /\ ledgerStream'[Len(ledgerStream) + j] = e[j]
      /\ \A i \in DOMAIN ledgerStream' :
           i \in DOMAIN ledgerStream \/ \E j \in DOMAIN e : i = Len(ledgerStream) + j
  BY StreamGrows
<1>2. /\ ledgerServer.last \in Nat /\ ledgerServer.last <= MaxLedgerTurns
      /\ ledgerServer.turn \in Int /\ ledgerServer.turn <= ledgerServer.last
      /\ Numbers \subseteq Nat /\ 0 \notin Numbers /\ -1 \notin Numbers
  BY DEF LedgerInv, LedgerTyped, Numbers
<1>3. LedgerTyped'
  <2>1. /\ ledgerServer'.last \in 0..MaxLedgerTurns /\ ledgerServer'.turn \in Numbers \cup {0, -1}
        /\ ledgerServer'.turn <= ledgerServer'.last
    <3>1. CASE Quiet(e) BY <1>2, <3>1 DEF Quiet, LedgerInv, LedgerTyped
    <3>2. CASE \E t : Starts(e, t) BY <3>2 DEF Starts, Numbers
    <3>3. CASE \E t : Ends(e, t) BY <1>2, <3>3 DEF Ends, Numbers
    <3> QED BY <3>1, <3>2, <3>3
  <2>2. \A i \in DOMAIN ledgerStream' : Named(ledgerStream'[i]) BY <1>1 DEF LedgerInv, LedgerTyped
  <2> QED BY <1>1, <2>1, <2>2 DEF LedgerInv, LedgerTyped, Listens, ServerShape
\* What the stream holds, it keeps.
<1>4. /\ \A i \in DOMAIN ledgerStream : \A t : Completes(i, t) <=> Completes(i, t)'
      /\ \A i \in DOMAIN ledgerStream : Begins(i) <=> Begins(i)'
      /\ \A i \in DOMAIN ledgerStream : (ledgerStream[i].kind = "completed") <=> (ledgerStream'[i].kind = "completed")
  BY <1>1 DEF Completes, Begins
<1>5. Clear' <=> Clear BY DEF Clear, Listens
<1>6. ASSUME NEW i \in DOMAIN ledgerStream, Fresh(i) PROVE Fresh(i)'
  <2>1. \A k \in DOMAIN ledgerStream' : k < i => k \in DOMAIN ledgerStream BY <1>1
  <2>2. CASE Clear /\ \A k \in DOMAIN ledgerStream : k < i => ledgerStream[k].kind # "completed"
    BY <1>1, <1>5, <2>1, <2>2 DEF Fresh
  <2>3. CASE \E k \in DOMAIN ledgerStream :
               k < i /\ Begins(k) /\ \A m \in DOMAIN ledgerStream : k < m /\ m < i => ledgerStream[m].kind # "completed"
    BY <1>1, <1>4, <2>1, <2>3 DEF Fresh
  <2> QED BY <1>6, <2>2, <2>3 DEF Fresh
<1>7. \A i \in DOMAIN ledgerStream' : i \notin DOMAIN ledgerStream =>
        \E j \in DOMAIN e : i = Len(ledgerStream) + j /\ ledgerStream'[i] = e[j] /\ i > Len(ledgerStream)
  BY <1>1
\* What each kind of saying adds.
<1>8. \/ /\ ledgerServer'.last = ledgerServer.last
         /\ ledgerServer'.turn = ledgerServer.turn \/ (ledgerServer.turn = 0 /\ ledgerServer'.turn = -1)
         /\ \A i \in DOMAIN ledgerStream' : i \notin DOMAIN ledgerStream =>
              ledgerStream'[i].kind \notin {"answer", "started", "completed"}
      \/ /\ ledgerServer.turn = 0 /\ ledgerServer'.turn = ledgerServer.last + 1
         /\ ledgerServer'.last = ledgerServer.last + 1
         /\ \A i \in DOMAIN ledgerStream' : i \notin DOMAIN ledgerStream =>
              ledgerStream'[i].kind \in {"answer", "started"} /\ ledgerStream'[i].turn = ledgerServer.last + 1
         /\ \E i \in DOMAIN ledgerStream' : i > Len(ledgerStream) /\ Begins(i)'
      \/ /\ ledgerServer.turn \in Numbers /\ ledgerServer'.turn = 0 /\ ledgerServer'.last = ledgerServer.last
         /\ \E n \in DOMAIN ledgerStream' : /\ n > Len(ledgerStream) /\ n \notin DOMAIN ledgerStream
                                            /\ ledgerStream'[n].kind = "completed"
                                            /\ ledgerStream'[n].turn = ledgerServer.turn
                                            /\ \A i \in DOMAIN ledgerStream' : i \notin DOMAIN ledgerStream => i = n
  <2>1. CASE Quiet(e) BY <1>7, <2>1 DEF Quiet
  <2>2. CASE \E t : Starts(e, t)
    <3>1. PICK t : Starts(e, t) BY <2>2
    <3>2. PICK j \in DOMAIN e : e[j].kind = "started" BY <3>1 DEF Starts
    <3>3. PICK i \in DOMAIN ledgerStream' : i = Len(ledgerStream) + j /\ ledgerStream'[i] = e[j] BY <1>1
    <3>4. i > Len(ledgerStream) /\ Begins(i)' BY <1>1, <3>2, <3>3 DEF Begins
    <3>5. \A n \in DOMAIN ledgerStream' : n \notin DOMAIN ledgerStream =>
              ledgerStream'[n].kind \in {"answer", "started"} /\ ledgerStream'[n].turn = ledgerServer.last + 1
      BY <1>7, <3>1 DEF Starts
    <3>6. ledgerServer.turn = 0 /\ ledgerServer'.turn = ledgerServer.last + 1
          /\ ledgerServer'.last = ledgerServer.last + 1
      BY <3>1 DEF Starts
    <3> QED BY <3>4, <3>5, <3>6
  <2>3. CASE \E t : Ends(e, t)
    <3>1. PICK t : Ends(e, t) BY <2>3
    <3>2. PICK j \in DOMAIN e : e[j].kind = "completed" /\ e[j].turn = t /\ \A k \in DOMAIN e : k = j
      BY <3>1 DEF Ends
    <3>3. PICK n \in DOMAIN ledgerStream' : n = Len(ledgerStream) + j /\ ledgerStream'[n] = e[j] BY <1>1
    <3>4. n > Len(ledgerStream) /\ n \notin DOMAIN ledgerStream BY <1>1, <3>3
    <3>5. \A i \in DOMAIN ledgerStream' : i \notin DOMAIN ledgerStream => i = n BY <1>7, <3>2, <3>3
    <3>6. t \in Numbers /\ ledgerServer.turn = t /\ ledgerServer'.turn = 0 /\ ledgerServer'.last = ledgerServer.last
      BY <3>1 DEF Ends
    <3> QED BY <3>2, <3>3, <3>4, <3>5, <3>6
  <2> QED BY <2>1, <2>2, <2>3
<1>9. Ordered'
  <2>1. ASSUME NEW i \in DOMAIN ledgerStream', NEW t \in Numbers,
               ledgerStream'[i].kind \in {"answer", "started"}, ledgerStream'[i].turn = t
        PROVE  ledgerServer'.turn = t \/ \E j \in DOMAIN ledgerStream' : j > i /\ Completes(j, t)'
    <3>1. CASE i \in DOMAIN ledgerStream
      <4>1. ledgerServer.turn = t \/ \E j \in DOMAIN ledgerStream : j > i /\ Completes(j, t)
        BY <1>1, <2>1, <3>1 DEF LedgerInv, Ordered
      <4>2. CASE \E j \in DOMAIN ledgerStream : j > i /\ Completes(j, t) BY <1>1, <1>4, <4>2
      <4>3. CASE ledgerServer.turn = t BY <1>1, <1>2, <1>8, <3>1, <4>3 DEF Completes
      <4> QED BY <4>1, <4>2, <4>3
    <3>2. CASE i \notin DOMAIN ledgerStream BY <1>8, <2>1, <3>2
    <3> QED BY <3>1, <3>2
  <2>2. ASSUME NEW i \in DOMAIN ledgerStream', NEW t \in Numbers, Completes(i, t)'
        PROVE  /\ t <= ledgerServer'.last /\ ledgerServer'.turn # t
               /\ \A j \in DOMAIN ledgerStream' : Completes(j, t)' => j = i
    <3>0. t \in Nat /\ t # 0 /\ t # -1 BY <1>2
    <3>1. CASE i \in DOMAIN ledgerStream
      <4>1. /\ t <= ledgerServer.last /\ ledgerServer.turn # t
            /\ \A j \in DOMAIN ledgerStream : Completes(j, t) => j = i
        BY <1>4, <2>2, <3>1 DEF LedgerInv, Ordered
      <4>2. t <= ledgerServer'.last /\ ledgerServer'.turn # t
        <5>1. \/ /\ ledgerServer'.last = ledgerServer.last
                 /\ \/ ledgerServer'.turn = ledgerServer.turn \/ ledgerServer'.turn = -1
                    \/ ledgerServer'.turn = 0
              \/ ledgerServer'.turn = ledgerServer.last + 1 /\ ledgerServer'.last = ledgerServer.last + 1
          BY <1>8
        <5>2. ledgerServer.last \in Nat BY <1>2
        <5> QED BY <5>1, <5>2, <3>0, <4>1
      <4>3. \A j \in DOMAIN ledgerStream' : Completes(j, t)' => j \in DOMAIN ledgerStream
        BY <1>2, <1>8, <4>1 DEF Completes
      <4> QED BY <1>4, <4>1, <4>2, <4>3
    <3>2. CASE i \notin DOMAIN ledgerStream
      <4>1. /\ ledgerServer.turn = t /\ ledgerServer'.turn = 0 /\ ledgerServer'.last = ledgerServer.last
            /\ \A j \in DOMAIN ledgerStream' : j \notin DOMAIN ledgerStream => j = i
        BY <1>8, <2>2, <3>2 DEF Completes
      <4>2. \A j \in DOMAIN ledgerStream : ~Completes(j, t) BY <4>1 DEF LedgerInv, Ordered
      <4> QED BY <1>2, <1>4, <3>0, <4>1, <4>2
    <3> QED BY <3>1, <3>2
  <2> QED BY <2>1, <2>2 DEF Ordered
<1>10. NothingYet'
  <2>1. ASSUME NEW t \in Numbers, Undone(t)' PROVE Undone(t)
    <3>0. t \in Nat /\ t # 0 /\ t # -1 BY <1>2
    <3>1. CASE ledgerServer'.turn = t BY <1>2, <1>8, <3>0, <3>1 DEF Undone
    <3>2. CASE t > ledgerServer'.last BY <1>2, <1>8, <3>0, <3>2 DEF Undone
    <3>3. CASE \E i \in DOMAIN ledgerStream' : Completes(i, t)'
      <4>1. PICK i \in DOMAIN ledgerStream' : Completes(i, t)' BY <3>3
      <4>2. CASE i \in DOMAIN ledgerStream BY <1>4, <4>1, <4>2 DEF Undone
      <4>3. CASE i \notin DOMAIN ledgerStream BY <1>8, <4>1, <4>3 DEF Undone, Completes
      <4> QED BY <4>2, <4>3
    <3> QED BY <2>1, <3>1, <3>2, <3>3 DEF Undone, Completes
  <2> QED BY <2>1 DEF LedgerInv, NothingYet, Listens
<1>11. EndsFresh'
  <2>1. ASSUME NEW i \in DOMAIN ledgerStream', ledgerStream'[i].kind = "completed" PROVE Fresh(i)'
    <3>1. CASE i \in DOMAIN ledgerStream
      <4>1. Fresh(i) BY <1>4, <2>1, <3>1 DEF LedgerInv, EndsFresh
      <4> QED BY <1>6, <3>1, <4>1
    <3>2. CASE i \notin DOMAIN ledgerStream
      <4>1. /\ ledgerServer.turn \in Numbers
            /\ \A j \in DOMAIN ledgerStream' : j \notin DOMAIN ledgerStream => j = i
        BY <1>8, <2>1, <3>2
      <4>2. FreshAtLast BY <4>1 DEF LedgerInv, EndsFresh
      <4>3. /\ \A k \in DOMAIN ledgerStream' : k < i => k \in DOMAIN ledgerStream
            /\ \A k \in DOMAIN ledgerStream : k < i
        BY <1>1, <1>7, <3>2, <4>1
      <4>4. CASE Clear /\ \A k \in DOMAIN ledgerStream : ledgerStream[k].kind # "completed"
        BY <1>4, <1>5, <4>3, <4>4 DEF Fresh
      <4>5. CASE \E k \in DOMAIN ledgerStream :
                   Begins(k) /\ \A m \in DOMAIN ledgerStream : k < m => ledgerStream[m].kind # "completed"
        BY <1>1, <1>4, <4>3, <4>5 DEF Fresh
      <4> QED BY <4>2, <4>4, <4>5 DEF FreshAtLast
    <3> QED BY <3>1, <3>2
  <2>2. ASSUME ledgerServer'.turn \in Numbers PROVE FreshAtLast'
    <3>1. CASE ledgerServer.turn \in Numbers
      <4>1. FreshAtLast BY <3>1 DEF LedgerInv, EndsFresh
      <4>2. \A k \in DOMAIN ledgerStream' : k \notin DOMAIN ledgerStream => ledgerStream'[k].kind # "completed"
        BY <1>2, <1>8, <2>2, <3>1
      <4>3. CASE Clear /\ \A k \in DOMAIN ledgerStream : ledgerStream[k].kind # "completed"
        BY <1>4, <1>5, <4>2, <4>3 DEF FreshAtLast
      <4>4. CASE \E k \in DOMAIN ledgerStream :
                   Begins(k) /\ \A m \in DOMAIN ledgerStream : k < m => ledgerStream[m].kind # "completed"
        BY <1>1, <1>4, <4>2, <4>4 DEF FreshAtLast
      <4> QED BY <4>1, <4>3, <4>4 DEF FreshAtLast
    <3>2. CASE ledgerServer.turn \notin Numbers
      <4>1. PICK i \in DOMAIN ledgerStream' : i > Len(ledgerStream) /\ Begins(i)' BY <1>2, <1>8, <2>2, <3>2
      <4>2. \A k \in DOMAIN ledgerStream' : k \notin DOMAIN ledgerStream => ledgerStream'[k].kind # "completed"
        BY <1>2, <1>8, <2>2, <3>2
      <4>3. \A k \in DOMAIN ledgerStream' : i < k => k \notin DOMAIN ledgerStream
        <5>1. i \in Nat BY <1>1, <1>7, <4>1
        <5> QED BY <1>1, <4>1, <5>1
      <4> QED BY <4>1, <4>2, <4>3 DEF FreshAtLast
    <3> QED BY <3>1, <3>2
  <2> QED BY <2>1, <2>2 DEF EndsFresh
<1> QED BY <1>3, <1>9, <1>10, <1>11 DEF LedgerInv, Listens, Counted, Waits, Receipts

\* While the connection is lost, the server speaks to nobody.
LEMMA LedgerUnheard ==
    ASSUME LedgerInv, ~wired, Listens, ServerShape, MaxLedgerTurns \in Nat,
           UNCHANGED ledgerStream, NEW e,
           Quiet(e) \/ \E t : Starts(e, t) \/ Ends(e, t)
    PROVE  LedgerInv'
<1>1. /\ ledgerServer.last \in Nat /\ ledgerServer.last <= MaxLedgerTurns
      /\ ledgerServer.turn \in Int /\ ledgerServer.turn <= ledgerServer.last
      /\ Numbers \subseteq Nat /\ 0 \notin Numbers /\ -1 \notin Numbers
      /\ ledgerStream = <<>> /\ DOMAIN ledgerStream = {} /\ wired' = wired
  <2>1. ledgerStream = <<>> BY DEF LedgerInv, LedgerTyped
  <2>2. DOMAIN ledgerStream = {} BY <2>1
  <2> QED BY <2>1, <2>2 DEF LedgerInv, LedgerTyped, Numbers, Listens
<1>2. \/ /\ ledgerServer'.last = ledgerServer.last
         /\ ledgerServer'.turn = ledgerServer.turn \/ (ledgerServer.turn = 0 /\ ledgerServer'.turn = -1)
      \/ /\ ledgerServer'.turn = ledgerServer.last + 1 /\ ledgerServer'.last = ledgerServer.last + 1
         /\ ledgerServer.last + 1 \in Numbers
      \/ ledgerServer'.turn = 0 /\ ledgerServer'.last = ledgerServer.last
  BY DEF Quiet, Starts, Ends
<1>3. /\ ledgerServer'.last \in 0..MaxLedgerTurns /\ ledgerServer'.turn \in Numbers \cup {0, -1}
      /\ ledgerServer'.turn <= ledgerServer'.last
  BY <1>1, <1>2 DEF LedgerInv, LedgerTyped, Numbers
<1>4. LedgerTyped' BY <1>3 DEF LedgerInv, LedgerTyped, Listens, ServerShape
<1>5. Ordered' /\ EndsFresh' BY <1>1 DEF Ordered, EndsFresh
<1>6. NothingYet'
  <2>1. ASSUME NEW t \in Numbers, Undone(t)' PROVE Undone(t)
    <3>1. ledgerServer'.turn = t \/ t > ledgerServer'.last BY <1>1, <2>1 DEF Undone
    <3> QED BY <1>1, <1>2, <3>1 DEF Undone
  <2> QED BY <2>1 DEF LedgerInv, NothingYet, Listens
<1> QED BY <1>4, <1>5, <1>6 DEF LedgerInv, Listens, Counted, Waits, Receipts

\* Either way.
LEMMA ServerMoves ==
    ASSUME LedgerInv, Listens, ServerShape, MaxLedgerTurns \in Nat,
           NEW S, NEW e \in Seq(S), Ledger!Notify(e), \A j \in DOMAIN e : Named(e[j]),
           Quiet(e) \/ \E t : Starts(e, t) \/ Ends(e, t)
    PROVE  LedgerInv'
<1>1. CASE wired
  <2>1. ledgerStream' = ledgerStream \o e BY <1>1 DEF Ledger!Notify
  <2> QED BY <1>1, <2>1, LedgerSpeaks
<1>2. CASE ~wired
  <2>1. ledgerStream' = ledgerStream BY <1>2 DEF Ledger!Notify
  <2> QED BY <1>2, <2>1, LedgerUnheard
<1> QED BY <1>1, <1>2

\* One or two notices.
LEMMA OneNotice ==
    ASSUME NEW a, NEW e, e = <<a>>
    PROVE  /\ \E S : e \in Seq(S)
           /\ DOMAIN e # {} /\ \A j \in DOMAIN e : e[j] = a /\ \A k \in DOMAIN e : k = j
           /\ \E j \in DOMAIN e : e[j] = a
<1>1. e \in Seq({a}) /\ DOMAIN e = {1} /\ e[1] = a OBVIOUS
<1> QED BY <1>1

LEMMA TwoNotices ==
    ASSUME NEW a, NEW b, NEW e, e = <<a, b>>
    PROVE  /\ \E S : e \in Seq(S)
           /\ \A j \in DOMAIN e : e[j] = a \/ e[j] = b
           /\ \E j \in DOMAIN e : e[j] = a
           /\ \E j \in DOMAIN e : e[j] = b
<1>1. e \in Seq({a, b}) /\ DOMAIN e = {1, 2} /\ e[1] = a /\ e[2] = b OBVIOUS
<1> QED BY <1>1

\* The turns that start, here or elsewhere.
LEMMA TurnBegins ==
    ASSUME LedgerInv, MaxLedgerTurns \in Nat, Ledger!TakeSend \/ Ledger!StartElsewhere
    PROVE  LedgerInv'
<1>1. PICK t : t = ledgerServer.last + 1 OBVIOUS
<1>2. PICK route, start : start = [kind |-> "started", turn |-> t]
                          /\ route = [kind |-> "answer", turn |-> t, route |-> ledgerAsked.route]
  OBVIOUS
<1>3. /\ ledgerServer.turn = 0 /\ ledgerServer.last < MaxLedgerTurns
      /\ ledgerServer' = [turn |-> t, last |-> t, took |-> ledgerServer.took, reported |-> ledgerServer.reported,
                          settings |-> ledgerServer.settings]
      /\ UNCHANGED <<wired, obs, timers, records, macro, seen, ledgerBounds>>
      /\ Ledger!Notify(<<route, start>>) \/ Ledger!Notify(<<start, route>>) \/ Ledger!Notify(<<start>>)
  BY <1>1, <1>2 DEF Ledger!TakeSend, Ledger!StartElsewhere, Ledger!Begin, Ledger!WindowSame
<1>4. t \in Numbers BY <1>1, <1>3 DEF LedgerInv, LedgerTyped, Numbers
<1>5. Listens /\ ServerShape BY <1>3, <1>4 DEF Listens, ServerShape, LedgerInv, LedgerTyped
<1>6. PICK e : Ledger!Notify(e) /\ (e = <<route, start>> \/ e = <<start, route>> \/ e = <<start>>)
  BY <1>3
<1>7. /\ \E S : e \in Seq(S)
      /\ \A j \in DOMAIN e : e[j] = route \/ e[j] = start
      /\ \E j \in DOMAIN e : e[j] = start
  <2>1. CASE e = <<route, start>> BY <2>1, TwoNotices
  <2>2. CASE e = <<start, route>> BY <2>2, TwoNotices
  <2>3. CASE e = <<start>> BY <2>3, OneNotice
  <2> QED BY <1>6, <2>1, <2>2, <2>3
<1>8. Named(route) /\ Named(start) /\ start.kind = "started" /\ start.turn = t
      /\ route.kind = "answer" /\ route.turn = t
  BY <1>2, <1>4 DEF Named
<1>9. Starts(e, t) /\ \A j \in DOMAIN e : Named(e[j])
  BY <1>1, <1>3, <1>4, <1>7, <1>8 DEF Starts
<1>10. PICK S : e \in Seq(S) BY <1>7
<1> QED BY <1>5, <1>6, <1>9, <1>10, ServerMoves

\* A turn ends.
LEMMA LedgerTurnEnds == ASSUME LedgerInv, MaxLedgerTurns \in Nat, Ledger!EndTurn PROVE LedgerInv'
<1>1. PICK t : t = ledgerServer.turn OBVIOUS
<1>0. /\ ledgerServer.turn > 0 /\ ledgerServer' = [ledgerServer EXCEPT !.turn = 0]
      /\ UNCHANGED <<wired, obs, timers, records, macro, seen, ledgerBounds>>
      /\ \E direct \in BOOLEAN, items \in {{}, {ledgerServer.turn}} :
           Ledger!Notify(<<[kind |-> "completed", turn |-> ledgerServer.turn, items |-> items,
                            tokens |-> IF direct THEN own[ledgerServer.turn] ELSE Ledger!None]>>)
  BY DEF Ledger!EndTurn, Ledger!WindowSame
<1>2. PICK a : a.kind = "completed" /\ a.turn = t /\ a.items \in {{}, {t}} /\ Ledger!Notify(<<a>>)
  <2>1. PICK direct \in BOOLEAN, items \in {{}, {ledgerServer.turn}} :
           Ledger!Notify(<<[kind |-> "completed", turn |-> ledgerServer.turn, items |-> items,
                            tokens |-> IF direct THEN own[ledgerServer.turn] ELSE Ledger!None]>>)
    BY <1>0
  <2>2. PICK a : a = [kind |-> "completed", turn |-> ledgerServer.turn, items |-> items,
                      tokens |-> IF direct THEN own[ledgerServer.turn] ELSE Ledger!None]
    OBVIOUS
  <2>3. Ledger!Notify(<<a>>) BY <2>1, <2>2
  <2>4. a.kind = "completed" /\ a.turn = t /\ a.items \in {{}, {t}} BY <1>1, <2>1, <2>2
  <2> QED BY <2>3, <2>4
<1>3. /\ t \in Numbers
      /\ ledgerServer' = [turn |-> 0, last |-> ledgerServer.last, took |-> ledgerServer.took,
                          reported |-> ledgerServer.reported, settings |-> ledgerServer.settings]
  <2>1. t \in Numbers BY <1>0, <1>1 DEF LedgerInv, LedgerTyped, Numbers
  <2>2. ledgerServer = [turn |-> ledgerServer.turn, last |-> ledgerServer.last, took |-> ledgerServer.took,
                        reported |-> ledgerServer.reported, settings |-> ledgerServer.settings]
    BY DEF LedgerInv, LedgerTyped
  <2> QED BY <1>0, <2>1, <2>2
<1>4. Listens /\ ServerShape BY <1>0, <1>3 DEF Listens, ServerShape, LedgerInv, LedgerTyped
<1>6. PICK e : e = <<a>> OBVIOUS
<1>7. /\ \E S : e \in Seq(S)
      /\ DOMAIN e # {} /\ \A j \in DOMAIN e : e[j] = a /\ \A k \in DOMAIN e : k = j
  BY <1>6, OneNotice
<1>8. a.kind = "completed" /\ a.turn = t /\ a.items \subseteq Numbers BY <1>2, <1>3
<1>9. Named(a) BY <1>3, <1>8 DEF Named
<1>10. Ends(e, t) /\ \A j \in DOMAIN e : Named(e[j]) BY <1>1, <1>3, <1>7, <1>8, <1>9 DEF Ends
<1>11. Ledger!Notify(e) BY <1>2, <1>6
<1>12. PICK S : e \in Seq(S) BY <1>7
<1> QED BY <1>4, <1>10, <1>11, <1>12, ServerMoves

\* Anything else the server says.
LEMMA ServerTells ==
    ASSUME LedgerInv, MaxLedgerTurns \in Nat,
           \/ Ledger!Report \/ Ledger!Help \/ Ledger!ChangeSettings \/ Ledger!DeleteTask
           \/ Ledger!update_task_settings_from_controls
    PROVE  LedgerInv'
<1>1. PICK a : /\ Ledger!Notify(<<a>>) /\ a.kind \in {"usage", "item", "settings", "deleted"}
               /\ a.kind = "item" => a.turn \in Numbers
  <2>1. CASE Ledger!Report
    <3>1. PICK a : a = [kind |-> "usage", total |-> ledgerServer.took] OBVIOUS
    <3>2. Ledger!Notify(<<a>>) BY <2>1, <3>1 DEF Ledger!Report
    <3> QED BY <3>1, <3>2
  <2>2. CASE Ledger!Help
    <3>1. PICK a : a = [kind |-> "item", turn |-> ledgerServer.turn] OBVIOUS
    <3>2. Ledger!Notify(<<a>>) BY <2>2, <3>1 DEF Ledger!Help
    <3>3. ledgerServer.turn \in Numbers BY <2>2 DEF Ledger!Help, LedgerInv, LedgerTyped, Numbers
    <3> QED BY <3>1, <3>2, <3>3
  <2>3. CASE Ledger!ChangeSettings
    <3>1. PICK m : Ledger!Notify(<<[kind |-> "settings", model |-> m]>>) BY <2>3 DEF Ledger!ChangeSettings
    <3> QED BY <3>1
  <2>4. CASE Ledger!DeleteTask
    <3>1. Ledger!Notify(<<[kind |-> "deleted"]>>) BY <2>4 DEF Ledger!DeleteTask
    <3> QED BY <3>1
  <2>5. CASE Ledger!update_task_settings_from_controls
    <3>1. PICK m : Ledger!Notify(<<[kind |-> "settings", model |-> m]>>)
      BY <2>5 DEF Ledger!update_task_settings_from_controls, Ledger!Pick
    <3> QED BY <3>1
  <2> QED BY <2>1, <2>2, <2>3, <2>4, <2>5
<1>2. /\ \/ ledgerServer' = ledgerServer
         \/ ledgerServer' = [ledgerServer EXCEPT !.reported = ledgerServer.took]
         \/ \E m : ledgerServer' = [ledgerServer EXCEPT !.settings = m]
         \/ ledgerServer.turn = 0 /\ ledgerServer' = [ledgerServer EXCEPT !.turn = -1]
      /\ UNCHANGED <<wired, obs, timers, records, macro, seen>>
      /\ ledgerBounds' = ledgerBounds \/ \E n : ledgerBounds' = [ledgerBounds EXCEPT !.picks = n]
  BY DEF Ledger!Report, Ledger!Help, Ledger!ChangeSettings, Ledger!DeleteTask, Ledger!None,
     Ledger!update_task_settings_from_controls, Ledger!Pick, Ledger!WindowSame
<1>3. ServerShape /\ ledgerServer'.last = ledgerServer.last
      /\ (ledgerServer'.turn = ledgerServer.turn \/ (ledgerServer.turn = 0 /\ ledgerServer'.turn = -1))
  BY <1>2 DEF ServerShape, LedgerInv, LedgerTyped
<1>4. Listens BY <1>2 DEF Listens, LedgerInv, LedgerTyped
<1>5. PICK e : e = <<a>> OBVIOUS
<1>6. (\E S : e \in Seq(S)) /\ \A j \in DOMAIN e : e[j] = a BY <1>5, OneNotice
<1>7. Named(a) BY <1>1 DEF Named
<1>8. Quiet(e) /\ \A j \in DOMAIN e : Named(e[j]) BY <1>1, <1>3, <1>6, <1>7 DEF Quiet
<1>9. Ledger!Notify(e) BY <1>1, <1>5
<1>10. PICK S : e \in Seq(S) BY <1>6
<1> QED BY <1>3, <1>4, <1>8, <1>9, <1>10, ServerMoves

---------------------------------------------------------------------------
(* What the window hears.                                                  *)

NothingOf(t) == macro.samples[t] = 0 /\ macro.pending # t /\ t \notin seen.ends

WindowTyped ==
    /\ obs = [turn |-> obs.turn, before |-> obs.before, latest |-> obs.latest, seen |-> obs.seen,
              completed |-> obs.completed, events |-> obs.events]
    /\ obs.turn \in Numbers \cup {-1} /\ obs.completed \in BOOLEAN /\ obs.events \subseteq Numbers
    /\ timers \subseteq Numbers
    /\ records = [t \in Numbers |-> records[t]]
    /\ macro = [pending |-> macro.pending, samples |-> macro.samples]
    /\ macro.pending \in Numbers \cup {-1} /\ macro.samples \in [Numbers -> Nat]
    /\ seen = [answers |-> seen.answers, ends |-> seen.ends] /\ seen.ends \subseteq Numbers

\* What the window makes of a notice.
Heard(e) ==
    /\ WindowTyped'
    /\ e.kind = "completed" \/ (Clear => Clear')
    /\ e.kind = "started" => Clear'
    /\ \A t \in Numbers : Undone(t) /\ ~(e.kind = "completed" /\ e.turn = t) => NothingOf(t)'
    /\ Counted' /\ Waits' /\ Receipts'

\* What is known of the notice it hears.
NextSays(e) ==
    /\ Named(e)
    /\ e.kind \in {"answer", "started", "completed"} => Undone(e.turn)
    /\ e.kind = "completed" => Clear

Taking(e) ==
    /\ ledgerStream # <<>> /\ e = Head(ledgerStream) /\ ledgerStream' = Tail(ledgerStream)
    /\ UNCHANGED <<ledgerServer, wired, ledgerBounds>>

LEMMA StreamShrinks ==
    ASSUME LedgerInv, NEW e, Taking(e)
    PROVE  /\ \E R : ledgerStream' \in Seq(R)
           /\ e = ledgerStream[1] /\ 1 \in DOMAIN ledgerStream
           /\ \A i \in DOMAIN ledgerStream' : /\ i \in Nat /\ i >= 1 /\ i + 1 \in DOMAIN ledgerStream
                                              /\ ledgerStream'[i] = ledgerStream[i + 1]
           /\ \A i \in DOMAIN ledgerStream : i \in Nat /\ i >= 1 /\ (i = 1 \/ i - 1 \in DOMAIN ledgerStream')
<1>1. PICK R : ledgerStream \in Seq(R) BY DEF LedgerInv, LedgerTyped
<1>2. PICK s : s = ledgerStream OBVIOUS
<1>3. s \in Seq(R) /\ s # <<>> /\ e = Head(s) /\ ledgerStream' = Tail(s) BY <1>1, <1>2 DEF Taking
<1>4. /\ Head(s) = s[1] /\ 1 \in DOMAIN s /\ Tail(s) \in Seq(R)
      /\ \A i \in DOMAIN Tail(s) : i \in Nat /\ i >= 1 /\ i + 1 \in DOMAIN s /\ Tail(s)[i] = s[i + 1]
      /\ \A i \in DOMAIN s : i \in Nat /\ i >= 1 /\ (i = 1 \/ i - 1 \in DOMAIN Tail(s))
  BY <1>3, Drained
<1> QED BY <1>2, <1>3, <1>4

\* What is first is as the invariant says.
LEMMA FirstNotice == ASSUME LedgerInv, NEW e, Taking(e) PROVE NextSays(e)
<1>1. /\ e = ledgerStream[1] /\ 1 \in DOMAIN ledgerStream
      /\ \A i \in DOMAIN ledgerStream : i \in Nat /\ i >= 1
  BY StreamShrinks
<1>2. Named(e) BY <1>1 DEF LedgerInv, LedgerTyped
<1>3. ASSUME e.kind \in {"answer", "started", "completed"} PROVE Undone(e.turn)
  <2>1. e.turn \in Numbers BY <1>2, <1>3 DEF Named
  <2>2. CASE e.kind = "completed" BY <1>1, <2>2 DEF Undone, Completes
  <2>3. CASE e.kind \in {"answer", "started"} BY <1>1, <2>1, <2>3 DEF LedgerInv, Ordered, Undone
  <2> QED BY <1>3, <2>2, <2>3
<1>4. ASSUME e.kind = "completed" PROVE Clear
  <2>1. Fresh(1) BY <1>1, <1>4 DEF LedgerInv, EndsFresh
  <2>2. \A k \in DOMAIN ledgerStream : ~(k < 1) BY <1>1
  <2> QED BY <2>1, <2>2 DEF Fresh
<1> QED BY <1>2, <1>3, <1>4 DEF NextSays

\* A notice is taken.
LEMMA NoticeTaken == ASSUME LedgerInv, NEW e, Taking(e), Heard(e) PROVE LedgerInv'
<1>1. /\ \E R : ledgerStream' \in Seq(R)
      /\ e = ledgerStream[1] /\ 1 \in DOMAIN ledgerStream
      /\ \A i \in DOMAIN ledgerStream' : /\ i \in Nat /\ i >= 1 /\ i + 1 \in DOMAIN ledgerStream
                                         /\ ledgerStream'[i] = ledgerStream[i + 1]
      /\ \A i \in DOMAIN ledgerStream : i \in Nat /\ i >= 1 /\ (i = 1 \/ i - 1 \in DOMAIN ledgerStream')
  BY StreamShrinks
<1>2. UNCHANGED <<ledgerServer, wired, ledgerBounds>> BY DEF Taking
<1>3. LedgerTyped'
  <2>1. \A i \in DOMAIN ledgerStream' : Named(ledgerStream'[i]) BY <1>1 DEF LedgerInv, LedgerTyped
  <2>2. wired BY DEF Taking, LedgerInv, LedgerTyped
  <2> QED BY <1>1, <1>2, <2>1, <2>2 DEF LedgerInv, LedgerTyped, Heard, WindowTyped
<1>4. \A i \in DOMAIN ledgerStream' : \A t : Completes(i, t)' <=> Completes(i + 1, t)
  BY <1>1 DEF Completes
<1>5. Ordered'
  <2>1. ASSUME NEW i \in DOMAIN ledgerStream', NEW t \in Numbers,
               ledgerStream'[i].kind \in {"answer", "started"}, ledgerStream'[i].turn = t
        PROVE  ledgerServer'.turn = t \/ \E j \in DOMAIN ledgerStream' : j > i /\ Completes(j, t)'
    <3>1. ledgerServer.turn = t \/ \E j \in DOMAIN ledgerStream : j > i + 1 /\ Completes(j, t)
      <4>1. /\ i + 1 \in DOMAIN ledgerStream /\ ledgerStream[i + 1].kind \in {"answer", "started"}
            /\ ledgerStream[i + 1].turn = t
        BY <1>1, <2>1
      <4>2. Ordered BY DEF LedgerInv
      <4> QED BY <4>1, <4>2 DEF Ordered
    <3>2. ASSUME NEW j \in DOMAIN ledgerStream, j > i + 1, Completes(j, t)
          PROVE  \E k \in DOMAIN ledgerStream' : k > i /\ Completes(k, t)'
      <4>1. j - 1 \in DOMAIN ledgerStream' /\ j - 1 > i /\ (j - 1) + 1 = j BY <1>1, <3>2
      <4> QED BY <1>4, <3>2, <4>1
    <3> QED BY <1>2, <3>1, <3>2
  <2>2. ASSUME NEW i \in DOMAIN ledgerStream', NEW t \in Numbers, Completes(i, t)'
        PROVE  /\ t <= ledgerServer'.last /\ ledgerServer'.turn # t
               /\ \A j \in DOMAIN ledgerStream' : Completes(j, t)' => j = i
    <3>1. i + 1 \in DOMAIN ledgerStream /\ Completes(i + 1, t) BY <1>1, <1>4, <2>2
    <3>2. /\ t <= ledgerServer.last /\ ledgerServer.turn # t
          /\ \A j \in DOMAIN ledgerStream : Completes(j, t) => j = i + 1
      BY <3>1 DEF LedgerInv, Ordered
    <3>3. ASSUME NEW j \in DOMAIN ledgerStream', Completes(j, t)' PROVE j = i
      <4>1. j + 1 \in DOMAIN ledgerStream /\ Completes(j + 1, t) BY <1>1, <1>4, <3>3
      <4>2. j + 1 = i + 1 BY <3>2, <4>1
      <4>3. i \in Nat /\ j \in Nat BY <1>1
      <4> QED BY <4>2, <4>3
    <3> QED BY <1>2, <3>2, <3>3
  <2> QED BY <2>1, <2>2 DEF Ordered
\* What the window has heard of is done.
<1>6. NothingYet'
  <2>1. ASSUME NEW t \in Numbers, Undone(t)' PROVE Undone(t) /\ ~(e.kind = "completed" /\ e.turn = t)
    <3>1. Undone(t) BY <1>1, <1>2, <1>4, <2>1 DEF Undone
    <3>2. ASSUME e.kind = "completed", e.turn = t PROVE FALSE
      <4>1. /\ t <= ledgerServer.last /\ ledgerServer.turn # t
            /\ \A j \in DOMAIN ledgerStream : Completes(j, t) => j = 1
        BY <1>1, <3>2 DEF LedgerInv, Ordered, Completes
      <4>2. ASSUME NEW j \in DOMAIN ledgerStream', Completes(j, t)' PROVE FALSE
        <5>1. j + 1 = 1 BY <1>1, <1>4, <4>1, <4>2
        <5>2. j \in Nat /\ j >= 1 BY <1>1
        <5> QED BY <5>1, <5>2
      <4>3. t > ledgerServer.last BY <1>2, <2>1, <4>1, <4>2 DEF Undone
      <4>4. t \in Int /\ ledgerServer.last \in Int BY DEF LedgerInv, LedgerTyped, Numbers
      <4> QED BY <4>1, <4>3, <4>4
    <3> QED BY <3>1, <3>2
  <2> QED BY <2>1 DEF Heard, NothingYet, NothingOf
<1>7. EndsFresh'
  \* What a start has cleared, whether it stands in the stream or was heard.
  <2>1. ASSUME NEW k \in DOMAIN ledgerStream, Begins(k)
        PROVE  (k = 1 /\ Clear') \/ (k - 1 \in DOMAIN ledgerStream' /\ Begins(k - 1)' /\ k # 1)
    <3>1. CASE k = 1 BY <1>1, <2>1, <3>1 DEF Begins, Heard
    <3>2. CASE k # 1
      <4>1. k - 1 \in DOMAIN ledgerStream' /\ (k - 1) + 1 = k BY <1>1, <3>2
      <4> QED BY <1>1, <2>1, <3>2, <4>1 DEF Begins
    <3> QED BY <3>1, <3>2
  <2>2. ASSUME NEW i \in DOMAIN ledgerStream', ledgerStream'[i].kind = "completed" PROVE Fresh(i)'
    <3>1. Fresh(i + 1) BY <1>1, <2>2 DEF LedgerInv, EndsFresh
    <3>2. CASE Clear /\ \A k \in DOMAIN ledgerStream : k < i + 1 => ledgerStream[k].kind # "completed"
      <4>1. e.kind # "completed"
        <5>1. 1 < i + 1 BY <1>1
        <5> QED BY <1>1, <3>2, <5>1
      <4>2. Clear' BY <3>2, <4>1 DEF Heard
      <4>3. \A k \in DOMAIN ledgerStream' : k < i => ledgerStream'[k].kind # "completed" BY <1>1, <3>2
      <4> QED BY <4>2, <4>3 DEF Fresh
    <3>3. CASE \E k \in DOMAIN ledgerStream :
                 k < i + 1 /\ Begins(k)
                   /\ \A m \in DOMAIN ledgerStream : k < m /\ m < i + 1 => ledgerStream[m].kind # "completed"
      <4>1. PICK k \in DOMAIN ledgerStream :
                 k < i + 1 /\ Begins(k)
                   /\ \A m \in DOMAIN ledgerStream : k < m /\ m < i + 1 => ledgerStream[m].kind # "completed"
        BY <3>3
      <4>2. \A m \in DOMAIN ledgerStream' : k - 1 < m /\ m < i => ledgerStream'[m].kind # "completed"
        <5> SUFFICES ASSUME NEW m \in DOMAIN ledgerStream', k - 1 < m, m < i
                     PROVE  ledgerStream'[m].kind # "completed"
          OBVIOUS
        <5>1. /\ m \in Nat /\ m + 1 \in DOMAIN ledgerStream /\ ledgerStream'[m] = ledgerStream[m + 1]
              /\ k \in Nat /\ i \in Nat
          BY <1>1
        <5>2. k < m + 1 /\ m + 1 < i + 1 BY <5>1
        <5> QED BY <4>1, <5>1, <5>2
      <4>3. CASE k = 1 /\ Clear'
        <5>1. \A m \in DOMAIN ledgerStream' : m < i => ledgerStream'[m].kind # "completed" BY <1>1, <4>2, <4>3
        <5> QED BY <4>3, <5>1 DEF Fresh
      <4>4. CASE k - 1 \in DOMAIN ledgerStream' /\ Begins(k - 1)'
        <5>1. k - 1 < i BY <1>1, <4>1
        <5> QED BY <4>2, <4>4, <5>1 DEF Fresh
      <4> QED BY <2>1, <4>1, <4>3, <4>4
    <3> QED BY <3>1, <3>2, <3>3 DEF Fresh
  <2>3. ASSUME wired', ledgerServer'.turn \in Numbers PROVE FreshAtLast'
    <3>1. FreshAtLast BY <1>2, <2>3 DEF LedgerInv, EndsFresh
    <3>2. CASE Clear /\ \A k \in DOMAIN ledgerStream : ledgerStream[k].kind # "completed"
      <4>1. Clear' BY <1>1, <3>2 DEF Heard
      <4>2. \A k \in DOMAIN ledgerStream' : ledgerStream'[k].kind # "completed" BY <1>1, <3>2
      <4> QED BY <4>1, <4>2 DEF FreshAtLast
    <3>3. CASE \E k \in DOMAIN ledgerStream :
                 Begins(k) /\ \A m \in DOMAIN ledgerStream : k < m => ledgerStream[m].kind # "completed"
      <4>1. PICK k \in DOMAIN ledgerStream :
                 Begins(k) /\ \A m \in DOMAIN ledgerStream : k < m => ledgerStream[m].kind # "completed"
        BY <3>3
      <4>2. \A m \in DOMAIN ledgerStream' : k - 1 < m => ledgerStream'[m].kind # "completed" BY <1>1, <4>1
      <4>3. CASE k = 1 /\ Clear'
        <5>1. \A m \in DOMAIN ledgerStream' : ledgerStream'[m].kind # "completed" BY <1>1, <4>2, <4>3
        <5> QED BY <4>3, <5>1 DEF FreshAtLast
      <4>4. CASE k - 1 \in DOMAIN ledgerStream' /\ Begins(k - 1)' BY <4>2, <4>4 DEF FreshAtLast
      <4> QED BY <2>1, <4>1, <4>3, <4>4
    <3> QED BY <3>1, <3>2, <3>3 DEF FreshAtLast
  <2> QED BY <2>2, <2>3 DEF EndsFresh
<1> QED BY <1>3, <1>5, <1>6, <1>7 DEF LedgerInv, Heard

\* A receipt says what helped the turn, if nothing did.
LEMMA ReceiptStored ==
    ASSUME NEW o, o.events \subseteq Numbers, NEW recs, recs = [n \in Numbers |-> recs[n]],
           NEW t \in Numbers, NEW tokens, NEW new, new = Ledger!Receipted(o, recs, t, tokens)
    PROVE  /\ new = [n \in Numbers |-> new[n]]
           /\ new[t].receipt # Ledger!NoReceipt
           /\ \A n \in Numbers : n # t => new[n] = recs[n]
<1>1. PICK events : events = IF o.turn = t THEN o.events ELSE {} OBVIOUS
<1>2. PICK route : route = Ledger!enforce_subagent_policy(
                     IF recs[t].route # Ledger!NoRoute THEN recs[t].route ELSE Ledger!manual_route(settings),
                     routing.allow)
  OBVIOUS
<1>3. new = [recs EXCEPT ![t] = [route |-> route, receipt |-> [tokens |-> tokens, events |-> events]]]
  BY <1>1, <1>2 DEF Ledger!Receipted
<1>4. DOMAIN recs = Numbers OBVIOUS
<1>5. /\ new = [n \in Numbers |-> new[n]]
      /\ new[t] = [route |-> route, receipt |-> [tokens |-> tokens, events |-> events]]
      /\ \A n \in Numbers : n # t => new[n] = recs[n]
  BY <1>3, <1>4
<1>6. new[t].receipt.events = events BY <1>5
<1>7. -1 \notin events BY <1>1 DEF Numbers
<1>8. -1 \in Ledger!NoReceipt.events BY DEF Ledger!NoReceipt, Ledger!None
<1> QED BY <1>5, <1>6, <1>7, <1>8

\* A turn whose route is written down.
LEMMA RouteStored ==
    ASSUME NEW recs, recs = [n \in Numbers |-> recs[n]], NEW t \in Numbers, NEW route,
           NEW new, new = Ledger!record_turn(recs, t, route)
    PROVE  new = [n \in Numbers |-> new[n]] /\ \A n \in Numbers : n # t => new[n] = recs[n]
<1>1. new = [recs EXCEPT ![t] = [route |-> route, receipt |-> Ledger!NoReceipt]] BY DEF Ledger!record_turn
<1>2. DOMAIN recs = Numbers OBVIOUS
<1> QED BY <1>1, <1>2

\* The sample that is due is taken.
LEMMA SampleTaken ==
    ASSUME LedgerInv, macro' = Ledger!Flushed(macro)
    PROVE  /\ macro' = [pending |-> macro'.pending, samples |-> macro'.samples]
           /\ macro'.pending = -1 /\ macro'.samples \in [Numbers -> Nat]
           /\ \A t \in Numbers : \/ macro.pending = t /\ macro'.samples[t] = macro.samples[t] + 1
                                 \/ macro.pending # t /\ macro'.samples[t] = macro.samples[t]
<1>1. PICK p, n : p = macro.pending /\ n = macro.samples OBVIOUS
<1>2. macro = [pending |-> p, samples |-> n] /\ p \in Numbers \cup {-1} /\ n \in [Numbers -> Nat]
  BY <1>1 DEF LedgerInv, LedgerTyped
<1>3. CASE p = -1
  <2>1. macro' = macro BY <1>1, <1>3 DEF Ledger!Flushed, Ledger!None
  <2>2. -1 \notin Numbers BY DEF Numbers
  <2> QED BY <1>1, <1>2, <1>3, <2>1, <2>2
<1>4. CASE p # -1
  <2>1. macro' = [[macro EXCEPT !.samples[p] = @ + 1] EXCEPT !.pending = -1]
    BY <1>1, <1>4 DEF Ledger!Flushed, Ledger!None, Ledger!Sampled
  <2>2. macro' = [pending |-> -1, samples |-> [n EXCEPT ![p] = @ + 1]] BY <1>2, <2>1
  <2>3. p \in Numbers /\ n[p] + 1 \in Nat BY <1>2, <1>4
  <2>4. [n EXCEPT ![p] = @ + 1] \in [Numbers -> Nat] BY <1>2, <2>3
  <2>5. macro'.samples = [n EXCEPT ![p] = @ + 1] /\ macro'.pending = -1 BY <2>2
  <2>6. \A t \in Numbers : \/ p = t /\ macro'.samples[t] = n[t] + 1
                           \/ p # t /\ macro'.samples[t] = n[t]
    BY <1>2, <2>3, <2>5
  <2> QED BY <1>1, <2>2, <2>4, <2>5, <2>6
<1> QED BY <1>3, <1>4

\* The counts after.
LEMMA SamplesCounted ==
    ASSUME LedgerInv, UNCHANGED <<seen, ledgerBounds>>, macro' = Ledger!Flushed(macro)
    PROVE  /\ macro' = [pending |-> macro'.pending, samples |-> macro'.samples]
           /\ macro'.pending = -1 /\ macro'.samples \in [Numbers -> Nat]
           /\ Counted' /\ \A t \in Numbers : Undone(t) => NothingOf(t)'
<1>1. /\ macro' = [pending |-> macro'.pending, samples |-> macro'.samples]
      /\ macro'.pending = -1 /\ macro'.samples \in [Numbers -> Nat]
      /\ \A t \in Numbers : \/ macro.pending = t /\ macro'.samples[t] = macro.samples[t] + 1
                            \/ macro.pending # t /\ macro'.samples[t] = macro.samples[t]
  BY SampleTaken
<1>2. -1 \notin Numbers /\ seen.ends \subseteq Numbers BY DEF Numbers, LedgerInv, LedgerTyped
<1>3. Counted' BY <1>1, <1>2 DEF LedgerInv, Counted
<1>4. \A t \in Numbers : Undone(t) => NothingOf(t)' BY <1>1, <1>2 DEF LedgerInv, NothingYet, NothingOf
<1> QED BY <1>1, <1>3, <1>4

LEMMA HearsAnswer ==
    ASSUME LedgerInv, NEW e, NextSays(e), e.kind = "answer", Ledger!OnAnswer(e), UNCHANGED ledgerBounds
    PROVE  Heard(e)
<1>1. e.turn \in Numbers /\ Undone(e.turn) BY DEF NextSays, Named
<1>2. e.turn \notin seen.ends BY <1>1 DEF LedgerInv, NothingYet
<1>3. /\ UNCHANGED <<obs, macro, timers>>
      /\ seen' = [seen EXCEPT !.answers = @ \cup {e.turn}]
      /\ records' = Ledger!record_turn(records, e.turn, e.route)
  BY DEF Ledger!OnAnswer, Ledger!Keep
<1>4. PICK new, old : new = records' /\ old = records OBVIOUS
<1>5. new = [n \in Numbers |-> new[n]] /\ \A n \in Numbers : n # e.turn => new[n] = old[n]
  <2>1. old = [n \in Numbers |-> old[n]] BY <1>4 DEF LedgerInv, LedgerTyped
  <2>2. PICK t, route : t = e.turn /\ route = e.route OBVIOUS
  <2>3. new = Ledger!record_turn(old, t, route) BY <1>3, <1>4, <2>2
  <2> QED BY <1>1, <2>1, <2>2, <2>3, RouteStored
<1>6. seen' = [answers |-> seen'.answers, ends |-> seen.ends] /\ seen'.ends = seen.ends
  BY <1>3 DEF LedgerInv, LedgerTyped
<1>7. WindowTyped' BY <1>3, <1>4, <1>5, <1>6 DEF LedgerInv, LedgerTyped, WindowTyped
<1>8. Clear' <=> Clear BY <1>3 DEF Clear
<1>9. Counted' /\ \A t \in Numbers : Undone(t) => NothingOf(t)'
  BY <1>3, <1>6 DEF LedgerInv, Counted, NothingYet, NothingOf
<1>10. Waits' BY <1>3 DEF LedgerInv, Waits
<1>11. Receipts'
  <2>1. \A t \in seen.ends : t \in Numbers /\ t # e.turn BY <1>2 DEF LedgerInv, LedgerTyped
  <2> QED BY <1>3, <1>4, <1>5, <1>6, <2>1 DEF LedgerInv, Receipts
<1> QED BY <1>7, <1>8, <1>9, <1>10, <1>11 DEF Heard

\* A start writes what the turn before it left, if that waited.
LEMMA HearsStart ==
    ASSUME LedgerInv, NEW e, NextSays(e), e.kind = "started", Ledger!OnStarted(e), UNCHANGED ledgerBounds
    PROVE  Heard(e)
<1>1. e.turn \in Numbers /\ Undone(e.turn) BY DEF NextSays, Named
<1>2. e.turn \notin seen.ends BY <1>1 DEF LedgerInv, NothingYet
<1>3. PICK known, old, last, new :
        /\ old = records /\ last = obs /\ new = records'
        /\ known = IF old[e.turn].route # Ledger!NoRoute THEN old
                   ELSE Ledger!record_turn(old, e.turn, Ledger!manual_route(settings))
  OBVIOUS
<1>4. /\ obs' = [turn |-> e.turn, before |-> usage, latest |-> usage, seen |-> FALSE, completed |-> FALSE,
                 events |-> {}]
      /\ new = IF last.completed THEN Ledger!Receipted(last, known, last.turn, -1) ELSE known
      /\ macro' = Ledger!Flushed(macro) /\ UNCHANGED <<timers, seen>>
  BY <1>3 DEF Ledger!OnStarted, Ledger!Keep, Ledger!StaleReceipted, Ledger!None
<1>5. known = [n \in Numbers |-> known[n]] /\ \A n \in Numbers : n # e.turn => known[n] = old[n]
  <2>1. old = [n \in Numbers |-> old[n]] BY <1>3 DEF LedgerInv, LedgerTyped
  <2>2. PICK t, route : t = e.turn /\ route = Ledger!manual_route(settings) OBVIOUS
  <2>3. CASE known = old BY <2>1, <2>3
  <2>4. CASE known = Ledger!record_turn(old, t, route) BY <1>1, <2>1, <2>2, <2>4, RouteStored
  <2> QED BY <1>3, <2>2, <2>3, <2>4
<1>6. last.completed => last.turn \in timers /\ last.turn \in Numbers
  BY <1>3 DEF LedgerInv, LedgerTyped, Waits
<1>7. last.events \subseteq Numbers BY <1>3 DEF LedgerInv, LedgerTyped
<1>8. /\ new = [n \in Numbers |-> new[n]]
      /\ last.completed => new[last.turn].receipt # Ledger!NoReceipt
      /\ \A n \in Numbers : n # e.turn /\ ~(last.completed /\ n = last.turn) => new[n] = old[n]
  <2>1. CASE last.completed
    <3>1. PICK t, tokens : t = last.turn /\ tokens = -1 OBVIOUS
    <3>2. new = Ledger!Receipted(last, known, t, tokens) BY <1>4, <2>1, <3>1
    <3>3. /\ new = [n \in Numbers |-> new[n]] /\ new[t].receipt # Ledger!NoReceipt
          /\ \A n \in Numbers : n # t => new[n] = known[n]
      BY <1>5, <1>6, <1>7, <2>1, <3>1, <3>2, ReceiptStored
    <3> QED BY <1>5, <2>1, <3>1, <3>3
  <2>2. CASE ~last.completed BY <1>4, <1>5, <2>2
  <2> QED BY <2>1, <2>2
<1>9. /\ macro' = [pending |-> macro'.pending, samples |-> macro'.samples]
      /\ macro'.pending = -1 /\ macro'.samples \in [Numbers -> Nat]
      /\ Counted' /\ \A t \in Numbers : Undone(t) => NothingOf(t)'
  BY <1>4, SamplesCounted
<1>10. /\ obs' = [turn |-> obs'.turn, before |-> obs'.before, latest |-> obs'.latest, seen |-> obs'.seen,
                  completed |-> obs'.completed, events |-> obs'.events]
       /\ obs'.turn = e.turn /\ ~obs'.completed /\ obs'.completed \in BOOLEAN /\ obs'.events = {}
  BY <1>4
<1>11. WindowTyped' BY <1>1, <1>3, <1>4, <1>8, <1>9, <1>10 DEF LedgerInv, LedgerTyped, WindowTyped
<1>12. Clear' BY <1>9, <1>10 DEF Clear
<1>13. Waits' BY <1>10 DEF Waits
<1>14. Receipts'
  <2>1. \A t \in seen.ends : t \in Numbers /\ t # e.turn BY <1>2 DEF LedgerInv, LedgerTyped
  <2>2. \A t \in seen.ends : old[t].receipt # Ledger!NoReceipt \/ (last.turn = t /\ last.completed)
    BY <1>3 DEF LedgerInv, Receipts
  <2>3. \A t \in seen.ends : new[t].receipt # Ledger!NoReceipt BY <1>8, <2>1, <2>2
  <2> QED BY <1>3, <1>4, <2>3 DEF Receipts
<1> QED BY <1>9, <1>11, <1>12, <1>13, <1>14 DEF Heard

\* What a notice that names no turn's start or end leaves.
LEMMA HearsLittle ==
    ASSUME LedgerInv, NEW e, UNCHANGED <<timers, records, macro, seen, ledgerBounds>>,
           obs' = [turn |-> obs.turn, before |-> obs.before, latest |-> obs.latest, seen |-> obs.seen,
                   completed |-> obs.completed, events |-> obs'.events],
           obs'.events \subseteq Numbers, e.kind # "started"
    PROVE  Heard(e)
<1>1. /\ obs'.turn = obs.turn /\ obs'.before = obs.before /\ obs'.latest = obs.latest /\ obs'.seen = obs.seen
      /\ obs'.completed = obs.completed
  <2>1. PICK h : h = obs'.events OBVIOUS
  <2>2. obs' = [turn |-> obs.turn, before |-> obs.before, latest |-> obs.latest, seen |-> obs.seen,
                completed |-> obs.completed, events |-> h]
    BY <2>1
  <2> QED BY <2>2
<1>2. WindowTyped' BY <1>1 DEF LedgerInv, LedgerTyped, WindowTyped
<1>3. Clear' <=> Clear BY <1>1 DEF Clear
<1>4. Counted' /\ Waits' /\ Receipts' BY <1>1 DEF LedgerInv, Counted, Waits, Receipts
<1>5. \A t \in Numbers : Undone(t) => NothingOf(t)' BY DEF LedgerInv, NothingYet, NothingOf
<1> QED BY <1>2, <1>3, <1>4, <1>5 DEF Heard

LEMMA HearsItem ==
    ASSUME LedgerInv, NEW e, NextSays(e), e.kind \in {"item", "settings"},
           \/ e.kind = "item" /\ Ledger!OnItem(e)
           \/ e.kind = "settings" /\ Ledger!OnSettings(e),
           UNCHANGED ledgerBounds
    PROVE  Heard(e)
<1>1. UNCHANGED <<timers, records, macro, seen>> BY DEF Ledger!OnItem, Ledger!OnSettings, Ledger!Keep
<1>2. obs = [turn |-> obs.turn, before |-> obs.before, latest |-> obs.latest, seen |-> obs.seen,
             completed |-> obs.completed, events |-> obs.events] /\ obs.events \subseteq Numbers
  BY DEF LedgerInv, LedgerTyped
<1>3. obs' = obs \/ (e.turn \in Numbers /\ obs' = [obs EXCEPT !.events = @ \cup {e.turn}])
  BY DEF Ledger!OnItem, Ledger!OnSettings, Ledger!Keep, NextSays, Named
<1>4. /\ obs' = [turn |-> obs.turn, before |-> obs.before, latest |-> obs.latest, seen |-> obs.seen,
                 completed |-> obs.completed, events |-> obs'.events]
      /\ obs'.events \subseteq Numbers
  <2>1. CASE obs' = obs BY <1>2, <2>1
  <2>2. CASE e.turn \in Numbers /\ obs' = [obs EXCEPT !.events = @ \cup {e.turn}] BY <1>2, <2>2
  <2> QED BY <1>3, <2>1, <2>2
<1> QED BY <1>1, <1>4, HearsLittle

LEMMA HearsUsage ==
    ASSUME LedgerInv, NEW e, NextSays(e), e.kind = "usage", Ledger!OnUsage(e), UNCHANGED ledgerBounds
    PROVE  Heard(e)
<1>1. PICK heard, o, old, new :
        /\ heard = [turn |-> obs.turn, before |-> obs.before, latest |-> e.total, seen |-> TRUE,
                    completed |-> obs.completed, events |-> obs.events]
        /\ o = IF obs = Ledger!NoObs THEN obs ELSE heard
        /\ old = records /\ new = records'
  OBVIOUS
<1>2. /\ obs' = IF o.completed THEN Ledger!Left(o, o.turn) ELSE o
      /\ new = IF o.completed THEN Ledger!Receipted(o, old, o.turn, Ledger!cumulative_turn_delta(o)) ELSE old
      /\ macro' = Ledger!Flushed(macro) /\ UNCHANGED <<timers, seen>>
  BY <1>1 DEF Ledger!OnUsage, Ledger!Keep
<1>3. /\ o = [turn |-> o.turn, before |-> o.before, latest |-> o.latest, seen |-> o.seen,
              completed |-> o.completed, events |-> o.events]
      /\ o.turn = obs.turn /\ o.completed = obs.completed /\ o.events = obs.events
  <2>1. CASE obs = Ledger!NoObs BY <1>1, <2>1 DEF Ledger!NoObs
  <2>2. CASE o = heard
    <3>1. PICK n, b, l, c, h : n = obs.turn /\ b = obs.before /\ l = e.total /\ c = obs.completed /\ h = obs.events
      OBVIOUS
    <3>2. o = [turn |-> n, before |-> b, latest |-> l, seen |-> TRUE, completed |-> c, events |-> h]
      BY <1>1, <2>2, <3>1
    <3>3. /\ o = [turn |-> o.turn, before |-> o.before, latest |-> o.latest, seen |-> o.seen,
                  completed |-> o.completed, events |-> o.events]
          /\ o.turn = n /\ o.completed = c /\ o.events = h
      BY <3>2
    <3> QED BY <3>1, <3>3
  <2> QED BY <1>1, <2>1, <2>2
<1>4. /\ o.turn \in Numbers \cup {-1} /\ o.completed \in BOOLEAN /\ o.events \subseteq Numbers
      /\ o.completed => o.turn \in timers /\ o.turn \in Numbers
      /\ old = [n \in Numbers |-> old[n]]
  BY <1>1, <1>3 DEF LedgerInv, LedgerTyped, Waits
<1>5. /\ macro' = [pending |-> macro'.pending, samples |-> macro'.samples]
      /\ macro'.pending = -1 /\ macro'.samples \in [Numbers -> Nat]
      /\ Counted' /\ \A t \in Numbers : Undone(t) => NothingOf(t)'
  BY <1>2, SamplesCounted
<1>6. /\ obs' = [turn |-> obs'.turn, before |-> obs'.before, latest |-> obs'.latest, seen |-> obs'.seen,
                 completed |-> obs'.completed, events |-> obs'.events]
      /\ obs'.turn \in Numbers \cup {-1} /\ ~obs'.completed /\ obs'.completed \in BOOLEAN
      /\ obs'.events \subseteq Numbers
  <2>1. CASE o.completed
    <3>1. obs' = Ledger!NoObs BY <1>2, <2>1 DEF Ledger!Left
    <3> QED BY <3>1 DEF Ledger!NoObs, Ledger!None
  <2>2. CASE ~o.completed
    <3>1. obs' = o BY <1>2, <2>2
    <3> QED BY <1>3, <1>4, <2>2, <3>1
  <2> QED BY <2>1, <2>2
<1>7. /\ new = [n \in Numbers |-> new[n]]
      /\ o.completed => new[o.turn].receipt # Ledger!NoReceipt
      /\ \A n \in Numbers : ~(o.completed /\ n = o.turn) => new[n] = old[n]
  <2>1. CASE o.completed
    <3>1. PICK t, tokens : t = o.turn /\ tokens = Ledger!cumulative_turn_delta(o) OBVIOUS
    <3>2. new = Ledger!Receipted(o, old, t, tokens) BY <1>2, <2>1, <3>1
    <3>3. /\ new = [n \in Numbers |-> new[n]] /\ new[t].receipt # Ledger!NoReceipt
          /\ \A n \in Numbers : n # t => new[n] = old[n]
      BY <1>4, <2>1, <3>1, <3>2, ReceiptStored
    <3> QED BY <2>1, <3>1, <3>3
  <2>2. CASE ~o.completed BY <1>2, <1>4, <2>2
  <2> QED BY <2>1, <2>2
<1>8. WindowTyped' BY <1>1, <1>2, <1>5, <1>6, <1>7 DEF LedgerInv, LedgerTyped, WindowTyped
<1>9. Clear' BY <1>5, <1>6 DEF Clear
<1>10. Waits' BY <1>6 DEF Waits
<1>11. Receipts'
  <2>1. \A t \in seen.ends : t \in Numbers BY DEF LedgerInv, LedgerTyped
  <2>2. \A t \in seen.ends : old[t].receipt # Ledger!NoReceipt \/ (o.turn = t /\ o.completed)
    BY <1>1, <1>3 DEF LedgerInv, Receipts
  <2>3. \A t \in seen.ends : new[t].receipt # Ledger!NoReceipt BY <1>7, <2>1, <2>2
  <2> QED BY <1>1, <1>2, <2>3 DEF Receipts
<1> QED BY <1>5, <1>8, <1>9, <1>10, <1>11 DEF Heard

\* An end comes when nothing waits.
LEMMA HearsEnd ==
    ASSUME LedgerInv, NEW e, NextSays(e), e.kind = "completed", Ledger!OnCompleted(e), UNCHANGED ledgerBounds
    PROVE  Heard(e)
<1>1. PICK t, o, tokens, old, new :
        /\ t = e.turn /\ old = records /\ new = records'
        /\ o = [turn |-> t, before |-> obs.before, latest |-> obs.latest, seen |-> obs.seen,
                completed |-> TRUE, events |-> obs.events \cup e.items]
        /\ tokens = IF e.tokens # Ledger!None THEN e.tokens ELSE Ledger!cumulative_turn_delta(o)
  OBVIOUS
<1>2. /\ t \in Numbers /\ Undone(t) /\ Clear /\ e.items \subseteq Numbers
      /\ macro.samples[t] = 0 /\ macro.pending # t /\ t \notin seen.ends
  BY <1>1 DEF NextSays, Named, LedgerInv, NothingYet
<1>3. /\ \/ obs' = Ledger!Left(o, t) /\ new = Ledger!Receipted(o, old, t, tokens) /\ timers' = timers
         \/ obs' = o /\ new = old /\ timers' = timers \cup {t}
      /\ \/ macro' = Ledger!Sampled(macro, t)
         \/ macro' = [macro EXCEPT !.pending = t]
      /\ seen' = [seen EXCEPT !.ends = @ \cup {t}]
  BY <1>1 DEF Ledger!OnCompleted, Ledger!Keep
<1>4. /\ o = [turn |-> o.turn, before |-> o.before, latest |-> o.latest, seen |-> o.seen,
              completed |-> o.completed, events |-> o.events]
      /\ o.turn = t /\ o.completed = TRUE /\ o.events \subseteq Numbers
  <2>1. PICK b, l, s, h : b = obs.before /\ l = obs.latest /\ s = obs.seen /\ h = obs.events \cup e.items
    OBVIOUS
  <2>2. o = [turn |-> t, before |-> b, latest |-> l, seen |-> s, completed |-> TRUE, events |-> h]
    BY <1>1, <2>1
  <2>3. h \subseteq Numbers BY <1>2, <2>1 DEF LedgerInv, LedgerTyped
  <2> QED BY <2>2, <2>3
<1>5. old = [n \in Numbers |-> old[n]] /\ timers \subseteq Numbers /\ seen.ends \subseteq Numbers
  BY <1>1 DEF LedgerInv, LedgerTyped
<1>6. seen' = [answers |-> seen.answers, ends |-> seen.ends \cup {t}] BY <1>3 DEF LedgerInv, LedgerTyped
<1>7. seen'.answers = seen.answers /\ seen'.ends = seen.ends \cup {t} BY <1>6
\* The turn's receipt is there, or waited for.
<1>8. /\ new = [n \in Numbers |-> new[n]]
      /\ \A n \in Numbers : n # t => new[n] = old[n]
      /\ \/ obs' = Ledger!NoObs /\ new[t].receipt # Ledger!NoReceipt /\ timers' = timers
         \/ obs' = o /\ timers' = timers \cup {t}
  <2>1. CASE obs' = Ledger!Left(o, t) /\ new = Ledger!Receipted(o, old, t, tokens) /\ timers' = timers
    <3>1. /\ new = [n \in Numbers |-> new[n]] /\ new[t].receipt # Ledger!NoReceipt
          /\ \A n \in Numbers : n # t => new[n] = old[n]
      BY <1>2, <1>4, <1>5, <2>1, ReceiptStored
    <3>2. obs' = Ledger!NoObs BY <1>4, <2>1 DEF Ledger!Left
    <3> QED BY <2>1, <3>1, <3>2
  <2>2. CASE obs' = o /\ new = old /\ timers' = timers \cup {t} BY <1>5, <2>2
  <2> QED BY <1>3, <2>1, <2>2
\* One sample is taken, or due.
<1>9. /\ macro' = [pending |-> macro'.pending, samples |-> macro'.samples]
      /\ macro'.pending \in Numbers \cup {-1} /\ macro'.samples \in [Numbers -> Nat]
      /\ \A n \in Numbers : n # t => macro'.samples[n] = macro.samples[n]
      /\ \/ macro'.samples[t] = 1 /\ macro'.pending = macro.pending
         \/ macro'.samples[t] = 0 /\ macro'.pending = t
  <2>1. PICK p, n : p = macro.pending /\ n = macro.samples OBVIOUS
  <2>2. macro = [pending |-> p, samples |-> n] /\ p \in Numbers \cup {-1} /\ n \in [Numbers -> Nat] /\ n[t] = 0
    BY <1>2, <2>1 DEF LedgerInv, LedgerTyped
  <2>3. CASE macro' = Ledger!Sampled(macro, t)
    <3>1. macro' = [macro EXCEPT !.samples[t] = @ + 1] BY <2>3 DEF Ledger!Sampled
    <3>2. macro' = [pending |-> p, samples |-> [n EXCEPT ![t] = @ + 1]] BY <2>2, <3>1
    <3>3. [n EXCEPT ![t] = @ + 1] \in [Numbers -> Nat] BY <1>2, <2>2
    <3>4. macro'.samples = [n EXCEPT ![t] = @ + 1] /\ macro'.pending = p BY <3>2
    <3>5. n[t] + 1 = 1 BY <2>2
    <3>6. macro'.samples[t] = 1 /\ \A m \in Numbers : m # t => macro'.samples[m] = n[m]
      BY <1>2, <2>2, <3>4, <3>5
    <3> QED BY <2>1, <2>2, <3>2, <3>3, <3>4, <3>6
  <2>4. CASE macro' = [macro EXCEPT !.pending = t]
    <3>1. macro' = [pending |-> t, samples |-> n] BY <2>2, <2>4
    <3> QED BY <1>2, <2>1, <2>2, <3>1
  <2> QED BY <1>3, <2>3, <2>4
<1>10. /\ obs' = [turn |-> obs'.turn, before |-> obs'.before, latest |-> obs'.latest, seen |-> obs'.seen,
                  completed |-> obs'.completed, events |-> obs'.events]
       /\ obs'.turn \in Numbers \cup {-1} /\ obs'.completed \in BOOLEAN /\ obs'.events \subseteq Numbers
  <2>1. CASE obs' = Ledger!NoObs BY <2>1 DEF Ledger!NoObs, Ledger!None
  <2>2. CASE obs' = o BY <1>2, <1>4, <2>2
  <2> QED BY <1>8, <2>1, <2>2
<1>11. WindowTyped'
  <2>1. timers' \subseteq Numbers BY <1>2, <1>5, <1>8
  <2>2. seen' = [answers |-> seen'.answers, ends |-> seen'.ends] /\ seen'.ends \subseteq Numbers
    BY <1>2, <1>5, <1>6, <1>7
  <2> QED BY <1>1, <1>8, <1>9, <1>10, <2>1, <2>2 DEF WindowTyped
<1>12. \A n \in Numbers : Undone(n) /\ ~(e.kind = "completed" /\ e.turn = n) => NothingOf(n)'
  BY <1>1, <1>7, <1>9 DEF LedgerInv, NothingYet, NothingOf
<1>13. Counted'
  <2>1. \A n \in Numbers : /\ macro'.samples[n] <= 1
                           /\ macro'.pending = n => macro'.samples[n] = 0
    BY <1>2, <1>9 DEF LedgerInv, Counted
  <2>2. ASSUME ledgerBounds.losses = 0
        PROVE  \A n \in seen'.ends : macro'.samples[n] = 1 \/ macro'.pending = n
    <3>1. macro.pending = -1 /\ -1 \notin Numbers BY <1>2, <2>2 DEF Clear, Numbers
    <3>2. \A n \in seen.ends : macro.samples[n] = 1 BY <1>5, <2>2, <3>1 DEF LedgerInv, Counted
    <3> QED BY <1>2, <1>5, <1>7, <1>9, <3>2
  <2> QED BY <2>1, <2>2 DEF Counted
<1>14. Waits'
  <2>1. CASE obs' = Ledger!NoObs BY <2>1 DEF Ledger!NoObs, Waits
  <2>2. CASE obs' = o /\ timers' = timers \cup {t} BY <1>4, <2>2 DEF Waits
  <2> QED BY <1>8, <2>1, <2>2
<1>15. Receipts'
  <2>1. \A n \in seen.ends : n \in Numbers /\ n # t /\ old[n].receipt # Ledger!NoReceipt
    BY <1>1, <1>2, <1>5 DEF LedgerInv, Receipts, Clear
  <2>2. \A n \in seen.ends : new[n].receipt # Ledger!NoReceipt BY <1>8, <2>1
  <2>3. new[t].receipt # Ledger!NoReceipt \/ (t \in timers' /\ obs'.turn = t /\ obs'.completed)
    BY <1>4, <1>8
  <2> QED BY <1>1, <1>7, <2>2, <2>3 DEF Receipts
<1> QED BY <1>11, <1>12, <1>13, <1>14, <1>15 DEF Heard

LEMMA HearsDeletion ==
    ASSUME LedgerInv, NEW e, e.kind = "deleted", Ledger!OnDeleted, UNCHANGED ledgerBounds
    PROVE  Heard(e)
<1>1. /\ obs' = Ledger!NoObs /\ records' = [t \in Numbers |-> Ledger!NoRecord]
      /\ macro' = [macro EXCEPT !.pending = -1] /\ seen' = [answers |-> {}, ends |-> {}] /\ timers' = timers
  BY DEF Ledger!OnDeleted, Ledger!Keep, Ledger!None, Ledger!Turns, Numbers
<1>2. macro' = [pending |-> -1, samples |-> macro.samples] BY <1>1 DEF LedgerInv, LedgerTyped
<1>3. macro'.pending = -1 /\ macro'.samples = macro.samples /\ -1 \notin Numbers /\ seen'.ends = {}
  BY <1>1, <1>2 DEF Numbers
<1>4. /\ obs' = [turn |-> obs'.turn, before |-> obs'.before, latest |-> obs'.latest, seen |-> obs'.seen,
                 completed |-> obs'.completed, events |-> obs'.events]
      /\ obs'.turn = -1 /\ ~obs'.completed /\ obs'.completed \in BOOLEAN /\ obs'.events = {}
  BY <1>1 DEF Ledger!NoObs, Ledger!None
<1>5. records' = [t \in Numbers |-> records'[t]] BY <1>1
<1>6. WindowTyped' BY <1>1, <1>2, <1>3, <1>4, <1>5 DEF LedgerInv, LedgerTyped, WindowTyped
<1>7. Clear' BY <1>3, <1>4 DEF Clear
<1>8. Counted' /\ Waits' /\ Receipts' BY <1>3, <1>4 DEF LedgerInv, Counted, Waits, Receipts
<1>9. \A t \in Numbers : Undone(t) => NothingOf(t)' BY <1>3 DEF LedgerInv, NothingYet, NothingOf
<1> QED BY <1>6, <1>7, <1>8, <1>9 DEF Heard

LEMMA LedgerReceives == ASSUME LedgerInv, Ledger!Receive PROVE LedgerInv'
<1>1. PICK e : e = Head(ledgerStream) OBVIOUS
<1>2. /\ Taking(e)
      /\ \/ e.kind = "answer" /\ Ledger!OnAnswer(e)
         \/ e.kind = "started" /\ Ledger!OnStarted(e)
         \/ e.kind = "item" /\ Ledger!OnItem(e)
         \/ e.kind = "usage" /\ Ledger!OnUsage(e)
         \/ e.kind = "completed" /\ Ledger!OnCompleted(e)
         \/ e.kind = "settings" /\ Ledger!OnSettings(e)
         \/ e.kind = "deleted" /\ Ledger!OnDeleted
  BY <1>1 DEF Ledger!Receive, Ledger!ServerSame, Taking
<1>3. NextSays(e) BY <1>2, FirstNotice
<1>4. UNCHANGED ledgerBounds BY <1>2 DEF Taking
<1>5. CASE e.kind = "answer" /\ Ledger!OnAnswer(e) BY <1>2, <1>3, <1>4, <1>5, HearsAnswer, NoticeTaken
<1>6. CASE e.kind = "started" /\ Ledger!OnStarted(e) BY <1>2, <1>3, <1>4, <1>6, HearsStart, NoticeTaken
<1>7. CASE \/ e.kind = "item" /\ Ledger!OnItem(e)
           \/ e.kind = "settings" /\ Ledger!OnSettings(e)
  BY <1>2, <1>3, <1>4, <1>7, HearsItem, NoticeTaken
<1>8. CASE e.kind = "usage" /\ Ledger!OnUsage(e) BY <1>2, <1>3, <1>4, <1>8, HearsUsage, NoticeTaken
<1>9. CASE e.kind = "completed" /\ Ledger!OnCompleted(e) BY <1>2, <1>3, <1>4, <1>9, HearsEnd, NoticeTaken
<1>10. CASE e.kind = "deleted" /\ Ledger!OnDeleted BY <1>2, <1>4, <1>10, HearsDeletion, NoticeTaken
<1> QED BY <1>2, <1>5, <1>6, <1>7, <1>8, <1>9, <1>10

\* The wait for a turn's usage is over.
LEMMA WaitEnds == ASSUME LedgerInv, Ledger!Wait PROVE LedgerInv'
<1>1. PICK t \in timers :
        /\ timers' = timers \ {t}
        /\ IF obs.completed /\ obs.turn = t
           THEN Ledger!Keep(Ledger!NoObs, Ledger!Receipted(obs, records, t, Ledger!None), macro)
           ELSE Ledger!Keep(obs, records, macro)
        /\ UNCHANGED <<ledgerServer, ledgerStream, wired, seen, ledgerBounds>>
  BY DEF Ledger!Wait, Ledger!ServerSame
<1>2. PICK last, old, new : last = obs /\ old = records /\ new = records' OBVIOUS
<1>3. /\ t \in Numbers /\ last.events \subseteq Numbers /\ old = [n \in Numbers |-> old[n]]
      /\ seen.ends \subseteq Numbers
  BY <1>2 DEF LedgerInv, LedgerTyped
<1>4. /\ new = [n \in Numbers |-> new[n]] /\ macro' = macro
      /\ \/ /\ last.completed /\ last.turn = t /\ obs' = Ledger!NoObs
            /\ new[t].receipt # Ledger!NoReceipt /\ \A n \in Numbers : n # t => new[n] = old[n]
         \/ ~(last.completed /\ last.turn = t) /\ obs' = last /\ new = old
  <2>1. CASE obs.completed /\ obs.turn = t
    <3>1. PICK tokens : tokens = Ledger!None OBVIOUS
    <3>2. obs' = Ledger!NoObs /\ macro' = macro /\ new = Ledger!Receipted(last, old, t, tokens)
      BY <1>1, <1>2, <2>1, <3>1 DEF Ledger!Keep
    <3>3. /\ new = [n \in Numbers |-> new[n]] /\ new[t].receipt # Ledger!NoReceipt
          /\ \A n \in Numbers : n # t => new[n] = old[n]
      BY <1>3, <3>2, ReceiptStored
    <3> QED BY <1>2, <2>1, <3>2, <3>3
  <2>2. CASE ~(obs.completed /\ obs.turn = t) BY <1>1, <1>2, <1>3, <2>2 DEF Ledger!Keep
  <2> QED BY <2>1, <2>2
<1>5. /\ obs' = [turn |-> obs'.turn, before |-> obs'.before, latest |-> obs'.latest, seen |-> obs'.seen,
                 completed |-> obs'.completed, events |-> obs'.events]
      /\ obs'.turn \in Numbers \cup {-1} /\ obs'.completed \in BOOLEAN /\ obs'.events \subseteq Numbers
  <2>1. CASE obs' = Ledger!NoObs BY <2>1 DEF Ledger!NoObs, Ledger!None
  <2>2. CASE obs' = last BY <1>2, <2>2 DEF LedgerInv, LedgerTyped
  <2> QED BY <1>4, <2>1, <2>2
<1>6. LedgerTyped' BY <1>1, <1>2, <1>4, <1>5 DEF LedgerInv, LedgerTyped
<1>7. Clear => Clear'
  <2>1. CASE obs' = Ledger!NoObs BY <1>1, <1>4, <2>1 DEF Clear, Ledger!NoObs
  <2>2. CASE obs' = last BY <1>1, <1>2, <1>4, <2>2 DEF Clear
  <2> QED BY <1>4, <2>1, <2>2
<1>8. Ordered' /\ NothingYet'
  BY <1>1, <1>4 DEF LedgerInv, Ordered, NothingYet, Undone, Completes
<1>9. EndsFresh' BY <1>1, <1>7 DEF LedgerInv, EndsFresh, Fresh, FreshAtLast, Begins
<1>10. Counted' BY <1>1, <1>4 DEF LedgerInv, Counted
<1>11. Waits'
  <2>1. CASE obs' = Ledger!NoObs BY <2>1 DEF Ledger!NoObs, Waits
  <2>2. CASE ~(last.completed /\ last.turn = t) /\ obs' = last BY <1>1, <1>2, <2>2 DEF LedgerInv, Waits
  <2> QED BY <1>4, <2>1, <2>2
<1>12. Receipts'
  <2>1. \A n \in seen.ends : /\ n \in Numbers
                             /\ old[n].receipt # Ledger!NoReceipt \/ (n \in timers /\ last.turn = n /\ last.completed)
    BY <1>2, <1>3 DEF LedgerInv, Receipts
  <2>2. \A n \in seen.ends : new[n].receipt # Ledger!NoReceipt \/ (n \in timers' /\ obs'.turn = n /\ obs'.completed)
    <3>1. CASE ~(last.completed /\ last.turn = t) /\ obs' = last /\ new = old BY <1>1, <2>1, <3>1
    <3>2. CASE /\ last.turn = t /\ new[t].receipt # Ledger!NoReceipt
               /\ \A n \in Numbers : n # t => new[n] = old[n]
      BY <2>1, <3>2
    <3> QED BY <1>4, <3>1, <3>2
  <2> QED BY <1>1, <1>2, <2>2 DEF Receipts
<1> QED BY <1>6, <1>8, <1>9, <1>10, <1>11, <1>12 DEF LedgerInv


\* A connection is lost, and the next one comes when no wait is left.
LEMMA Reconnection == ASSUME LedgerInv, Ledger!Disconnect \/ Ledger!Connect PROVE LedgerInv'
<1>1. CASE Ledger!Disconnect
  <2>1. /\ wired' = FALSE /\ ledgerStream' = <<>>
        /\ UNCHANGED <<ledgerServer, obs, timers, records, macro, seen>>
        /\ ledgerBounds' = [ledgerBounds EXCEPT !.losses = @ + 1]
    BY <1>1 DEF Ledger!Disconnect, Ledger!ServerSame
  <2>2. DOMAIN ledgerStream' = {} /\ \E S : ledgerStream' \in Seq(S)
    <3>1. <<>> \in Seq({}) /\ DOMAIN <<>> = {} OBVIOUS
    <3> QED BY <2>1, <3>1
  <2>3. /\ ledgerBounds' = [picks |-> ledgerBounds.picks, losses |-> ledgerBounds.losses + 1]
        /\ ledgerBounds.losses \in Nat
    BY <2>1 DEF LedgerInv, LedgerTyped
  <2>4. /\ ledgerBounds' = [picks |-> ledgerBounds'.picks, losses |-> ledgerBounds'.losses]
        /\ ledgerBounds'.losses \in Nat /\ ledgerBounds'.losses # 0
    BY <2>3
  <2>5. LedgerTyped' BY <2>1, <2>2, <2>4 DEF LedgerInv, LedgerTyped
  <2>6. Ordered' /\ EndsFresh' BY <2>1, <2>2 DEF Ordered, EndsFresh
  <2>7. NothingYet' BY <2>1, <2>2 DEF LedgerInv, NothingYet, Undone, Completes
  <2>8. Counted' BY <2>1, <2>4 DEF LedgerInv, Counted
  <2> QED BY <2>1, <2>5, <2>6, <2>7, <2>8 DEF LedgerInv, Waits, Receipts
<1>2. CASE Ledger!Connect
  <2>1. /\ ~wired /\ timers = {} /\ wired' = TRUE
        /\ UNCHANGED <<ledgerServer, ledgerStream, obs, timers, records, macro, seen, ledgerBounds>>
    BY <1>2 DEF Ledger!Connect, Ledger!ServerSame
  <2>2. ledgerStream = <<>> /\ ledgerBounds.losses # 0 BY <2>1 DEF LedgerInv, LedgerTyped
  <2>3. DOMAIN ledgerStream = {} BY <2>2
  <2>4. Clear' BY <2>1, <2>2 DEF LedgerInv, LedgerTyped, Waits, Clear
  <2>5. EndsFresh' BY <2>1, <2>3, <2>4 DEF EndsFresh, FreshAtLast
  <2>6. LedgerTyped' BY <2>1 DEF LedgerInv, LedgerTyped
  <2>7. Ordered' /\ NothingYet' BY <2>1 DEF LedgerInv, Ordered, NothingYet, Undone, Completes
  <2> QED BY <2>1, <2>5, <2>6, <2>7 DEF LedgerInv, Counted, Waits, Receipts
<1> QED BY <1>1, <1>2

\* Steps that the accounts do not depend on.
LEMMA LedgerStays ==
    ASSUME LedgerInv, ServerShape, ledgerServer'.turn = ledgerServer.turn, ledgerServer'.last = ledgerServer.last,
           UNCHANGED <<ledgerStream, wired, obs, timers, records, macro, seen>>,
           ledgerBounds'.losses = ledgerBounds.losses,
           ledgerBounds' = [picks |-> ledgerBounds'.picks, losses |-> ledgerBounds'.losses]
    PROVE  LedgerInv'
<1>1. LedgerTyped' BY DEF LedgerInv, LedgerTyped, ServerShape
<1>2. Ordered' /\ NothingYet' BY DEF LedgerInv, Ordered, NothingYet, Undone, Completes
<1>3. EndsFresh' BY DEF LedgerInv, EndsFresh, Fresh, FreshAtLast, Begins, Clear
<1> QED BY <1>1, <1>2, <1>3 DEF LedgerInv, Counted, Waits, Receipts

LEMMA LedgerAlways == Ledger!Spec => []LedgerInv
<1>1. ASSUME Ledger!Init PROVE LedgerInv
  <2>1. DOMAIN ledgerStream = {} /\ \E S : ledgerStream \in Seq(S)
    <3>1. <<>> \in Seq({}) /\ DOMAIN <<>> = {} OBVIOUS
    <3> QED BY <1>1, <3>1 DEF Ledger!Init
  <2>2. /\ ledgerServer = [turn |-> 0, last |-> 0, took |-> 0, reported |-> 0, settings |-> FirstModel]
        /\ obs = Ledger!NoObs /\ timers = {} /\ records = [t \in Numbers |-> Ledger!NoRecord]
        /\ macro = [pending |-> -1, samples |-> [t \in Numbers |-> 0]] /\ wired = TRUE
        /\ seen = [answers |-> {}, ends |-> {}] /\ ledgerBounds = [picks |-> 0, losses |-> 0]
    BY <1>1 DEF Ledger!Init, Ledger!None, Ledger!Turns, Numbers
  <2>3. /\ obs = [turn |-> obs.turn, before |-> obs.before, latest |-> obs.latest, seen |-> obs.seen,
                  completed |-> obs.completed, events |-> obs.events]
        /\ obs.turn = -1 /\ ~obs.completed /\ obs.completed \in BOOLEAN /\ obs.events = {}
    BY <2>2 DEF Ledger!NoObs, Ledger!None
  <2>4. 0 \in 0..MaxLedgerTurns /\ 0 \notin Numbers /\ -1 \notin Numbers BY LedgerBound DEF Numbers
  <2>5. LedgerTyped BY <2>1, <2>2, <2>3, <2>4 DEF LedgerTyped
  <2>6. Ordered /\ EndsFresh BY <2>1, <2>2, <2>4 DEF Ordered, EndsFresh
  <2>7. NothingYet /\ Counted /\ Waits /\ Receipts
    BY <2>2, <2>3, <2>4 DEF NothingYet, Counted, Waits, Receipts
  <2> QED BY <2>5, <2>6, <2>7 DEF LedgerInv
<1>2. ASSUME LedgerInv, [Ledger!Next]_Ledger!vars PROVE LedgerInv'
  <2>1. CASE Ledger!TakeSend \/ Ledger!StartElsewhere BY <1>2, <2>1, LedgerBound, TurnBegins
  <2>2. CASE Ledger!Call \/ Ledger!start_turn \/ Ledger!set_active_task_subagents_enabled \/ UNCHANGED Ledger!vars
    <3>1. UNCHANGED <<ledgerStream, wired, obs, timers, records, macro, seen>>
      BY <2>2 DEF Ledger!Call, Ledger!start_turn, Ledger!set_active_task_subagents_enabled, Ledger!Pick,
                  Ledger!WindowSame, Ledger!ServerSame, Ledger!vars
    <3>2. ledgerBounds' = ledgerBounds \/ ledgerBounds' = [ledgerBounds EXCEPT !.picks = @ + 1]
      BY <2>2 DEF Ledger!Call, Ledger!start_turn, Ledger!set_active_task_subagents_enabled, Ledger!Pick,
                  Ledger!WindowSame, Ledger!ServerSame, Ledger!vars
    <3>3. /\ ledgerBounds'.losses = ledgerBounds.losses
          /\ ledgerBounds' = [picks |-> ledgerBounds'.picks, losses |-> ledgerBounds'.losses]
      BY <1>2, <3>2 DEF LedgerInv, LedgerTyped
    <3>4. ledgerServer' = ledgerServer \/ ledgerServer' = [ledgerServer EXCEPT !.took = @ + 1]
      BY <2>2 DEF Ledger!Call, Ledger!start_turn, Ledger!set_active_task_subagents_enabled, Ledger!Pick,
                  Ledger!ServerSame, Ledger!vars
    <3>5. ServerShape /\ ledgerServer'.turn = ledgerServer.turn /\ ledgerServer'.last = ledgerServer.last
      BY <1>2, <3>4 DEF LedgerInv, LedgerTyped, ServerShape
    <3> QED BY <1>2, <3>1, <3>3, <3>5, LedgerStays
  <2>3. CASE \/ Ledger!Report \/ Ledger!Help \/ Ledger!ChangeSettings \/ Ledger!DeleteTask
             \/ Ledger!update_task_settings_from_controls
    BY <1>2, <2>3, LedgerBound, ServerTells
  <2>4. CASE Ledger!EndTurn BY <1>2, <2>4, LedgerBound, LedgerTurnEnds
  <2>5. CASE Ledger!Receive BY <1>2, <2>5, LedgerReceives
  <2>6. CASE Ledger!Wait BY <1>2, <2>6, WaitEnds
  <2>7. CASE Ledger!Disconnect \/ Ledger!Connect BY <1>2, <2>7, Reconnection
  <2> QED BY <1>2, <2>1, <2>2, <2>3, <2>4, <2>5, <2>6, <2>7 DEF Ledger!Next
<1> QED BY <1>1, <1>2, PTL DEF Ledger!Spec

\* Every turn whose end the window saw has its receipt, or the wait for its
\* usage is under way; it is sampled at most once, and exactly once when no
\* connection was lost (observe_token_savings, observe_macro_experiment).
THEOREM EndsReceipted == Ledger!Spec => []EndsAccounted
<1>1. LedgerInv => EndsAccounted
  <2>1. SUFFICES ASSUME LedgerInv, NEW t \in seen.ends
                 PROVE  /\ records[t].receipt # Ledger!NoReceipt \/ (t \in timers /\ obs.turn = t /\ obs.completed)
                        /\ macro.samples[t] + (IF macro.pending = t THEN 1 ELSE 0) <= 1
                        /\ ledgerBounds.losses = 0 => macro.samples[t] + (IF macro.pending = t THEN 1 ELSE 0) = 1
    BY DEF EndsAccounted, Ledger!EndsAccounted
  <2>2. /\ t \in Numbers /\ macro.samples[t] \in Nat /\ macro.samples[t] <= 1
        /\ macro.pending = t => macro.samples[t] = 0
        /\ ledgerBounds.losses = 0 => macro.samples[t] = 1 \/ macro.pending = t
    BY <2>1 DEF LedgerInv, LedgerTyped, Counted
  <2>3. records[t].receipt # Ledger!NoReceipt \/ (t \in timers /\ obs.turn = t /\ obs.completed)
    BY <2>1 DEF LedgerInv, Receipts
  <2> QED BY <2>2, <2>3
<1> QED BY <1>1, LedgerAlways, PTL

---------------------------------------------------------------------------
(* The ledger of turns: what it says of each.                              *)

\* The last notice of certain kinds before a place in the stream; 0, if none is.
LastOf(s, i, kinds, k) ==
    /\ k \in 0..(i - 1) /\ (k # 0 => s[k].kind \in kinds)
    /\ \A m \in 1..(i - 1) : m > k => s[m].kind \notin kinds

Edges == {"started", "completed", "deleted"}

\* When what stands at i arrives, the window knows that turn t is running.
Runs(s, o, i, t) ==
    \E k \in 0..(i - 1) : /\ LastOf(s, i, Edges, k)
                          /\ IF k = 0 THEN o.turn = t /\ ~o.completed ELSE s[k].kind = "started" /\ s[k].turn = t

\* Turn t is the last it has seen start, and may still want its usage.
Follows(s, o, i, t) ==
    \E k \in 0..(i - 1) : LastOf(s, i, {"started"}, k) /\ t = (IF k = 0 THEN o.turn ELSE s[k].turn)

\* The usage it knows, if it knows any, is x.
Knows(s, u, i, x) ==
    \E k \in 0..(i - 1) : LastOf(s, i, {"usage"}, k) /\ IF k = 0 THEN u \in {x, -1} ELSE s[k].total = x

\* What a notice e at i says of the turns is true: b is what had been used when
\* each began, w what each used.
NoticeTrue(s, o, u, b, w, last, i, e) ==
    /\ e.kind \in {"item", "completed"} => e.turn \in Numbers /\ Runs(s, o, i, e.turn)
    /\ e.kind = "completed" => e.items \subseteq {e.turn} /\ e.tokens <= w[e.turn] /\ e.tokens \in Int
    /\ e.kind = "usage" => e.total \in Nat /\ \A t \in Numbers : Follows(s, o, i, t) => e.total <= b[t + 1]
    /\ e.kind = "started" => e.turn \in 1..last /\ Knows(s, u, i, b[e.turn])

\* So is what the window has observed of the turn that runs.
ObservedTrue(o, b, last) ==
    /\ o.turn = -1 => o = Ledger!NoObs
    /\ o.turn # -1 => /\ o.turn \in 1..last /\ o.events \subseteq {o.turn}
                      /\ o.latest \in Nat \cup {-1} /\ o.before \in Nat \cup {-1}
                      /\ o.before # -1 => o.before >= b[o.turn] /\ o.latest <= b[o.turn + 1]

\* And what it has written down.
ReceiptsTrue(recs, w) ==
    \A t \in Numbers : \/ recs[t].receipt = Ledger!NoReceipt
                       \/ /\ recs[t].receipt.tokens \in Int /\ recs[t].receipt.tokens <= w[t]
                          /\ recs[t].receipt.events \subseteq {t}

\* The server's own count.
UsageCounted(srv, w, b) ==
    /\ w \in [Numbers -> Nat] /\ b \in [1..(MaxLedgerTurns + 1) -> Nat]
    /\ \A t \in Numbers : b[t + 1] = b[t] + w[t] /\ (t > srv.last => w[t] = 0)
    /\ srv.last \in 0..MaxLedgerTurns /\ srv.took = b[srv.last + 1] /\ srv.reported \in Nat
    /\ srv.turn > 0 => srv.turn = srv.last

\* What it says next will be true.
NextTrue(s, o, u, srv) ==
    /\ srv.turn > 0 => Runs(s, o, Len(s) + 1, srv.turn)
    /\ \A t \in Numbers : Follows(s, o, Len(s) + 1, t) => t = srv.last
    /\ Knows(s, u, Len(s) + 1, srv.reported)

CountTrue(s, o, u, recs, srv, w, b) ==
    /\ UsageCounted(srv, w, b) /\ NextTrue(s, o, u, srv)
    /\ \A i \in 1..Len(s) : NoticeTrue(s, o, u, b, w, srv.last, i, s[i])
    /\ ObservedTrue(o, b, srv.last) /\ ReceiptsTrue(recs, w) /\ u \in Nat \cup {-1}

Counts ==
    ledgerBounds.losses = 0 =>
      \E b : CountTrue(ledgerStream, obs, usage, records, ledgerServer, own, b)

\* The stream to a place that one more notice does not change.
LEMMA LastKept ==
    ASSUME NEW n \in Nat, NEW s, NEW r, \A i \in 1..n : r[i] = s[i], NEW i \in 1..(n + 1), NEW kinds, NEW k
    PROVE  LastOf(r, i, kinds, k) <=> LastOf(s, i, kinds, k)
<1>1. \A m \in 1..(i - 1) : m \in 1..n /\ r[m] = s[m] OBVIOUS
<1>2. \A m \in 0..(i - 1) : m # 0 => r[m] = s[m] BY <1>1
<1> QED BY <1>1, <1>2 DEF LastOf

LEMMA SaysKept ==
    ASSUME NEW n \in Nat, NEW s, NEW r, \A i \in 1..n : r[i] = s[i], NEW i \in 1..(n + 1),
           NEW o, NEW u, NEW x
    PROVE  /\ Runs(r, o, i, x) <=> Runs(s, o, i, x)
           /\ Follows(r, o, i, x) <=> Follows(s, o, i, x)
           /\ Knows(r, u, i, x) <=> Knows(s, u, i, x)
<1>1. \A k \in 0..(i - 1) : k # 0 => r[k] = s[k]
  <2>1. \A k \in 0..(i - 1) : k # 0 => k \in 1..n OBVIOUS
  <2> QED BY <2>1
<1>2. \A kinds, k : LastOf(r, i, kinds, k) <=> LastOf(s, i, kinds, k) BY LastKept
<1> QED BY <1>1, <1>2 DEF Runs, Follows, Knows

LEMMA LastNext ==
    ASSUME NEW n \in Nat, NEW s, NEW r, \A i \in 1..n : r[i] = s[i], NEW kinds, NEW k
    PROVE  /\ r[n + 1].kind \in kinds => (LastOf(r, n + 2, kinds, k) <=> k = n + 1)
           /\ r[n + 1].kind \notin kinds => (LastOf(r, n + 2, kinds, k) <=> LastOf(s, n + 1, kinds, k))
<1>1. (n + 2) - 1 = n + 1 /\ n + 1 \in 1..(n + 1) /\ (n + 1) - 1 = n OBVIOUS
<1>2. CASE r[n + 1].kind \in kinds
  <2>1. LastOf(r, n + 2, kinds, k) => k = n + 1
    <3>1. ASSUME LastOf(r, n + 2, kinds, k), k # n + 1 PROVE FALSE
      <4>1. k \in 0..(n + 1) BY <3>1 DEF LastOf
      <4>2. n + 1 > k BY <3>1, <4>1
      <4> QED BY <1>1, <1>2, <3>1, <4>2 DEF LastOf
    <3> QED BY <3>1
  <2>2. ASSUME k = n + 1 PROVE LastOf(r, n + 2, kinds, k)
    <3>1. \A m \in 1..(n + 1) : ~(m > n + 1) OBVIOUS
    <3> QED BY <1>2, <2>2, <3>1 DEF LastOf
  <2> QED BY <1>2, <2>1, <2>2
<1>3. CASE r[n + 1].kind \notin kinds
  <2>1. \A m : m \in 1..(n + 1) <=> (m \in 1..n \/ m = n + 1) OBVIOUS
  <2>2. \A m \in 0..n : m # 0 => r[m] = s[m] OBVIOUS
  <2>3. ASSUME LastOf(r, n + 2, kinds, k) PROVE LastOf(s, n + 1, kinds, k)
    <3>1. k \in 0..(n + 1) /\ (k # 0 => r[k].kind \in kinds) /\ \A m \in 1..(n + 1) : m > k => r[m].kind \notin kinds
      BY <2>3 DEF LastOf
    <3>2. k # n + 1 BY <1>3, <3>1
    <3>3. k \in 0..n BY <3>1, <3>2
    <3>4. \A m \in 1..n : m > k => s[m].kind \notin kinds BY <2>1, <3>1
    <3> QED BY <1>1, <2>2, <3>1, <3>3, <3>4 DEF LastOf
  <2>4. ASSUME LastOf(s, n + 1, kinds, k) PROVE LastOf(r, n + 2, kinds, k)
    <3>1. k \in 0..n /\ (k # 0 => s[k].kind \in kinds) /\ \A m \in 1..n : m > k => s[m].kind \notin kinds
      BY <2>4 DEF LastOf
    <3>2. \A m \in 1..(n + 1) : m > k => r[m].kind \notin kinds BY <1>3, <2>1, <3>1
    <3>3. k \in 0..(n + 1) /\ (k # 0 => r[k].kind \in kinds) BY <2>2, <3>1
    <3> QED BY <1>1, <3>2, <3>3 DEF LastOf
  <2> QED BY <1>3, <2>3, <2>4
<1> QED BY <1>2, <1>3

\* What is known once one more notice has arrived.
LEMMA SaysNext ==
    ASSUME NEW n \in Nat, NEW s, NEW r, \A i \in 1..n : r[i] = s[i], NEW o, NEW u, NEW x
    PROVE  /\ r[n + 1].kind \in Edges => (Runs(r, o, n + 2, x) <=> (r[n + 1].kind = "started" /\ r[n + 1].turn = x))
           /\ r[n + 1].kind \notin Edges => (Runs(r, o, n + 2, x) <=> Runs(s, o, n + 1, x))
           /\ r[n + 1].kind = "started" => (Follows(r, o, n + 2, x) <=> r[n + 1].turn = x)
           /\ r[n + 1].kind # "started" => (Follows(r, o, n + 2, x) <=> Follows(s, o, n + 1, x))
           /\ r[n + 1].kind = "usage" => (Knows(r, u, n + 2, x) <=> r[n + 1].total = x)
           /\ r[n + 1].kind # "usage" => (Knows(r, u, n + 2, x) <=> Knows(s, u, n + 1, x))
<1> DEFINE e == r[n + 1]
<1>1. \A kinds, k : /\ e.kind \in kinds => (LastOf(r, n + 2, kinds, k) <=> k = n + 1)
                    /\ e.kind \notin kinds => (LastOf(r, n + 2, kinds, k) <=> LastOf(s, n + 1, kinds, k))
  BY LastNext
<1>2. /\ n + 1 \in 0..((n + 2) - 1) /\ n + 1 # 0
      /\ \A kinds, k : LastOf(s, n + 1, kinds, k) =>
           k \in 0..((n + 1) - 1) /\ k \in 0..((n + 2) - 1) /\ (k # 0 => r[k] = s[k])
  <2>1. \A k \in 0..n : k # 0 => r[k] = s[k] OBVIOUS
  <2> QED BY <2>1 DEF LastOf
<1>3. Runs(r, o, n + 2, x) <=> (IF e.kind \in Edges THEN e.kind = "started" /\ e.turn = x ELSE Runs(s, o, n + 1, x))
  BY <1>1, <1>2 DEF Runs
<1>4. Follows(r, o, n + 2, x) <=> (IF e.kind = "started" THEN e.turn = x ELSE Follows(s, o, n + 1, x))
  <2>1. e.kind = "started" <=> e.kind \in {"started"} OBVIOUS
  <2> QED BY <1>1, <1>2, <2>1 DEF Follows
<1>5. Knows(r, u, n + 2, x) <=> (IF e.kind = "usage" THEN e.total = x ELSE Knows(s, u, n + 1, x))
  <2>1. e.kind = "usage" <=> e.kind \in {"usage"} OBVIOUS
  <2> QED BY <1>1, <1>2, <2>1 DEF Knows
<1> QED BY <1>3, <1>4, <1>5

\* The stream once its first notice is taken.
LEMMA LastTaken ==
    ASSUME NEW n \in Nat, NEW s, NEW r, \A i \in 1..n : r[i] = s[i + 1], NEW i \in 1..(n + 1), NEW kinds, NEW k
    PROVE  /\ k # 0 => (LastOf(r, i, kinds, k) <=> (k \in Nat /\ LastOf(s, i + 1, kinds, k + 1)))
           /\ LastOf(r, i, kinds, 0) <=> LastOf(s, i + 1, kinds, IF s[1].kind \in kinds THEN 1 ELSE 0)
           /\ s[1].kind \notin kinds => ~LastOf(s, i + 1, kinds, 1)
           /\ s[1].kind \in kinds => ~LastOf(s, i + 1, kinds, 0)
<1>1. /\ (i + 1) - 1 = i /\ i \in Nat /\ 1 \in 1..i /\ 1 # 0 /\ 1 > 0
      /\ \A m \in 1..(i - 1) : r[m] = s[m + 1] /\ m + 1 \in 1..i /\ (m + 1) - 1 = m
      /\ \A m \in 1..i : m = 1 \/ (m - 1 \in 1..(i - 1) /\ s[m] = r[m - 1])
  <2>1. \A m \in 1..(i - 1) : m \in 1..n OBVIOUS
  <2>2. \A m \in 1..i : m = 1 \/ (m - 1 \in 1..(i - 1) /\ m - 1 \in 1..n /\ (m - 1) + 1 = m) OBVIOUS
  <2> QED BY <2>1, <2>2
<1>2. ASSUME k # 0, LastOf(r, i, kinds, k) PROVE k \in Nat /\ LastOf(s, i + 1, kinds, k + 1)
  <2>1. k \in 1..(i - 1) /\ r[k].kind \in kinds /\ \A m \in 1..(i - 1) : m > k => r[m].kind \notin kinds
    BY <1>2 DEF LastOf
  <2>2. k + 1 \in 0..i /\ s[k + 1].kind \in kinds BY <1>1, <2>1
  <2>3. \A m \in 1..i : m > k + 1 => s[m].kind \notin kinds
    <3>1. \A m \in 1..i : m > k + 1 => m # 1 /\ m - 1 > k BY <2>1
    <3> QED BY <1>1, <2>1, <3>1
  <2> QED BY <1>1, <2>1, <2>2, <2>3 DEF LastOf
<1>3. ASSUME k # 0, k \in Nat, LastOf(s, i + 1, kinds, k + 1) PROVE LastOf(r, i, kinds, k)
  <2>1. k + 1 \in 0..i /\ s[k + 1].kind \in kinds /\ \A m \in 1..i : m > k + 1 => s[m].kind \notin kinds
    BY <1>1, <1>3 DEF LastOf
  <2>2. k \in 1..(i - 1) BY <1>3, <2>1
  <2>3. \A m \in 1..(i - 1) : m > k => r[m].kind \notin kinds
    <3>1. \A m \in 1..(i - 1) : m > k => m + 1 > k + 1 BY <1>3
    <3> QED BY <1>1, <2>1, <3>1
  <2> QED BY <1>1, <2>1, <2>2, <2>3 DEF LastOf
<1>4. s[1].kind \notin kinds => ~LastOf(s, i + 1, kinds, 1) BY DEF LastOf
<1>5. s[1].kind \in kinds => ~LastOf(s, i + 1, kinds, 0) BY <1>1 DEF LastOf
<1>6. LastOf(r, i, kinds, 0) <=> LastOf(s, i + 1, kinds, IF s[1].kind \in kinds THEN 1 ELSE 0)
  <2>1. PICK z : z = (IF s[1].kind \in kinds THEN 1 ELSE 0) OBVIOUS
  <2>2. z \in 0..i /\ (z # 0 => s[z].kind \in kinds) BY <1>1, <2>1
  <2>3. ASSUME LastOf(r, i, kinds, 0) PROVE LastOf(s, i + 1, kinds, z)
    <3>1. \A m \in 1..(i - 1) : r[m].kind \notin kinds BY <2>3 DEF LastOf
    <3>2. \A m \in 1..i : m > z => s[m].kind \notin kinds
      <4>1. ASSUME NEW m \in 1..i, m > z, m = 1 PROVE s[m].kind \notin kinds BY <2>1, <4>1
      <4> QED BY <1>1, <3>1, <4>1
    <3> QED BY <1>1, <2>2, <3>2 DEF LastOf
  <2>4. ASSUME LastOf(s, i + 1, kinds, z) PROVE LastOf(r, i, kinds, 0)
    <3>1. \A m \in 1..i : m > z => s[m].kind \notin kinds BY <1>1, <2>4 DEF LastOf
    <3>2. \A m \in 1..(i - 1) : m + 1 > z BY <2>1
    <3>3. 0 \in 0..(i - 1) /\ \A m \in 1..(i - 1) : r[m].kind \notin kinds BY <1>1, <3>1, <3>2
    <3> QED BY <3>3 DEF LastOf
  <2> QED BY <2>1, <2>3, <2>4
<1> QED BY <1>2, <1>3, <1>4, <1>5, <1>6

\* What was known to be known when a notice arrives, once another has: o and u
\* are what the window had before, p and v what it has since.
LEMMA SaysTaken ==
    ASSUME NEW n \in Nat, NEW s, NEW r, \A i \in 1..n : r[i] = s[i + 1], NEW i \in 1..(n + 1), NEW e, e = s[1],
           NEW o, NEW u, NEW p, NEW v, NEW x
    PROVE  /\ (/\ e.kind = "started" => p.turn = e.turn /\ ~p.completed
               /\ e.kind \notin Edges => o.completed \/ (p.turn = o.turn /\ p.completed = o.completed)
               /\ Runs(s, o, i + 1, x)) => Runs(r, p, i, x)
           /\ (/\ IF e.kind = "started" THEN p.turn = e.turn ELSE p.turn = o.turn \/ p.turn # x
               /\ Follows(r, p, i, x)) => Follows(s, o, i + 1, x)
           /\ (/\ IF e.kind = "usage" THEN v = e.total ELSE v = u
               /\ Knows(s, u, i + 1, x)) => Knows(r, v, i, x)
<1>1. \A kinds, k : /\ k # 0 => (LastOf(r, i, kinds, k) <=> (k \in Nat /\ LastOf(s, i + 1, kinds, k + 1)))
                    /\ LastOf(r, i, kinds, 0) <=> LastOf(s, i + 1, kinds, IF e.kind \in kinds THEN 1 ELSE 0)
                    /\ e.kind \notin kinds => ~LastOf(s, i + 1, kinds, 1)
                    /\ e.kind \in kinds => ~LastOf(s, i + 1, kinds, 0)
  BY LastTaken
<1>2. /\ (i + 1) - 1 = i /\ 0 \in 0..(i - 1) /\ 0 \in 0..i /\ 1 \in 0..i
      /\ \A k \in 1..(i - 1) : k # 0 /\ k \in Nat /\ k \in 0..(i - 1) /\ k + 1 \in 0..i /\ k + 1 # 0 /\ r[k] = s[k + 1]
      /\ \A k \in 0..(i - 1) : k = 0 \/ k \in 1..(i - 1)
      /\ \A k \in 0..i : k = 0 \/ k = 1 \/ (k - 1 \in 1..(i - 1) /\ (k - 1) + 1 = k)
  OBVIOUS
<1>3. ASSUME e.kind = "started" => p.turn = e.turn /\ ~p.completed,
             e.kind \notin Edges => o.completed \/ (p.turn = o.turn /\ p.completed = o.completed), Runs(s, o, i + 1, x)
      PROVE  Runs(r, p, i, x)
  <2>1. PICK k \in 0..i : /\ LastOf(s, i + 1, Edges, k)
                          /\ IF k = 0 THEN o.turn = x /\ ~o.completed ELSE s[k].kind = "started" /\ s[k].turn = x
    BY <1>2, <1>3 DEF Runs
  <2>2. CASE k = 0
    <3>1. e.kind \notin Edges BY <1>1, <2>1, <2>2
    <3>2. LastOf(r, i, Edges, 0) BY <1>1, <2>1, <2>2, <3>1
    <3> QED BY <1>2, <1>3, <2>1, <2>2, <3>1, <3>2 DEF Runs
  <2>3. CASE k = 1
    <3>1. e.kind \in Edges BY <1>1, <2>1, <2>3
    <3>2. LastOf(r, i, Edges, 0) BY <1>1, <2>1, <2>3, <3>1
    <3>3. p.turn = x /\ ~p.completed BY <1>3, <2>1, <2>3
    <3> QED BY <1>2, <3>2, <3>3 DEF Runs
  <2>4. CASE k - 1 \in 1..(i - 1) /\ (k - 1) + 1 = k
    <3>1. PICK j : j = k - 1 OBVIOUS
    <3>2. j \in 1..(i - 1) /\ j + 1 = k BY <2>4, <3>1
    <3>3. LastOf(r, i, Edges, j) /\ r[j] = s[k] BY <1>1, <1>2, <2>1, <3>2
    <3>4. j \in 0..(i - 1) /\ j # 0 /\ k # 0 BY <1>2, <3>2
    <3> QED BY <2>1, <3>3, <3>4 DEF Runs
  <2> QED BY <1>2, <2>2, <2>3, <2>4
<1>4. ASSUME IF e.kind = "started" THEN p.turn = e.turn ELSE p.turn = o.turn \/ p.turn # x, Follows(r, p, i, x)
      PROVE  Follows(s, o, i + 1, x)
  <2>1. PICK k \in 0..(i - 1) : LastOf(r, i, {"started"}, k) /\ x = (IF k = 0 THEN p.turn ELSE r[k].turn)
    BY <1>4 DEF Follows
  <2>2. CASE k = 0
    <3>1. CASE e.kind = "started"
      <4>1. LastOf(s, i + 1, {"started"}, 1) BY <1>1, <2>1, <2>2, <3>1
      <4> QED BY <1>2, <1>4, <2>1, <2>2, <3>1, <4>1 DEF Follows
    <3>2. CASE e.kind # "started"
      <4>1. LastOf(s, i + 1, {"started"}, 0) BY <1>1, <2>1, <2>2, <3>2
      <4> QED BY <1>2, <1>4, <2>1, <2>2, <3>2, <4>1 DEF Follows
    <3> QED BY <3>1, <3>2
  <2>3. CASE k # 0
    <3>1. k \in 1..(i - 1) BY <1>2, <2>3
    <3>2. LastOf(s, i + 1, {"started"}, k + 1) BY <1>1, <2>1, <2>3
    <3> QED BY <1>2, <2>1, <2>3, <3>1, <3>2 DEF Follows
  <2> QED BY <2>2, <2>3
<1>5. ASSUME IF e.kind = "usage" THEN v = e.total ELSE v = u, Knows(s, u, i + 1, x)
      PROVE  Knows(r, v, i, x)
  <2>1. PICK k \in 0..i : LastOf(s, i + 1, {"usage"}, k) /\ IF k = 0 THEN u \in {x, -1} ELSE s[k].total = x
    BY <1>2, <1>5 DEF Knows
  <2>2. CASE k = 0
    <3>1. e.kind # "usage" BY <1>1, <2>1, <2>2
    <3>2. LastOf(r, i, {"usage"}, 0) BY <1>1, <2>1, <2>2, <3>1
    <3> QED BY <1>2, <1>5, <2>1, <2>2, <3>1, <3>2 DEF Knows
  <2>3. CASE k = 1
    <3>1. e.kind = "usage" BY <1>1, <2>1, <2>3
    <3>2. LastOf(r, i, {"usage"}, 0) BY <1>1, <2>1, <2>3, <3>1
    <3>3. v = x BY <1>5, <2>1, <2>3, <3>1
    <3> QED BY <1>2, <3>2, <3>3 DEF Knows
  <2>4. CASE k - 1 \in 1..(i - 1) /\ (k - 1) + 1 = k
    <3>1. PICK j : j = k - 1 OBVIOUS
    <3>2. j \in 1..(i - 1) /\ j + 1 = k BY <2>4, <3>1
    <3>3. LastOf(r, i, {"usage"}, j) /\ r[j] = s[k] BY <1>1, <1>2, <2>1, <3>2
    <3>4. j \in 0..(i - 1) /\ j # 0 /\ k # 0 BY <1>2, <3>2
    <3> QED BY <2>1, <3>3, <3>4 DEF Knows
  <2> QED BY <1>2, <2>2, <2>3, <2>4
<1> QED BY <1>3, <1>4, <1>5

\* The server says a, as true as the rest.
LEMMA CountTold ==
    ASSUME NEW R, NEW s \in Seq(R), NEW a, NEW o, NEW u, NEW recs, NEW srv, NEW new, NEW w, NEW b,
           CountTrue(s, o, u, recs, srv, w, b), UsageCounted(new, w, b), srv.last <= new.last,
           NoticeTrue(s, o, u, b, w, new.last, Len(s) + 1, a),
           new.turn > 0 => IF a.kind \in Edges THEN a.kind = "started" /\ a.turn = new.turn ELSE new.turn = srv.turn,
           IF a.kind = "started" THEN a.turn = new.last ELSE new.last = srv.last,
           IF a.kind = "usage" THEN a.total = new.reported ELSE new.reported = srv.reported
    PROVE  CountTrue(s \o <<a>>, o, u, recs, new, w, b)
<1>1. PICK r, n : r = s \o <<a>> /\ n = Len(s) OBVIOUS
<1>2. n \in Nat /\ Len(r) = n + 1 /\ (\A i \in 1..n : r[i] = s[i]) /\ r[n + 1] = a
  <2>1. PICK Q : Q = R \cup {a} OBVIOUS
  <2>2. s \in Seq(Q) BY <2>1, SeqMonotonic
  <2>3. <<a>> \in Seq(Q) /\ Len(<<a>>) = 1 /\ <<a>>[1] = a BY <2>1
  <2>4. PICK e : e = <<a>> OBVIOUS
  <2>5. /\ Len(s \o e) = Len(s) + Len(e) /\ Len(s) \in Nat
        /\ \A i \in 1..Len(s) + Len(e) : (s \o e)[i] = IF i <= Len(s) THEN s[i] ELSE e[i - Len(s)]
    BY <2>2, <2>3, <2>4, ConcatProperties, LenProperties
  <2>6. Len(e) = 1 /\ e[1] = a /\ (n + 1) - n = 1 /\ r = s \o e BY <1>1, <2>3, <2>4, <2>5
  <2> QED BY <1>1, <2>5, <2>6
<1>3. /\ srv.last \in Nat /\ new.last \in Nat
      /\ \A i \in 1..n : NoticeTrue(s, o, u, b, w, srv.last, i, s[i])
      /\ NoticeTrue(s, o, u, b, w, new.last, n + 1, a)
  BY <1>1 DEF CountTrue, UsageCounted
<1>4. \A x : \A i \in 1..(n + 1) : /\ Runs(r, o, i, x) <=> Runs(s, o, i, x)
                                   /\ Follows(r, o, i, x) <=> Follows(s, o, i, x)
                                   /\ Knows(r, u, i, x) <=> Knows(s, u, i, x)
  BY <1>2, SaysKept
<1>5. ASSUME NEW i \in 1..(n + 1) PROVE NoticeTrue(r, o, u, b, w, new.last, i, r[i])
  <2>1. NoticeTrue(s, o, u, b, w, new.last, i, r[i])
    <3>1. CASE i = n + 1 BY <1>2, <1>3, <3>1
    <3>2. CASE i \in 1..n
      <4>1. \A t \in 1..srv.last : t \in 1..new.last BY <1>3
      <4>2. r[i] = s[i] /\ NoticeTrue(s, o, u, b, w, srv.last, i, s[i]) BY <1>2, <1>3, <3>2
      <4> QED BY <4>1, <4>2 DEF NoticeTrue
    <3> QED BY <1>2, <3>1, <3>2
  <2> QED BY <1>4, <2>1 DEF NoticeTrue
<1>6. ASSUME NEW x
      PROVE  /\ a.kind \in Edges => (Runs(r, o, n + 2, x) <=> (a.kind = "started" /\ a.turn = x))
             /\ a.kind \notin Edges => (Runs(r, o, n + 2, x) <=> Runs(s, o, n + 1, x))
             /\ a.kind = "started" => (Follows(r, o, n + 2, x) <=> a.turn = x)
             /\ a.kind # "started" => (Follows(r, o, n + 2, x) <=> Follows(s, o, n + 1, x))
             /\ a.kind = "usage" => (Knows(r, u, n + 2, x) <=> a.total = x)
             /\ a.kind # "usage" => (Knows(r, u, n + 2, x) <=> Knows(s, u, n + 1, x))
  <2>1. a = r[n + 1] /\ n \in Nat /\ \A i \in 1..n : r[i] = s[i] BY <1>2
  <2>2. \A i \in 1..n : r[i] = s[i] BY <2>1
  <2>3. n \in Nat BY <2>1
  <2>4. /\ r[n + 1].kind \in Edges => (Runs(r, o, n + 2, x) <=> (r[n + 1].kind = "started" /\ r[n + 1].turn = x))
        /\ r[n + 1].kind \notin Edges => (Runs(r, o, n + 2, x) <=> Runs(s, o, n + 1, x))
        /\ r[n + 1].kind = "started" => (Follows(r, o, n + 2, x) <=> r[n + 1].turn = x)
        /\ r[n + 1].kind # "started" => (Follows(r, o, n + 2, x) <=> Follows(s, o, n + 1, x))
        /\ r[n + 1].kind = "usage" => (Knows(r, u, n + 2, x) <=> r[n + 1].total = x)
        /\ r[n + 1].kind # "usage" => (Knows(r, u, n + 2, x) <=> Knows(s, u, n + 1, x))
    BY <2>2, <2>3, SaysNext
  <2> QED BY <2>1, <2>4
<1>7. NextTrue(r, o, u, new)
  <2>1. (n + 1) + 1 = n + 2 BY <1>2
  <2>2. /\ srv.turn > 0 => Runs(s, o, n + 1, srv.turn)
        /\ \A t \in Numbers : Follows(s, o, n + 1, t) => t = srv.last
        /\ Knows(s, u, n + 1, srv.reported)
    BY <1>1 DEF CountTrue, NextTrue
  <2>3. new.turn > 0 => Runs(r, o, n + 2, new.turn) BY <1>6, <2>2
  <2>4. \A t \in Numbers : Follows(r, o, n + 2, t) => t = new.last BY <1>6, <2>2
  <2>5. Knows(r, u, n + 2, new.reported) BY <1>6, <2>2
  <2> QED BY <1>2, <2>1, <2>3, <2>4, <2>5 DEF NextTrue
<1>8. ObservedTrue(o, b, new.last)
  <2>1. o.turn \in 1..srv.last => o.turn \in 1..new.last BY <1>3
  <2> QED BY <2>1 DEF CountTrue, ObservedTrue
<1> QED BY <1>1, <1>2, <1>5, <1>7, <1>8 DEF CountTrue

\* The window hears e.
LEMMA CountHeard ==
    ASSUME NEW R, NEW s \in Seq(R), s # <<>>, NEW e, e = Head(s), NEW o, NEW u, NEW recs, NEW srv, NEW w, NEW b,
           CountTrue(s, o, u, recs, srv, w, b), NEW p, NEW v, NEW kept,
           e.kind = "started" => p.turn = e.turn /\ ~p.completed,
           e.kind \notin Edges => o.completed \/ (p.turn = o.turn /\ p.completed = o.completed),
           e.kind # "started" => p.turn = o.turn \/ p.turn = -1,
           v = IF e.kind = "usage" THEN e.total ELSE u,
           ObservedTrue(p, b, srv.last), ReceiptsTrue(kept, w)
    PROVE  CountTrue(Tail(s), p, v, kept, srv, w, b)
<1>1. PICK r, n : r = Tail(s) /\ n = Len(r) OBVIOUS
<1>2. /\ n \in Nat /\ Len(s) = n + 1 /\ e = s[1] /\ 1 \in 1..Len(s)
      /\ \A i \in 1..n : r[i] = s[i + 1] /\ i + 1 \in 1..Len(s)
  <2>1. Tail(s) \in Seq(R) /\ Len(Tail(s)) = Len(s) - 1 /\ \A i \in 1..Len(Tail(s)) : Tail(s)[i] = s[i + 1]
    BY HeadTailProperties
  <2>2. Len(s) \in Nat /\ Len(Tail(s)) \in Nat BY <2>1, LenProperties
  <2>3. Head(s) = s[1] OBVIOUS
  <2> QED BY <1>1, <2>1, <2>2, <2>3
<1>3. -1 \notin Numbers BY DEF Numbers
<1>4. ASSUME NEW i \in 1..(n + 1), NEW x
      PROVE  /\ Runs(s, o, i + 1, x) => Runs(r, p, i, x)
             /\ x \in Numbers /\ Follows(r, p, i, x) => Follows(s, o, i + 1, x)
             /\ Knows(s, u, i + 1, x) => Knows(r, v, i, x)
  <2>1. \A j \in 1..n : r[j] = s[j + 1] BY <1>2
  <2>2. e.kind = "started" => e.kind \in Edges BY DEF Edges
  <2>3. x \in Numbers => IF e.kind = "started" THEN p.turn = e.turn ELSE p.turn = o.turn \/ p.turn # x BY <1>3
  <2> QED BY <1>2, <2>1, <2>2, <2>3, SaysTaken
<1>5. ASSUME NEW i \in 1..n PROVE NoticeTrue(r, p, v, b, w, srv.last, i, r[i])
  <2>1. NoticeTrue(s, o, u, b, w, srv.last, i + 1, r[i]) BY <1>2, <1>5 DEF CountTrue
  <2>2. i \in 1..(n + 1) BY <1>2
  <2> QED BY <1>4, <2>1, <2>2 DEF NoticeTrue
<1>6. NextTrue(r, p, v, srv)
  <2>1. n + 1 \in 1..(n + 1) /\ (n + 1) + 1 = Len(s) + 1 BY <1>2
  <2>2. /\ srv.turn > 0 => Runs(s, o, Len(s) + 1, srv.turn)
        /\ \A t \in Numbers : Follows(s, o, Len(s) + 1, t) => t = srv.last
        /\ Knows(s, u, Len(s) + 1, srv.reported)
    BY DEF CountTrue, NextTrue
  <2> QED BY <1>1, <1>4, <2>1, <2>2 DEF NextTrue
<1>7. v \in Nat \cup {-1}
  <2>1. NoticeTrue(s, o, u, b, w, srv.last, 1, e) BY <1>2 DEF CountTrue
  <2> QED BY <2>1 DEF NoticeTrue, CountTrue
<1> QED BY <1>1, <1>5, <1>6, <1>7 DEF CountTrue

\* A call of the model.
LEMMA CountCalled ==
    ASSUME NEW s, NEW o, NEW u, NEW recs, NEW srv, NEW new, NEW w, NEW b, CountTrue(s, o, u, recs, srv, w, b),
           srv.turn > 0, srv.turn \in Nat, MaxLedgerTurns \in Nat, new.turn = srv.turn, new.last = srv.last, new.took = srv.took + 1,
           new.reported = srv.reported, NEW x, x = [w EXCEPT ![srv.turn] = @ + 1]
    PROVE  \E c : CountTrue(s, o, u, recs, new, x, c)
<1>1. PICK l : l = srv.last OBVIOUS
<1>2. /\ w \in [Numbers -> Nat] /\ b \in [1..(MaxLedgerTurns + 1) -> Nat]
      /\ \A t \in Numbers : b[t + 1] = b[t] + w[t] /\ (t > l => w[t] = 0)
      /\ l \in Numbers /\ l \in Nat /\ srv.turn = l /\ srv.took = b[l + 1]
  <2>1. l \in 0..MaxLedgerTurns /\ l > 0 /\ srv.turn = l BY <1>1 DEF CountTrue, UsageCounted
  <2>2. l \in Numbers /\ l \in Nat BY <2>1 DEF Numbers
  <2> QED BY <1>1, <2>1, <2>2 DEF CountTrue, UsageCounted
<1>3. \A t \in Numbers : t \in 1..(MaxLedgerTurns + 1) /\ t + 1 \in 1..(MaxLedgerTurns + 1) /\ b[t] \in Nat /\ b[t + 1] \in Nat
                         /\ w[t] \in Nat /\ t \in Nat
  <2>1. \A t \in Numbers : t \in 1..(MaxLedgerTurns + 1) /\ t + 1 \in 1..(MaxLedgerTurns + 1) /\ t \in Nat BY DEF Numbers
  <2> QED BY <1>2, <2>1
<1>4. PICK c : c = [t \in 1..(MaxLedgerTurns + 1) |-> IF t > l THEN b[t] + 1 ELSE b[t]] OBVIOUS
<1>5. c \in [1..(MaxLedgerTurns + 1) -> Nat]
  <2>1. \A t \in 1..(MaxLedgerTurns + 1) : b[t] \in Nat /\ b[t] + 1 \in Nat BY <1>2
  <2>2. \A t \in 1..(MaxLedgerTurns + 1) : (IF t > l THEN b[t] + 1 ELSE b[t]) \in Nat BY <2>1
  <2> QED BY <1>4, <2>2
<1>6. /\ x \in [Numbers -> Nat] /\ x[l] = w[l] + 1
      /\ \A t \in Numbers : t # l => x[t] = w[t]
  <2>1. w[l] + 1 \in Nat /\ l \in Numbers /\ w \in [Numbers -> Nat] BY <1>2, <1>3
  <2>2. x = [w EXCEPT ![l] = w[l] + 1] BY <1>2
  <2> QED BY <2>1, <2>2
<1>7. \A t \in Numbers : /\ c[t + 1] = IF t + 1 > l THEN b[t + 1] + 1 ELSE b[t + 1]
                         /\ c[t] = IF t > l THEN b[t] + 1 ELSE b[t]
  BY <1>3, <1>4
<1>8. \A t \in Numbers : c[t + 1] = c[t] + x[t] /\ (t > l => x[t] = 0)
  <2>1. ASSUME NEW t \in Numbers PROVE c[t + 1] = c[t] + x[t] /\ (t > l => x[t] = 0)
    <3>1. CASE t = l BY <1>2, <1>3, <1>6, <1>7, <3>1
    <3>2. CASE t > l BY <1>2, <1>3, <1>6, <1>7, <3>2
    <3>3. CASE t < l
      <4>1. ~(t + 1 > l) /\ ~(t > l) /\ t # l BY <1>2, <1>3, <3>3
      <4> QED BY <1>2, <1>3, <1>6, <1>7, <3>3, <4>1
    <3> QED BY <1>2, <1>3, <3>1, <3>2, <3>3
  <2> QED BY <2>1
<1>9. new.took = c[l + 1]
  <2>1. c[l + 1] = b[l + 1] + 1 BY <1>2, <1>3, <1>7
  <2> QED BY <1>2, <2>1
<1>10. UsageCounted(new, x, c) BY <1>1, <1>5, <1>6, <1>8, <1>9 DEF CountTrue, UsageCounted
<1>11. \A t \in Numbers : w[t] <= x[t] /\ b[t + 1] <= c[t + 1] /\ (t \in 1..l => c[t] = b[t])
  <2> SUFFICES ASSUME NEW t \in Numbers
               PROVE  w[t] <= x[t] /\ b[t + 1] <= c[t + 1] /\ (t \in 1..l => c[t] = b[t])
    OBVIOUS
  <2>1. w[t] <= x[t]
    <3>1. CASE t = l BY <3>1, <1>3, <1>6
    <3>2. CASE t # l BY <3>2, <1>3, <1>6
    <3> QED BY <3>1, <3>2
  <2>2. b[t + 1] <= c[t + 1] BY <1>3, <1>7
  <2>3. t \in 1..l => c[t] = b[t] BY <1>2, <1>3, <1>7
  <2> QED BY <2>1, <2>2, <2>3
<1>12. ASSUME NEW i \in 1..Len(s) PROVE NoticeTrue(s, o, u, c, x, l, i, s[i])
  <2>1. NoticeTrue(s, o, u, b, w, l, i, s[i]) BY <1>1 DEF CountTrue
  <2>2. s[i].kind = "completed" => s[i].items \subseteq {s[i].turn} /\ s[i].tokens <= x[s[i].turn] /\ s[i].tokens \in Int
    <3>1. SUFFICES ASSUME s[i].kind = "completed" PROVE s[i].tokens <= x[s[i].turn] BY <2>1 DEF NoticeTrue
    <3>2. PICK t, k : t = s[i].turn /\ k = s[i].tokens OBVIOUS
    <3>3. t \in Numbers /\ k <= w[t] /\ k \in Int BY <2>1, <3>1, <3>2 DEF NoticeTrue
    <3>4. w[t] \in Nat /\ x[t] \in Nat /\ w[t] <= x[t] BY <1>3, <1>6, <1>11, <3>3
    <3>5. k <= x[t] BY <3>3, <3>4
    <3> QED BY <3>2, <3>5
  <2>3. s[i].kind = "usage" => s[i].total \in Nat /\ \A t \in Numbers : Follows(s, o, i, t) => s[i].total <= c[t + 1]
    <3>1. SUFFICES ASSUME s[i].kind = "usage", NEW t \in Numbers, Follows(s, o, i, t) PROVE s[i].total <= c[t + 1]
      BY <2>1 DEF NoticeTrue
    <3>2. PICK k : k = s[i].total OBVIOUS
    <3>3. k \in Nat /\ k <= b[t + 1] BY <2>1, <3>1, <3>2 DEF NoticeTrue
    <3>4. b[t + 1] \in Nat /\ c[t + 1] \in Nat /\ b[t + 1] <= c[t + 1] BY <1>3, <1>5, <1>11
    <3>5. k <= c[t + 1] BY <3>3, <3>4
    <3> QED BY <3>2, <3>5
  <2>4. s[i].kind = "started" => s[i].turn \in 1..l /\ Knows(s, u, i, c[s[i].turn])
    <3>1. SUFFICES ASSUME s[i].kind = "started" PROVE Knows(s, u, i, c[s[i].turn]) BY <2>1 DEF NoticeTrue
    <3>2. s[i].turn \in 1..l /\ Knows(s, u, i, b[s[i].turn]) BY <2>1, <3>1 DEF NoticeTrue
    <3>3. s[i].turn \in Numbers BY <1>2, <3>2 DEF Numbers
    <3> QED BY <1>11, <3>2, <3>3
  <2> QED BY <2>1, <2>2, <2>3, <2>4 DEF NoticeTrue
<1>13. ObservedTrue(o, c, l)
  <2>1. ObservedTrue(o, b, l) BY <1>1 DEF CountTrue
  <2>2. ASSUME o.turn # -1, o.before # -1 PROVE o.before >= c[o.turn] /\ o.latest <= c[o.turn + 1]
    <3>1. PICK t, f, k : t = o.turn /\ f = o.before /\ k = o.latest OBVIOUS
    <3>2. t \in 1..l /\ f >= b[t] /\ k <= b[t + 1] /\ k \in Int BY <2>1, <2>2, <3>1 DEF ObservedTrue
    <3>3. t \in Numbers BY <1>2, <3>2 DEF Numbers
    <3>4. c[t] = b[t] /\ b[t + 1] <= c[t + 1] /\ b[t + 1] \in Nat /\ c[t + 1] \in Nat BY <1>3, <1>5, <1>11, <3>2, <3>3
    <3>5. f >= c[t] /\ k <= c[t + 1] BY <3>2, <3>4
    <3> QED BY <3>1, <3>5
  <2> QED BY <2>1, <2>2 DEF ObservedTrue
<1>14. ReceiptsTrue(recs, x)
  <2>1. ReceiptsTrue(recs, w) BY DEF CountTrue
  <2>2. ASSUME NEW t \in Numbers, recs[t].receipt # Ledger!NoReceipt, recs[t].receipt.tokens <= w[t]
        PROVE  recs[t].receipt.tokens <= x[t]
    <3>1. PICK k : k = recs[t].receipt.tokens OBVIOUS
    <3>2. k \in Int /\ k <= w[t] /\ w[t] \in Nat /\ x[t] \in Nat /\ w[t] <= x[t]
      BY <1>3, <1>6, <1>11, <2>1, <2>2, <3>1 DEF ReceiptsTrue
    <3>3. k <= x[t] BY <3>2
    <3> QED BY <3>1, <3>3
  <2> QED BY <2>1, <2>2 DEF ReceiptsTrue
<1>15. NextTrue(s, o, u, new) BY DEF CountTrue, NextTrue
<1>16. CountTrue(s, o, u, recs, new, x, c) BY <1>1, <1>10, <1>12, <1>13, <1>14, <1>15 DEF CountTrue
<1> QED BY <1>16

\* The server's words, one by one: what concerns no turn's usage,
LEMMA AsideTold ==
    ASSUME NEW R, NEW s \in Seq(R), NEW a, NEW o, NEW u, NEW recs, NEW srv, NEW new, NEW w, NEW b,
           CountTrue(s, o, u, recs, srv, w, b), a.kind \in {"answer", "settings"},
           new.turn = srv.turn, new.last = srv.last, new.took = srv.took, new.reported = srv.reported
    PROVE  CountTrue(s \o <<a>>, o, u, recs, new, w, b)
<1>1. UsageCounted(new, w, b) /\ srv.last <= new.last BY DEF CountTrue, UsageCounted
<1>2. NoticeTrue(s, o, u, b, w, new.last, Len(s) + 1, a) BY DEF NoticeTrue
<1>3. a.kind \notin Edges /\ a.kind # "started" /\ a.kind # "usage" BY DEF Edges
<1> QED BY <1>1, <1>2, <1>3, CountTold

\* a start,
LEMMA StartTold ==
    ASSUME NEW R, NEW s \in Seq(R), NEW a, NEW o, NEW u, NEW recs, NEW srv, NEW new, NEW w, NEW b,
           CountTrue(s, o, u, recs, srv, w, b), a.kind = "started", a.turn = srv.last + 1,
           srv.last < MaxLedgerTurns, srv.reported = srv.took, MaxLedgerTurns \in Nat,
           new.turn = a.turn, new.last = a.turn, new.took = srv.took, new.reported = srv.reported
    PROVE  CountTrue(s \o <<a>>, o, u, recs, new, w, b)
<1>1. PICK l : l = srv.last OBVIOUS
<1>2. /\ w \in [Numbers -> Nat] /\ b \in [1..(MaxLedgerTurns + 1) -> Nat]
      /\ \A t \in Numbers : b[t + 1] = b[t] + w[t] /\ (t > l => w[t] = 0)
      /\ l \in 0..MaxLedgerTurns /\ srv.took = b[l + 1] /\ srv.reported \in Nat
  BY <1>1 DEF CountTrue, UsageCounted
<1>3. /\ l + 1 \in Numbers /\ l + 1 > l /\ l + 1 \in 0..MaxLedgerTurns /\ l \in Nat
      /\ l + 1 \in 1..(MaxLedgerTurns + 1)
      /\ \A t \in Numbers : t > l + 1 => t > l
  <2>1. l \in Nat /\ l < MaxLedgerTurns BY <1>1, <1>2
  <2> QED BY <2>1 DEF Numbers
<1>4. b[(l + 1) + 1] = b[l + 1]
  <2>1. w[l + 1] = 0 /\ b[(l + 1) + 1] = b[l + 1] + w[l + 1] /\ b[l + 1] \in Nat BY <1>2, <1>3
  <2> QED BY <2>1
<1>5. UsageCounted(new, w, b) BY <1>1, <1>2, <1>3, <1>4 DEF UsageCounted
<1>6. NoticeTrue(s, o, u, b, w, new.last, Len(s) + 1, a)
  <2>1. Knows(s, u, Len(s) + 1, srv.reported) BY DEF CountTrue, NextTrue
  <2>2. srv.reported = b[a.turn] /\ a.turn \in 1..new.last BY <1>1, <1>2, <1>3
  <2> QED BY <2>1, <2>2 DEF NoticeTrue
<1>7. srv.last <= new.last /\ a.kind \in Edges BY <1>1, <1>3 DEF Edges
<1> QED BY <1>5, <1>6, <1>7, CountTold

\* a report,
LEMMA ReportTold ==
    ASSUME NEW R, NEW s \in Seq(R), NEW a, NEW o, NEW u, NEW recs, NEW srv, NEW new, NEW w, NEW b,
           CountTrue(s, o, u, recs, srv, w, b), a.kind = "usage", a.total = srv.took, MaxLedgerTurns \in Nat,
           new.turn = srv.turn, new.last = srv.last, new.took = srv.took, new.reported = srv.took
    PROVE  CountTrue(s \o <<a>>, o, u, recs, new, w, b)
<1>1. srv.took \in Nat /\ srv.last \in 0..MaxLedgerTurns /\ srv.took = b[srv.last + 1]
  <2>1. /\ b \in [1..(MaxLedgerTurns + 1) -> Nat] /\ srv.last \in 0..MaxLedgerTurns
        /\ srv.took = b[srv.last + 1]
    BY DEF CountTrue, UsageCounted
  <2>2. srv.last + 1 \in 1..(MaxLedgerTurns + 1) BY <2>1
  <2> QED BY <2>1, <2>2
<1>2. UsageCounted(new, w, b) /\ srv.last <= new.last BY <1>1 DEF CountTrue, UsageCounted
<1>3. NoticeTrue(s, o, u, b, w, new.last, Len(s) + 1, a)
  <2>1. \A t \in Numbers : Follows(s, o, Len(s) + 1, t) => t = srv.last BY DEF CountTrue, NextTrue
  <2>2. \A t \in Numbers : Follows(s, o, Len(s) + 1, t) => a.total <= b[t + 1] BY <1>1, <2>1
  <2> QED BY <1>1, <2>2 DEF NoticeTrue
<1>4. a.kind \notin Edges /\ a.kind # "started" BY DEF Edges
<1> QED BY <1>2, <1>3, <1>4, CountTold

\* a helper's work,
LEMMA ItemTold ==
    ASSUME NEW R, NEW s \in Seq(R), NEW a, NEW o, NEW u, NEW recs, NEW srv, NEW w, NEW b,
           CountTrue(s, o, u, recs, srv, w, b), a.kind = "item", a.turn = srv.turn, srv.turn \in Numbers
    PROVE  CountTrue(s \o <<a>>, o, u, recs, srv, w, b)
<1>1. srv.turn > 0 BY DEF Numbers
<1>2. UsageCounted(srv, w, b) /\ Runs(s, o, Len(s) + 1, srv.turn) BY <1>1 DEF CountTrue, NextTrue
<1>3. srv.last <= srv.last BY <1>2 DEF UsageCounted
<1>4. NoticeTrue(s, o, u, b, w, srv.last, Len(s) + 1, a) BY <1>2 DEF NoticeTrue
<1>5. a.kind \notin Edges /\ a.kind # "started" /\ a.kind # "usage" BY DEF Edges
<1> QED BY <1>2, <1>3, <1>4, <1>5, CountTold

\* an end, and the deletion of the task.
LEMMA EndTold ==
    ASSUME NEW R, NEW s \in Seq(R), NEW a, NEW o, NEW u, NEW recs, NEW srv, NEW new, NEW w, NEW b,
           CountTrue(s, o, u, recs, srv, w, b),
           \/ /\ a.kind = "completed" /\ a.turn = srv.turn /\ srv.turn \in Numbers
              /\ a.items \subseteq {srv.turn} /\ a.tokens \in {w[srv.turn], -1}
           \/ a.kind = "deleted",
           new.turn <= 0, new.turn \in Int, new.last = srv.last, new.took = srv.took, new.reported = srv.reported
    PROVE  CountTrue(s \o <<a>>, o, u, recs, new, w, b)
<1>1. ~(new.turn > 0) OBVIOUS
<1>2. UsageCounted(new, w, b) BY <1>1 DEF CountTrue, UsageCounted
<1>3. srv.last <= new.last BY <1>2 DEF UsageCounted
<1>4. NoticeTrue(s, o, u, b, w, new.last, Len(s) + 1, a)
  <2>1. CASE a.kind = "completed"
    <3>1. a.turn = srv.turn /\ srv.turn \in Numbers /\ a.items \subseteq {srv.turn} /\ a.tokens \in {w[srv.turn], -1}
      BY <2>1
    <3>2. srv.turn > 0 BY <3>1 DEF Numbers
    <3>3. Runs(s, o, Len(s) + 1, srv.turn) /\ w[srv.turn] \in Nat
      BY <3>1, <3>2 DEF CountTrue, NextTrue, UsageCounted
    <3>4. a.tokens \in Int /\ a.tokens <= w[a.turn] BY <3>1, <3>3
    <3> QED BY <2>1, <3>1, <3>3, <3>4 DEF NoticeTrue
  <2>2. CASE a.kind = "deleted" BY <2>2 DEF NoticeTrue
  <2> QED BY <2>1, <2>2
<1>5. a.kind # "started" /\ a.kind # "usage" OBVIOUS
<1> QED BY <1>1, <1>2, <1>3, <1>4, <1>5, CountTold

\* Two words.
LEMMA TwoTold ==
    ASSUME NEW Q, NEW s \in Seq(Q), NEW a \in Q, NEW e \in Q
    PROVE  s \o <<a>> \in Seq(Q) /\ s \o <<a, e>> = (s \o <<a>>) \o <<e>>
<1>1. PICK p, q, z : p = <<a>> /\ q = <<e>> /\ z = <<a, e>> OBVIOUS
<1>2. p \in Seq(Q) /\ q \in Seq(Q) BY <1>1
<1>3. p \o q = z
  <2>1. PICK y : y = p \o q OBVIOUS
  <2>2. Len(p) = 1 /\ Len(q) = 1 /\ p[1] = a /\ q[1] = e BY <1>1
  <2>3. z \in Seq(Q) /\ Len(z) = 2 /\ z[1] = a /\ z[2] = e BY <1>1
  <2>4. /\ y \in Seq(Q) /\ Len(y) = Len(p) + Len(q)
        /\ \A i \in 1..Len(p) + Len(q) : y[i] = IF i <= Len(p) THEN p[i] ELSE q[i - Len(p)]
    BY <1>2, <2>1, ConcatProperties
  <2>5. Len(y) = 2 /\ y[1] = a /\ y[2] = e BY <2>2, <2>4
  <2>6. \A i \in 1..2 : i = 1 \/ i = 2 OBVIOUS
  <2>7. \A i \in 1..Len(y) : y[i] = z[i] BY <2>3, <2>5, <2>6
  <2>8. y = z BY <2>3, <2>4, <2>5, <2>7, SeqEqual
  <2> QED BY <2>1, <2>8
<1>4. s \o p \in Seq(Q) BY <1>2, ConcatProperties
<1>5. (s \o p) \o q = s \o (p \o q) BY <1>2, ConcatAssociative
<1> QED BY <1>1, <1>3, <1>4, <1>5

\* The invariant's part, and what a step of the server leaves of it.
LEMMA CountGiven ==
    ASSUME LedgerTyped, Counts, ledgerBounds.losses = 0
    PROVE  /\ wired /\ \E R : ledgerStream \in Seq(R)
           /\ \E b : CountTrue(ledgerStream, obs, usage, records, ledgerServer, own, b)
BY DEF LedgerTyped, Counts

LEMMA CountBegins ==
    ASSUME LedgerTyped, Counts, MaxLedgerTurns \in Nat, Ledger!TakeSend \/ Ledger!StartElsewhere
    PROVE  Counts'
<1>1. PICK t : t = ledgerServer.last + 1 OBVIOUS
<1>2. PICK route, start : start = [kind |-> "started", turn |-> t]
                          /\ route = [kind |-> "answer", turn |-> t, route |-> ledgerAsked.route]
  OBVIOUS
<1>3. /\ ledgerServer.last < MaxLedgerTurns /\ ledgerServer.reported = ledgerServer.took
      /\ ledgerServer' = [turn |-> t, last |-> t, took |-> ledgerServer.took, reported |-> ledgerServer.reported,
                          settings |-> ledgerServer.settings]
      /\ UNCHANGED <<own, obs, usage, records, ledgerBounds>>
      /\ Ledger!Notify(<<route, start>>) \/ Ledger!Notify(<<start, route>>) \/ Ledger!Notify(<<start>>)
  BY <1>1, <1>2 DEF Ledger!TakeSend, Ledger!StartElsewhere, Ledger!Begin, Ledger!WindowSame
<1>4. SUFFICES ASSUME ledgerBounds.losses = 0
               PROVE  \E b : CountTrue(ledgerStream', obs, usage, records, ledgerServer', own, b)
  BY <1>3 DEF Counts
<1>5. PICK R : ledgerStream \in Seq(R) BY CountGiven, <1>4
<1>6. PICK b : CountTrue(ledgerStream, obs, usage, records, ledgerServer, own, b) BY CountGiven, <1>4
<1>7. PICK s, srv, new : s = ledgerStream /\ srv = ledgerServer /\ new = ledgerServer' OBVIOUS
<1>8. PICK Q : Q = R \cup {route, start} OBVIOUS
<1>9. s \in Seq(Q) /\ <<route>> \in Seq(Q) /\ <<start>> \in Seq(Q)
  <2>1. ledgerStream \in Seq(Q) BY <1>5, <1>8, SeqMonotonic
  <2> QED BY <1>7, <1>8, <2>1
<1>10. /\ CountTrue(s, obs, usage, records, srv, own, b) /\ start.kind = "started" /\ start.turn = srv.last + 1
       /\ srv.last < MaxLedgerTurns /\ srv.reported = srv.took /\ route.kind = "answer"
       /\ new.turn = start.turn /\ new.last = start.turn /\ new.took = srv.took /\ new.reported = srv.reported
  BY <1>1, <1>2, <1>3, <1>6, <1>7
<1>11. ledgerStream' \in {s \o <<route, start>>, s \o <<start, route>>, s \o <<start>>}
  <2>1. wired BY CountGiven, <1>4
  <2> QED BY <1>3, <1>7, <2>1 DEF Ledger!Notify
<1>12. CASE ledgerStream' = s \o <<start>>
  <2>1. CountTrue(s \o <<start>>, obs, usage, records, new, own, b) BY <1>9, <1>10, StartTold
  <2> QED BY <1>7, <1>12, <2>1
<1>13. CASE ledgerStream' = s \o <<route, start>>
  <2>1. PICK r : r = s \o <<route>> OBVIOUS
  <2>2. r \in Seq(Q) /\ ledgerStream' = r \o <<start>>
    <3>1. route \in Q /\ start \in Q /\ s \in Seq(Q) BY <1>8, <1>9
    <3>2. s \o <<route>> \in Seq(Q) /\ s \o <<route, start>> = (s \o <<route>>) \o <<start>> BY <3>1, TwoTold
    <3> QED BY <1>13, <2>1, <3>2
  <2>3. CountTrue(r, obs, usage, records, srv, own, b) BY <1>9, <1>10, <2>1, AsideTold
  <2>4. CountTrue(r \o <<start>>, obs, usage, records, new, own, b) BY <1>10, <2>2, <2>3, StartTold
  <2> QED BY <1>7, <2>2, <2>4
<1>14. CASE ledgerStream' = s \o <<start, route>>
  <2>1. PICK r : r = s \o <<start>> OBVIOUS
  <2>2. r \in Seq(Q) /\ ledgerStream' = r \o <<route>>
    <3>1. route \in Q /\ start \in Q /\ s \in Seq(Q) BY <1>8, <1>9
    <3>2. s \o <<start>> \in Seq(Q) /\ s \o <<start, route>> = (s \o <<start>>) \o <<route>> BY <3>1, TwoTold
    <3> QED BY <1>14, <2>1, <3>2
  <2>3. CountTrue(r, obs, usage, records, new, own, b) BY <1>9, <1>10, <2>1, StartTold
  <2>4. CountTrue(r \o <<route>>, obs, usage, records, new, own, b) BY <1>10, <2>2, <2>3, AsideTold
  <2> QED BY <1>7, <2>2, <2>4
<1> QED BY <1>11, <1>12, <1>13, <1>14

\* Anything else the server says.
LEMMA CountTells ==
    ASSUME LedgerTyped, Counts, MaxLedgerTurns \in Nat,
           \/ Ledger!Report \/ Ledger!Help \/ Ledger!EndTurn \/ Ledger!ChangeSettings \/ Ledger!DeleteTask
           \/ Ledger!update_task_settings_from_controls
    PROVE  Counts'
<1>1. /\ UNCHANGED <<own, obs, usage, records>>
      /\ ledgerBounds' = ledgerBounds \/ \E n : ledgerBounds' = [ledgerBounds EXCEPT !.picks = n]
  BY DEF Ledger!Report, Ledger!Help, Ledger!EndTurn, Ledger!ChangeSettings, Ledger!DeleteTask,
     Ledger!update_task_settings_from_controls, Ledger!Pick, Ledger!WindowSame
<1>2. ledgerBounds'.losses = ledgerBounds.losses BY <1>1 DEF LedgerTyped
<1>3. SUFFICES ASSUME ledgerBounds.losses = 0
               PROVE  \E b : CountTrue(ledgerStream', obs, usage, records, ledgerServer', own, b)
  BY <1>1, <1>2 DEF Counts
<1>4. PICK R : ledgerStream \in Seq(R) BY CountGiven, <1>3
<1>5. PICK b : CountTrue(ledgerStream, obs, usage, records, ledgerServer, own, b) BY CountGiven, <1>3
<1>6. PICK s, srv, new : s = ledgerStream /\ srv = ledgerServer /\ new = ledgerServer' OBVIOUS
<1>7. /\ s \in Seq(R) /\ CountTrue(s, obs, usage, records, srv, own, b)
      /\ srv = [turn |-> srv.turn, last |-> srv.last, took |-> srv.took, reported |-> srv.reported,
                settings |-> srv.settings]
  BY <1>4, <1>5, <1>6 DEF LedgerTyped
<1>8. SUFFICES \E a : ledgerStream' = s \o <<a>> /\ CountTrue(s \o <<a>>, obs, usage, records, new, own, b)
  BY <1>6
<1>9. ASSUME NEW a, Ledger!Notify(<<a>>) PROVE ledgerStream' = s \o <<a>>
  <2>1. wired BY CountGiven, <1>3
  <2> QED BY <1>6, <1>9, <2>1 DEF Ledger!Notify
<1>10. CASE Ledger!Report
  <2>1. PICK a : a = [kind |-> "usage", total |-> srv.took] OBVIOUS
  <2>2. Ledger!Notify(<<a>>) /\ new = [srv EXCEPT !.reported = srv.took] BY <1>6, <1>10, <2>1 DEF Ledger!Report
  <2>3. CountTrue(s \o <<a>>, obs, usage, records, new, own, b) BY <1>7, <2>1, <2>2, ReportTold
  <2> QED BY <1>9, <2>2, <2>3
<1>11. CASE Ledger!Help
  <2>1. PICK a : a = [kind |-> "item", turn |-> srv.turn] OBVIOUS
  <2>2. Ledger!Notify(<<a>>) /\ new = srv /\ srv.turn > 0 BY <1>6, <1>11, <2>1 DEF Ledger!Help
  <2>3. srv.turn \in Numbers BY <1>6, <2>2 DEF LedgerTyped
  <2>4. CountTrue(s \o <<a>>, obs, usage, records, new, own, b) BY <1>7, <2>1, <2>2, <2>3, ItemTold
  <2> QED BY <1>9, <2>2, <2>4
<1>12. CASE Ledger!EndTurn
  <2>1. /\ srv.turn > 0 /\ new = [srv EXCEPT !.turn = 0]
        /\ \E direct \in BOOLEAN, items \in {{}, {srv.turn}} :
             Ledger!Notify(<<[kind |-> "completed", turn |-> srv.turn, items |-> items,
                              tokens |-> IF direct THEN own[srv.turn] ELSE Ledger!None]>>)
    BY <1>6, <1>12 DEF Ledger!EndTurn
  <2>2. PICK direct \in BOOLEAN, items \in {{}, {srv.turn}} :
          Ledger!Notify(<<[kind |-> "completed", turn |-> srv.turn, items |-> items,
                           tokens |-> IF direct THEN own[srv.turn] ELSE Ledger!None]>>)
    BY <2>1
  <2>3. PICK a : a = [kind |-> "completed", turn |-> srv.turn, items |-> items,
                      tokens |-> IF direct THEN own[srv.turn] ELSE Ledger!None]
    OBVIOUS
  <2>4. Ledger!Notify(<<a>>) BY <2>2, <2>3
  <2>5. srv.turn \in Numbers BY <1>6, <2>1 DEF LedgerTyped
  <2>6. a.kind = "completed" /\ a.turn = srv.turn /\ a.items \subseteq {srv.turn} /\ a.tokens \in {own[srv.turn], -1}
    BY <2>3 DEF Ledger!None
  <2>7. new.turn = 0 /\ new.last = srv.last /\ new.took = srv.took /\ new.reported = srv.reported BY <1>7, <2>1
  <2>8. CountTrue(s \o <<a>>, obs, usage, records, new, own, b) BY <1>7, <2>5, <2>6, <2>7, EndTold
  <2> QED BY <1>9, <2>4, <2>8
<1>13. CASE Ledger!DeleteTask
  <2>1. PICK a : a = [kind |-> "deleted"] OBVIOUS
  <2>2. Ledger!Notify(<<a>>) /\ new = [srv EXCEPT !.turn = -1]
    BY <1>6, <1>13, <2>1 DEF Ledger!DeleteTask, Ledger!None
  <2>3. new.turn = -1 /\ new.last = srv.last /\ new.took = srv.took /\ new.reported = srv.reported BY <1>7, <2>2
  <2>4. a.kind = "deleted" /\ new.turn <= 0 /\ new.turn \in Int BY <2>1, <2>3
  <2>5. CountTrue(s \o <<a>>, obs, usage, records, new, own, b) BY <1>7, <2>3, <2>4, EndTold
  <2> QED BY <1>9, <2>2, <2>5
<1>14. CASE Ledger!ChangeSettings \/ Ledger!update_task_settings_from_controls
  <2>1. PICK m : /\ Ledger!Notify(<<[kind |-> "settings", model |-> m]>>)
                 /\ new = [srv EXCEPT !.settings = m] \/ new = srv
    BY <1>6, <1>14 DEF Ledger!ChangeSettings, Ledger!update_task_settings_from_controls, Ledger!Pick
  <2>2. PICK a : a = [kind |-> "settings", model |-> m] OBVIOUS
  <2>3. new.turn = srv.turn /\ new.last = srv.last /\ new.took = srv.took /\ new.reported = srv.reported
    BY <1>7, <2>1
  <2>4. Ledger!Notify(<<a>>) /\ a.kind = "settings" BY <2>1, <2>2
  <2>5. CountTrue(s \o <<a>>, obs, usage, records, new, own, b) BY <1>7, <2>3, <2>4, AsideTold
  <2> QED BY <1>9, <2>4, <2>5
<1> QED BY <1>10, <1>11, <1>12, <1>13, <1>14

\* A call.
LEMMA CountCalls == ASSUME LedgerTyped, Counts, MaxLedgerTurns \in Nat, Ledger!Call PROVE Counts'
<1>1. /\ ledgerServer.turn > 0 /\ own' = [own EXCEPT ![ledgerServer.turn] = @ + 1]
      /\ ledgerServer' = [ledgerServer EXCEPT !.took = @ + 1]
      /\ UNCHANGED <<ledgerStream, obs, usage, records, ledgerBounds>>
  BY DEF Ledger!Call, Ledger!WindowSame
<1>2. /\ ledgerServer'.turn = ledgerServer.turn /\ ledgerServer'.last = ledgerServer.last
      /\ ledgerServer'.took = ledgerServer.took + 1 /\ ledgerServer'.reported = ledgerServer.reported
      /\ ledgerServer.turn \in Nat
  BY <1>1 DEF LedgerTyped, Numbers
<1>3. SUFFICES ASSUME ledgerBounds.losses = 0
               PROVE  \E b : CountTrue(ledgerStream, obs, usage, records, ledgerServer', own', b)
  BY <1>1 DEF Counts
<1>4. PICK b : CountTrue(ledgerStream, obs, usage, records, ledgerServer, own, b) BY CountGiven, <1>3
<1>5. PICK s, o, u, recs, srv, new, w, x :
        /\ s = ledgerStream /\ o = obs /\ u = usage /\ recs = records
        /\ srv = ledgerServer /\ new = ledgerServer' /\ w = own /\ x = own'
  OBVIOUS
<1>6. \E c : CountTrue(s, o, u, recs, new, x, c) BY <1>1, <1>2, <1>4, <1>5, CountCalled
<1> QED BY <1>5, <1>6

\* What the window knows when the first notice arrives is what it has.
LEMMA FirstSays ==
    ASSUME NEW s, NEW o, NEW u, NEW x
    PROVE  /\ Runs(s, o, 1, x) => o.turn = x /\ ~o.completed
           /\ Knows(s, u, 1, x) => u \in {x, -1}
           /\ Follows(s, o, 1, o.turn)
<1>1. 1 - 1 = 0 /\ (\A k \in 0..0 : k = 0) /\ 0 \in 0..0 /\ ~\E m \in 1..0 : TRUE OBVIOUS
<1>2. Runs(s, o, 1, x) => o.turn = x /\ ~o.completed BY <1>1 DEF Runs
<1>3. Knows(s, u, 1, x) => u \in {x, -1} BY <1>1 DEF Knows
<1>4. LastOf(s, 1, {"started"}, 0) BY <1>1 DEF LastOf
<1> QED BY <1>1, <1>2, <1>3, <1>4 DEF Follows

\* Receipts and routes that are written down.
LEMMA ReceiptCounted ==
    ASSUME NEW recs, recs = [n \in Numbers |-> recs[n]], NEW w, ReceiptsTrue(recs, w), NEW o, NEW t \in Numbers,
           o.turn = t => o.events \subseteq {t}, NEW tokens \in Int, tokens <= w[t],
           NEW new, new = Ledger!Receipted(o, recs, t, tokens)
    PROVE  ReceiptsTrue(new, w)
<1>1. PICK events : events = IF o.turn = t THEN o.events ELSE {} OBVIOUS
<1>2. PICK route : route = Ledger!enforce_subagent_policy(
                     IF recs[t].route # Ledger!NoRoute THEN recs[t].route ELSE Ledger!manual_route(settings),
                     routing.allow)
  OBVIOUS
<1>3. PICK got : got = [tokens |-> tokens, events |-> events] OBVIOUS
<1>4. new = [recs EXCEPT ![t] = [route |-> route, receipt |-> got]]
  BY <1>1, <1>2, <1>3 DEF Ledger!Receipted
<1>5. DOMAIN recs = Numbers OBVIOUS
<1>6. new[t] = [route |-> route, receipt |-> got] /\ \A n \in Numbers : n # t => new[n] = recs[n]
  BY <1>4, <1>5
<1>7. new[t].receipt = got /\ got.tokens = tokens /\ got.events = events BY <1>3, <1>6
<1>8. events \subseteq {t} BY <1>1
<1> QED BY <1>6, <1>7, <1>8 DEF ReceiptsTrue

LEMMA RouteCounted ==
    ASSUME NEW recs, recs = [n \in Numbers |-> recs[n]], NEW w, ReceiptsTrue(recs, w), NEW t \in Numbers,
           NEW route, NEW new, new = Ledger!record_turn(recs, t, route)
    PROVE  ReceiptsTrue(new, w) /\ new = [n \in Numbers |-> new[n]]
<1>1. new = [recs EXCEPT ![t] = [route |-> route, receipt |-> Ledger!NoReceipt]] BY DEF Ledger!record_turn
<1>2. DOMAIN recs = Numbers OBVIOUS
<1>3. /\ new[t] = [route |-> route, receipt |-> Ledger!NoReceipt] /\ new = [n \in Numbers |-> new[n]]
      /\ \A n \in Numbers : n # t => new[n] = recs[n]
  BY <1>1, <1>2
<1>4. new[t].receipt = Ledger!NoReceipt BY <1>3
<1> QED BY <1>3, <1>4 DEF ReceiptsTrue

\* The difference of two usages counts no tokens of another turn.
LEMMA DeltaTrue ==
    ASSUME NEW o, NEW b, NEW w, NEW srv, MaxLedgerTurns \in Nat, UsageCounted(srv, w, b),
           ObservedTrue(o, b, srv.last), o.turn # -1
    PROVE  /\ o.turn \in Numbers /\ w[o.turn] \in Nat
           /\ Ledger!cumulative_turn_delta(o) \in Int /\ Ledger!cumulative_turn_delta(o) <= w[o.turn]
           /\ Ledger!None \in Int /\ Ledger!None <= w[o.turn]
<1>1. PICK t, f, l : t = o.turn /\ f = o.before /\ l = o.latest OBVIOUS
<1>2. /\ t \in 1..srv.last /\ srv.last \in 0..MaxLedgerTurns
      /\ l \in Nat \cup {-1} /\ f \in Nat \cup {-1} /\ (f # -1 => f >= b[t] /\ l <= b[t + 1])
  BY <1>1 DEF UsageCounted, ObservedTrue
<1>3. t \in Numbers /\ t \in 1..(MaxLedgerTurns + 1) /\ t + 1 \in 1..(MaxLedgerTurns + 1) BY <1>2 DEF Numbers
<1>4. b[t + 1] = b[t] + w[t] /\ w[t] \in Nat /\ b[t] \in Nat /\ b[t + 1] \in Nat BY <1>3 DEF UsageCounted
<1>5. PICK d : d = IF l = -1 \/ f = -1 \/ l < f THEN -1 ELSE l - f OBVIOUS
<1>6. Ledger!cumulative_turn_delta(o) = d BY <1>1, <1>5 DEF Ledger!cumulative_turn_delta, Ledger!None
<1>7. d \in Int /\ d <= w[t] BY <1>2, <1>4, <1>5
<1>8. -1 \in Int /\ -1 <= w[t] BY <1>4
<1> QED BY <1>1, <1>3, <1>4, <1>6, <1>7, <1>8 DEF Ledger!None

Counting(b) == CountTrue(ledgerStream, obs, usage, records, ledgerServer, own, b)

CountingOn(b) == CountTrue(Tail(ledgerStream), obs', usage', records', ledgerServer, own, b)

Arriving(e) == ledgerStream # <<>> /\ e = Head(ledgerStream)

\* What is known of the first notice.
LEMMA FirstTrue ==
    ASSUME LedgerTyped, NEW b, Counting(b), NEW e, Arriving(e), MaxLedgerTurns \in Nat
    PROVE  /\ NoticeTrue(ledgerStream, obs, usage, b, own, ledgerServer.last, 1, e)
           /\ e.kind \in {"item", "completed"} => e.turn \in Numbers /\ obs.turn = e.turn /\ ~obs.completed
           /\ e.kind = "started" => e.turn \in 1..ledgerServer.last /\ e.turn \in Numbers /\ usage \in {b[e.turn], -1}
           /\ e.kind = "usage" => e.total \in Nat /\ (obs.turn \in Numbers => e.total <= b[obs.turn + 1])
           /\ UsageCounted(ledgerServer, own, b) /\ ObservedTrue(obs, b, ledgerServer.last)
           /\ ReceiptsTrue(records, own) /\ usage \in Nat \cup {-1}
           /\ records = [n \in Numbers |-> records[n]]
<1>1. PICK R : ledgerStream \in Seq(R) BY DEF LedgerTyped
<1>2. PICK s : s = ledgerStream OBVIOUS
<1>3. s \in Seq(R) /\ s # <<>> /\ e = Head(s) BY <1>1, <1>2 DEF Arriving
<1>4. e = s[1] /\ 1 \in 1..Len(s)
  <2>1. Head(s) = s[1] OBVIOUS
  <2>2. Len(s) \in Nat /\ Len(s) # 0 BY <1>3, LenProperties, EmptySeq
  <2> QED BY <1>3, <2>1, <2>2
<1>5. NoticeTrue(ledgerStream, obs, usage, b, own, ledgerServer.last, 1, e)
  BY <1>2, <1>4 DEF Counting, CountTrue
<1>6. \A x : /\ Runs(s, obs, 1, x) => obs.turn = x /\ ~obs.completed
             /\ Knows(s, usage, 1, x) => usage \in {x, -1}
             /\ Follows(s, obs, 1, obs.turn)
  BY FirstSays
<1>7. UsageCounted(ledgerServer, own, b) BY DEF Counting, CountTrue
<1>8. \A t \in 1..ledgerServer.last : t \in Numbers BY <1>7 DEF UsageCounted, Numbers
<1> QED BY <1>2, <1>5, <1>6, <1>7, <1>8 DEF NoticeTrue, Counting, CountTrue, LedgerTyped

\* Whatever the window makes of a notice, if it is true.
LEMMA TakenTrue ==
    ASSUME LedgerTyped, NEW b, Counting(b), NEW e, Arriving(e),
           e.kind = "started" => obs'.turn = e.turn /\ ~obs'.completed,
           e.kind \notin Edges => obs.completed \/ (obs'.turn = obs.turn /\ obs'.completed = obs.completed),
           e.kind # "started" => obs'.turn = obs.turn \/ obs'.turn = -1,
           usage' = IF e.kind = "usage" THEN e.total ELSE usage,
           ObservedTrue(obs', b, ledgerServer.last), ReceiptsTrue(records', own)
    PROVE  CountingOn(b)
<1>1. PICK R : ledgerStream \in Seq(R) BY DEF LedgerTyped
<1>2. PICK s, p, v, kept : s = ledgerStream /\ p = obs' /\ v = usage' /\ kept = records' OBVIOUS
<1>3. s \in Seq(R) /\ s # <<>> /\ e = Head(s) /\ CountTrue(s, obs, usage, records, ledgerServer, own, b)
  BY <1>1, <1>2 DEF Arriving, Counting
<1>4. CountTrue(Tail(s), p, v, kept, ledgerServer, own, b) BY <1>2, <1>3, CountHeard
<1> QED BY <1>2, <1>4 DEF CountingOn

\* Notice by notice.
LEMMA CountedSmall ==
    ASSUME LedgerTyped, MaxLedgerTurns \in Nat, NEW b, Counting(b), NEW e, Arriving(e),
           \/ e.kind = "answer" /\ Ledger!OnAnswer(e) /\ e.turn \in Numbers
           \/ e.kind = "settings" /\ Ledger!OnSettings(e)
           \/ e.kind = "deleted" /\ Ledger!OnDeleted
           \/ e.kind = "item" /\ Ledger!OnItem(e)
    PROVE  CountingOn(b)
<1>1. /\ e.kind \in {"item", "completed"} => e.turn \in Numbers /\ obs.turn = e.turn /\ ~obs.completed
      /\ UsageCounted(ledgerServer, own, b) /\ ObservedTrue(obs, b, ledgerServer.last)
      /\ ReceiptsTrue(records, own) /\ records = [n \in Numbers |-> records[n]]
  BY FirstTrue
<1>2. -1 \notin Numbers /\ Ledger!NoObs.turn = -1 /\ Ledger!NoObs.completed = FALSE
  BY DEF Numbers, Ledger!NoObs, Ledger!None
<1>3. e.kind = "deleted" => e.kind \in Edges BY DEF Edges
<1>4. CASE e.kind = "answer" /\ Ledger!OnAnswer(e) /\ e.turn \in Numbers
  <2>1. obs' = obs /\ usage' = usage /\ records' = Ledger!record_turn(records, e.turn, e.route)
    BY <1>4 DEF Ledger!OnAnswer, Ledger!Keep
  <2>2. PICK t, route, old, new : t = e.turn /\ route = e.route /\ old = records /\ new = records' OBVIOUS
  <2>3. ReceiptsTrue(new, own) BY <1>1, <1>4, <2>1, <2>2, RouteCounted
  <2> QED BY <1>1, <1>4, <2>1, <2>2, <2>3, TakenTrue
<1>5. CASE e.kind = "settings" /\ Ledger!OnSettings(e)
  <2>1. UNCHANGED <<obs, usage, records>> BY <1>5 DEF Ledger!OnSettings
  <2> QED BY <1>1, <1>5, <2>1, TakenTrue
<1>6. CASE e.kind = "deleted" /\ Ledger!OnDeleted
  <2>1. obs' = Ledger!NoObs /\ usage' = usage /\ records' = [t \in Numbers |-> Ledger!NoRecord]
    BY <1>6 DEF Ledger!OnDeleted, Ledger!Keep, Ledger!Turns, Numbers
  <2>2. ReceiptsTrue(records', own)
    <3>1. Ledger!NoRecord.receipt = Ledger!NoReceipt BY DEF Ledger!NoRecord
    <3> QED BY <2>1, <3>1 DEF ReceiptsTrue
  <2>3. ObservedTrue(obs', b, ledgerServer.last) BY <1>2, <2>1 DEF ObservedTrue
  <2> QED BY <1>2, <1>3, <1>6, <2>1, <2>2, <2>3, TakenTrue
<1>7. CASE e.kind = "item" /\ Ledger!OnItem(e)
  <2>1. obs.turn = e.turn /\ e.turn \in Numbers /\ obs # Ledger!NoObs BY <1>1, <1>2, <1>7
  <2>2. obs' = [obs EXCEPT !.events = @ \cup {e.turn}] /\ usage' = usage /\ records' = records
    BY <1>7, <2>1 DEF Ledger!OnItem, Ledger!Keep
  <2>3. /\ obs'.turn = obs.turn /\ obs'.before = obs.before /\ obs'.latest = obs.latest
        /\ obs'.completed = obs.completed /\ obs'.events = obs.events \cup {e.turn}
    <3>1. obs = [turn |-> obs.turn, before |-> obs.before, latest |-> obs.latest, seen |-> obs.seen,
                 completed |-> obs.completed, events |-> obs.events]
      BY DEF LedgerTyped
    <3> QED BY <2>2, <3>1
  <2>4. ObservedTrue(obs', b, ledgerServer.last) BY <1>1, <1>2, <2>1, <2>3 DEF ObservedTrue
  <2> QED BY <1>1, <1>7, <2>2, <2>3, <2>4, TakenTrue
<1> QED BY <1>4, <1>5, <1>6, <1>7

LEMMA CountedStart ==
    ASSUME LedgerTyped, MaxLedgerTurns \in Nat, NEW b, Counting(b), NEW e, Arriving(e), e.kind = "started",
           Ledger!OnStarted(e)
    PROVE  CountingOn(b)
<1>1. /\ e.turn \in 1..ledgerServer.last /\ e.turn \in Numbers /\ usage \in {b[e.turn], -1}
      /\ UsageCounted(ledgerServer, own, b) /\ ObservedTrue(obs, b, ledgerServer.last)
      /\ ReceiptsTrue(records, own) /\ records = [n \in Numbers |-> records[n]] /\ usage \in Nat \cup {-1}
  BY FirstTrue
<1>2. PICK known, old, last, new :
        /\ old = records /\ last = obs /\ new = records'
        /\ known = IF old[e.turn].route # Ledger!NoRoute THEN old
                   ELSE Ledger!record_turn(old, e.turn, Ledger!manual_route(settings))
  OBVIOUS
<1>3. /\ obs' = [turn |-> e.turn, before |-> usage, latest |-> usage, seen |-> FALSE, completed |-> FALSE,
                 events |-> {}]
      /\ new = IF last.completed THEN Ledger!Receipted(last, known, last.turn, -1) ELSE known
      /\ usage' = usage
  BY <1>2 DEF Ledger!OnStarted, Ledger!Keep, Ledger!StaleReceipted, Ledger!None
<1>4. ReceiptsTrue(known, own) /\ known = [n \in Numbers |-> known[n]]
  <2>1. PICK t, route : t = e.turn /\ route = Ledger!manual_route(settings) OBVIOUS
  <2>2. CASE known = old BY <1>1, <1>2, <2>2
  <2>3. CASE known = Ledger!record_turn(old, t, route) BY <1>1, <1>2, <2>1, <2>3, RouteCounted
  <2> QED BY <1>2, <2>1, <2>2, <2>3
<1>5. ReceiptsTrue(new, own)
  <2>1. CASE last.completed
    <3>1. last.turn # -1
      <4>1. Ledger!NoObs.completed = FALSE BY DEF Ledger!NoObs
      <4> QED BY <1>1, <1>2, <2>1, <4>1 DEF ObservedTrue
    <3>2. last.turn \in Numbers /\ Ledger!None \in Int /\ Ledger!None <= own[last.turn]
      <4>1. ObservedTrue(last, b, ledgerServer.last) BY <1>1, <1>2
      <4> QED BY <1>1, <3>1, <4>1, DeltaTrue
    <3>3. last.events \subseteq {last.turn} BY <1>1, <1>2, <3>1 DEF ObservedTrue
    <3>4. PICK t, tokens : t = last.turn /\ tokens = -1 OBVIOUS
    <3>5. new = Ledger!Receipted(last, known, t, tokens) BY <1>3, <2>1, <3>4
    <3>6. t \in Numbers /\ tokens \in Int /\ tokens <= own[t] /\ last.events \subseteq {t}
      BY <3>2, <3>3, <3>4 DEF Ledger!None
    <3> QED BY <1>4, <3>5, <3>6, ReceiptCounted
  <2>2. CASE ~last.completed BY <1>3, <1>4, <2>2
  <2> QED BY <2>1, <2>2
<1>6. /\ obs'.turn = e.turn /\ obs'.before = usage /\ obs'.latest = usage /\ ~obs'.completed /\ obs'.events = {}
  BY <1>3
<1>7. ObservedTrue(obs', b, ledgerServer.last)
  <2>1. b[e.turn] \in Nat /\ b[e.turn + 1] \in Nat /\ own[e.turn] \in Nat /\ b[e.turn + 1] = b[e.turn] + own[e.turn]
    <3>1. e.turn \in 1..(MaxLedgerTurns + 1) /\ e.turn + 1 \in 1..(MaxLedgerTurns + 1) BY <1>1 DEF Numbers
    <3> QED BY <1>1, <3>1 DEF UsageCounted
  <2>2. usage # -1 => usage >= b[e.turn] /\ usage <= b[e.turn + 1] BY <1>1, <2>1
  <2>3. -1 \notin Numbers BY DEF Numbers
  <2> QED BY <1>1, <1>6, <2>2, <2>3 DEF ObservedTrue
<1>8. e.kind \in Edges /\ e.kind # "usage" BY DEF Edges
<1>9. ReceiptsTrue(records', own) /\ usage' = usage BY <1>2, <1>3, <1>5
<1> QED BY <1>6, <1>7, <1>8, <1>9, TakenTrue

LEMMA CountedUsage ==
    ASSUME LedgerTyped, MaxLedgerTurns \in Nat, NEW b, Counting(b), NEW e, Arriving(e), e.kind = "usage",
           Ledger!OnUsage(e)
    PROVE  CountingOn(b)
<1>1. /\ e.total \in Nat /\ (obs.turn \in Numbers => e.total <= b[obs.turn + 1])
      /\ UsageCounted(ledgerServer, own, b) /\ ObservedTrue(obs, b, ledgerServer.last)
      /\ ReceiptsTrue(records, own) /\ records = [n \in Numbers |-> records[n]]
  BY FirstTrue
<1>2. PICK heard : heard = [turn |-> obs.turn, before |-> obs.before, latest |-> e.total, seen |-> TRUE,
                            completed |-> obs.completed, events |-> obs.events]
  OBVIOUS
<1>3. PICK o : o = IF obs = Ledger!NoObs THEN obs ELSE heard OBVIOUS
<1>4. /\ usage' = e.total /\ obs' = IF o.completed THEN Ledger!Left(o, o.turn) ELSE o
      /\ records' = IF o.completed THEN Ledger!Receipted(o, records, o.turn, Ledger!cumulative_turn_delta(o))
                    ELSE records
  BY <1>2, <1>3 DEF Ledger!OnUsage, Ledger!Keep
<1>5. Ledger!NoObs.turn = -1 /\ Ledger!NoObs.completed = FALSE BY DEF Ledger!NoObs, Ledger!None
<1>6. o.turn = obs.turn /\ o.completed = obs.completed BY <1>2, <1>3
<1>7. ObservedTrue(o, b, ledgerServer.last)
  <2>1. CASE obs = Ledger!NoObs BY <1>1, <1>3, <2>1
  <2>2. CASE obs # Ledger!NoObs
    <3>1. /\ obs.turn # -1 /\ obs.turn \in 1..ledgerServer.last /\ obs.events \subseteq {obs.turn}
          /\ obs.before \in Nat \cup {-1} /\ (obs.before # -1 => obs.before >= b[obs.turn])
      BY <1>1, <2>2 DEF ObservedTrue
    <3>2. obs.turn \in Numbers BY <1>1, <3>1 DEF UsageCounted, Numbers
    <3>3. /\ o.turn = obs.turn /\ o.before = obs.before /\ o.latest = e.total /\ o.events = obs.events
      BY <1>2, <1>3, <2>2
    <3> QED BY <1>1, <3>1, <3>2, <3>3 DEF ObservedTrue
  <2> QED BY <2>1, <2>2
<1>8. CASE ~o.completed
  <2>1. obs' = o /\ records' = records BY <1>4, <1>8
  <2> QED BY <1>1, <1>4, <1>6, <1>7, <1>8, <2>1, TakenTrue
<1>9. CASE o.completed
  <2>1. o.turn # -1 BY <1>5, <1>7, <1>9 DEF ObservedTrue
  <2>2. PICK t, tokens : t = o.turn /\ tokens = Ledger!cumulative_turn_delta(o) OBVIOUS
  <2>3. t \in Numbers /\ tokens \in Int /\ tokens <= own[t] BY <1>1, <1>7, <2>1, <2>2, DeltaTrue
  <2>4. o.events \subseteq {t} BY <1>7, <2>1, <2>2 DEF ObservedTrue
  <2>5. PICK old, new : old = records /\ new = records' OBVIOUS
  <2>6. new = Ledger!Receipted(o, old, t, tokens) BY <1>4, <1>9, <2>2, <2>5
  <2>7. ReceiptsTrue(new, own) BY <1>1, <2>3, <2>4, <2>5, <2>6, ReceiptCounted
  <2>8. obs' = Ledger!NoObs BY <1>4, <1>9 DEF Ledger!Left
  <2>9. ObservedTrue(obs', b, ledgerServer.last) BY <1>5, <2>8 DEF ObservedTrue
  <2>10. obs.completed /\ obs'.turn = -1 /\ ReceiptsTrue(records', own) BY <1>5, <1>6, <1>9, <2>5, <2>7, <2>8
  <2> QED BY <1>4, <2>9, <2>10, TakenTrue
<1> QED BY <1>8, <1>9

LEMMA CountedEnd ==
    ASSUME LedgerTyped, MaxLedgerTurns \in Nat, NEW b, Counting(b), NEW e, Arriving(e), e.kind = "completed",
           Ledger!OnCompleted(e)
    PROVE  CountingOn(b)
<1>1. /\ e.turn \in Numbers /\ obs.turn = e.turn
      /\ UsageCounted(ledgerServer, own, b) /\ ObservedTrue(obs, b, ledgerServer.last)
      /\ ReceiptsTrue(records, own) /\ records = [n \in Numbers |-> records[n]]
      /\ e.items \subseteq {e.turn} /\ e.tokens <= own[e.turn] /\ e.tokens \in Int
  <2>1. NoticeTrue(ledgerStream, obs, usage, b, own, ledgerServer.last, 1, e) BY FirstTrue
  <2>2. e.items \subseteq {e.turn} /\ e.tokens <= own[e.turn] /\ e.tokens \in Int BY <2>1 DEF NoticeTrue
  <2> QED BY <2>2, FirstTrue
<1>2. PICK o : o = [turn |-> e.turn, before |-> obs.before, latest |-> obs.latest, seen |-> obs.seen,
                    completed |-> TRUE, events |-> obs.events \cup e.items]
  OBVIOUS
<1>3. PICK tokens : tokens = IF e.tokens # -1 THEN e.tokens ELSE Ledger!cumulative_turn_delta(o) OBVIOUS
<1>4. /\ usage' = usage
      /\ \/ obs' = Ledger!Left(o, e.turn) /\ records' = Ledger!Receipted(o, records, e.turn, tokens)
         \/ obs' = o /\ records' = records
  BY <1>2, <1>3 DEF Ledger!OnCompleted, Ledger!Keep, Ledger!None
<1>5. Ledger!NoObs.turn = -1 /\ -1 \notin Numbers BY DEF Ledger!NoObs, Ledger!None, Numbers
<1>6. /\ o.turn = e.turn /\ o.before = obs.before /\ o.latest = obs.latest /\ o.completed
      /\ o.events = obs.events \cup e.items
  BY <1>2
<1>7. ObservedTrue(o, b, ledgerServer.last) BY <1>1, <1>5, <1>6 DEF ObservedTrue
<1>8. e.kind \in Edges /\ e.kind # "usage" BY DEF Edges
<1>9. CASE obs' = o /\ records' = records BY <1>1, <1>4, <1>6, <1>7, <1>8, <1>9, TakenTrue
<1>10. CASE obs' = Ledger!Left(o, e.turn) /\ records' = Ledger!Receipted(o, records, e.turn, tokens)
  <2>1. obs' = Ledger!NoObs BY <1>6, <1>10 DEF Ledger!Left
  <2>2. ObservedTrue(obs', b, ledgerServer.last) BY <1>5, <2>1 DEF ObservedTrue
  <2>3. tokens \in Int /\ tokens <= own[e.turn]
    <3>1. o.turn # -1 BY <1>1, <1>5, <1>6
    <3>2. Ledger!cumulative_turn_delta(o) \in Int /\ Ledger!cumulative_turn_delta(o) <= own[o.turn]
      BY <1>1, <1>7, <3>1, DeltaTrue
    <3> QED BY <1>1, <1>3, <1>6, <3>2
  <2>4. o.events \subseteq {e.turn} BY <1>1, <1>5, <1>6, <1>7 DEF ObservedTrue
  <2>5. PICK t, old, new : t = e.turn /\ old = records /\ new = records' OBVIOUS
  <2>6. new = Ledger!Receipted(o, old, t, tokens) BY <1>10, <2>5
  <2>7. ReceiptsTrue(new, own) BY <1>1, <2>3, <2>4, <2>5, <2>6, ReceiptCounted
  <2>8. obs'.turn = -1 /\ ReceiptsTrue(records', own) BY <1>5, <2>1, <2>5, <2>7
  <2> QED BY <1>4, <1>8, <2>2, <2>8, TakenTrue
<1> QED BY <1>4, <1>9, <1>10

LEMMA CountReceives == ASSUME LedgerTyped, Counts, MaxLedgerTurns \in Nat, Ledger!Receive PROVE Counts'
<1>1. /\ ledgerStream # <<>> /\ ledgerStream' = Tail(ledgerStream)
      /\ UNCHANGED <<ledgerServer, own, ledgerBounds>>
  BY DEF Ledger!Receive, Ledger!ServerSame
<1>2. SUFFICES ASSUME ledgerBounds.losses = 0 PROVE \E b : CountingOn(b)
  BY <1>1 DEF Counts, CountingOn
<1>3. PICK b : Counting(b) BY <1>2, CountGiven DEF Counting
<1>4. PICK e : e = Head(ledgerStream) OBVIOUS
<1>5. Arriving(e) BY <1>1, <1>4 DEF Arriving
<1>6. \/ e.kind = "answer" /\ Ledger!OnAnswer(e)
      \/ e.kind = "started" /\ Ledger!OnStarted(e)
      \/ e.kind = "item" /\ Ledger!OnItem(e)
      \/ e.kind = "usage" /\ Ledger!OnUsage(e)
      \/ e.kind = "completed" /\ Ledger!OnCompleted(e)
      \/ e.kind = "settings" /\ Ledger!OnSettings(e)
      \/ e.kind = "deleted" /\ Ledger!OnDeleted
  BY <1>4 DEF Ledger!Receive
<1>7. e.kind = "answer" => e.turn \in Numbers
  <2>1. PICK R : ledgerStream \in Seq(R) BY DEF LedgerTyped
  <2>2. e = ledgerStream[1] /\ 1 \in DOMAIN ledgerStream
    <3>1. PICK s : s = ledgerStream OBVIOUS
    <3>2. s \in Seq(R) /\ s # <<>> BY <1>1, <2>1, <3>1
    <3>3. Head(s) = s[1] /\ 1 \in DOMAIN s BY <3>2, Drained
    <3> QED BY <1>4, <3>1, <3>3
  <2> QED BY <2>2 DEF LedgerTyped, Named
<1>8. CountingOn(b) BY <1>3, <1>5, <1>6, <1>7, CountedSmall, CountedStart, CountedUsage, CountedEnd
<1> QED BY <1>8

\* The wait for a usage ends.
LEMMA CountWaits == ASSUME LedgerTyped, Counts, MaxLedgerTurns \in Nat, Ledger!Wait PROVE Counts'
<1>1. /\ UNCHANGED <<ledgerServer, ledgerStream, own, usage, ledgerBounds>>
      /\ \E t \in timers :
           IF obs.completed /\ obs.turn = t
           THEN obs' = Ledger!NoObs /\ records' = Ledger!Receipted(obs, records, t, -1)
           ELSE obs' = obs /\ records' = records
  BY DEF Ledger!Wait, Ledger!Keep, Ledger!ServerSame, Ledger!None
<1>2. SUFFICES ASSUME ledgerBounds.losses = 0
               PROVE  \E b : CountTrue(ledgerStream, obs', usage, records', ledgerServer, own, b)
  BY <1>1 DEF Counts
<1>3. PICK b : CountTrue(ledgerStream, obs, usage, records, ledgerServer, own, b) BY <1>2, CountGiven
<1>4. CASE obs' = obs /\ records' = records BY <1>3, <1>4
<1>5. CASE obs.completed /\ obs' = Ledger!NoObs /\ records' = Ledger!Receipted(obs, records, obs.turn, -1)
  <2>1. /\ UsageCounted(ledgerServer, own, b) /\ ObservedTrue(obs, b, ledgerServer.last)
        /\ ReceiptsTrue(records, own) /\ records = [n \in Numbers |-> records[n]]
    BY <1>3 DEF CountTrue, LedgerTyped
  <2>2. Ledger!NoObs.turn = -1 /\ Ledger!NoObs.completed = FALSE /\ -1 \notin Numbers
    BY DEF Ledger!NoObs, Ledger!None, Numbers
  <2>3. obs.turn # -1 BY <1>5, <2>1, <2>2 DEF ObservedTrue
  <2>4. PICK t, tokens : t = obs.turn /\ tokens = -1 OBVIOUS
  <2>5. t \in Numbers /\ tokens \in Int /\ tokens <= own[t] /\ obs.events \subseteq {t}
    BY <2>1, <2>3, <2>4, DeltaTrue DEF ObservedTrue, Ledger!None
  <2>6. PICK old, new, o, p, s : old = records /\ new = records' /\ o = obs /\ p = obs' /\ s = ledgerStream OBVIOUS
  <2>7. new = Ledger!Receipted(o, old, t, tokens) BY <1>5, <2>4, <2>6
  <2>8. ReceiptsTrue(new, own) BY <2>1, <2>5, <2>6, <2>7, ReceiptCounted
  <2>9. p.turn = -1 /\ o.completed /\ ObservedTrue(p, b, ledgerServer.last) BY <1>5, <2>2, <2>6 DEF ObservedTrue
  <2>10. \A i, x : /\ Runs(s, o, i, x) => Runs(s, p, i, x)
                   /\ x \in Numbers /\ Follows(s, p, i, x) => Follows(s, o, i, x)
    BY <2>2, <2>9 DEF Runs, Follows
  <2>11. CountTrue(s, o, usage, old, ledgerServer, own, b) BY <1>3, <2>6
  <2>12. NextTrue(s, p, usage, ledgerServer) BY <2>10, <2>11 DEF CountTrue, NextTrue
  <2>13. \A i \in 1..Len(s) : NoticeTrue(s, p, usage, b, own, ledgerServer.last, i, s[i])
    BY <2>10, <2>11 DEF CountTrue, NoticeTrue
  <2>14. CountTrue(s, p, usage, new, ledgerServer, own, b) BY <2>8, <2>9, <2>11, <2>12, <2>13 DEF CountTrue
  <2> QED BY <2>6, <2>14
<1> QED BY <1>1, <1>4, <1>5

\* Throughout, whatever the notices lost.
LEMMA CountsAlways == Ledger!Spec => []Counts
<1>1. ASSUME Ledger!Init PROVE Counts
  <2>1. /\ ledgerServer = [turn |-> 0, last |-> 0, took |-> 0, reported |-> 0, settings |-> FirstModel]
        /\ own = [t \in Numbers |-> 0] /\ ledgerStream = <<>> /\ usage = -1 /\ obs = Ledger!NoObs
        /\ records = [t \in Numbers |-> Ledger!NoRecord]
    BY <1>1 DEF Ledger!Init, Ledger!Turns, Ledger!None, Numbers
  <2>2. PICK b : b = [t \in 1..(MaxLedgerTurns + 1) |-> 0] OBVIOUS
  <2>3. UsageCounted(ledgerServer, own, b)
    <3>1. /\ 0 \in 0..MaxLedgerTurns /\ 0 + 1 \in 1..(MaxLedgerTurns + 1)
          /\ \A t \in Numbers : t \in 1..(MaxLedgerTurns + 1) /\ t + 1 \in 1..(MaxLedgerTurns + 1)
      BY LedgerBound DEF Numbers
    <3>2. b[0 + 1] = 0 /\ \A t \in Numbers : b[t] = 0 /\ b[t + 1] = 0 BY <2>2, <3>1
    <3>3. own \in [Numbers -> Nat] /\ b \in [1..(MaxLedgerTurns + 1) -> Nat] /\ \A t \in Numbers : own[t] = 0
      BY <2>1, <2>2
    <3> QED BY <2>1, <3>1, <3>2, <3>3 DEF UsageCounted
  <2>4. Ledger!NoObs.turn = -1 /\ Len(ledgerStream) = 0 /\ -1 \notin Numbers
    BY <2>1 DEF Ledger!NoObs, Ledger!None, Numbers
  <2>5. ObservedTrue(obs, b, ledgerServer.last) BY <2>1, <2>4 DEF ObservedTrue
  <2>6. ReceiptsTrue(records, own)
    <3>1. Ledger!NoRecord.receipt = Ledger!NoReceipt BY DEF Ledger!NoRecord
    <3> QED BY <2>1, <3>1 DEF ReceiptsTrue
  <2>7. NextTrue(ledgerStream, obs, usage, ledgerServer)
    <3>1. (0 + 1) - 1 = 0 /\ 0 \in 0..0 /\ (\A k \in 0..0 : k = 0) /\ ~\E m \in 1..0 : TRUE OBVIOUS
    <3>2. LastOf(ledgerStream, 0 + 1, {"usage"}, 0) BY <3>1 DEF LastOf
    <3>3. Knows(ledgerStream, usage, 0 + 1, 0) BY <2>1, <3>1, <3>2 DEF Knows
    <3>4. \A t \in Numbers : ~Follows(ledgerStream, obs, 0 + 1, t) BY <2>1, <2>4, <3>1 DEF Follows
    <3> QED BY <2>1, <2>4, <3>3, <3>4 DEF NextTrue
  <2>8. CountTrue(ledgerStream, obs, usage, records, ledgerServer, own, b)
    <3>1. ~\E i \in 1..Len(ledgerStream) : TRUE BY <2>4
    <3> QED BY <2>1, <2>3, <2>5, <2>6, <2>7, <3>1 DEF CountTrue
  <2> QED BY <2>8 DEF Counts
<1>2. ASSUME LedgerTyped, Counts, [Ledger!Next]_Ledger!vars PROVE Counts'
  <2>1. CASE Ledger!TakeSend \/ Ledger!StartElsewhere BY <1>2, <2>1, LedgerBound, CountBegins
  <2>2. CASE \/ Ledger!Report \/ Ledger!Help \/ Ledger!EndTurn \/ Ledger!ChangeSettings \/ Ledger!DeleteTask
             \/ Ledger!update_task_settings_from_controls
    BY <1>2, <2>2, LedgerBound, CountTells
  <2>3. CASE Ledger!Call BY <1>2, <2>3, LedgerBound, CountCalls
  <2>4. CASE Ledger!Receive BY <1>2, <2>4, LedgerBound, CountReceives
  <2>5. CASE Ledger!Wait BY <1>2, <2>5, LedgerBound, CountWaits
  <2>6. CASE Ledger!Disconnect
    <3>1. ledgerBounds' = [picks |-> ledgerBounds.picks, losses |-> ledgerBounds.losses + 1]
      BY <1>2, <2>6 DEF Ledger!Disconnect, LedgerTyped
    <3>2. ledgerBounds'.losses # 0 BY <1>2, <3>1 DEF LedgerTyped
    <3> QED BY <3>2 DEF Counts
  <2>7. CASE Ledger!Connect
    <3>1. ledgerBounds.losses # 0 /\ ledgerBounds' = ledgerBounds BY <1>2, <2>7 DEF Ledger!Connect, LedgerTyped
    <3> QED BY <3>1 DEF Counts
  <2>8. CASE Ledger!start_turn \/ Ledger!set_active_task_subagents_enabled \/ UNCHANGED Ledger!vars
    <3>1. UNCHANGED <<ledgerServer, own, ledgerStream, obs, usage, records>>
      BY <2>8 DEF Ledger!start_turn, Ledger!set_active_task_subagents_enabled, Ledger!Pick, Ledger!WindowSame,
                  Ledger!ServerSame, Ledger!vars
    <3>2. ledgerBounds' = ledgerBounds \/ ledgerBounds' = [ledgerBounds EXCEPT !.picks = @ + 1]
      BY <2>8 DEF Ledger!start_turn, Ledger!set_active_task_subagents_enabled, Ledger!Pick, Ledger!WindowSame,
                  Ledger!vars
    <3>3. ledgerBounds'.losses = ledgerBounds.losses BY <1>2, <3>2 DEF LedgerTyped
    <3> QED BY <1>2, <3>1, <3>3 DEF Counts
  <2> QED BY <1>2, <2>1, <2>2, <2>3, <2>4, <2>5, <2>6, <2>7, <2>8 DEF Ledger!Next
<1>3. LedgerInv => LedgerTyped BY DEF LedgerInv
<1> QED BY <1>1, <1>2, <1>3, LedgerAlways, PTL DEF Ledger!Spec

---------------------------------------------------------------------------
(* The routes of the turns.                                                *)

\* A route that was chosen.
Chosen(r) == r = [model |-> r.model, automatic |-> r.automatic, qwen |-> r.qwen] /\ r.model # "none"

Unhelped(r) == [model |-> r.model, automatic |-> FALSE, qwen |-> FALSE]

\* A record has the route of its turn.
Routed(recs, answers, routes) ==
    \A t \in answers : recs[t].route \in {routes[t], Unhelped(routes[t])}

\* And what is on its way.
RoutesSaid(s, last, routes) ==
    \A i \in DOMAIN s : /\ s[i].kind = "settings" => s[i].model # "none"
                        /\ s[i].kind = "answer" => s[i].turn <= last /\ s[i].route = routes[s[i].turn]

RoutesTrue ==
    /\ ledgerAsked = [state |-> ledgerAsked.state, route |-> ledgerAsked.route]
    /\ ledgerAsked.state = "sent" => Chosen(ledgerAsked.route)
    /\ settings # "none" /\ ledgerServer.settings # "none"
    /\ RoutesSaid(ledgerStream, ledgerServer.last, sent)
    /\ DOMAIN sent = Numbers
    /\ \A t \in Numbers : t <= ledgerServer.last => Chosen(sent[t])
    /\ \A t \in seen.answers : t \in Numbers /\ t <= ledgerServer.last
    /\ Routed(records, seen.answers, sent)

LEMMA FirstChosen ==
    Chosen(Ledger!qwen_assist_route) /\ \A m : m # "none" => Chosen(Ledger!manual_route(m))
<1>1. Chosen(Ledger!qwen_assist_route) BY DEF Chosen, Ledger!qwen_assist_route, Ledger!Qwen
<1>2. \A m : m # "none" => Chosen(Ledger!manual_route(m)) BY DEF Chosen, Ledger!manual_route
<1> QED BY <1>1, <1>2

LEMMA RouteChosen ==
    ASSUME NEW r, Chosen(r)
    PROVE  Chosen(Unhelped(r)) /\ Unhelped(Unhelped(r)) = Unhelped(r) /\ r # Ledger!NoRoute
<1>1. PICK x : x = Unhelped(r) OBVIOUS
<1>2. x = [model |-> r.model, automatic |-> FALSE, qwen |-> FALSE] BY <1>1 DEF Unhelped
<1>3. x.model = r.model /\ x.automatic = FALSE /\ x.qwen = FALSE BY <1>2
<1>4. Chosen(x) /\ Unhelped(x) = x BY <1>2, <1>3 DEF Chosen, Unhelped
<1>5. Ledger!NoRoute.model = "none" /\ r.model # "none" BY DEF Ledger!NoRoute, Chosen
<1> QED BY <1>1, <1>4, <1>5

\* Helpers that are forbidden change nothing else.
LEMMA RouteForbidden == ASSUME NEW r, Chosen(r) PROVE Ledger!enforce_subagent_policy(r, FALSE) = Unhelped(r)
<1>1. PICK m, x, q : m = r.model /\ x = r.automatic /\ q = r.qwen OBVIOUS
<1>2. PICK o : o = r OBVIOUS
<1>3. PICK n : n = [o EXCEPT !.automatic = FALSE, !.qwen = FALSE] OBVIOUS
<1>4. o = [model |-> m, automatic |-> x, qwen |-> q] BY <1>1, <1>2 DEF Chosen
<1>5. n = [model |-> m, automatic |-> FALSE, qwen |-> FALSE] BY <1>3, <1>4
<1>6. Ledger!enforce_subagent_policy(o, FALSE) = n BY <1>3 DEF Ledger!enforce_subagent_policy
<1> QED BY <1>1, <1>2, <1>5, <1>6 DEF Unhelped

LEMMA RouteEnforced ==
    ASSUME NEW r, NEW allow, Chosen(r)
    PROVE  /\ Ledger!enforce_subagent_policy(r, allow) \in {r, Unhelped(r)}
           /\ Chosen(Ledger!enforce_subagent_policy(r, allow))
<1>1. PICK x : x = Ledger!enforce_subagent_policy(r, allow) OBVIOUS
<1>2. x \in {r, Ledger!enforce_subagent_policy(r, FALSE)} BY <1>1 DEF Ledger!enforce_subagent_policy
<1>3. Ledger!enforce_subagent_policy(r, FALSE) = Unhelped(r) BY RouteForbidden
<1>4. x \in {r, Unhelped(r)} BY <1>2, <1>3
<1>5. Chosen(x) BY <1>4, RouteChosen
<1> QED BY <1>1, <1>4, <1>5

\* The stream grows by what is true of the routes.
LEMMA RoutesGrow ==
    ASSUME LedgerTyped, NEW R, NEW e \in Seq(R), Ledger!Notify(e), NEW last, last \in Nat, NEW routes,
           ledgerServer.last <= last, RoutesSaid(ledgerStream, ledgerServer.last, sent),
           RoutesSaid(e, last, routes), \A t \in Numbers : t <= ledgerServer.last => routes[t] = sent[t]
    PROVE  RoutesSaid(ledgerStream', last, routes)
<1>1. ledgerServer.last \in Nat BY DEF LedgerTyped
<1>2. ASSUME NEW i \in DOMAIN ledgerStream
      PROVE  /\ ledgerStream[i].kind = "settings" => ledgerStream[i].model # "none"
             /\ ledgerStream[i].kind = "answer" =>
                  ledgerStream[i].turn <= last /\ ledgerStream[i].route = routes[ledgerStream[i].turn]
  <2>1. PICK a : a = ledgerStream[i] OBVIOUS
  <2>2. /\ a.kind = "settings" => a.model # "none"
        /\ a.kind = "answer" => a.turn <= ledgerServer.last /\ a.route = sent[a.turn] /\ a.turn \in Numbers
    BY <1>2, <2>1 DEF RoutesSaid, LedgerTyped, Named
  <2>3. a.kind = "answer" => a.turn <= last /\ a.route = routes[a.turn]
    <3>1. SUFFICES ASSUME a.kind = "answer" PROVE a.turn <= last /\ a.route = routes[a.turn] OBVIOUS
    <3>2. PICK t : t = a.turn OBVIOUS
    <3>3. t \in Nat /\ t <= ledgerServer.last /\ t \in Numbers BY <2>2, <3>1, <3>2 DEF Numbers
    <3>4. t <= last BY <1>1, <3>3
    <3> QED BY <2>2, <3>1, <3>2, <3>3, <3>4
  <2> QED BY <2>1, <2>2, <2>3
<1>3. CASE ledgerStream' = ledgerStream BY <1>2, <1>3 DEF RoutesSaid
<1>4. CASE ledgerStream' = ledgerStream \o e
  <2>1. PICK T : ledgerStream \in Seq(T) BY DEF LedgerTyped
  <2>2. PICK Q, s, r : Q = T \cup R /\ s = ledgerStream /\ r = ledgerStream' OBVIOUS
  <2>3. s \in Seq(Q) /\ e \in Seq(Q)
    <3>1. T \subseteq Q /\ R \subseteq Q BY <2>2
    <3> QED BY <2>1, <2>2, <3>1, SeqMonotonic
  <2>4. r = s \o e BY <1>4, <2>2
  <2>5. /\ \A i \in DOMAIN s : r[i] = s[i]
        /\ \A j \in DOMAIN e : r[Len(s) + j] = e[j]
        /\ \A i \in DOMAIN r : i \in DOMAIN s \/ \E j \in DOMAIN e : i = Len(s) + j
    <3>1. Grows(Q, r, s, e) BY <2>3, <2>4 DEF Grows
    <3> QED BY <3>1, Grown
  <2>6. \A i \in DOMAIN r : /\ r[i].kind = "settings" => r[i].model # "none"
                            /\ r[i].kind = "answer" => r[i].turn <= last /\ r[i].route = routes[r[i].turn]
    BY <1>2, <2>2, <2>5 DEF RoutesSaid
  <2> QED BY <2>2, <2>6 DEF RoutesSaid
<1> QED BY <1>3, <1>4 DEF Ledger!Notify


\* What is written down about a turn leaves the routes of the answered ones.
LEMMA RouteKept ==
    ASSUME NEW recs, recs = [n \in Numbers |-> recs[n]], NEW answers, answers \subseteq Numbers,
           Routed(recs, answers, sent), NEW t, NEW route, NEW got, NEW new,
           new = [recs EXCEPT ![t] = [route |-> route, receipt |-> got]],
           t \in answers => route \in {sent[t], Unhelped(sent[t])}
    PROVE  Routed(new, answers, sent) /\ new = [n \in Numbers |-> new[n]]
<1>1. DOMAIN recs = Numbers OBVIOUS
<1>2. /\ t \in Numbers => new[t] = [route |-> route, receipt |-> got]
      /\ new = [n \in Numbers |-> new[n]] /\ \A n \in Numbers : n # t => new[n] = recs[n]
  BY <1>1
<1>3. t \in Numbers => new[t].route = route BY <1>2
<1> QED BY <1>2, <1>3 DEF Routed

LEMMA RouteReceipted ==
    ASSUME NEW recs, recs = [n \in Numbers |-> recs[n]], NEW answers, answers \subseteq Numbers,
           \A n \in answers : Chosen(sent[n]), Routed(recs, answers, sent), NEW t, NEW o, NEW tokens, NEW new,
           new = Ledger!Receipted(o, recs, t, tokens)
    PROVE  Routed(new, answers, sent)
<1>1. PICK r : r = recs[t].route OBVIOUS
<1>2. PICK route : route = Ledger!enforce_subagent_policy(
                     IF recs[t].route # Ledger!NoRoute THEN recs[t].route ELSE Ledger!manual_route(settings),
                     routing.allow)
  OBVIOUS
<1>3. PICK got : got = [tokens |-> tokens, events |-> IF o.turn = t THEN o.events ELSE {}] OBVIOUS
<1>4. new = [recs EXCEPT ![t] = [route |-> route, receipt |-> got]] BY <1>2, <1>3 DEF Ledger!Receipted
<1>5. ASSUME t \in answers PROVE route \in {sent[t], Unhelped(sent[t])}
  <2>1. PICK q : q = sent[t] OBVIOUS
  <2>2. Chosen(q) /\ r \in {q, Unhelped(q)} BY <1>1, <1>5, <2>1 DEF Routed
  <2>3. Chosen(r) /\ Unhelped(r) = Unhelped(q) BY <2>2, RouteChosen
  <2>4. r # Ledger!NoRoute BY <2>3, RouteChosen
  <2>5. route = Ledger!enforce_subagent_policy(r, routing.allow) BY <1>1, <1>2, <2>4
  <2>6. route \in {r, Unhelped(r)} BY <2>3, <2>5, RouteEnforced
  <2> QED BY <2>1, <2>2, <2>3, <2>6
<1> QED BY <1>4, <1>5, RouteKept

\* What a step that leaves the server and the stream must keep.
LEMMA RoutesHold ==
    ASSUME RoutesTrue, UNCHANGED <<ledgerServer, sent>>, RoutesSaid(ledgerStream', ledgerServer.last, sent),
           \/ ledgerAsked' \in {ledgerAsked, Ledger!NotAsked}
           \/ \E route : ledgerAsked' = [state |-> "sent", route |-> route] /\ Chosen(route),
           settings' # "none", \A t \in seen'.answers : t \in Numbers /\ t <= ledgerServer.last,
           Routed(records', seen'.answers, sent)
    PROVE  RoutesTrue'
<1>1. /\ ledgerAsked' = [state |-> ledgerAsked'.state, route |-> ledgerAsked'.route]
      /\ ledgerAsked'.state = "sent" => Chosen(ledgerAsked'.route)
  <2>1. CASE ledgerAsked' = ledgerAsked BY <2>1 DEF RoutesTrue
  <2>2. CASE ledgerAsked' = Ledger!NotAsked BY <2>2 DEF Ledger!NotAsked
  <2>3. CASE \E route : ledgerAsked' = [state |-> "sent", route |-> route] /\ Chosen(route) BY <2>3
  <2> QED BY <2>1, <2>2, <2>3
<1> QED BY <1>1 DEF RoutesTrue

\* Notice by notice.
LEMMA RoutesReceive == ASSUME LedgerTyped, RoutesTrue, Ledger!Receive PROVE RoutesTrue'
<1>1. PICK e : e = Head(ledgerStream) OBVIOUS
<1>2. /\ ledgerStream # <<>> /\ ledgerStream' = Tail(ledgerStream) /\ UNCHANGED <<ledgerServer, sent>>
      /\ \/ e.kind = "answer" /\ Ledger!OnAnswer(e)
         \/ e.kind = "started" /\ Ledger!OnStarted(e)
         \/ e.kind = "item" /\ Ledger!OnItem(e)
         \/ e.kind = "usage" /\ Ledger!OnUsage(e)
         \/ e.kind = "completed" /\ Ledger!OnCompleted(e)
         \/ e.kind = "settings" /\ Ledger!OnSettings(e)
         \/ e.kind = "deleted" /\ Ledger!OnDeleted
  BY <1>1 DEF Ledger!Receive, Ledger!ServerSame
<1>3. /\ e = ledgerStream[1] /\ 1 \in DOMAIN ledgerStream
      /\ \A i \in DOMAIN ledgerStream' : i + 1 \in DOMAIN ledgerStream /\ ledgerStream'[i] = ledgerStream[i + 1]
  <2>1. PICK R, s : ledgerStream \in Seq(R) /\ s = ledgerStream BY DEF LedgerTyped
  <2>2. s \in Seq(R) /\ s # <<>> BY <1>2, <2>1
  <2>3. /\ Head(s) = s[1] /\ 1 \in DOMAIN s
        /\ \A i \in DOMAIN Tail(s) : i + 1 \in DOMAIN s /\ Tail(s)[i] = s[i + 1]
    BY <2>2, Drained
  <2> QED BY <1>1, <1>2, <2>1, <2>3
<1>4. RoutesSaid(ledgerStream', ledgerServer.last, sent) BY <1>3 DEF RoutesTrue, RoutesSaid
<1>5. /\ e.kind \in {"answer", "started", "completed"} => e.turn \in Numbers
      /\ e.kind = "settings" => e.model # "none"
      /\ e.kind = "answer" => e.turn <= ledgerServer.last /\ e.route = sent[e.turn]
  BY <1>3 DEF LedgerTyped, Named, RoutesTrue, RoutesSaid
<1>6. PICK answers, recs, new, o :
        answers = seen.answers /\ recs = records /\ new = records' /\ o = obs
  OBVIOUS
<1>7. /\ recs = [n \in Numbers |-> recs[n]] /\ answers \subseteq Numbers /\ (\A n \in answers : Chosen(sent[n]))
      /\ Routed(recs, answers, sent) /\ settings # "none" /\ (\A t \in answers : t \in Numbers /\ t <= ledgerServer.last)
      /\ seen = [answers |-> seen.answers, ends |-> seen.ends] /\ obs.turn \in Numbers \cup {-1}
  BY <1>6 DEF LedgerTyped, RoutesTrue
<1>8. CASE e.kind \in {"item", "settings"} /\ (Ledger!OnItem(e) \/ Ledger!OnSettings(e))
  <2>1. /\ records' = records /\ seen' = seen /\ ledgerAsked' = ledgerAsked
        /\ settings' = settings \/ (e.kind = "settings" /\ settings' = e.model)
    BY <1>2, <1>8 DEF Ledger!OnItem, Ledger!OnSettings, Ledger!Keep
  <2> QED BY <1>2, <1>4, <1>5, <1>6, <1>7, <2>1, RoutesHold
<1>9. CASE e.kind = "deleted" /\ Ledger!OnDeleted
  <2>1. seen'.answers = {} /\ ledgerAsked' = ledgerAsked /\ settings' = settings
    BY <1>9 DEF Ledger!OnDeleted
  <2>2. Routed(records', seen'.answers, sent) BY <2>1 DEF Routed
  <2> QED BY <1>2, <1>4, <1>7, <2>1, <2>2, RoutesHold
<1>10. CASE e.kind = "answer" /\ Ledger!OnAnswer(e)
  <2>1. PICK t, route : t = e.turn /\ route = e.route OBVIOUS
  <2>2. /\ new = Ledger!record_turn(recs, t, route) /\ ledgerAsked' = Ledger!NotAsked /\ settings' = settings
        /\ seen'.answers = answers \cup {t}
    BY <1>6, <1>7, <1>10, <2>1 DEF Ledger!OnAnswer, Ledger!Keep
  <2>3. t \in Numbers /\ t <= ledgerServer.last /\ route = sent[t] BY <1>5, <1>10, <2>1
  <2>4. PICK got : got = Ledger!NoReceipt OBVIOUS
  <2>5. new = [recs EXCEPT ![t] = [route |-> route, receipt |-> got]] /\ DOMAIN recs = Numbers
    BY <1>7, <2>2, <2>4 DEF Ledger!record_turn
  <2>6. Routed(new, answers, sent) BY <1>7, <2>3, <2>5, RouteKept
  <2>7. new[t].route = sent[t]
    <3>1. new[t] = [route |-> route, receipt |-> got] BY <2>3, <2>5
    <3> QED BY <2>3, <3>1
  <2>8. Routed(new, answers \cup {t}, sent) BY <2>6, <2>7 DEF Routed
  <2>9. \A n \in answers \cup {t} : n \in Numbers /\ n <= ledgerServer.last BY <1>7, <2>3
  <2> QED BY <1>2, <1>4, <1>6, <1>7, <2>2, <2>8, <2>9, RoutesHold
<1>11. CASE e.kind = "started" /\ Ledger!OnStarted(e)
  <2>1. PICK t : t = e.turn OBVIOUS
  <2>2. PICK known : known = IF recs[t].route # Ledger!NoRoute THEN recs
                             ELSE Ledger!record_turn(recs, t, Ledger!manual_route(settings))
    OBVIOUS
  <2>3. /\ new = IF o.completed THEN Ledger!Receipted(o, known, o.turn, -1) ELSE known
        /\ seen' = seen /\ ledgerAsked' = ledgerAsked /\ settings' = settings
    BY <1>6, <1>11, <2>1, <2>2 DEF Ledger!OnStarted, Ledger!Keep, Ledger!StaleReceipted, Ledger!None
  <2>4. Routed(known, answers, sent) /\ known = [n \in Numbers |-> known[n]]
    <3>1. CASE known = recs BY <1>7, <3>1
    <3>2. CASE recs[t].route = Ledger!NoRoute /\ known = Ledger!record_turn(recs, t, Ledger!manual_route(settings))
      <4>1. t \in Numbers BY <1>5, <1>11, <2>1
      <4>2. t \notin answers
        <5>1. SUFFICES ASSUME t \in answers PROVE FALSE OBVIOUS
        <5>2. PICK q, r : q = sent[t] /\ r = recs[t].route OBVIOUS
        <5>3. Chosen(q) /\ r \in {q, Unhelped(q)} BY <1>7, <5>1, <5>2 DEF Routed
        <5>4. Chosen(r) BY <5>3, RouteChosen
        <5>5. r # Ledger!NoRoute BY <5>4, RouteChosen
        <5> QED BY <3>2, <5>2, <5>5
      <4>3. PICK route : route = Ledger!manual_route(settings) OBVIOUS
      <4>4. PICK got : got = Ledger!NoReceipt OBVIOUS
      <4>5. known = [recs EXCEPT ![t] = [route |-> route, receipt |-> got]]
        BY <3>2, <4>3, <4>4 DEF Ledger!record_turn
      <4> QED BY <1>7, <4>2, <4>5, RouteKept
    <3> QED BY <2>2, <3>1, <3>2
  <2>5. Routed(new, answers, sent)
    <3>1. CASE ~o.completed BY <2>3, <2>4, <3>1
    <3>2. CASE o.completed
      <4>1. PICK n : n = o.turn OBVIOUS
      <4>2. new = Ledger!Receipted(o, known, n, -1) BY <2>3, <3>2, <4>1
      <4> QED BY <1>7, <2>4, <4>2, RouteReceipted
    <3> QED BY <3>1, <3>2
  <2> QED BY <1>2, <1>4, <1>6, <1>7, <2>3, <2>5, RoutesHold
<1>12. CASE e.kind = "usage" /\ Ledger!OnUsage(e)
  <2>1. /\ seen' = seen /\ ledgerAsked' = ledgerAsked /\ settings' = settings
        /\ new = recs \/ \E p, t, tokens : new = Ledger!Receipted(p, recs, t, tokens)
    BY <1>6, <1>12 DEF Ledger!OnUsage, Ledger!Keep
  <2>2. Routed(new, answers, sent)
    <3>1. CASE new = recs BY <1>7, <3>1
    <3>2. CASE \E p, t, tokens : new = Ledger!Receipted(p, recs, t, tokens)
      <4>1. PICK p, t, tokens : new = Ledger!Receipted(p, recs, t, tokens) BY <3>2
      <4> QED BY <1>7, <4>1, RouteReceipted
    <3> QED BY <2>1, <3>1, <3>2
  <2> QED BY <1>2, <1>4, <1>6, <1>7, <2>1, <2>2, RoutesHold
<1>13. CASE e.kind = "completed" /\ Ledger!OnCompleted(e)
  <2>1. /\ ledgerAsked' = ledgerAsked /\ settings' = settings /\ seen' = [seen EXCEPT !.ends = @ \cup {e.turn}]
        /\ new = recs \/ \E p, t, tokens : new = Ledger!Receipted(p, recs, t, tokens)
    BY <1>6, <1>13 DEF Ledger!OnCompleted, Ledger!Keep
  <2>2. Routed(new, answers, sent)
    <3>1. CASE new = recs BY <1>7, <3>1
    <3>2. CASE \E p, t, tokens : new = Ledger!Receipted(p, recs, t, tokens)
      <4>1. PICK p, t, tokens : new = Ledger!Receipted(p, recs, t, tokens) BY <3>2
      <4> QED BY <1>7, <4>1, RouteReceipted
    <3> QED BY <2>1, <3>1, <3>2
  <2>3. seen'.answers = answers BY <1>6, <1>7, <2>1
  <2> QED BY <1>2, <1>4, <1>6, <1>7, <2>1, <2>2, <2>3, RoutesHold
<1> QED BY <1>2, <1>8, <1>9, <1>10, <1>11, <1>12, <1>13

\* A turn starts on its route.
LEMMA RoutesBegin ==
    ASSUME LedgerTyped, RoutesTrue, MaxLedgerTurns \in Nat, Ledger!TakeSend \/ Ledger!StartElsewhere
    PROVE  RoutesTrue'
<1>1. PICK route : \/ Ledger!TakeSend /\ route = ledgerAsked.route
                   \/ Ledger!StartElsewhere /\ route = Ledger!manual_route(ledgerServer.settings)
  OBVIOUS
<1>2. Chosen(route)
  <2>1. CASE Ledger!TakeSend /\ route = ledgerAsked.route BY <2>1 DEF RoutesTrue, Ledger!TakeSend
  <2>2. CASE Ledger!StartElsewhere /\ route = Ledger!manual_route(ledgerServer.settings)
    <3>1. PICK m : m = ledgerServer.settings OBVIOUS
    <3>2. m # "none" BY <3>1 DEF RoutesTrue
    <3> QED BY <2>2, <3>1, <3>2, FirstChosen
  <2> QED BY <1>1, <2>1, <2>2
<1>3. PICK t, n, routes : t = ledgerServer.last + 1 /\ n = ledgerServer.last /\ routes = sent' OBVIOUS
<1>4. /\ Ledger!Begin(route)
      /\ UNCHANGED <<settings, records, seen>>
      /\ ledgerAsked' = ledgerAsked \/ ledgerAsked' = [ledgerAsked EXCEPT !.state = "taken"]
      /\ \/ Ledger!Notify(<<[kind |-> "answer", turn |-> t, route |-> route], [kind |-> "started", turn |-> t]>>)
         \/ Ledger!Notify(<<[kind |-> "started", turn |-> t], [kind |-> "answer", turn |-> t, route |-> route]>>)
         \/ Ledger!Notify(<<[kind |-> "started", turn |-> t]>>)
  BY <1>1, <1>3 DEF Ledger!TakeSend, Ledger!StartElsewhere, Ledger!WindowSame
<1>5. /\ n \in Nat /\ t \in Nat /\ t = n + 1 /\ t \in Numbers /\ ledgerServer'.last = t
      /\ ledgerServer'.settings = ledgerServer.settings
      /\ routes = [sent EXCEPT ![t] = route]
  <2>1. ledgerServer.last \in 0..MaxLedgerTurns /\ ledgerServer.last < MaxLedgerTurns
    BY <1>4 DEF LedgerTyped, Ledger!Begin
  <2> QED BY <1>3, <1>4, <2>1 DEF Ledger!Begin, Numbers
<1>6. DOMAIN routes = Numbers /\ routes[t] = route /\ \A i \in Numbers : i # t => routes[i] = sent[i]
  BY <1>5 DEF RoutesTrue
<1>7. \A i \in Numbers : i <= n => routes[i] = sent[i] BY <1>5, <1>6
<1>8. \A i \in Numbers : i <= t => Chosen(routes[i])
  <2>1. \A i \in Numbers : i <= t => i = t \/ i <= n BY <1>5 DEF Numbers
  <2> QED BY <1>2, <1>3, <1>6, <1>7, <2>1 DEF RoutesTrue
<1>9. RoutesSaid(ledgerStream', t, routes)
  <2>1. PICK answer, start : /\ answer = [kind |-> "answer", turn |-> t, route |-> route]
                             /\ start = [kind |-> "started", turn |-> t]
    OBVIOUS
  <2>2. PICK e : /\ e \in {<<answer, start>>, <<start, answer>>, <<start>>} /\ Ledger!Notify(e)
    BY <1>4, <2>1
  <2>3. e \in Seq({answer, start}) /\ \A i \in DOMAIN e : e[i] \in {answer, start}
    <3>1. e = <<answer, start>> => e \in Seq({answer, start}) /\ \A i \in DOMAIN e : e[i] \in {answer, start} OBVIOUS
    <3>2. e = <<start, answer>> => e \in Seq({answer, start}) /\ \A i \in DOMAIN e : e[i] \in {answer, start} OBVIOUS
    <3>3. e = <<start>> => e \in Seq({answer, start}) /\ \A i \in DOMAIN e : e[i] \in {answer, start} OBVIOUS
    <3> QED BY <2>2, <3>1, <3>2, <3>3
  <2>4. answer.kind = "answer" /\ answer.turn = t /\ answer.route = route /\ start.kind = "started" BY <2>1
  <2>5. RoutesSaid(e, t, routes) BY <1>5, <1>6, <2>3, <2>4 DEF RoutesSaid
  <2>6. RoutesSaid(ledgerStream, ledgerServer.last, sent) BY DEF RoutesTrue
  <2>7. ledgerServer.last <= t BY <1>3, <1>5
  <2> QED BY <1>3, <1>5, <1>7, <2>2, <2>3, <2>5, <2>6, <2>7, RoutesGrow
<1>10. /\ ledgerAsked' = [state |-> ledgerAsked'.state, route |-> ledgerAsked'.route]
       /\ ledgerAsked'.state = "sent" => Chosen(ledgerAsked'.route)
  <2>1. CASE ledgerAsked' = ledgerAsked BY <2>1 DEF RoutesTrue
  <2>2. CASE ledgerAsked' = [ledgerAsked EXCEPT !.state = "taken"]
    <3>1. ledgerAsked = [state |-> ledgerAsked.state, route |-> ledgerAsked.route] BY DEF RoutesTrue
    <3>2. ledgerAsked' = [state |-> "taken", route |-> ledgerAsked.route] BY <2>2, <3>1
    <3> QED BY <3>2
  <2> QED BY <1>4, <2>1, <2>2
<1>11. PICK answers, recs : answers = seen.answers /\ recs = records OBVIOUS
<1>12. /\ seen'.answers = answers /\ records' = recs /\ \A i \in answers : i \in Numbers /\ i <= n
       /\ Routed(recs, answers, sent)
  BY <1>3, <1>4, <1>11 DEF RoutesTrue
<1>13. Routed(recs, answers, routes) BY <1>7, <1>12 DEF Routed
<1>14. \A i \in answers : i \in Numbers /\ i <= t BY <1>5, <1>12 DEF Numbers
<1>15. settings' # "none" /\ ledgerServer'.settings # "none" BY <1>4, <1>5 DEF RoutesTrue
<1> QED BY <1>3, <1>5, <1>6, <1>8, <1>9, <1>10, <1>12, <1>13, <1>14, <1>15 DEF RoutesTrue

\* Anything else the server says.
LEMMA RoutesTold ==
    ASSUME LedgerTyped, RoutesTrue, UNCHANGED <<sent, ledgerAsked, records, seen>>, NEW a, Ledger!Notify(<<a>>),
           a.kind # "answer", a.kind = "settings" => a.model # "none", settings' # "none",
           ledgerServer'.last = ledgerServer.last, ledgerServer'.settings # "none"
    PROVE  RoutesTrue'
<1>1. PICK e, routes : e = <<a>> /\ routes = sent OBVIOUS
<1>2. e \in Seq({a}) /\ \A i \in DOMAIN e : e[i] = a BY <1>1
<1>3. ledgerServer.last \in Nat BY DEF LedgerTyped
<1>4. RoutesSaid(e, ledgerServer.last, routes) BY <1>2 DEF RoutesSaid
<1>5. RoutesSaid(ledgerStream', ledgerServer.last, routes)
  <2>1. RoutesSaid(ledgerStream, ledgerServer.last, sent) /\ ledgerServer.last <= ledgerServer.last
    BY <1>3 DEF RoutesTrue
  <2> QED BY <1>1, <1>2, <1>3, <1>4, <2>1, RoutesGrow
<1> QED BY <1>1, <1>5 DEF RoutesTrue

LEMMA RoutesTells ==
    ASSUME LedgerTyped, RoutesTrue, "none" \notin Models \cup {FirstModel},
           \/ Ledger!Report \/ Ledger!Help \/ Ledger!EndTurn \/ Ledger!ChangeSettings \/ Ledger!DeleteTask
           \/ Ledger!update_task_settings_from_controls
    PROVE  RoutesTrue'
<1>1. UNCHANGED <<sent, ledgerAsked, records, seen>>
  BY DEF Ledger!Report, Ledger!Help, Ledger!EndTurn, Ledger!ChangeSettings, Ledger!DeleteTask,
         Ledger!update_task_settings_from_controls, Ledger!Pick, Ledger!WindowSame
<1>2. /\ settings # "none" /\ ledgerServer.settings # "none"
      /\ ledgerServer = [turn |-> ledgerServer.turn, last |-> ledgerServer.last, took |-> ledgerServer.took,
                         reported |-> ledgerServer.reported, settings |-> ledgerServer.settings]
  BY DEF RoutesTrue, LedgerTyped
<1>3. CASE Ledger!Report \/ Ledger!Help \/ Ledger!EndTurn \/ Ledger!DeleteTask
  <2>1. PICK a : Ledger!Notify(<<a>>) /\ a.kind \in {"usage", "item", "completed", "deleted"}
    <3>1. CASE Ledger!Report
      <4>1. PICK a : a = [kind |-> "usage", total |-> ledgerServer.took] OBVIOUS
      <4> QED BY <3>1, <4>1 DEF Ledger!Report
    <3>2. CASE Ledger!Help
      <4>1. PICK a : a = [kind |-> "item", turn |-> ledgerServer.turn] OBVIOUS
      <4> QED BY <3>2, <4>1 DEF Ledger!Help
    <3>3. CASE Ledger!EndTurn
      <4>1. PICK direct \in BOOLEAN, items \in {{}, {ledgerServer.turn}} :
              Ledger!Notify(<<[kind |-> "completed", turn |-> ledgerServer.turn, items |-> items,
                               tokens |-> IF direct THEN own[ledgerServer.turn] ELSE Ledger!None]>>)
        BY <3>3 DEF Ledger!EndTurn
      <4>2. PICK a : a = [kind |-> "completed", turn |-> ledgerServer.turn, items |-> items,
                          tokens |-> IF direct THEN own[ledgerServer.turn] ELSE Ledger!None]
        OBVIOUS
      <4> QED BY <4>1, <4>2
    <3>4. CASE Ledger!DeleteTask
      <4>1. PICK a : a = [kind |-> "deleted"] OBVIOUS
      <4> QED BY <3>4, <4>1 DEF Ledger!DeleteTask
    <3> QED BY <1>3, <3>1, <3>2, <3>3, <3>4
  <2>2. /\ settings' = settings /\ ledgerServer'.last = ledgerServer.last
        /\ ledgerServer'.settings = ledgerServer.settings
    BY <1>2, <1>3 DEF Ledger!Report, Ledger!Help, Ledger!EndTurn, Ledger!DeleteTask, Ledger!WindowSame
  <2> QED BY <1>1, <1>2, <2>1, <2>2, RoutesTold
<1>4. CASE Ledger!ChangeSettings \/ Ledger!update_task_settings_from_controls
  <2>1. PICK m \in Models \cup {FirstModel} :
          /\ Ledger!Notify(<<[kind |-> "settings", model |-> m]>>) /\ settings' \in {settings, m}
          /\ ledgerServer' = ledgerServer \/ ledgerServer' = [ledgerServer EXCEPT !.settings = m]
    <3>1. CASE Ledger!ChangeSettings BY <3>1 DEF Ledger!ChangeSettings
    <3>2. CASE Ledger!update_task_settings_from_controls
      <4>1. PICK k \in Models \cup {Ledger!Qwen} :
              LET model == IF k = Ledger!Qwen THEN FirstModel ELSE k IN
                /\ Ledger!Notify(<<[kind |-> "settings", model |-> model]>>) /\ settings' = model
                /\ ledgerServer' = IF wired THEN [ledgerServer EXCEPT !.settings = model] ELSE ledgerServer
        BY <3>2 DEF Ledger!update_task_settings_from_controls, Ledger!Pick
      <4>2. PICK m : m = IF k = Ledger!Qwen THEN FirstModel ELSE k OBVIOUS
      <4>3. m \in Models \cup {FirstModel} BY <4>2
      <4> QED BY <4>1, <4>2, <4>3
    <3> QED BY <1>4, <3>1, <3>2
  <2>2. PICK a : a = [kind |-> "settings", model |-> m] OBVIOUS
  <2>3. a.kind = "settings" /\ a.model = m /\ m # "none" /\ Ledger!Notify(<<a>>) BY <2>1, <2>2
  <2>4. ledgerServer'.last = ledgerServer.last /\ ledgerServer'.settings \in {ledgerServer.settings, m}
    BY <1>2, <2>1
  <2> QED BY <1>1, <1>2, <2>1, <2>3, <2>4, RoutesTold
<1> QED BY <1>3, <1>4

\* The routes that the window has of the turns are those they were sent on.
LEMMA RoutesAlways == ASSUME "none" \notin Models \cup {FirstModel} PROVE Ledger!Spec => []RoutesTrue
<1>1. ASSUME Ledger!Init PROVE RoutesTrue
  <2>1. /\ ledgerAsked = Ledger!NotAsked /\ settings = FirstModel /\ ledgerStream = <<>>
        /\ ledgerServer = [turn |-> 0, last |-> 0, took |-> 0, reported |-> 0, settings |-> FirstModel]
        /\ sent = [t \in Numbers |-> Ledger!NoRoute] /\ seen = [answers |-> {}, ends |-> {}]
    BY <1>1 DEF Ledger!Init, Ledger!Turns, Numbers
  <2>2. RoutesSaid(ledgerStream, ledgerServer.last, sent) BY <2>1 DEF RoutesSaid
  <2>3. Routed(records, seen.answers, sent) /\ \A t \in seen.answers : FALSE BY <2>1 DEF Routed
  <2>4. ledgerServer.last = 0 /\ (\A t \in Numbers : ~(t <= 0)) BY <2>1 DEF Numbers
  <2>5. FirstModel # "none" OBVIOUS
  <2> QED BY <2>1, <2>2, <2>3, <2>4, <2>5 DEF RoutesTrue, Ledger!NotAsked
<1>2. ASSUME LedgerTyped, RoutesTrue, [Ledger!Next]_Ledger!vars PROVE RoutesTrue'
  <2>1. CASE Ledger!TakeSend \/ Ledger!StartElsewhere BY <1>2, <2>1, LedgerBound, RoutesBegin
  <2>2. CASE \/ Ledger!Report \/ Ledger!Help \/ Ledger!EndTurn \/ Ledger!ChangeSettings \/ Ledger!DeleteTask
             \/ Ledger!update_task_settings_from_controls
    BY <1>2, <2>2, RoutesTells
  <2>3. CASE Ledger!Receive BY <1>2, <2>3, RoutesReceive
  <2>4. /\ RoutesSaid(ledgerStream, ledgerServer.last, sent) /\ settings # "none"
        /\ \A t \in seen.answers : t \in Numbers /\ t <= ledgerServer.last
        /\ Routed(records, seen.answers, sent)
    BY <1>2 DEF RoutesTrue
  <2>5. CASE Ledger!start_turn
    <3>1. UNCHANGED <<ledgerServer, sent, ledgerStream, settings, seen, records>>
      BY <2>5 DEF Ledger!start_turn, Ledger!ServerSame, Ledger!WindowSame
    <3>2. PICK route : route = Ledger!start_turn_route OBVIOUS
    <3>3. ledgerAsked' = [state |-> "sent", route |-> route] BY <2>5, <3>2 DEF Ledger!start_turn
    <3>4. Chosen(route)
      <4>1. PICK q : q = IF routing.allow /\ routing.qwen THEN Ledger!qwen_assist_route
                         ELSE Ledger!manual_route(settings)
        OBVIOUS
      <4>2. Chosen(q) BY <2>4, <4>1, FirstChosen
      <4>3. route = Ledger!enforce_subagent_policy(q, routing.allow) BY <3>2, <4>1 DEF Ledger!start_turn_route
      <4> QED BY <4>2, <4>3, RouteEnforced
    <3> QED BY <1>2, <2>4, <3>1, <3>3, <3>4, RoutesHold
  <2>6. CASE Ledger!Wait
    <3>1. UNCHANGED <<ledgerServer, sent, ledgerStream, settings, seen, ledgerAsked>>
      BY <2>6 DEF Ledger!Wait, Ledger!ServerSame
    <3>2. PICK answers, recs, new : answers = seen.answers /\ recs = records /\ new = records' OBVIOUS
    <3>3. new = recs \/ \E t, o, tokens : new = Ledger!Receipted(o, recs, t, tokens)
      BY <2>6, <3>2 DEF Ledger!Wait, Ledger!Keep
    <3>4. Routed(new, answers, sent)
      <4>1. CASE new = recs BY <2>4, <3>2, <4>1
      <4>2. CASE \E t, o, tokens : new = Ledger!Receipted(o, recs, t, tokens)
        <5>1. PICK t, o, tokens : new = Ledger!Receipted(o, recs, t, tokens) BY <4>2
        <5>2. /\ recs = [n \in Numbers |-> recs[n]] /\ answers \subseteq Numbers
              /\ (\A n \in answers : Chosen(sent[n])) /\ Routed(recs, answers, sent)
          BY <1>2, <3>2 DEF LedgerTyped, RoutesTrue
        <5> QED BY <5>1, <5>2, RouteReceipted
      <4> QED BY <3>3, <4>1, <4>2
    <3> QED BY <1>2, <2>4, <3>1, <3>2, <3>4, RoutesHold
  <2>7. CASE Ledger!Disconnect
    <3>1. /\ UNCHANGED <<ledgerServer, sent, settings, seen, records>>
          /\ ledgerStream' = <<>> /\ ledgerAsked' = Ledger!NotAsked
      BY <2>7 DEF Ledger!Disconnect, Ledger!ServerSame
    <3>2. RoutesSaid(ledgerStream', ledgerServer.last, sent) BY <3>1 DEF RoutesSaid
    <3> QED BY <1>2, <2>4, <3>1, <3>2, RoutesHold
  <2>8. CASE Ledger!Call
    <3>1. /\ UNCHANGED <<sent, ledgerStream, settings, seen, records, ledgerAsked>>
          /\ ledgerServer' = [ledgerServer EXCEPT !.took = @ + 1]
      BY <2>8 DEF Ledger!Call, Ledger!WindowSame
    <3>2. ledgerServer'.last = ledgerServer.last /\ ledgerServer'.settings = ledgerServer.settings
      BY <1>2, <3>1 DEF LedgerTyped
    <3> QED BY <1>2, <3>1, <3>2 DEF RoutesTrue
  <2>9. CASE Ledger!Connect \/ Ledger!set_active_task_subagents_enabled \/ UNCHANGED Ledger!vars
    <3>1. UNCHANGED <<ledgerServer, sent, ledgerStream, settings, seen, records, ledgerAsked>>
      BY <2>9 DEF Ledger!Connect, Ledger!set_active_task_subagents_enabled, Ledger!Pick, Ledger!ServerSame,
                  Ledger!vars
    <3> QED BY <1>2, <3>1 DEF RoutesTrue
  <2> QED BY <1>2, <2>1, <2>2, <2>3, <2>5, <2>6, <2>7, <2>8, <2>9 DEF Ledger!Next
<1>3. LedgerInv => LedgerTyped BY DEF LedgerInv
<1> QED BY <1>1, <1>2, <1>3, LedgerAlways, PTL DEF Ledger!Spec

\* A turn's record names its route, and its receipt counts, while no
\* connection is lost, no tokens and no helper of another turn
\* (store_token_savings_receipt).
THEOREM LedgerKept == Ledger!Spec => []LedgerTrue
<1>1. ASSUME LedgerTyped, Counts, RoutesTrue PROVE LedgerTrue
  <2>1. ASSUME NEW t \in seen.answers
        PROVE  records[t].route \in {sent[t], Ledger!enforce_subagent_policy(sent[t], FALSE)}
    <3>1. PICK q : q = sent[t] OBVIOUS
    <3>2. Chosen(q) /\ records[t].route \in {q, Unhelped(q)} BY <1>1, <2>1, <3>1 DEF RoutesTrue, Routed
    <3>3. Ledger!enforce_subagent_policy(q, FALSE) = Unhelped(q) BY <3>2, RouteForbidden
    <3> QED BY <3>1, <3>2, <3>3
  <2>2. ASSUME ledgerBounds.losses = 0, NEW t \in Numbers
        PROVE  \/ records[t].receipt = Ledger!NoReceipt
               \/ records[t].receipt.tokens <= own[t] /\ records[t].receipt.events \subseteq {t}
    BY <1>1, <2>2 DEF Counts, CountTrue, ReceiptsTrue
  <2> QED BY <2>1, <2>2 DEF LedgerTrue, Ledger!LedgerTrue, Ledger!Turns, Numbers
<1>2. LedgerInv => LedgerTyped BY DEF LedgerInv
<1> QED BY <1>1, <1>2, LedgerAlways, CountsAlways, RoutesAlways, ModelAssumption, PTL

---------------------------------------------------------------------------
(* The extensions page.                                                    *)

PluginLists == {"plugins", "plugins-local"}
Reloads == {"reload", "marketplace"}
Settings == {"change", "config"}
Kinds == PluginLists \cup Reloads \cup Settings \cup {"apps", "app"}

Requests == {r \in [kind : Kinds, to : {"not listed", "available", "disabled", "enabled", "on", "off"}] :
               /\ r.kind = "app" => r.to \in {"on", "off"}
               /\ r.kind = "change" => r.to \in {"available", "disabled", "enabled"}}

\* An answer that says an app's state says "on" or "off".
Answers == {a \in [kind : Kinds, ok : BOOLEAN,
                   says : {"not listed", "available", "disabled", "enabled", "on", "off"}] :
              a.ok /\ a.kind \in {"app", "apps"} => a.says \in {"on", "off"}}

PageTyped ==
    /\ plugin \in {"available", "disabled", "enabled"} /\ app \in {"on", "off"}
    /\ pageSent \in Seq(Requests) /\ pageAnswers \in Seq(Answers)
    /\ opened \in BOOLEAN /\ installedOnly \in BOOLEAN /\ loading \in BOOLEAN
    /\ catalog \in [full : BOOLEAN, plugin : {"not listed", "available", "disabled", "enabled", "on", "off"}]
    /\ appShown \in {"not listed", "on", "off"} /\ loaded = catalog.full
    /\ ~opened => pageSent = <<>> /\ pageAnswers = <<>>

\* What will list the plugin anew is to come after place i of the answers: a
\* listing, or what is followed by a reload, whose answer lists it.
PluginDue(i) ==
    \/ \E j \in DOMAIN pageAnswers :
         /\ j > i
         /\ \/ pageAnswers[j].kind \in PluginLists \cup Reloads
            \/ pageAnswers[j].ok /\ pageAnswers[j].kind \in Settings
    \/ \E j \in DOMAIN pageSent : pageSent[j].kind \in PluginLists \cup Reloads

AppDue(i) ==
    \/ \E j \in DOMAIN pageAnswers :
         /\ j > i
         /\ \/ pageAnswers[j].kind \in {"apps"} \cup Reloads
            \/ pageAnswers[j].ok /\ pageAnswers[j].kind \in {"app"} \cup Settings
    \/ \E j \in DOMAIN pageSent : pageSent[j].kind \in {"apps"} \cup Reloads

\* A listing of one of these kinds is on its way.
Listing(kinds) ==
    \/ \E j \in DOMAIN pageAnswers : pageAnswers[j].kind \in kinds
    \/ \E j \in DOMAIN pageSent : pageSent[j].kind \in kinds

\* What is shown is so, or was cut short, or will be listed anew.
ShownTrue ==
    opened =>
      /\ catalog.plugin = plugin \/ "plugin" \in cut \/ PluginDue(0)
      /\ appShown = app \/ "app" \in cut \/ AppDue(0)
      /\ installedOnly \/ catalog.full \/ "plugin" \in cut \/ Listing(PluginLists)

\* So is what an answer on its way says.
AnswersTrue ==
    \A i \in DOMAIN pageAnswers :
      /\ pageAnswers[i].ok /\ pageAnswers[i].kind \in PluginLists =>
           pageAnswers[i].says = plugin \/ PluginDue(i)
      /\ pageAnswers[i].ok /\ pageAnswers[i].kind \in {"app", "apps"} =>
           pageAnswers[i].says = app \/ AppDue(i)

\* The full catalog is waited for only while it is on its way, and only an app
\* that is shown is switched.
Waiting ==
    /\ loading => Listing({"plugins"}) \/ "plugin" \in cut
    /\ Listing({"app"}) => appShown # "not listed"

PageInv == PageTyped /\ ShownTrue /\ AnswersTrue /\ Waiting

LEMMA OneRequest ==
    ASSUME NEW a \in Requests, NEW e, e = <<a>>
    PROVE  /\ e \in Seq(Requests) /\ DOMAIN e = {1} /\ Len(e) = 1 /\ e[1] = a
           /\ \A j \in DOMAIN e : e[j] = a /\ e[j].kind = a.kind
           /\ \E j \in DOMAIN e : e[j] = a /\ e[j].kind = a.kind
<1>1. e \in Seq(Requests) /\ DOMAIN e = {1} /\ Len(e) = 1 /\ e[1] = a OBVIOUS
<1> QED BY <1>1

\* e is the two requests a and b.
Pair(e, a, b) ==
    /\ e = <<a>> \o <<b>> /\ \A j \in DOMAIN e : e[j].kind \in {a.kind, b.kind}
    /\ \E j \in DOMAIN e : e[j].kind = a.kind
    /\ \E j \in DOMAIN e : e[j].kind = b.kind

LEMMA TwoRequests ==
    ASSUME NEW a \in Requests, NEW b \in Requests
    PROVE  \E e \in Seq(Requests) : Pair(e, a, b)
<1>1. PICK s, u : s = <<a>> /\ u = <<b>> OBVIOUS
<1>2. /\ s \in Seq(Requests) /\ DOMAIN s = {1} /\ s[1] = a
      /\ u \in Seq(Requests) /\ DOMAIN u = {1} /\ u[1] = b
  BY <1>1, OneRequest
<1>3. PICK e : e = s \o u OBVIOUS
<1>4. Grows(Requests, e, s, u) BY <1>2, <1>3 DEF Grows
<1>5. /\ e \in Seq(Requests)
      /\ \A i \in DOMAIN s : i \in DOMAIN e /\ e[i] = s[i]
      /\ \A j \in DOMAIN u : Len(s) + j \in DOMAIN e /\ e[Len(s) + j] = u[j]
      /\ \A i \in DOMAIN e : i \in DOMAIN s \/ \E j \in DOMAIN u : i = Len(s) + j
  BY <1>4, Grown
<1>6. /\ 1 \in DOMAIN e /\ e[1] = a /\ Len(s) + 1 \in DOMAIN e /\ e[Len(s) + 1] = b
      /\ \A i \in DOMAIN e : e[i] = a \/ e[i] = b
  BY <1>2, <1>5
<1>7. /\ \A j \in DOMAIN e : e[j].kind \in {a.kind, b.kind}
      /\ \E j \in DOMAIN e : e[j].kind = a.kind
      /\ \E j \in DOMAIN e : e[j].kind = b.kind
  BY <1>6
<1>8. e = <<a>> \o <<b>> BY <1>1, <1>3
<1>9. Pair(e, a, b) BY <1>7, <1>8 DEF Pair
<1> QED BY <1>5, <1>9

\* More is asked.
LEMMA MoreAsked ==
    ASSUME PageInv, NEW e \in Seq(Requests), pageSent' = pageSent \o e, pageAnswers' = pageAnswers
    PROVE  /\ pageSent' \in Seq(Requests)
           /\ \A i : PluginDue(i) => PluginDue(i)'
           /\ \A i : AppDue(i) => AppDue(i)'
           /\ \A k : Listing(k) => Listing(k)'
           /\ \A j \in DOMAIN e : e[j].kind \in PluginLists \cup Reloads => \A i : PluginDue(i)'
           /\ \A j \in DOMAIN e : e[j].kind \in {"apps"} \cup Reloads => \A i : AppDue(i)'
           /\ \A j \in DOMAIN e : \A k : e[j].kind \in k => Listing(k)'
           /\ \A k : Listing(k)' => Listing(k) \/ \E j \in DOMAIN e : e[j].kind \in k
<1>1. pageSent \in Seq(Requests) BY DEF PageInv, PageTyped
<1>2. PICK s : s = pageSent \o e OBVIOUS
<1>3. /\ s \in Seq(Requests) /\ Len(pageSent) \in Nat
      /\ \A i \in DOMAIN pageSent : i \in DOMAIN s /\ s[i] = pageSent[i]
      /\ \A j \in DOMAIN e : Len(pageSent) + j \in DOMAIN s /\ s[Len(pageSent) + j] = e[j]
      /\ \A i \in DOMAIN s : i \in DOMAIN pageSent \/ \E j \in DOMAIN e : i = Len(pageSent) + j
  <2>1. Grows(Requests, s, pageSent, e) BY <1>1, <1>2 DEF Grows
  <2> QED BY <2>1, Grown
<1>4. pageSent' = s BY <1>2
<1>5. \A j \in DOMAIN e : \E i \in DOMAIN s : s[i] = e[j] BY <1>3
<1>6. \A i \in DOMAIN pageSent : i \in DOMAIN pageSent' /\ pageSent'[i] = pageSent[i] BY <1>3, <1>4
<1>7. \A i : (PluginDue(i) => PluginDue(i)') /\ (AppDue(i) => AppDue(i)') BY <1>6 DEF PluginDue, AppDue
<1>8. \A k : Listing(k) => Listing(k)' BY <1>6 DEF Listing
<1>9. ASSUME NEW j \in DOMAIN e
      PROVE  /\ e[j].kind \in PluginLists \cup Reloads => \A i : PluginDue(i)'
             /\ e[j].kind \in {"apps"} \cup Reloads => \A i : AppDue(i)'
             /\ \A k : e[j].kind \in k => Listing(k)'
  BY <1>4, <1>5 DEF PluginDue, AppDue, Listing
<1>10. ASSUME NEW k, Listing(k)' PROVE Listing(k) \/ \E j \in DOMAIN e : e[j].kind \in k
  <2>1. CASE \E j \in DOMAIN pageAnswers : pageAnswers[j].kind \in k BY <2>1 DEF Listing
  <2>2. CASE \E j \in DOMAIN s : s[j].kind \in k
    <3>1. PICK i \in DOMAIN s : s[i].kind \in k BY <2>2
    <3>2. CASE i \in DOMAIN pageSent BY <1>3, <3>1, <3>2 DEF Listing
    <3>3. CASE \E j \in DOMAIN e : i = Len(pageSent) + j BY <1>3, <3>1, <3>3
    <3> QED BY <1>3, <3>2, <3>3
  <2> QED BY <1>4, <1>10, <2>1, <2>2 DEF Listing
<1> QED BY <1>3, <1>4, <1>7, <1>8, <1>9, <1>10

\* The user asks: what the page needs to show what it now shows is asked with it.
Asked(e) ==
    /\ pageSent' = pageSent \o e /\ opened' = TRUE
    /\ UNCHANGED <<plugin, app, pageAnswers, catalog, appShown, loaded, cut>>
    /\ installedOnly' \in BOOLEAN /\ loading' \in BOOLEAN
    /\ loading' => loading \/ \E j \in DOMAIN e : e[j].kind = "plugins"
    /\ ~opened => /\ \E j \in DOMAIN e : e[j].kind = "plugins-local"
                  /\ \E j \in DOMAIN e : e[j].kind = "apps"
    /\ installedOnly /\ ~installedOnly' => loaded \/ loading \/ \E j \in DOMAIN e : e[j].kind = "plugins"
    /\ (\E j \in DOMAIN e : e[j].kind = "app") => appShown # "not listed"

LEMMA UserAsks == ASSUME PageInv, NEW e \in Seq(Requests), Asked(e) PROVE PageInv'
<1>1. /\ pageSent' = pageSent \o e /\ opened' = TRUE
      /\ UNCHANGED <<plugin, app, pageAnswers, catalog, appShown, loaded, cut>>
  BY DEF Asked
<1>2. /\ pageSent' \in Seq(Requests)
      /\ \A i : PluginDue(i) => PluginDue(i)'
      /\ \A i : AppDue(i) => AppDue(i)'
      /\ \A k : Listing(k) => Listing(k)'
      /\ \A j \in DOMAIN e : e[j].kind \in PluginLists \cup Reloads => \A i : PluginDue(i)'
      /\ \A j \in DOMAIN e : e[j].kind \in {"apps"} \cup Reloads => \A i : AppDue(i)'
      /\ \A j \in DOMAIN e : \A k : e[j].kind \in k => Listing(k)'
      /\ \A k : Listing(k)' => Listing(k) \/ \E j \in DOMAIN e : e[j].kind \in k
  BY <1>1, MoreAsked
<1>3. PageTyped' BY <1>1, <1>2 DEF PageInv, PageTyped, Asked
<1>4. ShownTrue'
  <2>1. CASE ~opened
    <3>1. PluginDue(0)' BY <1>2, <2>1 DEF Asked, PluginLists
    <3>2. AppDue(0)' BY <1>2, <2>1 DEF Asked
    <3>3. Listing(PluginLists)' BY <1>2, <2>1 DEF Asked, PluginLists
    <3> QED BY <3>1, <3>2, <3>3 DEF ShownTrue
  <2>2. CASE opened
    <3>1. installedOnly' \/ catalog.full \/ "plugin" \in cut \/ Listing(PluginLists)'
      <4>1. CASE ~installedOnly BY <1>2, <2>2, <4>1 DEF PageInv, ShownTrue
      <4>2. CASE installedOnly /\ ~installedOnly' /\ loading
        <5>1. Listing({"plugins"}) => Listing(PluginLists) BY DEF Listing, PluginLists
        <5> QED BY <1>2, <4>2, <5>1 DEF PageInv, Waiting
      <4>3. CASE installedOnly /\ ~installedOnly' /\ \E j \in DOMAIN e : e[j].kind = "plugins"
        BY <1>2, <4>3 DEF PluginLists
      <4> QED BY <4>1, <4>2, <4>3 DEF Asked, PageInv, PageTyped
    <3> QED BY <1>1, <1>2, <2>2, <3>1 DEF PageInv, ShownTrue
  <2> QED BY <2>1, <2>2
<1>5. AnswersTrue' BY <1>1, <1>2 DEF PageInv, AnswersTrue
<1>6. Waiting'
  <2>1. loading' => Listing({"plugins"})' \/ "plugin" \in cut
    <3>1. (\E j \in DOMAIN e : e[j].kind = "plugins") => Listing({"plugins"})' BY <1>2
    <3> QED BY <1>2, <3>1 DEF Asked, PageInv, Waiting
  <2>2. Listing({"app"})' => appShown # "not listed"
    <3>1. Listing({"app"})' => Listing({"app"}) \/ \E j \in DOMAIN e : e[j].kind = "app" BY <1>2
    <3> QED BY <3>1 DEF Asked, PageInv, Waiting
  <2> QED BY <1>1, <2>1, <2>2 DEF Waiting
<1> QED BY <1>3, <1>4, <1>5, <1>6 DEF PageInv

\* A button of the page: one request.
LEMMA Pressed ==
    ASSUME PageInv, NEW kind, NEW to
    PROVE  /\ Page!Press(kind, to) /\ [kind |-> kind, to |-> to] \in Requests
           /\ kind = "app" => appShown # "not listed"
           => PageInv'
<1>1. SUFFICES ASSUME Page!Press(kind, to), [kind |-> kind, to |-> to] \in Requests,
                      kind = "app" => appShown # "not listed"
               PROVE  PageInv'
  OBVIOUS
<1>2. PICK a \in Requests : a = [kind |-> kind, to |-> to] BY <1>1
<1>3. PICK e : e = <<a>> OBVIOUS
<1>4. e \in Seq(Requests) /\ \A j \in DOMAIN e : e[j].kind = a.kind BY <1>3, OneRequest
<1>5. /\ pageSent' = pageSent \o e /\ opened /\ opened' = opened
      /\ UNCHANGED <<plugin, app, pageAnswers, catalog, appShown, loaded, cut, installedOnly, loading>>
  BY <1>1, <1>2, <1>3 DEF Page!Press, Page!Ask, Page!Request, Page!PageSame, Page!flags, Page!page, Page!shown,
     Page!server
<1>6. \A j \in DOMAIN e : e[j].kind = kind
  <2>1. a.kind = kind BY <1>2
  <2> QED BY <1>4, <2>1
<1>7. Asked(e) BY <1>1, <1>5, <1>6 DEF Asked, PageInv, PageTyped
<1> QED BY <1>4, <1>7, UserAsks

\* The page is opened, or shows more or less.
LEMMA PageOpens == PageInv /\ Page!ensure_extensions_loaded => PageInv'
<1> SUFFICES ASSUME PageInv, Page!ensure_extensions_loaded PROVE PageInv' OBVIOUS
<1>1. PICK a, b : a = [kind |-> "plugins-local", to |-> "not listed"] /\ b = [kind |-> "apps", to |-> "not listed"]
  OBVIOUS
<1>2. a \in Requests /\ b \in Requests BY <1>1 DEF Requests, Kinds, PluginLists
<1>3. PICK e \in Seq(Requests) :
        /\ e = <<a>> \o <<b>> /\ \A j \in DOMAIN e : e[j].kind \in {a.kind, b.kind}
        /\ \E j \in DOMAIN e : e[j].kind = a.kind
        /\ \E j \in DOMAIN e : e[j].kind = b.kind
  <2>1. PICK e \in Seq(Requests) : Pair(e, a, b) BY <1>2, TwoRequests
  <2> QED BY <2>1 DEF Pair
<1>4. /\ pageSent' = pageSent \o e /\ opened' = TRUE
      /\ UNCHANGED <<plugin, app, pageAnswers, catalog, appShown, loaded, cut, installedOnly, loading>>
  BY <1>1, <1>3 DEF Page!ensure_extensions_loaded, Page!load_local_plugin_catalog, Page!Ask, Page!List,
     Page!Request, Page!NotListed, Page!flags, Page!shown, Page!server
<1>5. a.kind = "plugins-local" /\ b.kind = "apps" BY <1>1
<1>7. /\ \A j \in DOMAIN e : e[j].kind \in {"plugins-local", "apps"}
      /\ \E j \in DOMAIN e : e[j].kind = "plugins-local"
      /\ \E j \in DOMAIN e : e[j].kind = "apps"
  BY <1>3, <1>5
<1>8. Asked(e) BY <1>4, <1>7 DEF Asked, PageInv, PageTyped
<1> QED BY <1>7, <1>8, UserAsks

LEMMA FilterToggles == PageInv /\ Page!ToggleInstalledOnly => PageInv'
<1> SUFFICES ASSUME PageInv, Page!ToggleInstalledOnly PROVE PageInv' OBVIOUS
<1>1. /\ opened /\ opened' = opened /\ installedOnly' = ~installedOnly
      /\ UNCHANGED <<plugin, app, pageAnswers, catalog, appShown, cut>>
      /\ IF installedOnly THEN Page!load_full_plugin_catalog(FALSE, <<>>)
                          ELSE Page!load_local_plugin_catalog(<<>>)
  BY DEF Page!ToggleInstalledOnly, Page!shown, Page!server
<1>2. /\ [kind |-> "plugins-local", to |-> "not listed"] \in Requests
      /\ [kind |-> "plugins", to |-> "not listed"] \in Requests
  BY DEF Requests, Kinds, PluginLists
<1>3. pageConnected BY DEF Page!ToggleInstalledOnly, Page!Click
<1>4. CASE ~installedOnly
  <2>1. PICK a \in Requests : a = [kind |-> "plugins-local", to |-> "not listed"] BY <1>2
  <2>2. PICK e : e = <<a>> OBVIOUS
  <2>3. /\ e \in Seq(Requests) /\ \A j \in DOMAIN e : e[j].kind = a.kind
        /\ \E j \in DOMAIN e : e[j].kind = a.kind
    BY <2>2, OneRequest
  <2>4. e \o <<>> = e BY <2>3, ConcatEmptySeq
  <2>5. pageSent' = pageSent \o e /\ UNCHANGED <<loaded, loading>>
    BY <1>1, <1>4, <2>1, <2>2, <2>4 DEF Page!load_local_plugin_catalog, Page!Ask, Page!List, Page!Request,
       Page!NotListed, Page!flags
  <2>6. \A j \in DOMAIN e : e[j].kind = "plugins-local"
    <3>1. a.kind = "plugins-local" BY <2>1
    <3> QED BY <2>3, <3>1
  <2>7. Asked(e) BY <1>1, <1>4, <2>5, <2>6 DEF Asked, PageInv, PageTyped
  <2> QED BY <2>3, <2>7, UserAsks
<1>5. CASE installedOnly /\ ~loading /\ ~loaded
  <2>1. PICK a \in Requests : a = [kind |-> "plugins", to |-> "not listed"] BY <1>2
  <2>2. PICK e : e = <<a>> OBVIOUS
  <2>3. /\ e \in Seq(Requests) /\ \A j \in DOMAIN e : e[j].kind = a.kind
        /\ \E j \in DOMAIN e : e[j].kind = a.kind
    BY <2>2, OneRequest
  <2>4. e \o <<>> = e BY <2>3, ConcatEmptySeq
  <2>5. pageSent' = pageSent \o e /\ loading' = TRUE /\ loaded' = loaded
    BY <1>1, <1>3, <1>5, <2>1, <2>2, <2>4 DEF Page!load_full_plugin_catalog, Page!MayLoadFull, Page!Ask,
       Page!List, Page!Request, Page!NotListed
  <2>6. (\A j \in DOMAIN e : e[j].kind = "plugins") /\ \E j \in DOMAIN e : e[j].kind = "plugins"
    <3>1. a.kind = "plugins" BY <2>1
    <3> QED BY <2>3, <3>1
  <2>7. Asked(e) BY <1>1, <1>5, <2>5, <2>6 DEF Asked, PageInv, PageTyped
  <2> QED BY <2>3, <2>7, UserAsks
<1>6. CASE installedOnly /\ (loading \/ loaded)
  <2>1. PICK e : e = <<>> OBVIOUS
  <2>2. e \in Seq(Requests) /\ DOMAIN e = {} BY <2>1
  <2>3. pageSent' = pageSent \o e /\ UNCHANGED <<loaded, loading>>
    BY <1>1, <1>3, <1>6, <2>1 DEF Page!load_full_plugin_catalog, Page!MayLoadFull, Page!Ask, Page!flags
  <2>4. Asked(e) BY <1>1, <1>6, <2>2, <2>3 DEF Asked, PageInv, PageTyped
  <2> QED BY <2>2, <2>4, UserAsks
<1> QED BY <1>4, <1>5, <1>6

LEMMA ButtonPressed ==
    PageInv /\ (\/ Page!PressPlugin \/ Page!PressApp \/ Page!PressSkill \/ Page!PressMarketplace
                \/ Page!refresh_extension_runtime \/ Page!set_computer_plugin_enabled
                \/ Page!SetComputerPolicy \/ Page!configure_macro_executor)
      => PageInv'
<1> SUFFICES ASSUME PageInv PROVE
      (\/ Page!PressPlugin \/ Page!PressApp \/ Page!PressSkill \/ Page!PressMarketplace
       \/ Page!refresh_extension_runtime \/ Page!set_computer_plugin_enabled
       \/ Page!SetComputerPolicy \/ Page!configure_macro_executor) => PageInv'
  OBVIOUS
<1>1. \A to \in {"available", "disabled", "enabled"} : [kind |-> "change", to |-> to] \in Requests
  BY DEF Requests, Kinds, Settings
<1>2. \A kind \in {"config", "reload", "marketplace"} : [kind |-> kind, to |-> "not listed"] \in Requests
  BY DEF Requests, Kinds, Settings, Reloads
<1>3. \A to \in {"on", "off"} : [kind |-> "app", to |-> to] \in Requests BY DEF Requests, Kinds
<1>4. \A to \in {"available", "disabled", "enabled"} : Page!Press("change", to) => PageInv' BY <1>1, Pressed
<1>5. \A kind \in {"config", "reload", "marketplace"} : Page!Press(kind, "not listed") => PageInv'
  BY <1>2, Pressed
<1>6. ASSUME Page!PressApp PROVE PageInv'
  <2>1. PICK to \in {"on", "off"} : Page!Press("app", to) /\ appShown # "not listed"
    BY <1>6 DEF Page!PressApp, Page!render_extensions, Page!NotListed
  <2> QED BY <1>3, <2>1, Pressed
<1> QED BY <1>4, <1>5, <1>6 DEF Page!PressPlugin, Page!PressSkill, Page!PressMarketplace, Page!NotListed,
     Page!refresh_extension_runtime, Page!set_computer_plugin_enabled, Page!SetComputerPolicy,
     Page!configure_macro_executor

\* The server takes a request: what it changes, its answer says.
LEMMA RequestTaken == PageInv /\ Page!Take => PageInv'
<1> SUFFICES ASSUME PageInv, Page!Take PROVE PageInv' OBVIOUS
<1>1. PICK r : r = Head(pageSent) OBVIOUS
<1>2. /\ pageSent # <<>> /\ pageSent' = Tail(pageSent)
      /\ UNCHANGED <<opened, installedOnly, catalog, appShown, loading, loaded, cut>>
  BY DEF Page!Take, Page!page, Page!shown, Page!flags
<1>3. pageSent \in Seq(Requests) /\ pageAnswers \in Seq(Answers) BY DEF PageInv, PageTyped
<1>4. /\ r \in Requests /\ r = pageSent[1] /\ pageSent' \in Seq(Requests)
      /\ \A i \in DOMAIN pageSent' : i + 1 \in DOMAIN pageSent /\ pageSent'[i] = pageSent[i + 1]
      /\ \A i \in DOMAIN pageSent : i \in Nat /\ (i = 1 \/ (i - 1 \in DOMAIN pageSent'))
  BY <1>1, <1>2, <1>3, Drained
<1>5. \A i \in DOMAIN pageSent : pageSent[i] = r \/ \E j \in DOMAIN pageSent' : pageSent'[j] = pageSent[i]
  <2> SUFFICES ASSUME NEW i \in DOMAIN pageSent, i # 1 PROVE \E j \in DOMAIN pageSent' : pageSent'[j] = pageSent[i]
    BY <1>4
  <2>1. i - 1 \in DOMAIN pageSent' /\ (i - 1) + 1 = i BY <1>4
  <2> QED BY <1>4, <2>1
<1>6. PICK a \in Answers :
        /\ pageAnswers' = Append(pageAnswers, a) /\ a.kind = r.kind
        /\ a.ok => /\ plugin' = IF r.kind = "change" THEN r.to ELSE plugin
                   /\ app' = IF r.kind = "app" THEN r.to ELSE app
                   /\ a.says = IF r.kind \in PluginLists THEN plugin ELSE IF r.kind = "apps" THEN app ELSE r.to
        /\ ~a.ok => plugin' = plugin /\ app' = app
  <2>1. CASE /\ pageAnswers' = Append(pageAnswers, [kind |-> r.kind, ok |-> TRUE, says |-> Page!Said(r)])
             /\ plugin' = IF r.kind = "change" THEN r.to ELSE plugin
             /\ app' = IF r.kind = "app" THEN r.to ELSE app
    <3>1. Page!Said(r) = IF r.kind \in PluginLists THEN plugin ELSE IF r.kind = "apps" THEN app ELSE r.to
      BY DEF Page!Said, PluginLists
    <3>2. [kind |-> r.kind, ok |-> TRUE, says |-> Page!Said(r)] \in Answers
      BY <1>4, <3>1 DEF Answers, Requests, PageInv, PageTyped, PluginLists
    <3> QED BY <2>1, <3>1, <3>2
  <2>2. CASE /\ pageAnswers' = Append(pageAnswers, [kind |-> r.kind, ok |-> FALSE, says |-> "not listed"])
             /\ plugin' = plugin /\ app' = app
    <3>1. [kind |-> r.kind, ok |-> FALSE, says |-> "not listed"] \in Answers BY <1>4 DEF Answers, Requests
    <3> QED BY <2>2, <3>1
  <2> QED BY <1>1, <2>1, <2>2 DEF Page!Take, Page!server, Page!NotListed
<1>7. PICK n : n = Len(pageAnswers) + 1 OBVIOUS
<1>8. /\ pageAnswers' \in Seq(Answers) /\ n \in Nat /\ n \in DOMAIN pageAnswers' /\ pageAnswers'[n] = a
      /\ \A i \in DOMAIN pageAnswers : i \in Nat /\ i < n /\ i \in DOMAIN pageAnswers'
                                       /\ pageAnswers'[i] = pageAnswers[i]
      /\ \A i \in DOMAIN pageAnswers' : i \in DOMAIN pageAnswers \/ i = n
  <2>1. Len(pageAnswers) \in Nat /\ DOMAIN pageAnswers = 1..Len(pageAnswers) BY <1>3, LenProperties
  <2>2. /\ pageAnswers' \in Seq(Answers) /\ Len(pageAnswers') = n
        /\ \A i \in 1..Len(pageAnswers) : pageAnswers'[i] = pageAnswers[i]
        /\ pageAnswers'[n] = a
    BY <1>3, <1>6, <1>7, AppendProperties
  <2>3. DOMAIN pageAnswers' = 1..n BY <2>2, LenProperties
  <2> QED BY <1>7, <2>1, <2>2, <2>3
<1>9. ASSUME NEW i \in Nat, i < n
      PROVE  /\ PluginDue(i) => PluginDue(i)'
             /\ AppDue(i) => AppDue(i)'
             /\ a.ok /\ a.kind = "change" => PluginDue(i)'
             /\ a.ok /\ a.kind = "app" => AppDue(i)'
  BY <1>5, <1>6, <1>8, <1>9 DEF PluginDue, AppDue, Settings
<1>10. \A k : Listing(k) => Listing(k)' BY <1>5, <1>6, <1>8 DEF Listing
<1>11. \A k : Listing(k)' => Listing(k)
  <2>1. 1 \in DOMAIN pageSent BY <1>2, <1>3, Drained
  <2> QED BY <1>4, <1>6, <1>8, <2>1 DEF Listing
<1>12. opened BY <1>2 DEF PageInv, PageTyped
<1>13. PageTyped'
  <2>1. plugin' \in {"available", "disabled", "enabled"} /\ app' \in {"on", "off"}
    BY <1>4, <1>6 DEF PageInv, PageTyped, Requests
  <2> QED BY <1>2, <1>4, <1>8, <1>12, <2>1 DEF PageInv, PageTyped
<1>14. 0 \in Nat /\ 0 < n
  <2>1. Len(pageAnswers) \in Nat BY <1>3, LenProperties
  <2> QED BY <1>7, <2>1
<1>15. (plugin' = plugin \/ PluginDue(0)') /\ (app' = app \/ AppDue(0)') BY <1>6, <1>9, <1>14
<1>16. ShownTrue' BY <1>2, <1>9, <1>10, <1>12, <1>14, <1>15 DEF PageInv, ShownTrue
<1>17. AnswersTrue'
  <2> SUFFICES ASSUME NEW i \in DOMAIN pageAnswers'
               PROVE  /\ pageAnswers'[i].ok /\ pageAnswers'[i].kind \in PluginLists =>
                           pageAnswers'[i].says = plugin' \/ PluginDue(i)'
                      /\ pageAnswers'[i].ok /\ pageAnswers'[i].kind \in {"app", "apps"} =>
                           pageAnswers'[i].says = app' \/ AppDue(i)'
    BY DEF AnswersTrue
  <2>1. CASE i \in DOMAIN pageAnswers
    <3>1. /\ plugin' = plugin \/ PluginDue(i)'
          /\ app' = app \/ AppDue(i)'
      BY <1>6, <1>8, <1>9, <2>1
    <3> QED BY <1>8, <1>9, <2>1, <3>1 DEF PageInv, AnswersTrue
  <2>2. CASE i = n BY <1>6, <1>8, <2>2 DEF PluginLists
  <2> QED BY <1>8, <2>1, <2>2
<1>18. Waiting' BY <1>2, <1>10, <1>11 DEF PageInv, Waiting
<1> QED BY <1>13, <1>16, <1>17, <1>18 DEF PageInv

\* An answer is taken, and more may be asked for it.
LEMMA AnswerHeard ==
    ASSUME PageInv, pageAnswers # <<>>, NEW h, h = Head(pageAnswers), pageAnswers' = Tail(pageAnswers),
           NEW e \in Seq(Requests), pageSent' = pageSent \o e
    PROVE  /\ h \in Answers /\ pageAnswers' \in Seq(Answers) /\ pageSent' \in Seq(Requests) /\ opened
           /\ \A i \in DOMAIN pageAnswers' :
                /\ i \in Nat /\ i >= 1 /\ i + 1 \in DOMAIN pageAnswers /\ pageAnswers'[i] = pageAnswers[i + 1]
                /\ PluginDue(i + 1) => PluginDue(i)'
                /\ AppDue(i + 1) => AppDue(i)'
           /\ h.ok /\ h.kind \in PluginLists => h.says = plugin \/ PluginDue(0)'
           /\ h.ok /\ h.kind \in {"app", "apps"} => h.says = app \/ AppDue(0)'
           /\ PluginDue(0) => \/ PluginDue(0)'
                              \/ h.kind \in PluginLists \cup Reloads
                              \/ h.ok /\ h.kind \in Settings
           /\ AppDue(0) => \/ AppDue(0)'
                           \/ h.kind \in {"apps"} \cup Reloads
                           \/ h.ok /\ h.kind \in {"app"} \cup Settings
           /\ \A k : Listing(k) => Listing(k)' \/ h.kind \in k
           /\ \A j \in DOMAIN e : e[j].kind \in PluginLists \cup Reloads => PluginDue(0)'
           /\ \A j \in DOMAIN e : e[j].kind \in {"apps"} \cup Reloads => AppDue(0)'
           /\ \A j \in DOMAIN e : \A k : e[j].kind \in k => Listing(k)'
           /\ \A k : Listing(k)' => Listing(k) \/ \E j \in DOMAIN e : e[j].kind \in k
           /\ \A k : h.kind \in k => Listing(k)
<1>1. pageSent \in Seq(Requests) /\ pageAnswers \in Seq(Answers) BY DEF PageInv, PageTyped
<1>2. PICK s : s = pageSent \o e OBVIOUS
<1>3. /\ s \in Seq(Requests) /\ Len(pageSent) \in Nat
      /\ \A i \in DOMAIN pageSent : i \in DOMAIN s /\ s[i] = pageSent[i]
      /\ \A j \in DOMAIN e : Len(pageSent) + j \in DOMAIN s /\ s[Len(pageSent) + j] = e[j]
      /\ \A i \in DOMAIN s : i \in DOMAIN pageSent \/ \E j \in DOMAIN e : i = Len(pageSent) + j
  <2>1. Grows(Requests, s, pageSent, e) BY <1>1, <1>2 DEF Grows
  <2> QED BY <2>1, Grown
<1>4. pageSent' = s BY <1>2
<1>5. \A j \in DOMAIN e : \E i \in DOMAIN s : s[i] = e[j] BY <1>3
<1>6. \A i \in DOMAIN pageSent : i \in DOMAIN pageSent' /\ pageSent'[i] = pageSent[i] BY <1>3, <1>4
<1>7. \A i \in DOMAIN s : (\E j \in DOMAIN pageSent : s[i] = pageSent[j]) \/ \E j \in DOMAIN e : s[i] = e[j]
  BY <1>3
<1>8. /\ h \in Answers /\ h = pageAnswers[1] /\ 1 \in DOMAIN pageAnswers /\ pageAnswers' \in Seq(Answers)
      /\ \A i \in DOMAIN pageAnswers' : i \in Nat /\ i >= 1 /\ i + 1 \in DOMAIN pageAnswers
                                        /\ pageAnswers'[i] = pageAnswers[i + 1]
      /\ \A i \in DOMAIN pageAnswers : i \in Nat /\ i >= 1 /\ (i = 1 \/ i - 1 \in DOMAIN pageAnswers')
  BY <1>1, Drained
<1>9. \A j \in DOMAIN pageAnswers : j > 1 =>
        j - 1 \in DOMAIN pageAnswers' /\ pageAnswers'[j - 1] = pageAnswers[j]
  BY <1>8
<1>10. ASSUME NEW i \in Nat, PluginDue(i + 1) PROVE PluginDue(i)'
  <2>1. CASE \E j \in DOMAIN pageAnswers :
               /\ j > i + 1
               /\ \/ pageAnswers[j].kind \in PluginLists \cup Reloads
                  \/ pageAnswers[j].ok /\ pageAnswers[j].kind \in Settings
    <3>1. PICK j \in DOMAIN pageAnswers :
            /\ j > i + 1
            /\ \/ pageAnswers[j].kind \in PluginLists \cup Reloads
               \/ pageAnswers[j].ok /\ pageAnswers[j].kind \in Settings
      BY <2>1
    <3>2. j - 1 \in DOMAIN pageAnswers' /\ pageAnswers'[j - 1] = pageAnswers[j] /\ j - 1 > i
      BY <1>8, <1>9, <3>1
    <3> QED BY <3>1, <3>2 DEF PluginDue
  <2> QED BY <1>6, <1>10, <2>1 DEF PluginDue
<1>11. ASSUME NEW i \in Nat, AppDue(i + 1) PROVE AppDue(i)'
  <2>1. CASE \E j \in DOMAIN pageAnswers :
               /\ j > i + 1
               /\ \/ pageAnswers[j].kind \in {"apps"} \cup Reloads
                  \/ pageAnswers[j].ok /\ pageAnswers[j].kind \in {"app"} \cup Settings
    <3>1. PICK j \in DOMAIN pageAnswers :
            /\ j > i + 1
            /\ \/ pageAnswers[j].kind \in {"apps"} \cup Reloads
               \/ pageAnswers[j].ok /\ pageAnswers[j].kind \in {"app"} \cup Settings
      BY <2>1
    <3>2. j - 1 \in DOMAIN pageAnswers' /\ pageAnswers'[j - 1] = pageAnswers[j] /\ j - 1 > i
      BY <1>8, <1>9, <3>1
    <3> QED BY <3>1, <3>2 DEF AppDue
  <2> QED BY <1>6, <1>11, <2>1 DEF AppDue
<1>12. /\ PluginDue(1) => PluginDue(0)'
       /\ AppDue(1) => AppDue(0)'
  BY <1>10, <1>11, 0 + 1 = 1
<1>13. /\ h.ok /\ h.kind \in PluginLists => h.says = plugin \/ PluginDue(1)
       /\ h.ok /\ h.kind \in {"app", "apps"} => h.says = app \/ AppDue(1)
  BY <1>8 DEF PageInv, AnswersTrue
<1>14. /\ PluginDue(0) => PluginDue(1) \/ h.kind \in PluginLists \cup Reloads \/ (h.ok /\ h.kind \in Settings)
       /\ AppDue(0) => AppDue(1) \/ h.kind \in {"apps"} \cup Reloads \/ (h.ok /\ h.kind \in {"app"} \cup Settings)
  BY <1>8 DEF PluginDue, AppDue
<1>15. ASSUME NEW k, Listing(k) PROVE Listing(k)' \/ h.kind \in k
  <2>1. CASE \E j \in DOMAIN pageSent : pageSent[j].kind \in k BY <1>6, <2>1 DEF Listing
  <2>2. CASE \E j \in DOMAIN pageAnswers : pageAnswers[j].kind \in k
    <3>1. PICK j \in DOMAIN pageAnswers : pageAnswers[j].kind \in k BY <2>2
    <3>2. CASE j > 1 BY <1>9, <3>1, <3>2 DEF Listing
    <3>3. CASE ~(j > 1) BY <1>8, <3>1, <3>3
    <3> QED BY <3>2, <3>3
  <2> QED BY <1>15, <2>1, <2>2 DEF Listing
<1>16. ASSUME NEW j \in DOMAIN e
       PROVE  /\ e[j].kind \in PluginLists \cup Reloads => PluginDue(0)'
              /\ e[j].kind \in {"apps"} \cup Reloads => AppDue(0)'
              /\ \A k : e[j].kind \in k => Listing(k)'
  BY <1>4, <1>5 DEF PluginDue, AppDue, Listing
<1>17. ASSUME NEW k, Listing(k)' PROVE Listing(k) \/ \E j \in DOMAIN e : e[j].kind \in k
  <2>1. CASE \E j \in DOMAIN pageAnswers' : pageAnswers'[j].kind \in k BY <1>8, <2>1 DEF Listing
  <2>2. CASE \E j \in DOMAIN s : s[j].kind \in k BY <1>7, <2>2 DEF Listing
  <2> QED BY <1>4, <1>17, <2>1, <2>2 DEF Listing
<1>18. \A k : h.kind \in k => Listing(k) BY <1>8 DEF Listing
<1>19. opened BY DEF PageInv, PageTyped
<1> QED BY <1>3, <1>4, <1>8, <1>10, <1>11, <1>12, <1>13, <1>14, <1>15, <1>16, <1>17, <1>18, <1>19

\* What an answer does, and what is asked for it.
LEMMA AnswerComes == PageInv /\ Page!Receive => PageInv'
<1> SUFFICES ASSUME PageInv, Page!Receive PROVE PageInv' OBVIOUS
<1>1. PICK h : h = Head(pageAnswers) OBVIOUS
<1>2. /\ pageConnected /\ pageAnswers # <<>> /\ pageAnswers' = Tail(pageAnswers)
      /\ UNCHANGED <<plugin, app, installedOnly>>
  BY DEF Page!Receive, Page!server
<1>3. /\ plugin \in {"available", "disabled", "enabled"} /\ app \in {"on", "off"}
      /\ pageAnswers \in Seq(Answers) /\ h \in Answers
      /\ opened = TRUE /\ installedOnly \in BOOLEAN /\ loading \in BOOLEAN
      /\ catalog \in [full : BOOLEAN, plugin : {"not listed", "available", "disabled", "enabled", "on", "off"}]
      /\ appShown \in {"not listed", "on", "off"} /\ loaded = catalog.full
  BY <1>1, <1>2, Drained DEF PageInv, PageTyped
\* What each kind of answer does to what is shown.
<1>4. PICK e \in Seq(Requests) :
        /\ pageSent' = pageSent \o e /\ opened' = TRUE
        /\ \A j \in DOMAIN e : e[j].kind # "app"
        /\ \/ /\ h.ok /\ h.kind \in PluginLists /\ cut' = cut \ {"plugin"}
              /\ catalog' \in [full : BOOLEAN,
                                plugin : {"not listed", "available", "disabled", "enabled", "on", "off"}]
              /\ catalog'.plugin = h.says /\ loaded' = catalog'.full
              /\ loading' = (~loaded' /\ ~installedOnly)
              /\ ~loaded' /\ ~installedOnly => \E j \in DOMAIN e : e[j].kind = "plugins"
              /\ appShown' = appShown
           \/ /\ h.ok /\ h.kind = "apps" /\ appShown' = h.says /\ cut' = cut \ {"app"}
              /\ UNCHANGED <<loading, loaded, catalog>>
           \/ /\ h.ok /\ h.kind \in Settings /\ \E j \in DOMAIN e : e[j].kind = "reload"
              /\ UNCHANGED <<loading, loaded, catalog, appShown, cut>>
           \/ /\ h.ok /\ h.kind = "app" /\ appShown' = IF appShown = "not listed" THEN appShown ELSE h.says
              /\ UNCHANGED <<loading, loaded, catalog, cut>>
           \/ /\ h.ok /\ h.kind \in Reloads /\ \E j \in DOMAIN e : e[j].kind = "apps"
              /\ UNCHANGED <<loaded, catalog, appShown, cut>> /\ loading' \in BOOLEAN
              /\ \/ loading' = loading /\ \E j \in DOMAIN e : e[j].kind = "plugins-local"
                 \/ loading' = TRUE /\ \E j \in DOMAIN e : e[j].kind = "plugins"
                 \/ loading' = loading /\ loading
           \/ /\ ~h.ok /\ loading' = (loading /\ h.kind \notin PluginLists)
              /\ cut \subseteq cut'
              /\ h.kind \in PluginLists \cup Reloads => "plugin" \in cut'
              /\ h.kind \in {"apps"} \cup Reloads => "app" \in cut'
              /\ UNCHANGED <<loaded, catalog, appShown>>
  <2>1. /\ [kind |-> "plugins", to |-> "not listed"] \in Requests
        /\ [kind |-> "plugins-local", to |-> "not listed"] \in Requests
        /\ [kind |-> "apps", to |-> "not listed"] \in Requests
        /\ [kind |-> "reload", to |-> "not listed"] \in Requests
    BY DEF Requests, Kinds, PluginLists, Reloads
  <2>2. PICK none : none = <<>> OBVIOUS
  <2>3. none \in Seq(Requests) /\ DOMAIN none = {} BY <2>2
  <2>4. pageSent \o none = pageSent BY <2>2, ConcatEmptySeq DEF PageInv, PageTyped
  <2>5. CASE h.ok /\ h.kind \in PluginLists
    <3>0. PICK full \in BOOLEAN : full <=> h.kind = "plugins" OBVIOUS
    <3>1. Page!OnCatalog(full, h.says)
      BY <1>1, <2>5, <3>0 DEF Page!Receive, PluginLists
    <3>2. /\ catalog' = [full |-> full, plugin |-> h.says] /\ cut' = cut \ {"plugin"}
          /\ loaded' = full /\ appShown' = appShown /\ opened' = opened
          /\ IF ~full /\ ~installedOnly
             THEN loading' = TRUE /\ pageSent' = pageSent \o <<[kind |-> "plugins", to |-> "not listed"]>>
             ELSE loading' = FALSE /\ pageSent' = pageSent
      BY <3>1 DEF Page!OnCatalog, Page!Listed, Page!Ask, Page!List, Page!Request, Page!NotListed
    <3>9. /\ catalog' \in [full : BOOLEAN,
                            plugin : {"not listed", "available", "disabled", "enabled", "on", "off"}]
          /\ catalog'.plugin = h.says /\ loaded' = catalog'.full
      BY <1>3, <3>2 DEF Answers
    <3>3. CASE ~full /\ ~installedOnly
      <4>1. PICK a \in Requests : a = [kind |-> "plugins", to |-> "not listed"] BY <2>1
      <4>2. PICK e : e = <<a>> OBVIOUS
      <4>3. /\ e \in Seq(Requests) /\ \A j \in DOMAIN e : e[j].kind = a.kind
            /\ \E j \in DOMAIN e : e[j].kind = a.kind
        BY <4>2, OneRequest
      <4>4. a.kind = "plugins" BY <4>1
      <4> QED BY <1>3, <2>5, <3>2, <3>3, <3>9, <4>1, <4>2, <4>3, <4>4
    <3>4. CASE ~(~full /\ ~installedOnly)
      BY <1>3, <2>3, <2>4, <2>5, <3>2, <3>4, <3>9
    <3> QED BY <3>3, <3>4
  <2>6. CASE h.ok /\ h.kind = "apps"
    <3>1. /\ appShown' = h.says /\ cut' = cut \ {"app"} /\ pageSent' = pageSent
          /\ UNCHANGED <<loading, loaded, catalog, opened>>
      BY <1>1, <2>6 DEF Page!Receive, Page!OnApps, Page!Listed, Page!flags
    <3> QED BY <1>3, <2>3, <2>4, <2>6, <3>1
  <2>7. CASE h.ok /\ h.kind \in Settings
    <3>1. /\ pageSent' = pageSent \o <<[kind |-> "reload", to |-> "not listed"]>>
          /\ UNCHANGED <<loading, loaded, catalog, appShown, cut, opened>>
      BY <1>1, <2>7 DEF Page!Receive, Page!OnChanged, Page!Ask, Page!List, Page!Request, Page!NotListed,
         Page!flags, Page!shown, Settings
    <3>2. PICK a \in Requests : a = [kind |-> "reload", to |-> "not listed"] BY <2>1
    <3>3. PICK e : e = <<a>> OBVIOUS
    <3>4. /\ e \in Seq(Requests) /\ \A j \in DOMAIN e : e[j].kind = a.kind
          /\ \E j \in DOMAIN e : e[j].kind = a.kind
      BY <3>3, OneRequest
    <3>5. a.kind = "reload" BY <3>2
    <3> QED BY <1>3, <2>7, <3>1, <3>2, <3>3, <3>4, <3>5
  <2>8. CASE h.ok /\ h.kind = "app"
    <3>1. /\ appShown' = (IF appShown = "not listed" THEN appShown ELSE h.says)
          /\ pageSent' = pageSent /\ UNCHANGED <<loading, loaded, catalog, cut, opened>>
      BY <1>1, <2>8 DEF Page!Receive, Page!OnAppEnabled, Page!NotListed, Page!flags
    <3> QED BY <1>3, <2>3, <2>4, <2>8, <3>1
  <2>9. CASE h.ok /\ h.kind \in Reloads
    <3>1. /\ opened' = TRUE /\ Page!refresh_extensions /\ UNCHANGED <<catalog, appShown, cut>>
      BY <1>1, <2>9 DEF Page!Receive, Page!OnReloaded, Page!shown, Reloads
    <3>2. PICK a \in Requests, b \in Requests, c \in Requests :
            /\ a = [kind |-> "plugins-local", to |-> "not listed"]
            /\ b = [kind |-> "plugins", to |-> "not listed"]
            /\ c = [kind |-> "apps", to |-> "not listed"]
      BY <2>1
    <3>3. a.kind = "plugins-local" /\ b.kind = "plugins" /\ c.kind = "apps" BY <3>2
    <3>4. \/ pageSent' = pageSent \o (<<a>> \o <<c>>) /\ UNCHANGED <<loading, loaded>>
          \/ pageSent' = pageSent \o (<<b>> \o <<c>>) /\ loading' = TRUE /\ loaded' = loaded
          \/ pageSent' = pageSent \o <<c>> /\ loading /\ UNCHANGED <<loading, loaded>>
      BY <1>2, <3>1, <3>2 DEF Page!refresh_extensions, Page!load_local_plugin_catalog, Page!flags,
         Page!load_full_plugin_catalog, Page!MayLoadFull, Page!Ask, Page!List, Page!Request, Page!NotListed
    <3>5. CASE pageSent' = pageSent \o (<<a>> \o <<c>>) /\ UNCHANGED <<loading, loaded>>
      <4>1. PICK e \in Seq(Requests) : Pair(e, a, c) BY TwoRequests
      <4>2. /\ pageSent' = pageSent \o e /\ \A j \in DOMAIN e : e[j].kind # "app"
            /\ \E j \in DOMAIN e : e[j].kind = "plugins-local"
            /\ \E j \in DOMAIN e : e[j].kind = "apps"
        BY <3>3, <3>5, <4>1 DEF Pair
      <4> QED BY <1>3, <2>9, <3>1, <3>5, <4>2
    <3>6. CASE pageSent' = pageSent \o (<<b>> \o <<c>>) /\ loading' = TRUE /\ loaded' = loaded
      <4>1. PICK e \in Seq(Requests) : Pair(e, b, c) BY TwoRequests
      <4>2. /\ pageSent' = pageSent \o e /\ \A j \in DOMAIN e : e[j].kind # "app"
            /\ \E j \in DOMAIN e : e[j].kind = "plugins"
            /\ \E j \in DOMAIN e : e[j].kind = "apps"
        BY <3>3, <3>6, <4>1 DEF Pair
      <4> QED BY <1>3, <2>9, <3>1, <3>6, <4>2
    <3>7. CASE pageSent' = pageSent \o <<c>> /\ loading /\ UNCHANGED <<loading, loaded>>
      <4>1. PICK e : e = <<c>> OBVIOUS
      <4>2. /\ e \in Seq(Requests) /\ \A j \in DOMAIN e : e[j].kind = c.kind
            /\ \E j \in DOMAIN e : e[j].kind = c.kind
        BY <4>1, OneRequest
      <4> QED BY <1>3, <2>9, <3>1, <3>3, <3>7, <4>1, <4>2
    <3> QED BY <3>4, <3>5, <3>6, <3>7
  <2>10. CASE ~h.ok
    <3>1. Page!OnError(h.kind) BY <1>1, <1>3, <2>10 DEF Page!Receive
    <3>2. /\ loading' = (loading /\ h.kind \notin PluginLists) /\ cut \subseteq cut'
          /\ h.kind \in PluginLists \cup Reloads => "plugin" \in cut'
          /\ h.kind \in {"apps"} \cup Reloads => "app" \in cut'
          /\ pageSent' = pageSent /\ UNCHANGED <<loaded, catalog, appShown, opened>>
      BY <3>1 DEF Page!OnError, Page!shown, PluginLists, Reloads
    <3> QED BY <1>3, <2>3, <2>4, <2>10, <3>2
  <2> QED BY <1>3, <2>5, <2>6, <2>7, <2>8, <2>9, <2>10 DEF Answers, Kinds
<1>5. /\ h \in Answers /\ pageAnswers' \in Seq(Answers) /\ pageSent' \in Seq(Requests) /\ opened
      /\ \A i \in DOMAIN pageAnswers' :
           /\ i \in Nat /\ i >= 1 /\ i + 1 \in DOMAIN pageAnswers /\ pageAnswers'[i] = pageAnswers[i + 1]
           /\ PluginDue(i + 1) => PluginDue(i)'
           /\ AppDue(i + 1) => AppDue(i)'
      /\ h.ok /\ h.kind \in PluginLists => h.says = plugin \/ PluginDue(0)'
      /\ h.ok /\ h.kind \in {"app", "apps"} => h.says = app \/ AppDue(0)'
      /\ PluginDue(0) => \/ PluginDue(0)'
                         \/ h.kind \in PluginLists \cup Reloads
                         \/ h.ok /\ h.kind \in Settings
      /\ AppDue(0) => \/ AppDue(0)'
                      \/ h.kind \in {"apps"} \cup Reloads
                      \/ h.ok /\ h.kind \in {"app"} \cup Settings
      /\ \A k : Listing(k) => Listing(k)' \/ h.kind \in k
      /\ \A j \in DOMAIN e : e[j].kind \in PluginLists \cup Reloads => PluginDue(0)'
      /\ \A j \in DOMAIN e : e[j].kind \in {"apps"} \cup Reloads => AppDue(0)'
      /\ \A j \in DOMAIN e : \A k : e[j].kind \in k => Listing(k)'
      /\ \A k : Listing(k)' => Listing(k) \/ \E j \in DOMAIN e : e[j].kind \in k
      /\ \A k : h.kind \in k => Listing(k)
  BY <1>1, <1>2, <1>4, AnswerHeard
<1>6. /\ catalog.plugin = plugin \/ "plugin" \in cut \/ PluginDue(0)
      /\ appShown = app \/ "app" \in cut \/ AppDue(0)
      /\ installedOnly \/ catalog.full \/ "plugin" \in cut \/ Listing(PluginLists)
      /\ loading => Listing({"plugins"}) \/ "plugin" \in cut
      /\ Listing({"app"}) => appShown # "not listed"
  BY <1>3 DEF PageInv, ShownTrue, Waiting
<1>7. PageTyped'
  <2>1. /\ h.kind \in Kinds /\ h.says \in {"not listed", "available", "disabled", "enabled", "on", "off"}
        /\ h.ok /\ h.kind \in {"app", "apps"} => h.says \in {"on", "off"}
    BY <1>5 DEF Answers
  <2>2. /\ catalog' \in [full : BOOLEAN, plugin : {"not listed", "available", "disabled", "enabled", "on", "off"}]
        /\ loaded' = catalog'.full /\ loading' \in BOOLEAN
    <3>1. CASE h.ok /\ h.kind \in PluginLists BY <1>3, <1>4, <2>1, <3>1 DEF PluginLists, Reloads, Settings
    <3>2. CASE ~(h.ok /\ h.kind \in PluginLists)
      <4>1. catalog' = catalog /\ loaded' = loaded BY <1>4, <3>2
      <4>2. loading' \in BOOLEAN BY <1>3, <1>4, <3>2
      <4> QED BY <1>3, <4>1, <4>2
    <3> QED BY <3>1, <3>2
  <2>3. appShown' \in {"not listed", "on", "off"} BY <1>3, <1>4, <2>1
  <2> QED BY <1>2, <1>3, <1>4, <1>5, <2>2, <2>3 DEF PageTyped
\* The plugin and the app that are shown.
<1>17. Listing({"plugins"})' => PluginDue(0)'
  BY <1>5 DEF Listing, PluginDue, PluginLists
<1>8. catalog'.plugin = plugin \/ "plugin" \in cut' \/ PluginDue(0)'
  <2>1. CASE h.ok /\ h.kind \in PluginLists
    <3>1. catalog'.plugin = h.says BY <1>4, <2>1 DEF PluginLists, Reloads, Settings
    <3> QED BY <1>5, <2>1, <3>1
  <2>2. CASE ~h.ok /\ h.kind \in PluginLists \cup Reloads BY <1>4, <2>2
  <2>3. CASE h.ok /\ h.kind \in Settings
    <3>1. PICK j \in DOMAIN e : e[j].kind = "reload" BY <1>4, <2>3 DEF PluginLists, Reloads, Settings
    <3> QED BY <1>5, <3>1 DEF Reloads
  <2>4. CASE h.ok /\ h.kind \in Reloads
    <3>1. /\ catalog' = catalog /\ cut' = cut
          /\ (\E j \in DOMAIN e : e[j].kind \in PluginLists) \/ loading
      BY <1>4, <2>4 DEF PluginLists, Reloads, Settings
    <3>2. CASE loading
      <4>1. h.kind \notin {"plugins"} BY <2>4 DEF Reloads
      <4> QED BY <1>5, <1>6, <1>17, <3>1, <3>2, <4>1
    <3> QED BY <1>5, <3>1, <3>2
  <2>5. CASE h.kind \notin PluginLists \cup Reloads /\ ~(h.ok /\ h.kind \in Settings)
    <3>1. catalog' = catalog /\ ("plugin" \in cut => "plugin" \in cut') BY <1>4, <2>5
    <3> QED BY <1>5, <1>6, <2>5, <3>1
  <2> QED BY <2>1, <2>2, <2>3, <2>4, <2>5
<1>9. appShown' = app \/ "app" \in cut' \/ AppDue(0)'
  <2>1. CASE h.ok /\ h.kind = "apps" BY <1>4, <1>5, <2>1 DEF PluginLists, Reloads, Settings
  <2>2. CASE ~h.ok /\ h.kind \in {"apps"} \cup Reloads BY <1>4, <2>2
  <2>3. CASE h.ok /\ h.kind \in Settings
    <3>1. PICK j \in DOMAIN e : e[j].kind = "reload" BY <1>4, <2>3 DEF PluginLists, Reloads, Settings
    <3> QED BY <1>5, <3>1 DEF Reloads
  <2>4. CASE h.ok /\ h.kind \in Reloads
    <3>1. PICK j \in DOMAIN e : e[j].kind = "apps" BY <1>4, <2>4 DEF PluginLists, Reloads, Settings
    <3> QED BY <1>5, <3>1
  <2>5. CASE h.ok /\ h.kind = "app"
    <3>1. Listing({"app"}) BY <1>5, <2>5
    <3>2. appShown' = h.says BY <1>4, <1>6, <2>5, <3>1 DEF PluginLists, Reloads, Settings
    <3> QED BY <1>5, <2>5, <3>2
  <2>6. CASE h.kind \notin {"apps"} \cup Reloads /\ ~(h.ok /\ h.kind \in {"app"} \cup Settings)
    <3>1. appShown' = appShown /\ ("app" \in cut => "app" \in cut') BY <1>4, <2>6
    <3> QED BY <1>5, <1>6, <2>6, <3>1
  <2> QED BY <2>1, <2>2, <2>3, <2>4, <2>5, <2>6
<1>10. Listing({"plugins"})' => Listing(PluginLists)' BY DEF Listing, PluginLists
<1>11. Listing({"plugins"}) => Listing(PluginLists) BY DEF Listing, PluginLists
<1>12. loading' => Listing({"plugins"})' \/ "plugin" \in cut'
  BY <1>4, <1>5, <1>6 DEF PluginLists, Reloads, Settings
<1>13. installedOnly \/ catalog'.full \/ "plugin" \in cut' \/ Listing(PluginLists)'
  BY <1>4, <1>5, <1>6, <1>10, <1>12 DEF PluginLists, Reloads, Settings
<1>14. Listing({"app"})' => appShown' # "not listed"
  <2>1. Listing({"app"})' => appShown # "not listed" BY <1>4, <1>5, <1>6
  <2>2. h.ok /\ h.kind \in {"app", "apps"} => h.says # "not listed" BY <1>5 DEF Answers
  <2> QED BY <1>4, <2>1, <2>2
<1>15. AnswersTrue'
  <2> SUFFICES ASSUME NEW i \in DOMAIN pageAnswers'
               PROVE  /\ pageAnswers'[i].ok /\ pageAnswers'[i].kind \in PluginLists =>
                           pageAnswers'[i].says = plugin \/ PluginDue(i)'
                      /\ pageAnswers'[i].ok /\ pageAnswers'[i].kind \in {"app", "apps"} =>
                           pageAnswers'[i].says = app \/ AppDue(i)'
    BY <1>2 DEF AnswersTrue
  <2>1. i + 1 \in DOMAIN pageAnswers /\ pageAnswers'[i] = pageAnswers[i + 1]
        /\ (PluginDue(i + 1) => PluginDue(i)') /\ (AppDue(i + 1) => AppDue(i)')
    BY <1>5
  <2> QED BY <2>1 DEF PageInv, AnswersTrue
<1>16. ShownTrue' /\ Waiting' BY <1>2, <1>8, <1>9, <1>12, <1>13, <1>14 DEF ShownTrue, Waiting
<1> QED BY <1>7, <1>15, <1>16 DEF PageInv

\* The connection is lost: what it had to answer counts as cut short.
LEMMA PageCut == PageInv /\ Page!Disconnect => PageInv'
<1> SUFFICES ASSUME PageInv, Page!Disconnect PROVE PageInv' OBVIOUS
<1>1. /\ pageSent' = <<>> /\ pageAnswers' = <<>>
      /\ cut' = IF pageSent \o pageAnswers = <<>> THEN cut ELSE {"plugin", "app"}
      /\ UNCHANGED <<plugin, app, opened, installedOnly, catalog, appShown, loading, loaded>>
  BY DEF Page!Disconnect, Page!server, Page!page, Page!shown, Page!flags
<1>2. /\ pageSent' \in Seq(Requests) /\ pageAnswers' \in Seq(Answers)
      /\ DOMAIN pageSent' = {} /\ DOMAIN pageAnswers' = {}
  BY <1>1
<1>3. PageTyped'
  <2>1. PageTyped BY DEF PageInv
  <2>2. /\ plugin' \in {"available", "disabled", "enabled"} /\ app' \in {"on", "off"}
        /\ opened' \in BOOLEAN /\ installedOnly' \in BOOLEAN /\ loading' \in BOOLEAN
    BY <1>1, <2>1 DEF PageTyped
  <2>3. /\ catalog' \in [full : BOOLEAN, plugin : {"not listed", "available", "disabled", "enabled", "on", "off"}]
        /\ appShown' \in {"not listed", "on", "off"} /\ loaded' = catalog'.full
    BY <1>1, <2>1 DEF PageTyped
  <2> QED BY <1>1, <1>2, <2>2, <2>3 DEF PageTyped
<1>4. AnswersTrue' BY <1>2 DEF AnswersTrue
<1>5. \A k : ~Listing(k)' BY <1>2 DEF Listing
<1>6. CASE pageSent = <<>> /\ pageAnswers = <<>>
  <2>1. cut' = cut
    <3>1. pageSent \o pageAnswers = <<>> BY <1>6
    <3> QED BY <1>1, <3>1
  <2>2. UNCHANGED <<pageSent, pageAnswers>> BY <1>1, <1>6
  <2>3. UNCHANGED <<plugin, app, opened, installedOnly, catalog, appShown, loading, loaded>> BY <1>1
  <2>4. \A i : (PluginDue(i) => PluginDue(i)') /\ (AppDue(i) => AppDue(i)') BY <2>2, <2>3 DEF PluginDue, AppDue
  <2>5. \A k : Listing(k) <=> Listing(k)' BY <2>2 DEF Listing
  <2>6. ShownTrue' BY <2>1, <2>3, <2>4, <2>5 DEF PageInv, ShownTrue
  <2>7. Waiting' BY <2>1, <2>2, <2>3, <2>4, <2>5 DEF PageInv, Waiting
  <2> QED BY <1>3, <1>4, <2>6, <2>7 DEF PageInv
<1>7. CASE pageSent # <<>> \/ pageAnswers # <<>>
  <2>1. pageSent \in Seq(Requests) /\ pageAnswers \in Seq(Answers) BY DEF PageInv, PageTyped
  <2>2. Len(pageSent) \in Nat /\ Len(pageAnswers) \in Nat /\ (Len(pageSent) # 0 \/ Len(pageAnswers) # 0)
    BY <1>7, <2>1, LenProperties, EmptySeq
  <2>3. pageSent \o pageAnswers # <<>>
    <3>1. pageSent \in Seq(Requests \cup Answers) /\ pageAnswers \in Seq(Requests \cup Answers)
      BY <2>1, LenProperties
    <3>2. Len(pageSent \o pageAnswers) = Len(pageSent) + Len(pageAnswers) BY <3>1, ConcatProperties
    <3>3. Len(<<>>) = 0 OBVIOUS
    <3> QED BY <2>2, <3>2, <3>3
  <2>4. "plugin" \in cut' /\ "app" \in cut' BY <1>1, <2>3
  <2> QED BY <1>3, <1>4, <1>5, <2>4 DEF PageInv, ShownTrue, Waiting
<1> QED BY <1>6, <1>7

\* What the page shows is so, was cut short, or will be listed anew.
LEMMA PageAlways == Page!Spec => []PageInv
<1>1. ASSUME Page!Init PROVE PageInv
  <2>1. /\ pageSent = <<>> /\ pageAnswers = <<>> /\ pageSent \in Seq(Requests) /\ pageAnswers \in Seq(Answers)
        /\ DOMAIN pageSent = {} /\ DOMAIN pageAnswers = {}
    BY <1>1 DEF Page!Init
  <2>2. PageTyped BY <1>1, <2>1 DEF Page!Init, Page!NotListed, PageTyped
  <2>3. AnswersTrue BY <2>1 DEF AnswersTrue
  <2>4. ShownTrue /\ Waiting BY <1>1, <2>1 DEF Page!Init, ShownTrue, Waiting, Listing
  <2> QED BY <2>2, <2>3, <2>4 DEF PageInv
<1>2. PageInv /\ UNCHANGED <<plugin, app, pageSent, pageAnswers, opened, installedOnly, catalog, appShown,
                             loading, loaded, cut>> => PageInv'
  <2> SUFFICES ASSUME PageInv, UNCHANGED <<plugin, app, pageSent, pageAnswers, opened, installedOnly, catalog,
                                           appShown, loading, loaded, cut>>
               PROVE  PageInv'
    OBVIOUS
  <2>1. \A i : (PluginDue(i) => PluginDue(i)') /\ (AppDue(i) => AppDue(i)') BY DEF PluginDue, AppDue
  <2>2. \A k : Listing(k) <=> Listing(k)' BY DEF Listing
  <2>3. PageTyped'
    <3>1. PageTyped BY DEF PageInv
    <3>2. /\ plugin' \in {"available", "disabled", "enabled"} /\ app' \in {"on", "off"}
          /\ pageSent' \in Seq(Requests) /\ pageAnswers' \in Seq(Answers)
      BY <3>1 DEF PageTyped
    <3>3. /\ opened' \in BOOLEAN /\ installedOnly' \in BOOLEAN /\ loading' \in BOOLEAN
          /\ ~opened' => pageSent' = <<>> /\ pageAnswers' = <<>>
      BY <3>1 DEF PageTyped
    <3>4. /\ catalog' \in [full : BOOLEAN, plugin : {"not listed", "available", "disabled", "enabled", "on", "off"}]
          /\ appShown' \in {"not listed", "on", "off"} /\ loaded' = catalog'.full
      BY <3>1 DEF PageTyped
    <3> QED BY <3>2, <3>3, <3>4 DEF PageTyped
  <2>4. ShownTrue' /\ AnswersTrue' /\ Waiting' BY <2>1, <2>2 DEF PageInv, ShownTrue, AnswersTrue, Waiting
  <2> QED BY <2>3, <2>4 DEF PageInv
<1>3. PageInv /\ UNCHANGED Page!vars => PageInv'
  BY <1>2 DEF Page!vars, Page!server, Page!page, Page!shown, Page!flags, Page!bounds
<1>4. PageInv /\ Page!Reconnect => PageInv'
  BY <1>2 DEF Page!Reconnect, Page!server, Page!page, Page!shown, Page!flags, Page!bounds
<1>5. PageInv /\ [Page!Next]_(Page!vars) => PageInv'
  BY <1>3, <1>4, PageOpens, FilterToggles, ButtonPressed, RequestTaken, AnswerComes, PageCut DEF Page!Next
<1> QED BY <1>1, <1>5, PTL DEF Page!Spec

\* Once everything is answered the page tells the truth, unless a listing or a
\* change was cut short and nothing was listed since (refresh_extensions,
\* load_full_plugin_catalog, plugin_card).
THEOREM ExtensionsTrue == Page!Spec => []PageTrue
<1>1. PageInv => PageTrue
  <2> SUFFICES ASSUME PageInv, Page!Settled PROVE
        /\ \/ Page!render_extensions.plugin = plugin
           \/ installedOnly /\ plugin = "available" /\ Page!render_extensions.plugin = Page!NotListed
           \/ "plugin" \in cut
        /\ Page!render_extensions.app = app \/ "app" \in cut
        /\ installedOnly \/ catalog.full \/ "plugin" \in cut
        /\ ~Page!render_extensions.more \/ "plugin" \in cut
    BY DEF PageTrue, Page!PageTrue
  <2>1. opened /\ DOMAIN pageSent = {} /\ DOMAIN pageAnswers = {} BY DEF Page!Settled
  <2>2. ~PluginDue(0) /\ ~AppDue(0) /\ \A k : ~Listing(k) BY <2>1 DEF PluginDue, AppDue, Listing
  <2>3. /\ catalog.plugin = plugin \/ "plugin" \in cut
        /\ appShown = app \/ "app" \in cut
        /\ installedOnly \/ catalog.full \/ "plugin" \in cut
        /\ ~loading \/ "plugin" \in cut
    BY <2>1, <2>2 DEF PageInv, ShownTrue, Waiting
  <2>4. /\ Page!render_extensions.app = appShown /\ Page!render_extensions.more = loading
        /\ Page!render_extensions.plugin =
             IF installedOnly /\ catalog.plugin = "available" THEN Page!NotListed ELSE catalog.plugin
    BY DEF Page!render_extensions, Page!filtered_entries
  <2> QED BY <2>3, <2>4
<1> QED BY <1>1, PageAlways, PTL

---------------------------------------------------------------------------
(* The monitor of the rollout files: reading markers.                      *)

\* What a rollout is made of.
FileBytes == Monitor!Bytes

\* A text that was read: what a rollout has behind one position, up to another.
Reads(w, c, m, f) ==
    w \in Seq(FileBytes) /\ Len(w) = f - m /\ \A i \in 1..(f - m) : w[i] = c[m + i]

\* The last byte of a marker in a rollout.
Marked(c, i, b) == i \in 2..Len(c) /\ c[i - 1] = b[1] /\ c[i] = b[2]

AnyMark(c, i) == Marked(c, i, Monitor!Started) \/ Marked(c, i, Monitor!Complete)

\* What the markers up to a position say.
RunsAt(c, f) ==
    \E i \in 1..f : /\ Marked(c, i, Monitor!Started)
                    /\ \A j \in 1..f : Marked(c, j, Monitor!Complete) => i > j

\* A set of naturals that is not empty has a least element.
LEMMA LeastNatural ==
    ASSUME NEW T \in SUBSET Nat, T # {}
    PROVE  \E x \in T : \A y \in T : x <= y
<1>1. PICK x \in T : \A y \in T : <<y, x>> \notin OpToRel(<, Nat)
  BY NatLessThanWellFounded, WFMin
<1>2. \A y \in T : ~(y < x)
  BY <1>1 DEF OpToRel
<1> QED BY <1>2

\* And one below a bound a greatest.
LEMMA GreatestNatural ==
    ASSUME NEW n \in Nat, NEW T \in SUBSET (1..n), T # {}
    PROVE  \E x \in T : \A y \in T : y <= x
<1> DEFINE U == {n - x : x \in T}
<1>1. U \in SUBSET Nat /\ U # {}
  <2>1. \A x \in T : n - x \in Nat OBVIOUS
  <2>2. PICK x \in T : TRUE OBVIOUS
  <2>3. n - x \in U BY <2>2
  <2> QED BY <2>1, <2>3
<1>2. PICK u \in U : \A v \in U : u <= v BY <1>1, LeastNatural
<1>3. PICK x \in T : u = n - x BY <1>2
<1>4. ASSUME NEW y \in T PROVE y <= x
  <2>1. n - y \in U OBVIOUS
  <2> QED BY <1>2, <1>3, <2>1
<1> QED BY <1>4

\* Where a marker ends in a text.
LEMMA EndsAt ==
    ASSUME NEW w \in Seq(FileBytes), NEW b \in {Monitor!Started, Monitor!Complete}
    PROVE  Monitor!Ends(w, b) = {i \in 2..Len(w) : Marked(w, i, b)}
<1>1. b \in Seq(FileBytes) /\ Len(b) = 2
  <2>1. CASE b = Monitor!Started
    BY <2>1 DEF FileBytes, Monitor!Bytes, Monitor!Started
  <2>2. CASE b = Monitor!Complete
    BY <2>2 DEF FileBytes, Monitor!Bytes, Monitor!Complete
  <2> QED BY <2>1, <2>2
<1>2. ASSUME NEW i \in 2..Len(w) PROVE (SubSeq(w, i - 1, i) = b) <=> (w[i - 1] = b[1] /\ w[i] = b[2])
  <2>1. Len(w) \in Nat BY LenProperties
  <2>2. PICK v : v = SubSeq(w, i - 1, i) OBVIOUS
  <2>3. i - 1 \in 1..(Len(w) + 1) /\ i \in (i - 1) - 1..Len(w) /\ i - (i - 1) + 1 = 2 BY <2>1
  <2>4. v \in Seq(FileBytes) /\ Len(v) = 2 /\ \A k \in 1..2 : v[k] = w[(i - 1) + k - 1]
    <3>1. /\ SubSeq(w, i - 1, i) \in Seq(FileBytes)
          /\ Len(SubSeq(w, i - 1, i)) = IF i - 1 <= i THEN i - (i - 1) + 1 ELSE 0
          /\ \A k \in 1..(i - (i - 1) + 1) : SubSeq(w, i - 1, i)[k] = w[(i - 1) + k - 1]
      BY <2>3, SubSeqProperties
    <3>2. i - 1 <= i /\ i - (i - 1) + 1 = 2 BY <2>1
    <3>3. Len(v) = 2 /\ \A k \in 1..2 : v[k] = w[(i - 1) + k - 1] BY <2>2, <3>1, <3>2
    <3>4. v \in Seq(FileBytes) BY <2>2, <3>1
    <3> QED BY <3>3, <3>4
  <2>5. v[1] = w[i - 1] /\ v[2] = w[i] BY <2>1, <2>4
  <2>6. v = b <=> v[1] = b[1] /\ v[2] = b[2]
    <3>1. ASSUME v[1] = b[1], v[2] = b[2] PROVE v = b
      <4>1. \A k \in 1..Len(v) : v[k] = b[k] BY <2>4, <3>1
      <4> QED BY <1>1, <2>4, <4>1, SeqEqual
    <3> QED BY <3>1
  <2> QED BY <2>2, <2>5, <2>6
<1>3. Len(w) \in Nat BY LenProperties
<1> QED BY <1>2, <1>3 DEF Monitor!Ends, Marked

\* The markers of a text are those of the rollout it was read from.
LEMMA MarksRead ==
    ASSUME NEW c \in Seq(FileBytes), NEW m \in Nat, NEW f \in Nat, m <= f, f <= Len(c), NEW w, Reads(w, c, m, f),
           NEW b \in {Monitor!Started, Monitor!Complete}
    PROVE  Monitor!Ends(w, b) = {i \in 2..(f - m) : Marked(c, m + i, b)}
<1>1. Monitor!Ends(w, b) = {i \in 2..Len(w) : Marked(w, i, b)} BY EndsAt DEF Reads
<1>2. Len(w) = f - m /\ Len(c) \in Nat BY LenProperties DEF Reads
<1>3. ASSUME NEW i \in 2..(f - m) PROVE Marked(w, i, b) <=> Marked(c, m + i, b)
  <2>1. w[i] = c[m + i] /\ w[i - 1] = c[m + (i - 1)] BY DEF Reads
  <2>2. m + (i - 1) = (m + i) - 1 /\ m + i \in 2..Len(c) BY <1>2
  <2> QED BY <1>2, <2>1, <2>2 DEF Marked
<1> QED BY <1>1, <1>2, <1>3

\* What a text says: nothing if it holds no marker, else what all up to its end
\* say.
LEMMA TextSays ==
    ASSUME NEW c \in Seq(FileBytes), NEW m \in Nat, NEW f \in Nat, m <= f, f <= Len(c), NEW w, Reads(w, c, m, f)
    PROVE  /\ Monitor!LatestMarker(w) = "none" <=> \A i \in (m + 2)..f : ~AnyMark(c, i)
           /\ Monitor!LatestMarker(w) # "none" =>
                ((Monitor!LatestMarker(w) = "running") <=> RunsAt(c, f))
<1> DEFINE S == {i \in 2..(f - m) : Marked(c, m + i, Monitor!Started)}
           C == {i \in 2..(f - m) : Marked(c, m + i, Monitor!Complete)}
<1>1. Monitor!Ends(w, Monitor!Started) = S /\ Monitor!Ends(w, Monitor!Complete) = C BY MarksRead
<1>2. Monitor!LatestMarker(w) = IF S = {} /\ C = {} THEN "none"
                                ELSE IF \E i \in S : \A j \in C : i > j THEN "running" ELSE "idle"
  BY <1>1 DEF Monitor!LatestMarker
<1> HIDE DEF S, C
<1>3. (S = {} /\ C = {}) <=> \A i \in (m + 2)..f : ~AnyMark(c, i)
  <2>1. ASSUME NEW i \in (m + 2)..f PROVE i - m \in 2..(f - m) /\ m + (i - m) = i OBVIOUS
  <2>2. ASSUME NEW i \in 2..(f - m) PROVE m + i \in (m + 2)..f OBVIOUS
  <2> QED BY <2>1, <2>2 DEF S, C, AnyMark
<1>4. ASSUME S # {} \/ C # {} PROVE (\E i \in S : \A j \in C : i > j) <=> RunsAt(c, f)
  <2>1. ASSUME NEW i \in S, \A j \in C : i > j PROVE RunsAt(c, f)
    <3>1. m + i \in 1..f /\ Marked(c, m + i, Monitor!Started) /\ i \in Nat /\ i >= 2 BY DEF S
    <3>2. ASSUME NEW j \in 1..f, Marked(c, j, Monitor!Complete) PROVE m + i > j
      <4>1. CASE j >= m + 2
        <5>1. j - m \in C BY <3>2, <4>1 DEF C
        <5> QED BY <2>1, <3>1, <5>1
      <4> QED BY <3>1, <4>1
    <3> QED BY <3>1, <3>2 DEF RunsAt
  <2>2. ASSUME RunsAt(c, f) PROVE \E i \in S : \A j \in C : i > j
    <3>1. PICK i \in 1..f : /\ Marked(c, i, Monitor!Started)
                            /\ \A j \in 1..f : Marked(c, j, Monitor!Complete) => i > j
      BY <2>2 DEF RunsAt
    <3>2. \A j \in C : m + j \in 1..f /\ j \in Nat /\ j >= 2 /\ i > m + j BY <3>1 DEF C
    <3>3. CASE i >= m + 2
      <4>1. i - m \in S BY <3>1, <3>3 DEF S
      <4> QED BY <3>2, <4>1
    <3>4. CASE i < m + 2
      <4>1. C = {} BY <3>2, <3>4
      <4> QED BY <1>4, <4>1
    <3> QED BY <3>3, <3>4
  <2> QED BY <2>1, <2>2
<1> QED BY <1>2, <1>3, <1>4

\* Where no marker ends, what the markers say does not change.
LEMMA SaysTheSame ==
    ASSUME NEW c \in Seq(FileBytes), NEW e \in Nat, NEW f \in Nat, e <= f,
           \A i \in (e + 1)..f : ~AnyMark(c, i)
    PROVE  RunsAt(c, e) <=> RunsAt(c, f)
<1>1. \A i \in 1..f : i \in 1..e \/ ~AnyMark(c, i) OBVIOUS
<1>2. \A i \in 1..e : i \in 1..f OBVIOUS
<1> QED BY <1>1, <1>2 DEF RunsAt, AnyMark

\* Part of a rollout, and a text and what follows it.
LEMMA PartRead ==
    ASSUME NEW c \in Seq(FileBytes), NEW m \in Nat, NEW f \in Nat, m <= f, f <= Len(c)
    PROVE  Reads(SubSeq(c, m + 1, f), c, m, f)
<1>1. Len(c) \in Nat BY LenProperties
<1>2. m + 1 \in 1..(Len(c) + 1) /\ f \in (m + 1) - 1..Len(c) BY <1>1
<1>3. /\ SubSeq(c, m + 1, f) \in Seq(FileBytes)
      /\ Len(SubSeq(c, m + 1, f)) = IF m + 1 <= f THEN f - (m + 1) + 1 ELSE 0
      /\ \A i \in 1..(f - (m + 1) + 1) : SubSeq(c, m + 1, f)[i] = c[(m + 1) + i - 1]
  BY <1>2, SubSeqProperties
<1>4. f - (m + 1) + 1 = f - m /\ \A i \in 1..(f - m) : (m + 1) + i - 1 = m + i OBVIOUS
<1> QED BY <1>3, <1>4 DEF Reads

LEMMA JoinRead ==
    ASSUME NEW c \in Seq(FileBytes), NEW m \in Nat, NEW e \in Nat, NEW f \in Nat, m <= e, e <= f, f <= Len(c),
           NEW u, Reads(u, c, m, e), NEW v, Reads(v, c, e, f)
    PROVE  Reads(u \o v, c, m, f)
<1>1. PICK w : w = u \o v OBVIOUS
<1>2. w \in Seq(FileBytes) /\ Len(w) = Len(u) + Len(v)
      /\ \A i \in 1..Len(u) + Len(v) : w[i] = IF i <= Len(u) THEN u[i] ELSE v[i - Len(u)]
  BY <1>1, ConcatProperties DEF Reads
<1>3. Len(u) = e - m /\ Len(v) = f - e /\ Len(u) + Len(v) = f - m BY DEF Reads
<1>4. ASSUME NEW i \in 1..(f - m) PROVE w[i] = c[m + i]
  <2>1. CASE i <= e - m
    <3>1. w[i] = u[i] /\ i \in 1..(e - m) BY <1>2, <1>3, <2>1
    <3> QED BY <3>1 DEF Reads
  <2>2. CASE ~(i <= e - m)
    <3>1. w[i] = v[i - (e - m)] /\ i - (e - m) \in 1..(f - e) /\ e + (i - (e - m)) = m + i BY <1>2, <1>3, <2>2
    <3> QED BY <3>1 DEF Reads
  <2> QED BY <2>1, <2>2
<1> QED BY <1>1, <1>2, <1>3, <1>4 DEF Reads

\* The last bytes of a text: a text that ends where it does, and not empty if
\* it was not.
LEMMA TailRead ==
    ASSUME NEW c \in Seq(FileBytes), NEW m \in Nat, NEW f \in Nat, m <= f, f <= Len(c), NEW w, Reads(w, c, m, f)
    PROVE  \E k \in Nat : k <= f /\ (m < f => k < f) /\ (m = f => k = f) /\ Reads(Monitor!TailBytes(w), c, k, f)
<1> DEFINE o == Monitor!Least(Len(w), Overlap)
           l == Len(w) - o
<1>1. Overlap \in Nat /\ Overlap >= 1 BY ChunkAssumption
<1>2. Len(w) = f - m /\ w \in Seq(FileBytes) BY DEF Reads
<1>3. o \in Nat /\ o <= f - m /\ (m < f => o >= 1) /\ l = (f - m) - o BY <1>1, <1>2 DEF Monitor!Least
<1> HIDE DEF o
<1>4. Monitor!TailBytes(w) = SubSeq(w, l + 1, Len(w)) BY DEF Monitor!TailBytes, o
<1>5. Reads(SubSeq(w, l + 1, Len(w)), w, l, Len(w)) BY <1>2, <1>3, PartRead
<1>6. m + l \in Nat /\ m + l <= f /\ f - (m + l) = Len(w) - l BY <1>2, <1>3
<1>7. ASSUME NEW i \in 1..(f - (m + l)) PROVE w[l + i] = c[(m + l) + i]
  <2>1. l + i \in 1..(f - m) /\ m + (l + i) = (m + l) + i BY <1>2, <1>3
  <2> QED BY <2>1 DEF Reads
<1>8. Reads(Monitor!TailBytes(w), c, m + l, f) BY <1>4, <1>5, <1>6, <1>7 DEF Reads
<1> QED BY <1>2, <1>3, <1>6, <1>8

\* Counting in chunks.
LEMMA Blocks ==
    ASSUME NEW l \in Nat, NEW n, n = (l + Chunk - 1) \div Chunk
    PROVE  /\ n \in Nat
           /\ \A k \in 1..n : (k - 1) * Chunk \in Nat /\ (k - 1) * Chunk < l /\ (k > 1 => (k - 1) * Chunk >= Chunk)
           /\ \A x \in 0..(l - 1) : \E k \in 1..n : (k - 1) * Chunk <= x /\ x < (k - 1) * Chunk + Chunk
           /\ \A j, k \in 1..n : j < k => (j - 1) * Chunk + Chunk <= (k - 1) * Chunk
<1>1. Chunk \in Nat /\ Chunk >= 1 BY ChunkAssumption
<1>2. ASSUME NEW x \in Nat PROVE /\ x \div Chunk \in Nat
                                 /\ Chunk * (x \div Chunk) <= x /\ x < Chunk * (x \div Chunk) + Chunk
  BY <1>1
<1>3. ASSUME NEW a \in Nat, NEW b \in Nat, a <= b PROVE a * Chunk \in Nat /\ a * Chunk <= b * Chunk
  <2>1. ASSUME NEW x \in Nat PROVE x * Chunk \in Nat BY <1>1
  <2>2. b - a \in Nat /\ (b - a) * Chunk = b * Chunk - a * Chunk BY <1>1, <1>3
  <2>3. a * Chunk \in Nat /\ b * Chunk \in Nat /\ (b - a) * Chunk \in Nat BY <2>1, <2>2
  <2> QED BY <2>2, <2>3
<1>4. ASSUME NEW a \in Int PROVE (a - 1) * Chunk = a * Chunk - Chunk
  BY <1>1
<1>5. l + Chunk - 1 \in Nat BY <1>1
<1>6. n \in Nat /\ n * Chunk <= l + Chunk - 1 /\ l + Chunk - 1 < n * Chunk + Chunk
  <2>1. n \in Nat /\ Chunk * n <= l + Chunk - 1 /\ l + Chunk - 1 < Chunk * n + Chunk BY <1>2, <1>5
  <2>2. Chunk * n = n * Chunk BY <1>1, <2>1
  <2> QED BY <2>1, <2>2
<1>7. ASSUME NEW k \in 1..n
      PROVE  (k - 1) * Chunk \in Nat /\ (k - 1) * Chunk < l /\ (k > 1 => (k - 1) * Chunk >= Chunk)
  <2>1. k * Chunk <= n * Chunk /\ k * Chunk \in Nat BY <1>3, <1>6
  <2>2. k - 1 \in Nat /\ (k - 1) * Chunk = k * Chunk - Chunk BY <1>4, <1>6
  <2>3. (k - 1) * Chunk \in Nat BY <1>3, <2>2
  <2>4. k > 1 => 1 * Chunk <= (k - 1) * Chunk BY <1>3, <2>2
  <2>5. n * Chunk \in Nat BY <1>3, <1>6
  <2> QED BY <1>1, <1>6, <2>1, <2>2, <2>3, <2>4, <2>5
<1>8. ASSUME NEW x \in 0..(l - 1)
      PROVE  \E k \in 1..n : (k - 1) * Chunk <= x /\ x < (k - 1) * Chunk + Chunk
  <2>1. PICK q \in Nat : q = x \div Chunk BY <1>2
  <2>2. q * Chunk <= x /\ x < q * Chunk + Chunk
    <3>1. Chunk * q <= x /\ x < Chunk * q + Chunk BY <1>2, <2>1
    <3>2. Chunk * q = q * Chunk BY <1>1
    <3> QED BY <3>1, <3>2
  <2>3. q < n
    <3>1. SUFFICES ASSUME n <= q PROVE FALSE BY <1>6
    <3>2. n * Chunk <= q * Chunk /\ q * Chunk \in Nat /\ n * Chunk \in Nat BY <1>3, <1>6, <3>1
    <3> QED BY <1>1, <1>6, <2>2, <3>2
  <2>4. q + 1 \in 1..n /\ (q + 1) - 1 = q BY <1>6, <2>3
  <2> QED BY <2>2, <2>4
<1>9. ASSUME NEW j \in 1..n, NEW k \in 1..n, j < k PROVE (j - 1) * Chunk + Chunk <= (k - 1) * Chunk
  <2>1. j \in Nat /\ k - 1 \in Nat /\ j <= k - 1 BY <1>6, <1>9
  <2>2. j * Chunk <= (k - 1) * Chunk /\ j * Chunk \in Nat /\ (k - 1) * Chunk \in Nat BY <1>3, <2>1
  <2>3. (j - 1) * Chunk = j * Chunk - Chunk BY <1>4
  <2> QED BY <1>1, <2>2, <2>3
<1> QED BY <1>6, <1>7, <1>8, <1>9

\* latest_marker_in_file: chunk by chunk from the end, it finds what the last
\* marker of the file says.
LEMMA FileSays ==
    ASSUME NEW c \in Seq(FileBytes)
    PROVE  (Monitor!LatestInFile(c) = "running") <=> RunsAt(c, Len(c))
<1> DEFINE l == Len(c)
           n == (l + Chunk - 1) \div Chunk
           Back(k) == (k - 1) * Chunk
           End(k) == l - Back(k)
           From(k) == IF End(k) > Chunk THEN End(k) - Chunk ELSE 0
           Top(k) == End(k) + (IF k = 1 THEN 0 ELSE Overlap)
           W(k) == Monitor!Window(c, k)
           hit == {k \in 1..n : Monitor!LatestMarker(W(k)) # "none"}
<1>1. l \in Nat /\ Chunk \in Nat /\ Overlap \in Nat /\ 1 <= Overlap /\ Overlap <= Chunk
  BY ChunkAssumption, LenProperties
<1>2. PICK N : N = n OBVIOUS
<1>3. /\ N \in Nat
      /\ \A k \in 1..N : Back(k) \in Nat /\ Back(k) < l /\ (k > 1 => Back(k) >= Chunk)
      /\ \A x \in 0..(l - 1) : \E k \in 1..N : Back(k) <= x /\ x < Back(k) + Chunk
      /\ \A j, k \in 1..N : j < k => Back(j) + Chunk <= Back(k)
  BY <1>1, <1>2, Blocks
<1> HIDE DEF n
<1>4. ASSUME NEW k \in 1..N
      PROVE  /\ Back(k) \in Nat /\ From(k) \in Nat /\ Top(k) \in Nat /\ From(k) <= Top(k) /\ Top(k) <= l
             /\ Reads(W(k), c, From(k), Top(k))
  <2>1. Back(k) \in Nat /\ Back(k) < l /\ (k > 1 => Back(k) >= Chunk) /\ k \in Nat /\ k >= 1 BY <1>3
  <2>2. W(k) = SubSeq(c, IF End(k) > Chunk THEN End(k) - Chunk + 1 ELSE 1, Top(k)) BY DEF Monitor!Window
  <2> HIDE DEF Back, W
  <2>3. (IF End(k) > Chunk THEN End(k) - Chunk + 1 ELSE 1) = From(k) + 1 BY <1>1, <2>1
  <2>4. From(k) \in Nat /\ Top(k) \in Nat /\ From(k) <= Top(k) /\ Top(k) <= l BY <1>1, <2>1
  <2>5. W(k) = SubSeq(c, From(k) + 1, Top(k)) BY <2>2, <2>3
  <2> HIDE DEF From, Top
  <2> QED BY <2>1, <2>4, <2>5, PartRead
<1> HIDE DEF W
<1>5. ASSUME NEW i \in 2..l
      PROVE  \E k \in 1..N : Back(k) <= l - (i - 1) /\ i \in (From(k) + 2)..Top(k)
  <2>1. l - (i - 1) \in 0..(l - 1) BY <1>1
  <2>2. PICK k \in 1..N : Back(k) <= l - (i - 1) /\ l - (i - 1) < Back(k) + Chunk BY <1>3, <2>1
  <2>3. Back(k) \in Nat /\ Top(k) \in Nat /\ From(k) \in Nat BY <1>4
  <2>5. k = 1 => Back(k) = 0 BY <1>1
  <2> HIDE DEF Back
  <2>4. From(k) + 2 <= i /\ i <= Top(k)
    <3>1. PICK g : g = l - Back(k) OBVIOUS
    <3>2. g \in Int /\ g >= i - 1 /\ g < i - 1 + Chunk /\ i \in Nat /\ i >= 2 BY <1>1, <2>2, <2>3, <3>1
    <3>3. From(k) + 2 <= i
      <4>1. From(k) = IF g > Chunk THEN g - Chunk ELSE 0 BY <3>1
      <4> HIDE DEF From
      <4>2. CASE g > Chunk BY <1>1, <3>2, <4>1, <4>2
      <4>3. CASE ~(g > Chunk) BY <3>2, <4>1, <4>3
      <4> QED BY <4>2, <4>3
    <3>4. i <= Top(k)
      <4>1. Top(k) = g + (IF k = 1 THEN 0 ELSE Overlap) BY <3>1
      <4> HIDE DEF Top
      <4>2. CASE k = 1
        <5>1. g = l BY <1>1, <2>5, <3>1, <4>2
        <5> QED BY <1>1, <4>1, <4>2, <5>1
      <4>3. CASE k # 1 BY <1>1, <3>2, <4>1, <4>3
      <4> QED BY <4>2, <4>3
    <3> QED BY <3>3, <3>4
  <2> QED BY <2>2, <2>3, <2>4
<1>6. Monitor!LatestInFile(c) = IF hit = {} THEN "none"
                                ELSE Monitor!LatestMarker(W(CHOOSE k \in hit : \A j \in hit : k <= j))
  BY <1>2 DEF Monitor!LatestInFile, W, n
<1>7. ASSUME NEW k \in 1..N
      PROVE  /\ (k \notin hit) => \A i \in (From(k) + 2)..Top(k) : ~AnyMark(c, i)
             /\ (k \in hit) => ((Monitor!LatestMarker(W(k)) = "running") <=> RunsAt(c, Top(k)))
  <2>1. k \in hit <=> Monitor!LatestMarker(W(k)) # "none" BY <1>2
  <2> HIDE DEF hit, From, Top
  <2> QED BY <1>4, <2>1, TextSays
<1>8. \A i : AnyMark(c, i) => i \in 2..l BY DEF AnyMark, Marked
<1>9. CASE hit = {}
  <2>1. ASSUME NEW i, AnyMark(c, i) PROVE FALSE
    <3>1. PICK k \in 1..N : i \in (From(k) + 2)..Top(k) BY <1>5, <1>8, <2>1
    <3>2. k \notin hit BY <1>9
    <3> HIDE DEF hit, From, Top
    <3> QED BY <1>7, <2>1, <3>1, <3>2
  <2>2. ~RunsAt(c, l) BY <2>1 DEF RunsAt, AnyMark
  <2> QED BY <1>6, <1>9, <2>2
<1>10. CASE hit # {}
  <2>1. hit \in SUBSET (1..N) /\ hit \in SUBSET Nat BY <1>2, <1>3
  <2> HIDE DEF hit
  <2>2. \E k \in hit : \A j \in hit : k <= j BY <1>10, <2>1, LeastNatural
  <2>3. PICK K : K = CHOOSE k \in hit : \A j \in hit : k <= j OBVIOUS
  <2>4. K \in hit /\ (\A j \in hit : K <= j) /\ K \in 1..N BY <2>1, <2>2, <2>3
  <2>5. Top(K) \in Nat /\ Top(K) <= l /\ Back(K) \in Nat BY <1>4, <2>4
  <2>6. ASSUME NEW i \in (Top(K) + 1)..l, AnyMark(c, i) PROVE FALSE
    <3>1. i \in 2..l BY <1>8, <2>6
    <3>2. PICK k \in 1..N : Back(k) <= l - (i - 1) /\ i \in (From(k) + 2)..Top(k) BY <1>5, <3>1
    <3>3. k \in hit
      <4> HIDE DEF From, Top
      <4> QED BY <1>7, <2>6, <3>2
    <3>4. K <= k /\ k \in Nat /\ K \in Nat /\ K >= 1 BY <1>3, <2>4, <3>2, <3>3
    <3>5. k = K \/ Back(K) + Chunk <= Back(k)
      <4> HIDE DEF Back
      <4> QED BY <1>3, <2>4, <3>2, <3>4
    <3>6. Back(k) \in Nat /\ i \in Nat BY <1>4, <3>1, <3>2
    <3> HIDE DEF Back
    <3>7. k # K BY <2>5, <2>6, <3>2
    <3>8. Top(K) >= End(K) BY <1>1, <2>5
    <3> QED BY <1>1, <2>5, <2>6, <3>2, <3>5, <3>6, <3>7, <3>8
  <2>7. RunsAt(c, Top(K)) <=> RunsAt(c, l)
    <3> HIDE DEF Top
    <3> QED BY <1>1, <2>5, <2>6, SaysTheSame
  <2> QED BY <1>6, <1>7, <1>10, <2>3, <2>4, <2>7
<1> QED BY <1>9, <1>10

\* What the monitor knows of a file it has read up to a position.
Followed(c, f) ==
    /\ \E m \in Nat : m <= f.offset /\ (m = f.offset => f.offset = 0) /\ Reads(f.overlap, c, m, f.offset)
    /\ f.running \in BOOLEAN /\ (f.running <=> RunsAt(c, f.offset))

\* The overlap goes along with what is read.
LEMMA OverlapRead ==
    ASSUME NEW c \in Seq(FileBytes), NEW s, s.offset \in Nat, Followed(c, s), NEW e \in Nat, s.offset <= e, e <= Len(c)
    PROVE  \E k \in Nat : k <= e /\ (k = e => e = 0) /\ Reads(Monitor!OverlapAt(s, c, e), c, k, e)
<1>1. PICK m \in Nat : m <= s.offset /\ (m = s.offset => s.offset = 0) /\ Reads(s.overlap, c, m, s.offset)
  BY DEF Followed
<1>2. Len(c) \in Nat BY LenProperties
<1>3. Reads(SubSeq(c, s.offset + 1, e), c, s.offset, e) BY PartRead
<1>4. Reads(s.overlap \o SubSeq(c, s.offset + 1, e), c, m, e) BY <1>1, <1>3, JoinRead
<1>5. m <= e BY <1>1
<1>6. PICK k \in Nat : /\ k <= e /\ (m < e => k < e) /\ (m = e => k = e)
                       /\ Reads(Monitor!TailBytes(s.overlap \o SubSeq(c, s.offset + 1, e)), c, k, e)
  BY <1>4, <1>5, TailRead
<1>7. k = e => e = 0 BY <1>1, <1>5, <1>6
<1> QED BY <1>6, <1>7 DEF Monitor!OverlapAt

\* read_appended: what it knows of the file to its end.
LEMMA AppendedSays ==
    ASSUME NEW c \in Seq(FileBytes), NEW s, s.offset \in Nat, s.offset <= Len(c), Followed(c, s)
    PROVE  Followed(c, Monitor!ReadAppended(s, c)) /\ Monitor!ReadAppended(s, c).offset = Len(c)
           /\ Monitor!ReadAppended(s, c) \in [offset : Nat, running : BOOLEAN, overlap : Seq(FileBytes)]
<1> DEFINE l == Len(c)
           o == s.offset
           n == (l - o + Chunk - 1) \div Chunk
           From(k) == o + (k - 1) * Chunk
           To(k) == Monitor!Least(From(k) + Chunk, l)
           W(k) == Monitor!Combined(s, c, k)
           hit == {k \in 1..n : Monitor!LatestMarker(W(k)) # "none"}
<1>1. l \in Nat /\ Chunk \in Nat /\ Chunk >= 1 BY ChunkAssumption, LenProperties
<1>2. PICK N : N = n OBVIOUS
<1>3. /\ N \in Nat
      /\ \A k \in 1..N : (k - 1) * Chunk \in Nat /\ (k - 1) * Chunk < l - o
      /\ \A x \in 0..(l - o - 1) : \E k \in 1..N : (k - 1) * Chunk <= x /\ x < (k - 1) * Chunk + Chunk
      /\ \A j, k \in 1..N : j < k => (j - 1) * Chunk + Chunk <= (k - 1) * Chunk
  <2>1. PICK b : b = l - o OBVIOUS
  <2>2. b \in Nat /\ N = (b + Chunk - 1) \div Chunk BY <1>1, <1>2, <2>1
  <2>3. /\ N \in Nat
        /\ \A k \in 1..N : (k - 1) * Chunk \in Nat /\ (k - 1) * Chunk < b
        /\ \A x \in 0..(b - 1) : \E k \in 1..N : (k - 1) * Chunk <= x /\ x < (k - 1) * Chunk + Chunk
        /\ \A j, k \in 1..N : j < k => (j - 1) * Chunk + Chunk <= (k - 1) * Chunk
    BY <2>2, Blocks
  <2> QED BY <2>1, <2>3
<1> HIDE DEF n
<1>4. ASSUME NEW k \in 1..N
      PROVE  /\ From(k) \in Nat /\ To(k) \in Nat /\ o <= From(k) /\ From(k) <= To(k) /\ To(k) <= l
             /\ \E m \in Nat : m <= From(k) /\ (m = From(k) => From(k) = 0) /\ Reads(W(k), c, m, To(k))
  <2>1. From(k) \in Nat /\ To(k) \in Nat /\ o <= From(k) /\ From(k) <= To(k) /\ To(k) <= l
    <3>1. (k - 1) * Chunk \in Nat /\ (k - 1) * Chunk < l - o BY <1>3
    <3>2. PICK x : x = (k - 1) * Chunk OBVIOUS
    <3>3. PICK f : f = o + x OBVIOUS
    <3>4. f \in Nat /\ o <= f /\ f < l BY <1>1, <3>1, <3>2, <3>3
    <3>5. PICK u : u = Monitor!Least(f + Chunk, l) OBVIOUS
    <3>6. u \in Nat /\ f <= u /\ u <= l BY <1>1, <3>4, <3>5 DEF Monitor!Least
    <3> QED BY <3>2, <3>3, <3>4, <3>5, <3>6
  <2>2. W(k) = Monitor!OverlapAt(s, c, From(k)) \o SubSeq(c, From(k) + 1, To(k)) BY DEF Monitor!Combined
  <2> HIDE DEF From, To, W
  <2>3. PICK m \in Nat : m <= From(k) /\ (m = From(k) => From(k) = 0)
                         /\ Reads(Monitor!OverlapAt(s, c, From(k)), c, m, From(k))
    BY <1>1, <2>1, OverlapRead
  <2>4. Reads(SubSeq(c, From(k) + 1, To(k)), c, From(k), To(k)) BY <2>1, PartRead
  <2>5. Reads(W(k), c, m, To(k)) BY <2>1, <2>2, <2>3, <2>4, JoinRead
  <2> QED BY <2>1, <2>3, <2>5
<1> HIDE DEF W
<1>5. \A i : AnyMark(c, i) => i \in 2..l BY DEF AnyMark, Marked
<1>6. ASSUME NEW k \in 1..N
      PROVE  /\ (k \notin hit) => \A i \in (From(k) + 1)..To(k) : ~AnyMark(c, i)
             /\ (k \in hit) => ((Monitor!LatestMarker(W(k)) = "running") <=> RunsAt(c, To(k)))
  <2>1. k \in hit <=> Monitor!LatestMarker(W(k)) # "none" BY <1>2
  <2> HIDE DEF hit, From, To
  <2>2. From(k) \in Nat /\ To(k) \in Nat /\ From(k) <= To(k) /\ To(k) <= l BY <1>4
  <2>3. PICK m \in Nat : m <= From(k) /\ (m = From(k) => From(k) = 0) /\ Reads(W(k), c, m, To(k)) BY <1>4
  <2>4. /\ Monitor!LatestMarker(W(k)) = "none" <=> \A i \in (m + 2)..To(k) : ~AnyMark(c, i)
        /\ Monitor!LatestMarker(W(k)) # "none" =>
             ((Monitor!LatestMarker(W(k)) = "running") <=> RunsAt(c, To(k)))
    BY <2>2, <2>3, TextSays
  <2>5. ASSUME NEW i \in (From(k) + 1)..To(k), AnyMark(c, i) PROVE i \in (m + 2)..To(k)
    <3>1. i \in 2..l BY <1>5, <2>5
    <3> QED BY <2>2, <2>3, <3>1
  <2> QED BY <2>1, <2>4, <2>5
<1>7. ASSUME NEW i \in (o + 1)..l
      PROVE  \E k \in 1..N : i \in (From(k) + 1)..To(k)
  <2>1. i - 1 - o \in 0..(l - o - 1) BY <1>1
  <2>2. PICK k \in 1..N : (k - 1) * Chunk <= i - 1 - o /\ i - 1 - o < (k - 1) * Chunk + Chunk BY <1>3, <2>1
  <2>3. (k - 1) * Chunk \in Nat BY <1>3
  <2>4. i \in (From(k) + 1)..To(k) BY <1>1, <2>2, <2>3 DEF Monitor!Least
  <2> QED BY <2>4
<1>8. Monitor!ReadAppended(s, c) =
        [offset |-> l, overlap |-> Monitor!OverlapAt(s, c, l),
         running |-> IF hit = {} THEN s.running
                     ELSE Monitor!LatestMarker(W(CHOOSE k \in hit : \A j \in hit : j <= k)) = "running"]
  BY <1>2 DEF Monitor!ReadAppended, W, n
<1>9. ASSUME hit = {} PROVE s.running \in BOOLEAN /\ (s.running <=> RunsAt(c, l))
  <2>1. ASSUME NEW i \in (o + 1)..l PROVE ~AnyMark(c, i)
    <3>1. PICK k \in 1..N : i \in (From(k) + 1)..To(k) BY <1>7
    <3>2. k \notin hit BY <1>9
    <3> HIDE DEF hit, From, To
    <3> QED BY <1>6, <3>1, <3>2
  <2>2. RunsAt(c, o) <=> RunsAt(c, l)
    <3> HIDE DEF hit
    <3> QED BY <1>1, <2>1, SaysTheSame
  <2> QED BY <2>2 DEF Followed
<1>10. ASSUME hit # {} PROVE (Monitor!LatestMarker(W(CHOOSE k \in hit : \A j \in hit : j <= k)) = "running")
                               <=> RunsAt(c, l)
  <2>1. hit \in SUBSET (1..N) BY <1>2
  <2> HIDE DEF hit
  <2>2. \E k \in hit : \A j \in hit : j <= k BY <1>3, <1>10, <2>1, GreatestNatural
  <2>3. PICK K : K = CHOOSE k \in hit : \A j \in hit : j <= k OBVIOUS
  <2>4. K \in hit /\ (\A j \in hit : j <= K) /\ K \in 1..N BY <2>1, <2>2, <2>3
  <2>5. To(K) \in Nat /\ To(K) <= l /\ From(K) \in Nat /\ o <= From(K) /\ From(K) <= To(K) BY <1>4, <2>4
  <2>6. ASSUME NEW i \in (To(K) + 1)..l, AnyMark(c, i) PROVE FALSE
    <3>1. i \in (o + 1)..l BY <1>1, <2>5
    <3>2. PICK k \in 1..N : i \in (From(k) + 1)..To(k) BY <1>7, <3>1
    <3>3. k \in hit
      <4> HIDE DEF From, To
      <4> QED BY <1>6, <2>6, <3>2
    <3>4. k <= K /\ k \in Nat /\ K \in Nat BY <1>3, <2>4, <3>3
    <3>5. k = K \/ From(k) + Chunk <= From(K)
      <4>1. k < K => (k - 1) * Chunk + Chunk <= (K - 1) * Chunk BY <1>3, <2>4
      <4>2. (k - 1) * Chunk \in Nat /\ (K - 1) * Chunk \in Nat BY <1>3, <2>4
      <4> QED BY <1>1, <3>4, <4>1, <4>2
    <3>6. To(k) \in Nat /\ From(k) \in Nat /\ To(k) <= From(k) + Chunk
      <4>1. From(k) \in Nat /\ To(k) \in Nat BY <1>4
      <4> HIDE DEF From
      <4> QED BY <1>1, <4>1 DEF Monitor!Least
    <3> HIDE DEF From, To
    <3> QED BY <1>1, <2>5, <2>6, <3>2, <3>5, <3>6
  <2>7. RunsAt(c, To(K)) <=> RunsAt(c, l)
    <3> HIDE DEF To
    <3> QED BY <1>1, <2>5, <2>6, SaysTheSame
  <2> QED BY <1>6, <2>3, <2>4, <2>7
<1>11. /\ Monitor!ReadAppended(s, c).offset = l
       /\ Monitor!ReadAppended(s, c).overlap = Monitor!OverlapAt(s, c, l)
       /\ Monitor!ReadAppended(s, c).running \in BOOLEAN
       /\ (Monitor!ReadAppended(s, c).running <=> RunsAt(c, l))
  <2> HIDE DEF hit
  <2>1. CASE hit = {} BY <1>8, <1>9, <2>1
  <2>2. CASE hit # {}
    <3>1. PICK r \in BOOLEAN : r = (Monitor!LatestMarker(W(CHOOSE k \in hit : \A j \in hit : j <= k)) = "running")
      OBVIOUS
    <3>2. r <=> RunsAt(c, l) BY <1>10, <2>2, <3>1
    <3>3. Monitor!ReadAppended(s, c) = [offset |-> l, overlap |-> Monitor!OverlapAt(s, c, l), running |-> r]
      BY <1>8, <2>2, <3>1
    <3> QED BY <3>2, <3>3
  <2> QED BY <2>1, <2>2
<1>12. \E k \in Nat : k <= l /\ (k = l => l = 0) /\ Reads(Monitor!OverlapAt(s, c, l), c, k, l)
  BY <1>1, OverlapRead
<1>13. Followed(c, Monitor!ReadAppended(s, c)) BY <1>11, <1>12 DEF Followed
<1>14. Monitor!OverlapAt(s, c, l) \in Seq(FileBytes) BY <1>12 DEF Reads
<1>15. Monitor!ReadAppended(s, c) = [offset |-> l, overlap |-> Monitor!OverlapAt(s, c, l),
                                      running |-> Monitor!ReadAppended(s, c).running]
  <2> HIDE DEF hit
  <2> QED BY <1>8
<1> QED BY <1>1, <1>11, <1>13, <1>14, <1>15

\* load: what it knows of a file read whole.
LEMMA LoadedSays ==
    ASSUME NEW c \in Seq(FileBytes)
    PROVE  Followed(c, Monitor!Load(c)) /\ Monitor!Load(c).offset = Len(c)
           /\ Monitor!Load(c) \in [offset : Nat, running : BOOLEAN, overlap : Seq(FileBytes)]
<1>1. Len(c) \in Nat BY LenProperties
<1>2. Reads(c, c, 0, Len(c)) BY <1>1 DEF Reads
<1>3. PICK k \in Nat : /\ k <= Len(c) /\ (0 < Len(c) => k < Len(c)) /\ (0 = Len(c) => k = Len(c))
                       /\ Reads(Monitor!TailBytes(c), c, k, Len(c))
  BY <1>1, <1>2, TailRead
<1>4. k = Len(c) => Len(c) = 0 BY <1>1, <1>3
<1>5. PICK r \in BOOLEAN : r = (Monitor!LatestInFile(c) = "running") OBVIOUS
<1>6. r <=> RunsAt(c, Len(c)) BY <1>5, FileSays
<1>7. Monitor!Load(c) = [offset |-> Len(c), running |-> r, overlap |-> Monitor!TailBytes(c)]
  BY <1>5 DEF Monitor!Load
<1>8. Monitor!TailBytes(c) \in Seq(FileBytes) BY <1>3 DEF Reads
<1>9. Followed(c, Monitor!Load(c)) BY <1>3, <1>4, <1>6, <1>7 DEF Followed
<1> QED BY <1>1, <1>7, <1>8, <1>9

---------------------------------------------------------------------------
(* The monitor of the rollout files: its passes.                           *)

Watched == [offset : Nat, running : BOOLEAN, overlap : Seq(FileBytes)]
Repairs == [size : Int, pending : BOOLEAN, failed : BOOLEAN]

MonitorTyped ==
    /\ content \in [Rollouts -> Seq(FileBytes)] /\ open \subseteq Rollouts
    /\ files \in [Rollouts -> Watched \cup {Monitor!Unknown}]
    /\ attempts \in [Rollouts -> Repairs] /\ projected \in [Rollouts -> Nat]

\* What the window shows, or will when it polls, is the last snapshot.
Following ==
    /\ ui = [queue |-> ui.queue, running |-> ui.running, ended |-> ui.ended]
    /\ lastSnapshot = [sent |-> lastSnapshot.sent, running |-> lastSnapshot.running]
    /\ ui.queue \in Seq(SUBSET Rollouts)
    /\ IF ui.queue = <<>> THEN lastSnapshot.sent => ui.running = lastSnapshot.running \ ui.ended
       ELSE Monitor!Last(ui.queue) = lastSnapshot.running

\* What is known of a file is so, unless it was rewritten.
AllFollowed ==
    \A p \in Rollouts : files[p].offset \in 0..Len(content[p]) => Followed(content[p], files[p])

MonitorInv == MonitorTyped /\ Following /\ AllFollowed

\* What is appended changes nothing of what was read.
LEMMA StillFollowed ==
    ASSUME NEW c \in Seq(FileBytes), NEW d \in Seq(FileBytes), NEW s, s.offset \in Nat, s.offset <= Len(c), Len(c) <= Len(d),
           \A i \in 1..Len(c) : d[i] = c[i], Followed(c, s)
    PROVE  Followed(d, s)
<1>1. Len(c) \in Nat /\ Len(d) \in Nat BY LenProperties
<1>2. ASSUME NEW i \in 1..s.offset, NEW b PROVE Marked(d, i, b) <=> Marked(c, i, b)
  <2>1. i \in 2..Len(c) <=> i \in 2..Len(d) BY <1>1
  <2>2. i \in 2..Len(c) => i - 1 \in 1..Len(c) /\ i \in 1..Len(c) BY <1>1
  <2> QED BY <2>1, <2>2 DEF Marked
<1>3. RunsAt(d, s.offset) <=> RunsAt(c, s.offset) BY <1>2 DEF RunsAt
<1>4. PICK m \in Nat : m <= s.offset /\ (m = s.offset => s.offset = 0) /\ Reads(s.overlap, c, m, s.offset)
  BY DEF Followed
<1>5. ASSUME NEW i \in 1..(s.offset - m) PROVE d[m + i] = c[m + i]
  <2>1. m + i \in 1..Len(c) BY <1>1
  <2> QED BY <2>1
<1>6. Reads(s.overlap, d, m, s.offset) BY <1>4, <1>5 DEF Reads
<1> QED BY <1>3, <1>4, <1>6 DEF Followed

LEMMA WriteSafe == ASSUME MonitorInv, Monitor!Write PROVE MonitorInv'
<1>1. PICK p \in Rollouts, b \in FileBytes :
        /\ files[p].offset <= Len(content[p])
        /\ content' = [content EXCEPT ![p] = Append(@, b)]
        /\ UNCHANGED <<open, files, attempts, projected, activated, lastSnapshot, ui>>
  BY DEF Monitor!Write, FileBytes
<1>2. content[p] \in Seq(FileBytes) /\ Len(content[p]) \in Nat BY LenProperties DEF MonitorInv, MonitorTyped
<1>3. /\ Append(content[p], b) \in Seq(FileBytes) /\ Len(Append(content[p], b)) = Len(content[p]) + 1
      /\ \A i \in 1..Len(content[p]) : Append(content[p], b)[i] = content[p][i]
  BY <1>2, AppendProperties
<1>4. \A q \in Rollouts : content'[q] = IF q = p THEN Append(content[p], b) ELSE content[q]
  BY <1>1 DEF MonitorInv, MonitorTyped
<1>5. MonitorTyped'
  <2>1. content' \in [Rollouts -> Seq(FileBytes)] BY <1>1, <1>3 DEF MonitorInv, MonitorTyped
  <2> QED BY <1>1, <2>1 DEF MonitorInv, MonitorTyped
<1>6. Following' BY <1>1 DEF MonitorInv, Following
<1>7. AllFollowed'
  <2> SUFFICES ASSUME NEW q \in Rollouts, files[q].offset \in 0..Len(content'[q])
               PROVE  Followed(content'[q], files[q])
    BY <1>1 DEF AllFollowed
  <2>1. CASE q = p
    <3>1. files[p].offset \in Nat /\ files[p].offset \in 0..Len(content[p]) BY <1>1, <1>2, <1>3, <1>4, <2>1
    <3>2. Followed(content[p], files[p]) BY <3>1 DEF MonitorInv, AllFollowed
    <3>3. Followed(Append(content[p], b), files[p])
      <4>1. Len(content[p]) <= Len(Append(content[p], b)) BY <1>2, <1>3
      <4> QED BY <1>1, <1>2, <1>3, <3>1, <3>2, <4>1, StillFollowed
    <3> QED BY <1>4, <2>1, <3>3
  <2>2. CASE q # p BY <1>4, <2>2 DEF MonitorInv, AllFollowed
  <2> QED BY <2>1, <2>2
<1> QED BY <1>5, <1>6, <1>7 DEF MonitorInv

LEMMA TruncateSafe == ASSUME MonitorInv, Monitor!Truncate PROVE MonitorInv'
<1>1. PICK p \in Rollouts :
        /\ files[p].offset = Len(content[p]) /\ Len(content[p]) > 1
        /\ content' = [content EXCEPT ![p] = <<"x">>]
        /\ projected' = [projected EXCEPT ![p] = 0]
        /\ UNCHANGED <<open, files, attempts, activated, lastSnapshot, ui>>
  BY DEF Monitor!Truncate
<1>2. <<"x">> \in Seq(FileBytes) /\ Len(<<"x">>) = 1 BY DEF FileBytes, Monitor!Bytes
<1>3. \A q \in Rollouts : content'[q] = IF q = p THEN <<"x">> ELSE content[q]
  BY <1>1 DEF MonitorInv, MonitorTyped
<1>4. Len(content[p]) \in Nat BY LenProperties DEF MonitorInv, MonitorTyped
<1>5. MonitorTyped' BY <1>1, <1>2 DEF MonitorInv, MonitorTyped
<1>6. Following' BY <1>1 DEF MonitorInv, Following
<1>7. AllFollowed'
  <2> SUFFICES ASSUME NEW q \in Rollouts, files[q].offset \in 0..Len(content'[q])
               PROVE  Followed(content'[q], files[q])
    BY <1>1 DEF AllFollowed
  <2>1. q # p
    <3>1. SUFFICES ASSUME q = p PROVE FALSE OBVIOUS
    <3>2. Len(content'[q]) = 1 BY <1>2, <1>3, <3>1
    <3>3. PICK k \in Nat : k = Len(content[p]) BY <1>4
    <3>4. files[q].offset = k /\ k > 1 BY <1>1, <3>1, <3>3
    <3>5. k \in 0..1 BY <3>2, <3>4
    <3> QED BY <3>4, <3>5
  <2> QED BY <1>3, <2>1 DEF MonitorInv, AllFollowed
<1> QED BY <1>5, <1>6, <1>7 DEF MonitorInv

\* update_path: what the pass knows of a file, to its end.
LEMMA PathUpdated ==
    ASSUME MonitorInv, NEW p \in Rollouts
    PROVE  /\ Monitor!UpdatePath(files[p], content[p]) \in Watched
           /\ Monitor!UpdatePath(files[p], content[p]).offset = Len(content[p])
           /\ Followed(content[p], Monitor!UpdatePath(files[p], content[p]))
<1>1. content[p] \in Seq(FileBytes) /\ Len(content[p]) \in Nat BY LenProperties DEF MonitorInv, MonitorTyped
<1>2. files[p] \in Watched \/ (files[p] = Monitor!Unknown /\ files[p].offset = -1)
  BY DEF MonitorInv, MonitorTyped, Monitor!Unknown
<1>3. CASE files[p].offset = -1 \/ Len(content[p]) < files[p].offset
  BY <1>1, <1>3, LoadedSays DEF Monitor!UpdatePath, Watched
<1>4. CASE ~(files[p].offset = -1 \/ Len(content[p]) < files[p].offset)
  <2>1. files[p] \in Watched /\ files[p].offset \in Nat /\ files[p].offset <= Len(content[p])
    BY <1>1, <1>2, <1>4 DEF Watched
  <2>2. Followed(content[p], files[p]) BY <1>1, <2>1 DEF MonitorInv, AllFollowed
  <2>3. CASE Len(content[p]) > files[p].offset
    <3>1. Monitor!UpdatePath(files[p], content[p]) = Monitor!ReadAppended(files[p], content[p])
      BY <1>4, <2>3 DEF Monitor!UpdatePath
    <3> QED BY <1>1, <2>1, <2>2, <3>1, AppendedSays DEF Watched
  <2>4. CASE ~(Len(content[p]) > files[p].offset)
    <3>1. Monitor!UpdatePath(files[p], content[p]) = files[p] BY <1>4, <2>4 DEF Monitor!UpdatePath
    <3> QED BY <1>1, <2>1, <2>2, <2>4, <3>1
  <2> QED BY <2>3, <2>4
<1> QED BY <1>3, <1>4

LEMMA RepairTyped ==
    ASSUME MonitorInv, Monitor!RepairChanged
    PROVE  attempts' \in [Rollouts -> Repairs] /\ projected' \in [Rollouts -> Nat]
<1>1. PICK skipped \in SUBSET Monitor!Waiting :
        \E result \in [Monitor!Tried \ skipped -> UNION {Monitor!Outcomes(p) : p \in Monitor!Tried}] :
          /\ \A p \in Monitor!Tried \ skipped : result[p] \in Monitor!Outcomes(p)
          /\ attempts' = [p \in Rollouts |->
                            IF p \notin open THEN Monitor!NoAttempt
                            ELSE IF p \in DOMAIN result THEN result[p].attempt ELSE attempts[p]]
          /\ projected' = [p \in Rollouts |->
                             IF p \in DOMAIN result THEN result[p].at ELSE projected[p]]
  BY DEF Monitor!RepairChanged
<1>2. PICK result :
          /\ DOMAIN result = Monitor!Tried \ skipped
          /\ \A p \in Monitor!Tried \ skipped : result[p] \in Monitor!Outcomes(p)
          /\ attempts' = [p \in Rollouts |->
                            IF p \notin open THEN Monitor!NoAttempt
                            ELSE IF p \in DOMAIN result THEN result[p].attempt ELSE attempts[p]]
          /\ projected' = [p \in Rollouts |->
                             IF p \in DOMAIN result THEN result[p].at ELSE projected[p]]
  BY <1>1
<1>3. ASSUME NEW p \in Rollouts
      PROVE  Len(content[p]) \in Nat /\ projected[p] \in Nat /\ attempts[p] \in Repairs
  BY LenProperties DEF MonitorInv, MonitorTyped
<1>4. ASSUME NEW p \in Rollouts, p \in DOMAIN result
      PROVE  result[p].attempt \in Repairs /\ result[p].at \in Nat
  <2>1. PICK z \in Nat, y \in Nat : z = Len(content[p]) /\ y = projected[p] BY <1>3
  <2>2. result[p] \in [attempt : [size : {z}, pending : BOOLEAN, failed : BOOLEAN],
                        at : {y} \cup Monitor!Ahead(p), activated : BOOLEAN]
    BY <1>2, <1>4, <2>1 DEF Monitor!Outcomes
  <2>3. Monitor!Ahead(p) \subseteq Nat BY <2>1 DEF Monitor!Ahead
  <2> QED BY <2>1, <2>2, <2>3 DEF Repairs
<1>5. Monitor!NoAttempt \in Repairs BY DEF Monitor!NoAttempt, Repairs
<1>6. ASSUME NEW p \in Rollouts PROVE attempts'[p] \in Repairs /\ projected'[p] \in Nat
  BY <1>2, <1>3, <1>4, <1>5
<1> HIDE DEF Repairs
<1> QED BY <1>2, <1>6

LEMMA ScanSafe == ASSUME MonitorInv, Monitor!Scan PROVE MonitorInv'
<1>1. /\ files' = [p \in Rollouts |->
                     IF p \in open THEN Monitor!UpdatePath(files[p], content[p]) ELSE Monitor!Unknown]
      /\ Monitor!RepairChanged /\ UNCHANGED <<content, open>>
  BY DEF Monitor!Scan
<1>2. ASSUME NEW p \in Rollouts, p \in open
      PROVE  files'[p] \in Watched /\ Followed(content[p], files'[p])
  BY <1>1, <1>2, PathUpdated
<1>3. ASSUME NEW p \in Rollouts, p \notin open PROVE files'[p] = Monitor!Unknown
  BY <1>1, <1>3
<1>4. MonitorTyped'
  <2>1. \A p \in Rollouts : files'[p] \in Watched \cup {Monitor!Unknown} BY <1>2, <1>3
  <2>2. files' \in [Rollouts -> Watched \cup {Monitor!Unknown}]
    <3> HIDE DEF Watched
    <3> QED BY <1>1, <2>1
  <2> QED BY <1>1, <2>2, RepairTyped DEF MonitorInv, MonitorTyped
<1>5. Following'
  <2>1. PICK running \in SUBSET Rollouts :
          /\ lastSnapshot' = [sent |-> TRUE, running |-> running]
          /\ ui' = IF lastSnapshot = [sent |-> TRUE, running |-> running] THEN ui
                   ELSE [ui EXCEPT !.queue = Append(@, running)]
    <3>1. {p \in open : [q \in Rollouts |->
             IF q \in open THEN Monitor!UpdatePath(files[q], content[q]) ELSE Monitor!Unknown][p].running}
            \in SUBSET Rollouts
      BY DEF MonitorInv, MonitorTyped
    <3> QED BY <3>1 DEF Monitor!Scan
  <2>2. CASE lastSnapshot = [sent |-> TRUE, running |-> running]
    BY <2>1, <2>2 DEF MonitorInv, Following
  <2>3. CASE lastSnapshot # [sent |-> TRUE, running |-> running]
    <3>1. ui' = [queue |-> Append(ui.queue, running), running |-> ui.running, ended |-> ui.ended]
      BY <2>1, <2>3 DEF MonitorInv, Following
    <3>2. /\ Append(ui.queue, running) \in Seq(SUBSET Rollouts) /\ Append(ui.queue, running) # <<>>
          /\ Monitor!Last(Append(ui.queue, running)) = running
      <4>1. ui.queue \in Seq(SUBSET Rollouts) BY DEF MonitorInv, Following
      <4>2. /\ Append(ui.queue, running) \in Seq(SUBSET Rollouts)
            /\ Len(Append(ui.queue, running)) = Len(ui.queue) + 1
            /\ Append(ui.queue, running)[Len(ui.queue) + 1] = running
        BY <4>1, AppendProperties
      <4>3. Len(ui.queue) \in Nat BY <4>1, LenProperties
      <4>4. Len(Append(ui.queue, running)) # Len(<<>>) BY <4>2, <4>3
      <4>5. ASSUME Append(ui.queue, running) = <<>> PROVE FALSE BY <4>4, <4>5
      <4> QED BY <4>2, <4>5 DEF Monitor!Last
    <3>3. ui'.queue = Append(ui.queue, running) /\ ui'.running = ui.running /\ ui'.ended = ui.ended
      BY <3>1
    <3>4. lastSnapshot'.sent = TRUE /\ lastSnapshot'.running = running BY <2>1
    <3>5. ui'.queue \in Seq(SUBSET Rollouts) /\ ui'.queue # <<>> /\ Monitor!Last(ui'.queue) = lastSnapshot'.running
      BY <3>2, <3>3, <3>4
    <3>6. ui' = [queue |-> ui'.queue, running |-> ui'.running, ended |-> ui'.ended] BY <3>1, <3>3
    <3>7. lastSnapshot' = [sent |-> lastSnapshot'.sent, running |-> lastSnapshot'.running] BY <2>1, <3>4
    <3> QED BY <3>5, <3>6, <3>7 DEF Following
  <2> QED BY <2>2, <2>3
<1>6. AllFollowed'
  <2>1. ASSUME NEW p \in Rollouts, files'[p].offset \in 0..Len(content[p]) PROVE Followed(content[p], files'[p])
    <3>1. Monitor!Unknown.offset = -1 /\ Len(content[p]) \in Nat
      BY LenProperties DEF Monitor!Unknown, MonitorInv, MonitorTyped
    <3>2. p \in open BY <1>3, <2>1, <3>1
    <3> QED BY <1>2, <3>2
  <2> QED BY <1>1, <2>1 DEF AllFollowed
<1> QED BY <1>4, <1>5, <1>6 DEF MonitorInv

\* The steps that leave the files and what is known of them.
LEMMA WindowSafe ==
    ASSUME MonitorInv, Monitor!Poll \/ Monitor!Completed \/ Monitor!ProjectElsewhere
    PROVE  MonitorInv'
<1>1. CASE Monitor!Poll
  <2>1. /\ ui.queue # <<>> /\ ui' = [queue |-> <<>>, running |-> Monitor!Last(ui.queue), ended |-> {}]
        /\ UNCHANGED <<content, open, files, attempts, projected, activated, lastSnapshot>>
    BY <1>1 DEF Monitor!Poll
  <2>2. Following' BY <2>1 DEF MonitorInv, Following
  <2> QED BY <2>1, <2>2 DEF MonitorInv, MonitorTyped, AllFollowed
<1>2. CASE Monitor!Completed
  <2>1. PICK p \in Rollouts :
          /\ ui' = [ui EXCEPT !.running = @ \ {p}, !.ended = @ \cup {p}]
          /\ UNCHANGED <<content, open, files, attempts, projected, activated, lastSnapshot>>
    BY <1>2 DEF Monitor!Completed
  <2>2. ui' = [queue |-> ui.queue, running |-> ui.running \ {p}, ended |-> ui.ended \cup {p}]
    BY <2>1 DEF MonitorInv, Following
  <2>3. Following'
    <3>1. ui.queue = <<>> /\ lastSnapshot.sent => ui.running \ {p} = lastSnapshot.running \ (ui.ended \cup {p})
      BY DEF MonitorInv, Following
    <3> QED BY <2>1, <2>2, <3>1 DEF MonitorInv, Following
  <2> QED BY <2>1, <2>3 DEF MonitorInv, MonitorTyped, AllFollowed
<1>3. CASE Monitor!ProjectElsewhere
  <2>1. PICK p \in Rollouts : \E k \in Monitor!Ahead(p) :
          projected' = [projected EXCEPT ![p] = k] /\ UNCHANGED <<content, open, files, attempts, lastSnapshot, ui>>
    BY <1>3 DEF Monitor!ProjectElsewhere
  <2>3. PICK k \in Monitor!Ahead(p) :
          projected' = [projected EXCEPT ![p] = k] /\ UNCHANGED <<content, open, files, attempts, lastSnapshot, ui>>
    BY <2>1
  <2>2. k \in Nat
    <3>1. Len(content[p]) \in Nat /\ projected[p] \in Nat BY LenProperties DEF MonitorInv, MonitorTyped
    <3> QED BY <3>1 DEF Monitor!Ahead
  <2> QED BY <2>3, <2>2 DEF MonitorInv, MonitorTyped, Following, AllFollowed
<1> QED BY <1>1, <1>2, <1>3

LEMMA MonitorAlways == Monitor!Spec => []MonitorInv
<1>1. Monitor!Init => MonitorInv
  <2> SUFFICES ASSUME Monitor!Init PROVE MonitorInv OBVIOUS
  <2>1. MonitorTyped
    BY DEF Monitor!Init, MonitorTyped, Monitor!NoAttempt, Repairs
  <2>2. Following
    BY DEF Monitor!Init, Following, Monitor!NoSnapshot
  <2>3. AllFollowed
    BY DEF Monitor!Init, AllFollowed, Monitor!Unknown
  <2> QED BY <2>1, <2>2, <2>3 DEF MonitorInv
<1>2. ASSUME MonitorInv, [Monitor!Next]_Monitor!vars PROVE MonitorInv'
  <2>1. CASE Monitor!OpenOrClose
    BY <1>2, <2>1 DEF Monitor!OpenOrClose, MonitorInv, MonitorTyped, Following, AllFollowed
  <2>2. CASE UNCHANGED Monitor!vars
    BY <1>2, <2>2 DEF Monitor!vars, MonitorInv, MonitorTyped, Following, AllFollowed
  <2> QED BY <1>2, <2>1, <2>2, WriteSafe, TruncateSafe, ScanSafe, WindowSafe DEF Monitor!Next
<1> QED BY <1>1, <1>2, PTL DEF Monitor!Spec

\* However its lines were cut by the reads and by the chunks, a task is taken
\* to be running exactly when the last marker read says so (read_appended,
\* latest_marker_in_file).
THEOREM MarkersRead == Monitor!Spec => []MarkersFollowed
<1>1. ASSUME MonitorInv PROVE MarkersFollowed
  <2> SUFFICES ASSUME NEW p \in Rollouts, files[p].offset \in 0..Len(content[p])
               PROVE  files[p].running =
                        (Monitor!LatestMarker(SubSeq(content[p], 1, files[p].offset)) = "running")
    BY DEF MarkersFollowed, Monitor!MarkersFollowed
  <2>1. content[p] \in Seq(FileBytes) /\ Len(content[p]) \in Nat /\ files[p].offset \in Nat
    BY <1>1, LenProperties DEF MonitorInv, MonitorTyped
  <2>2. files[p].running \in BOOLEAN /\ (files[p].running <=> RunsAt(content[p], files[p].offset))
    BY <1>1 DEF MonitorInv, AllFollowed, Followed
  <2>3. PICK w : w = SubSeq(content[p], 0 + 1, files[p].offset) OBVIOUS
  <2>4. Reads(w, content[p], 0, files[p].offset)
    <3>1. 0 \in Nat /\ 0 <= files[p].offset /\ files[p].offset <= Len(content[p]) BY <2>1
    <3>2. Reads(SubSeq(content[p], 0 + 1, files[p].offset), content[p], 0, files[p].offset)
      BY <2>1, <3>1, PartRead
    <3> QED BY <2>3, <3>2
  <2>5. /\ Monitor!LatestMarker(w) = "none" <=> \A i \in (0 + 2)..files[p].offset : ~AnyMark(content[p], i)
        /\ Monitor!LatestMarker(w) # "none" =>
             ((Monitor!LatestMarker(w) = "running") <=> RunsAt(content[p], files[p].offset))
    BY <2>1, <2>4, TextSays
  <2>6. ASSUME \A i \in 2..files[p].offset : ~AnyMark(content[p], i)
        PROVE  ~RunsAt(content[p], files[p].offset)
    BY <2>1, <2>6 DEF RunsAt, AnyMark, Marked
  <2>7. (Monitor!LatestMarker(w) = "running") <=> RunsAt(content[p], files[p].offset) BY <2>5, <2>6
  <2>8. w = SubSeq(content[p], 1, files[p].offset) BY <2>3
  <2> QED BY <2>2, <2>7, <2>8
<1> QED BY <1>1, MonitorAlways, PTL

\* A window that polled all that was sent shows the tasks that the last scan
\* found running, but for those whose end it heard of since (scan_paths,
\* poll_rollout_activity).
THEOREM SnapshotsShown == Monitor!Spec => []WindowFollows
<1>1. MonitorInv => WindowFollows
  BY DEF MonitorInv, Following, WindowFollows, Monitor!WindowFollows
<1> QED BY <1>1, MonitorAlways, PTL
=============================================================================
