------------------------ MODULE MacroExecutor_proofs ------------------------
(***************************************************************************)
(* Proofs about the macro executor, for any requests, files and macros.    *)
(* The locks, the order of the steps and the checked writes all rest on    *)
(* one inductive invariant, IInv, which relates the coordinator's state of *)
(* a step, its task, its job and the locks it holds.                       *)
(***************************************************************************)
EXTENDS MacroExecutor, FiniteSetTheorems, SequenceTheorems, WellFoundedInduction, TLAPS

---------------------------------------------------------------------------
(* The inductive invariant.                                                *)

Phases == {"new", "running", "done", "rejected", "cancelled"}
States == {"pending", "running"} \cup Ended
Places == {"none", "start", "workspace", "succeeded", "failed"} \cup Holding

\* The variables hold what they should, but for the contents of the outputs,
\* the keys and the cache, which no property below looks at.
MacroType(m, c) ==
    /\ c \in [phase : Phases, state : [Steps(m) -> States], out : {c.out}, stopped : BOOLEAN]
    /\ DOMAIN c.out = Steps(m)
TaskType(t) == t \in [pc : Places, held : SUBSET Files, key : {t.key}, out : {t.out}]
JobType(j) ==
    /\ j \in [macro : Macros, step : StepIds, left : Seq(Files), orphan : BOOLEAN]
    /\ j.step \in Steps(j.macro)

Typed ==
    /\ req \in [Macros -> Requests]
    /\ DOMAIN macro = Macros /\ DOMAIN task = Macros
    /\ \A m \in Macros :
         /\ MacroType(m, macro[m])
         /\ DOMAIN task[m] = Steps(m) /\ \A s \in Steps(m) : TaskType(task[m][s])
    /\ \A j \in jobs : JobType(j)
    /\ files \in [Files -> [text : Texts, stamp : Nat]]

\* Where a macro is with its steps: c is its coordinator, live are the steps
\* that have a task.
Scheduled(m, c, live) ==
    /\ c.phase = "new" => \A s \in Steps(m) : c.state[s] = "pending"
    /\ c.phase \in {"new", "rejected", "done"} => live = {}
    /\ c.phase = "running" => live # {}
    /\ c.phase \in {"running", "cancelled"} => Valid(req[m])
    /\ \A s \in live : c.state[s] = "running"
    /\ c.phase \in {"running", "cancelled"} =>
         \A s \in Steps(m) : c.state[s] = "running" =>
           \A d \in Step(m, s).deps : c.state[d] \in Ended
Schedules == \A m \in Macros : Scheduled(m, macro[m], Live(m))

\* A step has one job at most; unless it is an orphan, its task waits for it.
Jobs ==
    /\ \A j \in jobs :
         /\ task[j.macro][j.step].pc = IF j.orphan THEN "none" ELSE "work"
         /\ \/ macro[j.macro].state[j.step] = "running"
            \/ macro[j.macro].phase = "done" /\ macro[j.macro].state[j.step] = "skipped"
         /\ \A i \in DOMAIN j.left : j.left[i] \in Touches(j)
    /\ \A i, j \in jobs : i.macro = j.macro /\ i.step = j.step => i = j

\* A task takes the locks of its files in their order, and works with them all.
Ordered(m, s, t) ==
    /\ t.held \subseteq Wanted(m, s)
    /\ t.pc \notin Holding => t.held = {}
    /\ t.pc = "work" => t.held = Wanted(m, s)
    /\ \A f \in t.held : \A g \in Wanted(m, s) \ t.held : f < g
Queued == \A m \in Macros : \A s \in Steps(m) : Ordered(m, s, task[m][s])

\* Two tasks under one root hold no locks that exclude each other.
Shared(m, s, n, t) ==
    /\ Step(m, s).kind # "mutate" /\ Step(n, t).kind # "mutate"
    /\ task[m][s].held \cap task[n][t].held # {} =>
         Step(m, s).kind = "read" /\ Step(n, t).kind = "read"
Excluded ==
    \A m, n \in Macros : \A s \in Steps(m) : \A t \in Steps(n) :
      /\ <<m, s>> # <<n, t>> /\ req[m].root = req[n].root
      /\ task[m][s].pc \in Holding /\ task[n][t].pc \in Holding
      => Shared(m, s, n, t)

\* What a checked write has yet to replace is what it was checked against.
Checked(j) == Kind(j) \in {"write", "patch"} /\ Step(j.macro, j.step).expect # AnyText
OneByOne ==
    \A j \in jobs : Kind(j) \in {"write", "patch"} =>
      \A i, k \in DOMAIN j.left : j.left[i] = j.left[k] => i = k
WritesFresh ==
    RootsApart /\ (\A j \in jobs : ~j.orphan) =>
      \A j \in jobs : Checked(j) =>
        \A i \in DOMAIN j.left : files[j.left[i]].text = Step(j.macro, j.step).expect

IInv == Typed /\ Schedules /\ Jobs /\ Queued /\ Excluded /\ OneByOne /\ WritesFresh
---------------------------------------------------------------------------
(* Sets of naturals.                                                       *)

\* A set of naturals that is not empty has a least element: the next lock.
LEMMA LeastOfNaturals ==
    ASSUME NEW T \in SUBSET Nat, T # {}
    PROVE  \E x \in T : \A y \in T : x <= y
<1>1. PICK x \in T : \A y \in T : <<y, x>> \notin OpToRel(<, Nat)
  BY NatLessThanWellFounded, WFMin
<1>2. \A y \in T : ~(y < x)
  BY <1>1 DEF OpToRel
<1> QED BY <1>2

\* And a finite one a greatest: the task that is furthest with its locks.
LEMMA GreatestOfNaturals ==
    ASSUME NEW S \in SUBSET Nat, IsFiniteSet(S), NEW U \in SUBSET S, U # {}
    PROVE  \E x \in U : \A y \in U : y <= x
<1> DEFINE Bad == {W \in SUBSET S : W # {} /\ ~ \E x \in W : \A y \in W : y <= x}
<1> SUFFICES ASSUME Bad # {} PROVE FALSE OBVIOUS
<1>1. Bad \subseteq FiniteSubsetsOf(S)
  BY FS_Subset DEF FiniteSubsetsOf
<1>2. PICK W \in Bad : \A V \in Bad : <<V, W>> \notin StrictSubsetOrdering(S)
  BY <1>1, FS_StrictSubsetOrderingWellFounded, WFMin
<1>3. PICK a \in W : TRUE OBVIOUS
<1>4. W \ {a} \notin Bad
  BY <1>2, <1>3 DEF StrictSubsetOrdering
<1>5. CASE W = {a} BY <1>5
<1>6. PICK b \in W \ {a} : \A y \in W \ {a} : y <= b
  BY <1>3, <1>4, <1>5
<1>7. a \in Nat /\ b \in Nat OBVIOUS
<1>8. CASE a <= b BY <1>8, <1>6
<1>9. CASE ~(a <= b)
  <2>1. \A y \in W : y \in Nat OBVIOUS
  <2>2. \A y \in W : y <= a BY <2>1, <1>6, <1>7, <1>9
  <2> QED BY <2>2, <1>3
<1> QED BY <1>8, <1>9

---------------------------------------------------------------------------
(* What a pass of the coordinator does.                                    *)

\* The steps of a macro are numbered, and each is as serde lets it in.
LEMMA StepTypes ==
    ASSUME Typed, NEW m \in Macros
    PROVE  /\ req[m] \in Requests /\ Steps(m) \subseteq StepIds /\ Steps(m) \subseteq Nat
           /\ \A s \in Steps(m) : IsStep(Step(m, s))
<1>1. req[m] \in Requests BY DEF Typed
<1>2. IsRequest(req[m]) BY <1>1, RequestAssumption
<1>3. Steps(m) \subseteq StepIds BY <1>1 DEF Steps, StepIds
<1> QED BY <1>1, <1>2, <1>3 DEF IsRequest, Steps, Step

\* Only pending steps are doomed, unmet or launched, and the launched ones
\* wait for nothing.
LEMMA PassSets ==
    ASSUME NEW m, NEW st, NEW out, NEW stopped
    PROVE  /\ \A s \in Doomed(m, st) \cup Unmet(m, st, out) \cup Launched(m, st, stopped) :
                s \in Steps(m) /\ st[s] = "pending"
           /\ \A s \in Launched(m, st, stopped) : \A d \in Step(m, s).deps : st[d] \in Ended
BY DEF Doomed, Unmet, Launched, DependencyReady, Ended

\* `new` are the steps the pass launches, `st` is what becomes of the states.
Passed(m, c, live, new, st) ==
    /\ macro' = [macro EXCEPT ![m] =
         [c EXCEPT !.phase = IF live \cup new = {} THEN "done" ELSE "running", !.state = st]]
    /\ task' = [task EXCEPT ![m] =
         [s \in Steps(m) |-> IF s \in new THEN Started
                             ELSE IF s \in live THEN task[m][s] ELSE Idle]]
    /\ \A s \in new : c.state[s] = "pending" /\ st[s] = "running"
    /\ \A s \in new : \A d \in Step(m, s).deps : d \in Steps(m) => st[d] \in Ended
    /\ \A s \in Steps(m) :
         /\ c.state[s] \in Ended => st[s] = c.state[s]
         /\ live \cup new # {} /\ c.state[s] # "pending" => st[s] = c.state[s]
         /\ live \cup new # {} /\ st[s] = "running" /\ s \notin new => c.state[s] = "running"
         /\ live \cup new = {} /\ c.state[s] \notin Ended => st[s] = "skipped"

LEMMA PassEffect ==
    ASSUME NEW m \in Macros, NEW c, MacroType(m, c), NEW live, Pass(m, c, live),
           DOMAIN macro = Macros
    PROVE  \E new \in SUBSET Steps(m), st \in [Steps(m) -> States] : Passed(m, c, live, new, st)
<1> DEFINE st1 == Skip(c.state, Doomed(m, c.state))
           st2 == Skip(st1, Unmet(m, st1, c.out))
           new == Launched(m, st2, c.stopped)
           st3 == [s \in DOMAIN st2 |-> IF s \in new THEN "running" ELSE st2[s]]
           st4 == Skip(st3, {s \in Steps(m) : st3[s] \in {"pending", "running"}})
           st  == IF live \cup new = {} THEN st4 ELSE st3
<1>0. c.state \in [Steps(m) -> States] BY DEF MacroType
<1>1. /\ st1 \in [Steps(m) -> States]
      /\ \A s \in Steps(m) : st1[s] = c.state[s] \/ (c.state[s] = "pending" /\ st1[s] = "skipped")
  BY <1>0, PassSets DEF Skip, States, Ended
<1>2. /\ st2 \in [Steps(m) -> States]
      /\ \A s \in Steps(m) : st2[s] = c.state[s] \/ (c.state[s] = "pending" /\ st2[s] = "skipped")
  <2> HIDE DEF st1
  <2>1. \A s \in Unmet(m, st1, c.out) : st1[s] = "pending" BY PassSets
  <2> QED BY <1>1, <2>1 DEF Skip, States, Ended
<1>3. /\ new \subseteq Steps(m) /\ \A s \in new : st2[s] = "pending" /\ c.state[s] = "pending"
      /\ \A s \in new : \A d \in Step(m, s).deps : st2[d] \in Ended
  <2> HIDE DEF st2
  <2> QED BY <1>2, PassSets DEF Ended
<1> HIDE DEF st2, new
<1>4. /\ st3 \in [Steps(m) -> States]
      /\ \A s \in Steps(m) : st3[s] = IF s \in new THEN "running" ELSE st2[s]
  BY <1>2, <1>3 DEF States, Ended
<1> HIDE DEF st3
<1>5. /\ st4 \in [Steps(m) -> States]
      /\ \A s \in Steps(m) : st4[s] = IF st3[s] \in {"pending", "running"} THEN "skipped" ELSE st3[s]
  BY <1>4 DEF Skip, States, Ended
<1> HIDE DEF st4
<1>6. st \in [Steps(m) -> States] BY <1>4, <1>5
<1>8. Passed(m, c, live, new, st)
  <2>1. macro' = [macro EXCEPT ![m] =
          [c EXCEPT !.phase = IF live \cup new = {} THEN "done" ELSE "running", !.state = st]]
    BY DEF Pass, new, st2, st3, st4
  <2>2. task' = [task EXCEPT ![m] =
         [s \in Steps(m) |-> IF s \in new THEN Started
                             ELSE IF s \in live THEN task[m][s] ELSE Idle]]
    BY DEF Pass, new, st2
  <2>3. \A s \in new : c.state[s] = "pending" /\ st[s] = "running"
    BY <1>3, <1>4
  <2>4. \A s \in new : \A d \in Step(m, s).deps : d \in Steps(m) => st[d] \in Ended
    BY <1>3, <1>4 DEF Ended
  <2>5. ASSUME NEW s \in Steps(m)
        PROVE  /\ c.state[s] \in Ended => st[s] = c.state[s]
               /\ live \cup new # {} /\ c.state[s] # "pending" => st[s] = c.state[s]
               /\ live \cup new # {} /\ st[s] = "running" /\ s \notin new => c.state[s] = "running"
               /\ live \cup new = {} /\ c.state[s] \notin Ended => st[s] = "skipped"
    <3>1. c.state[s] \in States /\ st2[s] \in States BY <1>0, <1>2
    <3> QED BY <3>1, <1>2, <1>3, <1>4, <1>5 DEF States, Ended
  <2> QED BY <2>1, <2>2, <2>3, <2>4, <2>5 DEF Passed
<1> QED BY <1>3, <1>6, <1>8
---------------------------------------------------------------------------
(* The invariant survives a pass.                                          *)

\* What a coordinator c that comes to the top of its loop, and the tasks it
\* still has to join, must be like.
Ready(m, c, live) ==
    /\ MacroType(m, c) /\ live \subseteq Live(m) /\ Valid(req[m])
    /\ \A s \in live : c.state[s] = "running"
    /\ \A s \in Steps(m) : c.state[s] = "running" =>
         \A d \in Step(m, s).deps : c.state[d] \in Ended

\* A task that is not there, and one just started.
LEMMA IdleTask ==
    /\ Started.pc = "start" /\ Started.held = {} /\ TaskType(Started)
    /\ Idle.pc = "none" /\ Idle.held = {} /\ TaskType(Idle)
BY DEF TaskType, Started, Idle, Places, Holding

\* The tasks of m that go on are as before, the others idle or just started.
LEMMA PassTasks ==
    ASSUME Typed, NEW m \in Macros, NEW c, NEW live, NEW new, NEW st,
           Passed(m, c, live, new, st)
    PROVE  /\ DOMAIN task' = Macros /\ DOMAIN task'[m] = Steps(m)
           /\ \A n \in Macros \ {m} : task'[n] = task[n]
           /\ \A s \in Steps(m) : task'[m][s] = IF s \in new THEN Started
                                                ELSE IF s \in live THEN task[m][s] ELSE Idle
BY DEF Passed, Typed

LEMMA PassMacros ==
    ASSUME Typed, NEW m \in Macros, NEW c, NEW live, NEW new, NEW st \in [Steps(m) -> States],
           MacroType(m, c), Passed(m, c, live, new, st)
    PROVE  /\ DOMAIN macro' = Macros /\ \A n \in Macros \ {m} : macro'[n] = macro[n]
           /\ macro'[m].phase = IF live \cup new = {} THEN "done" ELSE "running"
           /\ macro'[m].state = st /\ macro'[m].out = c.out /\ MacroType(m, macro'[m])
<1> DEFINE d == [c EXCEPT !.phase = IF live \cup new = {} THEN "done" ELSE "running", !.state = st]
<1>1. macro' = [macro EXCEPT ![m] = d] BY DEF Passed
<1>2. macro'[m] = d BY <1>1 DEF Typed
<1>3. /\ d.phase = IF live \cup new = {} THEN "done" ELSE "running"
      /\ d.state = st /\ d.out = c.out /\ MacroType(m, d)
  BY DEF MacroType, Phases
<1> HIDE DEF d
<1> QED BY <1>1, <1>2, <1>3 DEF Typed

\* The coordinator and its tasks are typed and scheduled as they were.
LEMMA PassSchedules ==
    ASSUME Typed, Schedules, NEW m \in Macros, NEW c, NEW live, Ready(m, c, live),
           \A s \in Steps(m) : c.state[s] = "pending" => task[m][s].pc = "none",
           Pass(m, c, live), req' = req, files' = files, \A j \in jobs' : JobType(j)'
    PROVE  Typed' /\ Schedules'
<1>1. PICK new \in SUBSET Steps(m), st \in [Steps(m) -> States] : Passed(m, c, live, new, st)
  BY PassEffect DEF Ready, Typed
<1>2. \A s \in new : task[m][s].pc = "none" BY <1>1 DEF Passed
<1>3. /\ DOMAIN macro' = Macros /\ \A n \in Macros \ {m} : macro'[n] = macro[n]
      /\ macro'[m].phase = IF live \cup new = {} THEN "done" ELSE "running"
      /\ macro'[m].state = st /\ macro'[m].out = c.out /\ MacroType(m, macro'[m])
  BY <1>1, PassMacros DEF Ready
<1>4. /\ DOMAIN task' = Macros /\ DOMAIN task'[m] = Steps(m)
      /\ \A n \in Macros \ {m} : task'[n] = task[n]
      /\ \A s \in Steps(m) : task'[m][s] = IF s \in new THEN Started
                                           ELSE IF s \in live THEN task[m][s] ELSE Idle
      /\ Live(m)' = live \cup new
  <2>1. /\ DOMAIN task' = Macros /\ DOMAIN task'[m] = Steps(m)
        /\ \A n \in Macros \ {m} : task'[n] = task[n]
        /\ \A s \in Steps(m) : task'[m][s] = IF s \in new THEN Started
                                             ELSE IF s \in live THEN task[m][s] ELSE Idle
    BY <1>1, PassTasks
  <2>2. Live(m)' = {s \in Steps(m) : task'[m][s].pc # "none"} BY DEF Live, Steps
  <2> QED BY <2>1, <2>2, IdleTask DEF Live, Ready
<1>5. \A n \in Macros : Steps(n)' = Steps(n) /\ \A s : Step(n, s)' = Step(n, s)
  BY DEF Steps, Step
<1>6. Typed'
  <2>1. ASSUME NEW n \in Macros
        PROVE  /\ MacroType(n, macro[n])' /\ DOMAIN task'[n] = Steps(n)'
               /\ \A s \in Steps(n)' : TaskType(task[n][s])'
    <3>1. CASE n = m
      <4>1. MacroType(n, macro[n])' BY <3>1, <1>3, <1>5 DEF MacroType
      <4>2. ASSUME NEW s \in Steps(n) PROVE TaskType(task'[n][s])
        BY <3>1, <1>4, IdleTask DEF Typed
      <4> QED BY <3>1, <4>1, <4>2, <1>4, <1>5 DEF TaskType
    <3>2. CASE n # m
      BY <3>2, <1>3, <1>4, <1>5 DEF Typed, MacroType, TaskType
    <3> QED BY <3>1, <3>2
  <2> QED BY <2>1, <1>3, <1>4 DEF Typed
<1>7. ASSUME NEW n \in Macros PROVE Scheduled(n, macro[n], Live(n))'
  <2>1. CASE n = m
    <3>1. live \subseteq Steps(m) BY DEF Ready, Live
    <3>2. \A s \in Steps(m) : c.state[s] \in States /\ st[s] \in States BY DEF Ready, MacroType
    <3>3. \A s \in live \cup new : live \cup new # {} /\ st[s] = "running"
      BY <1>1, <3>1 DEF Ready, Passed
    <3>4. \A s \in Steps(m) : Step(m, s).deps \subseteq Steps(m)
      BY DEF Ready, Valid, Steps, Step
    <3>5. ASSUME live \cup new # {}, NEW s \in Steps(m), st[s] = "running", NEW d \in Step(m, s).deps
          PROVE  st[d] \in Ended
      <4>1. CASE s \in new BY <4>1, <1>1, <3>4, <3>5 DEF Passed
      <4>2. CASE s \notin new
        <5>1. c.state[s] = "running" BY <4>2, <3>5, <1>1 DEF Passed
        <5>2. c.state[d] \in Ended BY <5>1, <3>5 DEF Ready
        <5> QED BY <5>2, <1>1, <3>4 DEF Passed
      <4> QED BY <4>1, <4>2
    <3> QED BY <2>1, <1>3, <1>4, <1>5, <3>3, <3>5 DEF Scheduled, Ready, Valid
  <2>2. CASE n # m
    <3>1. Live(n)' = Live(n) BY <2>2, <1>4, <1>5 DEF Live
    <3> QED BY <2>2, <3>1, <1>3, <1>5 DEF Schedules, Scheduled, Valid
  <2> QED BY <2>1, <2>2
<1> QED BY <1>6, <1>7 DEF Schedules
---------------------------------------------------------------------------
(* Steps that only release locks, or only lose jobs.                       *)

\* Every task is as it was, or holds no lock any more.
Released ==
    /\ req' = req
    /\ \A n \in Macros : \A t \in Steps(n) :
         \/ task'[n][t].pc = task[n][t].pc /\ task'[n][t].held = task[n][t].held
         \/ task'[n][t].pc \notin Holding /\ task'[n][t].held = {}

LEMMA ReleasedLocks ==
    ASSUME Typed, Queued, Excluded, Released
    PROVE  Queued' /\ Excluded'
<1>1. \A n \in Macros : Steps(n)' = Steps(n) /\ \A s : Step(n, s)' = Step(n, s) /\ Wanted(n, s)' = Wanted(n, s)
  BY DEF Released, Steps, Step, Wanted
<1>2. \A n \in Macros : \A t \in Steps(n) : Steps(n) \subseteq Nat
  BY StepTypes
<1>3. ASSUME NEW n \in Macros, NEW t \in Steps(n) PROVE Ordered(n, t, task[n][t])'
  <2>1. CASE task'[n][t].pc = task[n][t].pc /\ task'[n][t].held = task[n][t].held
    BY <2>1, <1>1 DEF Queued, Ordered
  <2>2. CASE task'[n][t].pc \notin Holding /\ task'[n][t].held = {}
    <3>1. Wanted(n, t) = {} \/ task'[n][t].pc # "work" BY <2>2 DEF Holding
    <3> QED BY <3>1, <2>2, <1>1 DEF Ordered, Holding
  <2> QED BY <2>1, <2>2 DEF Released
<1>4. ASSUME NEW m \in Macros, NEW n \in Macros, NEW s \in Steps(m), NEW t \in Steps(n),
             <<m, s>> # <<n, t>>, req'[m].root = req'[n].root,
             task'[m][s].pc \in Holding, task'[n][t].pc \in Holding
      PROVE  Shared(m, s, n, t)'
  <2>1. /\ task'[m][s].pc = task[m][s].pc /\ task'[m][s].held = task[m][s].held
        /\ task'[n][t].pc = task[n][t].pc /\ task'[n][t].held = task[n][t].held
    BY <1>4 DEF Released
  <2>2. Shared(m, s, n, t) BY <2>1, <1>4 DEF Excluded, Released
  <2> QED BY <2>1, <2>2, <1>1 DEF Shared
<1> QED BY <1>1, <1>3, <1>4 DEF Queued, Excluded

\* Every job of a later state comes from one before, and has no more left to
\* do: a suffix of what it had.
Suffix(q, r) == \E d \in Nat : \A k \in DOMAIN q : k \in Nat /\ k + d \in DOMAIN r /\ q[k] = r[k + d]
From(i, j) ==
    /\ i.macro = j.macro /\ i.step = j.step /\ (j.orphan => i.orphan)
    /\ Suffix(i.left, j.left)
NoNewJobs ==
    /\ req' = req /\ \A i \in jobs' : \E j \in jobs : From(i, j)
    /\ \A j \in jobs : j.orphan => \E i \in jobs' : i.orphan
NoNewWork == NoNewJobs /\ files' = files

LEMMA Suffixes ==
    ASSUME NEW S, NEW q \in Seq(S)
    PROVE  Suffix(q, q) /\ Suffix(<<>>, q) /\ (q # <<>> => Suffix(Tail(q), q))
<1>1. DOMAIN q = 1..Len(q) /\ Len(q) \in Nat BY LenProperties
<1>2. Suffix(q, q)
  <2>1. \A k \in DOMAIN q : k \in Nat /\ k + 0 \in DOMAIN q /\ q[k] = q[k + 0] BY <1>1
  <2> QED BY <2>1 DEF Suffix
<1>3. Suffix(<<>>, q)
  <2>1. DOMAIN <<>> = {} OBVIOUS
  <2> QED BY <2>1 DEF Suffix
<1>4. ASSUME q # <<>> PROVE Suffix(Tail(q), q)
  <2>1. /\ Tail(q) \in Seq(S) /\ Len(Tail(q)) = Len(q) - 1
        /\ \A k \in 1..Len(Tail(q)) : Tail(q)[k] = q[k + 1]
    BY <1>4, HeadTailProperties
  <2>2. DOMAIN Tail(q) = 1..Len(Tail(q)) BY <2>1, LenProperties
  <2>3. \A k \in DOMAIN Tail(q) : k \in Nat /\ k + 1 \in DOMAIN q /\ Tail(q)[k] = q[k + 1]
    BY <1>1, <2>1, <2>2
  <2> QED BY <2>3 DEF Suffix
<1> QED BY <1>2, <1>3, <1>4

LEMMA SameJobs ==
    ASSUME \A j \in jobs : JobType(j), jobs' = jobs, req' = req, files' = files
    PROVE  NoNewWork
BY Suffixes DEF NoNewWork, NoNewJobs, From, JobType

LEMMA NoNewWrites ==
    ASSUME Typed, OneByOne, WritesFresh, NoNewJobs
    PROVE  OneByOne' /\ (files' = files => WritesFresh')
<1>1. RootsApart' = RootsApart BY DEF NoNewJobs, RootsApart, Steps, Step
<1>2. ASSUME NEW i \in jobs', NEW j \in jobs, From(i, j)
      PROVE  Kind(i)' = Kind(j) /\ Step(i.macro, i.step)' = Step(j.macro, j.step)
  BY <1>2 DEF NoNewJobs, From, Kind, Step
<1>3. ASSUME NEW i \in jobs', Kind(i)' \in {"write", "patch"}, NEW k \in DOMAIN i.left, NEW l \in DOMAIN i.left,
             i.left[k] = i.left[l]
      PROVE  k = l
  <2>1. PICK j \in jobs : From(i, j) BY DEF NoNewJobs
  <2>2. PICK d \in Nat : \A x \in DOMAIN i.left : x \in Nat /\ x + d \in DOMAIN j.left /\ i.left[x] = j.left[x + d]
    BY <2>1 DEF From, Suffix
  <2>3. k + d = l + d
    BY <1>2, <1>3, <2>1, <2>2 DEF OneByOne
  <2> QED BY <2>2, <2>3
<1>4. ASSUME files' = files PROVE WritesFresh'
  <2> SUFFICES ASSUME RootsApart, \A j \in jobs' : ~j.orphan, NEW i \in jobs', Checked(i)',
                      NEW k \in DOMAIN i.left
               PROVE  files'[i.left[k]].text = Step(i.macro, i.step)'.expect
    BY <1>1 DEF WritesFresh
  <2>1. PICK j \in jobs : From(i, j) BY DEF NoNewJobs
  <2>2. Checked(j) BY <1>2, <2>1 DEF Checked
  <2>3. \A x \in DOMAIN j.left : files[j.left[x]].text = Step(j.macro, j.step).expect
    BY <2>2 DEF WritesFresh, NoNewJobs
  <2>4. PICK d \in Nat : \A x \in DOMAIN i.left : x \in Nat /\ x + d \in DOMAIN j.left /\ i.left[x] = j.left[x + d]
    BY <2>1 DEF From, Suffix
  <2> QED BY <1>2, <1>4, <2>1, <2>3, <2>4
<1> QED BY <1>3, <1>4 DEF OneByOne
---------------------------------------------------------------------------
(* The steps of a coordinator.                                             *)

\* What Jobs says of one job but for its task and its macro.
JobRest(j) == JobType(j) /\ \A i \in DOMAIN j.left : j.left[i] \in Touches(j)
OneJobEach(J) == \A i, j \in J : i.macro = j.macro /\ i.step = j.step => i = j
JobPlace(j, mac, tsk) ==
    /\ tsk[j.macro][j.step].pc = IF j.orphan THEN "none" ELSE "work"
    /\ \/ mac[j.macro].state[j.step] = "running"
       \/ mac[j.macro].phase = "done" /\ mac[j.macro].state[j.step] = "skipped"

LEMMA JobsParts ==
    Jobs <=> /\ \A j \in jobs : JobPlace(j, macro, task) /\ \A i \in DOMAIN j.left : j.left[i] \in Touches(j)
             /\ OneJobEach(jobs)
BY DEF Jobs, JobPlace, OneJobEach

\* The jobs of m that a coordinator c with the tasks live knows of, or has given up.
JobsKnown(m, c, live, J) ==
    \A j \in J :
      IF j.macro = m THEN /\ c.state[j.step] = "running"
                          /\ IF j.orphan THEN j.step \notin live
                             ELSE j.step \in live /\ task[m][j.step].pc = "work"
      ELSE JobPlace(j, macro, task)

LEMMA PassKeeps ==
    ASSUME IInv, NEW m \in Macros, NEW c, NEW live, Ready(m, c, live),
           \A s \in Steps(m) : c.state[s] = "pending" => task[m][s].pc = "none",
           Pass(m, c, live), NoNewWork, OneJobEach(jobs'), \A j \in jobs' : JobRest(j),
           JobsKnown(m, c, live, jobs')
    PROVE  IInv'
<1> USE DEF IInv
<1>1. PICK new \in SUBSET Steps(m), st \in [Steps(m) -> States] : Passed(m, c, live, new, st)
  BY PassEffect DEF Ready, Typed
<1>2. Passed(m, c, live, new, st) /\ \A s \in new : task[m][s].pc = "none" /\ c.state[s] = "pending"
  BY <1>1 DEF Passed
<1>3. \A n \in Macros : Steps(n)' = Steps(n) /\ \A s : Step(n, s)' = Step(n, s)
  BY DEF NoNewWork, NoNewJobs, Steps, Step
<1>4. \A j \in jobs' : Touches(j)' = Touches(j) /\ JobType(j)' /\ j.macro \in Macros
                       /\ (j.macro = m => j.step \in Steps(m))
  BY <1>3 DEF Touches, JobRest, JobType
<1>5. Typed' /\ Schedules' BY <1>4, PassSchedules DEF NoNewWork, NoNewJobs
<1>6. live \in SUBSET Live(m) BY DEF Ready
<1>7. /\ \A n \in Macros \ {m} : task'[n] = task[n]
      /\ \A s \in Steps(m) : task'[m][s] = IF s \in new THEN Started
                                           ELSE IF s \in live THEN task[m][s] ELSE Idle
  BY <1>2, PassTasks
<1>8. /\ \A n \in Macros \ {m} : macro'[n] = macro[n]
      /\ macro'[m].phase = IF live \cup new = {} THEN "done" ELSE "running"
      /\ macro'[m].state = st
  BY <1>1, PassMacros DEF Ready
<1>9. ASSUME NEW j \in jobs' PROVE JobPlace(j, macro', task')
  <2>1. CASE j.macro = m
    <3>1. j.step \in Steps(m) /\ c.state[j.step] = "running" /\ j.step \notin new
      BY <2>1, <1>2, <1>4 DEF JobsKnown
    <3>2. IF live \cup new = {} THEN st[j.step] = "skipped" ELSE st[j.step] = "running"
      BY <3>1, <1>2 DEF Passed, Ended
    <3>3. task'[m][j.step].pc = IF j.orphan THEN "none" ELSE "work"
      BY <2>1, <3>1, <1>7, IdleTask DEF JobsKnown
    <3> QED BY <2>1, <3>2, <3>3, <1>8 DEF JobPlace
  <2>2. CASE j.macro # m
    BY <2>2, <1>4, <1>7, <1>8 DEF JobsKnown, JobPlace
  <2> QED BY <2>1, <2>2
<1>10. Jobs'
  <2>1. \A j \in jobs' : \A i \in DOMAIN j.left : j.left[i] \in Touches(j)'
    BY <1>4 DEF JobRest
  <2> QED BY <1>9, <2>1 DEF Jobs, JobPlace, OneJobEach
<1>11. Released
  <2>1. ASSUME NEW n \in Macros, NEW t \in Steps(n)
        PROVE  \/ task'[n][t].pc = task[n][t].pc /\ task'[n][t].held = task[n][t].held
               \/ task'[n][t].pc \notin Holding /\ task'[n][t].held = {}
    <3>1. CASE n = m BY <3>1, <1>7, IdleTask DEF Holding
    <3>2. CASE n # m BY <3>2, <1>7
    <3> QED BY <3>1, <3>2
  <2> QED BY <2>1 DEF Released, NoNewWork, NoNewJobs
<1>12. Queued' /\ Excluded' BY <1>11, ReleasedLocks
<1>13. OneByOne' /\ WritesFresh' BY NoNewWrites DEF NoNewWork
<1> QED BY <1>5, <1>10, <1>12, <1>13

\* A request is answered with an error, or its first steps are launched.
LEMMA SubmitKeeps ==
    ASSUME IInv, NEW m \in Macros, Submit(m)
    PROVE  IInv'
<1> USE DEF IInv
<1>1. NoNewWork BY SameJobs DEF Submit, Typed
<1>2. \A j \in jobs : j.macro # m
  <2> SUFFICES ASSUME NEW j \in jobs, j.macro = m PROVE FALSE OBVIOUS
  <2>1. j.step \in Steps(m) BY DEF Typed, JobType
  <2>2. macro[m].state[j.step] = "pending" BY <2>1 DEF Submit, Schedules, Scheduled
  <2> QED BY <2>2 DEF Jobs
<1>3. CASE Valid(req[m])
  <2>1. Pass(m, macro[m], {}) BY <1>3 DEF Submit
  <2>2. \A s \in Steps(m) : macro[m].state[s] = "pending" BY DEF Submit, Schedules, Scheduled
  <2>3. Ready(m, macro[m], {}) BY <1>3, <2>2 DEF Ready, Typed
  <2>4. \A s \in Steps(m) : task[m][s].pc = "none" BY DEF Submit, Schedules, Scheduled, Live
  <2>5. jobs' = jobs BY DEF Submit
  <2>6. JobsKnown(m, macro[m], {}, jobs') /\ OneJobEach(jobs')
        /\ \A j \in jobs' : JobRest(j)
    BY <1>2, <2>5 DEF JobsKnown, Jobs, JobPlace, OneJobEach, JobRest, Typed
  <2> QED BY <1>1, <2>1, <2>3, <2>4, <2>6, PassKeeps
<1>4. CASE ~Valid(req[m])
  <2>1. /\ macro' = [macro EXCEPT ![m].phase = "rejected"] /\ task' = task
        /\ req' = req /\ jobs' = jobs /\ files' = files
    BY <1>4 DEF Submit
  <2>2. \A n \in Macros : Steps(n)' = Steps(n) /\ Live(n)' = Live(n) /\ \A s : Step(n, s)' = Step(n, s)
    BY <2>1 DEF Steps, Step, Live
  <2>3. /\ DOMAIN macro' = Macros /\ \A n \in Macros \ {m} : macro'[n] = macro[n]
        /\ macro'[m].phase = "rejected" /\ macro'[m].state = macro[m].state
        /\ MacroType(m, macro'[m])
    <3>1. macro'[m] = [macro[m] EXCEPT !.phase = "rejected"] BY <2>1 DEF Typed
    <3> QED BY <2>1, <3>1 DEF Typed, MacroType, Phases
  <2>4. Typed' BY <2>1, <2>2, <2>3 DEF Typed, MacroType, TaskType, JobType
  <2>5. Schedules'
    <3>1. Live(m) = {} BY DEF Submit, Schedules, Scheduled
    <3>2. ASSUME NEW n \in Macros \ {m} PROVE Scheduled(n, macro[n], Live(n))' <=> Scheduled(n, macro[n], Live(n))
      BY <2>1, <2>2, <2>3 DEF Scheduled, Valid
    <3>3. Scheduled(m, macro[m], Live(m))' BY <3>1, <2>1, <2>2, <2>3 DEF Scheduled
    <3> QED BY <3>2, <3>3 DEF Schedules
  <2>6. Jobs'
    <3>1. \A j \in jobs : j.macro \in Macros \ {m} BY <1>2 DEF Typed, JobType
    <3> QED BY <3>1, <2>1, <2>2, <2>3 DEF Jobs, Touches
  <2>7. Released BY <2>1 DEF Released
  <2> QED BY <1>1, <2>4, <2>5, <2>6, <2>7, ReleasedLocks, NoNewWrites DEF NoNewWork
<1> QED BY <1>3, <1>4

\* A cancelled macro has the tasks and jobs it had.
LEMMA CancelKeeps ==
    ASSUME IInv, NEW m \in Macros, Cancel(m)
    PROVE  IInv'
<1> USE DEF IInv
<1>1. /\ macro' = [macro EXCEPT ![m].phase = "cancelled"] /\ task' = task
      /\ req' = req /\ jobs' = jobs /\ files' = files /\ macro[m].phase = "running"
  BY DEF Cancel
<1>2. \A n \in Macros : Steps(n)' = Steps(n) /\ Live(n)' = Live(n) /\ \A s : Step(n, s)' = Step(n, s)
  BY <1>1 DEF Steps, Step, Live
<1>3. /\ DOMAIN macro' = Macros /\ \A n \in Macros \ {m} : macro'[n] = macro[n]
      /\ macro'[m].phase = "cancelled" /\ macro'[m].state = macro[m].state
      /\ MacroType(m, macro'[m])
  <2>1. macro'[m] = [macro[m] EXCEPT !.phase = "cancelled"] BY <1>1 DEF Typed
  <2> QED BY <1>1, <2>1 DEF Typed, MacroType, Phases
<1>4. Typed' BY <1>1, <1>2, <1>3 DEF Typed, MacroType, TaskType, JobType
<1>5. Schedules'
  <2>1. \A n \in Macros : Valid(req[n])' = Valid(req[n]) BY <1>1 DEF Valid
  <2> QED BY <2>1, <1>1, <1>2, <1>3 DEF Schedules, Scheduled
<1>6. Jobs' BY <1>1, <1>2, <1>3 DEF Jobs, Touches, Typed, JobType
<1>7. Released BY <1>1 DEF Released
<1>8. NoNewWork BY <1>1, SameJobs DEF Typed
<1> QED BY <1>4, <1>5, <1>6, <1>7, <1>8, ReleasedLocks, NoNewWrites DEF NoNewWork

\* A task that ended is joined: its job is over.
LEMMA JoinKeeps ==
    ASSUME IInv, NEW m \in Macros, NEW s \in Steps(m), Join(m, s)
    PROVE  IInv'
<1> USE DEF IInv
<1> DEFINE pc == task[m][s].pc
           c  == [macro[m] EXCEPT !.state[s] = pc, !.out[s] = task[m][s].out,
                                  !.stopped = @ \/ (pc = "failed" /\ req[m].stop)]
           live == Live(m) \ {s}
<1>1. NoNewWork BY SameJobs DEF Join, Typed
<1>2. /\ macro[m].phase = "running" /\ pc \in {"succeeded", "failed"} /\ jobs' = jobs
      /\ Pass(m, c, live)
  BY DEF Join
<1>3. MacroType(m, macro[m]) /\ \A x \in Steps(m) : macro[m].state[x] \in States
  BY DEF Typed, MacroType
<1>4. /\ MacroType(m, c)
      /\ \A x \in Steps(m) : c.state[x] = IF x = s THEN pc ELSE macro[m].state[x]
  BY <1>2, <1>3 DEF MacroType, States, Ended
<1> HIDE DEF c, pc
<1>5. Scheduled(m, macro[m], Live(m)) /\ s \in Live(m)
  BY <1>2 DEF Schedules, Live, pc
<1>6. Ready(m, c, live)
  <2>1. Valid(req[m]) /\ \A x \in Steps(m) : Step(m, x).deps \subseteq Steps(m)
    BY <1>2, <1>5 DEF Scheduled, Valid, Steps, Step
  <2>2. live \subseteq Live(m) /\ \A x \in live : x \in Steps(m) /\ c.state[x] = "running"
    BY <1>4, <1>5 DEF Scheduled, Live
  <2>3. ASSUME NEW x \in Steps(m), c.state[x] = "running", NEW d \in Step(m, x).deps
        PROVE  c.state[d] \in Ended
    <3>1. x # s /\ macro[m].state[x] = "running" BY <1>2, <1>4, <2>3
    <3>2. macro[m].state[d] \in Ended /\ d \in Steps(m) BY <3>1, <1>2, <1>5, <2>1, <2>3 DEF Scheduled
    <3> QED BY <3>2, <1>2, <1>4 DEF Ended
  <2> QED BY <1>4, <2>1, <2>2, <2>3 DEF Ready
<1>7. \A x \in Steps(m) : c.state[x] = "pending" => task[m][x].pc = "none"
  BY <1>2, <1>4, <1>5 DEF Scheduled, Live
<1>8. \A j \in jobs : j.macro = m => j.step \in Steps(m) /\ j.step # s
  BY <1>2 DEF Jobs, Typed, JobType, pc
<1>9. JobsKnown(m, c, live, jobs)
  <2>1. ASSUME NEW j \in jobs, j.macro = m
        PROVE  /\ c.state[j.step] = "running"
               /\ IF j.orphan THEN j.step \notin live
                  ELSE j.step \in live /\ task[m][j.step].pc = "work"
    BY <2>1, <1>2, <1>4, <1>8 DEF Jobs, Live
  <2> QED BY <2>1 DEF Jobs, JobsKnown, JobPlace
<1>10. OneJobEach(jobs) /\ \A j \in jobs : JobRest(j)
  BY DEF Jobs, OneJobEach, JobRest, Typed
<1> QED BY <1>1, <1>2, <1>6, <1>7, <1>9, <1>10, PassKeeps

---------------------------------------------------------------------------
(* The steps of a task.                                                    *)

\* The coordinators stay; a task that was there is there, or its macro is cancelled.
LEMMA TaskSchedules ==
    ASSUME Typed, Schedules, NEW m \in Macros, NEW s \in Live(m), NEW t,
           task' = [task EXCEPT ![m][s] = t], TaskType(t),
           t.pc = "none" => macro[m].phase = "cancelled",
           req' = req, macro' = macro, files' = files,
           \A j \in jobs' : JobType(j)
    PROVE  Typed' /\ Schedules'
<1>0. s \in Steps(m) BY DEF Live
<1>1. /\ DOMAIN task' = Macros /\ \A n \in Macros : DOMAIN task'[n] = Steps(n)
      /\ task'[m][s] = t
      /\ \A n \in Macros : \A x \in Steps(n) : <<n, x>> # <<m, s>> => task'[n][x] = task[n][x]
  BY <1>0 DEF Typed
<1>2. \A n \in Macros : Steps(n)' = Steps(n) /\ \A x : Step(n, x)' = Step(n, x)
  BY DEF Steps, Step
<1>3. Typed'
  <2>1. ASSUME NEW n \in Macros, NEW x \in Steps(n) PROVE TaskType(task'[n][x])
    <3>1. CASE <<n, x>> = <<m, s>> BY <3>1, <1>1
    <3>2. CASE <<n, x>> # <<m, s>> BY <3>2, <1>1 DEF Typed
    <3> QED BY <3>1, <3>2
  <2> QED BY <2>1, <1>1, <1>2 DEF Typed, MacroType, TaskType, JobType
<1>4. ASSUME NEW n \in Macros PROVE Scheduled(n, macro[n], Live(n))'
  <2>1. Live(n)' = {x \in Steps(n) : task'[n][x].pc # "none"} BY <1>2 DEF Live
  <2>2. Live(n)' \subseteq Live(n)
    <3> SUFFICES ASSUME NEW x \in Steps(n), task'[n][x].pc # "none" PROVE x \in Live(n)
      BY <2>1
    <3>1. CASE <<n, x>> = <<m, s>> BY <3>1
    <3>2. CASE <<n, x>> # <<m, s>> BY <3>2, <1>1 DEF Live
    <3> QED BY <3>1, <3>2
  <2>3. macro[n].phase = "running" => Live(n)' = Live(n)
    <3> SUFFICES ASSUME macro[n].phase = "running", NEW x \in Live(n) PROVE x \in Live(n)'
      BY <2>2
    <3>1. x \in Steps(n) /\ task[n][x].pc # "none" BY DEF Live
    <3>2. CASE <<n, x>> = <<m, s>> BY <3>1, <3>2, <1>1, <2>1
    <3>3. CASE <<n, x>> # <<m, s>> BY <3>1, <3>3, <1>1, <2>1
    <3> QED BY <3>2, <3>3
  <2>4. Scheduled(n, macro[n], Live(n)) BY DEF Schedules
  <2> QED BY <2>2, <2>3, <2>4, <1>2 DEF Scheduled, Valid
<1> QED BY <1>3, <1>4 DEF Schedules

\* A live task is at work exactly when it has a job, so one that is not has none.
LEMMA NoJobOf ==
    ASSUME Jobs, Typed, NEW m \in Macros, NEW s \in Steps(m), task[m][s].pc \notin {"none", "work"}
    PROVE  \A j \in jobs : ~(j.macro = m /\ j.step = s)
BY DEF Jobs

\* Aborted, a task gives its locks back, and its job has nobody any more.
LEMMA DropKeeps ==
    ASSUME IInv, NEW m \in Macros, NEW s \in Steps(m), Drop(m, s)
    PROVE  IInv'
<1> USE DEF IInv
<1>1. /\ task[m][s].pc \notin {"none", "succeeded", "failed"} /\ s \in Live(m)
      /\ jobs' = Orphan(m, s) /\ req' = req /\ files' = files
      /\ macro[m].phase = "cancelled" \/ macro[m].stopped
  BY DEF Drop, Live
<1>2. ASSUME NEW i \in jobs'
      PROVE  \E j \in jobs :
               /\ i.macro = j.macro /\ i.step = j.step /\ i.left = j.left
               /\ i.orphan = (j.orphan \/ (j.macro = m /\ j.step = s))
               /\ JobType(i)
               /\ (j.macro = m /\ j.step = s) \/ i = j
  <2>1. PICK j \in jobs : i = IF j.macro = m /\ j.step = s THEN [j EXCEPT !.orphan = TRUE] ELSE j
    BY <1>1 DEF Orphan
  <2>2. JobType(j) BY DEF Typed
  <2>3. CASE j.macro = m /\ j.step = s
    <3>1. i = [j EXCEPT !.orphan = TRUE] BY <2>1, <2>3
    <3>2. i.macro = j.macro /\ i.step = j.step /\ i.left = j.left /\ i.orphan = TRUE /\ JobType(i)
      BY <3>1, <2>2 DEF JobType
    <3> QED BY <3>2, <2>3
  <2>4. CASE ~(j.macro = m /\ j.step = s)
    BY <2>1, <2>2, <2>4 DEF JobType
  <2> QED BY <2>3, <2>4
<1>3. NoNewWork
  <2>1. ASSUME NEW i \in jobs' PROVE \E j \in jobs : From(i, j)
    <3>1. PICK j \in jobs : /\ i.macro = j.macro /\ i.step = j.step /\ i.left = j.left
                            /\ i.orphan = (j.orphan \/ (j.macro = m /\ j.step = s))
      BY <1>2
    <3>2. j.orphan => i.orphan BY <3>1
    <3>3. Suffix(i.left, j.left) BY <3>1, Suffixes DEF Typed, JobType
    <3> QED BY <3>1, <3>2, <3>3 DEF From
  <2>2. ASSUME NEW j \in jobs, j.orphan PROVE \E i \in jobs' : i.orphan
    <3>1. [j EXCEPT !.orphan = TRUE].orphan BY DEF Typed, JobType
    <3> QED BY <2>2, <3>1, <1>1 DEF Orphan
  <2> QED BY <2>1, <2>2, <1>1 DEF NoNewWork, NoNewJobs
<1>4. OneJobEach(jobs')
  <2> SUFFICES ASSUME NEW i \in jobs', NEW k \in jobs', i.macro = k.macro, i.step = k.step
               PROVE  i = k
    BY DEF OneJobEach
  <2>1. PICK j \in jobs : i = IF j.macro = m /\ j.step = s THEN [j EXCEPT !.orphan = TRUE] ELSE j
    BY <1>1 DEF Orphan
  <2>2. PICK l \in jobs : k = IF l.macro = m /\ l.step = s THEN [l EXCEPT !.orphan = TRUE] ELSE l
    BY <1>1 DEF Orphan
  <2>3. i.macro = j.macro /\ i.step = j.step /\ k.macro = l.macro /\ k.step = l.step
    BY <2>1, <2>2 DEF Typed, JobType
  <2>4. j = l BY <2>3 DEF Jobs
  <2> QED BY <2>1, <2>2, <2>4
<1>5. \A i \in jobs' : JobRest(i)
  BY <1>2 DEF JobRest, Jobs, Touches
<1>6. Scheduled(m, macro[m], Live(m)) BY DEF Schedules
<1>7. CASE macro[m].phase = "running"
  <2>1. Pass(m, macro[m], Live(m) \ {s}) BY <1>7 DEF Drop
  <2>2. Ready(m, macro[m], Live(m) \ {s}) BY <1>6, <1>7 DEF Ready, Scheduled, Typed
  <2>3. \A x \in Steps(m) : macro[m].state[x] = "pending" => task[m][x].pc = "none"
    BY <1>6 DEF Scheduled, Live
  <2>4. JobsKnown(m, macro[m], Live(m) \ {s}, jobs')
    <3> SUFFICES ASSUME NEW i \in jobs'
                 PROVE  IF i.macro = m
                        THEN /\ macro[m].state[i.step] = "running"
                             /\ IF i.orphan THEN i.step \notin Live(m) \ {s}
                                ELSE i.step \in Live(m) \ {s} /\ task[m][i.step].pc = "work"
                        ELSE JobPlace(i, macro, task)
      BY DEF JobsKnown
    <3>1. PICK j \in jobs : /\ i.macro = j.macro /\ i.step = j.step
                            /\ i.orphan = (j.orphan \/ (j.macro = m /\ j.step = s))
      BY <1>2
    <3>2. j.step \in Steps(j.macro) /\ JobPlace(j, macro, task) /\ j.orphan \in BOOLEAN
      BY DEF Typed, JobType, Jobs, JobPlace
    <3>3. CASE i.macro = m BY <3>1, <3>2, <3>3, <1>7 DEF JobPlace, Live
    <3>4. CASE i.macro # m BY <3>1, <3>2, <3>4 DEF JobPlace
    <3> QED BY <3>3, <3>4
  <2> QED BY <1>3, <1>4, <1>5, <2>1, <2>2, <2>3, <2>4, PassKeeps
<1>8. CASE macro[m].phase # "running"
  <2>1. task' = [task EXCEPT ![m][s] = Idle] /\ macro' = macro BY <1>8 DEF Drop
  <2>2. macro[m].phase = "cancelled"
    BY <1>1, <1>6, <1>8 DEF Scheduled, Typed, MacroType, Phases
  <2>3. \A i \in jobs' : JobType(i) BY <1>5 DEF JobRest
  <2>4. Typed' /\ Schedules' BY <1>1, <2>1, <2>2, <2>3, TaskSchedules, IdleTask
  <2>5. /\ task'[m][s] = Idle
        /\ \A n \in Macros : \A x \in Steps(n) : <<n, x>> # <<m, s>> => task'[n][x] = task[n][x]
    BY <2>1 DEF Typed
  <2>6. Released BY <2>5, <1>1, IdleTask DEF Released, Holding
  <2>7. Jobs'
    <3>1. ASSUME NEW i \in jobs' PROVE JobPlace(i, macro, task')
      <4>1. PICK j \in jobs : /\ i.macro = j.macro /\ i.step = j.step
                              /\ i.orphan = (j.orphan \/ (j.macro = m /\ j.step = s))
        BY <1>2
      <4>2. j.macro \in Macros /\ j.step \in Steps(j.macro) /\ JobPlace(j, macro, task) /\ j.orphan \in BOOLEAN
        BY DEF Typed, JobType, Jobs, JobPlace
      <4>3. CASE j.macro = m /\ j.step = s BY <4>1, <4>2, <4>3, <2>5, IdleTask DEF JobPlace
      <4>4. CASE ~(j.macro = m /\ j.step = s) BY <4>1, <4>2, <4>4, <2>5 DEF JobPlace
      <4> QED BY <4>3, <4>4
    <3>2. \A i \in jobs' : Touches(i)' = Touches(i) BY <1>1 DEF Touches, Step
    <3> QED BY <3>1, <3>2, <1>4, <1>5, <2>1 DEF Jobs, JobPlace, OneJobEach, JobRest
  <2> QED BY <1>3, <2>4, <2>6, <2>7, ReleasedLocks, NoNewWrites DEF NoNewWork
<1> QED BY <1>7, <1>8

\* A task that stays without a job, and takes no lock: Lookup, LockWorkspace
\* and LockFile have this in common.
LEMMA MoveKeepsJobs ==
    ASSUME IInv, NEW m \in Macros, NEW s \in Steps(m), NEW t,
           task[m][s].pc \notin {"none", "work"}, t.pc \notin {"none", "work"}, TaskType(t),
           task' = [task EXCEPT ![m][s] = t],
           req' = req, macro' = macro, files' = files, jobs' = jobs
    PROVE  Typed' /\ Schedules' /\ Jobs' /\ OneByOne' /\ WritesFresh'
<1> USE DEF IInv
<1>1. s \in Live(m) BY DEF Live
<1>2. Typed' /\ Schedules'
  <2>1. \A j \in jobs' : JobType(j) BY DEF Typed
  <2> QED BY <1>1, <2>1, TaskSchedules
<1>3. NoNewWork BY SameJobs DEF Typed
<1>4. \A n \in Macros : \A x \in Steps(n) : <<n, x>> # <<m, s>> => task'[n][x] = task[n][x]
  BY DEF Typed
<1>5. \A j \in jobs : j.macro \in Macros /\ j.step \in Steps(j.macro) /\ <<j.macro, j.step>> # <<m, s>>
  BY NoJobOf DEF Typed, JobType
<1>6. Jobs'
  <2>1. \A j \in jobs : task'[j.macro][j.step] = task[j.macro][j.step] BY <1>4, <1>5
  <2>2. \A j \in jobs : Touches(j)' = Touches(j) BY DEF Touches, Step
  <2> QED BY <2>1, <2>2 DEF Jobs
<1> QED BY <1>2, <1>3, <1>6, NoNewWrites DEF NoNewWork

LEMMA LookupKeeps ==
    ASSUME IInv, NEW m \in Macros, NEW s \in Steps(m), Lookup(m, s)
    PROVE  IInv'
<1> USE DEF IInv
<1>1. PICK t : /\ task' = [task EXCEPT ![m][s] = t] /\ t.pc \in {"succeeded", "workspace"}
               /\ t.held = task[m][s].held /\ TaskType(t)
  <2> DEFINE hit == cache[CHOOSE i \in Hits(Key(Step(m, s))) : TRUE].out
             t1 == [task[m][s] EXCEPT !.pc = "succeeded", !.out = hit]
             k  == IF Cacheable(Step(m, s)) THEN Key(Step(m, s)) ELSE <<>>
             t2 == [task[m][s] EXCEPT !.pc = "workspace", !.key = k]
  <2>1. TaskType(task[m][s]) BY DEF Typed
  <2>2. \A h : LET t == [task[m][s] EXCEPT !.pc = "succeeded", !.out = h]
               IN  t.pc = "succeeded" /\ t.held = task[m][s].held /\ TaskType(t)
    BY <2>1 DEF TaskType, Places
  <2>3. \A h : LET t == [task[m][s] EXCEPT !.pc = "workspace", !.key = h]
               IN  t.pc = "workspace" /\ t.held = task[m][s].held /\ TaskType(t)
    BY <2>1 DEF TaskType, Places
  <2>4. \/ \E h : task' = [task EXCEPT ![m][s] = [task[m][s] EXCEPT !.pc = "succeeded", !.out = h]]
        \/ \E h : task' = [task EXCEPT ![m][s] = [task[m][s] EXCEPT !.pc = "workspace", !.key = h]]
    BY DEF Lookup, Goes
  <2>5. CASE \E h : task' = [task EXCEPT ![m][s] = [task[m][s] EXCEPT !.pc = "succeeded", !.out = h]]
    BY <2>2, <2>5
  <2>6. CASE \E h : task' = [task EXCEPT ![m][s] = [task[m][s] EXCEPT !.pc = "workspace", !.key = h]]
    BY <2>3, <2>6
  <2> QED BY <2>4, <2>5, <2>6
<1>2. task[m][s].pc = "start" /\ req' = req /\ macro' = macro /\ files' = files /\ jobs' = jobs
  BY DEF Lookup, At, Goes
<1>3. Typed' /\ Schedules' /\ Jobs' /\ OneByOne' /\ WritesFresh'
  BY <1>1, <1>2, MoveKeepsJobs
<1>4. task[m][s].held = {} BY <1>2 DEF Queued, Ordered, Holding
<1>5. /\ task'[m][s] = t
      /\ \A n \in Macros : \A x \in Steps(n) : <<n, x>> # <<m, s>> => task'[n][x] = task[n][x]
  <2>1. task' = [task EXCEPT ![m][s] = t] BY <1>1
  <2> QED BY <2>1 DEF Typed
<1>6. Released BY <1>1, <1>2, <1>4, <1>5 DEF Released, Holding
<1> QED BY <1>3, <1>6, ReleasedLocks

\* The tasks under the same root are what a lock is refused for.
LEMMA OthersAre ==
    ASSUME Typed, NEW m \in Macros, NEW s \in Steps(m), NEW n \in Macros, NEW x \in Steps(n),
           <<n, x>> # <<m, s>>, req[n].root = req[m].root, task[n][x].pc \in Holding
    PROVE  <<n, x>> \in Others(m, s)
BY StepTypes DEF Others

\* A workspace lock is taken when no task holds one that excludes it.
LEMMA LockWorkspaceKeeps ==
    ASSUME IInv, NEW m \in Macros, NEW s \in Steps(m), LockWorkspace(m, s)
    PROVE  IInv'
<1> USE DEF IInv
<1> DEFINE t == [task[m][s] EXCEPT !.pc = "files"]
<1>1. /\ task' = [task EXCEPT ![m][s] = t] /\ task[m][s].pc = "workspace" /\ WorkspaceFree(m, s)
      /\ req' = req /\ macro' = macro /\ files' = files /\ jobs' = jobs
  BY DEF LockWorkspace, At, Goes
<1>2. t.pc = "files" /\ t.held = task[m][s].held /\ TaskType(t)
  BY DEF Typed, TaskType, Places, Holding
<1> HIDE DEF t
<1>3. Typed' /\ Schedules' /\ Jobs' /\ OneByOne' /\ WritesFresh'
  BY <1>1, <1>2, MoveKeepsJobs
<1>4. task[m][s].held = {} BY <1>1 DEF Queued, Ordered, Holding
<1>5. /\ task'[m][s] = t
      /\ \A n \in Macros : \A x \in Steps(n) : <<n, x>> # <<m, s>> => task'[n][x] = task[n][x]
  <2>1. task' = [task EXCEPT ![m][s] = t] BY <1>1
  <2> QED BY <2>1 DEF Typed
<1>6. \A n \in Macros : Steps(n)' = Steps(n) /\ \A x : Step(n, x)' = Step(n, x) /\ Wanted(n, x)' = Wanted(n, x)
  BY <1>1 DEF Steps, Step, Wanted
<1>7. Queued'
  <2>1. ASSUME NEW n \in Macros, NEW x \in Steps(n) PROVE Ordered(n, x, task'[n][x])
    <3>1. CASE <<n, x>> = <<m, s>>
      BY <3>1, <1>1, <1>2, <1>4, <1>5 DEF Queued, Ordered, Holding
    <3>2. CASE <<n, x>> # <<m, s>> BY <3>2, <1>5 DEF Queued
    <3> QED BY <3>1, <3>2
  <2> QED BY <2>1, <1>6 DEF Queued, Ordered
<1>8. Excluded'
  <2>1. ASSUME NEW n \in Macros, NEW x \in Steps(n), <<n, x>> # <<m, s>>,
               req[n].root = req[m].root, task[n][x].pc \in Holding
        PROVE  Step(n, x).kind # "mutate" /\ Step(m, s).kind # "mutate"
    <3>1. <<n, x>> \in Others(m, s) BY <2>1, OthersAre
    <3> QED BY <3>1, <1>1 DEF WorkspaceFree, Exclusive
  <2>2. ASSUME NEW n \in Macros, NEW l \in Macros, NEW x \in Steps(n), NEW y \in Steps(l),
               <<n, x>> # <<l, y>>, req[n].root = req[l].root,
               task'[n][x].pc \in Holding, task'[l][y].pc \in Holding
        PROVE  Shared(n, x, l, y)'
    <3>1. CASE <<n, x>> = <<m, s>>
      <4>1. task'[l][y] = task[l][y] /\ task'[n][x].held = {} BY <3>1, <2>2, <1>2, <1>4, <1>5
      <4>2. Step(l, y).kind # "mutate" /\ Step(n, x).kind # "mutate"
        BY <2>1, <2>2, <3>1, <4>1
      <4> QED BY <4>1, <4>2, <1>6 DEF Shared
    <3>2. CASE <<l, y>> = <<m, s>>
      <4>1. task'[n][x] = task[n][x] /\ task'[l][y].held = {} BY <3>2, <2>2, <1>2, <1>4, <1>5
      <4>2. Step(l, y).kind # "mutate" /\ Step(n, x).kind # "mutate"
        BY <2>1, <2>2, <3>2, <4>1
      <4> QED BY <4>1, <4>2, <1>6 DEF Shared
    <3>3. CASE <<n, x>> # <<m, s>> /\ <<l, y>> # <<m, s>>
      <4>1. task'[n][x] = task[n][x] /\ task'[l][y] = task[l][y] BY <3>3, <1>5
      <4>2. Shared(n, x, l, y) BY <4>1, <2>2 DEF Excluded
      <4> QED BY <4>1, <4>2, <1>6 DEF Shared
    <3> QED BY <3>1, <3>2, <3>3
  <2> QED BY <2>2, <1>1, <1>6 DEF Excluded
<1> QED BY <1>3, <1>7, <1>8

\* The files a task may still lock are numbered, so there is a next one.
LEMMA NextIsLeast ==
    ASSUME Typed, NEW m \in Macros, NEW s \in Steps(m),
           task[m][s].held \subseteq Wanted(m, s), task[m][s].held # Wanted(m, s)
    PROVE  /\ NextLock(m, s) \in Wanted(m, s) \ task[m][s].held
           /\ \A g \in Wanted(m, s) \ task[m][s].held : NextLock(m, s) <= g
<1>1. Wanted(m, s) \in SUBSET Nat /\ Wanted(m, s) \subseteq Files
  <2>1. Step(m, s).files \in Seq(Files) BY StepTypes DEF IsStep
  <2>2. \A i \in DOMAIN Step(m, s).files : Step(m, s).files[i] \in Files
    BY <2>1, LenProperties
  <2> QED BY <2>2, FilesAssumption DEF Wanted
<1> DEFINE left == Wanted(m, s) \ task[m][s].held
<1>2. left \in SUBSET Nat /\ left # {} BY <1>1
<1>3. \E f \in left : \A g \in left : f <= g
  <2> HIDE DEF left
  <2> QED BY <1>2, LeastOfNaturals
<1> QED BY <1>3 DEF NextLock

\* A file is locked when nobody holds it, or only readers a reader may join.
LEMMA LockFileKeeps ==
    ASSUME IInv, NEW m \in Macros, NEW s \in Steps(m), LockFile(m, s)
    PROVE  IInv'
<1> USE DEF IInv
<1> DEFINE f == NextLock(m, s)
           t == [task[m][s] EXCEPT !.held = @ \cup {f}]
<1>1. /\ task' = [task EXCEPT ![m][s] = t] /\ task[m][s].pc = "files" /\ FileFree(m, s, f)
      /\ task[m][s].held # Wanted(m, s)
      /\ req' = req /\ macro' = macro /\ files' = files /\ jobs' = jobs
  BY DEF LockFile, At, Goes
<1>2. Ordered(m, s, task[m][s]) BY DEF Queued
<1>3. /\ f \in Wanted(m, s) \ task[m][s].held /\ f \in Files
      /\ \A g \in Wanted(m, s) \ task[m][s].held : f <= g
  <2>1. f \in Wanted(m, s) \ task[m][s].held /\ \A g \in Wanted(m, s) \ task[m][s].held : f <= g
    BY <1>1, <1>2, NextIsLeast DEF Ordered
  <2>2. Step(m, s).files \in Seq(Files) BY StepTypes DEF IsStep
  <2> QED BY <2>1, <2>2, LenProperties DEF Wanted
<1> HIDE DEF f
<1>4. t.pc = "files" /\ t.held = task[m][s].held \cup {f} /\ TaskType(t)
  BY <1>1, <1>3 DEF Typed, TaskType, Places, Holding
<1> HIDE DEF t
<1>5. Typed' /\ Schedules' /\ Jobs' /\ OneByOne' /\ WritesFresh'
  BY <1>1, <1>4, MoveKeepsJobs
<1>6. /\ task'[m][s] = t
      /\ \A n \in Macros : \A x \in Steps(n) : <<n, x>> # <<m, s>> => task'[n][x] = task[n][x]
  <2>1. task' = [task EXCEPT ![m][s] = t] BY <1>1
  <2> QED BY <2>1 DEF Typed
<1>7. \A n \in Macros : Steps(n)' = Steps(n) /\ \A x : Step(n, x)' = Step(n, x) /\ Wanted(n, x)' = Wanted(n, x)
  BY <1>1 DEF Steps, Step, Wanted
<1>8. Queued'
  <2>1. ASSUME NEW n \in Macros, NEW x \in Steps(n) PROVE Ordered(n, x, task'[n][x])
    <3>1. CASE <<n, x>> = <<m, s>>
      <4>1. Wanted(m, s) \subseteq Nat
        <5>1. Step(m, s).files \in Seq(Files) BY StepTypes DEF IsStep
        <5> QED BY <5>1, LenProperties, FilesAssumption DEF Wanted
      <4>2. \A g \in Wanted(m, s) \ t.held : f < g BY <1>3, <1>4, <4>1
      <4>3. \A e \in t.held : \A g \in Wanted(m, s) \ t.held : e < g
        BY <4>2, <1>2, <1>4 DEF Ordered
      <4> QED BY <3>1, <4>3, <1>2, <1>3, <1>4, <1>6 DEF Ordered, Holding
    <3>2. CASE <<n, x>> # <<m, s>> BY <3>2, <1>6 DEF Queued
    <3> QED BY <3>1, <3>2
  <2> QED BY <2>1, <1>7 DEF Queued, Ordered
<1>9. Excluded'
  <2>1. ASSUME NEW n \in Macros, NEW x \in Steps(n), <<n, x>> # <<m, s>>,
               req[n].root = req[m].root, task[n][x].pc \in Holding
        PROVE  /\ Shared(n, x, m, s)
               /\ f \in task[n][x].held => Step(m, s).kind = "read" /\ Step(n, x).kind = "read"
    <3>1. <<n, x>> \in Others(m, s) BY <2>1, OthersAre
    <3>2. Shared(n, x, m, s) BY <2>1, <1>1 DEF Excluded, Holding
    <3> QED BY <3>1, <3>2, <1>1 DEF FileFree
  <2>2. ASSUME NEW n \in Macros, NEW l \in Macros, NEW x \in Steps(n), NEW y \in Steps(l),
               <<n, x>> # <<l, y>>, req[n].root = req[l].root,
               task'[n][x].pc \in Holding, task'[l][y].pc \in Holding
        PROVE  Shared(n, x, l, y)'
    <3>1. CASE <<n, x>> = <<m, s>>
      <4>1. n = m /\ x = s /\ task'[l][y] = task[l][y] /\ task'[n][x] = t BY <3>1, <2>2, <1>6
      <4>2. /\ Shared(l, y, m, s)
            /\ f \in task[l][y].held => Step(m, s).kind = "read" /\ Step(l, y).kind = "read"
        BY <2>1, <2>2, <4>1
      <4> QED BY <4>1, <4>2, <1>4, <1>7 DEF Shared
    <3>2. CASE <<l, y>> = <<m, s>>
      <4>1. l = m /\ y = s /\ task'[n][x] = task[n][x] /\ task'[l][y] = t BY <3>2, <2>2, <1>6
      <4>2. /\ Shared(n, x, m, s)
            /\ f \in task[n][x].held => Step(m, s).kind = "read" /\ Step(n, x).kind = "read"
        BY <2>1, <2>2, <4>1
      <4> QED BY <4>1, <4>2, <1>4, <1>7 DEF Shared
    <3>3. CASE <<n, x>> # <<m, s>> /\ <<l, y>> # <<m, s>>
      <4>1. task'[n][x] = task[n][x] /\ task'[l][y] = task[l][y] BY <3>3, <1>6
      <4>2. Shared(n, x, l, y) BY <4>1, <2>2 DEF Excluded
      <4> QED BY <4>1, <4>2, <1>7 DEF Shared
    <3> QED BY <3>1, <3>2, <3>3
  <2> QED BY <2>2, <1>1, <1>7 DEF Excluded
<1> QED BY <1>5, <1>8, <1>9

\* With its locks a step is refused or only validated, or its files are as it
\* expects them when its job begins.
LEMMA BeginKeeps ==
    ASSUME IInv, NEW m \in Macros, NEW s \in Steps(m), Begin(m, s)
    PROVE  IInv'
<1> USE DEF IInv
<1> DEFINE st  == Step(m, s)
           dry == req[m].dry /\ st.kind \in Mutating
           job == [macro |-> m, step |-> s, left |-> st.files, orphan |-> FALSE]
<1>1. /\ task[m][s].pc = "files" /\ task[m][s].held = Wanted(m, s)
      /\ req' = req /\ macro' = macro /\ files' = files
  BY DEF Begin, At, Goes
<1>2. CASE Refused(st) \/ dry
  <2>1. PICK t : task' = [task EXCEPT ![m][s] = t] /\ t.pc \in {"succeeded", "failed"} /\ t.held = {}
                 /\ TaskType(t)
    <3>1. \A p \in {"succeeded", "failed"} : LET t == [Idle EXCEPT !.pc = p]
            IN t.pc = p /\ t.held = {} /\ TaskType(t)
      BY DEF Idle, TaskType, Places
    <3>2. \E p \in {"succeeded", "failed"} : task' = [task EXCEPT ![m][s] = [Idle EXCEPT !.pc = p]]
      BY <1>2 DEF Begin, Goes
    <3> QED BY <3>1, <3>2
  <2>2. jobs' = jobs BY <1>2 DEF Begin
  <2>3. task' = [task EXCEPT ![m][s] = t] BY <2>1
  <2>4. Typed' /\ Schedules' /\ Jobs' /\ OneByOne' /\ WritesFresh'
    BY <1>1, <2>1, <2>2, <2>3, MoveKeepsJobs
  <2>5. /\ task'[m][s] = t
        /\ \A n \in Macros : \A x \in Steps(n) : <<n, x>> # <<m, s>> => task'[n][x] = task[n][x]
    BY <2>3 DEF Typed
  <2>6. Released BY <1>1, <2>1, <2>5 DEF Released, Holding
  <2> QED BY <2>4, <2>6, ReleasedLocks
<1>3. CASE ~(Refused(st) \/ dry)
  <2> DEFINE t == [task[m][s] EXCEPT !.pc = "work"]
  <2>1. task' = [task EXCEPT ![m][s] = t] /\ jobs' = jobs \cup {job}
    BY <1>3 DEF Begin, Goes
  <2>2. t.pc = "work" /\ t.held = task[m][s].held /\ TaskType(t)
    BY DEF Typed, TaskType, Places, Holding
  <2> HIDE DEF t
  <2>3. /\ task'[m][s] = t
        /\ \A n \in Macros : \A x \in Steps(n) : <<n, x>> # <<m, s>> => task'[n][x] = task[n][x]
    BY <2>1 DEF Typed
  <2>4. s \in Live(m) BY <1>1 DEF Live
  <2>5. /\ st.files \in Seq(Files) /\ s \in StepIds
    BY StepTypes DEF IsStep
  <2>6. JobType(job) BY <2>5 DEF JobType
  <2>7. Typed' /\ Schedules'
    <3>1. \A j \in jobs' : JobType(j) BY <2>1, <2>6 DEF Typed
    <3> QED BY <1>1, <2>1, <2>2, <2>4, <3>1, TaskSchedules
  <2>8. job.macro = m /\ job.step = s /\ job.left = st.files /\ job.orphan = FALSE
    OBVIOUS
  <2> HIDE DEF job
  <2>9. \A j \in jobs : <<j.macro, j.step>> # <<m, s>> /\ j.macro \in Macros /\ j.step \in Steps(j.macro)
    BY <1>1, NoJobOf DEF Typed, JobType
  <2>10. \A j : Touches(j)' = Touches(j) /\ Kind(j)' = Kind(j) /\ Step(j.macro, j.step)' = Step(j.macro, j.step)
    BY <1>1 DEF Touches, Kind, Step
  <2>11. Scheduled(m, macro[m], Live(m)) BY DEF Schedules
  <2>12. Jobs'
    <3>1. ASSUME NEW j \in jobs'
          PROVE  JobPlace(j, macro, task') /\ \A i \in DOMAIN j.left : j.left[i] \in Touches(j)
      <4>1. CASE j = job
        <5>1. macro[m].state[s] = "running" BY <2>4, <2>11 DEF Scheduled
        <5> QED BY <4>1, <5>1, <2>2, <2>3, <2>8 DEF JobPlace, Touches
      <4>2. CASE j \in jobs
        <5>1. task'[j.macro][j.step] = task[j.macro][j.step] BY <4>2, <2>3, <2>9
        <5> QED BY <4>2, <5>1 DEF Jobs, JobPlace
      <4> QED BY <4>1, <4>2, <2>1
    <3>2. OneJobEach(jobs') BY <2>1, <2>8, <2>9 DEF Jobs, OneJobEach
    <3> QED BY <3>1, <3>2, <2>10, <1>1 DEF Jobs, JobPlace, OneJobEach
  <2>13. Queued'
    <3>1. \A n \in Macros : Steps(n)' = Steps(n) /\ \A x : Wanted(n, x)' = Wanted(n, x)
      BY <1>1 DEF Steps, Step, Wanted
    <3>2. ASSUME NEW n \in Macros, NEW x \in Steps(n) PROVE Ordered(n, x, task'[n][x])
      <4>1. CASE <<n, x>> = <<m, s>> BY <4>1, <1>1, <2>2, <2>3 DEF Ordered, Holding
      <4>2. CASE <<n, x>> # <<m, s>> BY <4>2, <2>3 DEF Queued
      <4> QED BY <4>1, <4>2
    <3> QED BY <3>1, <3>2 DEF Queued, Ordered
  <2>14. Excluded'
    <3>1. \A n \in Macros : Steps(n)' = Steps(n) /\ \A x : Step(n, x)' = Step(n, x)
      BY <1>1 DEF Steps, Step
    <3>2. \A n \in Macros : \A x \in Steps(n) :
            task'[n][x].held = task[n][x].held /\ (task'[n][x].pc \in Holding => task[n][x].pc \in Holding)
      <4> SUFFICES ASSUME NEW n \in Macros, NEW x \in Steps(n)
                   PROVE  task'[n][x].held = task[n][x].held /\ (task'[n][x].pc \in Holding => task[n][x].pc \in Holding)
        OBVIOUS
      <4>1. CASE <<n, x>> = <<m, s>> BY <4>1, <1>1, <2>2, <2>3 DEF Holding
      <4>2. CASE <<n, x>> # <<m, s>> BY <4>2, <2>3
      <4> QED BY <4>1, <4>2
    <3> QED BY <3>1, <3>2, <1>1 DEF Excluded, Shared
  <2>15. OneByOne'
    <3>1. Valid(req[m]) BY <2>4, <2>11 DEF Scheduled, Typed, MacroType, Phases
    <3>2. Distinct(st) BY <3>1 DEF Valid, Step, Steps
    <3>3. \A i, k \in DOMAIN job.left : Kind(job) \in {"write", "patch"} /\ job.left[i] = job.left[k] => i = k
      BY <3>2, <2>8 DEF Distinct, Kind
    <3> QED BY <3>3, <2>1, <2>10 DEF OneByOne
  <2>16. WritesFresh'
    <3> SUFFICES ASSUME RootsApart', \A j \in jobs' : ~j.orphan, NEW j \in jobs', Checked(j)',
                        NEW i \in DOMAIN j.left
                 PROVE  files'[j.left[i]].text = Step(j.macro, j.step)'.expect
      BY DEF WritesFresh
    <3>1. Checked(j) BY <2>10 DEF Checked
    <3>2. CASE j = job
      <4>1. ~Stale(st) BY <3>1, <3>2, <1>3, <2>8 DEF Checked, Refused, Kind
      <4> QED BY <4>1, <3>1, <3>2, <2>8, <2>10, <1>1 DEF Stale, Checked
    <3>3. CASE j \in jobs
      <4>1. RootsApart BY <1>1 DEF RootsApart, Steps, Step
      <4> QED BY <4>1, <3>1, <3>3, <2>1, <2>10, <1>1 DEF WritesFresh
    <3> QED BY <3>2, <3>3, <2>1
  <2> QED BY <2>7, <2>12, <2>13, <2>14, <2>15, <2>16
<1> QED BY <1>2, <1>3

---------------------------------------------------------------------------
(* The locks keep jobs apart: of the properties, the one the job steps use. *)

LEMMA LocksExclude ==
    ASSUME Typed, Jobs, Queued, Excluded
    PROVE  MutationsExclusive
<1> SUFFICES ASSUME NEW i \in jobs, NEW j \in jobs, i # j, ~i.orphan, ~j.orphan, Root(i) = Root(j),
                    Kind(i) \in Mutating, NEW f \in Touches(i) \cap Touches(j)
             PROVE  Kind(i) # "mutate" /\ Kind(j) \in {"search", "command"}
  BY DEF MutationsExclusive
<1>1. /\ i.macro \in Macros /\ i.step \in Steps(i.macro) /\ j.macro \in Macros /\ j.step \in Steps(j.macro)
  BY DEF Typed, JobType
<1>2. <<i.macro, i.step>> # <<j.macro, j.step>> BY DEF Jobs
<1>3. task[i.macro][i.step].pc = "work" /\ task[j.macro][j.step].pc = "work" BY DEF Jobs
<1>4. Shared(i.macro, i.step, j.macro, j.step) BY <1>1, <1>2, <1>3 DEF Excluded, Holding, Root
<1>5. /\ task[i.macro][i.step].held = Wanted(i.macro, i.step)
      /\ task[j.macro][j.step].held = Wanted(j.macro, j.step)
  BY <1>1, <1>3 DEF Queued, Ordered
<1>6. Kind(i) \in {"write", "patch"} BY <1>4 DEF Shared, Mutating, Kind
<1>7. f \in Wanted(i.macro, i.step) BY <1>6 DEF Touches, Wanted, Kind
<1>8. Kind(j) \in {"read", "write", "patch"} => f \in Wanted(j.macro, j.step)
  BY DEF Touches, Wanted, Kind
<1>9. Kind(j) \notin {"read", "write", "patch"}
  BY <1>4, <1>5, <1>6, <1>7, <1>8 DEF Shared, Kind
<1>10. Kind(j) \in {"read", "search", "command", "write", "patch", "mutate"}
  BY <1>1, StepTypes DEF IsStep, Kind
<1> QED BY <1>4, <1>6, <1>9, <1>10 DEF Shared, Kind

---------------------------------------------------------------------------
(* The steps of a job.                                                     *)

\* Job j becomes k, which has less left to do; its task keeps its place.
Becomes(j, k) ==
    /\ JobType(k) /\ k.macro = j.macro /\ k.step = j.step /\ k.orphan = j.orphan
    /\ Suffix(k.left, j.left) /\ jobs' = (jobs \ {j}) \cup {k}

LEMMA JobAdvances ==
    ASSUME IInv, NEW j \in jobs, NEW k, Becomes(j, k), req' = req, macro' = macro,
           DOMAIN task' = Macros, \A n \in Macros : DOMAIN task'[n] = Steps(n),
           \A n \in Macros : \A x \in Steps(n) :
             /\ TaskType(task'[n][x])
             /\ task'[n][x].pc = task[n][x].pc /\ task'[n][x].held = task[n][x].held,
           files' \in [Files -> [text : Texts, stamp : Nat]]
    PROVE  /\ Typed' /\ Schedules' /\ Jobs' /\ Queued' /\ Excluded' /\ OneByOne'
           /\ files' = files => WritesFresh'
<1> USE DEF IInv
<1>1. NoNewJobs
  <2>1. From(k, j) BY DEF Becomes, From
  <2>2. \A i \in jobs : From(i, i) BY Suffixes DEF From, Typed, JobType
  <2> QED BY <2>1, <2>2 DEF NoNewJobs, Becomes
<1>2. OneByOne' /\ (files' = files => WritesFresh') BY <1>1, NoNewWrites
<1>3. Released BY DEF Released
<1>4. Queued' /\ Excluded' BY <1>3, ReleasedLocks
<1>5. \A n \in Macros : Steps(n)' = Steps(n) /\ \A x : Step(n, x)' = Step(n, x)
  BY DEF Steps, Step
<1>6. \A i \in jobs' : JobType(i) BY DEF Becomes, Typed
<1>7. Typed' BY <1>5, <1>6 DEF Typed, MacroType, TaskType, JobType
<1>8. Schedules'
  <2>1. \A n \in Macros : Live(n)' = Live(n) BY <1>5 DEF Live
  <2> QED BY <2>1, <1>5 DEF Schedules, Scheduled, Valid
<1>9. Jobs'
  <2>1. \A i \in jobs : Touches(i)' = Touches(i) /\ i.macro \in Macros /\ i.step \in Steps(i.macro)
    BY DEF Touches, Step, Typed, JobType
  <2>2. Touches(k)' = Touches(j) BY DEF Touches, Step, Becomes
  <2>3. \A x \in DOMAIN k.left : k.left[x] \in Touches(j)
    BY DEF Becomes, Suffix, Jobs
  <2>4. JobPlace(k, macro, task') /\ \A i \in jobs : JobPlace(i, macro, task')
    BY <2>1 DEF Jobs, JobPlace, Becomes
  <2>5. OneJobEach(jobs') BY DEF Jobs, OneJobEach, Becomes
  <2>6. \A i \in jobs' : JobPlace(i, macro, task') /\ \A x \in DOMAIN i.left : i.left[x] \in Touches(i)'
    BY <2>1, <2>2, <2>3, <2>4 DEF Becomes, Jobs
  <2> QED BY <2>5, <2>6 DEF Jobs, JobPlace, OneJobEach
<1> QED BY <1>2, <1>4, <1>7, <1>8, <1>9

\* One file is replaced, or looked at: no checked write had it before it.
LEMMA WorkKeeps ==
    ASSUME IInv, NEW j \in jobs, Work(j)
    PROVE  IInv'
<1> USE DEF IInv
<1> DEFINE k == [j EXCEPT !.left = Tail(@)]
           f == Head(j.left)
<1>1. JobType(j) BY DEF Typed
<1>2. /\ j.left # <<>> /\ jobs' = (jobs \ {j}) \cup {k} /\ req' = req /\ macro' = macro
  BY DEF Work
<1>3. j.left \in Seq(Files) /\ Tail(j.left) \in Seq(Files) /\ f = j.left[1] /\ f \in Files
      /\ 1 \in DOMAIN j.left /\ DOMAIN j.left = 1..Len(j.left) /\ DOMAIN Tail(j.left) = 1..Len(Tail(j.left))
      /\ Len(Tail(j.left)) = Len(j.left) - 1 /\ Len(j.left) \in Nat
      /\ \A x \in DOMAIN Tail(j.left) : Tail(j.left)[x] = j.left[x + 1]
  <2>1. j.left \in Seq(Files) BY <1>1 DEF JobType
  <2>2. /\ Tail(j.left) \in Seq(Files) /\ f \in Files /\ Len(Tail(j.left)) = Len(j.left) - 1
        /\ \A x \in 1..Len(Tail(j.left)) : Tail(j.left)[x] = j.left[x + 1]
    BY <1>2, <2>1, HeadTailProperties
  <2>3. DOMAIN j.left = 1..Len(j.left) /\ DOMAIN Tail(j.left) = 1..Len(Tail(j.left)) /\ Len(j.left) \in Nat
        /\ Len(Tail(j.left)) \in Nat
    BY <2>1, <2>2, LenProperties
  <2>4. Len(j.left) >= 1 BY <2>2, <2>3
  <2> QED BY <2>1, <2>2, <2>3, <2>4
<1>4. k.macro = j.macro /\ k.step = j.step /\ k.orphan = j.orphan /\ k.left = Tail(j.left)
  BY <1>1 DEF JobType
<1>5. JobType(k) BY <1>1, <1>3 DEF JobType
<1> HIDE DEF k, f
<1>6. Becomes(j, k) BY <1>2, <1>3, <1>4, <1>5, Suffixes DEF Becomes
<1>7. j.macro \in Macros /\ j.step \in Steps(j.macro) BY <1>1 DEF JobType
<1>8. CASE Kind(j) \in Mutating
  <2>1. /\ files' = [files EXCEPT ![f] = [text |-> Step(j.macro, j.step).text, stamp |-> @.stamp + 1]]
        /\ task' = task
    BY <1>8 DEF Work, Replace, f
  <2>2. Step(j.macro, j.step).text \in Texts BY <1>7, StepTypes DEF IsStep
  <2>3. files' \in [Files -> [text : Texts, stamp : Nat]]
    BY <1>3, <2>1, <2>2 DEF Typed
  <2>4. Typed' /\ Schedules' /\ Jobs' /\ Queued' /\ Excluded' /\ OneByOne'
    <3>1. DOMAIN task' = Macros /\ \A n \in Macros : DOMAIN task'[n] = Steps(n)
          /\ \A x \in Steps(n) : TaskType(task'[n][x])
      BY <2>1 DEF Typed
    <3> QED BY <1>2, <1>6, <2>1, <2>3, <3>1, JobAdvances
  <2>5. WritesFresh'
    <3> SUFFICES ASSUME RootsApart', \A i \in jobs' : ~i.orphan, NEW i \in jobs', Checked(i)',
                        NEW x \in DOMAIN i.left
                 PROVE  files'[i.left[x]].text = Step(i.macro, i.step)'.expect
      BY DEF WritesFresh
    <3>1. RootsApart BY <1>2 DEF RootsApart, Steps, Step
    <3>2. \A i2 : Step(i2.macro, i2.step)' = Step(i2.macro, i2.step) /\ Kind(i2)' = Kind(i2)
      BY <1>2 DEF Step, Kind
    <3>3. Checked(i) BY <3>2 DEF Checked
    <3>4. \A i2 \in jobs : ~i2.orphan BY <1>2, <1>4
    <3>5. \A i2 \in jobs : Checked(i2) =>
            \A y \in DOMAIN i2.left : files[i2.left[y]].text = Step(i2.macro, i2.step).expect
      BY <3>1, <3>4 DEF WritesFresh
    <3>6. CASE i = k
      <4>1. Checked(j) /\ Step(i.macro, i.step) = Step(j.macro, j.step)
        BY <3>3, <3>6, <1>4 DEF Checked, Kind
      <4>2. x + 1 \in DOMAIN j.left /\ i.left[x] = j.left[x + 1] /\ x + 1 # 1
        BY <3>6, <1>3, <1>4
      <4>3. i.left[x] # f BY <4>1, <4>2, <1>3 DEF OneByOne, Checked
      <4>4. i.left[x] \in Files /\ files'[i.left[x]] = files[i.left[x]]
        <5>1. i.left[x] \in Files BY <4>2, <1>3
        <5> QED BY <5>1, <4>3, <2>1, <2>3 DEF Typed
      <4> QED BY <4>1, <4>2, <4>4, <3>2, <3>5
    <3>7. CASE i \in jobs /\ i # j
      <4>1. i.left[x] \in Touches(i) /\ f \in Touches(j) BY <3>7, <1>3 DEF Jobs
      <4>2. i.macro \in Macros /\ i.step \in Steps(i.macro) BY <3>7 DEF Typed, JobType
      <4>3. i.left[x] # f
        <5> SUFFICES ASSUME i.left[x] = f PROVE FALSE OBVIOUS
        <5>1. f \in Touches(i) \cap Touches(j) BY <4>1
        <5>2. Root(i) = Root(j)
          <6>1. \E y \in DOMAIN Step(i.macro, i.step).files : \E z \in DOMAIN Step(j.macro, j.step).files :
                  Step(i.macro, i.step).files[y] = Step(j.macro, j.step).files[z]
            BY <5>1 DEF Touches
          <6> QED BY <6>1, <3>1, <4>2, <1>7 DEF RootsApart, Root
        <5>3. Kind(i) \in {"search", "command"}
          BY <5>1, <5>2, <1>8, <3>4, <3>7, LocksExclude DEF MutationsExclusive
        <5> QED BY <5>3, <3>3 DEF Checked
      <4>4. i.left[x] \in Files
        <5>1. i.left \in Seq(Files) BY <3>7 DEF Typed, JobType
        <5> QED BY <5>1, LenProperties
      <4> QED BY <4>3, <4>4, <2>1, <2>3, <3>2, <3>3, <3>5, <3>7 DEF Typed
    <3> QED BY <3>6, <3>7, <1>2
  <2> QED BY <2>4, <2>5
<1>9. CASE Kind(j) \notin Mutating
  <2>1. files' = files BY <1>9 DEF Work, Look
  <2>2. /\ DOMAIN task' = Macros /\ \A n \in Macros : DOMAIN task'[n] = Steps(n)
        /\ \A n \in Macros : \A x \in Steps(n) :
             /\ TaskType(task'[n][x])
             /\ task'[n][x].pc = task[n][x].pc /\ task'[n][x].held = task[n][x].held
    <3>1. CASE j.orphan
      <4>1. task' = task BY <1>9, <3>1 DEF Work, Look
      <4> QED BY <4>1 DEF Typed
    <3>2. CASE ~j.orphan
      <4> DEFINE t == [task[j.macro][j.step] EXCEPT !.out = Append(@, files[f].text)]
      <4>1. task' = [task EXCEPT ![j.macro][j.step] = t]
        BY <1>9, <3>2 DEF Work, Look, f
      <4>2. TaskType(t) /\ t.pc = task[j.macro][j.step].pc /\ t.held = task[j.macro][j.step].held
        BY <1>7 DEF Typed, TaskType
      <4> HIDE DEF t
      <4>3. /\ DOMAIN task' = Macros /\ \A n \in Macros : DOMAIN task'[n] = Steps(n)
            /\ task'[j.macro][j.step] = t
            /\ \A n \in Macros : \A x \in Steps(n) :
                 <<n, x>> # <<j.macro, j.step>> => task'[n][x] = task[n][x]
        BY <1>7, <4>1 DEF Typed
      <4>4. ASSUME NEW n \in Macros, NEW x \in Steps(n)
            PROVE  /\ TaskType(task'[n][x])
                   /\ task'[n][x].pc = task[n][x].pc /\ task'[n][x].held = task[n][x].held
        <5>1. CASE <<n, x>> = <<j.macro, j.step>> BY <5>1, <4>2, <4>3
        <5>2. CASE <<n, x>> # <<j.macro, j.step>> BY <5>2, <4>3 DEF Typed
        <5> QED BY <5>1, <5>2
      <4> QED BY <4>3, <4>4
    <3> QED BY <3>1, <3>2
  <2> QED BY <1>2, <1>6, <2>1, <2>2, JobAdvances DEF Typed
<1> QED BY <1>8, <1>9

\* A job of a live task ends, and the task with it.
LEMMA JobEnds ==
    ASSUME IInv, NEW j \in jobs, ~j.orphan, jobs' = jobs \ {j}, NEW t,
           task' = [task EXCEPT ![j.macro][j.step] = t], TaskType(t),
           t.pc \in {"succeeded", "failed"}, t.held = {},
           req' = req, macro' = macro, files' = files
    PROVE  IInv'
<1> USE DEF IInv
<1>1. j.macro \in Macros /\ j.step \in Steps(j.macro) /\ j.step \in Live(j.macro)
  BY DEF Typed, JobType, Jobs, Live
<1>2. Typed' /\ Schedules'
  <2>1. \A i \in jobs' : JobType(i) BY DEF Typed
  <2> QED BY <1>1, <2>1, TaskSchedules
<1>3. /\ task'[j.macro][j.step] = t
      /\ \A n \in Macros : \A x \in Steps(n) :
           <<n, x>> # <<j.macro, j.step>> => task'[n][x] = task[n][x]
  <2> DEFINE m == j.macro
             s == j.step
  <2>0. m \in Macros /\ s \in Steps(m) /\ Typed BY <1>1
  <2>1. task' = [task EXCEPT ![m][s] = t] OBVIOUS
  <2> HIDE DEF m, s, IInv
  <2>2. /\ task'[m][s] = t
        /\ \A n \in Macros : \A x \in Steps(n) : <<n, x>> # <<m, s>> => task'[n][x] = task[n][x]
    BY <2>0, <2>1 DEF Typed
  <2> QED BY <2>2 DEF m, s
<1>4. Released BY <1>3 DEF Released, Holding
<1>5. NoNewWork
  <2>1. \A i \in jobs : From(i, i) BY Suffixes DEF From, Typed, JobType
  <2> QED BY <2>1 DEF NoNewWork, NoNewJobs
<1>6. Jobs'
  <2>1. \A i \in jobs' : Touches(i)' = Touches(i) BY DEF Touches, Step
  <2>2. \A i \in jobs' : task'[i.macro][i.step] = task[i.macro][i.step]
    <3> SUFFICES ASSUME NEW i \in jobs' PROVE task'[i.macro][i.step] = task[i.macro][i.step]
      OBVIOUS
    <3>1. i.macro \in Macros /\ i.step \in Steps(i.macro) BY DEF Typed, JobType
    <3>2. <<i.macro, i.step>> # <<j.macro, j.step>> BY DEF Jobs
    <3> QED BY <3>1, <3>2, <1>3
  <2> QED BY <2>1, <2>2 DEF Jobs
<1> QED BY <1>2, <1>4, <1>5, <1>6, ReleasedLocks, NoNewWrites DEF NoNewWork

\* An orphan is told to stop, or fails, and nobody hears of it.
LEMMA OrphanStops ==
    ASSUME IInv, NEW j \in jobs, jobs' = (jobs \ {j}) \cup {[j EXCEPT !.left = <<>>]},
           req' = req, macro' = macro, task' = task, files' = files
    PROVE  IInv'
<1> USE DEF IInv
<1> DEFINE k == [j EXCEPT !.left = <<>>]
<1>1. JobType(j) BY DEF Typed
<1>2. JobType(k) /\ k.macro = j.macro /\ k.step = j.step /\ k.orphan = j.orphan /\ k.left = <<>>
  <2>1. <<>> \in Seq(Files) OBVIOUS
  <2> QED BY <1>1, <2>1 DEF JobType
<1>3. Suffix(<<>>, j.left) BY <1>1, Suffixes DEF JobType
<1>4. Becomes(j, k) BY <1>2, <1>3 DEF Becomes
<1> HIDE DEF k
<1> QED BY <1>4, JobAdvances DEF Typed

LEMMA JobStepKeeps ==
    ASSUME IInv, NEW j \in jobs, Return(j) \/ Fail(j) \/ StopUnit(j)
    PROVE  IInv'
<1>1. CASE Return(j)
  <2> DEFINE t == [Idle EXCEPT !.pc = "succeeded", !.out = task[j.macro][j.step].out]
  <2>1. TaskType(t) /\ t.pc = "succeeded" /\ t.held = {} BY DEF Idle, TaskType, Places
  <2>2. /\ ~j.orphan /\ jobs' = jobs \ {j} /\ task' = [task EXCEPT ![j.macro][j.step] = t]
        /\ req' = req /\ macro' = macro /\ files' = files
    BY <1>1 DEF Return, Goes
  <2> HIDE DEF t
  <2> QED BY <2>1, <2>2, JobEnds
<1>2. CASE Fail(j)
  <2> DEFINE t == [Idle EXCEPT !.pc = "failed"]
  <2>1. TaskType(t) /\ t.pc = "failed" /\ t.held = {} BY DEF Idle, TaskType, Places
  <2>2. req' = req /\ macro' = macro /\ files' = files BY <1>2 DEF Fail
  <2>3. CASE j.orphan
    <3>1. jobs' = (jobs \ {j}) \cup {[j EXCEPT !.left = <<>>]} /\ task' = task
      BY <1>2, <2>3 DEF Fail
    <3> QED BY <2>2, <3>1, OrphanStops
  <2>4. CASE ~j.orphan
    <3>1. jobs' = jobs \ {j} /\ task' = [task EXCEPT ![j.macro][j.step] = t]
      BY <1>2, <2>4 DEF Fail
    <3> HIDE DEF t
    <3> QED BY <2>1, <2>2, <2>4, <3>1, JobEnds
  <2> QED BY <2>3, <2>4
<1>3. CASE StopUnit(j)
  <2>1. /\ jobs' = (jobs \ {j}) \cup {[j EXCEPT !.left = <<>>]}
        /\ req' = req /\ macro' = macro /\ task' = task /\ files' = files
    BY <1>3 DEF StopUnit
  <2> QED BY <2>1, OrphanStops
<1> QED BY <1>1, <1>2, <1>3

---------------------------------------------------------------------------
(* The invariant and the properties.                                       *)

LEMMA Starts == Init => IInv
<1> SUFFICES ASSUME Init PROVE IInv OBVIOUS
<1>1. /\ req \in [Macros -> Requests] /\ DOMAIN macro = Macros /\ DOMAIN task = Macros /\ jobs = {}
      /\ \A m \in Macros :
           /\ macro[m] = [phase |-> "new", state |-> [s \in Steps(m) |-> "pending"],
                          out |-> [s \in Steps(m) |-> <<>>], stopped |-> FALSE]
           /\ task[m] = [s \in Steps(m) |-> Idle]
  BY DEF Init
<1>2. files \in [Files -> [text : Texts, stamp : Nat]] BY TextAssumption DEF Init
<1>3. ASSUME NEW m \in Macros
      PROVE  /\ MacroType(m, macro[m]) /\ macro[m].phase = "new" /\ Live(m) = {}
             /\ \A s \in Steps(m) : macro[m].state[s] = "pending" /\ task[m][s] = Idle
  <2>1. MacroType(m, macro[m])
    <3> DEFINE st == [s \in Steps(m) |-> "pending"]
               o  == [s \in Steps(m) |-> <<>>]
    <3>1. macro[m] = [phase |-> "new", state |-> st, out |-> o, stopped |-> FALSE] BY <1>1
    <3>2. st \in [Steps(m) -> States] /\ DOMAIN o = Steps(m) BY DEF States
    <3> HIDE DEF st, o
    <3> QED BY <3>1, <3>2 DEF MacroType, Phases
  <2>2. \A s \in Steps(m) : task[m][s] = Idle BY <1>1
  <2> QED BY <1>1, <2>1, <2>2, IdleTask DEF Live
<1>4. Typed BY <1>1, <1>2, <1>3, IdleTask DEF Typed
<1>5. Schedules BY <1>3, IdleTask DEF Schedules, Scheduled, Live
<1>6. Jobs /\ OneByOne /\ WritesFresh BY <1>1 DEF Jobs, OneByOne, WritesFresh
<1>7. Queued /\ Excluded
  <2>1. "none" \notin Holding BY DEF Holding
  <2>2. \A m \in Macros : \A s \in Steps(m) : task[m][s].pc \notin Holding /\ task[m][s].held = {}
                                              /\ task[m][s].pc # "work"
    BY <1>3, <2>1, IdleTask
  <2> QED BY <2>2 DEF Queued, Ordered, Excluded
<1> QED BY <1>4, <1>5, <1>6, <1>7 DEF IInv

LEMMA Steady == IInv /\ [Next]_vars => IInv'
<1> SUFFICES ASSUME IInv, [Next]_vars PROVE IInv' OBVIOUS
<1>1. ASSUME NEW m \in Macros, Submit(m) \/ Cancel(m) PROVE IInv'
  BY <1>1, SubmitKeeps, CancelKeeps
<1>2. ASSUME NEW m \in Macros, NEW s \in Steps(m), Progress(m, s) PROVE IInv'
  BY <1>2, JoinKeeps, DropKeeps, LookupKeeps, LockWorkspaceKeeps, LockFileKeeps, BeginKeeps DEF Progress
<1>3. ASSUME NEW j \in jobs, Work(j) \/ Return(j) \/ Fail(j) \/ StopUnit(j) PROVE IInv'
  BY <1>3, WorkKeeps, JobStepKeeps
<1>4. CASE UNCHANGED vars
  <2>1. /\ req' = req /\ macro' = macro /\ task' = task /\ jobs' = jobs /\ files' = files
        /\ Typed /\ Schedules /\ Jobs /\ Queued /\ Excluded /\ OneByOne /\ WritesFresh
    BY <1>4 DEF vars, IInv
  <2>2. \A n \in Macros : Steps(n)' = Steps(n) /\ Live(n)' = Live(n) /\ \A x : Step(n, x)' = Step(n, x)
    BY <2>1 DEF Steps, Step, Live
  <2>3. Typed' BY <2>1, <2>2 DEF Typed, MacroType, TaskType, JobType
  <2>4. Schedules' BY <2>1, <2>2 DEF Schedules, Scheduled, Valid
  <2>5. Jobs'
    <3>1. \A j : Touches(j)' = Touches(j) BY <2>1 DEF Touches, Step
    <3> QED BY <2>1, <3>1 DEF Jobs
  <2>6. Released /\ NoNewWork BY <2>1, SameJobs DEF Released, Typed
  <2> QED BY <2>1, <2>3, <2>4, <2>5, <2>6, ReleasedLocks, NoNewWrites DEF NoNewWork, IInv
<1> QED BY <1>1, <1>2, <1>3, <1>4 DEF Next, Server, TaskStep, JobStep

\* Coordinators, tasks, jobs and locks are always in step with each other.
THEOREM Invariance == Spec => []IInv
BY Starts, Steady, PTL DEF Spec

\* No two jobs under one lock root change, or change and read, one file.
THEOREM ExclusionHolds == Spec => []MutationsExclusive
<1>1. IInv => MutationsExclusive BY LocksExclude DEF IInv
<1> QED BY <1>1, Invariance, PTL

\* A step runs only when the work of the steps it depends on is over.
THEOREM OrderHolds == Spec => []StepsInOrder
<1>1. IInv => StepsInOrder
  <2> SUFFICES ASSUME IInv, NEW m \in Macros, NEW s \in Live(m), NEW d \in Step(m, s).deps
               PROVE  task[m][d].pc = "none" /\ \A j \in jobs : j.macro # m \/ j.step # d
    BY DEF StepsInOrder
  <2>1. Scheduled(m, macro[m], Live(m)) /\ s \in Steps(m) BY DEF IInv, Schedules, Live
  <2>2. macro[m].phase \in {"running", "cancelled"} BY <2>1 DEF Scheduled, IInv, Typed, MacroType, Phases
  <2>3. d \in Steps(m) BY <2>1, <2>2 DEF Scheduled, Valid, Step, Steps
  <2>4. macro[m].state[d] \in Ended BY <2>1, <2>2 DEF Scheduled
  <2>5. d \notin Live(m) BY <2>1, <2>4 DEF Scheduled, Ended
  <2>6. \A j \in jobs : j.macro # m \/ j.step # d BY <2>2, <2>4 DEF IInv, Jobs, Ended
  <2> QED BY <2>3, <2>5, <2>6 DEF Live
<1> QED BY <1>1, Invariance, PTL

\* A macro that reports all its steps as succeeded has no job left.
THEOREM CompletionHolds == Spec => []CompletedMeansDone
<1>1. IInv => CompletedMeansDone BY DEF IInv, CompletedMeansDone, Jobs, Typed, JobType
<1> QED BY <1>1, Invariance, PTL

\* A checked write replaces only what it was checked against.
THEOREM FreshnessHolds == Spec => StaleWriteRefused
<1> DEFINE A == RootsApart /\ (\A j \in jobs' : ~j.orphan) =>
        \A j \in jobs :
          /\ Kind(j) \in {"write", "patch"} /\ Step(j.macro, j.step).expect # AnyText
          /\ j.left # <<>> /\ [j EXCEPT !.left = Tail(@)] \in jobs'
          => files[Head(j.left)].text = Step(j.macro, j.step).expect
<1>1. IInv /\ [Next]_vars => A
  <2> SUFFICES ASSUME IInv, [Next]_vars, RootsApart, \A j \in jobs' : ~j.orphan, NEW j \in jobs,
                      Checked(j), j.left # <<>>
               PROVE  files[Head(j.left)].text = Step(j.macro, j.step).expect
    BY DEF Checked
  <2>1. \A i \in jobs : ~i.orphan
    <3> SUFFICES ASSUME NEW i \in jobs, i.orphan PROVE \E k \in jobs' : k.orphan OBVIOUS
    <3>1. JobType(i) /\ [i EXCEPT !.left = <<>>].orphan /\ [i EXCEPT !.left = Tail(@)].orphan
          /\ [i EXCEPT !.orphan = TRUE].orphan
      BY DEF IInv, Typed, JobType
    <3>2. CASE i \in jobs' BY <3>2
    <3>3. ASSUME NEW m \in Macros, NEW s \in Steps(m), Progress(m, s) PROVE \E k \in jobs' : k.orphan
      <4>1. CASE Drop(m, s) BY <3>1, <4>1 DEF Drop, Orphan
      <4>2. CASE ~Drop(m, s)
        <5>1. i \in jobs' BY <3>3, <4>2 DEF Progress, Join, Lookup, LockWorkspace, LockFile, Begin, Goes
        <5> QED BY <5>1
      <4> QED BY <4>1, <4>2
    <3>4. ASSUME NEW l \in jobs, Work(l) \/ Return(l) \/ Fail(l) \/ StopUnit(l) PROVE \E k \in jobs' : k.orphan
      <4>1. CASE l = i BY <3>1, <3>4, <4>1 DEF Work, Return, Fail, StopUnit
      <4>2. CASE l # i
        <5>1. i \in jobs' BY <3>4, <4>2 DEF Work, Return, Fail, StopUnit
        <5> QED BY <5>1
      <4> QED BY <4>1, <4>2
    <3>5. ASSUME NEW m \in Macros, Submit(m) \/ Cancel(m) PROVE i \in jobs'
      BY <3>5 DEF Submit, Cancel
    <3>6. ASSUME UNCHANGED vars PROVE i \in jobs' BY <3>6 DEF vars
    <3> QED BY <3>2, <3>3, <3>4, <3>5, <3>6 DEF Next, Server, TaskStep, JobStep
  <2>2. \A x \in DOMAIN j.left : files[j.left[x]].text = Step(j.macro, j.step).expect
    BY <2>1 DEF IInv, WritesFresh
  <2>3. 1 \in DOMAIN j.left /\ Head(j.left) = j.left[1]
    <3>1. j.left \in Seq(Files) BY DEF IInv, Typed, JobType
    <3> QED BY <3>1
  <2> QED BY <2>2, <2>3
<1>2. Spec => [][A]_vars
  <2>1. IInv /\ [Next]_vars => [A]_vars BY <1>1
  <2> HIDE DEF A
  <2> QED BY <2>1, Invariance, PTL DEF Spec
<1> QED BY <1>2 DEF StaleWriteRefused

\* A running macro has tasks, and of all the tasks that wait for file locks the
\* one that is furthest in their order waits for none.
THEOREM ProgressHolds == Spec => []NeverStuck
<1>1. IInv => NeverStuck
  <2> SUFFICES ASSUME IInv, NEW m \in Macros, macro[m].phase = "running"
               PROVE  /\ Live(m) # {}
                      /\ \E x \in Macros : \E s \in Live(x) :
                           /\ At(x, s, "workspace") => WorkspaceFree(x, s)
                           /\ At(x, s, "files") =>
                                task[x][s].held = Wanted(x, s) \/ FileFree(x, s, NextLock(x, s))
    BY DEF NeverStuck
  <2> USE DEF IInv
  <2>1. PICK s0 \in Live(m) : TRUE BY DEF Schedules, Scheduled
  <2> DEFINE Moves(x, s) ==
        /\ At(x, s, "workspace") => WorkspaceFree(x, s)
        /\ At(x, s, "files") => task[x][s].held = Wanted(x, s) \/ FileFree(x, s, NextLock(x, s))
  <2> SUFFICES ASSUME \A x \in Macros : \A s \in Live(x) : ~Moves(x, s) PROVE FALSE
    BY <2>1
  <2>2. \A x \in Macros : \A s \in Live(x) :
          \/ At(x, s, "workspace") /\ ~WorkspaceFree(x, s)
          \/ At(x, s, "files") /\ task[x][s].held # Wanted(x, s) /\ ~FileFree(x, s, NextLock(x, s))
    OBVIOUS
  <2>3. ASSUME NEW x \in Macros, NEW s \in Steps(x), NEW p \in Others(x, s)
        PROVE  /\ p[1] \in Macros /\ p[2] \in Live(p[1]) /\ p # <<x, s>> /\ req[p[1]].root = req[x].root
               /\ At(p[1], p[2], "files")
    <3>1. /\ p[1] \in Macros /\ p[2] \in Steps(p[1]) /\ p # <<x, s>> /\ req[p[1]].root = req[x].root
          /\ task[p[1]][p[2]].pc \in Holding
      BY DEF Others
    <3>2. p[2] \in Live(p[1]) BY <3>1 DEF Live, Holding
    <3>3. task[p[1]][p[2]].pc # "workspace" BY <3>1 DEF Holding
    <3> QED BY <2>2, <3>1, <3>2, <3>3 DEF At
  <2> DEFINE Nexts == {f \in Files : \E x \in Macros : \E s \in Live(x) :
                         At(x, s, "files") /\ f = NextLock(x, s)}
  <2>4. ASSUME NEW x \in Macros, NEW s \in Live(x), At(x, s, "files")
        PROVE  /\ s \in Steps(x) /\ Ordered(x, s, task[x][s])
               /\ NextLock(x, s) \in Wanted(x, s) \ task[x][s].held
               /\ NextLock(x, s) \in Files /\ NextLock(x, s) \in Nexts
    <3>1. s \in Steps(x) /\ Ordered(x, s, task[x][s]) BY DEF Live, Queued
    <3>2. task[x][s].held # Wanted(x, s) BY <2>2, <2>4 DEF At
    <3>3. NextLock(x, s) \in Wanted(x, s) \ task[x][s].held
      BY <3>1, <3>2, NextIsLeast DEF Ordered
    <3>4. Step(x, s).files \in Seq(Files) BY <3>1, StepTypes DEF IsStep
    <3>5. NextLock(x, s) \in Files BY <3>3, <3>4, LenProperties DEF Wanted
    <3> QED BY <2>4, <3>1, <3>3, <3>5
  <2>5. CASE Nexts # {}
    <3>1. PICK f \in Nexts : \A g \in Nexts : g <= f
      <4>1. Nexts \in SUBSET Files OBVIOUS
      <4> HIDE DEF Nexts
      <4> QED BY <4>1, <2>5, FilesAssumption, GreatestOfNaturals
    <3>2. PICK x \in Macros : \E s \in Live(x) : At(x, s, "files") /\ f = NextLock(x, s)
      OBVIOUS
    <3> PICK s \in Live(x) : At(x, s, "files") /\ f = NextLock(x, s)
      BY <3>2
    <3>3. s \in Steps(x) /\ ~FileFree(x, s, f) BY <2>2, <2>4 DEF At
    <3>4. PICK p \in Others(x, s) : f \in task[p[1]][p[2]].held
      BY <3>3 DEF FileFree
    <3>5. /\ p[1] \in Macros /\ p[2] \in Live(p[1]) /\ At(p[1], p[2], "files")
      BY <2>3, <3>3
    <3>6. f < NextLock(p[1], p[2]) /\ NextLock(p[1], p[2]) \in Nexts
      BY <2>4, <3>4, <3>5 DEF Ordered
    <3>7. f \in Nat /\ NextLock(p[1], p[2]) \in Nat BY <3>6, FilesAssumption
    <3> QED BY <3>1, <3>6, <3>7
  <2>6. CASE Nexts = {}
    <3>1. \A x \in Macros : \A s \in Live(x) : ~At(x, s, "files") BY <2>4, <2>6
    <3>2. At(m, s0, "workspace") /\ ~WorkspaceFree(m, s0) BY <2>2, <3>1
    <3>3. s0 \in Steps(m) BY DEF Live
    <3>4. PICK p \in Others(m, s0) : TRUE BY <3>2 DEF WorkspaceFree
    <3>5. p[1] \in Macros /\ p[2] \in Live(p[1]) /\ At(p[1], p[2], "files") BY <2>3, <3>3, <3>4
    <3> QED BY <3>1, <3>5
  <2> QED BY <2>5, <2>6
<1> QED BY <1>1, Invariance, PTL
=============================================================================
