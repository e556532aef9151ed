--------------------------- MODULE MacroExecutor ---------------------------
(***************************************************************************)
(* The macro executor (macro_executor.rs): an MCP server that runs several *)
(* macros at once.  A macro is a graph of workspace steps; its coordinator *)
(* launches the steps that are ready, each an asynchronous task that takes *)
(* workspace and file locks and hands its work to a thread or to a child   *)
(* process, here a job.  A task that is aborted gives its locks back; the  *)
(* thread or process it was waiting for runs on.                           *)
(*                                                                         *)
(* Left out: paths and their checks, output previews and artifacts,        *)
(* telemetry, the arguments of the sandbox.                                *)
(***************************************************************************)
EXTENDS Naturals, Sequences, FiniteSets

CONSTANTS
    Macros,         \* tools/call requests the server is sent
    Requests,       \* what each of them may ask
    Files,          \* the workspace, 1..n in the order of the paths
    Texts,          \* what a file can hold
    Initial,        \* what every file holds at first
    AnyText,        \* no expected_sha256, no output filter
    Failures,       \* the work that may fail: "rename", "command"
    MaxCache        \* MAX_CACHE_ENTRIES

\* MacroRequest and MacroStep, as serde lets them in.
IsStep(s) ==
    /\ s.kind \in {"read", "search", "command", "write", "patch", "mutate"}
    /\ s.files \in Seq(Files) /\ s.deps \subseteq Nat /\ s.text \in Texts
    /\ s.expect \in Texts \cup {AnyText} /\ s.when.step \in Nat

IsRequest(q) ==
    /\ q.parallel \in Nat /\ q.stop \in BOOLEAN /\ q.dry \in BOOLEAN
    /\ DOMAIN q.steps = 1..Len(q.steps) /\ Len(q.steps) \in Nat
    /\ \A s \in DOMAIN q.steps : IsStep(q.steps[s])

ASSUME FilesAssumption   == Files \subseteq Nat /\ IsFiniteSet(Files)
ASSUME TextAssumption    == Initial \in Texts /\ AnyText \notin Texts
ASSUME RequestAssumption == \A q \in Requests : IsRequest(q)

VARIABLES
    req,            \* the request of each macro
    macro,          \* its coordinator: [phase, state, out, stopped]
    task,           \* the asynchronous task of each step: [pc, held, key, out]
    jobs,           \* blocking threads and child processes at work
    files,          \* the workspace: [text, stamp], the stamp for its mtime
    cache           \* ReadCache, least recently used first

vars == <<req, macro, task, jobs, files, cache>>

Steps(m)  == DOMAIN req[m].steps
Step(m, s) == req[m].steps[s]
StepIds   == UNION {DOMAIN q.steps : q \in Requests}
Ended     == {"succeeded", "failed", "skipped"}
Idle      == [pc |-> "none", held |-> {}, key |-> <<>>, out |-> <<>>]
Started   == [Idle EXCEPT !.pc = "start"]
Mutating  == {"write", "patch", "mutate"}

Init ==
    /\ req \in [Macros -> Requests]
    /\ macro = [m \in Macros |->
                  [phase |-> "new", state |-> [s \in Steps(m) |-> "pending"],
                   out |-> [s \in Steps(m) |-> <<>>], stopped |-> FALSE]]
    /\ task = [m \in Macros |-> [s \in Steps(m) |-> Idle]]
    /\ jobs = {} /\ cache = <<>>
    /\ files = [f \in Files |-> [text |-> Initial, stamp |-> 0]]

---------------------------------------------------------------------------
(* The request and the scheduler's passes over it.                         *)

\* action_is_cacheable.
Cacheable(s) ==
    s.kind \in {"read", "search"} \/ (s.kind = "command" /\ s.cache \in {"use", "refresh"})

\* validate_acyclic: Kahn's algorithm visits every step.
Visited(q) ==
    LET S == DOMAIN q.steps
        v[n \in Nat] == IF n = 0 THEN {}
                        ELSE {s \in S : q.steps[s].deps \subseteq v[n - 1]}
    IN  v[Cardinality(S)]

\* A write or a patch that names a path twice is refused.
Distinct(s) ==
    s.kind \in {"write", "patch"} =>
      \A i, k \in DOMAIN s.files : s.files[i] = s.files[k] => i = k

\* validate_request.
Valid(q) ==
    /\ Len(q.steps) >= 2
    /\ \A s \in DOMAIN q.steps :
         LET step == q.steps[s]
         IN  /\ step.deps \subseteq DOMAIN q.steps \ {s}
             /\ step.when.step # 0 => step.when.step \in step.deps
             /\ step.cache \in {"use", "refresh"} => Cacheable(step)
             /\ Distinct(step)
    /\ Visited(q) = DOMAIN q.steps

\* mark_failed_dependents, to its fixed point: what is in every set of
\* pending steps that the rule adds nothing to.  A dependency that is the
\* step's own condition does not doom it.
Doomed(m, st) ==
    LET pending   == {s \in Steps(m) : st[s] = "pending"}
        hit(s, D) == \E d \in Step(m, s).deps :
                       /\ st[d] \in {"failed", "skipped"} \/ d \in D
                       /\ Step(m, s).when.step # d
    IN  {s \in pending : \A D \in SUBSET pending :
           (\A x \in pending : hit(x, D) => x \in D) => s \in D}

\* condition_matches; a skipped step has no output.
Matches(when, status, out) ==
    /\ when.status \in {"any", status}
    /\ when.text = AnyText \/ \E i \in DOMAIN out : out[i] = when.text

\* mark_unmet_conditions: one pass, over the states before it.
Unmet(m, st, out) ==
    {s \in Steps(m) :
       LET w == Step(m, s).when
       IN  /\ st[s] = "pending" /\ w.step # 0
           /\ st[w.step] \in Ended
           /\ ~Matches(w, st[w.step], out[w.step])}

Skip(st, S) == [s \in DOMAIN st |-> IF s \in S THEN "skipped" ELSE st[s]]

\* Mutant of DependencyReady: a dependency that was started is good enough.
DependencyStarted(m, s, d, st) ==
    IF Step(m, s).when.step = d THEN st[d] \in Ended ELSE st[d] \in {"running", "succeeded"}

\* dependency_ready.
DependencyReady(m, s, d, st) ==
    IF Step(m, s).when.step = d THEN st[d] \in Ended ELSE st[d] = "succeeded"

\* The steps one pass of the loop launches: the first in the order of their
\* ids, up to max_parallel tasks at once.
Launched(m, st, stopped) ==
    LET ready == {s \in Steps(m) : st[s] = "pending"
                    /\ \A d \in Step(m, s).deps : DependencyReady(m, s, d, st)}
        free  == req[m].parallel - Cardinality({s \in Steps(m) : st[s] = "running"})
    IN  IF stopped THEN {}
        ELSE {s \in ready : Cardinality({x \in ready : x < s}) < free}

\* MacroCoordinator::run from the top of its loop to its next await, or to
\* the report: every step left pending or running is reported as skipped.
\* `live` are the tasks it still has to join.
Pass(m, c, live) ==
    LET st1 == Skip(c.state, Doomed(m, c.state))
        st2 == Skip(st1, Unmet(m, st1, c.out))
        new == Launched(m, st2, c.stopped)
        st3 == [s \in DOMAIN st2 |-> IF s \in new THEN "running" ELSE st2[s]]
    IN  /\ macro' = [macro EXCEPT ![m] =
              IF live \cup new = {}
              THEN [c EXCEPT !.phase = "done",
                             !.state = Skip(st3, {s \in Steps(m) : st3[s] \in {"pending", "running"}})]
              ELSE [c EXCEPT !.phase = "running", !.state = st3]]
        /\ task' = [task EXCEPT ![m] =
              [s \in Steps(m) |-> IF s \in new THEN Started
                                  ELSE IF s \in live THEN task[m][s] ELSE Idle]]

Live(m) == {s \in Steps(m) : task[m][s].pc # "none"}

\* tools/call: a request that does not validate is answered with an error.
Submit(m) ==
    /\ macro[m].phase = "new"
    /\ IF Valid(req[m]) THEN Pass(m, macro[m], {})
       ELSE macro' = [macro EXCEPT ![m].phase = "rejected"] /\ UNCHANGED task
    /\ UNCHANGED <<req, jobs, files, cache>>

\* join_next returns a step that ended; a failure may stop the others.
Join(m, s) ==
    /\ macro[m].phase = "running" /\ task[m][s].pc \in {"succeeded", "failed"}
    /\ LET pc == task[m][s].pc
       IN  Pass(m, [macro[m] EXCEPT !.state[s] = pc, !.out[s] = task[m][s].out,
                                    !.stopped = @ \/ (pc = "failed" /\ req[m].stop)],
                Live(m) \ {s})
    /\ UNCHANGED <<req, jobs, files, cache>>

\* notifications/cancelled, or the end of the input.
Cancel(m) ==
    /\ macro[m].phase = "running"
    /\ macro' = [macro EXCEPT ![m].phase = "cancelled"]
    /\ UNCHANGED <<req, task, jobs, files, cache>>

\* What a job is to the outside once nobody waits for it.
Orphan(m, s) ==
    {IF j.macro = m /\ j.step = s THEN [j EXCEPT !.orphan = TRUE] ELSE j : j \in jobs}

\* abort_all, or the drop of the JoinSet: a task that is at an await goes
\* away with its locks.  Its coordinator, unless gone too, joins it.
Drop(m, s) ==
    /\ macro[m].phase = "cancelled" \/ macro[m].stopped
    /\ task[m][s].pc \notin {"none", "succeeded", "failed"}
    /\ jobs' = Orphan(m, s)
    /\ IF macro[m].phase = "running" THEN Pass(m, macro[m], Live(m) \ {s})
       ELSE task' = [task EXCEPT ![m][s] = Idle] /\ UNCHANGED macro
    /\ UNCHANGED <<req, files, cache>>

---------------------------------------------------------------------------
(* execute_step.                                                           *)

At(m, s, pc) == task[m][s].pc = pc
Goes(m, s, t) == task' = [task EXCEPT ![m][s] = t] /\ UNCHANGED <<req, macro>>

\* cache_key: what a file holds, or the size and time of every file searched.
\* It is taken before any lock.
Key(s) ==
    <<s.kind, s.files,
      [i \in DOMAIN s.files |-> IF s.kind = "read" THEN files[s.files[i]].text
                                ELSE files[s.files[i]].stamp]>>

Hits(k) == {i \in DOMAIN cache : cache[i].key = k}

\* Mutant of Touch: nothing is evicted.
TouchUnbounded(e) == Append(SelectSeq(cache, LAMBDA x : x.key # e.key), e)

\* insert of ReadCache, and the move to the end of get.
Touch(e) ==
    LET c == Append(SelectSeq(cache, LAMBDA x : x.key # e.key), e)
    IN  IF Len(c) > MaxCache THEN Tail(c) ELSE c

\* The read cache answers, or the step goes on with the key in hand.
Lookup(m, s) ==
    /\ At(m, s, "start")
    /\ LET st == Step(m, s)
           k  == IF Cacheable(st) THEN Key(st) ELSE <<>>
       IN  IF k # <<>> /\ st.cache \notin {"refresh", "off"} /\ Hits(k) # {}
           THEN LET e == cache[CHOOSE i \in Hits(k) : TRUE]
                IN  /\ Goes(m, s, [task[m][s] EXCEPT !.pc = "succeeded", !.out = e.out])
                    /\ cache' = Touch(e)
           ELSE Goes(m, s, [task[m][s] EXCEPT !.pc = "workspace", !.key = k]) /\ UNCHANGED cache
    /\ UNCHANGED <<jobs, files>>

\* Who holds what, among the tasks under one lock root.
Holding   == {"files", "work"}
Others(m, s) ==
    {p \in {<<x, y>> : x \in Macros, y \in StepIds} :
       /\ p # <<m, s>> /\ p[2] \in Steps(p[1])
       /\ req[p[1]].root = req[m].root
       /\ task[p[1]][p[2]].pc \in Holding}
Exclusive(p) == Step(p[1], p[2]).kind = "mutate"

\* Mutant of WorkspaceFree: a mutating command shares the workspace.
WorkspaceShared(m, s) == TRUE

\* read_workspace for every action but a mutating command: write_workspace.
WorkspaceFree(m, s) ==
    IF Step(m, s).kind = "mutate" THEN Others(m, s) = {}
    ELSE \A p \in Others(m, s) : ~Exclusive(p)

LockWorkspace(m, s) ==
    /\ At(m, s, "workspace") /\ WorkspaceFree(m, s)
    /\ Goes(m, s, [task[m][s] EXCEPT !.pc = "files"])
    /\ UNCHANGED <<jobs, files, cache>>

\* read_files and write_files: one lock after the other.  Searches, lists and
\* commands take none.
Wanted(m, s) ==
    IF Step(m, s).kind \in {"read", "write", "patch"}
    THEN {Step(m, s).files[i] : i \in DOMAIN Step(m, s).files} ELSE {}

\* Mutant of NextLock: the locks are taken as the request lists the files.
NextLockAsListed(m, s) ==
    LET left == Wanted(m, s) \ task[m][s].held
        i    == CHOOSE i \in DOMAIN Step(m, s).files :
                  /\ Step(m, s).files[i] \in left
                  /\ \A j \in 1..(i - 1) : Step(m, s).files[j] \notin left
    IN  Step(m, s).files[i]

\* file_locks sorts the paths.
NextLock(m, s) ==
    LET left == Wanted(m, s) \ task[m][s].held
    IN  CHOOSE f \in left : \A g \in left : f <= g

\* Readers share a file with readers.
FileFree(m, s, f) ==
    \A p \in Others(m, s) :
      f \in task[p[1]][p[2]].held => Step(m, s).kind = "read" /\ Step(p[1], p[2]).kind = "read"

LockFile(m, s) ==
    /\ At(m, s, "files") /\ task[m][s].held # Wanted(m, s)
    /\ FileFree(m, s, NextLock(m, s))
    /\ Goes(m, s, [task[m][s] EXCEPT !.held = @ \cup {NextLock(m, s)}])
    /\ UNCHANGED <<jobs, files, cache>>

\* Mutant of Stale: the hash is checked for the first file only.
StaleFirstOnly(s) == s.expect # AnyText /\ files[s.files[1]].text # s.expect

\* verify_expected_hash, for every file of the step.
Stale(s) ==
    s.expect # AnyText /\ \E i \in DOMAIN s.files : files[s.files[i]].text # s.expect

\* Mutant of Begin: the thread of a write is started and not waited for.
BeginDetached(m, s) ==
    /\ At(m, s, "files") /\ task[m][s].held = Wanted(m, s)
    /\ Goes(m, s, [Idle EXCEPT !.pc = "succeeded"])
    /\ jobs' = jobs \cup {[macro |-> m, step |-> s, left |-> Step(m, s).files, orphan |-> FALSE]}
    /\ UNCHANGED <<files, cache>>

\* execute_write_files and execute_apply_patch check every file first.
Refused(s) == s.kind \in {"write", "patch"} /\ Stale(s)

\* With its locks the step is refused, validated only, or handed to a job.
Begin(m, s) ==
    /\ At(m, s, "files") /\ task[m][s].held = Wanted(m, s)
    /\ LET st == Step(m, s)
           dry  == req[m].dry /\ st.kind \in Mutating
       IN  /\ Goes(m, s, IF Refused(st) THEN [Idle EXCEPT !.pc = "failed"]
                         ELSE IF dry THEN [Idle EXCEPT !.pc = "succeeded"]
                         ELSE [task[m][s] EXCEPT !.pc = "work"])
           /\ jobs' = IF Refused(st) \/ dry THEN jobs
                      ELSE jobs \cup {[macro |-> m, step |-> s, left |-> st.files, orphan |-> FALSE]}
    /\ UNCHANGED <<files, cache>>

---------------------------------------------------------------------------
(* The jobs: spawn_blocking threads and sandboxed child processes.         *)

Kind(j) == Step(j.macro, j.step).kind

\* atomic_write_many and git apply replace one file after the other, and so
\* may a command.
Replace(j, f) ==
    /\ files' = [files EXCEPT ![f] = [text |-> Step(j.macro, j.step).text, stamp |-> @.stamp + 1]]
    /\ UNCHANGED task

\* search_workspace, a read and a command look at one file after the other.
Look(j, f) ==
    /\ task' = IF j.orphan THEN task
               ELSE [task EXCEPT ![j.macro][j.step].out = Append(@, files[f].text)]
    /\ UNCHANGED files

Work(j) ==
    /\ j.left # <<>>
    /\ IF Kind(j) \in Mutating THEN Replace(j, Head(j.left)) ELSE Look(j, Head(j.left))
    /\ jobs' = (jobs \ {j}) \cup {[j EXCEPT !.left = Tail(@)]}
    /\ UNCHANGED <<req, macro, cache>>

\* The task takes the result, puts it in the cache and gives up its locks.
Return(j) ==
    /\ j.left = <<>> /\ ~j.orphan
    /\ LET t == task[j.macro][j.step]
       IN  /\ Goes(j.macro, j.step, [Idle EXCEPT !.pc = "succeeded", !.out = t.out])
           /\ cache' = IF t.key # <<>> /\ Step(j.macro, j.step).cache # "off"
                       THEN Touch([key |-> t.key, out |-> t.out]) ELSE cache
    /\ jobs' = jobs \ {j}
    /\ UNCHANGED files

\* Staging fails before anything is replaced; a replacement, a patch or a
\* command may fail halfway, or the command time out.
Fail(j) ==
    /\ \/ "rename" \in Failures /\ Kind(j) \in {"write", "patch"} /\ j.left # <<>>
       \/ "command" \in Failures /\ Kind(j) \in {"command", "mutate"}
    /\ IF j.orphan THEN jobs' = (jobs \ {j}) \cup {[j EXCEPT !.left = <<>>]} /\ UNCHANGED task
       ELSE jobs' = jobs \ {j} /\ task' = [task EXCEPT ![j.macro][j.step] = [Idle EXCEPT !.pc = "failed"]]
    /\ UNCHANGED <<req, macro, files, cache>>

\* SandboxCleanup: the unit of a dropped command is told to stop.
StopUnit(j) ==
    /\ j.orphan /\ Kind(j) \in {"command", "mutate"} /\ j.left # <<>>
    /\ jobs' = (jobs \ {j}) \cup {[j EXCEPT !.left = <<>>]}
    /\ UNCHANGED <<req, macro, task, files, cache>>

---------------------------------------------------------------------------
Server == \E m \in Macros : Submit(m) \/ Cancel(m)

Progress(m, s) ==
    \/ Join(m, s) \/ Drop(m, s)
    \/ Lookup(m, s) \/ LockWorkspace(m, s) \/ LockFile(m, s) \/ Begin(m, s)

TaskStep == \E m \in Macros : \E s \in Steps(m) : Progress(m, s)
JobStep  == \E j \in jobs : Work(j) \/ Return(j) \/ Fail(j) \/ StopUnit(j)

Next == Server \/ TaskStep \/ JobStep
Spec == Init /\ [][Next]_vars

---------------------------------------------------------------------------
(* Properties.                                                             *)

\* Every variable has its type.
TypeOK ==
    /\ req \in [Macros -> Requests]
    /\ \A m \in Macros :
         /\ macro[m].phase \in {"new", "running", "done", "rejected", "cancelled"}
         /\ macro[m].state \in [Steps(m) -> {"pending", "running"} \cup Ended]
         /\ macro[m].out \in [Steps(m) -> Seq(Texts)]
         /\ macro[m].stopped \in BOOLEAN
         /\ \A s \in Steps(m) :
              /\ task[m][s].pc \in {"none", "start", "workspace", "succeeded", "failed"} \cup Holding
              /\ task[m][s].held \subseteq Files
              /\ task[m][s].out \in Seq(Texts)
    /\ jobs \subseteq [macro : Macros, step : StepIds, left : Seq(Files), orphan : BOOLEAN]
    /\ files \in [Files -> [text : Texts, stamp : Nat]]
    /\ Len(cache) <= MaxCache

Touches(j) == {Step(j.macro, j.step).files[i] : i \in DOMAIN Step(j.macro, j.step).files}

Root(j) == req[j.macro].root

\* "Mutations use sorted file or workspace locks" (metainfo, 0.6.0): of two
\* jobs of tasks that are alive, in any two macros under one lock root, that
\* touch one file, none changes it, unless the other is a search, which takes
\* no file lock.
MutationsExclusive ==
    \A i, j \in jobs :
      /\ i # j /\ ~i.orphan /\ ~j.orphan /\ Root(i) = Root(j)
      /\ Kind(i) \in Mutating /\ Touches(i) \cap Touches(j) # {}
      => Kind(i) # "mutate" /\ Kind(j) \in {"search", "command"}

\* No saved project lies inside another: macros that share a file share a root.
RootsApart ==
    \A m, n \in Macros : \A s \in Steps(m) : \A t \in Steps(n) :
      req[m].root # req[n].root =>
        \A i \in DOMAIN Step(m, s).files : \A k \in DOMAIN Step(n, t).files :
          Step(m, s).files[i] # Step(n, t).files[k]

\* "Stale write refused": a step with expected hashes replaces no file that
\* holds anything else, whoever was ahead of it in the queue for the locks,
\* as long as no aborted job is about and no saved project lies in another.
StaleWriteRefused ==
    [][RootsApart /\ (\A j \in jobs' : ~j.orphan) =>
        \A j \in jobs :
          /\ Kind(j) \in {"write", "patch"} /\ Step(j.macro, j.step).expect # AnyText
          /\ j.left # <<>> /\ [j EXCEPT !.left = Tail(@)] \in jobs'
          => files[Head(j.left)].text = Step(j.macro, j.step).expect]_vars

\* A macro reported as completed has no thread or process at work any more,
\* whoever was stopped or failed beside it.
CompletedMeansDone ==
    \A m \in Macros :
      macro[m].phase = "done" /\ (\A s \in Steps(m) : macro[m].state[s] = "succeeded") =>
        \A j \in jobs : j.macro # m

\* A step runs only when the work of every step it depends on is over.
StepsInOrder ==
    \A m \in Macros : \A s \in Live(m) : \A d \in Step(m, s).deps :
      /\ task[m][d].pc = "none"
      /\ \A j \in jobs : j.macro # m \/ j.step # d

\* Whatever fails, waits for locks or is stopped, no macro hangs: it has tasks
\* to join, and some task waits for no lock.  Every macro has finitely many
\* steps to take, so it ends.
NeverStuck ==
    \A m \in Macros : macro[m].phase = "running" =>
      /\ Live(m) # {}
      /\ \E x \in Macros : \E s \in Live(x) :
           /\ At(x, s, "workspace") => WorkspaceFree(x, s)
           /\ At(x, s, "files") =>
                task[x][s].held = Wanted(x, s) \/ FileFree(x, s, NextLock(x, s))

\* StepCondition (macro_executor.rs:648): a step with a condition runs only
\* if the condition holds.
ConditionsHonoured ==
    \A m \in Macros : \A s \in Live(m) :
      LET w == Step(m, s).when
      IN  w.step # 0 => Matches(w, macro[m].state[w.step], macro[m].out[w.step])
===========================================================================
