-------------------------- MODULE RemoteHost_proofs --------------------------
(***************************************************************************)
(* Proofs about the recovery of the Remote host, for any profiles, hubs,   *)
(* queues and cooldown.  All of them rest on one fact: there is one        *)
(* restart of a host at most, wherever it is on its way from a hub's queue *)
(* over its task to the answer, and the controller says in_progress        *)
(* while there is one, or for ever once its hub was dropped.               *)
(***************************************************************************)
EXTENDS RemoteHost, SequenceTheorems, TLAPS

---------------------------------------------------------------------------
(* The inductive invariant.                                                *)

RemoteAssumption == First \in Profiles /\ Cooldown \in Nat

Values == {"none", "ok", "error", "disabled", "connected", "connecting", "hung", "off"} \cup Healths
Works  == {"enable", "disable", "refresh", "restart"}

\* Only restarts are made by the controller itself.
Commands == {c \in [kind : Works \cup {"turn", "reconnect", "shutdown"}, auto : BOOLEAN] :
               c.auto => c.kind = "restart"}
Events   == [kind : Works \cup {"ready", "completed"}, value : Values]
Hubs     == [profile : Profiles, conn : {"down", "managed", "direct", "closed"},
             managed : BOOLEAN, queue : Seq(Commands), events : Seq(Events)]
Spawns   == {t \in [hub : Nat, kind : Works, auto : BOOLEAN, result : Values, shared : BOOLEAN] :
               t.auto => t.kind = "restart"}
Turns    == [at : {"none", "queued", "managed", "direct"}, hub : Nat, known : BOOLEAN]
Controls == [expected : BOOLEAN, pending : BOOLEAN, inProgress : BOOLEAN, samples : Nat,
             cool : Nat, remote : Values \cup {"unknown"}, busy : BOOLEAN, handoff : BOOLEAN]

Typed ==
    /\ ctl \in Controls
    /\ hubs \in Seq(Hubs) /\ hubs # <<>>
    /\ tasks \subseteq Spawns /\ \A t \in tasks : t.hub \in DOMAIN hubs
    /\ daemon \in [Profiles -> [service : BOOLEAN, health : Values]]
    /\ turn \in [Profiles -> Turns]
    /\ since \in [Profiles -> 0..Cooldown]

\* What a queue of commands or events holds.
In(q, k) == \E n \in DOMAIN q : q[n].kind = k
Single(q, k) == \A n, m \in DOMAIN q : q[n].kind = k /\ q[m].kind = k => n = m
Autos(q) == \E n \in DOMAIN q : q[n].auto

\* Where a restart is.
QueueAt == {i \in DOMAIN hubs : In(hubs[i].queue, "restart")}
EventAt == {i \in DOMAIN hubs : In(hubs[i].events, "restart")}
RestartTasks == {t \in tasks : t.kind = "restart"}

\* There is one at most, and inProgress while there is one.  An answer in a
\* hub that is no longer shown is gone.
Lone ==
    /\ \A i \in QueueAt : QueueAt = {i} /\ EventAt = {} /\ RestartTasks = {}
    /\ \A i \in EventAt : EventAt = {i} /\ QueueAt = {} /\ RestartTasks = {}
    /\ \A t \in RestartTasks : RestartTasks = {t} /\ QueueAt = {} /\ EventAt = {}
    /\ \A i \in DOMAIN hubs : Single(hubs[i].queue, "restart") /\ Single(hubs[i].events, "restart")
    /\ QueueAt # {} \/ EventAt # {} \/ RestartTasks # {} => ctl.inProgress

\* Unless one is in progress, what is left of the cooldown covers what is
\* left until the next automatic restart may end.
Cooling ==
    ~ctl.inProgress => \A p \in Profiles : since[p] + ctl.cool >= Cooldown

\* An automatic restart on its way is far enough from the last.
Spaced ==
    /\ \A i \in DOMAIN hubs : Autos(hubs[i].queue) => since[hubs[i].profile] = Cooldown
    /\ \A t \in tasks : t.auto => since[hubs[t.hub].profile] = Cooldown

\* No turn of the profile is known of since before the restart.
Restarting(i) ==
    i \in QueueAt \cup EventAt \/ \E t \in RestartTasks : t.hub = i
Unknown == \A i \in DOMAIN hubs : Restarting(i) => ~turn[hubs[i].profile].known

Restarts == Lone /\ Cooling /\ Spaced /\ Unknown

\* The active hub has not been told of a connection since it was made, or is
\* about to be.
Fresh ==
    IF hub.events = <<>> THEN hub.conn = "down" /\ \A t \in tasks : t.hub # active
    ELSE Head(hub.events).kind = "ready"

\* The controller is busy with the turn it knows of.
Busy == turn[hub.profile].known => ctl.busy \/ Fresh

Behind(q) == \A n, m \in DOMAIN q : n < m /\ q[n].kind = "turn" => q[m].kind # "reconnect"

\* A queued turn is the only one of its profile; no reconnect follows one that
\* is known of.
Sent(i) ==
    LET p == hubs[i].profile
        q == hubs[i].queue
    IN  /\ Single(q, "turn")
        /\ In(q, "turn") => turn[p].at = "queued" /\ turn[p].hub = i
        /\ turn[p].known /\ turn[p].hub = i =>
             Behind(q) /\ (turn[p].at = "direct" => ~In(q, "reconnect"))
Known(p) ==
    turn[p].known => turn[p].at # "none" /\ turn[p].hub \in DOMAIN hubs
                     /\ hubs[turn[p].hub].profile = p
Turned == Busy /\ (\A i \in DOMAIN hubs : Sent(i)) /\ \A p \in Profiles : Known(p)

IInv == Typed /\ Restarts /\ Turned /\ HealthyHostSpared

\* What a step may do to the answer the controller waits for.
Kept ==
    /\ active' = active /\ ctl'.inProgress
    /\ ctl.inProgress => Restarting(active)
    => Restarting(active)'
Safely == IInv' /\ Kept

---------------------------------------------------------------------------
(* Queues.                                                                 *)

LEMMA InAppend ==
    ASSUME NEW S, NEW q \in Seq(S), NEW x \in S, NEW k
    PROVE  /\ In(Append(q, x), k) <=> In(q, k) \/ x.kind = k
           /\ Single(q, k) /\ ~(In(q, k) /\ x.kind = k) => Single(Append(q, x), k)
           /\ Autos(Append(q, x)) <=> Autos(q) \/ x.auto
           /\ Behind(q) /\ ~(In(q, "turn") /\ x.kind = "reconnect") => Behind(Append(q, x))
<1> DEFINE a == Append(q, x)
           n == Len(q)
<1>1. /\ n \in Nat /\ DOMAIN q = 1..n /\ DOMAIN a = 1..(n + 1)
      /\ a[n + 1] = x /\ \A i \in 1..n : a[i] = q[i]
  OBVIOUS
<1> HIDE DEF a, n
<1>2. \A i \in 1..(n + 1) : i \in 1..n \/ i = n + 1 BY <1>1
<1>3. \A i \in 1..n : i \in 1..(n + 1) /\ i # n + 1 /\ i < n + 1 BY <1>1
<1>4. n + 1 \in 1..(n + 1) BY <1>1
<1>5. In(a, k) <=> In(q, k) \/ x.kind = k BY <1>1, <1>2, <1>3, <1>4 DEF In
<1>6. Autos(a) <=> Autos(q) \/ x.auto BY <1>1, <1>2, <1>3, <1>4 DEF Autos
<1>7. Single(q, k) /\ ~(In(q, k) /\ x.kind = k) => Single(a, k)
  BY <1>1, <1>2, <1>3, <1>4 DEF In, Single
<1>8. ASSUME Behind(q), ~(In(q, "turn") /\ x.kind = "reconnect") PROVE Behind(a)
  <2> SUFFICES ASSUME NEW i \in 1..(n + 1), NEW j \in 1..(n + 1), i < j, a[i].kind = "turn"
               PROVE  a[j].kind # "reconnect"
    BY <1>1 DEF Behind
  <2>1. i \in 1..n BY <1>1
  <2>2. CASE j = n + 1 BY <1>1, <1>8, <2>1, <2>2 DEF In
  <2>3. CASE j \in 1..n BY <1>1, <1>8, <2>1, <2>3 DEF Behind
  <2> QED BY <1>2, <2>2, <2>3
<1> QED BY <1>5, <1>6, <1>7, <1>8 DEF a

LEMMA InTail ==
    ASSUME NEW S, NEW q \in Seq(S), q # <<>>, NEW k
    PROVE  /\ In(Tail(q), k) => In(q, k)
           /\ In(q, k) /\ Head(q).kind # k => In(Tail(q), k)
           /\ Single(q, k) => Single(Tail(q), k)
           /\ Single(q, k) /\ Head(q).kind = k => ~In(Tail(q), k)
           /\ Autos(Tail(q)) => Autos(q)
           /\ Behind(q) => Behind(Tail(q))
           /\ Behind(q) /\ Head(q).kind = "turn" => ~In(Tail(q), "reconnect")
<1> DEFINE a == Tail(q)
           n == Len(q)
<1>1. /\ n \in Nat /\ n > 0 /\ DOMAIN q = 1..n /\ DOMAIN a = 1..(n - 1)
      /\ Head(q) = q[1] /\ \A i \in 1..(n - 1) : a[i] = q[i + 1]
  OBVIOUS
<1> HIDE DEF a, n
<1>2. \A i \in 1..n : i = 1 \/ (i - 1 \in 1..(n - 1) /\ a[i - 1] = q[i])
  <2> SUFFICES ASSUME NEW i \in 1..n, i # 1 PROVE i - 1 \in 1..(n - 1) /\ a[i - 1] = q[i] OBVIOUS
  <2>1. i - 1 \in 1..(n - 1) /\ (i - 1) + 1 = i BY <1>1
  <2> QED BY <2>1, <1>1
<1>3. \A i \in 1..(n - 1) : i \in Int /\ i + 1 \in 1..n /\ i + 1 # 1 /\ 1 < i + 1 BY <1>1
<1>4. 1 \in 1..n BY <1>1
<1>5. In(a, k) => In(q, k) BY <1>1, <1>3 DEF In
<1>6. In(q, k) /\ Head(q).kind # k => In(a, k) BY <1>1, <1>2 DEF In
<1>7. Autos(a) => Autos(q) BY <1>1, <1>3 DEF Autos
<1>8. Single(q, k) => Single(a, k)
  <2> SUFFICES ASSUME Single(q, k), NEW i \in 1..(n - 1), NEW j \in 1..(n - 1),
                      a[i].kind = k, a[j].kind = k
               PROVE  i = j
    BY <1>1 DEF Single
  <2>1. i + 1 = j + 1 BY <1>1, <1>3 DEF Single
  <2> QED BY <2>1, <1>3
<1>9. Single(q, k) /\ Head(q).kind = k => ~In(a, k)
  BY <1>1, <1>3, <1>4 DEF Single, In
<1>10. ASSUME Behind(q) PROVE Behind(a)
  <2> SUFFICES ASSUME NEW i \in 1..(n - 1), NEW j \in 1..(n - 1), i < j, a[i].kind = "turn"
               PROVE  a[j].kind # "reconnect"
    BY <1>1 DEF Behind
  <2>1. i + 1 < j + 1 BY <1>3
  <2> QED BY <2>1, <1>1, <1>3, <1>10 DEF Behind
<1>11. Behind(q) /\ Head(q).kind = "turn" => ~In(a, "reconnect")
  BY <1>1, <1>3, <1>4 DEF Behind, In
<1> QED BY <1>5, <1>6, <1>7, <1>8, <1>9, <1>10, <1>11 DEF a

LEMMA InConcat ==
    ASSUME NEW S, NEW q \in Seq(S), NEW s \in Seq(S), NEW k
    PROVE  /\ In(q \o s, k) <=> In(q, k) \/ In(s, k)
           /\ Single(q, k) /\ Single(s, k) /\ ~(In(q, k) /\ In(s, k)) => Single(q \o s, k)
           /\ Autos(q \o s) <=> Autos(q) \/ Autos(s)
           /\ Behind(q) /\ Behind(s) /\ ~(In(q, "turn") /\ In(s, "reconnect")) => Behind(q \o s)
<1> DEFINE a == q \o s
           n == Len(q)
           l == Len(s)
<1>1. /\ n \in Nat /\ l \in Nat /\ DOMAIN q = 1..n /\ DOMAIN s = 1..l /\ DOMAIN a = 1..(n + l)
      /\ \A i \in 1..(n + l) : a[i] = IF i <= n THEN q[i] ELSE s[i - n]
  BY ConcatProperties
<1> HIDE DEF a, n, l
<1>2. \A i \in 1..(n + l) : \/ i \in 1..n /\ a[i] = q[i]
                            \/ i \in Int /\ i - n \in 1..l /\ i > n /\ a[i] = s[i - n]
  BY <1>1
<1>3. \A i \in 1..n : i \in 1..(n + l) /\ a[i] = q[i] BY <1>1
<1>4. \A i \in 1..l : \E j \in 1..(n + l) : a[j] = s[i]
  <2> TAKE i \in 1..l
  <2>1. PICK j : j = i + n OBVIOUS
  <2>2. j \in 1..(n + l) /\ ~(j <= n) /\ j - n = i BY <1>1, <2>1
  <2>3. a[j] = s[j - n] BY <2>2, <1>1
  <2>4. a[j] = s[i] BY <2>2, <2>3
  <2> QED BY <2>2, <2>4
<1>5. In(a, k) <=> In(q, k) \/ In(s, k)
  <2>1. In(a, k) => In(q, k) \/ In(s, k) BY <1>1, <1>2 DEF In
  <2>2. In(q, k) => In(a, k) BY <1>1, <1>3 DEF In
  <2>3. In(s, k) => In(a, k) BY <1>1, <1>4 DEF In
  <2> QED BY <2>1, <2>2, <2>3
<1>6. Autos(a) <=> Autos(q) \/ Autos(s) BY <1>1, <1>2, <1>3, <1>4 DEF Autos
<1>7. ASSUME Single(q, k), Single(s, k), ~(In(q, k) /\ In(s, k)) PROVE Single(a, k)
  <2> SUFFICES ASSUME NEW i \in 1..(n + l), NEW j \in 1..(n + l), a[i].kind = k, a[j].kind = k
               PROVE  i = j
    BY <1>1 DEF Single
  <2>1. CASE i \in 1..n /\ j \in 1..n BY <1>1, <1>3, <1>7, <2>1 DEF Single
  <2>2. CASE i \notin 1..n /\ j \notin 1..n
    <3>1. i - n = j - n BY <1>1, <1>2, <1>7, <2>2 DEF Single
    <3> QED BY <3>1, <1>1
  <2>3. CASE i \in 1..n /\ j \notin 1..n BY <1>1, <1>2, <1>3, <1>7, <2>3 DEF In
  <2>4. CASE i \notin 1..n /\ j \in 1..n BY <1>1, <1>2, <1>3, <1>7, <2>4 DEF In
  <2> QED BY <2>1, <2>2, <2>3, <2>4
<1>8. ASSUME Behind(q), Behind(s), ~(In(q, "turn") /\ In(s, "reconnect")) PROVE Behind(a)
  <2> SUFFICES ASSUME NEW i \in 1..(n + l), NEW j \in 1..(n + l), i < j, a[i].kind = "turn"
               PROVE  a[j].kind # "reconnect"
    BY <1>1 DEF Behind
  <2>1. CASE i \in 1..n /\ j \in 1..n BY <1>1, <1>3, <1>8, <2>1 DEF Behind
  <2>2. CASE i \in 1..n /\ j \notin 1..n BY <1>1, <1>2, <1>3, <1>8, <2>2 DEF In
  <2>3. CASE i \notin 1..n
    <3>1. j \notin 1..n BY <1>1, <2>3
    <3>2. i - n < j - n BY <1>1
    <3> QED BY <1>1, <1>2, <1>8, <2>3, <3>1, <3>2 DEF Behind
  <2> QED BY <2>1, <2>2, <2>3
<1> QED BY <1>5, <1>6, <1>7, <1>8 DEF a

---------------------------------------------------------------------------
(* Hubs.                                                                   *)

LEMMA HubTypes ==
    ASSUME Typed
    PROVE  /\ Len(hubs) \in Nat /\ DOMAIN hubs = 1..Len(hubs) /\ active \in DOMAIN hubs
           /\ \A i \in DOMAIN hubs :
                /\ i \in Nat /\ hubs[i] \in Hubs /\ hubs[i].profile \in Profiles
                /\ hubs[i].queue \in Seq(Commands) /\ hubs[i].events \in Seq(Events)
           /\ hub \in Hubs /\ hub.profile \in Profiles
           /\ hub.queue \in Seq(Commands) /\ hub.events \in Seq(Events)
<1>1. hubs \in Seq(Hubs) /\ hubs # <<>> BY DEF Typed
<1>2. Len(hubs) \in Nat /\ DOMAIN hubs = 1..Len(hubs) /\ Len(hubs) # 0 BY <1>1
<1>3. active \in DOMAIN hubs BY <1>2 DEF active
<1>4. \A i \in DOMAIN hubs : i \in Nat /\ hubs[i] \in Hubs BY <1>1, <1>2
<1>5. \A h \in Hubs : h.profile \in Profiles /\ h.queue \in Seq(Commands) /\ h.events \in Seq(Events)
  BY DEF Hubs
<1> QED BY <1>2, <1>3, <1>4, <1>5 DEF hub

\* One hub becomes h, the others stay.
Becomes(i, h) ==
    /\ hubs' \in Seq(Hubs) /\ hubs' # <<>> /\ Len(hubs') = Len(hubs) /\ DOMAIN hubs' = DOMAIN hubs
    /\ hubs'[i] = h /\ \A j \in DOMAIN hubs \ {i} : hubs'[j] = hubs[j]

LEMMA HubBecomes ==
    ASSUME Typed, NEW i \in DOMAIN hubs, NEW h \in Hubs, hubs' = [hubs EXCEPT ![i] = h]
    PROVE  Becomes(i, h)
<1>1. hubs \in Seq(Hubs) /\ hubs # <<>> BY DEF Typed
<1>2. Len(hubs) \in Nat /\ DOMAIN hubs = 1..Len(hubs) /\ Len(hubs) # 0 BY <1>1
<1>3. hubs' \in Seq(Hubs) /\ Len(hubs') = Len(hubs) BY <1>1, <1>2
<1>4. DOMAIN hubs' = DOMAIN hubs /\ hubs' # <<>> BY <1>2, <1>3
<1>5. hubs'[i] = h /\ \A j \in DOMAIN hubs \ {i} : hubs'[j] = hubs[j] BY <1>2
<1> QED BY <1>3, <1>4, <1>5 DEF Becomes

\* A hub's queue and events may change without a restart in them coming or
\* going, and without a turn or a reconnect coming.
CalmHub(g, h) ==
    /\ h.profile = g.profile
    /\ In(h.queue, "restart") <=> In(g.queue, "restart")
    /\ In(h.events, "restart") <=> In(g.events, "restart")
    /\ Single(g.queue, "restart") => Single(h.queue, "restart")
    /\ Single(g.events, "restart") => Single(h.events, "restart")
    /\ Autos(h.queue) => Autos(g.queue)
TameHub(g, h) ==
    /\ h.profile = g.profile
    /\ In(h.queue, "turn") => In(g.queue, "turn")
    /\ In(h.queue, "reconnect") => In(g.queue, "reconnect")
    /\ Single(g.queue, "turn") => Single(h.queue, "turn")
    /\ Behind(g.queue) => Behind(h.queue)

\* What may become of a queue, and of the events.
Added(q, r, kinds) == \E c \in Commands : c.kind \in kinds /\ r = Append(q, c)
Taken(q, r, kinds) == q # <<>> /\ Head(q).kind \in kinds /\ r = Tail(q)
Emitted(q, r, kinds) == \E e \in Events : e.kind \in kinds /\ r = Append(q, e)

NoRestart == {"enable", "disable", "refresh", "turn", "reconnect", "shutdown", "ready", "completed"}

LEMMA CalmQueue ==
    ASSUME NEW q \in Seq(Commands), NEW r,
           r = q \/ Added(q, r, NoRestart) \/ Taken(q, r, NoRestart)
    PROVE  /\ In(r, "restart") <=> In(q, "restart")
           /\ Single(q, "restart") => Single(r, "restart")
           /\ Autos(r) => Autos(q)
<1>1. CASE r = q BY <1>1
<1>2. CASE Added(q, r, NoRestart)
  <2>1. PICK c \in Commands : c.kind \in NoRestart /\ r = Append(q, c) BY <1>2 DEF Added
  <2>2. c.kind # "restart" /\ ~c.auto BY <2>1 DEF NoRestart, Commands
  <2> QED BY <2>1, <2>2, InAppend
<1>3. CASE Taken(q, r, NoRestart)
  <2>1. q # <<>> /\ r = Tail(q) /\ Head(q).kind # "restart" BY <1>3 DEF Taken, NoRestart
  <2> QED BY <2>1, InTail
<1> QED BY <1>1, <1>2, <1>3

LEMMA CalmEvents ==
    ASSUME NEW q \in Seq(Events), NEW r,
           r = q \/ Emitted(q, r, NoRestart) \/ Taken(q, r, NoRestart)
    PROVE  /\ In(r, "restart") <=> In(q, "restart")
           /\ Single(q, "restart") => Single(r, "restart")
<1>1. CASE r = q BY <1>1
<1>2. CASE Emitted(q, r, NoRestart)
  <2>1. PICK c \in Events : c.kind \in NoRestart /\ r = Append(q, c) BY <1>2 DEF Emitted
  <2>2. c.kind # "restart" BY <2>1 DEF NoRestart
  <2> QED BY <2>1, <2>2, InAppend
<1>3. CASE Taken(q, r, NoRestart)
  <2>1. q # <<>> /\ r = Tail(q) /\ Head(q).kind # "restart" BY <1>3 DEF Taken, NoRestart
  <2> QED BY <2>1, InTail
<1> QED BY <1>1, <1>2, <1>3

LEMMA TameQueue ==
    ASSUME NEW q \in Seq(Commands), NEW r,
           r = q \/ Added(q, r, Works \cup {"shutdown"}) \/ (q # <<>> /\ r = Tail(q))
    PROVE  /\ In(r, "turn") => In(q, "turn")
           /\ In(r, "reconnect") => In(q, "reconnect")
           /\ Single(q, "turn") => Single(r, "turn")
           /\ Behind(q) => Behind(r)
<1>1. CASE r = q BY <1>1
<1>2. CASE Added(q, r, Works \cup {"shutdown"})
  <2>1. PICK c \in Commands : c.kind \in Works \cup {"shutdown"} /\ r = Append(q, c) BY <1>2 DEF Added
  <2>2. c.kind # "turn" /\ c.kind # "reconnect" BY <2>1 DEF Works
  <2>3. In(r, "turn") => In(q, "turn") BY <2>1, <2>2, InAppend
  <2>4. In(r, "reconnect") => In(q, "reconnect") BY <2>1, <2>2, InAppend
  <2>5. Single(q, "turn") => Single(r, "turn") BY <2>1, <2>2, InAppend
  <2>6. Behind(q) => Behind(r) BY <2>1, <2>2, InAppend
  <2> QED BY <2>3, <2>4, <2>5, <2>6
<1>3. CASE q # <<>> /\ r = Tail(q) BY <1>3, InTail
<1> QED BY <1>1, <1>2, <1>3

---------------------------------------------------------------------------
(* Steps that start, move or end no restart.                               *)

Calm ==
    /\ DOMAIN hubs' = DOMAIN hubs
    /\ \A i \in DOMAIN hubs : CalmHub(hubs[i], hubs'[i])
    /\ RestartTasks' = RestartTasks
    /\ ctl'.inProgress = ctl.inProgress /\ ctl'.cool = ctl.cool /\ since' = since
    /\ \A p \in Profiles : turn'[p].known => turn[p].known \/ ~ctl.inProgress

LEMMA CalmKeeps ==
    ASSUME Typed, Typed', Restarts, Calm
    PROVE  Restarts' /\ Kept
<1> USE DEF Restarts
<1>1. /\ DOMAIN hubs' = DOMAIN hubs /\ RestartTasks' = RestartTasks
      /\ ctl'.inProgress = ctl.inProgress /\ ctl'.cool = ctl.cool /\ since' = since
  BY DEF Calm
<1>2. \A i \in DOMAIN hubs : CalmHub(hubs[i], hubs'[i]) BY DEF Calm
<1>3. \A i \in DOMAIN hubs :
         /\ In(hubs'[i].queue, "restart") <=> In(hubs[i].queue, "restart")
         /\ In(hubs'[i].events, "restart") <=> In(hubs[i].events, "restart")
         /\ hubs'[i].profile = hubs[i].profile
         /\ Autos(hubs'[i].queue) => Autos(hubs[i].queue)
  BY <1>2 DEF CalmHub
<1>4. QueueAt' = QueueAt /\ EventAt' = EventAt
  <2>1. {j \in DOMAIN hubs' : In(hubs'[j].queue, "restart")} = {j \in DOMAIN hubs : In(hubs[j].queue, "restart")}
    BY <1>1, <1>3
  <2>2. {j \in DOMAIN hubs' : In(hubs'[j].events, "restart")} = {j \in DOMAIN hubs : In(hubs[j].events, "restart")}
    BY <1>1, <1>3
  <2> QED BY <2>1, <2>2 DEF QueueAt, EventAt, In
<1>5. Lone'
  <2>1. \A i \in DOMAIN hubs' : Single(hubs'[i].queue, "restart") /\ Single(hubs'[i].events, "restart")
    BY <1>1, <1>2 DEF CalmHub, Lone
  <2> QED BY <2>1, <1>1, <1>4 DEF Lone, Single
<1>6. Cooling' BY <1>1 DEF Cooling
<1>7. Spaced'
  <2>1. \A i \in DOMAIN hubs' : Autos(hubs'[i].queue) => since'[hubs'[i].profile] = Cooldown
    BY <1>1, <1>3 DEF Spaced
  <2>2. \A t \in tasks' : t.auto => t \in tasks /\ t.hub \in DOMAIN hubs
    <3>1. \A t \in tasks' : t.auto => t \in RestartTasks' BY DEF Typed, Spawns, RestartTasks
    <3> QED BY <3>1, <1>1 DEF RestartTasks, Typed
  <2>3. \A t \in tasks' : t.auto => since'[hubs'[t.hub].profile] = Cooldown
    BY <2>2, <1>1, <1>3 DEF Spaced
  <2> QED BY <2>1, <2>3 DEF Spaced, Autos
<1>8. Unknown'
  <2> SUFFICES ASSUME NEW i \in DOMAIN hubs, Restarting(i)' PROVE ~turn'[hubs'[i].profile].known
    BY <1>1 DEF Unknown
  <2>1. Restarting(i)
    BY <1>1, <1>4 DEF Restarting
  <2>2. ~turn[hubs[i].profile].known BY <2>1 DEF Unknown
  <2>3. ctl.inProgress BY <2>1 DEF Lone, Restarting
  <2>4. hubs[i].profile \in Profiles BY HubTypes
  <2> QED BY <2>2, <2>3, <2>4, <1>3 DEF Calm
<1>9. Kept BY <1>1, <1>4 DEF Kept, Restarting
<1> QED BY <1>5, <1>6, <1>7, <1>8, <1>9

\* Steps that send no turn and no reconnect.
Tame ==
    /\ Len(hubs') = Len(hubs) /\ DOMAIN hubs' = DOMAIN hubs
    /\ \A i \in DOMAIN hubs : TameHub(hubs[i], hubs'[i])
    /\ \A p \in Profiles : \/ turn'[p] = turn[p]
                           \/ turn'[p] = NoTurn /\ turn[p].at \in {"managed", "direct"}
                           \/ turn'[p] = [turn[p] EXCEPT !.known = FALSE]
    /\ turn'[hub.profile].known => (ctl.busy => ctl'.busy) /\ (Fresh => Fresh')

LEMMA TameKeeps ==
    ASSUME Typed, Typed', Turned, Tame
    PROVE  Turned'
<1> USE DEF Turned
<1>1. Len(hubs') = Len(hubs) /\ DOMAIN hubs' = DOMAIN hubs BY DEF Tame
<1>2. \A i \in DOMAIN hubs : TameHub(hubs[i], hubs'[i]) BY DEF Tame
<1>3. \A i \in DOMAIN hubs : hubs'[i].profile = hubs[i].profile BY <1>2 DEF TameHub
<1>4. active' = active BY <1>1 DEF active
<1>5. hub'.profile = hub.profile BY <1>3, <1>4, HubTypes DEF hub
<1>6. ASSUME NEW p \in Profiles
      PROVE  /\ turn'[p].known => turn'[p] = turn[p]
             /\ turn'[p] = turn[p] \/ (turn'[p].at = turn[p].at /\ turn'[p].hub = turn[p].hub)
                \/ turn[p].at \in {"managed", "direct"}
  <2>1. turn[p] \in Turns BY DEF Typed
  <2>2. CASE turn'[p] = turn[p] BY <2>2
  <2>3. CASE turn'[p] = NoTurn /\ turn[p].at \in {"managed", "direct"} BY <2>3 DEF NoTurn
  <2>4. CASE turn'[p] = [turn[p] EXCEPT !.known = FALSE] BY <2>1, <2>4 DEF Turns
  <2> QED BY <2>2, <2>3, <2>4 DEF Tame
<1>7. Busy'
  <2>1. hub.profile \in Profiles BY HubTypes
  <2> QED BY <2>1, <1>5, <1>6 DEF Busy, Tame
<1>8. ASSUME NEW i \in DOMAIN hubs PROVE Sent(i)'
  <2> DEFINE p == hubs[i].profile
  <2>1. hubs[i].profile \in Profiles BY HubTypes
  <2>2. TameHub(hubs[i], hubs'[i]) BY <1>2
  <2>3. Sent(i) OBVIOUS
  <2>4. Single(hubs'[i].queue, "turn") BY <2>2, <2>3 DEF Sent, TameHub
  <2>5. In(hubs'[i].queue, "turn") => turn'[p].at = "queued" /\ turn'[p].hub = i
    <3>1. In(hubs'[i].queue, "turn") => turn[p].at = "queued" /\ turn[p].hub = i
      BY <2>2, <2>3 DEF Sent, TameHub
    <3> QED BY <3>1, <2>1, <1>6
  <2>6. turn'[p].known /\ turn'[p].hub = i =>
          Behind(hubs'[i].queue) /\ (turn'[p].at = "direct" => ~In(hubs'[i].queue, "reconnect"))
    BY <2>1, <2>2, <2>3, <1>6 DEF Sent, TameHub
  <2> QED BY <2>4, <2>5, <2>6, <1>3 DEF Sent, Single, In, Behind
<1>9. ASSUME NEW p \in Profiles PROVE Known(p)'
  <2>1. Known(p) OBVIOUS
  <2> QED BY <2>1, <1>1, <1>3, <1>6 DEF Known
<1> QED BY <1>1, <1>7, <1>8, <1>9

---------------------------------------------------------------------------
(* The steps that do neither.                                              *)

LEMMA CalmAndTame ==
    ASSUME IInv, Typed', Calm, Tame, HealthyHostSpared'
    PROVE  Safely
BY CalmKeeps, TameKeeps DEF IInv, Safely

\* What may become of a hub in a step that starts or ends no restart, and
\* that sends no turn and no reconnect.
Moved(g, h) ==
    /\ h.profile = g.profile
    /\ \/ h.queue = g.queue
       \/ Added(g.queue, h.queue, {"enable", "disable", "refresh", "shutdown"})
       \/ Taken(g.queue, h.queue, NoRestart)
    /\ h.events = g.events \/ Emitted(g.events, h.events, NoRestart)

\* The first event of the active hub is that it is connected.
Quiet(i) == i = active /\ hubs[i].events = <<>> /\ hubs[i].conn = "down" /\ \A t \in tasks : t.hub # i
ReadyFirst(h) ==
    \/ h.events = <<>> /\ h.conn = "down"
    \/ h.events # <<>> /\ Head(h.events).kind = "ready"

\* The tasks change, and no restart among them.
TasksMove ==
    /\ RestartTasks' = RestartTasks /\ tasks' \subseteq Spawns
    /\ \A t \in tasks' : \/ \E u \in tasks : u.hub = t.hub
                         \/ t.hub \in DOMAIN hubs /\ hubs[t.hub].conn # "down"

\* Turns only end.
TurnsEnd ==
    /\ turn' \in [Profiles -> Turns]
    /\ \A p \in Profiles : turn'[p] = turn[p] \/ (turn'[p] = NoTurn /\ turn[p].at \in {"managed", "direct"})

\* The controller forgets no restart and no turn.
ControlKept ==
    /\ ctl' \in Controls /\ ctl'.inProgress = ctl.inProgress /\ ctl'.cool = ctl.cool
    /\ ctl.busy => ctl'.busy
    /\ ctl'.pending /\ ctl'.remote = "connected" => ctl.pending /\ ctl.remote = "connected"

DaemonType == daemon \in [Profiles -> [service : BOOLEAN, health : Values]]

LEMMA HubsStepSafe ==
    ASSUME IInv, hubs' \in Seq(Hubs), Len(hubs') = Len(hubs),
           \A j \in DOMAIN hubs : Moved(hubs[j], hubs'[j]) /\ (Quiet(j) => ReadyFirst(hubs'[j])),
           ControlKept, since' = since, TasksMove, TurnsEnd, DaemonType'
    PROVE  Safely
<1>1. Typed BY DEF IInv
<1>2. /\ DOMAIN hubs = 1..Len(hubs) /\ Len(hubs) \in Nat /\ active \in DOMAIN hubs
      /\ \A j \in DOMAIN hubs :
           /\ hubs[j] \in Hubs /\ hubs[j].profile \in Profiles
           /\ hubs[j].queue \in Seq(Commands) /\ hubs[j].events \in Seq(Events)
  BY <1>1, HubTypes
<1>3. DOMAIN hubs' = DOMAIN hubs /\ hubs' # <<>> BY <1>2
<1>4. RestartTasks' = RestartTasks /\ tasks' \subseteq Spawns /\ \A t \in tasks' : t.hub \in DOMAIN hubs
  BY <1>1 DEF TasksMove, Typed
<1>5. Typed' BY <1>1, <1>3, <1>4 DEF Typed, TurnsEnd, DaemonType, ControlKept
<1>6. ASSUME NEW j \in DOMAIN hubs PROVE CalmHub(hubs[j], hubs'[j]) /\ TameHub(hubs[j], hubs'[j])
  <2> DEFINE g == hubs[j]
             h == hubs'[j]
  <2>1. Moved(g, h) /\ g.queue \in Seq(Commands) /\ g.events \in Seq(Events) BY <1>2
  <2> HIDE DEF g, h
  <2>2. h.queue = g.queue \/ Added(g.queue, h.queue, NoRestart) \/ Taken(g.queue, h.queue, NoRestart)
    BY <2>1 DEF Moved, Added, NoRestart
  <2>3. h.events = g.events \/ Emitted(g.events, h.events, NoRestart) BY <2>1 DEF Moved
  <2>4. CalmHub(g, h) BY <2>1, <2>2, <2>3, CalmQueue, CalmEvents DEF CalmHub, Moved
  <2>5. \/ h.queue = g.queue \/ Added(g.queue, h.queue, Works \cup {"shutdown"})
        \/ (g.queue # <<>> /\ h.queue = Tail(g.queue))
    BY <2>1 DEF Moved, Added, Taken, Works
  <2>6. TameHub(g, h) BY <2>1, <2>5, TameQueue DEF TameHub, Moved
  <2> QED BY <2>4, <2>6 DEF g, h
<1>7. \A p \in Profiles : turn'[p].known => turn[p].known BY DEF TurnsEnd, NoTurn
<1>8. Calm BY <1>3, <1>4, <1>6, <1>7 DEF Calm, ControlKept
<1>9. active' = active BY DEF active
<1>10. ASSUME Fresh PROVE Fresh'
  <2>1. hub = hubs[active] /\ hub' = hubs'[active] BY <1>9 DEF hub
  <2>2. CASE hub.events # <<>>
    <3>1. Moved(hub, hub') /\ hub.events \in Seq(Events) BY <1>2, <2>1
    <3>2. Head(hub'.events) = Head(hub.events) /\ hub'.events # <<>>
      BY <2>2, <3>1 DEF Moved, Emitted
    <3> QED BY <2>2, <3>2, <1>10 DEF Fresh
  <2>3. CASE hub.events = <<>>
    <3>1. Quiet(active) BY <2>1, <2>3, <1>10 DEF Fresh, Quiet
    <3>2. ReadyFirst(hub') BY <3>1, <2>1, <1>2
    <3>3. \A t \in tasks' : t.hub # active BY <3>1 DEF TasksMove, Quiet
    <3> QED BY <3>2, <3>3, <1>9 DEF ReadyFirst, Fresh
  <2> QED BY <2>2, <2>3
<1>11. Tame BY <1>3, <1>6, <1>10 DEF Tame, TurnsEnd, ControlKept
<1>12. HealthyHostSpared' BY DEF IInv, HealthyHostSpared, active, ControlKept
<1> QED BY <1>5, <1>8, <1>11, <1>12, CalmAndTame

\* The same for a step of one hub.
LEMMA HubStepSafe ==
    ASSUME IInv, NEW i \in DOMAIN hubs, NEW h \in Hubs, hubs' = [hubs EXCEPT ![i] = h],
           Moved(hubs[i], h), Quiet(i) => ReadyFirst(h),
           ControlKept, since' = since, TasksMove, TurnsEnd, DaemonType'
    PROVE  Safely
<1>1. Typed BY DEF IInv
<1>2. Becomes(i, h) BY <1>1, HubBecomes
<1>3. \A j \in DOMAIN hubs : Moved(hubs[j], hubs'[j]) /\ (Quiet(j) => ReadyFirst(hubs'[j]))
  BY <1>2 DEF Becomes, Moved, Quiet, ReadyFirst
<1> QED BY <1>2, <1>3, HubsStepSafe DEF Becomes

LEMMA NothingElse ==
    ASSUME IInv
    PROVE  /\ tasks' = tasks => TasksMove
           /\ turn' = turn => TurnsEnd
           /\ daemon' = daemon => DaemonType'
           /\ ctl' = ctl => ControlKept
           /\ \A is : tasks' = Unanswered(is) => TasksMove
<1>1. Typed BY DEF IInv
<1>2. tasks' \subseteq tasks => tasks' \subseteq Spawns /\ \A t \in tasks' : \E u \in tasks : u.hub = t.hub
  BY <1>1 DEF Typed
<1>3. tasks' = tasks => TasksMove BY <1>2 DEF TasksMove, RestartTasks
<1>4. ASSUME NEW is, tasks' = Unanswered(is) PROVE TasksMove
  BY <1>2, <1>4 DEF TasksMove, RestartTasks, Unanswered
<1> QED BY <1>1, <1>3, <1>4 DEF Typed, TurnsEnd, DaemonType, ControlKept

LEMMA Overwritten ==
    ASSUME NEW s, NEW i \in DOMAIN s, NEW a, NEW b
    PROVE  [[s EXCEPT ![i] = a] EXCEPT ![i] = b] = [s EXCEPT ![i] = b]
OBVIOUS

\* An event for the active hub is queued; for another it is dropped.
LEMMA EmitHub ==
    ASSUME NEW hs \in Seq(Hubs), NEW i \in DOMAIN hs, NEW e \in Events
    PROVE  /\ Emit(hs, i, e) \in Seq(Hubs) /\ Len(Emit(hs, i, e)) = Len(hs)
           /\ DOMAIN Emit(hs, i, e) = DOMAIN hs
           /\ i = Len(hs) => Emit(hs, i, e)[i].events = Append(hs[i].events, e)
           /\ i # Len(hs) => Emit(hs, i, e)[i].events = hs[i].events
           /\ Emit(hs, i, e)[i].profile = hs[i].profile /\ Emit(hs, i, e)[i].queue = hs[i].queue
           /\ Emit(hs, i, e)[i].conn = hs[i].conn
           /\ \A j \in DOMAIN hs \ {i} : Emit(hs, i, e)[j] = hs[j]
<1>1. CASE i # Len(hs)
  <2>1. Emit(hs, i, e) = hs BY <1>1 DEF Emit
  <2> QED BY <2>1, <1>1
<1>2. CASE i = Len(hs)
  <2> DEFINE h == [hs[i] EXCEPT !.events = Append(hs[i].events, e)]
  <2>1. hs[i] \in Hubs OBVIOUS
  <2>2. hs[i].events \in Seq(Events) BY <2>1 DEF Hubs
  <2>3. Append(hs[i].events, e) \in Seq(Events) BY <2>2
  <2>4. /\ h \in Hubs /\ h.events = Append(hs[i].events, e) /\ h.profile = hs[i].profile
        /\ h.queue = hs[i].queue /\ h.conn = hs[i].conn
    BY <2>1, <2>3 DEF Hubs
  <2>5. Emit(hs, i, e) = [hs EXCEPT ![i] = h] BY <1>2 DEF Emit
  <2> HIDE DEF h
  <2>6. [hs EXCEPT ![i] = h] \in Seq(Hubs) /\ Len([hs EXCEPT ![i] = h]) = Len(hs) BY <2>4
  <2> QED BY <1>2, <2>4, <2>5, <2>6
<1> QED BY <1>1, <1>2

\* An event that is not of a restart, for a hub that is connected or about to
\* be told so.
LEMMA EmitSafe ==
    ASSUME IInv, NEW gs \in Seq(Hubs), Len(gs) = Len(hubs), DOMAIN gs = DOMAIN hubs,
           \A j \in DOMAIN hubs : /\ gs[j].profile = hubs[j].profile /\ gs[j].queue = hubs[j].queue
                                 /\ gs[j].events = hubs[j].events,
           NEW i \in DOMAIN hubs, \A j \in DOMAIN hubs \ {i} : gs[j].conn = hubs[j].conn,
           NEW e \in Events, e.kind \in NoRestart, Quiet(i) => e.kind = "ready",
           hubs' = Emit(gs, i, e),
           ControlKept, since' = since, TasksMove, TurnsEnd, DaemonType'
    PROVE  Safely
<1>1. /\ hubs' \in Seq(Hubs) /\ Len(hubs') = Len(hubs)
      /\ i = Len(hubs) => hubs'[i].events = Append(hubs[i].events, e)
      /\ i # Len(hubs) => hubs'[i].events = hubs[i].events
      /\ hubs'[i].profile = hubs[i].profile /\ hubs'[i].queue = hubs[i].queue
      /\ \A j \in DOMAIN hubs \ {i} : hubs'[j] = gs[j]
  <2>1. PICK h : h = Emit(gs, i, e) OBVIOUS
  <2>2. /\ h \in Seq(Hubs) /\ Len(h) = Len(gs)
        /\ i = Len(gs) => h[i].events = Append(gs[i].events, e)
        /\ i # Len(gs) => h[i].events = gs[i].events
        /\ h[i].profile = gs[i].profile /\ h[i].queue = gs[i].queue
        /\ \A j \in DOMAIN gs \ {i} : h[j] = gs[j]
    BY <2>1, EmitHub
  <2> QED BY <2>1, <2>2
<1>2. ASSUME NEW j \in DOMAIN hubs PROVE Moved(hubs[j], hubs'[j]) /\ (Quiet(j) => ReadyFirst(hubs'[j]))
  <2>1. CASE j = i
    <3>1. hubs[i].events \in Seq(Events) BY HubTypes DEF IInv
    <3>2. Moved(hubs[i], hubs'[i]) BY <1>1 DEF Moved, Emitted
    <3>3. ASSUME Quiet(i) PROVE ReadyFirst(hubs'[i])
      <4>1. i = Len(hubs) /\ hubs[i].events = <<>> BY <3>3 DEF Quiet, active
      <4>2. hubs'[i].events = Append(hubs[i].events, e) BY <4>1, <1>1
      <4>3. Append(<<>>, e) # <<>> /\ Head(Append(<<>>, e)) = e OBVIOUS
      <4>4. hubs'[i].events # <<>> /\ Head(hubs'[i].events) = e BY <4>1, <4>2, <4>3
      <4> QED BY <3>3, <4>4 DEF ReadyFirst
    <3> QED BY <2>1, <3>2, <3>3
  <2>2. CASE j # i
    <3>1. hubs'[j] = gs[j] BY <2>2, <1>1
    <3>2. hubs'[j].events = hubs[j].events /\ hubs'[j].conn = hubs[j].conn BY <2>2, <3>1
    <3>3. Moved(hubs[j], hubs'[j]) BY <3>1, <3>2 DEF Moved
    <3> QED BY <3>2, <3>3 DEF Quiet, ReadyFirst
  <2> QED BY <2>1, <2>2
<1> QED BY <1>1, <1>2, HubsStepSafe

LEMMA ConnectSafe == ASSUME IInv, NEW i \in DOMAIN hubs, Connect(i) PROVE Safely
<1> DEFINE managed == daemon[hubs[i].profile].health # "off"
           hung    == daemon[hubs[i].profile].health = "hung"
           e == [kind |-> "ready", value |-> "none"]
           g == [hubs[i] EXCEPT !.managed = managed]
           f == [g EXCEPT !.conn = IF managed THEN "managed" ELSE "direct"]
<1>1. Typed BY DEF IInv
<1>2. hubs \in Seq(Hubs) /\ hubs[i] \in Hubs BY <1>1, HubTypes DEF Typed
<1>3. e \in Events /\ e.kind = "ready" BY DEF Events, Values
<1>4. g \in Hubs /\ f \in Hubs BY <1>2 DEF Hubs
<1>5. /\ g.profile = hubs[i].profile /\ g.queue = hubs[i].queue /\ g.events = hubs[i].events /\ g.conn = hubs[i].conn
      /\ f.profile = hubs[i].profile /\ f.queue = hubs[i].queue /\ f.events = hubs[i].events
  BY <1>2 DEF Hubs
<1>6. UNCHANGED <<ctl, tasks, daemon, turn, since>> BY DEF Connect
<1>7. CASE hung
  <2>1. hubs' = [hubs EXCEPT ![i] = g] BY <1>7 DEF Connect
  <2> HIDE DEF g
  <2>2. Moved(hubs[i], g) /\ (Quiet(i) => ReadyFirst(g)) BY <1>5 DEF Moved, Quiet, ReadyFirst
  <2> QED BY <2>1, <2>2, <1>4, <1>6, HubStepSafe, NothingElse
<1>8. CASE ~hung
  <2> DEFINE ms == [hubs EXCEPT ![i] = g]
             gs == [hubs EXCEPT ![i] = f]
  <2>1. hubs' = Emit([ms EXCEPT ![i].conn = IF managed THEN "managed" ELSE "direct"], i, e)
    BY <1>8 DEF Connect
  <2>2. i \in DOMAIN ms /\ ms[i] = g OBVIOUS
  <2>3. [ms EXCEPT ![i].conn = IF managed THEN "managed" ELSE "direct"] = [ms EXCEPT ![i] = f]
    BY <2>2
  <2> HIDE DEF g, f, e
  <2>4. hubs' = Emit(gs, i, e) BY <2>1, <2>3, Overwritten
  <2>5. gs \in Seq(Hubs) /\ Len(gs) = Len(hubs) /\ DOMAIN gs = DOMAIN hubs BY <1>2, <1>4
  <2>6. gs[i] = f /\ \A j \in DOMAIN hubs \ {i} : gs[j] = hubs[j] OBVIOUS
  <2>7. \A j \in DOMAIN hubs : /\ gs[j].profile = hubs[j].profile /\ gs[j].queue = hubs[j].queue
                               /\ gs[j].events = hubs[j].events
    BY <2>6, <1>5
  <2>8. \A j \in DOMAIN hubs \ {i} : gs[j].conn = hubs[j].conn BY <2>6
  <2>9. e.kind \in NoRestart BY <1>3 DEF NoRestart
  <2> HIDE DEF gs
  <2> QED BY <2>4, <2>5, <2>7, <2>8, <2>9, <1>3, <1>6, EmitSafe, NothingElse
<1> QED BY <1>7, <1>8

LEMMA GoStaleSafe == ASSUME IInv, NEW i \in DOMAIN hubs, GoStale(i) PROVE Safely
<1> DEFINE h == [hubs[i] EXCEPT !.conn = "down"]
<1>1. Typed BY DEF IInv
<1>2. hubs[i] \in Hubs BY <1>1, HubTypes
<1>3. /\ h \in Hubs /\ h.profile = hubs[i].profile /\ h.queue = hubs[i].queue
      /\ h.events = hubs[i].events /\ h.conn = "down"
  BY <1>2 DEF Hubs
<1>4. hubs' = [hubs EXCEPT ![i] = h] /\ hubs[i].conn = "managed" BY DEF GoStale
<1>5. tasks' = Unanswered({i}) /\ UNCHANGED <<ctl, daemon, turn, since>> BY DEF GoStale
<1> HIDE DEF h
<1>6. Moved(hubs[i], h) /\ (Quiet(i) => ReadyFirst(h)) BY <1>3, <1>4 DEF Moved, Quiet, ReadyFirst
<1> QED BY <1>3, <1>4, <1>5, <1>6, HubStepSafe, NothingElse

LEMMA CompleteSafe == ASSUME IInv, NEW i \in DOMAIN hubs, Complete(i) PROVE Safely
<1> DEFINE e == [kind |-> "completed", value |-> "none"]
           p == hubs[i].profile
<1>1. Typed BY DEF IInv
<1>2. hubs \in Seq(Hubs) /\ p \in Profiles BY <1>1, HubTypes DEF Typed
<1>3. e \in Events /\ e.kind \in NoRestart BY DEF Events, Values, NoRestart
<1>4. /\ hubs[i].conn # "down" /\ turn' = [turn EXCEPT ![p] = NoTurn] /\ turn[p].at \in {"managed", "direct"}
      /\ hubs' = Emit(hubs, i, e) /\ UNCHANGED <<ctl, tasks, daemon, since>>
  BY DEF Complete, Direct
<1>5. turn \in [Profiles -> Turns] /\ NoTurn \in Turns BY <1>1 DEF Typed, NoTurn, Turns
<1>6. /\ turn' \in [Profiles -> Turns] /\ turn'[p] = NoTurn /\ \A q \in Profiles \ {p} : turn'[q] = turn[q]
  BY <1>2, <1>4, <1>5
<1>7. TurnsEnd BY <1>4, <1>6 DEF TurnsEnd
<1>8. ~Quiet(i) BY <1>4 DEF Quiet
<1> HIDE DEF e
<1> QED BY <1>2, <1>3, <1>4, <1>7, <1>8, EmitSafe, NothingElse

\* A hub that takes the next command, for what is not a turn or a restart.
LEMMA TakeQuietSafe ==
    ASSUME IInv, NEW i \in DOMAIN hubs, Take(i), Head(hubs[i].queue).kind \notin {"turn", "restart"}
    PROVE  Safely
<1> DEFINE g == hubs[i]
           c == Head(g.queue)
           p == g.profile
           rest == [g EXCEPT !.queue = Tail(g.queue)]
           h(conn) == [rest EXCEPT !.conn = conn]
           task == [hub |-> i, kind |-> c.kind, auto |-> c.auto, result |-> "none",
                    shared |-> g.conn = "managed"]
<1>1. Typed BY DEF IInv
<1>2. g \in Hubs /\ p \in Profiles /\ g.queue \in Seq(Commands) /\ g.events \in Seq(Events) /\ i \in Nat
  BY <1>1, HubTypes
<1>3. g.queue # <<>> /\ g.conn \in {"direct", "managed"} /\ UNCHANGED <<ctl, daemon, since>> BY DEF Take
<1>4. c \in Commands /\ Tail(g.queue) \in Seq(Commands) BY <1>2, <1>3
<1>5. c.kind \in NoRestart /\ c.kind # "restart" /\ ~c.auto BY <1>4 DEF Commands, NoRestart, Works
<1>6. /\ rest \in Hubs /\ rest.profile = p /\ rest.queue = Tail(g.queue) /\ rest.events = g.events
      /\ rest.conn = g.conn
  BY <1>2, <1>4 DEF Hubs
<1>7. \A conn \in {"closed", "down"} :
        /\ h(conn) \in Hubs /\ h(conn).profile = p /\ h(conn).queue = Tail(g.queue)
        /\ h(conn).events = g.events
  BY <1>6 DEF Hubs
<1>8. ~Quiet(i) BY <1>3 DEF Quiet
<1>9. CASE c.kind \in Works
  <2>1. hubs' = [hubs EXCEPT ![i] = rest] /\ turn' = turn
    BY <1>9 DEF Take, Works
  <2>2. tasks' = tasks \/ tasks' = tasks \cup {task}
    <3> DEFINE same == task.kind = "refresh" /\ task.shared
                       /\ \E t \in tasks : t.hub = i /\ t.kind = "refresh" /\ t.shared
    <3>1. tasks' = IF same THEN tasks ELSE tasks \cup {task} BY <1>9 DEF Take, Works
    <3> HIDE DEF task
    <3> QED BY <3>1
  <2>3. task \in Spawns /\ task.kind # "restart" /\ task.hub = i
    <3>1. c.auto \in BOOLEAN BY <1>4 DEF Commands
    <3>2. "none" \in Values /\ (g.conn = "managed") \in BOOLEAN BY DEF Values
    <3> HIDE DEF c, g, p
    <3> QED BY <3>1, <3>2, <1>2, <1>5, <1>9 DEF Spawns
  <2> HIDE DEF task, rest, g, c, p
  <2>4. TasksMove
    <3>1. tasks' \subseteq Spawns BY <1>1, <2>2, <2>3 DEF Typed
    <3>2. RestartTasks' = RestartTasks BY <2>2, <2>3 DEF RestartTasks
    <3>3. \A t \in tasks' : t \in tasks \/ t.hub = i BY <2>2, <2>3
    <3> QED BY <3>1, <3>2, <3>3, <1>3 DEF TasksMove, g
  <2>5. Moved(hubs[i], rest)
    BY <1>3, <1>5, <1>6 DEF Moved, Taken, g, c, p
  <2> QED BY <2>1, <2>4, <2>5, <1>3, <1>6, <1>8, HubStepSafe, NothingElse
<1>10. CASE c.kind \notin Works
  <2>1. c.kind \in {"reconnect", "shutdown"} BY <1>4, <1>5, <1>10 DEF Commands
  <2>2. /\ tasks' = Unanswered({i})
        /\ turn' = IF Direct(p, i) THEN [turn EXCEPT ![p] = NoTurn] ELSE turn
    BY <2>1 DEF Take
  <2>3. PICK conn \in {"closed", "down"} : conn = IF c.kind = "shutdown" THEN "closed" ELSE "down"
    OBVIOUS
  <2>4. hubs' = [hubs EXCEPT ![i] = h(conn)]
    <3> DEFINE rs == [hubs EXCEPT ![i].queue = Tail(@)]
    <3>1. hubs' = [rs EXCEPT ![i].conn = conn] BY <2>1, <2>3 DEF Take
    <3>2. rs = [hubs EXCEPT ![i] = rest] OBVIOUS
    <3>3. i \in DOMAIN rs /\ rs[i] = rest BY <3>2
    <3>4. hubs' = [rs EXCEPT ![i] = h(conn)] BY <3>1, <3>3
    <3> HIDE DEF rs, rest, h
    <3> QED BY <3>2, <3>4, Overwritten
  <2>5. PICK hh : hh = h(conn) OBVIOUS
  <2>6. /\ hh \in Hubs /\ hh.profile = p /\ hh.queue = Tail(g.queue) /\ hh.events = g.events
        /\ hubs' = [hubs EXCEPT ![i] = hh]
    BY <2>3, <2>4, <2>5, <1>7
  <2>7. TurnsEnd
    <3>1. turn \in [Profiles -> Turns] /\ NoTurn \in Turns BY <1>1 DEF Typed, NoTurn, Turns
    <3>2. Direct(p, i) => turn[p].at = "direct" BY DEF Direct
    <3> QED BY <1>2, <2>2, <3>1, <3>2 DEF TurnsEnd
  <2>8. Moved(hubs[i], hh) BY <1>3, <1>5, <2>6 DEF Moved, Taken
  <2> HIDE DEF h, rest, task
  <2> QED BY <2>2, <2>6, <2>7, <2>8, <1>3, <1>8, HubStepSafe, NothingElse
<1> QED BY <1>9, <1>10

\* A turn taken from the queue is where the hub is connected, and no reconnect
\* waits behind it if it is known of.
LEMMA TakeTurnSafe ==
    ASSUME IInv, NEW i \in DOMAIN hubs, Take(i), Head(hubs[i].queue).kind = "turn"
    PROVE  Safely
<1> DEFINE g == hubs[i]
           c == Head(g.queue)
           p == g.profile
           h == [g EXCEPT !.queue = Tail(g.queue)]
<1>1. Typed /\ Turned BY DEF IInv
<1>2. g \in Hubs /\ p \in Profiles /\ g.queue \in Seq(Commands) /\ g.events \in Seq(Events) /\ i \in Nat
  BY <1>1, HubTypes
<1>3. /\ g.queue # <<>> /\ g.conn \in {"direct", "managed"} /\ UNCHANGED <<ctl, tasks, daemon, since>>
      /\ hubs' = [hubs EXCEPT ![i].queue = Tail(@)] /\ turn' = [turn EXCEPT ![p].at = g.conn]
  BY DEF Take
<1>4. c \in Commands /\ Tail(g.queue) \in Seq(Commands) BY <1>2, <1>3
<1>5. /\ h \in Hubs /\ h.profile = p /\ h.queue = Tail(g.queue) /\ h.events = g.events /\ h.conn = g.conn
      /\ hubs' = [hubs EXCEPT ![i] = h]
  BY <1>2, <1>3, <1>4 DEF Hubs
<1>6. Becomes(i, h) BY <1>1, <1>5, HubBecomes
<1>7. /\ turn \in [Profiles -> Turns] /\ turn' \in [Profiles -> Turns]
      /\ turn'[p].at = g.conn /\ turn'[p].hub = turn[p].hub /\ turn'[p].known = turn[p].known
      /\ \A q \in Profiles \ {p} : turn'[q] = turn[q]
  BY <1>1, <1>2, <1>3 DEF Typed, Turns
<1> HIDE DEF h
<1>8. Typed' BY <1>1, <1>3, <1>6, <1>7 DEF Typed, Becomes
<1>9. Moved(g, h) BY <1>3, <1>5 DEF Moved, Taken, NoRestart
<1>10. Calm
  <2>1. CalmHub(g, h)
    <3>1. h.queue = g.queue \/ Added(g.queue, h.queue, NoRestart) \/ Taken(g.queue, h.queue, NoRestart)
      BY <1>3, <1>5 DEF Taken, NoRestart
    <3> QED BY <3>1, <1>2, <1>5, CalmQueue, CalmEvents DEF CalmHub
  <2>2. \A j \in DOMAIN hubs : CalmHub(hubs[j], hubs'[j]) BY <2>1, <1>6 DEF Becomes, CalmHub
  <2>3. \A q \in Profiles : turn'[q].known = turn[q].known BY <1>7
  <2> QED BY <2>2, <2>3, <1>3, <1>6 DEF Calm, Becomes, RestartTasks
<1>11. In(g.queue, "turn") /\ Single(g.queue, "turn") /\ turn[p].at = "queued" /\ turn[p].hub = i
  <2>1. In(g.queue, "turn")
    <3>1. 1 \in DOMAIN g.queue /\ g.queue[1] = c BY <1>2, <1>3
    <3> QED BY <3>1 DEF In
  <2> QED BY <2>1, <1>1 DEF Turned, Sent
<1>12. ~In(h.queue, "turn") /\ Single(h.queue, "turn") BY <1>2, <1>3, <1>5, <1>11, InTail
<1>13. ASSUME NEW j \in DOMAIN hubs PROVE Sent(j)'
  <2>1. Sent(j) /\ hubs[j].profile \in Profiles BY <1>1, HubTypes DEF Turned
  <2>2. CASE j = i
    <3>1. hubs'[j] = h BY <1>6, <2>2 DEF Becomes
    <3>2. turn[p].known => Behind(g.queue)
      <4>1. Sent(i) BY <2>1, <2>2
      <4> QED BY <4>1, <1>11 DEF Sent
    <3>3. Behind(g.queue) => Behind(h.queue) /\ ~In(h.queue, "reconnect")
      <4>1. Head(g.queue).kind = "turn" OBVIOUS
      <4> HIDE DEF g, c
      <4>2. Behind(g.queue) => Behind(Tail(g.queue)) BY <1>2, <1>3, InTail
      <4>3. Behind(g.queue) => ~In(Tail(g.queue), "reconnect") BY <4>1, <1>2, <1>3, InTail
      <4> QED BY <4>2, <4>3, <1>5
    <3>4. /\ Single(hubs'[j].queue, "turn") /\ ~In(hubs'[j].queue, "turn")
          /\ turn'[p].known => Behind(hubs'[j].queue) /\ ~In(hubs'[j].queue, "reconnect")
      BY <3>1, <3>2, <3>3, <1>7, <1>12
    <3> QED BY <3>1, <3>4, <1>5 DEF Sent, In, Single, Behind
  <2>3. CASE j # i
    <3>1. hubs'[j] = hubs[j] BY <1>6, <2>3 DEF Becomes
    <3>2. CASE hubs[j].profile = p
      <4>1. ~In(hubs[j].queue, "turn") /\ Single(hubs[j].queue, "turn") BY <2>1, <2>3, <3>2, <1>11 DEF Sent
      <4>2. turn'[p].hub # j BY <2>3, <1>7, <1>11
      <4>3. Single(hubs'[j].queue, "turn") /\ ~In(hubs'[j].queue, "turn") /\ hubs'[j].profile = p
        BY <4>1, <3>1, <3>2
      <4> QED BY <4>2, <4>3 DEF Sent, In, Single, Behind
    <3>3. CASE hubs[j].profile # p
      <4>1. turn'[hubs[j].profile] = turn[hubs[j].profile] BY <2>1, <3>3, <1>7
      <4> QED BY <4>1, <2>1, <3>1 DEF Sent, In, Single, Behind
    <3> QED BY <3>2, <3>3
  <2> QED BY <2>2, <2>3
<1>14. active' = active /\ \A j \in DOMAIN hubs : hubs'[j].profile = hubs[j].profile
  BY <1>5, <1>6 DEF Becomes, active
<1>15. ASSUME NEW q \in Profiles PROVE Known(q)'
  <2>1. Known(q) BY <1>1 DEF Turned
  <2>2. turn'[q].at = turn[q].at \/ turn'[q].at # "none" BY <1>3, <1>7
  <2>3. turn'[q].hub = turn[q].hub /\ turn'[q].known = turn[q].known BY <1>7
  <2> QED BY <2>1, <2>2, <2>3, <1>6, <1>14 DEF Known, Becomes
<1>16. Busy'
  <2>1. hub'.profile = hub.profile /\ hub.profile \in Profiles BY <1>1, <1>14, HubTypes DEF hub
  <2>2. hub'.events = hub.events /\ hub'.conn = hub.conn
    BY <1>1, <1>5, <1>6, <1>14, HubTypes DEF hub, Becomes
  <2>3. Fresh' = Fresh BY <1>3, <1>14, <2>2 DEF Fresh
  <2> QED BY <1>1, <1>3, <1>7, <2>1, <2>3 DEF Turned, Busy
<1>17. Turned' BY <1>6, <1>13, <1>15, <1>16 DEF Turned, Becomes
<1>18. HealthyHostSpared' BY <1>3, <1>14 DEF IInv, HealthyHostSpared
<1> QED BY <1>8, <1>10, <1>17, <1>18, CalmKeeps DEF IInv, Safely

---------------------------------------------------------------------------
(* Steps that move a restart.                                              *)

\* The other hubs keep what they hold.
OthersHold(i) ==
    /\ DOMAIN hubs' = DOMAIN hubs
    /\ \A j \in DOMAIN hubs \ {i} : hubs'[j].queue = hubs[j].queue /\ hubs'[j].events = hubs[j].events

LEMMA PlacesMove ==
    ASSUME NEW i \in DOMAIN hubs, OthersHold(i)
    PROVE  /\ QueueAt' = IF In(hubs'[i].queue, "restart") THEN QueueAt \cup {i} ELSE QueueAt \ {i}
           /\ EventAt' = IF In(hubs'[i].events, "restart") THEN EventAt \cup {i} ELSE EventAt \ {i}
<1>1. DOMAIN hubs' = DOMAIN hubs BY DEF OthersHold
<1>2. \A j \in DOMAIN hubs \ {i} : /\ In(hubs'[j].queue, "restart") <=> In(hubs[j].queue, "restart")
                                   /\ In(hubs'[j].events, "restart") <=> In(hubs[j].events, "restart")
  BY DEF OthersHold
<1>3. {j \in DOMAIN hubs' : In(hubs'[j].queue, "restart")}
        = IF In(hubs'[i].queue, "restart") THEN QueueAt \cup {i} ELSE QueueAt \ {i}
  <2> DEFINE s == {j \in DOMAIN hubs' : In(hubs'[j].queue, "restart")}
  <2>1. ASSUME NEW j \in DOMAIN hubs \ {i} PROVE j \in s <=> j \in QueueAt
    <3>1. In(hubs'[j].queue, "restart") <=> In(hubs[j].queue, "restart") BY <1>2
    <3>2. j \in s <=> In(hubs'[j].queue, "restart") BY <1>1
    <3>3. j \in QueueAt <=> In(hubs[j].queue, "restart") BY DEF QueueAt
    <3> QED BY <3>1, <3>2, <3>3
  <2>2. i \in s <=> In(hubs'[i].queue, "restart") BY <1>1
  <2>3. s \subseteq DOMAIN hubs /\ QueueAt \subseteq DOMAIN hubs BY <1>1 DEF QueueAt
  <2> HIDE DEF s
  <2>4. CASE In(hubs'[i].queue, "restart")
    <3>1. s = QueueAt \cup {i} BY <2>1, <2>2, <2>3, <2>4
    <3> QED BY <3>1, <2>4 DEF s
  <2>5. CASE ~In(hubs'[i].queue, "restart")
    <3>1. s = QueueAt \ {i} BY <2>1, <2>2, <2>3, <2>5
    <3> QED BY <3>1, <2>5 DEF s
  <2> QED BY <2>4, <2>5
<1>4. {j \in DOMAIN hubs' : In(hubs'[j].events, "restart")}
        = IF In(hubs'[i].events, "restart") THEN EventAt \cup {i} ELSE EventAt \ {i}
  <2> DEFINE s == {j \in DOMAIN hubs' : In(hubs'[j].events, "restart")}
  <2>1. ASSUME NEW j \in DOMAIN hubs \ {i} PROVE j \in s <=> j \in EventAt
    <3>1. In(hubs'[j].events, "restart") <=> In(hubs[j].events, "restart") BY <1>2
    <3>2. j \in s <=> In(hubs'[j].events, "restart") BY <1>1
    <3>3. j \in EventAt <=> In(hubs[j].events, "restart") BY DEF EventAt
    <3> QED BY <3>1, <3>2, <3>3
  <2>2. i \in s <=> In(hubs'[i].events, "restart") BY <1>1
  <2>3. s \subseteq DOMAIN hubs /\ EventAt \subseteq DOMAIN hubs BY <1>1 DEF EventAt
  <2> HIDE DEF s
  <2>4. CASE In(hubs'[i].events, "restart")
    <3>1. s = EventAt \cup {i} BY <2>1, <2>2, <2>3, <2>4
    <3> QED BY <3>1, <2>4 DEF s
  <2>5. CASE ~In(hubs'[i].events, "restart")
    <3>1. s = EventAt \ {i} BY <2>1, <2>2, <2>3, <2>5
    <3> QED BY <3>1, <2>5 DEF s
  <2> QED BY <2>4, <2>5
<1> QED BY <1>3, <1>4 DEF QueueAt, EventAt, In

\* Without a restart anywhere, nothing is automatic.
LEMMA AutosRestart ==
    ASSUME NEW q \in Seq(Commands), Autos(q)
    PROVE  In(q, "restart")
<1>1. PICK n \in DOMAIN q : q[n].auto BY DEF Autos
<1>2. q[n] \in Commands BY <1>1
<1> QED BY <1>1, <1>2 DEF Commands, In

\* Each hub as the steps of hubs, tasks and daemons leave it.
Advances(g, h) ==
    /\ h.profile = g.profile
    /\ h.queue = g.queue \/ Added(g.queue, h.queue, Works \cup {"shutdown"})
       \/ (g.queue # <<>> /\ h.queue = Tail(g.queue))
    /\ h.events = g.events \/ Emitted(g.events, h.events, Works \cup {"ready", "completed"})
\* Turns only end or are no longer known of.
TurnsFade ==
    \A p \in Profiles : \/ turn'[p] = turn[p]
                        \/ turn'[p] = NoTurn /\ turn[p].at \in {"managed", "direct"}
                        \/ turn'[p] = [turn[p] EXCEPT !.known = FALSE]
TasksBeside ==
    \A t \in tasks' : \/ \E u \in tasks : u.hub = t.hub
                      \/ t.hub \in DOMAIN hubs /\ hubs[t.hub].conn # "down"

LEMMA TameStep ==
    ASSUME IInv, Len(hubs') = Len(hubs), DOMAIN hubs' = DOMAIN hubs,
           \A j \in DOMAIN hubs : Advances(hubs[j], hubs'[j]) /\ (Quiet(j) => ReadyFirst(hubs'[j])),
           TasksBeside, ctl.busy => ctl'.busy, TurnsFade
    PROVE  Tame
<1>1. Typed BY DEF IInv
<1>2. /\ active \in DOMAIN hubs
      /\ \A j \in DOMAIN hubs : hubs[j].queue \in Seq(Commands) /\ hubs[j].events \in Seq(Events)
  BY <1>1, HubTypes
<1>3. ASSUME NEW j \in DOMAIN hubs PROVE TameHub(hubs[j], hubs'[j])
  BY <1>2, TameQueue DEF TameHub, Advances
<1>4. active' = active BY DEF active
<1>5. ASSUME Fresh PROVE Fresh'
  <2>1. hub = hubs[active] /\ hub' = hubs'[active] BY <1>4 DEF hub
  <2>2. CASE hub.events # <<>>
    <3>1. Advances(hub, hub') /\ hub.events \in Seq(Events) BY <1>2, <2>1
    <3>2. Head(hub'.events) = Head(hub.events) /\ hub'.events # <<>>
      BY <2>2, <3>1 DEF Advances, Emitted
    <3> QED BY <2>2, <3>2, <1>5 DEF Fresh
  <2>3. CASE hub.events = <<>>
    <3>1. Quiet(active) BY <2>1, <2>3, <1>5 DEF Fresh, Quiet
    <3>2. ReadyFirst(hub') BY <3>1, <2>1, <1>2
    <3>3. \A t \in tasks' : t.hub # active BY <3>1 DEF TasksBeside, Quiet
    <3> QED BY <3>2, <3>3, <1>4 DEF ReadyFirst, Fresh
  <2> QED BY <2>2, <2>3
<1> QED BY <1>3, <1>5 DEF Tame, TurnsFade

\* A hub that takes a restart from its queue spawns the one task for it.
LEMMA TakeRestartSafe ==
    ASSUME IInv, NEW i \in DOMAIN hubs, Take(i), Head(hubs[i].queue).kind = "restart"
    PROVE  Safely
<1> DEFINE g == hubs[i]
           c == Head(g.queue)
           h == [g EXCEPT !.queue = Tail(g.queue)]
           task == [hub |-> i, kind |-> c.kind, auto |-> c.auto, result |-> "none",
                    shared |-> g.conn = "managed"]
<1>1. Typed /\ Restarts BY DEF IInv
<1>2. /\ g \in Hubs /\ g.profile \in Profiles /\ g.queue \in Seq(Commands) /\ g.events \in Seq(Events)
      /\ i \in Nat
  BY <1>1, HubTypes
<1>3. /\ g.queue # <<>> /\ g.conn \in {"direct", "managed"} /\ UNCHANGED <<ctl, daemon, since>>
      /\ hubs' = [hubs EXCEPT ![i].queue = Tail(@)] /\ turn' = turn
  BY DEF Take
<1>4. c \in Commands /\ Tail(g.queue) \in Seq(Commands) BY <1>2, <1>3
<1>5. tasks' = tasks \cup {task}
  <2> DEFINE same == task.kind = "refresh" /\ task.shared
                     /\ \E t \in tasks : t.hub = i /\ t.kind = "refresh" /\ t.shared
  <2>1. tasks' = IF same THEN tasks ELSE tasks \cup {task} BY DEF Take
  <2>2. task.kind # "refresh" OBVIOUS
  <2> HIDE DEF task
  <2> QED BY <2>1, <2>2
<1>6. task \in Spawns /\ task.kind = "restart" /\ task.hub = i /\ task.auto = c.auto
  <2>1. c.auto \in BOOLEAN BY <1>4 DEF Commands
  <2>2. "none" \in Values /\ (g.conn = "managed") \in BOOLEAN BY DEF Values
  <2>3. c.kind = "restart" /\ "restart" \in Works BY DEF Works
  <2> HIDE DEF c, g
  <2> QED BY <2>1, <2>2, <2>3, <1>2 DEF Spawns
<1>7. /\ h \in Hubs /\ h.profile = g.profile /\ h.queue = Tail(g.queue) /\ h.events = g.events
      /\ h.conn = g.conn /\ hubs' = [hubs EXCEPT ![i] = h]
  BY <1>2, <1>3, <1>4 DEF Hubs
<1>8. Becomes(i, h) BY <1>1, <1>7, HubBecomes
<1>9. c.auto => Autos(g.queue)
  <2>1. 1 \in DOMAIN g.queue /\ g.queue[1] = c BY <1>2, <1>3
  <2> QED BY <2>1 DEF Autos
<1>10. i \in QueueAt
  <2>1. 1 \in DOMAIN g.queue /\ g.queue[1] = c BY <1>2, <1>3
  <2> QED BY <2>1 DEF QueueAt, In
<1> HIDE DEF h, task, c
<1>11. Typed'
  <2>1. tasks' \subseteq Spawns /\ \A t \in tasks' : t.hub \in DOMAIN hubs'
    BY <1>1, <1>5, <1>6, <1>8 DEF Typed, Becomes
  <2> QED BY <2>1, <1>1, <1>3, <1>8 DEF Typed, Becomes
<1>12. QueueAt = {i} /\ EventAt = {} /\ RestartTasks = {} /\ ctl.inProgress
  BY <1>1, <1>10 DEF Restarts, Lone
<1>13. /\ ~In(h.queue, "restart") /\ Single(h.queue, "restart")
       /\ Autos(h.queue) => Autos(g.queue)
  <2>1. Single(g.queue, "restart") BY <1>1 DEF Restarts, Lone
  <2>2. Head(g.queue).kind = "restart" OBVIOUS
  <2> HIDE DEF g
  <2> QED BY <2>1, <2>2, <1>2, <1>3, <1>7, InTail
<1>14. OthersHold(i) BY <1>8 DEF OthersHold, Becomes
<1>15. QueueAt' = {} /\ EventAt' = {}
  <2>1. hubs'[i] = h BY <1>8 DEF Becomes
  <2>2. EventAt' \subseteq EventAt
    BY <2>1, <1>7, <1>12, <1>14, PlacesMove DEF EventAt
  <2> QED BY <2>1, <2>2, <1>12, <1>13, <1>14, PlacesMove
<1>16. RestartTasks' = {task}
  <2>1. {t \in tasks' : t.kind = "restart"} = {task} BY <1>5, <1>6, <1>12 DEF RestartTasks
  <2> QED BY <2>1 DEF RestartTasks
<1>17. Lone'
  <2>1. \A j \in DOMAIN hubs' : Single(hubs'[j].queue, "restart") /\ Single(hubs'[j].events, "restart")
    BY <1>1, <1>7, <1>8, <1>13 DEF Restarts, Lone, Becomes
  <2> QED BY <2>1, <1>3, <1>12, <1>15, <1>16 DEF Lone, Single
<1>18. Cooling' BY <1>3, <1>12 DEF Cooling
<1>19. Spaced'
  <2>1. \A j \in DOMAIN hubs' : Autos(hubs'[j].queue) => since'[hubs'[j].profile] = Cooldown
    BY <1>1, <1>3, <1>7, <1>8, <1>13 DEF Restarts, Spaced, Becomes
  <2>2. \A t \in tasks' : t.auto => t = task
    <3>1. \A t \in tasks : ~t.auto BY <1>1, <1>12 DEF Typed, Spawns, RestartTasks
    <3> QED BY <3>1, <1>5
  <2>3. task.auto => since[g.profile] = Cooldown BY <1>1, <1>6, <1>9 DEF Restarts, Spaced
  <2>4. hubs'[task.hub].profile = g.profile BY <1>6, <1>7, <1>8 DEF Becomes
  <2> QED BY <2>1, <2>2, <2>3, <2>4, <1>3 DEF Spaced, Autos
<1>20. Unknown'
  <2>1. \A j \in DOMAIN hubs' : Restarting(j)' => j = i BY <1>6, <1>15, <1>16 DEF Restarting
  <2>2. ~turn[g.profile].known BY <1>1, <1>10 DEF Restarts, Unknown, Restarting
  <2> QED BY <2>1, <2>2, <1>3, <1>7, <1>8 DEF Unknown, Becomes
<1>21. Tame
  <2>1. Advances(hubs[i], h) BY <1>3, <1>7 DEF Advances
  <2>2. \A j \in DOMAIN hubs : Advances(hubs[j], hubs'[j]) /\ (Quiet(j) => ReadyFirst(hubs'[j]))
    BY <2>1, <1>3, <1>8 DEF Becomes, Advances, Quiet, ReadyFirst
  <2>3. TasksBeside BY <1>3, <1>5, <1>6 DEF TasksBeside
  <2>4. TurnsFade BY <1>3 DEF TurnsFade
  <2> QED BY <2>2, <2>3, <2>4, <1>3, <1>8, TameStep DEF Becomes
<1>22. HealthyHostSpared' BY <1>3, <1>8 DEF IInv, HealthyHostSpared, active, Becomes
<1>23. Kept
  <2>1. active' = active BY <1>8 DEF Becomes, active
  <2>2. Restarting(active) => i = active BY <1>12 DEF Restarting
  <2>3. Restarting(i)' BY <1>6, <1>16 DEF Restarting
  <2> QED BY <2>1, <2>2, <2>3, <1>12 DEF Kept, Restarting
<1> QED BY <1>11, <1>17, <1>18, <1>19, <1>20, <1>21, <1>22, <1>23, TameKeeps DEF IInv, Restarts, Safely

---------------------------------------------------------------------------
(* Tasks and daemons.                                                      *)

LEMMA CutHubs ==
    ASSUME Typed, NEW p
    PROVE  /\ Cut(hubs, p) \in Seq(Hubs) /\ Len(Cut(hubs, p)) = Len(hubs)
           /\ DOMAIN Cut(hubs, p) = DOMAIN hubs
           /\ \A j \in DOMAIN hubs :
                /\ Cut(hubs, p)[j].profile = hubs[j].profile /\ Cut(hubs, p)[j].queue = hubs[j].queue
                /\ Cut(hubs, p)[j].events = hubs[j].events
                /\ Cut(hubs, p)[j].conn = hubs[j].conn \/ Cut(hubs, p)[j].conn = "down"
<1> DEFINE cut(h) == IF h.profile = p /\ h.conn = "managed" THEN [h EXCEPT !.conn = "down"] ELSE h
<1>1. ASSUME NEW h \in Hubs
      PROVE  /\ cut(h) \in Hubs /\ cut(h).profile = h.profile /\ cut(h).queue = h.queue
             /\ cut(h).events = h.events
             /\ cut(h).conn = h.conn \/ cut(h).conn = "down"
  BY DEF Hubs
<1>2. Len(hubs) \in Nat /\ DOMAIN hubs = 1..Len(hubs) /\ \A j \in DOMAIN hubs : hubs[j] \in Hubs
  BY HubTypes
<1>3. Cut(hubs, p) = [j \in 1..Len(hubs) |-> cut(hubs[j])] BY <1>2 DEF Cut
<1>4. PICK hs : hs = Cut(hubs, p) OBVIOUS
<1>5. hs = [j \in 1..Len(hubs) |-> cut(hubs[j])] BY <1>3, <1>4
<1> HIDE DEF cut
<1>6. hs \in [1..Len(hubs) -> Hubs] BY <1>1, <1>2, <1>5
<1>7. hs \in Seq(Hubs) BY <1>2, <1>6, SeqDef
<1>8. DOMAIN hs = 1..Len(hubs) BY <1>5
<1>9. Len(hs) = Len(hubs) BY <1>2, <1>7, <1>8, LenProperties
<1>10. \A j \in DOMAIN hubs : hs[j] = cut(hubs[j]) BY <1>2, <1>5
<1>11. \A j \in DOMAIN hubs :
          /\ hs[j].profile = hubs[j].profile /\ hs[j].queue = hubs[j].queue
          /\ hs[j].events = hubs[j].events
          /\ hs[j].conn = hubs[j].conn \/ hs[j].conn = "down"
  BY <1>1, <1>2, <1>10
<1>12. DOMAIN hs = DOMAIN hubs BY <1>2, <1>8
<1> QED BY <1>4, <1>7, <1>9, <1>11, <1>12

\* What an answer changes besides the tasks: a daemon's connections, its turn
\* and the events of the hub that asked.
Answers(i, e) ==
    /\ \E hs \in {hubs} \cup {Cut(hubs, p) : p \in Profiles} : hubs' = Emit(hs, i, e)
    /\ ctl' = ctl /\ TurnsEnd /\ DaemonType'

LEMMA AnswerHubs ==
    ASSUME Typed, NEW i \in DOMAIN hubs, NEW e \in Events, Answers(i, e)
    PROVE  /\ hubs' \in Seq(Hubs) /\ Len(hubs') = Len(hubs) /\ DOMAIN hubs' = DOMAIN hubs
           /\ i = active => hubs'[i].events = Append(hubs[i].events, e)
           /\ i # active => hubs'[i].events = hubs[i].events
           /\ \A j \in DOMAIN hubs :
                /\ hubs'[j].profile = hubs[j].profile /\ hubs'[j].queue = hubs[j].queue
                /\ hubs'[j].conn = hubs[j].conn \/ hubs'[j].conn = "down"
                /\ j # i => hubs'[j].events = hubs[j].events
<1>1. PICK hs \in {hubs} \cup {Cut(hubs, p) : p \in Profiles} : hubs' = Emit(hs, i, e) BY DEF Answers
<1>2. hubs \in Seq(Hubs) BY DEF Typed
<1>3. /\ hs \in Seq(Hubs) /\ Len(hs) = Len(hubs) /\ DOMAIN hs = DOMAIN hubs
      /\ \A j \in DOMAIN hubs :
           /\ hs[j].profile = hubs[j].profile /\ hs[j].queue = hubs[j].queue
           /\ hs[j].events = hubs[j].events
           /\ hs[j].conn = hubs[j].conn \/ hs[j].conn = "down"
  <2>1. CASE hs = hubs BY <1>2, <2>1
  <2>2. CASE \E p \in Profiles : hs = Cut(hubs, p) BY <2>2, CutHubs
  <2> QED BY <1>1, <2>1, <2>2
<1>4. /\ hubs' \in Seq(Hubs) /\ Len(hubs') = Len(hs) /\ DOMAIN hubs' = DOMAIN hs
      /\ i = Len(hs) => hubs'[i].events = Append(hs[i].events, e)
      /\ i # Len(hs) => hubs'[i].events = hs[i].events
      /\ hubs'[i].profile = hs[i].profile /\ hubs'[i].queue = hs[i].queue /\ hubs'[i].conn = hs[i].conn
      /\ \A j \in DOMAIN hs \ {i} : hubs'[j] = hs[j]
  <2> DEFINE h == Emit(hs, i, e)
  <2>1. hs \in Seq(Hubs) /\ i \in DOMAIN hs BY <1>3
  <2>2. /\ h \in Seq(Hubs) /\ Len(h) = Len(hs) /\ DOMAIN h = DOMAIN hs
        /\ i = Len(hs) => h[i].events = Append(hs[i].events, e)
        /\ i # Len(hs) => h[i].events = hs[i].events
        /\ h[i].profile = hs[i].profile /\ h[i].queue = hs[i].queue /\ h[i].conn = hs[i].conn
        /\ \A j \in DOMAIN hs \ {i} : h[j] = hs[j]
    BY <2>1, EmitHub, Zenon
  <2>3. hubs' = h BY <1>1
  <2> HIDE DEF h
  <2> QED BY <2>2, <2>3
<1>5. ASSUME NEW j \in DOMAIN hubs
      PROVE  /\ hubs'[j].profile = hubs[j].profile /\ hubs'[j].queue = hubs[j].queue
             /\ hubs'[j].conn = hubs[j].conn \/ hubs'[j].conn = "down"
             /\ j # i => hubs'[j].events = hubs[j].events
  <2>1. /\ hs[j].profile = hubs[j].profile /\ hs[j].queue = hubs[j].queue
        /\ hs[j].events = hubs[j].events
        /\ hs[j].conn = hubs[j].conn \/ hs[j].conn = "down"
    BY <1>3
  <2>2. CASE j = i BY <2>1, <2>2, <1>4
  <2>3. CASE j # i
    <3>1. hubs'[j] = hs[j] BY <2>3, <1>3, <1>4
    <3> QED BY <3>1, <2>1
  <2> QED BY <2>2, <2>3
<1>6. /\ i = active => hubs'[i].events = Append(hubs[i].events, e)
      /\ i # active => hubs'[i].events = hubs[i].events
  BY <1>3, <1>4 DEF active
<1>7. hubs' \in Seq(Hubs) /\ Len(hubs') = Len(hubs) /\ DOMAIN hubs' = DOMAIN hubs BY <1>3, <1>4
<1> QED BY <1>5, <1>6, <1>7

\* A task with another command than a restart answers.
LEMMA AnswerSafe ==
    ASSUME IInv, NEW i \in DOMAIN hubs, NEW e \in Events, Answers(i, e), e.kind \in NoRestart,
           ~Quiet(i), TasksMove, since' = since
    PROVE  Safely
<1>1. Typed BY DEF IInv
<1>2. /\ hubs' \in Seq(Hubs) /\ Len(hubs') = Len(hubs) /\ DOMAIN hubs' = DOMAIN hubs
      /\ i = active => hubs'[i].events = Append(hubs[i].events, e)
      /\ i # active => hubs'[i].events = hubs[i].events
      /\ \A j \in DOMAIN hubs :
           /\ hubs'[j].profile = hubs[j].profile /\ hubs'[j].queue = hubs[j].queue
           /\ hubs'[j].conn = hubs[j].conn \/ hubs'[j].conn = "down"
           /\ j # i => hubs'[j].events = hubs[j].events
  BY <1>1, AnswerHubs
<1>3. ASSUME NEW j \in DOMAIN hubs PROVE Moved(hubs[j], hubs'[j]) /\ (Quiet(j) => ReadyFirst(hubs'[j]))
  <2>1. CASE j = i
    <3>1. Moved(hubs[i], hubs'[i]) BY <1>2 DEF Moved, Emitted
    <3> QED BY <2>1, <3>1
  <2>2. CASE j # i BY <1>2, <2>2 DEF Moved, Quiet, ReadyFirst
  <2> QED BY <2>1, <2>2
<1>4. ControlKept BY <1>1 DEF Answers, ControlKept, Typed
<1> QED BY <1>2, <1>3, <1>4, HubsStepSafe DEF Answers

\* The task of a restart answers, whatever became of it: the answer is the one
\* place where the restart is, or is gone with the receiver of its hub.
LEMMA RestartAnswered ==
    ASSUME IInv, NEW t \in tasks, t.kind = "restart",
           NEW e \in Events, Answers(t.hub, e), e.kind = "restart",
           tasks' \subseteq tasks \ {t}, since' \in [Profiles -> 0..Cooldown]
    PROVE  Safely
<1>1. Typed /\ Restarts BY DEF IInv
<1>2. t \in Spawns /\ t.hub \in DOMAIN hubs BY <1>1 DEF Typed
<1>3. PICK i \in DOMAIN hubs : i = t.hub BY <1>2
<1>4. /\ hubs' \in Seq(Hubs) /\ Len(hubs') = Len(hubs) /\ DOMAIN hubs' = DOMAIN hubs
      /\ i = active => hubs'[i].events = Append(hubs[i].events, e)
      /\ i # active => hubs'[i].events = hubs[i].events
      /\ \A j \in DOMAIN hubs :
           /\ hubs'[j].profile = hubs[j].profile /\ hubs'[j].queue = hubs[j].queue
           /\ hubs'[j].conn = hubs[j].conn \/ hubs'[j].conn = "down"
           /\ j # i => hubs'[j].events = hubs[j].events
  BY <1>1, <1>3, AnswerHubs
<1>5. \A j \in DOMAIN hubs : hubs[j].queue \in Seq(Commands) /\ hubs[j].events \in Seq(Events)
                             /\ hubs[j].profile \in Profiles
  BY <1>1, HubTypes
<1>6. RestartTasks = {t} /\ QueueAt = {} /\ EventAt = {} /\ ctl.inProgress
  BY <1>1 DEF Restarts, Lone, RestartTasks
<1>7. hubs' # <<>> BY <1>1, <1>4 DEF Typed
<1>8. Typed' BY <1>1, <1>4, <1>7 DEF Typed, Answers, TurnsEnd, DaemonType
<1>9. /\ In(hubs'[i].events, "restart") <=> i = active
      /\ Single(hubs'[i].events, "restart")
  <2>1. ~In(hubs[i].events, "restart") BY <1>6 DEF EventAt
  <2>2. Single(hubs[i].events, "restart") BY <1>1 DEF Restarts, Lone
  <2>3. CASE i = active
    <3>1. hubs[i].events \in Seq(Events) BY <1>5
    <3>2. In(Append(hubs[i].events, e), "restart") BY <3>1, InAppend
    <3>3. Single(Append(hubs[i].events, e), "restart") BY <3>1, <2>1, <2>2, InAppend
    <3>4. hubs'[i].events = Append(hubs[i].events, e) BY <2>3, <1>4
    <3> QED BY <2>3, <3>2, <3>3, <3>4
  <2>4. CASE i # active
    <3>1. hubs'[i].events = hubs[i].events BY <2>4, <1>4
    <3> QED BY <2>1, <2>2, <2>4, <3>1
  <2> QED BY <2>3, <2>4
<1>10. QueueAt' = {} /\ EventAt' = IF i = active THEN {i} ELSE {}
  <2>1. OthersHold(i) BY <1>4 DEF OthersHold
  <2>2. ~In(hubs'[i].queue, "restart") BY <1>4, <1>6 DEF QueueAt
  <2> QED BY <2>1, <2>2, <1>6, <1>9, PlacesMove
<1>11. RestartTasks' = {}
  <2>1. {u \in tasks' : u.kind = "restart"} = {} BY <1>6 DEF RestartTasks
  <2> QED BY <2>1 DEF RestartTasks
<1>12. Lone'
  <2>1. \A j \in DOMAIN hubs' : Single(hubs'[j].queue, "restart") /\ Single(hubs'[j].events, "restart")
    <3> SUFFICES ASSUME NEW j \in DOMAIN hubs
                 PROVE  Single(hubs'[j].queue, "restart") /\ Single(hubs'[j].events, "restart")
      BY <1>4
    <3>1. Single(hubs[j].queue, "restart") /\ Single(hubs[j].events, "restart")
      BY <1>1 DEF Restarts, Lone
    <3>2. hubs'[j].queue = hubs[j].queue /\ (j # i => hubs'[j].events = hubs[j].events) BY <1>4
    <3> QED BY <3>1, <3>2, <1>9
  <2> QED BY <2>1, <1>6, <1>10, <1>11 DEF Lone, Single, Answers
<1>13. Cooling' BY <1>6 DEF Cooling, Answers
<1>14. Spaced'
  <2>1. \A j \in DOMAIN hubs' : ~Autos(hubs'[j].queue)
    <3> SUFFICES ASSUME NEW j \in DOMAIN hubs PROVE ~Autos(hubs'[j].queue) BY <1>4
    <3>1. ~In(hubs[j].queue, "restart") BY <1>6 DEF QueueAt
    <3> QED BY <3>1, <1>4, <1>5, AutosRestart
  <2>2. \A u \in tasks' : ~u.auto
    <3>1. \A u \in tasks' : u \in tasks /\ u \notin RestartTasks BY <1>6
    <3> QED BY <3>1, <1>1 DEF Typed, Spawns, RestartTasks
  <2> QED BY <2>1, <2>2 DEF Spaced, Autos
<1>15. Unknown'
  <2>1. \A j \in DOMAIN hubs' : Restarting(j)' => j = i BY <1>10, <1>11 DEF Restarting
  <2>2. ~turn[hubs[i].profile].known BY <1>1, <1>3 DEF Restarts, Unknown, Restarting, RestartTasks
  <2>3. ~turn'[hubs[i].profile].known BY <2>2, <1>5 DEF Answers, TurnsEnd, NoTurn
  <2> QED BY <2>1, <2>3, <1>4 DEF Unknown
<1>16. Tame
  <2>1. ASSUME NEW j \in DOMAIN hubs
        PROVE  Advances(hubs[j], hubs'[j]) /\ (Quiet(j) => ReadyFirst(hubs'[j]))
    <3>1. CASE j = i
      <4>1. ~Quiet(i) BY <1>3 DEF Quiet
      <4>2. Advances(hubs[i], hubs'[i]) BY <1>4 DEF Advances, Emitted, Works
      <4> QED BY <3>1, <4>1, <4>2
    <3>2. CASE j # i BY <1>4, <3>2 DEF Advances, Quiet, ReadyFirst
    <3> QED BY <3>1, <3>2
  <2>2. TasksBeside BY DEF TasksBeside
  <2>3. TurnsFade BY DEF Answers, TurnsEnd, TurnsFade
  <2> QED BY <2>1, <2>2, <2>3, <1>4, TameStep DEF Answers
<1>17. HealthyHostSpared' BY <1>4 DEF IInv, HealthyHostSpared, active, Answers
<1>18. Kept
  <2>1. active' = active BY <1>4 DEF active
  <2>2. Restarting(active) => i = active BY <1>3, <1>6 DEF Restarting
  <2>3. i = active => Restarting(active)' BY <2>1, <1>10 DEF Restarting
  <2> QED BY <2>2, <2>3, <1>6 DEF Kept
<1> QED BY <1>8, <1>12, <1>13, <1>14, <1>15, <1>16, <1>17, <1>18, TameKeeps DEF IInv, Restarts, Safely

LEMMA TaskTypes ==
    ASSUME Typed, NEW t \in tasks
    PROVE  /\ t \in Spawns /\ t.hub \in DOMAIN hubs /\ hubs[t.hub].profile \in Profiles
           /\ t.kind \in Works /\ t.auto \in BOOLEAN /\ (t.auto => t.kind = "restart")
           /\ t.result \in Values
<1>1. t \in Spawns /\ t.hub \in DOMAIN hubs BY DEF Typed
<1> QED BY <1>1, HubTypes DEF Spawns

\* The task that leaves is no restart, and the requests that die with it are
\* none.
LEMMA TaskLeaves ==
    ASSUME Typed, NEW t \in tasks, t.kind # "restart",
           \/ tasks' = tasks \ {t}
           \/ \E is : tasks' = Unanswered(is) \ {t}
    PROVE  TasksMove
<1>1. tasks' \subseteq tasks /\ \A u \in tasks \ tasks' : u.kind # "restart" BY DEF Unanswered
<1>2. {u \in tasks' : u.kind = "restart"} = {u \in tasks : u.kind = "restart"} BY <1>1
<1> QED BY <1>1, <1>2 DEF TasksMove, RestartTasks, Typed

LEMMA ReadSafe == ASSUME IInv, NEW t \in tasks, Read(t) PROVE Safely
<1> DEFINE u == [t EXCEPT !.result = Status(hubs[t.hub].profile)]
<1>1. Typed BY DEF IInv
<1>2. t \in Spawns /\ t.hub \in DOMAIN hubs /\ hubs[t.hub].profile \in Profiles BY <1>1, TaskTypes
<1>3. t.kind = "refresh" /\ tasks' = (tasks \ {t}) \cup {u} /\ UNCHANGED <<ctl, hubs, daemon, turn, since>>
  BY DEF Read
<1>4. Status(hubs[t.hub].profile) \in Values
  <2>1. daemon[hubs[t.hub].profile].health \in Values BY <1>1, <1>2 DEF Typed
  <2> QED BY <2>1 DEF Status, Values
<1>5. u \in Spawns /\ u.hub = t.hub /\ u.kind = "refresh" BY <1>2, <1>3, <1>4 DEF Spawns
<1> HIDE DEF u
<1>6. TasksMove
  <2>1. {x \in tasks' : x.kind = "restart"} = {x \in tasks : x.kind = "restart"} BY <1>3, <1>5
  <2>2. tasks' \subseteq Spawns BY <1>1, <1>3, <1>5 DEF Typed
  <2>3. \A x \in tasks' : \E y \in tasks : y.hub = x.hub BY <1>3, <1>5
  <2> QED BY <2>1, <2>2, <2>3 DEF TasksMove, RestartTasks
<1>7. hubs' \in Seq(Hubs) /\ Len(hubs') = Len(hubs) BY <1>1, <1>3 DEF Typed
<1>8. \A j \in DOMAIN hubs : Moved(hubs[j], hubs'[j]) /\ (Quiet(j) => ReadyFirst(hubs'[j]))
  BY <1>3 DEF Moved, Quiet, ReadyFirst
<1> QED BY <1>3, <1>6, <1>7, <1>8, HubsStepSafe, NothingElse

LEMMA RefreshedSafe == ASSUME IInv, NEW t \in tasks, Refreshed(t) PROVE Safely
<1> DEFINE e == [kind |-> t.kind, value |-> t.result]
<1>1. Typed BY DEF IInv
<1>2. t.hub \in DOMAIN hubs /\ t.result \in Values BY <1>1, TaskTypes
<1>3. /\ t.kind = "refresh" /\ hubs' = Emit(hubs, t.hub, e) /\ tasks' = tasks \ {t}
      /\ UNCHANGED <<ctl, daemon, turn, since>>
  BY DEF Refreshed, Answered
<1>4. e \in Events /\ e.kind \in NoRestart BY <1>2, <1>3 DEF Events, Works, NoRestart
<1>5. Answers(t.hub, e) BY <1>1, <1>3, NothingElse DEF Answers
<1>6. ~Quiet(t.hub) BY DEF Quiet
<1>7. TasksMove BY <1>1, <1>3, TaskLeaves
<1> HIDE DEF e
<1> QED BY <1>2, <1>3, <1>4, <1>5, <1>6, <1>7, AnswerSafe

LEMMA LostTurn ==
    ASSUME Typed, NEW p, turn' = turn \/ turn' = LoseTurn(p)
    PROVE  TurnsEnd
<1>1. turn \in [Profiles -> Turns] /\ NoTurn \in Turns BY DEF Typed, Turns, NoTurn
<1>2. CASE turn' = turn BY <1>1, <1>2 DEF TurnsEnd
<1>3. CASE turn' = LoseTurn(p)
  <2>1. turn' = [turn EXCEPT ![p] = IF turn[p].at = "managed" THEN NoTurn ELSE turn[p]]
    BY <1>3 DEF LoseTurn
  <2> QED BY <1>1, <2>1 DEF TurnsEnd
<1> QED BY <1>2, <1>3

LEMMA DaemonStays ==
    ASSUME Typed, NEW p \in Profiles, NEW d \in [service : BOOLEAN, health : Values],
           daemon' = daemon \/ daemon' = [daemon EXCEPT ![p] = d]
    PROVE  DaemonType'
BY DEF Typed, DaemonType

LEMMA ActSafe == ASSUME IInv, RemoteAssumption, NEW t \in tasks, Act(t) PROVE Safely
<1> DEFINE p == hubs[t.hub].profile
           e == [kind |-> t.kind, value |-> "ok"]
           on == [service |-> TRUE, health |-> "connecting"]
<1>1. Typed BY DEF IInv
<1>2. t.hub \in DOMAIN hubs /\ p \in Profiles BY <1>1, TaskTypes
<1>3. t.kind \in {"enable", "disable", "restart"} /\ ctl' = ctl BY DEF Act
<1>4. e \in Events /\ e.kind = t.kind BY <1>3 DEF Events, Works, Values
<1>5. on \in [service : BOOLEAN, health : Values] /\ Off \in [service : BOOLEAN, health : Values]
  BY DEF Values, Off
<1>6. ~Quiet(t.hub) BY DEF Quiet
<1>7. CASE t.kind = "enable"
  <2>1. hubs' = Emit(hubs, t.hub, e) /\ tasks' = tasks \ {t} /\ Start(p)
    BY <1>7 DEF Act, Answered
  <2>2. daemon' = daemon \/ daemon' = [daemon EXCEPT ![p] = on]
    <3>1. daemon' = [daemon EXCEPT ![p] = IF daemon[p].service THEN daemon[p] ELSE on] BY <2>1 DEF Start
    <3>2. [daemon EXCEPT ![p] = daemon[p]] = daemon BY <1>1, <1>2 DEF Typed
    <3> HIDE DEF on, p
    <3> QED BY <3>1, <3>2
  <2>3. turn' = turn /\ since' = since BY <2>1 DEF Start
  <2> HIDE DEF on, e, p
  <2>4. DaemonType' BY <2>2, <1>1, <1>2, <1>5, DaemonStays
  <2>5. TasksMove BY <1>1, <1>7, <2>1, TaskLeaves
  <2>6. Answers(t.hub, e) BY <1>3, <2>1, <2>3, <2>4, NothingElse DEF Answers
  <2>7. e.kind \in NoRestart BY <1>4, <1>7 DEF NoRestart
  <2> QED BY <1>2, <1>4, <1>6, <2>3, <2>5, <2>6, <2>7, AnswerSafe
<1>8. CASE t.kind = "disable"
  <2>1. /\ hubs' = Emit(Cut(hubs, p), t.hub, e) /\ tasks' = Unanswered(OnDaemon(p)) \ {t} /\ Stop(p)
    BY <1>8 DEF Act, Answered
  <2>2. daemon' = [daemon EXCEPT ![p] = Off] /\ turn' = LoseTurn(p) /\ since' = since
    BY <2>1 DEF Stop
  <2> HIDE DEF on, e, p
  <2>3. DaemonType' BY <2>2, <1>1, <1>2, <1>5, DaemonStays
  <2>4. TurnsEnd BY <2>2, <1>1, LostTurn
  <2>5. TasksMove BY <1>1, <1>8, <2>1, TaskLeaves
  <2>6. Answers(t.hub, e)
    <3>1. \E hs \in {hubs} \cup {Cut(hubs, q) : q \in Profiles} : hubs' = Emit(hs, t.hub, e)
      BY <1>2, <2>1
    <3> QED BY <3>1, <1>3, <2>3, <2>4 DEF Answers
  <2>7. e.kind \in NoRestart BY <1>4, <1>8 DEF NoRestart
  <2> QED BY <1>2, <1>4, <1>6, <2>2, <2>5, <2>6, <2>7, AnswerSafe
<1>9. CASE t.kind = "restart"
  <2>1. /\ hubs' = Emit(Cut(hubs, p), t.hub, e) /\ tasks' = Unanswered(OnDaemon(p)) \ {t} /\ Restart(p)
        /\ since' = IF t.auto THEN [since EXCEPT ![p] = 0] ELSE since
    BY <1>9 DEF Act, Answered
  <2>2. daemon' = [daemon EXCEPT ![p] = on] /\ turn' = LoseTurn(p) BY <2>1 DEF Restart
  <2> HIDE DEF on, e, p
  <2>3. DaemonType' BY <2>2, <1>1, <1>2, <1>5, DaemonStays
  <2>4. TurnsEnd BY <2>2, <1>1, LostTurn
  <2>5. Answers(t.hub, e)
    <3>1. \E hs \in {hubs} \cup {Cut(hubs, q) : q \in Profiles} : hubs' = Emit(hs, t.hub, e)
      BY <1>2, <2>1
    <3> QED BY <3>1, <1>3, <2>3, <2>4 DEF Answers
  <2>6. tasks' \subseteq tasks \ {t} BY <2>1 DEF Unanswered
  <2>7. since' \in [Profiles -> 0..Cooldown]
    <3>1. since \in [Profiles -> 0..Cooldown] BY <1>1 DEF Typed
    <3>2. 0 \in 0..Cooldown BY DEF RemoteAssumption
    <3> QED BY <3>1, <3>2, <2>1
  <2> QED BY <1>4, <1>9, <2>5, <2>6, <2>7, RestartAnswered
<1> QED BY <1>3, <1>7, <1>8, <1>9

LEMMA ActFailsSafe == ASSUME IInv, RemoteAssumption, NEW t \in tasks, ActFails(t) PROVE Safely
<1> DEFINE e == [kind |-> t.kind, value |-> "error"]
<1>1. Typed BY DEF IInv
<1>2. t.hub \in DOMAIN hubs /\ t.kind \in Works /\ (t.auto => t.kind = "restart") BY <1>1, TaskTypes
<1>3. /\ hubs' = Emit(hubs, t.hub, e) /\ tasks' = tasks \ {t} /\ UNCHANGED <<ctl, daemon, turn>>
      /\ since' = IF t.auto THEN [since EXCEPT ![hubs[t.hub].profile] = 0] ELSE since
  BY DEF ActFails, Answered
<1>4. e \in Events /\ e.kind = t.kind BY <1>2 DEF Events, Values
<1> HIDE DEF e
<1>5. Answers(t.hub, e) BY <1>3, NothingElse DEF Answers
<1>6. CASE t.kind = "restart"
  <2>1. since' \in [Profiles -> 0..Cooldown]
    <3>1. since \in [Profiles -> 0..Cooldown] BY <1>1 DEF Typed
    <3>2. 0 \in 0..Cooldown BY DEF RemoteAssumption
    <3> QED BY <3>1, <3>2, <1>3
  <2> QED BY <1>3, <1>4, <1>5, <1>6, <2>1, RestartAnswered
<1>7. CASE t.kind # "restart"
  <2>1. since' = since BY <1>2, <1>3, <1>7
  <2>2. ~Quiet(t.hub) BY DEF Quiet
  <2>3. TasksMove BY <1>1, <1>3, <1>7, TaskLeaves
  <2>4. e.kind \in NoRestart BY <1>2, <1>4, <1>7 DEF Works, NoRestart
  <2> QED BY <1>2, <1>4, <1>5, <2>1, <2>2, <2>3, <2>4, AnswerSafe
<1> QED BY <1>6, <1>7

LEMMA DaemonSafe == ASSUME IInv, NEW p \in Profiles, DaemonChanges(p) PROVE Safely
<1>1. Typed BY DEF IInv
<1>2. PICK h \in Healths \ {daemon[p].health} :
         /\ daemon' = [daemon EXCEPT ![p].health = h]
         /\ IF h = "off"
            THEN hubs' = Cut(hubs, p) /\ turn' = LoseTurn(p) /\ tasks' = Unanswered(OnDaemon(p))
            ELSE UNCHANGED <<hubs, turn, tasks>>
  BY DEF DaemonChanges
<1>3. ctl' = ctl /\ since' = since BY DEF DaemonChanges
<1>4. DaemonType'
  <2>1. h \in Values BY DEF Values
  <2> QED BY <2>1, <1>1, <1>2 DEF Typed, DaemonType
<1>5. hubs' = hubs \/ hubs' = Cut(hubs, p) BY <1>2
<1>6. TurnsEnd BY <1>1, <1>2, LostTurn
<1>7. TasksMove BY <1>2, NothingElse
<1>8. hubs' \in Seq(Hubs) /\ Len(hubs') = Len(hubs)
  BY <1>1, <1>5, CutHubs DEF Typed
<1>9. \A j \in DOMAIN hubs : Moved(hubs[j], hubs'[j]) /\ (Quiet(j) => ReadyFirst(hubs'[j]))
  <2>1. ASSUME NEW j \in DOMAIN hubs
        PROVE  /\ hubs'[j].profile = hubs[j].profile /\ hubs'[j].queue = hubs[j].queue
               /\ hubs'[j].events = hubs[j].events
               /\ hubs'[j].conn = hubs[j].conn \/ hubs'[j].conn = "down"
    BY <1>1, <1>5, CutHubs
  <2> QED BY <2>1 DEF Moved, Quiet, ReadyFirst
<1> QED BY <1>3, <1>4, <1>6, <1>7, <1>8, <1>9, HubsStepSafe, NothingElse

---------------------------------------------------------------------------
(* The user and time.                                                      *)

\* The active hub's queue gets one command more.
LEMMA QueueHub ==
    ASSUME Typed, NEW c \in Commands, hubs' = Queue(hubs, c)
    PROVE  \E h \in Hubs : /\ hubs' = [hubs EXCEPT ![active] = h] /\ Becomes(active, h)
                           /\ h.profile = hub.profile /\ h.conn = hub.conn /\ h.events = hub.events
                           /\ h.queue = Append(hub.queue, c)
<1> DEFINE h == [hub EXCEPT !.queue = Append(hub.queue, c)]
<1>1. active \in DOMAIN hubs /\ hub = hubs[active] /\ hub \in Hubs /\ hub.queue \in Seq(Commands)
  BY HubTypes DEF hub
<1>2. Append(hub.queue, c) \in Seq(Commands) BY <1>1
<1>3. /\ h \in Hubs /\ h.profile = hub.profile /\ h.conn = hub.conn /\ h.events = hub.events
      /\ h.queue = Append(hub.queue, c)
  BY <1>1, <1>2 DEF Hubs
<1>4. hubs' = [hubs EXCEPT ![active] = h] BY DEF Queue, active, hub
<1> HIDE DEF h
<1>5. Becomes(active, h) BY <1>1, <1>3, <1>4, HubBecomes
<1> QED BY <1>3, <1>4, <1>5

LEMMA AskSafe ==
    ASSUME IInv, NEW k \in {"enable", "disable", "refresh"}, Ask(k), ControlKept,
           UNCHANGED <<tasks, daemon, turn, since>>
    PROVE  Safely
<1>1. Typed BY DEF IInv
<1>2. Command(k) \in Commands /\ Command(k).kind = k BY DEF Command, Commands, Works
<1>3. hubs' = Queue(hubs, Command(k)) BY DEF Ask
<1>4. PICK h \in Hubs : /\ hubs' = [hubs EXCEPT ![active] = h] /\ Becomes(active, h)
                        /\ h.profile = hub.profile /\ h.conn = hub.conn /\ h.events = hub.events
                        /\ h.queue = Append(hub.queue, Command(k))
  BY <1>1, <1>2, <1>3, QueueHub
<1>5. active \in DOMAIN hubs /\ hub = hubs[active] BY <1>1, HubTypes DEF hub
<1>6. Moved(hubs[active], h) /\ (Quiet(active) => ReadyFirst(h))
  BY <1>2, <1>4, <1>5 DEF Moved, Added, Quiet, ReadyFirst
<1> QED BY <1>4, <1>5, <1>6, HubStepSafe, NothingElse

LEMMA ButtonSafe == ASSUME IInv, Refresh \/ ClickEnable \/ ClickDisable PROVE Safely
<1>1. ctl \in Controls BY DEF IInv, Typed
<1>2. CASE Refresh BY <1>2, AskSafe, NothingElse DEF Refresh
<1>3. CASE ClickEnable
  <2>1. ctl' = [ctl EXCEPT !.expected = TRUE, !.remote = "connecting"] BY <1>3 DEF ClickEnable
  <2>2. "connecting" \in Values BY DEF Values
  <2>3. /\ ctl' \in Controls /\ ctl'.inProgress = ctl.inProgress /\ ctl'.cool = ctl.cool
        /\ ctl'.busy = ctl.busy /\ ctl'.remote = "connecting"
    BY <1>1, <2>1, <2>2 DEF Controls
  <2>4. ControlKept BY <2>3 DEF ControlKept
  <2> QED BY <1>3, <2>4, AskSafe DEF ClickEnable
<1>4. CASE ClickDisable BY <1>4, AskSafe, NothingElse DEF ClickDisable
<1> QED BY <1>2, <1>3, <1>4

\* The Restart button is sensitive while no restart is anywhere.
LEMMA ClickRestartSafe == ASSUME IInv, ClickRestart PROVE Safely
<1> DEFINE c == Command("restart")
           p == hub.profile
<1>1. Typed /\ Restarts BY DEF IInv
<1>2. c \in Commands /\ c.kind = "restart" /\ ~c.auto BY DEF Command, Commands, Works
<1>3. /\ ~ctl.inProgress /\ hubs' = Queue(hubs, c) /\ ctl' = [ctl EXCEPT !.inProgress = TRUE]
      /\ turn' = [turn EXCEPT ![p].known = FALSE] /\ UNCHANGED <<tasks, daemon, since>>
  BY DEF ClickRestart, Ask
<1>4. PICK h \in Hubs : /\ hubs' = [hubs EXCEPT ![active] = h] /\ Becomes(active, h)
                        /\ h.profile = p /\ h.conn = hub.conn /\ h.events = hub.events
                        /\ h.queue = Append(hub.queue, c)
  BY <1>1, <1>2, <1>3, QueueHub
<1>5. /\ active \in DOMAIN hubs /\ hub = hubs[active] /\ p \in Profiles
      /\ hub.queue \in Seq(Commands) /\ hub.events \in Seq(Events)
  BY <1>1, HubTypes DEF hub
<1>6. QueueAt = {} /\ EventAt = {} /\ RestartTasks = {} BY <1>1, <1>3 DEF Restarts, Lone
<1>7. /\ ctl' \in Controls /\ ctl'.inProgress /\ ctl'.cool = ctl.cool /\ ctl'.busy = ctl.busy
      /\ ctl'.pending = ctl.pending /\ ctl'.remote = ctl.remote
  BY <1>1, <1>3 DEF Typed, Controls
<1>8. /\ turn' \in [Profiles -> Turns] /\ ~turn'[p].known /\ turn'[p] = [turn[p] EXCEPT !.known = FALSE]
      /\ \A q \in Profiles \ {p} : turn'[q] = turn[q]
  <2>1. turn \in [Profiles -> Turns] BY <1>1 DEF Typed
  <2>2. PICK n : n = [turn[p] EXCEPT !.known = FALSE] OBVIOUS
  <2>3. n \in Turns /\ ~n.known BY <2>1, <2>2, <1>5 DEF Turns
  <2>4. turn' = [turn EXCEPT ![p] = n] BY <1>3, <2>2
  <2> QED BY <2>1, <2>2, <2>3, <2>4, <1>5
<1> HIDE DEF c
<1>9. Typed' BY <1>1, <1>3, <1>4, <1>7, <1>8 DEF Typed, Becomes
<1>10. In(h.queue, "restart") /\ Single(h.queue, "restart") /\ (Autos(h.queue) => Autos(hub.queue))
  <2>1. ~In(hub.queue, "restart") BY <1>5, <1>6 DEF QueueAt
  <2>2. Single(hub.queue, "restart") BY <1>1, <1>5 DEF Restarts, Lone
  <2> QED BY <2>1, <2>2, <1>2, <1>4, <1>5, InAppend
<1>11. QueueAt' = {active} /\ EventAt' = {}
  <2>1. OthersHold(active) /\ hubs'[active] = h BY <1>4 DEF OthersHold, Becomes
  <2>2. ~In(h.events, "restart") BY <1>4, <1>5, <1>6 DEF EventAt
  <2> QED BY <2>1, <2>2, <1>5, <1>6, <1>10, PlacesMove
<1>12. RestartTasks' = {} BY <1>3, <1>6 DEF RestartTasks
<1>13. Lone'
  <2>1. \A j \in DOMAIN hubs' : Single(hubs'[j].queue, "restart") /\ Single(hubs'[j].events, "restart")
    BY <1>1, <1>4, <1>5, <1>10 DEF Restarts, Lone, Becomes
  <2> QED BY <2>1, <1>7, <1>11, <1>12 DEF Lone, Single
<1>14. Cooling' BY <1>7 DEF Cooling
<1>15. Spaced'
  <2>1. \A j \in DOMAIN hubs : (Autos(hubs'[j].queue) => Autos(hubs[j].queue))
                              /\ hubs'[j].profile = hubs[j].profile
    BY <1>4, <1>5, <1>10 DEF Becomes
  <2>3. \A j \in DOMAIN hubs' : Autos(hubs'[j].queue) => since'[hubs'[j].profile] = Cooldown
    BY <2>1, <1>1, <1>3, <1>4 DEF Restarts, Spaced, Becomes
  <2>2. \A t \in tasks' : ~t.auto BY <1>1, <1>3, <1>6 DEF Typed, Spawns, RestartTasks
  <2> QED BY <2>2, <2>3 DEF Spaced, Autos
<1>16. Unknown'
  <2>1. \A j \in DOMAIN hubs' : Restarting(j)' => j = active BY <1>11, <1>12 DEF Restarting
  <2> QED BY <2>1, <1>4, <1>8 DEF Unknown, Becomes
<1>17. Tame
  <2>1. ASSUME NEW j \in DOMAIN hubs
        PROVE  Advances(hubs[j], hubs'[j]) /\ (Quiet(j) => ReadyFirst(hubs'[j]))
    <3>1. CASE j = active
      <4>1. Added(hub.queue, h.queue, Works \cup {"shutdown"}) BY <1>2, <1>4 DEF Added, Works
      <4> QED BY <4>1, <1>4, <1>5, <3>1 DEF Becomes, Advances, Quiet, ReadyFirst
    <3>2. CASE j # active BY <1>4, <3>2 DEF Becomes, Advances, Quiet, ReadyFirst
    <3> QED BY <3>1, <3>2
  <2>2. TasksBeside BY <1>3 DEF TasksBeside
  <2>3. TurnsFade BY <1>8 DEF TurnsFade
  <2> QED BY <2>1, <2>2, <2>3, <1>4, <1>7, TameStep DEF Becomes
<1>18. HealthyHostSpared' BY <1>4, <1>7 DEF IInv, HealthyHostSpared, active, Becomes
<1>19. Kept
  <2>1. Restarting(active)' BY <1>4, <1>11 DEF Restarting, Becomes, active
  <2> QED BY <2>1 DEF Kept
<1> QED BY <1>9, <1>13, <1>14, <1>15, <1>16, <1>17, <1>18, <1>19, TameKeeps DEF IInv, Restarts, Safely

\* A turn is sent when no other is there; it is known of unless a restart is
\* on its way.
LEMMA SendTurnSafe == ASSUME IInv, SendTurn PROVE Safely
<1> DEFINE c == Command("turn")
           p == hub.profile
           n == [at |-> "queued", hub |-> active, known |-> ~ctl.inProgress]
<1>1. Typed /\ Turned BY DEF IInv
<1>2. c \in Commands /\ c.kind = "turn" BY DEF Command, Commands
<1>3. /\ turn[p].at = "none" /\ hubs' = Queue(hubs, c) /\ ctl' = [ctl EXCEPT !.busy = TRUE]
      /\ turn' = [turn EXCEPT ![p] = n] /\ UNCHANGED <<tasks, daemon, since>>
  BY DEF SendTurn, Ask
<1>4. PICK h \in Hubs : /\ hubs' = [hubs EXCEPT ![active] = h] /\ Becomes(active, h)
                        /\ h.profile = p /\ h.conn = hub.conn /\ h.events = hub.events
                        /\ h.queue = Append(hub.queue, c)
  BY <1>1, <1>2, <1>3, QueueHub
<1>5. /\ active \in DOMAIN hubs /\ hub = hubs[active] /\ p \in Profiles /\ active \in Nat
      /\ hub.queue \in Seq(Commands) /\ hub.events \in Seq(Events)
  BY <1>1, HubTypes DEF hub
<1>6. /\ ctl' \in Controls /\ ctl'.inProgress = ctl.inProgress /\ ctl'.cool = ctl.cool /\ ctl'.busy
      /\ ctl'.pending = ctl.pending /\ ctl'.remote = ctl.remote /\ ctl.inProgress \in BOOLEAN
  BY <1>1, <1>3 DEF Typed, Controls
<1>7. n \in Turns BY <1>5, <1>6 DEF Turns
<1>8. turn' \in [Profiles -> Turns] /\ turn'[p] = n /\ \A q \in Profiles \ {p} : turn'[q] = turn[q]
  BY <1>1, <1>3, <1>5, <1>7 DEF Typed
<1>9. n.at = "queued" /\ n.hub = active /\ n.known = ~ctl.inProgress OBVIOUS
<1> HIDE DEF c, n
<1>10. Typed' BY <1>1, <1>3, <1>4, <1>6, <1>8 DEF Typed, Becomes
<1>11. Calm
  <2>1. CalmHub(hub, h)
    <3>1. Added(hub.queue, h.queue, NoRestart) BY <1>2, <1>4 DEF Added, NoRestart
    <3> QED BY <3>1, <1>4, <1>5, CalmQueue, CalmEvents DEF CalmHub
  <2>2. \A j \in DOMAIN hubs : CalmHub(hubs[j], hubs'[j]) BY <2>1, <1>4, <1>5 DEF Becomes, CalmHub
  <2>3. \A q \in Profiles : turn'[q].known => turn[q].known \/ ~ctl.inProgress BY <1>8, <1>9
  <2> QED BY <2>2, <2>3, <1>3, <1>4, <1>6 DEF Calm, Becomes, RestartTasks
<1>12. ~In(hub.queue, "turn") /\ Single(hub.queue, "turn")
  BY <1>1, <1>3, <1>5 DEF Turned, Sent
<1>13. Behind(h.queue) /\ Single(h.queue, "turn")
  <2>1. Behind(hub.queue)
    <3>1. \A m \in DOMAIN hub.queue : hub.queue[m].kind # "turn" BY <1>12 DEF In
    <3> QED BY <3>1 DEF Behind
  <2>2. Behind(Append(hub.queue, c)) /\ In(Append(hub.queue, c), "turn")
    BY <2>1, <1>2, <1>5, InAppend
  <2>3. Single(h.queue, "turn") BY <1>2, <1>4, <1>5, <1>12, InAppend
  <2> QED BY <2>2, <2>3, <1>4
<1>14. ASSUME NEW j \in DOMAIN hubs PROVE Sent(j)'
  <2>1. Sent(j) /\ hubs[j].profile \in Profiles BY <1>1, HubTypes DEF Turned
  <2>2. CASE j = active
    <3>1. hubs'[j].queue = h.queue /\ hubs'[j].profile = p BY <1>4, <2>2 DEF Becomes
    <3>2. Behind(hubs'[j].queue) /\ Single(hubs'[j].queue, "turn") BY <3>1, <1>13
    <3>3. turn'[p].at = "queued" /\ turn'[p].hub = j BY <1>8, <1>9, <2>2
    <3> QED BY <3>1, <3>2, <3>3 DEF Sent, In, Single, Behind
  <2>3. CASE j # active
    <3>1. hubs'[j] = hubs[j] BY <1>4, <2>3 DEF Becomes
    <3>2. CASE hubs[j].profile = p
      <4>1. ~In(hubs[j].queue, "turn") /\ Single(hubs[j].queue, "turn") BY <2>1, <3>2, <1>3 DEF Sent
      <4>2. turn'[p].hub # j BY <2>3, <1>8, <1>9
      <4>3. Single(hubs'[j].queue, "turn") /\ ~In(hubs'[j].queue, "turn") /\ hubs'[j].profile = p
        BY <4>1, <3>1, <3>2
      <4> QED BY <4>2, <4>3 DEF Sent, In, Single, Behind
    <3>3. CASE hubs[j].profile # p
      <4>1. turn'[hubs[j].profile] = turn[hubs[j].profile] BY <2>1, <3>3, <1>8
      <4> QED BY <4>1, <2>1, <3>1 DEF Sent, In, Single, Behind
    <3> QED BY <3>2, <3>3
  <2> QED BY <2>2, <2>3
<1>15. active' = active /\ \A j \in DOMAIN hubs : hubs'[j].profile = hubs[j].profile
  BY <1>4, <1>5 DEF Becomes, active
<1>16. ASSUME NEW q \in Profiles PROVE Known(q)'
  <2>1. CASE q = p BY <2>1, <1>4, <1>5, <1>8, <1>9, <1>15 DEF Known, Becomes
  <2>2. CASE q # p BY <2>2, <1>1, <1>4, <1>8, <1>15 DEF Known, Becomes, Turned
  <2> QED BY <2>1, <2>2
<1>17. Turned' BY <1>4, <1>6, <1>14, <1>16 DEF Turned, Busy, Becomes
<1>18. HealthyHostSpared' BY <1>6, <1>15 DEF IInv, HealthyHostSpared
<1> QED BY <1>10, <1>11, <1>17, <1>18, CalmKeeps DEF IInv, Safely

\* Time passes for the controller's cooldown and for each host alike.
LEMMA TickSafe == ASSUME IInv, RemoteAssumption, Tick PROVE Safely
<1>1. Typed /\ Restarts /\ Turned /\ HealthyHostSpared BY DEF IInv
<1>2. /\ ctl' = [ctl EXCEPT !.cool = IF ctl.cool > 0 THEN ctl.cool - 1 ELSE 0]
      /\ since' = [p \in Profiles |-> IF since[p] < Cooldown THEN since[p] + 1 ELSE Cooldown]
      /\ UNCHANGED <<hubs, tasks, daemon, turn>>
  BY DEF Tick
<1>3. Cooldown \in Nat /\ ctl.cool \in Nat /\ \A p \in Profiles : since[p] \in 0..Cooldown
  BY <1>1 DEF Typed, Controls, RemoteAssumption
<1>4. /\ ctl' \in Controls /\ ctl'.inProgress = ctl.inProgress /\ ctl'.busy = ctl.busy
      /\ ctl'.pending = ctl.pending /\ ctl'.remote = ctl.remote
      /\ ctl'.cool = IF ctl.cool > 0 THEN ctl.cool - 1 ELSE 0
  <2>1. (IF ctl.cool > 0 THEN ctl.cool - 1 ELSE 0) \in Nat BY <1>3
  <2> QED BY <2>1, <1>1, <1>2 DEF Typed, Controls
<1>5. ASSUME NEW p \in Profiles
      PROVE  /\ since'[p] \in 0..Cooldown
             /\ since[p] = Cooldown => since'[p] = Cooldown
             /\ since[p] + ctl.cool >= Cooldown => since'[p] + ctl'.cool >= Cooldown
  <2>1. since'[p] = IF since[p] < Cooldown THEN since[p] + 1 ELSE Cooldown BY <1>2
  <2> QED BY <2>1, <1>3, <1>4
<1>6. Typed'
  <2>1. since' \in [Profiles -> 0..Cooldown] BY <1>2, <1>5
  <2> QED BY <2>1, <1>1, <1>2, <1>4 DEF Typed
<1>7. QueueAt' = QueueAt /\ EventAt' = EventAt /\ RestartTasks' = RestartTasks
  BY <1>2 DEF QueueAt, EventAt, RestartTasks, In
<1>8. Lone' BY <1>1, <1>2, <1>4, <1>7 DEF Restarts, Lone, Single
<1>9. Cooling' BY <1>1, <1>4, <1>5 DEF Restarts, Cooling
<1>10. Spaced'
  <2>1. \A j \in DOMAIN hubs : hubs[j].profile \in Profiles BY <1>1, HubTypes
  <2>2. \A j \in DOMAIN hubs' : Autos(hubs'[j].queue) => since'[hubs'[j].profile] = Cooldown
    BY <2>1, <1>1, <1>2, <1>5 DEF Restarts, Spaced
  <2>3. \A t \in tasks' : t.auto => since'[hubs'[t.hub].profile] = Cooldown
    BY <2>1, <1>1, <1>2, <1>5 DEF Restarts, Spaced, Typed
  <2> QED BY <2>2, <2>3 DEF Spaced, Autos
<1>11. Unknown' BY <1>1, <1>2, <1>7 DEF Restarts, Unknown, Restarting
<1>12. Turned'
  <2>1. active' = active /\ hub' = hub BY <1>2 DEF active, hub
  <2>2. Busy' BY <1>1, <1>2, <1>4, <2>1 DEF Turned, Busy, Fresh
  <2>3. \A j \in DOMAIN hubs' : Sent(j)' BY <1>1, <1>2 DEF Turned, Sent, In, Single, Behind
  <2>4. \A p \in Profiles : Known(p)' BY <1>1, <1>2 DEF Turned, Known
  <2> QED BY <2>2, <2>3, <2>4 DEF Turned
<1>13. HealthyHostSpared' BY <1>1, <1>2, <1>4 DEF HealthyHostSpared, active
<1>14. Kept BY <1>4, <1>7 DEF Kept, Restarting
<1> QED BY <1>6, <1>8, <1>9, <1>10, <1>11, <1>12, <1>13, <1>14 DEF IInv, Restarts, Safely

---------------------------------------------------------------------------
(* The profiles.                                                           *)

LEMMA InEmpty ==
    ASSUME NEW k
    PROVE  ~In(<<>>, k) /\ Single(<<>>, k) /\ ~Autos(<<>>) /\ Behind(<<>>)
<1>1. DOMAIN <<>> = {} OBVIOUS
<1> QED BY <1>1 DEF In, Single, Autos, Behind

\* The hub of the profile shown now is a new one, with nothing in it; the old
\* one is told to shut down, and its events are gone.
LEMMA SwitchProfileSafe == ASSUME IInv, NEW p \in Profiles, SwitchProfile(p) PROVE Safely
<1> DEFINE c == Command("shutdown")
           hs == Queue(hubs, c)
           m == Len(hubs) + 1
           e == <<>>
<1>1. Typed /\ Restarts /\ Turned BY DEF IInv
<1>2. c \in Commands /\ c.kind = "shutdown" /\ ~c.auto BY DEF Command, Commands
<1>3. /\ hubs' = Append([hs EXCEPT ![active].events = e], Hub(p))
      /\ ctl' = [ctl EXCEPT !.expected = FALSE, !.handoff = FALSE, !.remote = "unknown", !.busy = FALSE]
      /\ UNCHANGED <<tasks, daemon, turn, since>>
  BY DEF SwitchProfile
<1>4. /\ Len(hubs) \in Nat /\ Len(hubs) > 0 /\ DOMAIN hubs = 1..Len(hubs) /\ active \in DOMAIN hubs
      /\ \A j \in DOMAIN hubs :
           /\ hubs[j].profile \in Profiles
           /\ hubs[j].queue \in Seq(Commands) /\ hubs[j].events \in Seq(Events)
  <2>1. Len(hubs) # 0 BY <1>1 DEF Typed
  <2> QED BY <2>1, <1>1, HubTypes
<1>5. PICK g : g = [hs EXCEPT ![active].events = e] OBVIOUS
<1>6. /\ g \in Seq(Hubs) /\ Len(g) = Len(hubs) /\ DOMAIN g = DOMAIN hubs
      /\ \A j \in DOMAIN hubs :
           /\ g[j].profile = hubs[j].profile /\ (g[j].events = hubs[j].events \/ g[j].events = e)
           /\ g[j].queue = hubs[j].queue \/ g[j].queue = Append(hubs[j].queue, c)
  <2> DEFINE k == [hubs[active] EXCEPT !.queue = Append(hubs[active].queue, c)]
             h == [k EXCEPT !.events = e]
  <2>1. hubs[active] \in Hubs /\ hubs \in Seq(Hubs) BY <1>1, <1>4, HubTypes DEF Typed
  <2>2. Append(hubs[active].queue, c) \in Seq(Commands) /\ e \in Seq(Events) BY <1>2, <1>4
  <2>3. /\ h \in Hubs /\ h.profile = hubs[active].profile /\ h.events = e
        /\ h.queue = Append(hubs[active].queue, c)
    BY <2>1, <2>2 DEF Hubs
  <2>4. hs = [hubs EXCEPT ![active] = k] BY DEF Queue, active
  <2>5. active \in DOMAIN hs /\ hs[active] = k BY <2>4, <1>4
  <2>6. g = [hs EXCEPT ![active] = h] BY <1>5, <2>5
  <2> HIDE DEF h, hs, c, k, e
  <2>7. g = [hubs EXCEPT ![active] = h] BY <2>4, <2>6, <1>4, Overwritten
  <2>8. g \in Seq(Hubs) /\ Len(g) = Len(hubs) /\ DOMAIN g = DOMAIN hubs
    BY <2>1, <2>3, <2>7, <1>4
  <2> QED BY <2>3, <2>7, <2>8, <1>4
<1>7. Hub(p) \in Hubs /\ Hub(p) = [profile |-> p, conn |-> "down", managed |-> FALSE, queue |-> e, events |-> e]
  <2>1. <<>> \in Seq(Commands) /\ <<>> \in Seq(Events) OBVIOUS
  <2> QED BY <2>1 DEF Hub, Hubs
<1> HIDE DEF c, hs
<1>8. /\ hubs' \in Seq(Hubs) /\ Len(hubs') = m /\ DOMAIN hubs' = 1..m /\ hubs'[m] = Hub(p)
      /\ \A j \in DOMAIN hubs : hubs'[j] = g[j]
  <2>1. hubs' = Append(g, Hub(p)) BY <1>3, <1>5
  <2> QED BY <2>1, <1>4, <1>6, <1>7
<1>9. /\ \A j \in DOMAIN hubs : j \in DOMAIN hubs' /\ j # m /\ j \in Nat
      /\ \A j \in DOMAIN hubs' : j \in DOMAIN hubs \/ j = m
      /\ m \notin DOMAIN hubs /\ m \in DOMAIN hubs'
  BY <1>4, <1>8
<1>10. hubs'[m].profile = p /\ hubs'[m].queue = e /\ hubs'[m].events = e /\ hubs'[m].conn = "down"
  BY <1>7, <1>8
<1>11. ASSUME NEW j \in DOMAIN hubs
       PROVE  /\ In(hubs'[j].queue, "restart") <=> In(hubs[j].queue, "restart")
              /\ In(hubs'[j].events, "restart") => In(hubs[j].events, "restart")
              /\ Single(hubs[j].queue, "restart") => Single(hubs'[j].queue, "restart")
              /\ Single(hubs[j].events, "restart") => Single(hubs'[j].events, "restart")
              /\ Autos(hubs'[j].queue) => Autos(hubs[j].queue)
              /\ TameHub(hubs[j], hubs'[j]) /\ hubs'[j].profile = hubs[j].profile
  <2> DEFINE a == hubs[j]
             b == hubs'[j]
  <2>1. /\ b.profile = a.profile /\ (b.events = a.events \/ b.events = e)
        /\ b.queue = a.queue \/ b.queue = Append(a.queue, c)
        /\ a.queue \in Seq(Commands)
    BY <1>4, <1>6, <1>8
  <2> HIDE DEF a, b
  <2>2. b.queue = a.queue \/ Added(a.queue, b.queue, NoRestart) BY <1>2, <2>1 DEF Added, NoRestart
  <2>3. b.queue = a.queue \/ Added(a.queue, b.queue, Works \cup {"shutdown"}) BY <1>2, <2>1 DEF Added
  <2>4. /\ In(b.queue, "restart") <=> In(a.queue, "restart")
        /\ Single(a.queue, "restart") => Single(b.queue, "restart")
        /\ Autos(b.queue) => Autos(a.queue)
    BY <2>1, <2>2, CalmQueue
  <2>5. /\ In(b.events, "restart") => In(a.events, "restart")
        /\ Single(a.events, "restart") => Single(b.events, "restart")
    BY <2>1, InEmpty
  <2>6. TameHub(a, b) BY <2>1, <2>3, TameQueue DEF TameHub
  <2> QED BY <2>1, <2>4, <2>5, <2>6 DEF a, b
<1>12. /\ ctl' \in Controls /\ ctl'.inProgress = ctl.inProgress /\ ctl'.cool = ctl.cool
  BY <1>1, <1>3 DEF Typed, Controls
<1>13. Typed'
  <2>1. hubs' # <<>> BY <1>4, <1>8
  <2>2. \A t \in tasks' : t.hub \in DOMAIN hubs' BY <1>1, <1>3, <1>9 DEF Typed
  <2> QED BY <2>1, <2>2, <1>1, <1>3, <1>8, <1>12 DEF Typed
<1>14. QueueAt' = QueueAt /\ EventAt' \subseteq EventAt
  <2>1. ~In(hubs'[m].queue, "restart") /\ ~In(hubs'[m].events, "restart") BY <1>10, InEmpty
  <2>2. \A j \in DOMAIN hubs :
           /\ In(hubs'[j].queue, "restart") <=> In(hubs[j].queue, "restart")
           /\ In(hubs'[j].events, "restart") => In(hubs[j].events, "restart")
    BY <1>11
  <2>3. {j \in DOMAIN hubs' : In(hubs'[j].queue, "restart")} = {j \in DOMAIN hubs : In(hubs[j].queue, "restart")}
    BY <2>1, <2>2, <1>9
  <2>4. {j \in DOMAIN hubs' : In(hubs'[j].events, "restart")}
          \subseteq {j \in DOMAIN hubs : In(hubs[j].events, "restart")}
    BY <2>1, <2>2, <1>9
  <2> QED BY <2>3, <2>4 DEF QueueAt, EventAt, In
<1>15. RestartTasks' = RestartTasks BY <1>3 DEF RestartTasks
<1>16. Lone'
  <2>1. ASSUME NEW j \in DOMAIN hubs'
        PROVE  Single(hubs'[j].queue, "restart") /\ Single(hubs'[j].events, "restart")
    <3>1. CASE j = m BY <3>1, <1>10, InEmpty
    <3>2. CASE j \in DOMAIN hubs BY <3>2, <1>1, <1>11 DEF Restarts, Lone
    <3> QED BY <3>1, <3>2, <1>9
  <2>2. Lone BY <1>1 DEF Restarts
  <2>3. \A i \in QueueAt' : QueueAt' = {i} /\ EventAt' = {} /\ RestartTasks' = {}
    BY <2>2, <1>14, <1>15 DEF Lone
  <2>4. \A i \in EventAt' : EventAt' = {i} /\ QueueAt' = {} /\ RestartTasks' = {}
    BY <2>2, <1>14, <1>15 DEF Lone
  <2>5. \A t \in RestartTasks' : RestartTasks' = {t} /\ QueueAt' = {} /\ EventAt' = {}
    BY <2>2, <1>14, <1>15 DEF Lone
  <2>6. QueueAt' # {} \/ EventAt' # {} \/ RestartTasks' # {} => ctl'.inProgress
    BY <2>2, <1>12, <1>14, <1>15 DEF Lone
  <2> QED BY <2>1, <2>3, <2>4, <2>5, <2>6 DEF Lone, Single
<1>17. Cooling' BY <1>1, <1>3, <1>12 DEF Restarts, Cooling
<1>18. Spaced'
  <2>1. ASSUME NEW j \in DOMAIN hubs', Autos(hubs'[j].queue) PROVE since'[hubs'[j].profile] = Cooldown
    <3>1. CASE j = m BY <2>1, <3>1, <1>10, InEmpty
    <3>2. CASE j \in DOMAIN hubs BY <2>1, <3>2, <1>1, <1>3, <1>11 DEF Restarts, Spaced
    <3> QED BY <3>1, <3>2, <1>9
  <2>2. \A t \in tasks' : t.auto => since'[hubs'[t.hub].profile] = Cooldown
    BY <1>1, <1>3, <1>11 DEF Restarts, Spaced, Typed
  <2> QED BY <2>1, <2>2 DEF Spaced, Autos
<1>19. Unknown'
  <2>1. ASSUME NEW j \in DOMAIN hubs', Restarting(j)' PROVE ~turn'[hubs'[j].profile].known
    <3>1. Restarting(j) BY <2>1, <1>14, <1>15 DEF Restarting
    <3>2. j \in DOMAIN hubs BY <3>1, <1>1 DEF Restarting, QueueAt, EventAt, RestartTasks, Typed
    <3>3. ~turn[hubs[j].profile].known BY <3>1, <3>2, <1>1 DEF Restarts, Unknown
    <3> QED BY <3>2, <3>3, <1>3, <1>11
  <2> QED BY <2>1 DEF Unknown
<1>20. active' = m /\ hub' = hubs'[m] BY <1>8 DEF active, hub
<1>21. Busy'
  <2>1. \A t \in tasks' : t.hub # m BY <1>1, <1>3, <1>9 DEF Typed
  <2>2. Fresh' BY <2>1, <1>10, <1>20 DEF Fresh
  <2> QED BY <2>2 DEF Busy
<1>22. ASSUME NEW j \in DOMAIN hubs' PROVE Sent(j)'
  <2>1. CASE j = m
    <3>1. /\ Single(hubs'[j].queue, "turn") /\ ~In(hubs'[j].queue, "turn") /\ Behind(hubs'[j].queue)
          /\ ~In(hubs'[j].queue, "reconnect")
      BY <2>1, <1>10, InEmpty
    <3> QED BY <3>1 DEF Sent, In, Single, Behind
  <2>2. CASE j \in DOMAIN hubs
    <3>1. Sent(j) /\ TameHub(hubs[j], hubs'[j]) BY <2>2, <1>1, <1>11 DEF Turned
    <3> QED BY <3>1, <1>3 DEF Sent, TameHub, In, Single, Behind
  <2> QED BY <2>1, <2>2, <1>9
<1>23. ASSUME NEW q \in Profiles PROVE Known(q)'
  <2>1. Known(q) BY <1>1 DEF Turned
  <2> QED BY <2>1, <1>3, <1>9, <1>11 DEF Known, TameHub
<1>24. HealthyHostSpared' BY <1>4, <1>20 DEF HealthyHostSpared
<1>25. Kept
  <2>1. active = Len(hubs) BY DEF active
  <2>2. active' # active BY <2>1, <1>4, <1>20
  <2> QED BY <2>2 DEF Kept
<1> QED BY <1>13, <1>16, <1>17, <1>18, <1>19, <1>21, <1>22, <1>23, <1>24, <1>25
     DEF IInv, Restarts, Turned, Safely

---------------------------------------------------------------------------
(* The controller's handlers.                                              *)

LEMMA InShort ==
    ASSUME NEW c, NEW k
    PROVE  /\ In(<<c>>, k) <=> c.kind = k
           /\ Single(<<c>>, k) /\ Behind(<<c>>)
           /\ Autos(<<c>>) <=> c.auto
<1>1. DOMAIN <<c>> = {1} /\ <<c>>[1] = c OBVIOUS
<1> QED BY <1>1 DEF In, Single, Autos, Behind

LEMMA NoTurnBehind == ASSUME NEW q, ~In(q, "turn") PROVE Behind(q)
<1>1. \A m \in DOMAIN q : q[m].kind # "turn" BY DEF In
<1> QED BY <1>1 DEF Behind

\* The active hub after one of its events.
LEMMA HandleHub ==
    ASSUME Typed, hub.events # <<>>, NEW s \in Seq(Commands),
           hubs' = [hubs EXCEPT ![active].events = Tail(@), ![active].queue = @ \o s]
    PROVE  \E h \in Hubs : /\ Becomes(active, h) /\ h.profile = hub.profile /\ h.conn = hub.conn
                           /\ h.events = Tail(hub.events) /\ h.queue = hub.queue \o s
<1> DEFINE g == [hub EXCEPT !.events = Tail(hub.events)]
           h == [g EXCEPT !.queue = g.queue \o s]
           gs == [hubs EXCEPT ![active].events = Tail(@)]
<1>1. /\ active \in DOMAIN hubs /\ hub = hubs[active] /\ hub \in Hubs
      /\ hub.queue \in Seq(Commands) /\ hub.events \in Seq(Events)
  BY HubTypes DEF hub
<1>2. Tail(hub.events) \in Seq(Events) /\ hub.queue \o s \in Seq(Commands) BY <1>1
<1>3. /\ g \in Hubs /\ g.queue = hub.queue /\ g.profile = hub.profile /\ g.conn = hub.conn
      /\ g.events = Tail(hub.events)
  BY <1>1, <1>2 DEF Hubs
<1>4. gs = [hubs EXCEPT ![active] = g] BY <1>1
<1>5. active \in DOMAIN gs /\ gs[active] = g BY <1>1, <1>4
<1>6. hubs' = [gs EXCEPT ![active].queue = @ \o s] OBVIOUS
<1>7. hubs' = [gs EXCEPT ![active] = h] BY <1>5, <1>6
<1>8. /\ h \in Hubs /\ h.queue = hub.queue \o s /\ h.profile = hub.profile /\ h.conn = hub.conn
      /\ h.events = Tail(hub.events)
  BY <1>2, <1>3 DEF Hubs
<1> HIDE DEF h, gs, g
<1>9. hubs' = [hubs EXCEPT ![active] = h] BY <1>1, <1>4, <1>7, Overwritten
<1>10. Becomes(active, h) BY <1>1, <1>8, <1>9, HubBecomes
<1> QED BY <1>8, <1>10

\* Turns stay as they are through a handler whose reconnect, if it asks for
\* one, meets no turn that is known of.
LEMMA TurnedHandled ==
    ASSUME Typed, Turned, NEW s \in Seq(Commands), NEW h \in Hubs, Becomes(active, h),
           h.profile = hub.profile, h.queue = hub.queue \o s,
           ~In(s, "turn"), turn[hub.profile].known => ctl'.busy /\ ~In(s, "reconnect"),
           turn' = turn
    PROVE  Turned'
<1> DEFINE p == hub.profile
<1>1. active \in DOMAIN hubs /\ hub = hubs[active] /\ p \in Profiles /\ hub.queue \in Seq(Commands)
  BY HubTypes DEF hub
<1>2. active' = active /\ \A j \in DOMAIN hubs : hubs'[j].profile = hubs[j].profile
  BY <1>1 DEF Becomes, active
<1>3. hub'.profile = p BY <1>1, <1>2 DEF hub
<1>4. Busy' BY <1>3 DEF Busy
<1>5. ASSUME NEW j \in DOMAIN hubs PROVE Sent(j)'
  <2>1. Sent(j) BY DEF Turned
  <2>2. CASE j = active
    <3>1. hubs'[j].queue = h.queue /\ hubs'[j].profile = p BY <2>2 DEF Becomes
    <3>2. Single(hub.queue, "turn") /\ (In(hub.queue, "turn") => turn[p].at = "queued" /\ turn[p].hub = j)
      BY <2>1, <2>2, <1>1 DEF Sent
    <3>3. turn[p].known /\ turn[p].hub = j =>
            Behind(hub.queue) /\ (turn[p].at = "direct" => ~In(hub.queue, "reconnect"))
      BY <2>1, <2>2, <1>1 DEF Sent
    <3>4. In(h.queue, "turn") <=> In(hub.queue, "turn") BY <1>1, InConcat
    <3>5. Single(h.queue, "turn")
      <4>1. Single(s, "turn") BY DEF Single, In
      <4> QED BY <4>1, <3>2, <1>1, InConcat
    <3>6. turn[p].known => (In(h.queue, "reconnect") <=> In(hub.queue, "reconnect"))
      BY <1>1, InConcat
    <3>7. turn[p].known => (Behind(hub.queue) => Behind(h.queue))
      <4>1. Behind(s) BY NoTurnBehind
      <4>2. PICK k : k = "turn" OBVIOUS
      <4> QED BY <4>1, <4>2, <1>1, InConcat
    <3> HIDE DEF p
    <3>8. Single(hubs'[j].queue, "turn") BY <3>1, <3>5
    <3>9. In(hubs'[j].queue, "turn") => turn'[p].at = "queued" /\ turn'[p].hub = j
      BY <3>1, <3>2, <3>4
    <3>10. turn'[p].known /\ turn'[p].hub = j =>
             Behind(hubs'[j].queue) /\ (turn'[p].at = "direct" => ~In(hubs'[j].queue, "reconnect"))
      BY <3>1, <3>3, <3>6, <3>7
    <3> QED BY <3>1, <3>8, <3>9, <3>10 DEF Sent, In, Single, Behind
  <2>3. CASE j # active
    <3>1. hubs'[j] = hubs[j] BY <2>3 DEF Becomes
    <3> QED BY <3>1, <2>1 DEF Sent, In, Single, Behind
  <2> QED BY <2>2, <2>3
<1>6. ASSUME NEW q \in Profiles PROVE Known(q)'
  <2>1. Known(q) BY DEF Turned
  <2> QED BY <2>1, <1>2 DEF Known, Becomes
<1> QED BY <1>4, <1>5, <1>6 DEF Turned, Becomes

\* What the handlers of results and of completions do: they ask for no turn,
\* for no reconnect and no restart while a turn is known of, and for a restart
\* after the cooldown only, and while no other is under way.
Replies(r) ==
    LET known == turn[hub.profile].known
    IN  /\ r.ctl \in Controls /\ r.ctl.cool = ctl.cool /\ r.queue \in Seq(Commands)
        /\ ~In(r.queue, "turn")
        /\ known /\ ctl.busy => r.ctl.busy /\ ~In(r.queue, "reconnect")
        /\ \/ ~In(r.queue, "restart") /\ r.ctl.inProgress = ctl.inProgress
           \/ /\ Single(r.queue, "restart") /\ In(r.queue, "restart") /\ r.ctl.inProgress
              /\ ~ctl.inProgress /\ ctl.cool = 0 /\ ~(known /\ ctl.busy)
        /\ r.ctl.pending /\ r.ctl.remote = "connected" => ctl.pending /\ ctl.remote = "connected"

LEMMA RepliesSafe ==
    ASSUME IInv, RemoteAssumption, hub.events # <<>>, Head(hub.events).kind \notin {"ready", "restart"},
           NEW r, Replies(r), ctl' = r.ctl,
           hubs' = [hubs EXCEPT ![active].events = Tail(@), ![active].queue = @ \o r.queue],
           UNCHANGED <<turn, tasks, daemon, since>>
    PROVE  Safely
<1> DEFINE p == hub.profile
<1>1. Typed /\ Restarts /\ Turned BY DEF IInv
<1>2. PICK s \in Seq(Commands) : s = r.queue BY DEF Replies
<1>3. PICK h \in Hubs : /\ Becomes(active, h) /\ h.profile = hub.profile /\ h.conn = hub.conn
                        /\ h.events = Tail(hub.events) /\ h.queue = hub.queue \o s
  BY <1>1, <1>2, HandleHub
<1>4. /\ active \in DOMAIN hubs /\ hub = hubs[active] /\ p \in Profiles
      /\ hub.queue \in Seq(Commands) /\ hub.events \in Seq(Events)
  BY <1>1, HubTypes DEF hub
<1>5. ~(turn[p].known /\ ~ctl.busy) BY <1>1 DEF Turned, Busy, Fresh
<1>6. /\ ctl' \in Controls /\ ctl'.cool = ctl.cool /\ ~In(s, "turn")
      /\ turn[p].known => ctl'.busy /\ ~In(s, "reconnect")
  BY <1>2, <1>5 DEF Replies
<1>7. Typed' BY <1>1, <1>3, <1>6 DEF Typed, Becomes
<1>8. Turned' BY <1>1, <1>3, <1>6, TurnedHandled
<1>9. HealthyHostSpared'
  BY <1>3 DEF IInv, HealthyHostSpared, active, Becomes, Replies
<1>10. Head(hub.events) \in Events BY <1>4
<1>11. /\ In(h.events, "restart") <=> In(hub.events, "restart")
       /\ Single(hub.events, "restart") => Single(h.events, "restart")
  <2>1. Taken(hub.events, h.events, NoRestart) BY <1>3, <1>10 DEF Taken, Events, NoRestart, Works
  <2> QED BY <2>1, <1>4, CalmEvents
<1>12. CASE ~In(s, "restart") /\ ctl'.inProgress = ctl.inProgress
  <2>1. CalmHub(hub, h)
    <3>1. In(h.queue, "restart") <=> In(hub.queue, "restart") BY <1>3, <1>4, <1>12, InConcat
    <3>2. Single(hub.queue, "restart") => Single(h.queue, "restart")
      <4>1. Single(s, "restart") BY <1>12 DEF Single, In
      <4> QED BY <4>1, <1>3, <1>4, <1>12, InConcat
    <3>3. Autos(h.queue) => Autos(hub.queue)
      <4>1. ~Autos(s) BY <1>12, AutosRestart
      <4>2. /\ In(hub.queue \o s, "restart") <=> In(hub.queue, "restart") \/ In(s, "restart")
            /\ Autos(hub.queue \o s) <=> Autos(hub.queue) \/ Autos(s)
        BY <1>4, InConcat
      <4> QED BY <4>1, <4>2, <1>3
    <3> QED BY <3>1, <3>2, <3>3, <1>3, <1>11 DEF CalmHub
  <2>2. \A j \in DOMAIN hubs : CalmHub(hubs[j], hubs'[j]) BY <2>1, <1>3, <1>4 DEF Becomes, CalmHub
  <2>3. Calm BY <2>2, <1>3, <1>6, <1>12 DEF Calm, Becomes, RestartTasks
  <2> QED BY <2>3, <1>1, <1>7, <1>8, <1>9, CalmKeeps DEF IInv, Safely
<1>13. CASE /\ Single(s, "restart") /\ In(s, "restart") /\ ctl'.inProgress
            /\ ~ctl.inProgress /\ ctl.cool = 0 /\ ~turn[p].known
  <2>1. QueueAt = {} /\ EventAt = {} /\ RestartTasks = {} BY <1>1, <1>13 DEF Restarts, Lone
  <2>2. OthersHold(active) /\ hubs'[active] = h BY <1>3 DEF OthersHold, Becomes
  <2>3. In(h.queue, "restart") /\ Single(h.queue, "restart")
    <3>1. ~In(hub.queue, "restart") BY <2>1, <1>4 DEF QueueAt
    <3>2. Single(hub.queue, "restart") BY <1>1, <1>4 DEF Restarts, Lone
    <3>3. In(h.queue, "restart") BY <1>3, <1>4, <1>13, InConcat
    <3>4. Single(h.queue, "restart") BY <3>1, <3>2, <1>3, <1>4, <1>13, InConcat
    <3> QED BY <3>3, <3>4
  <2>4. ~In(h.events, "restart") BY <2>1, <1>4, <1>11 DEF EventAt
  <2>5. QueueAt' = {active} /\ EventAt' = {}
    BY <2>1, <2>2, <2>3, <2>4, <1>4, PlacesMove
  <2>6. RestartTasks' = {} BY <2>1 DEF RestartTasks
  <2>7. Lone'
    <3>1. \A j \in DOMAIN hubs' : Single(hubs'[j].queue, "restart") /\ Single(hubs'[j].events, "restart")
      BY <2>2, <2>3, <1>1, <1>3, <1>4, <1>11 DEF Restarts, Lone, Becomes
    <3> QED BY <3>1, <2>5, <2>6, <1>13 DEF Lone, Single
  <2>8. Cooling' BY <1>13 DEF Cooling
  <2>9. \A q \in Profiles : since[q] = Cooldown
    <3>1. \A q \in Profiles : since[q] + 0 >= Cooldown BY <1>1, <1>13 DEF Restarts, Cooling
    <3>2. \A q \in Profiles : since[q] \in 0..Cooldown BY <1>1 DEF Typed
    <3> QED BY <3>1, <3>2 DEF RemoteAssumption
  <2>10. Spaced'
    <3>1. \A j \in DOMAIN hubs' : hubs'[j].profile \in Profiles BY <1>1, <1>3, HubTypes DEF Becomes
    <3>2. \A t \in tasks' : ~t.auto BY <2>1, <1>1 DEF Typed, Spawns, RestartTasks
    <3> QED BY <3>1, <3>2, <2>9 DEF Spaced, Autos
  <2>11. Unknown'
    <3>1. \A j \in DOMAIN hubs' : Restarting(j)' => j = active BY <2>5, <2>6 DEF Restarting
    <3> QED BY <3>1, <2>2, <1>3, <1>13 DEF Unknown
  <2>12. Kept
    <3>1. active' = active BY <1>3 DEF Becomes, active
    <3>2. Restarting(active)' BY <2>5, <3>1 DEF Restarting
    <3> QED BY <3>2 DEF Kept
  <2> QED BY <2>7, <2>8, <2>10, <2>11, <2>12, <1>7, <1>8, <1>9 DEF IInv, Restarts, Safely
<1> QED BY <1>2, <1>5, <1>12, <1>13 DEF Replies

\* The parts the handlers are built from.
LEMMA RecoveredControl ==
    ASSUME NEW c \in Controls
    PROVE  /\ Recovered(c) \in Controls /\ Recovered(c).cool = c.cool /\ Recovered(c).busy = c.busy
           /\ Recovered(c).remote = c.remote /\ (Recovered(c).pending => c.pending)
           /\ Recovered(c).inProgress = (c.inProgress \/ MayRecover(c))
           /\ Recovery(c) \in Seq(Commands)
           /\ \A k : In(Recovery(c), k) <=> MayRecover(c) /\ k = "restart"
           /\ Single(Recovery(c), "restart")
<1> DEFINE d == [kind |-> "restart", auto |-> TRUE]
<1>1. d \in Commands BY DEF Commands, Works
<1>2. <<d>> \in Seq(Commands) /\ <<>> \in Seq(Commands) BY <1>1
<1>3. CASE MayRecover(c)
  <2>1. Recovery(c) = <<d>> BY <1>3 DEF Recovery
  <2>2. \A k : In(<<d>>, k) <=> k = "restart" BY InShort
  <2>3. Recovered(c) = [c EXCEPT !.inProgress = TRUE, !.pending = FALSE] BY <1>3 DEF Recovered
  <2>4. /\ Recovered(c) \in Controls /\ Recovered(c).cool = c.cool /\ Recovered(c).busy = c.busy
        /\ Recovered(c).remote = c.remote /\ ~Recovered(c).pending /\ Recovered(c).inProgress = TRUE
    BY <2>3 DEF Controls
  <2>5. Single(<<d>>, "restart") BY InShort
  <2> HIDE DEF d
  <2> QED BY <2>1, <2>2, <2>4, <2>5, <1>2, <1>3
<1>4. CASE ~MayRecover(c)
  <2>1. Recovery(c) = <<>> /\ Recovered(c) = c BY <1>4 DEF Recovery, Recovered
  <2>2. \A k : ~In(<<>>, k) /\ Single(<<>>, k) BY InEmpty
  <2>3. c.inProgress \in BOOLEAN BY DEF Controls
  <2> QED BY <2>1, <2>2, <2>3, <1>2, <1>4
<1> QED BY <1>3, <1>4

LEMMA HandoffControl ==
    ASSUME Typed, NEW c \in Controls
    PROVE  /\ HandedOff(c) \in Controls /\ HandedOff(c).cool = c.cool /\ HandedOff(c).busy = c.busy
           /\ HandedOff(c).remote = c.remote /\ HandedOff(c).pending = c.pending
           /\ HandedOff(c).inProgress = c.inProgress
           /\ Handoff(c) \in Seq(Commands)
           /\ \A k : In(Handoff(c), k) => k = "reconnect" /\ ~c.busy
<1>1. hub.managed \in BOOLEAN BY HubTypes DEF Hubs
<1>2. (~hub.managed /\ c.busy) \in BOOLEAN OBVIOUS
<1>3. HandedOff(c) = [c EXCEPT !.handoff = ~hub.managed /\ c.busy] BY DEF HandedOff
<1>4. /\ HandedOff(c) \in Controls /\ HandedOff(c).cool = c.cool /\ HandedOff(c).busy = c.busy
      /\ HandedOff(c).remote = c.remote /\ HandedOff(c).pending = c.pending
      /\ HandedOff(c).inProgress = c.inProgress
  BY <1>2, <1>3 DEF Controls
<1>5. Command("reconnect") \in Commands /\ Command("reconnect").kind = "reconnect"
  BY DEF Commands, Command
<1>6. <<Command("reconnect")>> \in Seq(Commands) /\ <<>> \in Seq(Commands) BY <1>5
<1>7. Handoff(c) \in Seq(Commands) BY <1>6 DEF Handoff
<1>8. \A k : In(Handoff(c), k) => k = "reconnect" /\ ~c.busy
  <2> TAKE k
  <2>1. ~In(<<>>, k) BY InEmpty
  <2>2. In(<<Command("reconnect")>>, k) => k = "reconnect" BY <1>5, InShort
  <2> QED BY <2>1, <2>2 DEF Handoff
<1> QED BY <1>4, <1>7, <1>8

LEMMA ObservedControl ==
    ASSUME NEW c \in Controls, NEW bad \in BOOLEAN
    PROVE  /\ Observed(c, bad) \in Controls /\ Observed(c, bad).cool = c.cool
           /\ Observed(c, bad).busy = c.busy /\ Observed(c, bad).remote = c.remote
           /\ Observed(c, bad).inProgress = c.inProgress
           /\ ~bad => ~Observed(c, bad).pending
<1>1. CASE bad
  <2>1. (c.pending \/ c.samples + 1 >= Samples) \in BOOLEAN OBVIOUS
  <2>2. (IF c.samples < Samples THEN c.samples + 1 ELSE c.samples) \in Nat BY DEF Controls
  <2>3. Observed(c, bad) = [c EXCEPT !.samples = IF c.samples < Samples THEN c.samples + 1 ELSE c.samples,
                                     !.pending = c.pending \/ c.samples + 1 >= Samples]
    BY <1>1 DEF Observed
  <2> QED BY <2>1, <2>2, <2>3, <1>1 DEF Controls
<1>2. CASE ~bad
  <2>1. PICK o : o = Observed(c, bad) OBVIOUS
  <2>2. o = [c EXCEPT !.samples = 0, !.pending = FALSE] BY <2>1, <1>2 DEF Observed
  <2>3. /\ o \in Controls /\ o.cool = c.cool /\ o.busy = c.busy /\ o.remote = c.remote
        /\ o.inProgress = c.inProgress /\ ~o.pending
    BY <2>2 DEF Controls
  <2> QED BY <2>1, <2>3
<1> QED BY <1>1, <1>2

\* A hand-over and a recovery, in either order.
LEMMA BothParts ==
    ASSUME NEW q \in Seq(Commands), NEW s \in Seq(Commands),
           Single(q, "restart"), Single(s, "restart"), ~(In(q, "restart") /\ In(s, "restart"))
    PROVE  /\ q \o s \in Seq(Commands) /\ Single(q \o s, "restart")
           /\ \A k : In(q \o s, k) <=> In(q, k) \/ In(s, k)
BY InConcat

LEMMA StatusReplies ==
    ASSUME Typed, NEW v \in Values
    PROVE  Replies(OnStatus(ctl, v))
<1> DEFINE up  == v \in {"connected", "connecting", "overloaded"}
           bad == Unhealthy(ctl, v)
           c1  == [ctl EXCEPT !.expected = ctl.expected \/ up, !.remote = v]
           c0  == IF up /\ ~hub.managed THEN HandedOff(c1) ELSE c1
           c2  == Observed(c0, bad)
           ask == bad /\ c2.samples = Samples
           q   == IF up /\ ~hub.managed THEN Handoff(c1) ELSE <<>>
           s   == IF ask THEN Recovery(c2) ELSE <<>>
           r   == OnStatus(ctl, v)
<1>1. r = [ctl |-> IF ask THEN Recovered(c2) ELSE c2, queue |-> q \o s] BY DEF OnStatus
<1>2. ctl \in Controls BY DEF Typed
<1>3. /\ c1 \in Controls /\ c1.cool = ctl.cool /\ c1.busy = ctl.busy /\ c1.remote = v
      /\ c1.inProgress = ctl.inProgress
  BY <1>2 DEF Controls
<1>4. bad \in BOOLEAN /\ (v = "connected" => ~bad) BY DEF Unhealthy
<1> HIDE DEF c1, bad, up
<1>5. /\ c0 \in Controls /\ c0.cool = ctl.cool /\ c0.busy = ctl.busy /\ c0.remote = v
      /\ c0.inProgress = ctl.inProgress
  BY <1>3, HandoffControl
<1>6. /\ q \in Seq(Commands) /\ \A k : In(q, k) => k = "reconnect" /\ ~ctl.busy
  <2>1. <<>> \in Seq(Commands) OBVIOUS
  <2> QED BY <2>1, <1>3, HandoffControl, InEmpty
<1> HIDE DEF c0, q
<1>7. /\ c2 \in Controls /\ c2.cool = ctl.cool /\ c2.busy = ctl.busy /\ c2.remote = v
      /\ c2.inProgress = ctl.inProgress /\ (v = "connected" => ~c2.pending)
  BY <1>4, <1>5, ObservedControl
<1> HIDE DEF c2
<1>8. /\ s \in Seq(Commands) /\ Single(s, "restart")
      /\ \A k : In(s, k) <=> ask /\ MayRecover(c2) /\ k = "restart"
  <2>1. <<>> \in Seq(Commands) OBVIOUS
  <2> QED BY <2>1, <1>7, RecoveredControl, InEmpty
<1>9. PICK rc : rc = IF ask THEN Recovered(c2) ELSE c2 OBVIOUS
<1>10. /\ rc \in Controls /\ rc.cool = ctl.cool /\ rc.busy = ctl.busy /\ rc.remote = v
       /\ rc.inProgress = (ctl.inProgress \/ (ask /\ MayRecover(c2)))
       /\ v = "connected" => ~rc.pending
  <2>1. c2.inProgress \in BOOLEAN BY <1>7 DEF Controls
  <2>2. CASE ask BY <2>2, <1>7, <1>9, RecoveredControl
  <2>3. CASE ~ask BY <2>1, <2>3, <1>7, <1>9
  <2> QED BY <2>2, <2>3
<1>11. MayRecover(c2) => ~ctl.inProgress /\ ctl.cool = 0 /\ ~ctl.busy BY <1>7 DEF MayRecover
<1> HIDE DEF s, ask
<1>12. Single(q, "restart") /\ ~In(q, "restart")
  <2>1. ~In(q, "restart") BY <1>6
  <2> QED BY <2>1 DEF Single, In
<1>13. /\ q \o s \in Seq(Commands) /\ Single(q \o s, "restart")
       /\ \A k : In(q \o s, k) <=> In(q, k) \/ In(s, k)
  BY <1>6, <1>8, <1>12, BothParts
<1>14. r.ctl = rc /\ r.queue = q \o s BY <1>1, <1>9
<1> HIDE DEF r
<1>15. ~In(r.queue, "turn") /\ (In(r.queue, "reconnect") => ~ctl.busy)
  <2>1. ~In(q, "turn") /\ (In(q, "reconnect") => ~ctl.busy) BY <1>6
  <2>2. ~In(s, "turn") /\ ~In(s, "reconnect") BY <1>8
  <2>3. In(q \o s, "turn") <=> In(q, "turn") \/ In(s, "turn") BY <1>13
  <2>4. In(q \o s, "reconnect") <=> In(q, "reconnect") \/ In(s, "reconnect") BY <1>13
  <2> QED BY <2>1, <2>2, <2>3, <2>4, <1>14
<1>16. In(r.queue, "restart") <=> ask /\ MayRecover(c2) BY <1>8, <1>12, <1>13, <1>14
<1>17. ctl.inProgress \in BOOLEAN BY <1>2 DEF Controls
<1>18. \/ ~In(r.queue, "restart") /\ r.ctl.inProgress = ctl.inProgress
       \/ /\ Single(r.queue, "restart") /\ In(r.queue, "restart") /\ r.ctl.inProgress
          /\ ~ctl.inProgress /\ ctl.cool = 0 /\ ~ctl.busy
  BY <1>10, <1>11, <1>13, <1>14, <1>16, <1>17
<1>19. r.ctl \in Controls /\ r.ctl.cool = ctl.cool /\ r.queue \in Seq(Commands) /\ r.ctl.busy = ctl.busy
  BY <1>10, <1>13, <1>14
<1>20. r.ctl.pending /\ r.ctl.remote = "connected" => ctl.pending /\ ctl.remote = "connected"
  BY <1>10, <1>14
<1> QED BY <1>15, <1>18, <1>19, <1>20 DEF Replies, r

LEMMA SwitchedReplies ==
    ASSUME Typed, NEW k, NEW v
    PROVE  Replies(OnSwitched(ctl, k, v))
<1> DEFINE r == OnSwitched(ctl, k, v)
<1>1. ctl \in Controls /\ ctl.inProgress \in BOOLEAN BY DEF Typed, Controls
<1>2. "error" \in Values /\ "connecting" \in Values /\ "disabled" \in Values BY DEF Values
<1>3. <<>> \in Seq(Commands) /\ \A x : ~In(<<>>, x) BY InEmpty
<1> SUFFICES /\ r.ctl \in Controls /\ r.ctl.cool = ctl.cool /\ r.ctl.busy = ctl.busy
             /\ r.ctl.inProgress = ctl.inProgress /\ r.ctl.remote # "connected"
             /\ r.queue \in Seq(Commands) /\ \A x : In(r.queue, x) => x = "reconnect" /\ ~ctl.busy
  <2> HIDE DEF r
  <2> QED BY DEF Replies, r
<1>4. CASE v = "error"
  <2>1. r = [ctl |-> [ctl EXCEPT !.remote = "error"], queue |-> <<>>] BY <1>4 DEF OnSwitched
  <2> HIDE DEF r
  <2> QED BY <2>1, <1>1, <1>2, <1>3 DEF Controls
<1>5. CASE v # "error" /\ k = "enable"
  <2> DEFINE c1 == [ctl EXCEPT !.expected = TRUE, !.remote = "connecting"]
  <2>1. r = [ctl |-> HandedOff(c1), queue |-> Handoff(c1)] BY <1>5 DEF OnSwitched
  <2>2. /\ c1 \in Controls /\ c1.cool = ctl.cool /\ c1.busy = ctl.busy
        /\ c1.inProgress = ctl.inProgress /\ c1.remote = "connecting"
    BY <1>1, <1>2 DEF Controls
  <2> HIDE DEF r, c1
  <2> QED BY <2>1, <2>2, HandoffControl
<1>6. CASE v # "error" /\ k # "enable"
  <2>1. r = [ctl |-> [ctl EXCEPT !.expected = FALSE, !.handoff = FALSE, !.remote = "disabled"], queue |-> <<>>]
    BY <1>6 DEF OnSwitched
  <2> HIDE DEF r
  <2> QED BY <2>1, <1>1, <1>2, <1>3 DEF Controls
<1> QED BY <1>4, <1>5, <1>6

\* turn/completed: the controller is no longer busy only if there is no turn,
\* so that what was put off meets none.
LEMMA CompletedReplies ==
    ASSUME Typed, Turned
    PROVE  Replies(OnCompleted(ctl))
<1> DEFINE c1 == [ctl EXCEPT !.busy = ctl.busy /\ turn[hub.profile].at # "none"]
           c2 == Recovered(c1)
           rc == IF ctl.handoff THEN HandedOff(c2) ELSE c2
           q  == Recovery(c1)
           s  == IF ctl.handoff THEN Handoff(c2) ELSE <<>>
           r  == OnCompleted(ctl)
           known == turn[hub.profile].known
<1>1. r = [ctl |-> rc, queue |-> q \o s] BY DEF OnCompleted
<1>2. ctl \in Controls /\ ctl.inProgress \in BOOLEAN BY DEF Typed, Controls
<1>3. known => turn[hub.profile].at # "none" BY HubTypes DEF Turned, Known
<1>4. (ctl.busy /\ turn[hub.profile].at # "none") \in BOOLEAN OBVIOUS
<1>5. /\ c1 \in Controls /\ c1.cool = ctl.cool /\ c1.remote = ctl.remote /\ c1.pending = ctl.pending
      /\ c1.inProgress = ctl.inProgress /\ (known /\ ctl.busy => c1.busy)
  BY <1>2, <1>3, <1>4 DEF Controls
<1> HIDE DEF c1
<1>6. /\ c2 \in Controls /\ c2.cool = ctl.cool /\ c2.remote = ctl.remote /\ c2.busy = c1.busy
      /\ (c2.pending => ctl.pending) /\ c2.inProgress = (ctl.inProgress \/ MayRecover(c1))
  BY <1>5, RecoveredControl
<1>7. /\ q \in Seq(Commands) /\ Single(q, "restart")
      /\ \A k : In(q, k) <=> MayRecover(c1) /\ k = "restart"
  BY <1>5, RecoveredControl
<1> HIDE DEF c2, q
<1>8. /\ rc \in Controls /\ rc.cool = ctl.cool /\ rc.remote = ctl.remote /\ rc.busy = c1.busy
      /\ (rc.pending => ctl.pending) /\ rc.inProgress = (ctl.inProgress \/ MayRecover(c1))
  BY <1>6, HandoffControl
<1>9. /\ s \in Seq(Commands) /\ \A k : In(s, k) => k = "reconnect" /\ ~c1.busy
  <2>1. <<>> \in Seq(Commands) OBVIOUS
  <2> QED BY <2>1, <1>6, HandoffControl, InEmpty
<1> HIDE DEF rc, s, r
<1>10. Single(s, "restart") /\ ~In(s, "restart")
  <2>1. ~In(s, "restart") BY <1>9
  <2> QED BY <2>1 DEF Single, In
<1>11. /\ q \o s \in Seq(Commands) /\ Single(q \o s, "restart")
       /\ \A k : In(q \o s, k) <=> In(q, k) \/ In(s, k)
  BY <1>7, <1>9, <1>10, BothParts
<1>12. r.ctl = rc /\ r.queue = q \o s BY <1>1
<1>13. ~In(r.queue, "turn") /\ (In(r.queue, "reconnect") => ~c1.busy)
  <2>1. ~In(q, "turn") /\ ~In(q, "reconnect") BY <1>7
  <2>2. ~In(s, "turn") /\ (In(s, "reconnect") => ~c1.busy) BY <1>9
  <2>3. In(q \o s, "turn") <=> In(q, "turn") \/ In(s, "turn") BY <1>11
  <2>4. In(q \o s, "reconnect") <=> In(q, "reconnect") \/ In(s, "reconnect") BY <1>11
  <2> QED BY <2>1, <2>2, <2>3, <2>4, <1>12
<1>14. In(r.queue, "restart") <=> MayRecover(c1)
  <2>1. In(q \o s, "restart") <=> In(q, "restart") \/ In(s, "restart") BY <1>11
  <2> QED BY <2>1, <1>7, <1>10, <1>12
<1>15. MayRecover(c1) => ~ctl.inProgress /\ ctl.cool = 0 /\ ~(known /\ ctl.busy)
  BY <1>5 DEF MayRecover
<1>16. \/ ~In(r.queue, "restart") /\ r.ctl.inProgress = ctl.inProgress
       \/ /\ Single(r.queue, "restart") /\ In(r.queue, "restart") /\ r.ctl.inProgress
          /\ ~ctl.inProgress /\ ctl.cool = 0 /\ ~(known /\ ctl.busy)
  BY <1>2, <1>8, <1>11, <1>12, <1>14, <1>15
<1>17. /\ r.ctl \in Controls /\ r.ctl.cool = ctl.cool /\ r.queue \in Seq(Commands)
       /\ known /\ ctl.busy => r.ctl.busy /\ ~In(r.queue, "reconnect")
       /\ r.ctl.pending /\ r.ctl.remote = "connected" => ctl.pending /\ ctl.remote = "connected"
  BY <1>5, <1>8, <1>11, <1>12, <1>13
<1> QED BY <1>13, <1>16, <1>17 DEF Replies, r

\* Connected again: no turn of the profile is known of until the next is sent.
LEMMA ReadySafe ==
    ASSUME IInv, hub.events # <<>>, Head(hub.events).kind = "ready",
           ctl' = OnReady(ctl).ctl,
           hubs' = [hubs EXCEPT ![active].events = Tail(@), ![active].queue = @ \o OnReady(ctl).queue],
           turn' = [turn EXCEPT ![hub.profile].known = FALSE],
           UNCHANGED <<tasks, daemon, since>>
    PROVE  Safely
<1> DEFINE p == hub.profile
           c == Command("refresh")
           now == turn[p].at = "managed" \/ Direct(p, active)
<1>1. Typed /\ Turned BY DEF IInv
<1>2. c \in Commands /\ c.kind = "refresh" BY DEF Command, Commands, Works
<1>3. OnReady(ctl).queue = <<c>> /\ <<c>> \in Seq(Commands) BY <1>2 DEF OnReady
<1>4. /\ active \in DOMAIN hubs /\ hub = hubs[active] /\ p \in Profiles /\ hub.managed \in BOOLEAN
      /\ hub.queue \in Seq(Commands) /\ hub.events \in Seq(Events)
  BY <1>1, HubTypes DEF hub, Hubs
<1>5. /\ ctl' \in Controls /\ ctl'.inProgress = ctl.inProgress /\ ctl'.cool = ctl.cool
      /\ ctl'.pending = ctl.pending /\ ctl'.remote = ctl.remote
  <2>1. ctl' = [ctl EXCEPT !.handoff = ctl.handoff /\ ~hub.managed, !.busy = now] BY DEF OnReady
  <2>2. (ctl.handoff /\ ~hub.managed) \in BOOLEAN /\ now \in BOOLEAN OBVIOUS
  <2> QED BY <2>1, <2>2, <1>1 DEF Typed, Controls
<1>6. PICK h \in Hubs : /\ Becomes(active, h) /\ h.profile = p /\ h.conn = hub.conn
                        /\ h.events = Tail(hub.events) /\ h.queue = hub.queue \o <<c>>
  BY <1>1, <1>3, HandleHub
<1>7. h.queue = Append(hub.queue, c) BY <1>4, <1>6
<1>8. /\ turn' \in [Profiles -> Turns] /\ ~turn'[p].known /\ turn'[p] = [turn[p] EXCEPT !.known = FALSE]
      /\ \A q \in Profiles \ {p} : turn'[q] = turn[q]
  <2>1. turn \in [Profiles -> Turns] BY <1>1 DEF Typed
  <2>2. PICK n : n = [turn[p] EXCEPT !.known = FALSE] OBVIOUS
  <2>3. n \in Turns /\ ~n.known
    <3>1. turn[p] \in Turns BY <2>1, <1>4
    <3>2. \A m \in Turns : [m EXCEPT !.known = FALSE] \in Turns /\ ~[m EXCEPT !.known = FALSE].known
      BY DEF Turns
    <3> QED BY <2>2, <3>1, <3>2
  <2>4. turn' = [turn EXCEPT ![p] = n] BY <2>2
  <2> QED BY <2>1, <2>2, <2>3, <2>4, <1>4
<1> HIDE DEF c
<1>9. Typed' BY <1>1, <1>5, <1>6, <1>8 DEF Typed, Becomes
<1>10. CalmHub(hub, h) /\ TameHub(hub, h)
  <2>1. Added(hub.queue, h.queue, NoRestart) /\ Added(hub.queue, h.queue, Works \cup {"shutdown"})
    BY <1>2, <1>7 DEF Added, NoRestart, Works
  <2>2. Taken(hub.events, h.events, NoRestart) BY <1>6 DEF Taken, NoRestart
  <2>3. CalmHub(hub, h) BY <2>1, <2>2, <1>4, <1>6, CalmQueue, CalmEvents DEF CalmHub
  <2>4. TameHub(hub, h) BY <2>1, <1>4, <1>6, TameQueue DEF TameHub
  <2> QED BY <2>3, <2>4
<1>11. \A j \in DOMAIN hubs : CalmHub(hubs[j], hubs'[j]) /\ TameHub(hubs[j], hubs'[j])
  BY <1>4, <1>6, <1>10 DEF Becomes, CalmHub, TameHub
<1>12. Calm BY <1>5, <1>6, <1>8, <1>11 DEF Calm, Becomes, RestartTasks
<1>13. Tame BY <1>6, <1>8, <1>11 DEF Tame, Becomes
<1>14. HealthyHostSpared' BY <1>5, <1>6 DEF IInv, HealthyHostSpared, active, Becomes
<1> QED BY <1>9, <1>12, <1>13, <1>14, CalmAndTame

\* The answer of a restart ends it, and starts the cooldown.
LEMMA RestartedSafe ==
    ASSUME IInv, RemoteAssumption, hub.events # <<>>, Head(hub.events).kind = "restart", NEW v,
           ctl' = OnRestarted(ctl, v).ctl,
           hubs' = [hubs EXCEPT ![active].events = Tail(@), ![active].queue = @ \o OnRestarted(ctl, v).queue],
           UNCHANGED <<turn, tasks, daemon, since>>
    PROVE  Safely
<1> DEFINE p == hub.profile
           c == Command("reconnect")
           d == Command("refresh")
<1>1. Typed /\ Restarts /\ Turned BY DEF IInv
<1>2. c \in Commands /\ c.kind = "reconnect" /\ d \in Commands /\ d.kind = "refresh"
  BY DEF Command, Commands, Works
<1>3. /\ active \in DOMAIN hubs /\ hub = hubs[active] /\ p \in Profiles
      /\ hub.queue \in Seq(Commands) /\ hub.events \in Seq(Events)
  BY <1>1, HubTypes DEF hub
<1>4. PICK s : s = OnRestarted(ctl, v).queue OBVIOUS
<1>5. s \in Seq(Commands) /\ ~In(s, "turn") /\ ~In(s, "restart")
  <2>1. s = (IF v = "ok" THEN <<c, d>> ELSE <<>>) BY <1>4 DEF OnRestarted
  <2> HIDE DEF c, d
  <2>2. <<c, d>> \in Seq(Commands) /\ <<>> \in Seq(Commands) BY <1>2
  <2>3. DOMAIN <<c, d>> = {1, 2} /\ <<c, d>>[1] = c /\ <<c, d>>[2] = d OBVIOUS
  <2>4. ~In(<<c, d>>, "turn") /\ ~In(<<c, d>>, "restart") BY <2>3, <1>2 DEF In
  <2>5. ~In(<<>>, "turn") /\ ~In(<<>>, "restart") BY InEmpty
  <2> QED BY <2>1, <2>2, <2>4, <2>5
<1>6. PICK h \in Hubs : /\ Becomes(active, h) /\ h.profile = p /\ h.conn = hub.conn
                        /\ h.events = Tail(hub.events) /\ h.queue = hub.queue \o s
  BY <1>1, <1>4, <1>5, HandleHub
<1>7. /\ ctl' \in Controls /\ ctl'.inProgress = FALSE /\ ctl'.cool = Cooldown
      /\ ctl'.pending = FALSE /\ ctl'.remote = ctl.remote /\ ctl'.busy = ctl.busy
  <2>1. ctl' = [ctl EXCEPT !.inProgress = FALSE, !.pending = FALSE,
                           !.samples = IF v = "ok" THEN 0 ELSE ctl.samples, !.cool = Cooldown]
    BY DEF OnRestarted
  <2>2. (IF v = "ok" THEN 0 ELSE ctl.samples) \in Nat BY <1>1 DEF Typed, Controls
  <2> QED BY <2>1, <2>2, <1>1 DEF Typed, Controls, RemoteAssumption
<1>8. In(hub.events, "restart") /\ Single(hub.events, "restart") /\ active \in EventAt
  <2>1. 1 \in DOMAIN hub.events /\ hub.events[1] = Head(hub.events) BY <1>3
  <2>2. In(hub.events, "restart") BY <2>1 DEF In
  <2> QED BY <2>2, <1>1, <1>3 DEF EventAt, Restarts, Lone
<1>9. QueueAt = {} /\ EventAt = {active} /\ RestartTasks = {} BY <1>1, <1>8 DEF Restarts, Lone
<1>10. ~turn[p].known BY <1>1, <1>3, <1>8 DEF Restarts, Unknown, Restarting
<1>11. Typed' BY <1>1, <1>6, <1>7 DEF Typed, Becomes
<1>12. Turned' BY <1>1, <1>5, <1>6, <1>10, TurnedHandled
<1>13. ~In(h.events, "restart") /\ Single(h.events, "restart")
  <2> DEFINE t == Tail(hub.events)
  <2>1. ~In(t, "restart") BY <1>3, <1>8, InTail
  <2>2. Single(t, "restart") BY <1>3, <1>8, InTail
  <2>3. h.events = t BY <1>6
  <2> HIDE DEF t
  <2> QED BY <2>1, <2>2, <2>3
<1>14. ~In(h.queue, "restart") /\ Single(h.queue, "restart")
  <2>1. ~In(hub.queue, "restart") BY <1>3, <1>9 DEF QueueAt
  <2>2. ~In(h.queue, "restart") BY <2>1, <1>3, <1>5, <1>6, InConcat
  <2> QED BY <2>2 DEF Single, In
<1>15. OthersHold(active) /\ hubs'[active] = h BY <1>6 DEF OthersHold, Becomes
<1>16. QueueAt' = {} /\ EventAt' = {}
  BY <1>3, <1>9, <1>13, <1>14, <1>15, PlacesMove
<1>17. RestartTasks' = {} BY <1>9 DEF RestartTasks
<1>18. Lone'
  <2>1. \A j \in DOMAIN hubs' : Single(hubs'[j].queue, "restart") /\ Single(hubs'[j].events, "restart")
    BY <1>1, <1>6, <1>13, <1>14, <1>15 DEF Restarts, Lone, Becomes
  <2> QED BY <2>1, <1>7, <1>16, <1>17 DEF Lone, Single
<1>19. Cooling'
  <2>1. \A q \in Profiles : since[q] \in 0..Cooldown BY <1>1 DEF Typed
  <2>2. \A q \in Profiles : since[q] + Cooldown >= Cooldown BY <2>1 DEF RemoteAssumption
  <2> QED BY <2>2, <1>7 DEF Cooling
<1>20. Spaced'
  <2>1. \A j \in DOMAIN hubs' : ~Autos(hubs'[j].queue)
    <3> SUFFICES ASSUME NEW j \in DOMAIN hubs' PROVE ~Autos(hubs'[j].queue) OBVIOUS
    <3>1. hubs'[j].queue \in Seq(Commands)
      <4>1. hubs' \in Seq(Hubs) BY <1>11 DEF Typed
      <4>2. hubs'[j] \in Hubs BY <4>1
      <4> QED BY <4>2 DEF Hubs
    <3>2. ~In(hubs'[j].queue, "restart")
      <4>1. CASE j = active BY <4>1, <1>14, <1>15
      <4>2. CASE j # active
        <5>1. hubs'[j] = hubs[j] /\ j \in DOMAIN hubs BY <4>2, <1>6 DEF Becomes
        <5> QED BY <5>1, <1>9 DEF QueueAt
      <4> QED BY <4>1, <4>2
    <3> QED BY <3>1, <3>2, AutosRestart
  <2>2. \A t \in tasks' : ~t.auto BY <1>1, <1>9 DEF Typed, Spawns, RestartTasks
  <2> QED BY <2>1, <2>2 DEF Spaced, Autos
<1>21. Unknown' BY <1>16, <1>17 DEF Unknown, Restarting
<1>22. HealthyHostSpared' BY <1>7 DEF HealthyHostSpared
<1>23. Kept BY <1>7 DEF Kept
<1> QED BY <1>11, <1>12, <1>18, <1>19, <1>20, <1>21, <1>22, <1>23 DEF IInv, Restarts, Safely

LEMMA HandleSafe == ASSUME IInv, RemoteAssumption, Handle PROVE Safely
<1> DEFINE e == Head(hub.events)
           r == CASE e.kind = "ready"     -> OnReady(ctl)
                  [] e.kind = "completed" -> OnCompleted(ctl)
                  [] e.kind = "refresh"   -> OnStatus(ctl, e.value)
                  [] e.kind = "restart"   -> OnRestarted(ctl, e.value)
                  [] OTHER                -> OnSwitched(ctl, e.kind, e.value)
<1>1. Typed /\ Turned BY DEF IInv
<1>2. /\ hub.events # <<>> /\ ctl' = r.ctl
      /\ hubs' = [hubs EXCEPT ![active].events = Tail(@), ![active].queue = @ \o r.queue]
      /\ turn' = IF e.kind = "ready" THEN [turn EXCEPT ![hub.profile].known = FALSE] ELSE turn
      /\ UNCHANGED <<tasks, daemon, since>>
  BY DEF Handle
<1>3. e.value \in Values
  <2>1. hub.events \in Seq(Events) BY <1>1, HubTypes
  <2>2. Head(hub.events) \in Events BY <2>1, <1>2, HeadTailProperties
  <2> QED BY <2>2 DEF Events
<1>4. CASE e.kind = "ready"
  <2>1. r = OnReady(ctl) BY <1>4
  <2> HIDE DEF r
  <2> QED BY <2>1, <1>2, <1>4, ReadySafe
<1>5. CASE e.kind = "restart"
  <2>1. r = OnRestarted(ctl, e.value) BY <1>5
  <2> HIDE DEF r
  <2> QED BY <2>1, <1>2, <1>5, RestartedSafe
<1>6. CASE e.kind \notin {"ready", "restart"}
  <2>1. r \in {OnCompleted(ctl), OnStatus(ctl, e.value), OnSwitched(ctl, e.kind, e.value)} BY <1>6
  <2> HIDE DEF r, e
  <2>2. Replies(OnCompleted(ctl)) BY <1>1, CompletedReplies
  <2>3. Replies(OnStatus(ctl, e.value)) BY <1>1, <1>3, StatusReplies
  <2>4. Replies(OnSwitched(ctl, e.kind, e.value)) BY <1>1, SwitchedReplies
  <2>5. Replies(r) BY <2>1, <2>2, <2>3, <2>4
  <2> QED BY <2>5, <1>2, <1>6, RepliesSafe DEF e
<1> QED BY <1>4, <1>5, <1>6

---------------------------------------------------------------------------
(* The theorems.                                                           *)

LEMMA Initially == ASSUME RemoteAssumption, Init PROVE IInv
<1> DEFINE e == <<>>
           h == Hub(First)
<1>1. /\ hubs = <<h>> /\ tasks = {} /\ turn = [p \in Profiles |-> NoTurn]
      /\ since = [p \in Profiles |-> Cooldown]
  BY DEF Init
<1>2. /\ ctl \in Controls /\ ~ctl.inProgress /\ ctl.cool = 0 /\ ~ctl.pending
  BY DEF Init, Controls, Values
<1>3. h \in Hubs /\ h = [profile |-> First, conn |-> "down", managed |-> FALSE, queue |-> e, events |-> e]
  <2>1. <<>> \in Seq(Commands) /\ <<>> \in Seq(Events) OBVIOUS
  <2> QED BY <2>1 DEF Hub, Hubs, RemoteAssumption
<1>4. h.queue = e /\ h.events = e /\ h.profile = First /\ h.conn = "down" BY <1>3
<1> HIDE DEF h
<1>5. /\ hubs \in Seq(Hubs) /\ hubs # <<>> /\ Len(hubs) = 1 /\ DOMAIN hubs = {1} /\ hubs[1] = h
  BY <1>1, <1>3
<1>6. /\ NoTurn \in Turns /\ ~NoTurn.known /\ NoTurn.at = "none" BY DEF NoTurn, Turns
<1>7. Typed
  <2>1. daemon \in [Profiles -> [service : BOOLEAN, health : Values]]
    <3> DEFINE ds == {Off} \cup [service : {TRUE}, health : {"connected", "connecting"}]
               f(d) == [p \in Profiles |-> IF p = First THEN d ELSE Off]
    <3>1. daemon \in {f(d) : d \in ds} BY DEF Init
    <3> HIDE DEF f, ds
    <3>2. PICK d \in ds : daemon = f(d) BY <3>1
    <3> USE DEF f, ds
    <3>3. d \in ds /\ daemon = [p \in Profiles |-> IF p = First THEN d ELSE Off] BY <3>2
    <3>4. {"connected", "connecting", "off"} \subseteq Values BY DEF Values
    <3>5. Off \in [service : BOOLEAN, health : Values] BY <3>4 DEF Off
    <3>6. [service : {TRUE}, health : {"connected", "connecting"}] \subseteq [service : BOOLEAN, health : Values]
      BY <3>4
    <3>7. d \in [service : BOOLEAN, health : Values] /\ Off \in [service : BOOLEAN, health : Values]
      BY <3>3, <3>5, <3>6
    <3> QED BY <3>3, <3>7
  <2>2. since \in [Profiles -> 0..Cooldown] BY <1>1 DEF RemoteAssumption
  <2> QED BY <2>1, <2>2, <1>1, <1>2, <1>5, <1>6 DEF Typed
<1>8. /\ \A k : ~In(hubs[1].queue, k) /\ ~In(hubs[1].events, k)
      /\ Single(hubs[1].queue, "restart") /\ Single(hubs[1].events, "restart")
      /\ Single(hubs[1].queue, "turn") /\ ~Autos(hubs[1].queue)
  BY <1>4, <1>5, InEmpty
<1>9. QueueAt = {} /\ EventAt = {} /\ RestartTasks = {}
  BY <1>1, <1>5, <1>8 DEF QueueAt, EventAt, RestartTasks
<1>10. Lone BY <1>2, <1>5, <1>8, <1>9 DEF Lone
<1>11. Cooling
  <2>1. \A p \in Profiles : since[p] = Cooldown BY <1>1
  <2> QED BY <2>1, <1>2 DEF Cooling, RemoteAssumption
<1>12. Spaced BY <1>1, <1>5, <1>8 DEF Spaced
<1>13. Unknown BY <1>9 DEF Unknown, Restarting
<1>14. Turned
  <2>1. \A p \in Profiles : ~turn[p].known BY <1>1, <1>6
  <2>2. hub.profile \in Profiles /\ hubs[1].profile \in Profiles BY <1>7, <1>5, HubTypes
  <2>3. Busy BY <2>1, <2>2 DEF Busy
  <2>4. \A i \in DOMAIN hubs : Sent(i) BY <2>1, <2>2, <1>5, <1>8 DEF Sent
  <2>5. \A p \in Profiles : Known(p) BY <2>1 DEF Known
  <2> QED BY <2>3, <2>4, <2>5 DEF Turned
<1>15. HealthyHostSpared BY <1>2 DEF HealthyHostSpared
<1> QED BY <1>7, <1>10, <1>11, <1>12, <1>13, <1>14, <1>15 DEF IInv, Restarts

LEMMA Untouched == ASSUME IInv, UNCHANGED vars PROVE Safely
<1>1. UNCHANGED <<ctl, hubs, tasks, daemon, turn, since>> BY DEF vars
<1>2. hubs' \in Seq(Hubs) /\ Len(hubs') = Len(hubs) BY <1>1 DEF IInv, Typed
<1>3. \A j \in DOMAIN hubs : Moved(hubs[j], hubs'[j]) /\ (Quiet(j) => ReadyFirst(hubs'[j]))
  BY <1>1 DEF Moved, Quiet, ReadyFirst
<1> QED BY <1>1, <1>2, <1>3, HubsStepSafe, NothingElse

LEMMA StepSafe == ASSUME RemoteAssumption, IInv, [Next]_vars PROVE Safely
<1>1. CASE UNCHANGED vars BY <1>1, Untouched
<1>2. CASE \E i \in DOMAIN hubs : Connect(i) \/ GoStale(i) \/ Take(i) \/ Complete(i)
  <2>1. PICK i \in DOMAIN hubs : Connect(i) \/ GoStale(i) \/ Take(i) \/ Complete(i) BY <1>2
  <2>2. Take(i) => Safely BY TakeQuietSafe, TakeTurnSafe, TakeRestartSafe
  <2> QED BY <2>1, <2>2, ConnectSafe, GoStaleSafe, CompleteSafe
<1>3. CASE \E t \in tasks : Read(t) \/ Refreshed(t) \/ Act(t) \/ ActFails(t)
  BY <1>3, ReadSafe, RefreshedSafe, ActSafe, ActFailsSafe
<1>4. CASE Handle BY <1>4, HandleSafe
<1>5. CASE Tick BY <1>5, TickSafe
<1>6. CASE Refresh \/ ClickEnable \/ ClickDisable BY <1>6, ButtonSafe
<1>7. CASE ClickRestart BY <1>7, ClickRestartSafe
<1>8. CASE SendTurn BY <1>8, SendTurnSafe
<1>9. CASE \E p \in Profiles : DaemonChanges(p) \/ SwitchProfile(p)
  BY <1>9, DaemonSafe, SwitchProfileSafe
<1>10. Next => \/ \E i \in DOMAIN hubs : Connect(i) \/ GoStale(i) \/ Take(i) \/ Complete(i)
               \/ \E t \in tasks : Read(t) \/ Refreshed(t) \/ Act(t) \/ ActFails(t)
               \/ Handle \/ Tick \/ Refresh \/ ClickEnable \/ ClickDisable \/ ClickRestart \/ SendTurn
               \/ \E p \in Profiles : DaemonChanges(p) \/ SwitchProfile(p)
  BY DEF Next, Steps, Moves, HubStep, Spawned, User
<1> QED BY <1>1, <1>2, <1>3, <1>4, <1>5, <1>6, <1>7, <1>8, <1>9, <1>10

\* One restart at most, in_progress while there is one, and the cooldown of
\* the controller behind each of them: IInv is an invariant.
THEOREM Invariance == ASSUME RemoteAssumption PROVE Spec => []IInv
<1>1. Init => IInv BY Initially
<1>2. IInv /\ [Next]_vars => IInv' BY StepSafe DEF Safely
<1> QED BY <1>1, <1>2, PTL DEF Spec

\* A recovery of the host that is shown has its answer to come, and keeps it
\* until it ends or another profile is shown (maybe_recover_remote_host,
\* ui/mod.rs:6014; its answer, 5832).
THEOREM AnswersCome == ASSUME RemoteAssumption PROVE Spec => RecoveryKeepsItsAnswer
<1>1. ASSUME IInv PROVE Answering(active) <=> Restarting(active)
  <2>1. active \in DOMAIN hubs BY <1>1, HubTypes DEF IInv
  <2> QED BY <2>1 DEF Answering, Queued, Restarting, QueueAt, EventAt, RestartTasks, In
<1>2. ASSUME IInv' PROVE Answering(active)' <=> Restarting(active)'
  <2>1. active' \in DOMAIN hubs'
    <3>1. hubs' \in Seq(Hubs) /\ hubs' # <<>> BY <1>2 DEF IInv, Typed
    <3>2. Len(hubs') \in Nat /\ DOMAIN hubs' = 1..Len(hubs') /\ Len(hubs') # 0 BY <3>1
    <3> QED BY <3>2 DEF active
  <2> QED BY <2>1 DEF Answering, Queued, Restarting, QueueAt, EventAt, RestartTasks, In
<1>3. IInv /\ [Next]_vars =>
        [/\ active' = active /\ ctl'.inProgress
         /\ ctl.inProgress => Answering(active)
         => Answering(active)']_vars
  BY <1>1, <1>2, StepSafe DEF Safely, Kept
<1> QED BY <1>3, Invariance, PTL DEF Spec, RecoveryKeepsItsAnswer

\* A host last seen healthy has no recovery queued (observe_remote_health,
\* ui/mod.rs:5998).
THEOREM HealthySpared == ASSUME RemoteAssumption PROVE Spec => []HealthyHostSpared
<1>1. IInv => HealthyHostSpared BY DEF IInv
<1> QED BY <1>1, Invariance, PTL

\* No automatic restart and no reconnect is on its way to a turn the
\* controller has known of since before it asked (maybe_recover_remote_host,
\* maybe_handoff_to_managed_transport).
THEOREM TurnsSpared == ASSUME RemoteAssumption PROVE Spec => []KnownTurnsSpared
<1>1. ASSUME IInv PROVE KnownTurnsSpared
  <2>1. Typed /\ Restarts /\ Turned BY <1>1 DEF IInv
  <2>2. ASSUME NEW i \in DOMAIN hubs, turn[hubs[i].profile].known
        PROVE  /\ \A t \in tasks : t.hub = i => ~t.auto
               /\ \A n \in DOMAIN hubs[i].queue : ~hubs[i].queue[n].auto
    <3>1. ~Restarting(i) BY <2>1, <2>2 DEF Restarts, Unknown
    <3>2. \A t \in tasks : t.hub = i => ~t.auto
      BY <2>1, <3>1 DEF Restarting, RestartTasks, Typed, Spawns
    <3>3. ~In(hubs[i].queue, "restart") BY <3>1 DEF Restarting, QueueAt
    <3>4. ~Autos(hubs[i].queue) BY <2>1, <3>3, HubTypes, AutosRestart
    <3> QED BY <3>2, <3>4 DEF Autos
  <2>3. ASSUME NEW p \in Profiles, turn[p].known, turn[p].at = "direct"
        PROVE  ~Queued(turn[p].hub, "reconnect")
    <3>1. Known(p) BY <2>1 DEF Turned
    <3>2. PICK i \in DOMAIN hubs : i = turn[p].hub /\ hubs[i].profile = p BY <2>3, <3>1 DEF Known
    <3>3. Sent(i) BY <2>1 DEF Turned
    <3>4. ~In(hubs[i].queue, "reconnect") BY <2>3, <3>2, <3>3 DEF Sent
    <3> QED BY <3>2, <3>4 DEF Queued, In
  <2> QED BY <2>2, <2>3 DEF KnownTurnsSpared
<1> QED BY <1>1, Invariance, PTL

\* Two automatic restarts of one host are at least a cooldown apart
\* (REMOTE_RECOVERY_COOLDOWN).
THEOREM CooldownKept == ASSUME RemoteAssumption PROVE Spec => RestartsSpaced
<1>1. IInv => \A t \in tasks \ tasks' : t.auto => since[hubs[t.hub].profile] = Cooldown
  BY DEF IInv, Restarts, Spaced
<1> QED BY <1>1, Invariance, PTL DEF RestartsSpaced

=============================================================================
