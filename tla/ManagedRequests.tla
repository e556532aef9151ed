--------------------------- MODULE ManagedRequests ---------------------------
(***************************************************************************)
(* The requests the hub makes of the managed daemon for itself: the status *)
(* of the remote host, then the clients paired with it, and the removal of *)
(* one (run_managed_transport, queue_managed_remote_request,               *)
(* handle_managed_remote_response, expire_managed_remote_requests of       *)
(* backend.rs).  One connection at a time; the heartbeat closes one whose  *)
(* daemon is silent.                                                       *)
(***************************************************************************)
EXTENDS Integers, Sequences, FiniteSets

CONSTANTS
    Environments, NoEnv,
    MaxIds,     \* bound on the requests of one connection
    MaxSilence, \* MANAGED_STALE_TIMEOUT, in heartbeats
    MaxLosses   \* bound on the connections lost

VARIABLES
    up,         \* a connection is open
    pending,    \* remote_pending: [id, kind, env, old], old once it timed out
    nextId,     \* next_remote_id
    wire,       \* requests the daemon has not answered
    frames,     \* external: what the daemon wrote and the hub has not read
    silent,     \* heartbeats since the last frame
    daemon,     \* external: the environment the daemon is connected to
    owed,       \* the window asked for a status and has had no answer
    losses

vars == <<up, pending, nextId, wire, frames, silent, daemon, owed, losses>>

Kinds == {"status", "clients", "revoke"}

IsRefresh(r) == r.kind \in {"status", "clients"}

Refreshing == \E r \in pending : IsRefresh(r)

Init ==
    /\ up = TRUE /\ pending = {} /\ nextId = 0 /\ wire = {} /\ frames = <<>>
    /\ silent = 0 /\ daemon = NoEnv /\ owed = FALSE /\ losses = 0

\* queue_managed_remote_request: an id, the write, the entry.
Queue(entries, kind, env) ==
    /\ pending' = entries \cup {[id |-> nextId, kind |-> kind, env |-> env, old |-> FALSE]}
    /\ wire' = wire \cup {[id |-> nextId, kind |-> kind, env |-> env]}
    /\ nextId' = nextId + 1

Room == nextId < MaxIds

---------------------------------------------------------------------------
(* Commands of the window.                                                 *)

\* RemoteAction::Refresh: a refresh under way answers this one too.
Refresh ==
    /\ up /\ Room /\ owed' = TRUE
    /\ IF Refreshing THEN UNCHANGED <<pending, wire, nextId>> ELSE Queue(pending, "status", NoEnv)
    /\ UNCHANGED <<up, frames, silent, daemon, losses>>

Revoke ==
    /\ up /\ Room
    /\ Queue(pending, "revoke", NoEnv)
    /\ UNCHANGED <<up, frames, silent, daemon, owed, losses>>

---------------------------------------------------------------------------
(* The daemon, external.                                                   *)

Send(frame) == Len(frames) < 2 /\ frames' = Append(frames, frame)

\* It answers in any order, with an error, without a result, or with what it
\* is connected to now.
Answer ==
    \E r \in wire, ok \in {"result", "error", "empty"} :
      /\ Send([kind |-> "answer", id |-> r.id, ok |-> ok,
               env |-> IF r.kind = "status" THEN daemon ELSE r.env])
      /\ wire' = wire \ {r}
      /\ UNCHANGED <<up, pending, nextId, silent, daemon, owed, losses>>

\* remoteControl/status/changed.
Change ==
    \E env \in Environments \cup {NoEnv} :
      /\ up /\ env # daemon /\ daemon' = env
      /\ Send([kind |-> "changed"])
      /\ UNCHANGED <<up, pending, nextId, wire, silent, owed, losses>>

---------------------------------------------------------------------------
(* The connection's loop.                                                  *)

\* An entry is settled with an event for the window: a status, or an error.
Settled(r, rest) ==
    /\ pending' = rest
    /\ owed' = (owed /\ ~IsRefresh(r))
    /\ UNCHANGED <<wire, nextId>>

\* handle_managed_remote_response: a status that names an environment asks
\* for its clients; anything else, and every error, is reported.
OnAnswer ==
    /\ up /\ frames # <<>> /\ Head(frames).kind = "answer"
    /\ frames' = Tail(frames) /\ silent' = 0
    /\ LET f == Head(frames)
       IN  IF \E r \in pending : r.id = f.id
           THEN LET r    == CHOOSE x \in pending : x.id = f.id
                    rest == pending \ {r}
                IN  IF r.kind = "status" /\ f.ok = "result" /\ f.env # NoEnv
                    THEN Room /\ Queue(rest, "clients", f.env) /\ UNCHANGED owed
                    ELSE Settled(r, rest)
           \* A late answer goes to the window, which has no entry for it.
           ELSE UNCHANGED <<pending, wire, nextId, owed>>
    /\ UNCHANGED <<up, daemon, losses>>

\* Whether a refresh among these requests already reads the new status.
Covered(S) == \E r \in S : IsRefresh(r)

OnChanged ==
    /\ up /\ frames # <<>> /\ Head(frames).kind = "changed"
    /\ frames' = Tail(frames) /\ silent' = 0
    /\ IF Covered(pending) THEN UNCHANGED <<pending, wire, nextId>>
       ELSE Room /\ Queue(pending, "status", NoEnv)
    /\ UNCHANGED <<up, daemon, owed, losses>>

\* A plausible mistake: an expired request is forgotten without a word.
ExpiredSilently(owes, entries) == owes

\* expire_managed_remote_requests: each is reported as an error of its action.
Expired(owes, entries) == owes /\ ~\E r \in entries : IsRefresh(r)

\* The heartbeat: a silent connection is given up, old requests expire, the
\* rest have aged by one beat.
Heartbeat ==
    /\ up /\ silent < MaxSilence
    /\ LET gone == {r \in pending : r.old}
       IN  /\ pending' = {[r EXCEPT !.old = TRUE] : r \in pending \ gone}
           /\ owed' = Expired(owed, gone)
    /\ silent' = silent + 1
    /\ UNCHANGED <<up, nextId, wire, frames, daemon, losses>>

\* Closed, failed to write, or silent too long: the loop returns and its
\* pending requests are dropped with it.
Disconnect ==
    /\ up /\ (losses < MaxLosses \/ silent = MaxSilence)
    /\ up' = FALSE /\ losses' = IF losses < MaxLosses THEN losses + 1 ELSE losses
    /\ pending' = {} /\ wire' = {} /\ frames' = <<>>
    /\ UNCHANGED <<nextId, silent, daemon, owed>>

\* The next connection; the window's Ready handler asks for a status again.
Connect ==
    /\ ~up /\ losses < MaxLosses
    /\ up' = TRUE /\ silent' = 0 /\ owed' = TRUE
    /\ pending' = {[id |-> 0, kind |-> "status", env |-> NoEnv, old |-> FALSE]}
    /\ wire' = {[id |-> 0, kind |-> "status", env |-> NoEnv]} /\ nextId' = 1
    /\ UNCHANGED <<frames, daemon, losses>>

---------------------------------------------------------------------------
Next ==
    \/ Refresh \/ Revoke \/ Answer \/ Change \/ OnAnswer \/ OnChanged
    \/ Heartbeat \/ Disconnect \/ Connect

Spec == Init /\ [][Next]_vars

---------------------------------------------------------------------------
(* Properties.                                                             *)

\* A status the window waits for is being asked for: no error, expiry, late
\* answer or coalesced request leaves it waiting on a live connection.
NoRefreshLost == up /\ owed => Refreshing

===========================================================================
