------------------------------ MODULE Approvals ------------------------------
(***************************************************************************)
(* Requests the app-server makes of the user: AppState::approvals, queued  *)
(* by queue_server_request, dropped when another client resolves them      *)
(* (serverRequest/resolved), answered by resolve_approval or by a dialog   *)
(* it opens (ui/mod.rs:10908-11245).  Ids are the server's own, unique on  *)
(* one connection; a direct app-server is a new process on the next.       *)
(***************************************************************************)
EXTENDS Integers, Sequences, FiniteSets, SequencesExt

CONSTANTS
    Methods,    \* subset of the methods below
    Matters,    \* what a request may be about
    MaxAsked,   \* bound on the requests of one connection
    MaxLosses   \* bound on the connections lost

VARIABLES
    server,     \* external: the requests the server waits on
    asked,      \* external: the requests made on this connection
    net,        \* what the hub has read and the window has not handled
    approvals,  \* AppState::approvals
    dialog,     \* the request the open dialog was made for
    answers,    \* the answers given and not yet written: with what was shown
    losses

vars == <<server, asked, net, approvals, dialog, answers, losses>>

Permissions == "item/permissions/requestApproval"
Elicitation == "mcpServer/elicitation/request"
UserInput   == "item/tool/requestUserInput"
Command     == "execCommandApproval"      \* applyPatchApproval is answered alike
FileChange  == "item/fileChange/requestApproval"

Request   == [id : 1..MaxAsked, method : Methods, matter : Matters]
NoDialog  == [id |-> 0, method |-> "none", matter |-> "none"]
Decisions == {"accept", "acceptForSession", "decline"}

Accepts(decision) == decision # "decline"

\* The body resolve_approval sends for a decision, by method: whether it
\* grants what was asked, and for how long.
Result(method, decision) ==
    CASE method = Permissions -> [grants |-> Accepts(decision),
                                  scope |-> IF decision = "acceptForSession" THEN "session"
                                            ELSE "turn"]
      [] method = UserInput   -> [grants |-> FALSE, scope |-> "turn"]
      [] method \in {Elicitation, Command} -> [grants |-> Accepts(decision), scope |-> "turn"]
      [] OTHER -> [grants |-> Accepts(decision),
                   scope |-> IF decision = "acceptForSession" THEN "session" ELSE "turn"]

OpensDialog(request, decision) ==
    request.method \in {UserInput, Elicitation} /\ Accepts(decision)

Respond(request, result) == answers' = Append(answers, [shown |-> request, result |-> result])

Init ==
    /\ server = {} /\ asked = 0 /\ net = <<>> /\ approvals = <<>>
    /\ dialog = NoDialog /\ answers = <<>> /\ losses = 0

---------------------------------------------------------------------------
(* The server, external.                                                   *)

AskUser ==
    /\ asked < MaxAsked
    /\ \E method \in Methods, matter \in Matters :
         LET request == [id |-> asked + 1, method |-> method, matter |-> matter]
         IN  /\ server' = server \cup {request}
             /\ net' = Append(net, [kind |-> "request", request |-> request])
    /\ asked' = asked + 1
    /\ UNCHANGED <<approvals, dialog, answers, losses>>

\* Another client answered it.
ResolvedElsewhere ==
    \E request \in server :
      /\ server' = server \ {request}
      /\ net' = Append(net, [kind |-> "resolved", request |-> request])
      /\ UNCHANGED <<asked, approvals, dialog, answers, losses>>

\* An answer reaches the server, which tells every client; one to a request
\* it no longer waits on is ignored.
TakeAnswer ==
    /\ answers # <<>> /\ answers' = Tail(answers)
    /\ \/ \E r \in server :
            /\ r.id = Head(answers).shown.id
            /\ server' = server \ {r}
            /\ net' = Append(net, [kind |-> "resolved", request |-> r])
       \/ /\ \A r \in server : r.id # Head(answers).shown.id
          /\ UNCHANGED <<server, net>>
    /\ UNCHANGED <<asked, approvals, dialog, losses>>

\* The connection is lost with the process; the approvals are not cleared
\* (ui/mod.rs:3348).
LoseConnection ==
    /\ losses < MaxLosses /\ losses' = losses + 1
    /\ server' = {} /\ asked' = 0
    /\ UNCHANGED <<net, approvals, dialog, answers>>

---------------------------------------------------------------------------
(* The window.                                                             *)

\* queue_server_request: a second request with the same id is dropped.
OnRequest ==
    /\ net # <<>> /\ Head(net).kind = "request"
    /\ LET request == Head(net).request
       IN  approvals' = IF \E i \in DOMAIN approvals : approvals[i].id = request.id
                        THEN approvals ELSE Append(approvals, request)
    /\ net' = Tail(net)
    /\ UNCHANGED <<server, asked, dialog, answers, losses>>

\* Of the entries, which have different ids, the one with this id is removed.
Without(id) ==
    LET found == {i \in DOMAIN approvals : approvals[i].id = id}
    IN  IF found = {} THEN approvals ELSE RemoveAt(approvals, CHOOSE i \in found : TRUE)

OnResolved ==
    /\ net # <<>> /\ Head(net).kind = "resolved"
    /\ approvals' = Without(Head(net).request.id)
    /\ net' = Tail(net)
    /\ UNCHANGED <<server, asked, dialog, answers, losses>>

\* resolve_approval: the front of the queue is answered and popped, or a
\* dialog opens for it.  The dialog is modal: it ends before the next click.
ResolveApproval ==
    /\ approvals # <<>> /\ dialog = NoDialog
    /\ \E decision \in Decisions :
         LET request == Head(approvals)
         IN  IF OpensDialog(request, decision)
             THEN dialog' = request /\ UNCHANGED <<approvals, answers>>
             ELSE /\ Respond(request, Result(request.method, decision))
                  /\ approvals' = Tail(approvals) /\ UNCHANGED dialog
    /\ UNCHANGED <<server, asked, net, losses>>

\* A plausible mistake: the dialog removes the front of the queue, as the
\* buttons do, though another client may have resolved its request.
AfterDialogFront(id) == IF approvals = <<>> THEN approvals ELSE Tail(approvals)

AfterDialog(id) == Without(id)

\* The closure of the dialog: submitted or closed, it answers the request it
\* was opened for and removes that one, wherever it is now.
CloseDialog ==
    /\ dialog # NoDialog
    /\ \E submitted \in BOOLEAN :
         Respond(dialog, [grants |-> submitted, scope |-> "turn"])
    /\ approvals' = AfterDialog(dialog.id)
    /\ dialog' = NoDialog
    /\ UNCHANGED <<server, asked, net, losses>>

---------------------------------------------------------------------------
Next ==
    \/ AskUser \/ ResolvedElsewhere \/ TakeAnswer \/ LoseConnection
    \/ OnRequest \/ OnResolved \/ ResolveApproval \/ CloseDialog

Spec == Init /\ [][Next]_vars

---------------------------------------------------------------------------
(* Properties.                                                             *)

\* Nothing the server waits on gets stuck: the request is still to be
\* queued, can be answered by the user, or has an answer on its way,
\* whatever other clients resolve while a dialog is open.
NoRequestStranded ==
    \A r \in server :
      \/ \E i \in DOMAIN net : net[i] = [kind |-> "request", request |-> r]
      \/ \E i \in DOMAIN approvals : approvals[i].id = r.id
      \/ dialog.id = r.id
      \/ \E i \in DOMAIN answers : answers[i].shown.id = r.id
===========================================================================
