---------------------------- MODULE ResetWindow ----------------------------
(***************************************************************************)
(* The window's own one-time reset (ui/mod.rs): a guard in StoredState     *)
(* that was armed by hand spends a reset credit when little of the week is *)
(* left, and the user may spend one from a dialog.  Requests outlive the   *)
(* connection they were sent on; the service (external) spends one credit  *)
(* for a key, however often it is asked.  The guard is one for all         *)
(* accounts, and on disk whenever a handler ends.                          *)
(***************************************************************************)
EXTENDS Integers, FiniteSets

CONSTANTS
    Accounts,
    Credits,   \* what each account has at the start
    MaxSends,  \* bound on requests to spend a credit
    MaxMoves   \* bound on outages, restarts, switches and spending of the week

VARIABLES
    \* external
    low,       \* accounts with little of the week left
    credits,   \* credits of each account
    redeemed,  \* keys under which each account has spent one
    \* StoredState and AppState
    guard,     \* one_time_reset_guard: [armed, key, outcome], key 0 for none
    account,
    connected,
    strayed,   \* history: the account was left while the guard was pending
    limits,    \* account_rate_limits, {} until read
    inFlight,  \* reset_credit_in_flight
    reading,   \* the read of the limits under way: {} , or what it will say
    calls,     \* requests to spend a credit: [n, key, auto, account, live, outcome]
    dialog,    \* the question is on the screen
    nextKey, sends, moves,
    spent      \* history: credits of each account spent for the guard

service == <<low, credits, redeemed, spent>>
link == <<account, connected, strayed>>
window == <<limits, inFlight, reading, dialog>>
counts == <<nextKey, sends, moves>>
vars == <<service, guard, link, window, calls, counts>>

None == "none"
Unasked == [asked |-> FALSE, says |-> {}]

Init ==
    /\ low = {} /\ credits = [a \in Accounts |-> Credits]
    /\ redeemed = [a \in Accounts |-> {}] /\ spent = [a \in Accounts |-> 0]
    /\ guard \in {[armed |-> armed, key |-> 0, outcome |-> None] : armed \in BOOLEAN}
    /\ account \in Accounts /\ connected = FALSE /\ strayed = FALSE
    /\ limits = {} /\ inFlight = FALSE /\ reading = Unasked /\ dialog = FALSE
    /\ calls = {} /\ nextKey = 1 /\ sends = 0 /\ moves = 0

---------------------------------------------------------------------------
(* Sending.                                                                *)

Send(key, auto) ==
    /\ calls' = calls \union
         {[n |-> sends, key |-> key, auto |-> auto, account |-> account, live |-> TRUE, outcome |-> None]}
    /\ sends' = sends + 1
    /\ inFlight' = TRUE

\* refresh_account_rate_limits, by the clock, a notification or an answer
refresh_account_rate_limits ==
    /\ connected /\ ~reading.asked
    /\ reading' = [asked |-> TRUE, says |-> {}]
    /\ UNCHANGED <<service, guard, link, limits, inFlight, dialog, calls, counts>>

\* What a guard that is pending asked for is asked again, whatever is left.
one_time_reset_decision(said) ==
    guard.armed /\ (guard.outcome = "pending" \/ said.low)

\* A plausible mistake: every attempt has a key of its own.
FreshKey == nextKey
\* get_or_insert_with
GuardKey == IF guard.key = 0 THEN nextKey ELSE guard.key

maybe_consume_one_time_reset(said) ==
    IF ~inFlight /\ one_time_reset_decision(said)
    THEN /\ guard' = [guard EXCEPT !.key = GuardKey, !.outcome = "pending"]
         /\ Send(GuardKey, TRUE)
         /\ nextKey' = nextKey + 1
    ELSE UNCHANGED <<guard, calls, inFlight, nextKey, sends>>

OnLimits ==
    \E said \in reading.says :
      /\ connected /\ sends < MaxSends
      /\ limits' = {said} /\ reading' = Unasked
      /\ maybe_consume_one_time_reset(said)
      /\ UNCHANGED <<service, link, dialog, moves>>

\* render_connection: the button is for a credit there is, none being spent.
Offered == ~inFlight /\ \E said \in limits : said.count > 0

confirm_use_reset_credit ==
    /\ ~dialog /\ Offered
    /\ dialog' = TRUE
    /\ UNCHANGED <<service, guard, link, limits, inFlight, reading, calls, counts>>

\* The answer to the dialog; a credit the user spends has a key of its own.
UseCredit ==
    /\ dialog /\ dialog' = FALSE
    /\ \/ /\ sends < MaxSends
          /\ Send(nextKey, FALSE) /\ nextKey' = nextKey + 1
       \/ UNCHANGED <<calls, sends, inFlight, nextKey>>
    /\ UNCHANGED <<service, guard, link, limits, reading, moves>>

---------------------------------------------------------------------------
(* Answers.                                                                *)

finish_one_time_reset_guard(outcome) ==
    guard' = IF guard.armed /\ guard.outcome = "pending"
             THEN [guard EXCEPT !.armed = FALSE, !.outcome = outcome]
             ELSE guard

\* To either kind of request, an error among the answers.
OnConsumed ==
    \E c \in calls :
      /\ connected /\ c.live /\ c.outcome # None
      /\ calls' = calls \ {c} /\ inFlight' = FALSE
      /\ finish_one_time_reset_guard(c.outcome)
      /\ UNCHANGED <<service, link, limits, reading, dialog, counts>>

---------------------------------------------------------------------------
(* The service (external).                                                 *)

ReadLimits ==
    /\ connected /\ reading.asked /\ reading.says = {}
    /\ reading' = [reading EXCEPT !.says = {[low |-> account \in low, count |-> credits[account]]}]
    /\ UNCHANGED <<service, guard, link, limits, inFlight, dialog, calls, counts>>

Outcome(c) ==
    IF c.key \in redeemed[c.account] THEN "alreadyRedeemed"
    ELSE IF credits[c.account] = 0 THEN "noCredit"
    ELSE IF c.account \notin low THEN "nothingToReset"
    ELSE "reset"

\* A request of a lost connection may still be carried out.
Answered(c, outcome) ==
    calls' = (calls \ {c}) \union (IF c.live THEN {[c EXCEPT !.outcome = outcome]} ELSE {})

Consume(c) ==
    /\ Answered(c, Outcome(c))
    /\ IF Outcome(c) = "reset"
       THEN /\ credits' = [credits EXCEPT ![c.account] = @ - 1]
            /\ redeemed' = [redeemed EXCEPT ![c.account] = @ \union {c.key}]
            /\ low' = low \ {c.account}
            /\ spent' = IF c.auto THEN [spent EXCEPT ![c.account] = @ + 1] ELSE spent
       ELSE UNCHANGED service

Serve ==
    \E c \in calls :
      /\ c.outcome = None /\ (c.live => connected)
      /\ Consume(c) \/ (Answered(c, "failed") /\ UNCHANGED service)
      /\ UNCHANGED <<guard, link, window, counts>>

UseAllowance ==
    \E a \in Accounts \ low :
      /\ moves < MaxMoves /\ moves' = moves + 1
      /\ low' = low \union {a}
      /\ UNCHANGED <<credits, redeemed, spent, guard, link, window, calls, nextKey, sends>>

---------------------------------------------------------------------------
(* Connections.                                                            *)

Connect ==
    /\ ~connected /\ connected' = TRUE
    /\ reading' = [reading EXCEPT !.asked = TRUE]
    /\ UNCHANGED <<service, guard, account, strayed, limits, inFlight, dialog, calls, counts>>

Cut ==
    /\ moves < MaxMoves /\ moves' = moves + 1
    /\ connected' = FALSE
    /\ calls' = {[c EXCEPT !.live = FALSE] : c \in {d \in calls : d.outcome = None}}
    /\ reading' = Unasked /\ inFlight' = FALSE
    /\ UNCHANGED <<service, guard, nextKey, sends>>

Disconnect == connected /\ Cut /\ UNCHANGED <<account, strayed, limits, dialog>>

Restart == Cut /\ limits' = {} /\ dialog' = FALSE /\ UNCHANGED <<account, strayed>>

Pending == guard.armed /\ guard.outcome = "pending"

\* The dialog is modal.  The guard goes with the window to the other account.
SwitchProfile ==
    /\ ~dialog
    /\ Cut /\ account' \in Accounts \ {account}
    /\ strayed' = (strayed \/ Pending)
    /\ limits' = {} /\ UNCHANGED dialog

Next ==
    \/ refresh_account_rate_limits \/ OnLimits \/ confirm_use_reset_credit \/ UseCredit
    \/ OnConsumed \/ ReadLimits \/ Serve \/ UseAllowance
    \/ Connect \/ Disconnect \/ Restart \/ SwitchProfile

Spec == Init /\ [][Next]_vars

---------------------------------------------------------------------------
(* Properties.                                                             *)

Outstanding == \E c \in calls : c.auto /\ c.outcome = None

Promise == INSTANCE OneCredit WITH authorized <- guard.armed \/ Outstanding, excused <- strayed

\* The guard spends one credit at most, however its request is lost, repeated
\* or answered late, and none once it is disarmed and its requests are done,
\* unless the account is left while it is pending: then one of each account
\* at most (maybe_consume_one_time_reset, finish_one_time_reset_guard).
KeepsPromise == Promise!Spec

\* src/persistence.rs:447: "User-authorized, idempotent, one-shot weekly-limit
\* reset guard."
OneShot == \A a, b \in Accounts : spent[a] = 1 /\ spent[b] = 1 => a = b
=============================================================================
