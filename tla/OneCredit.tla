----------------------------- MODULE OneCredit -----------------------------
(***************************************************************************)
(* What the guard promises, a "one-shot weekly-limit reset guard"          *)
(* (src/persistence.rs:447): while it is authorized one credit may be      *)
(* spent; once it is settled it stays so.  A user who leaves the account   *)
(* it waits for excuses it: then one credit of each account may be.        *)
(***************************************************************************)
EXTENDS Naturals

CONSTANT Accounts

VARIABLES
    authorized, \* the authorization is not settled
    spent,      \* credits of each account spent under it
    excused     \* the account it waited for was left

vars == <<authorized, spent, excused>>

Init == authorized \in BOOLEAN /\ spent = [a \in Accounts |-> 0] /\ excused = FALSE

Spend(a) ==
    /\ authorized /\ spent[a] = 0
    /\ excused \/ \A b \in Accounts : spent[b] = 0
    /\ spent' = [spent EXCEPT ![a] = 1]
    /\ authorized' \in BOOLEAN
    /\ UNCHANGED excused

Settle == authorized' = FALSE /\ UNCHANGED <<spent, excused>>

Leave == authorized /\ excused' = TRUE /\ UNCHANGED <<authorized, spent>>

Next == Settle \/ Leave \/ \E a \in Accounts : Spend(a)

Spec == Init /\ [][Next]_vars
=============================================================================
