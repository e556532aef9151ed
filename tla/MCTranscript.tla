--------------------------- MODULE MCTranscript ---------------------------
(***************************************************************************)
(* The two halves of the transcript, checked in one run: how the messages  *)
(* of a task come together in the store, and how they get to the screen.   *)
(* The first state chooses which of them moves.                            *)
(***************************************************************************)
EXTENDS Integers

CONSTANT Parts  \* the half to check

VARIABLES
    part,
    rollout, last, running, asks, subscribed, stream, ready, open, turns,
    activeTurn, cursor, loading, job, fingerprint, resumed, messages,
    visits, clicks,
    viewOpen, items, streaming, routed, progress, revision, reasoning,
    page, scheduled, viewLast, rows, box, pill, cut, changes

Chat == INSTANCE Transcript WITH
    MaxTurns <- 2, MaxMessages <- 3, MaxVisits <- 1, MaxClicks <- 1

View == INSTANCE TranscriptView WITH
    Tasks <- {"a", "b"}, None <- "none", MaxText <- 2, MaxChanges <- 4,
    open <- viewOpen, last <- viewLast

ChatState ==
    <<rollout, last, running, asks, subscribed, stream, ready, open, turns,
    activeTurn, cursor, loading, job, fingerprint, resumed, messages,
    visits, clicks>>
ViewState ==
    <<viewOpen, items, streaming, routed, progress, revision, reasoning,
    page, scheduled, viewLast, rows, box, pill, cut, changes>>

Init ==
    /\ part \in Parts
    /\ Chat!Init
    /\ View!Init
    /\ viewOpen # "b"
    /\ part # "View" => viewOpen = "none" /\ ~reasoning

\* The components that do not move stay.
Rest ==
    /\ UNCHANGED part
    /\ part # "Chat" => UNCHANGED ChatState
    /\ part # "View" => UNCHANGED ViewState

Next ==
    /\ Rest
    /\ \/ part = "Chat" /\ Chat!Next
       \/ part = "View" /\ View!Next

Spec == Init /\ [][Next]_<<part, ChatState, ViewState>>

---------------------------------------------------------------------------
(* Properties.                                                             *)

\* At rest, the open task shows what its rollout holds.
ShowsTheRollout == Chat!ShowsTheRollout

\* No message is shown beside its pending copy.
NoTwin == Chat!NoTwin

\* Drawing row by row gives what drawing everything would.
Drawn == View!Drawn
===========================================================================
