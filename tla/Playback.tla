------------------------------ MODULE Playback ------------------------------
(***************************************************************************)
(* What the client promises its viewer, whatever the network does: the     *)
(* video is shown from its first to its last period, each once and in      *)
(* order; nothing is shown before it was received; the picture freezes     *)
(* only when all that was received has been shown, and the end is the end  *)
(* of the video.                                                           *)
(***************************************************************************)
EXTENDS Naturals

CONSTANTS
    NO_SEG, \* number of segments
    SD      \* periods in a segment

VARIABLES
    screen,   \* "waiting" for the video, "showing" it, "frozen", or "over"
    received, \* segments received
    shown     \* periods shown

viewVars == <<screen, received, shown>>

ViewInit == screen = "waiting" /\ received = 0 /\ shown = 0

Receive ==
    /\ received < NO_SEG
    /\ received' = received + 1
    /\ UNCHANGED <<screen, shown>>

Begin ==
    /\ screen = "waiting"
    /\ received > 0
    /\ screen' = "showing"
    /\ UNCHANGED <<received, shown>>

ShowPeriod ==
    /\ screen = "showing"
    /\ shown < SD * received
    /\ shown' = shown + 1
    /\ UNCHANGED <<screen, received>>

Freeze ==
    /\ screen = "showing"
    /\ shown = SD * received
    /\ received < NO_SEG
    /\ screen' = "frozen"
    /\ UNCHANGED <<received, shown>>

Thaw ==
    /\ screen = "frozen"
    /\ shown < SD * received
    /\ screen' = "showing"
    /\ UNCHANGED <<received, shown>>

Finish ==
    /\ screen = "showing"
    /\ shown = SD * NO_SEG
    /\ screen' = "over"
    /\ UNCHANGED <<received, shown>>

ViewNext == Receive \/ Begin \/ ShowPeriod \/ Freeze \/ Thaw \/ Finish

ViewSpec == ViewInit /\ [][ViewNext]_viewVars
=============================================================================
