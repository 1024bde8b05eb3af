---------------------------- MODULE SocketChannel ----------------------------
(***************************************************************************)
(* What a SockJS object promises to the code that uses it: it opens at     *)
(* most once, hands over messages only while it is open, closes at most    *)
(* once and for good, and reports a close once, in a turn of its own.      *)
(* Which transport carries the messages does not show.                     *)
(***************************************************************************)
EXTENDS Sequences

VARIABLES readyState, closing, events

channelVars == <<readyState, closing, events>>

ChannelInit ==
    /\ readyState = "CONNECTING"
    /\ closing = FALSE
    /\ events = <<>>

ChannelOpens ==
    /\ readyState = "CONNECTING"
    /\ readyState' = "OPEN"
    /\ events' = Append(events, "open")
    /\ UNCHANGED closing

ChannelDelivers ==
    /\ readyState = "OPEN"
    /\ events' = Append(events, "message")
    /\ UNCHANGED <<readyState, closing>>

ChannelCloses ==
    /\ readyState # "CLOSED"
    /\ readyState' = "CLOSED"
    /\ closing' = TRUE
    /\ UNCHANGED events

ChannelReportsClose ==
    /\ closing
    /\ closing' = FALSE
    /\ events' = Append(events, "close")
    /\ UNCHANGED readyState

ChannelNext ==
    ChannelOpens \/ ChannelDelivers \/ ChannelCloses \/ ChannelReportsClose

ChannelSpec == ChannelInit /\ [][ChannelNext]_channelVars
=============================================================================
