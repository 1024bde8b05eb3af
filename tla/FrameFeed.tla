------------------------------ MODULE FrameFeed ------------------------------
(***************************************************************************)
(* What the receiving side of an Ajax transport promises the SockJS object:*)
(* it hears the frames that the server writes, each once and in order,     *)
(* several at a time maybe, until it is closed; then it hears no more.     *)
(* CloseFrame closes it.  Requests, responses and the lines they arrive in *)
(* do not show.                                                            *)
(***************************************************************************)
EXTENDS Naturals, Sequences

CONSTANTS Frames, CloseFrame

VARIABLES
    sent,   \* frames written by the server, in order
    heard,  \* frames handed to the SockJS object, in order
    phase   \* "open", "closed", or "stuck" after a callback that threw

feedVars == <<sent, heard, phase>>

FeedInit == sent = <<>> /\ heard = <<>> /\ phase = "open"

SendFrame(f) ==
    /\ sent' = Append(sent, f)
    /\ UNCHANGED <<heard, phase>>

Hear ==
    /\ phase = "open"
    /\ \E n \in Len(heard) + 1 .. Len(sent) :
           /\ heard' = SubSeq(sent, 1, n)
           /\ sent[n] = CloseFrame => phase' = "closed"
    /\ phase' \in {"open", "closed", "stuck"}
    /\ UNCHANGED sent

StopHearing ==
    /\ phase = "open"
    /\ phase' = "closed"
    /\ UNCHANGED <<sent, heard>>

CloseStuck ==
    /\ phase = "stuck"
    /\ phase' = "closed"
    /\ UNCHANGED <<sent, heard>>

FeedNext ==
    (\E f \in Frames \cup {CloseFrame} : SendFrame(f)) \/ Hear \/ StopHearing \/ CloseStuck

FeedSpec == FeedInit /\ [][FeedNext]_feedVars
FeedFairness == WF_feedVars(Hear)
=============================================================================
