--------------------------- MODULE MonitorClient ---------------------------
(***************************************************************************)
(* The monitor page: eventMonitor.js on a stomp.js client on a SockJS      *)
(* socket.  One browser thread runs its callbacks one at a time; between   *)
(* two callbacks the network, the server and the timers can do anything.   *)
(*                                                                         *)
(* SockJS's choice among its transports is one step that ends in an open   *)
(* or a closed socket.  Of the server only its end of each session is      *)
(* kept, and of what it sends, which session a displayed line came from.   *)
(***************************************************************************)
EXTENDS Integers, Sequences

CONSTANT MaxFaults   \* bound on failures of the network and of the server

ASSUME ClientFaultsAssumption == MaxFaults \in Nat

VARIABLES
    sockets,   \* every SockJS the page has created with its Stomp.Client;
               \* stompClient is the last one
    timers,    \* pending setTimeout(connect, 10000)
    display,   \* the sockets whose lines the response element shows
    faults     \* failures so far

vars == <<sockets, timers, display, faults>>

ReadyState == {"CONNECTING", "OPEN", "CLOSED"}

\* The server's end: nothing yet, the transport is open and CONNECT under way,
\* CONNECTED delivered, ERROR sent and the close to follow, gone without the
\* page noticing, or closed.
Session == {"none", "opened", "connected", "erring", "lost", "closed"}

Socket == [readyState : ReadyState, session : Session,
           connected : BOOLEAN,    \* of the Stomp.Client
           closing : BOOLEAN]      \* close event scheduled, ws.onclose set

NewSocket == [readyState |-> "CONNECTING", session |-> "none",
              connected |-> FALSE, closing |-> FALSE]

TypeOK ==
    /\ sockets \in Seq(Socket)
    /\ timers \in Nat
    /\ display \subseteq DOMAIN sockets
    /\ faults \in 0 .. MaxFaults

cur == Len(sockets)   \* the socket of stompClient; 0 while that is null

Init ==
    /\ sockets = <<>>
    /\ timers = 0
    /\ display = {}
    /\ faults = 0

Fault ==
    /\ faults < MaxFaults
    /\ faults' = faults + 1

-----------------------------------------------------------------------------
(* connect and reconnect *)

\* Mutants: the old socket stays open; its close event still reconnects.
Disconnected_LeftOpen(s) == [s EXCEPT !.connected = FALSE, !.closing = FALSE]

Disconnected_KeepsOnclose(s) ==
    [s EXCEPT !.readyState = "CLOSED", !.session = "closed",
              !.connected = FALSE, !.closing = TRUE]

\* stomp.js disconnect: DISCONNECT is transmitted, ws.onclose dropped, the
\* socket closed and the client cleaned up.
Disconnected(s) == [s EXCEPT !.readyState = "CLOSED", !.session = "closed",
                             !.connected = FALSE, !.closing = FALSE]

\* A connect() that finds the old socket still connecting does nothing: the
\* DISCONNECT it transmits first throws INVALID_STATE_ERR.
ConnectThrows ==
    /\ cur # 0 /\ sockets[cur].readyState = "CONNECTING"
    /\ UNCHANGED sockets

Reopen ==
    /\ cur # 0 /\ sockets[cur].readyState # "CONNECTING"
    /\ sockets' = Append([sockets EXCEPT ![cur] = Disconnected(@)], NewSocket)

\* body onload="connect()".
PageLoads ==
    /\ cur = 0
    /\ sockets' = Append(sockets, NewSocket)
    /\ UNCHANGED <<timers, display, faults>>

\* The timer that reconnect() set runs connect().
TimerFires ==
    /\ timers > 0
    /\ timers' = timers - 1
    /\ ConnectThrows \/ Reopen
    /\ UNCHANGED <<display, faults>>

Reconnect == timers' = timers + 1

-----------------------------------------------------------------------------
(* The socket's events *)

\* A transport opens; stomp.js's onopen transmits CONNECT.
Open(g) ==
    /\ sockets[g].readyState = "CONNECTING"
    /\ sockets' = [sockets EXCEPT ![g] =
                      [@ EXCEPT !.readyState = "OPEN", !.session = "opened"]]
    /\ UNCHANGED <<timers, display, faults>>

\* Mutant: no close event is scheduled.
Closed_Silently(s) == [s EXCEPT !.readyState = "CLOSED", !.session = "closed"]

Closed(s) == [s EXCEPT !.readyState = "CLOSED", !.session = "closed",
                       !.closing = TRUE]

\* _didClose schedules the close event; onclose runs in a later turn.
DidClose(g) == sockets' = [sockets EXCEPT ![g] = Closed(@)]

\* No answer from /events/info, or no transport could connect.
ConnectFails(g) ==
    /\ sockets[g].readyState = "CONNECTING"
    /\ Fault
    /\ DidClose(g)
    /\ UNCHANGED <<timers, display>>

\* The connection breaks or the server closes it.
ConnectionBreaks(g) ==
    /\ sockets[g].readyState = "OPEN"
    /\ sockets[g].session \in {"opened", "connected"}
    /\ Fault
    /\ DidClose(g)
    /\ UNCHANGED <<timers, display>>

\* The close that follows the server's ERROR frame.
ClosedAfterError(g) ==
    /\ sockets[g].readyState = "OPEN"
    /\ sockets[g].session = "erring"
    /\ DidClose(g)
    /\ UNCHANGED <<timers, display, faults>>

\* The server's end goes away and nothing tells the page.
LinkLost(g) ==
    /\ sockets[g].readyState = "OPEN"
    /\ sockets[g].session \in {"opened", "connected"}
    /\ Fault
    /\ sockets' = [sockets EXCEPT ![g] = [@ EXCEPT !.session = "lost"]]
    /\ UNCHANGED <<timers, display>>

\* onclose: clean up and call the error callback.
DispatchClose(g) ==
    /\ sockets[g].closing
    /\ sockets' = [sockets EXCEPT ![g] =
                      [@ EXCEPT !.closing = FALSE, !.connected = FALSE]]
    /\ Reconnect
    /\ UNCHANGED <<display, faults>>

-----------------------------------------------------------------------------
(* Frames from the server *)

\* Mutant: setConnected does not clear the display.
ReceiveConnected_KeepsDisplay(g) ==
    /\ sockets[g].readyState = "OPEN"
    /\ sockets[g].session = "opened"
    /\ sockets' = [sockets EXCEPT ![g] =
                      [@ EXCEPT !.session = "connected", !.connected = TRUE]]
    /\ UNCHANGED <<timers, display, faults>>

\* CONNECTED: the display is cleared, the page subscribes and says hello.
ReceiveConnected(g) ==
    /\ sockets[g].readyState = "OPEN"
    /\ sockets[g].session = "opened"
    /\ sockets' = [sockets EXCEPT ![g] =
                      [@ EXCEPT !.session = "connected", !.connected = TRUE]]
    /\ display' = {}
    /\ UNCHANGED <<timers, faults>>

\* MESSAGE: showResponse.
ReceiveMessage(g) ==
    /\ sockets[g].readyState = "OPEN"
    /\ sockets[g].session = "connected"
    /\ display' = display \cup {g}
    /\ UNCHANGED <<sockets, timers, faults>>

\* ERROR: the error callback runs at once, the close comes later.
ReceiveError(g) ==
    /\ sockets[g].readyState = "OPEN"
    /\ sockets[g].session \in {"opened", "connected"}
    /\ Fault
    /\ sockets' = [sockets EXCEPT ![g] = [@ EXCEPT !.session = "erring"]]
    /\ Reconnect
    /\ UNCHANGED display

-----------------------------------------------------------------------------
\* Nothing is left to happen on a page whose link was lost.
Sits ==
    /\ cur # 0 /\ sockets[cur].session = "lost" /\ timers = 0
    /\ UNCHANGED vars

SocketStep(g) ==
    \/ Open(g) \/ ConnectFails(g)
    \/ ConnectionBreaks(g) \/ ClosedAfterError(g) \/ LinkLost(g)
    \/ DispatchClose(g)
    \/ ReceiveConnected(g) \/ ReceiveMessage(g) \/ ReceiveError(g)

Next ==
    \/ PageLoads
    \/ TimerFires
    \/ \E g \in DOMAIN sockets : SocketStep(g)
    \/ Sits

\* The page loads, its timers and events are dispatched, and a connection
\* attempt ends one way or the other (AttemptsEnd of SockJsClient: each transport
\* has a timeout, and the info request too, if its answer is JSON).  A server
\* that has not failed answers CONNECT and closes after an ERROR.
Fairness ==
    /\ WF_vars(PageLoads)
    /\ WF_vars(TimerFires)
    /\ WF_vars(\E g \in DOMAIN sockets : Open(g) \/ ConnectFails(g))
    /\ WF_vars(\E g \in DOMAIN sockets : DispatchClose(g))
    /\ WF_vars(\E g \in DOMAIN sockets : ReceiveConnected(g))
    /\ WF_vars(\E g \in DOMAIN sockets : ClosedAfterError(g))

Spec == Init /\ [][Next]_vars
FairSpec == Spec /\ Fairness

-----------------------------------------------------------------------------
(* Properties *)

\* However reconnect timers, close events and ERROR frames interleave, the page
\* never listens on two sockets: every socket but the current one is closed
\* and will not report its close (connect, stomp.js disconnect).
OneLiveSocket ==
    \A g \in DOMAIN sockets : g # cur =>
        sockets[g].readyState = "CLOSED" /\ ~sockets[g].closing

\* The page never gives up: when its socket is closed, a timer or a close event
\* that will set one is pending, also after a connect() that threw
\* (eventMonitor.js reconnect, "permanently try to reconnect").
NeverStranded ==
    cur # 0 /\ sockets[cur].readyState = "CLOSED" =>
        timers > 0 \/ sockets[cur].closing

\* Once connected, the page shows lines of the present session only; those of
\* an earlier one are cleared before the first new one arrives (setConnected).
DisplayIsCurrent ==
    cur # 0 /\ sockets[cur].connected => display \subseteq {cur}

\* Each failure causes at most two reconnects, so that a page does not build up
\* timers however long it runs.
ReconnectsAreBounded == timers + cur <= 1 + 2 * faults

\* When the network and the server stop failing, the page ends up connected
\* and stays so, unless its link was lost without a sign.
StaysConnected ==
    <>[](cur # 0 /\ (sockets[cur].connected \/ sockets[cur].session = "lost"))

-----------------------------------------------------------------------------
(* The inductive invariant behind the safety properties *)

\* Reconnects the current socket has still to cause.
Owed(s) == IF s.closing \/ s.session = "erring" THEN 1 ELSE 0

OwedReconnectsAreBounded ==
    IF cur = 0 THEN timers = 0
    ELSE timers + cur + Owed(sockets[cur]) <= 1 + 2 * faults

ClosingIsClosed ==
    \A g \in DOMAIN sockets :
        /\ sockets[g].readyState = "OPEN" => ~sockets[g].closing
        /\ sockets[g].readyState = "CONNECTING" =>
               sockets[g].session = "none" /\ ~sockets[g].closing
        /\ sockets[g].readyState = "CLOSED" => sockets[g].session = "closed"

IInv ==
    /\ TypeOK
    /\ OneLiveSocket
    /\ NeverStranded
    /\ DisplayIsCurrent
    /\ ClosingIsClosed
    /\ OwedReconnectsAreBounded

-----------------------------------------------------------------------------
(* What the comments say, and the code does not do *)

\* eventMonitor.js: "If application is disconnected - permanently try to
\* reconnect".  A reconnect finds the page disconnected.
ReconnectsWhenDisconnected ==
    [][cur # 0 /\ cur' # cur =>
          ~(sockets[cur].connected /\ sockets[cur].session = "connected")]_vars

\* The same comment, and stomp.js's "did not receive server activity for the
\* last": a page whose link is lost notices.
LossIsNoticed ==
    (cur # 0 /\ sockets[cur].session = "lost")
        ~> (cur # 0 /\ sockets[cur].session # "lost")
=============================================================================
