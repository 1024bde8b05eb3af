---------------------------- MODULE SockJsClient ----------------------------
(***************************************************************************)
(* One SockJS object of sockjs-0.3.4.js on a page of the same origin, in a *)
(* browser with WebSocket and XMLHttpRequest: the info request, transports *)
(* tried one after the other under a timeout, frames received from the one *)
(* that is up and messages sent over it.  The iframe, XDomainRequest and   *)
(* JSONP transports are for other browsers and left out.                   *)
(*                                                                         *)
(* A handler of the code is one action.  Network, server and timers act    *)
(* between two handlers.  A transport's connection is kept as the server's *)
(* session for it and the items on their way to the client, in order.      *)
(***************************************************************************)
EXTENDS Integers, Sequences, Functions

CONSTANTS
    MaxMessages,  \* bound on messages the server pushes
    MaxSends,     \* bound on messages the page sends
    MaxFaults     \* bound on failures of the network and of the server

ASSUME MaxMessagesAssumption == MaxMessages \in Nat
ASSUME MaxSendsAssumption == MaxSends \in Nat
ASSUME SockJsFaultsAssumption == MaxFaults \in Nat

VARIABLES
    info,         \* the info request: asking, done or garbled
    readyState,
    protocols,    \* _protocols: transports still to be tried
    transport,    \* the transport created last
    attached,     \* transports whose callbacks are in place; _transport is
                  \* null when transport is not one of them
    timeouts,     \* transports whose timeout is pending
    tref,         \* _transport_tref: the timeout that clearTimeout would stop
    closing,      \* the close event is scheduled
    events,       \* events dispatched to the page
    session,      \* the server's session for each transport
    wire,         \* items on their way to each transport
    sent,         \* messages the page has sent while the socket was open
    buffer,       \* send_buffer of the Ajax transport
    posts,        \* payloads of its xhr_send requests under way
    waiting,      \* the 25 ms of send_schedule_wait are running
    arrived,      \* messages the server has got, in order
    pushed,       \* messages the server has pushed
    faults        \* failures so far

socketVars == <<readyState, protocols, transport, attached, timeouts, tref, closing>>
serverVars == <<session, wire, pushed>>
senderVars == <<sent, buffer, posts, waiting, arrived>>
vars == <<info, socketVars, events, serverVars, senderVars, faults>>

NoTransport == "none"
AjaxTransports == {"xhr-streaming", "xhr-polling"}
Transports == {"websocket"} \cup AjaxTransports

\* SockJS frames o, a and c; a response that ended with status 200; a
\* connection or request that broke.
Item == {"o", "a", "c", "end", "fail"}

Message == 1 .. MaxSends

TypeOK ==
    /\ info \in {"asking", "done", "garbled"}
    /\ readyState \in {"CONNECTING", "OPEN", "CLOSED"}
    /\ protocols \in Seq(Transports)
    /\ transport \in Transports \cup {NoTransport}
    /\ attached \subseteq Transports
    /\ timeouts \subseteq Transports
    /\ tref \in Transports \cup {NoTransport}
    /\ closing \in BOOLEAN
    /\ events \in Seq({"open", "message", "close"})
    /\ session \in [Transports -> {"none", "asked", "up", "lost"}]
    /\ wire \in [Transports -> Seq(Item)]
    /\ sent \in 0 .. MaxSends
    /\ buffer \in Seq(Message)
    /\ posts \subseteq Seq(Message)
    /\ waiting \in BOOLEAN
    /\ arrived \in Seq(Message)
    /\ pushed \in 0 .. MaxMessages
    /\ faults \in 0 .. MaxFaults

Init ==
    /\ info = "asking"
    /\ readyState = "CONNECTING"
    /\ protocols = <<>>
    /\ transport = NoTransport
    /\ attached = {}
    /\ timeouts = {}
    /\ tref = NoTransport
    /\ closing = FALSE
    /\ events = <<>>
    /\ session = [t \in Transports |-> "none"]
    /\ wire = [t \in Transports |-> <<>>]
    /\ sent = 0
    /\ buffer = <<>>
    /\ posts = {}
    /\ waiting = FALSE
    /\ arrived = <<>>
    /\ pushed = 0
    /\ faults = 0

Fault ==
    /\ faults < MaxFaults
    /\ faults' = faults + 1

-----------------------------------------------------------------------------
(* _didClose and _try_next_protocol *)

\* doCleanup takes the callbacks of the present transport away.
Cleaned == attached \ {transport}

\* The constructor of a transport puts its callbacks in place and calls the
\* server.
NewTransport(t, others) ==
    /\ transport' = t
    /\ attached' = others \cup {t}
    /\ session' = [session EXCEPT ![t] = "asked"]

\* Mutants: the timeout of the transport given up keeps running; its callbacks
\* stay in place; the new one has no timeout.
TryNextProtocol_KeepsTimeout(ps, pending) ==
    /\ protocols' = Tail(ps)
    /\ NewTransport(Head(ps), Cleaned)
    /\ timeouts' = pending \cup {Head(ps)}
    /\ tref' = Head(ps)
    /\ UNCHANGED <<readyState, closing>>

TryNextProtocol_KeepsCallbacks(ps, pending) ==
    /\ protocols' = Tail(ps)
    /\ NewTransport(Head(ps), attached)
    /\ timeouts' = (pending \ {tref}) \cup {Head(ps)}
    /\ tref' = Head(ps)
    /\ UNCHANGED <<readyState, closing>>

TryNextProtocol_Unlimited(ps, pending) ==
    /\ protocols' = Tail(ps)
    /\ NewTransport(Head(ps), Cleaned)
    /\ timeouts' = pending \ {tref}
    /\ tref' = NoTransport
    /\ UNCHANGED <<readyState, closing>>

\* doCleanup of the present transport, then the first of ps is set up.
TryNextProtocol(ps, pending) ==
    /\ protocols' = Tail(ps)
    /\ NewTransport(Head(ps), Cleaned)
    /\ timeouts' = (pending \ {tref}) \cup {Head(ps)}
    /\ tref' = Head(ps)
    /\ UNCHANGED <<readyState, closing>>

\* Mutant: no close event is scheduled.
CloseForGood_Silently ==
    /\ readyState' = "CLOSED"
    /\ attached' = Cleaned
    /\ UNCHANGED <<closing, transport, session>>

CloseForGood ==
    /\ readyState' = "CLOSED"
    /\ closing' = TRUE
    /\ attached' = Cleaned
    /\ UNCHANGED <<transport, session>>

\* A close is final when its code is the user's or it is forced.  Another one,
\* while connecting, moves on to the next transport and closes when none is
\* left.  ps are the transports not tried yet, pending the timeouts running.
DidClose(ps, final, pending) ==
    \/ /\ readyState = "CONNECTING" /\ ~final /\ ps # <<>>
       /\ TryNextProtocol(ps, pending)
    \/ /\ readyState = "CONNECTING" /\ ~final /\ ps = <<>>
       /\ CloseForGood
       /\ timeouts' = pending \ {tref}
       /\ tref' = NoTransport
       /\ protocols' = ps
    \/ /\ readyState = "OPEN" \/ (readyState = "CONNECTING" /\ final)
       /\ CloseForGood
       /\ timeouts' = pending
       /\ protocols' = ps
       /\ UNCHANGED tref

\* The close event, in a turn of its own.
DispatchClose ==
    /\ closing
    /\ closing' = FALSE
    /\ events' = Append(events, "close")
    /\ UNCHANGED <<info, readyState, protocols, transport, attached, timeouts,
                   tref, serverVars, senderVars, faults>>

-----------------------------------------------------------------------------
(* The info request and the transports' timeouts *)

\* Mutant: the branch of browsers without XMLHttpRequest is taken.
DetectProtocols_Jsonp(websocket) == <<"xhr-streaming", "jsonp-polling">>

\* detectProtocols in such a browser, when the server does or does not offer
\* WebSocket.
DetectProtocols(websocket) ==
    IF websocket THEN <<"websocket", "xhr-streaming", "xhr-polling">>
    ELSE <<"xhr-streaming", "xhr-polling">>

\* _applyInfo, then _didClose() without a code starts the first transport.
InfoAnswers ==
    /\ info = "asking"
    /\ info' = "done"
    /\ \E websocket \in BOOLEAN :
           DidClose(DetectProtocols(websocket), FALSE, timeouts)
    /\ UNCHANGED <<events, wire, pushed, senderVars, faults>>

\* An error status, or no answer for 8 seconds.
InfoFails ==
    /\ info = "asking"
    /\ Fault
    /\ info' = "done"
    /\ DidClose(protocols, TRUE, timeouts)
    /\ UNCHANGED <<events, wire, pushed, senderVars>>

\* Status 200, but no JSON: JSON.parse throws, the timeout being cleared.
InfoGarbled ==
    /\ info = "asking"
    /\ Fault
    /\ info' = "garbled"
    /\ UNCHANGED <<socketVars, events, serverVars, senderVars>>

\* The timeout looks at readyState, not at the transport being tried.
TransportTimesOut(t) ==
    /\ t \in timeouts
    /\ \/ /\ readyState = "CONNECTING"
          /\ DidClose(protocols, FALSE, timeouts \ {t})
       \/ /\ readyState # "CONNECTING"
          /\ timeouts' = timeouts \ {t}
          /\ UNCHANGED <<readyState, protocols, transport, attached, tref, closing,
                         session>>
    /\ UNCHANGED <<info, events, wire, pushed, senderVars, faults>>

-----------------------------------------------------------------------------
(* What the transport hands over: _didMessage, and broken connections *)

NextItem(t, item) ==
    /\ t \in attached
    /\ wire[t] # <<>>
    /\ Head(wire[t]) = item
    /\ wire' = [wire EXCEPT ![t] = Tail(@)]

\* Frame o while connecting opens the socket.
ReceiveOpen(t) ==
    /\ NextItem(t, "o")
    /\ readyState = "CONNECTING"
    /\ readyState' = "OPEN"
    /\ timeouts' = timeouts \ {tref}
    /\ tref' = NoTransport
    /\ events' = Append(events, "open")
    /\ UNCHANGED <<info, protocols, transport, attached, closing, session, pushed,
                   senderVars, faults>>

\* Another frame o: the server has lost the session and begun a new one.
ReceiveReopen(t) ==
    /\ NextItem(t, "o")
    /\ readyState = "OPEN"
    /\ DidClose(protocols, FALSE, timeouts)
    /\ UNCHANGED <<info, events, pushed, senderVars, faults>>

ReceiveMessage(t) ==
    /\ NextItem(t, "a")
    /\ readyState = "OPEN"
    /\ events' = Append(events, "message")
    /\ UNCHANGED <<info, socketVars, session, pushed, senderVars, faults>>

\* Frame c of the server carries a user's code (3000).
ReceiveClose(t) ==
    /\ \/ NextItem(t, "c") /\ DidClose(protocols, TRUE, timeouts)
       \/ NextItem(t, "fail") /\ DidClose(protocols, FALSE, timeouts)
    /\ UNCHANGED <<info, events, pushed, senderVars, faults>>

\* Polling: the response has ended, the next request is made; a server that
\* has lost the session meanwhile takes it for a new one.
ReceiveEnd(t) ==
    /\ NextItem(t, "end")
    /\ session' = [session EXCEPT ![t] = IF @ = "lost" THEN "asked" ELSE @]
    /\ UNCHANGED <<info, socketVars, events, pushed, senderVars, faults>>

-----------------------------------------------------------------------------
(* Sending *)

\* doSend of WebSocketTransport: lost when the connection has broken.
WebSocketSend(m) ==
    /\ transport = "websocket"
    /\ arrived' = IF session[transport] = "up" THEN Append(arrived, m) ELSE arrived
    /\ UNCHANGED <<buffer, posts, waiting>>

\* Mutant: send_stop is not looked at.
BufferedSend_AtOnce(m) ==
    /\ transport \in AjaxTransports
    /\ posts' = posts \cup {Append(buffer, m)}
    /\ buffer' = <<>>
    /\ UNCHANGED <<waiting, arrived>>

\* doSend of BufferedSender: at once when send_stop is null.
BufferedSend(m) ==
    /\ transport \in AjaxTransports
    /\ \/ /\ posts = {} /\ ~waiting
          /\ posts' = {Append(buffer, m)}
          /\ buffer' = <<>>
       \/ /\ posts # {} \/ waiting
          /\ buffer' = Append(buffer, m)
          /\ UNCHANGED posts
    /\ UNCHANGED <<waiting, arrived>>

Transmit ==
    /\ readyState = "OPEN"
    /\ sent < MaxSends
    /\ sent' = sent + 1
    /\ WebSocketSend(sent + 1) \/ BufferedSend(sent + 1)

Send ==
    /\ Transmit
    /\ UNCHANGED <<info, socketVars, events, serverVars, faults>>

\* The page sends DISCONNECT and closes the socket in one turn.
Disconnect ==
    /\ Transmit
    /\ DidClose(protocols, TRUE, timeouts)
    /\ UNCHANGED <<info, events, wire, pushed, faults>>

PostSucceeds(p) ==
    /\ p \in posts
    /\ session[transport] = "up"
    /\ posts' = posts \ {p}
    /\ arrived' = arrived \o p
    /\ waiting' = TRUE
    /\ UNCHANGED <<info, socketVars, events, serverVars, sent, buffer, faults>>

\* The server does not know the session, or the request or its answer got
\* lost.  On a closed socket _didClose throws, and that is all.
PostFails(p) ==
    /\ p \in posts
    /\ \/ session[transport] # "up" /\ UNCHANGED <<arrived, faults>>
       \/ Fault /\ arrived' \in {arrived, arrived \o p}
    /\ posts' = posts \ {p}
    /\ \/ readyState = "OPEN" /\ DidClose(protocols, FALSE, timeouts)
       \/ readyState = "CLOSED" /\ UNCHANGED <<socketVars, session>>
    /\ UNCHANGED <<info, events, wire, pushed, sent, buffer, waiting>>

\* Mutant: the buffer is not looked at again.
SendScheduled_Forgets ==
    /\ waiting
    /\ waiting' = FALSE
    /\ UNCHANGED <<buffer, posts>>
    /\ UNCHANGED <<info, socketVars, events, serverVars, sent, arrived, faults>>

\* The 25 ms are over.  doCleanup does not stop this timer.
SendScheduled ==
    /\ waiting
    /\ waiting' = FALSE
    /\ \/ buffer = <<>> /\ UNCHANGED <<buffer, posts>>
       \/ buffer # <<>> /\ posts' = posts \cup {buffer} /\ buffer' = <<>>
    /\ UNCHANGED <<info, socketVars, events, serverVars, sent, arrived, faults>>

-----------------------------------------------------------------------------
(* Server and network *)

Deliver(t, item) == wire' = [wire EXCEPT ![t] = Append(@, item)]

\* The answer to a transport's request may be late: the client may have given
\* the transport up.
Accept(t) ==
    /\ session[t] = "asked"
    /\ session' = [session EXCEPT ![t] = "up"]
    /\ Deliver(t, "o")
    /\ UNCHANGED <<info, socketVars, events, pushed, senderVars, faults>>

Push(t) ==
    /\ session[t] = "up"
    /\ pushed < MaxMessages
    /\ pushed' = pushed + 1
    /\ Deliver(t, "a")
    /\ UNCHANGED <<info, socketVars, events, session, senderVars, faults>>

EndResponse(t) ==
    /\ t \in AjaxTransports
    /\ session[t] = "up"
    /\ "end" \notin Range(wire[t])
    /\ Deliver(t, "end")
    /\ UNCHANGED <<info, socketVars, events, session, pushed, senderVars, faults>>

\* The server ends the session or the connection breaks.
SessionEnds(t) ==
    /\ Fault
    /\ \/ session[t] = "up" /\ Deliver(t, "c")
       \/ session[t] \in {"asked", "up"} /\ Deliver(t, "fail")
    /\ session' = [session EXCEPT ![t] = "lost"]
    /\ UNCHANGED <<info, socketVars, events, pushed, senderVars>>

\* A restart between two requests of a client that polls.
ServerRestarts(t) ==
    /\ session[t] = "up"
    /\ "end" \in Range(wire[t])
    /\ Fault
    /\ session' = [session EXCEPT ![t] = "lost"]
    /\ UNCHANGED <<info, socketVars, events, wire, pushed, senderVars>>

-----------------------------------------------------------------------------
Receive(t) ==
    \/ ReceiveOpen(t) \/ ReceiveReopen(t) \/ ReceiveMessage(t)
    \/ ReceiveClose(t) \/ ReceiveEnd(t)

ClientStep ==
    \/ InfoAnswers \/ InfoFails \/ InfoGarbled
    \/ DispatchClose
    \/ Send \/ Disconnect \/ SendScheduled
    \/ \E t \in Transports : TransportTimesOut(t) \/ Receive(t)
    \/ \E p \in posts : PostSucceeds(p) \/ PostFails(p)

ServerStep ==
    \E t \in Transports :
        Accept(t) \/ Push(t) \/ EndResponse(t) \/ SessionEnds(t) \/ ServerRestarts(t)

Next == ClientStep \/ ServerStep

\* Timers fire, callbacks and scheduled events run, and a request is answered
\* or fails.  Nothing makes the server accept, push or fail, or the page send.
Fairness ==
    /\ WF_vars(InfoAnswers \/ InfoFails)
    /\ WF_vars(DispatchClose)
    /\ WF_vars(SendScheduled)
    /\ WF_vars(\E p \in posts : PostSucceeds(p) \/ PostFails(p))
    /\ \A t \in Transports : WF_vars(TransportTimesOut(t)) /\ WF_vars(Receive(t))

Spec == Init /\ [][Next]_vars
FairSpec == Spec /\ Fairness

-----------------------------------------------------------------------------
(* Properties *)

\* Transports given up stay silent: only the present one has callbacks in
\* place, none once the socket is closed, so that late answers of another
\* session never reach the page (doCleanup in _didClose).
AbandonedTransportsAreSilent ==
    /\ attached \subseteq {transport}
    /\ readyState = "CLOSED" => attached = {}

\* While the socket connects, the only timeout that can fire is that of the
\* transport being tried; an older one would cut it short, because timeouts do
\* not know their transport (_transport_tref in _try_next_protocol).
TimeoutsHitTheirOwn == readyState = "CONNECTING" => timeouts \subseteq {transport}

\* The server gets what the page sends in order and without gaps or
\* duplicates, across several xhr_send requests, failures included, up to the
\* point where the connection failed (BufferedSender, send_stop).
MessagesArriveInOrder == \A i \in DOMAIN arrived : arrived[i] = i

\* What was sent on an open socket arrives unless the socket closes, messages
\* buffered while a request was under way included (send_schedule_wait).
SendsArrive ==
    \A k \in 1 .. MaxSends :
        sent >= k ~> Len(arrived) >= k \/ readyState = "CLOSED"

\* An attempt to connect comes to an end, one way or the other, unless the
\* answer to the info request was not JSON.  MonitorClient relies on it.
AttemptsEnd ==
    readyState = "CONNECTING" ~> readyState # "CONNECTING" \/ info = "garbled"

\* Transports, sessions, timeouts and buffers hidden, the object behaves as one
\* channel: the view MonitorClient has of it.
Channel == INSTANCE SocketChannel

ImplementsChannel == Channel!ChannelSpec

-----------------------------------------------------------------------------
(* The inductive invariant behind the safety properties *)

\* While the socket connects, _transport_tref is the timeout of the transport
\* being tried, and no other is pending.
TrefIsCurrent ==
    readyState = "CONNECTING" => tref = transport /\ timeouts \subseteq {tref}

\* A WebSocket is tried first or never; its session, once begun, never begins
\* anew.
WebSocketSessionIsOne ==
    /\ protocols \in Seq(AjaxTransports)
    /\ info = "asking" =>
           /\ readyState = "CONNECTING" /\ transport = NoTransport
           /\ session["websocket"] = "none"
    /\ "end" \notin Range(wire["websocket"])
    /\ session["websocket"] \in {"none", "asked"} => wire["websocket"] = <<>>
    /\ readyState = "OPEN" => transport \in Transports
    /\ readyState = "OPEN" /\ transport = "websocket" =>
           session["websocket"] \in {"up", "lost"}

\* Before the socket is open nothing is sent; a WebSocket buffers nothing.
NothingBuffered == posts = {} /\ ~waiting /\ buffer = <<>>

SenderStartsEmpty ==
    /\ readyState = "CONNECTING" => NothingBuffered /\ sent = 0 /\ arrived = <<>>
    /\ transport = "websocket" => NothingBuffered

Continues(s, n) == \A i \in DOMAIN s : s[i] = n + i

\* Arrived messages, the one payload under way and the buffer follow each other
\* without a gap; on an open socket they are all that was sent.
MessagesFollow ==
    /\ Continues(arrived, 0)
    /\ \A p \in posts :
           /\ posts = {p} /\ ~waiting
           /\ Continues(p, Len(arrived))
           /\ Continues(buffer, Len(arrived) + Len(p))
           /\ readyState = "OPEN" => sent = Len(arrived) + Len(p) + Len(buffer)
    /\ waiting =>
           /\ Continues(buffer, Len(arrived))
           /\ readyState = "OPEN" => sent = Len(arrived) + Len(buffer)
    /\ readyState = "OPEN" /\ posts = {} /\ ~waiting =>
           /\ buffer = <<>>
           /\ transport \in AjaxTransports \/ session[transport] = "up" =>
                  sent = Len(arrived)

IInv ==
    /\ TypeOK
    /\ AbandonedTransportsAreSilent
    /\ TrefIsCurrent
    /\ WebSocketSessionIsOne
    /\ SenderStartsEmpty
    /\ MessagesFollow
=============================================================================
