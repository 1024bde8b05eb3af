---------------------------- MODULE SockJsProofs ----------------------------
(***************************************************************************)
(* Proofs about SockJsClient: its silent transports and timeouts, the      *)
(* order in which messages reach the server, and the steps by which it     *)
(* implements SocketChannel.                                               *)
(***************************************************************************)
EXTENDS SockJsClient, TLAPS

-----------------------------------------------------------------------------
(* Transports given up and their timeouts *)

\* _didClose keeps the present transport the only one with callbacks, and its
\* timeout the only one pending.
LEMMA DidCloseKeepsCurrent ==
    ASSUME AbandonedTransportsAreSilent, TrefIsCurrent,
           NEW ps, NEW final, NEW pending \in SUBSET timeouts,
           DidClose(ps, final, pending)
    PROVE  AbandonedTransportsAreSilent' /\ TrefIsCurrent'
  BY DEF AbandonedTransportsAreSilent, TrefIsCurrent, DidClose, TryNextProtocol, NewTransport,
         Cleaned, CloseForGood

\* Every step keeps both.
LEMMA CurrentStep ==
    ASSUME AbandonedTransportsAreSilent, TrefIsCurrent, [Next]_vars
    PROVE  AbandonedTransportsAreSilent' /\ TrefIsCurrent'
  <1> USE DEF AbandonedTransportsAreSilent, TrefIsCurrent
  <1>1. CASE UNCHANGED socketVars
    BY <1>1 DEF socketVars
  <1>2. CASE \E ps, final : \E pending \in SUBSET timeouts : DidClose(ps, final, pending)
    BY <1>2, DidCloseKeepsCurrent
  <1>3. CASE InfoAnswers
    BY <1>2, <1>3 DEF InfoAnswers
  <1>4. CASE InfoFails
    BY <1>2, <1>4 DEF InfoFails
  <1>5. CASE Disconnect
    BY <1>2, <1>5 DEF Disconnect
  <1>6. ASSUME NEW t \in Transports, TransportTimesOut(t)
        PROVE  AbandonedTransportsAreSilent' /\ TrefIsCurrent'
    <2>1. CASE readyState = "CONNECTING"
      BY <1>2, <1>6, <2>1 DEF TransportTimesOut
    <2>2. CASE readyState # "CONNECTING"
      BY <1>6, <2>2 DEF TransportTimesOut
    <2> QED
      BY <2>1, <2>2
  <1>7. ASSUME NEW t \in Transports, ReceiveOpen(t)
        PROVE  AbandonedTransportsAreSilent' /\ TrefIsCurrent'
    BY <1>7 DEF ReceiveOpen
  <1>8. ASSUME NEW t \in Transports, ReceiveReopen(t) \/ ReceiveClose(t)
        PROVE  AbandonedTransportsAreSilent' /\ TrefIsCurrent'
    BY <1>2, <1>8 DEF ReceiveReopen, ReceiveClose
  <1>9. ASSUME NEW p \in posts, PostFails(p)
        PROVE  AbandonedTransportsAreSilent' /\ TrefIsCurrent'
    BY <1>1, <1>2, <1>9 DEF PostFails
  <1>10. CASE DispatchClose
    BY <1>10 DEF DispatchClose
  <1>11. ASSUME NEW t \in Transports, ReceiveMessage(t) \/ ReceiveEnd(t)
         PROVE  AbandonedTransportsAreSilent' /\ TrefIsCurrent'
    BY <1>1, <1>11 DEF ReceiveMessage, ReceiveEnd
  <1>12. CASE ServerStep
    BY <1>1, <1>12 DEF ServerStep, Accept, Push, EndResponse, SessionEnds, ServerRestarts
  <1>13. CASE InfoGarbled \/ Send \/ SendScheduled \/ \E p \in posts : PostSucceeds(p)
    BY <1>1, <1>13 DEF InfoGarbled, Send, SendScheduled, PostSucceeds
  <1>14. CASE UNCHANGED vars
    BY <1>1, <1>14 DEF vars
  <1> QED
    BY <1>3, <1>4, <1>5, <1>6, <1>7, <1>8, <1>9, <1>10, <1>11, <1>12, <1>13, <1>14
    DEF Next, ClientStep, Receive

\* Both hold in every state; no type is needed.
LEMMA CurrentInvariant ==
    Spec => [](AbandonedTransportsAreSilent /\ TrefIsCurrent)
  <1>1. Init => AbandonedTransportsAreSilent /\ TrefIsCurrent
    BY DEF Init, AbandonedTransportsAreSilent, TrefIsCurrent
  <1>2. (AbandonedTransportsAreSilent /\ TrefIsCurrent) /\ [Next]_vars
        => (AbandonedTransportsAreSilent /\ TrefIsCurrent)'
    BY CurrentStep
  <1> QED
    BY <1>1, <1>2, PTL DEF Spec

\* Late answers to a transport that was given up, or that come after the close,
\* do not reach the page.
THEOREM AbandonedTransportsStaySilent == Spec => []AbandonedTransportsAreSilent
  BY CurrentInvariant, PTL

\* The timeout of an earlier transport cannot cut a later one short.
THEOREM TimeoutsHitOnlyTheirOwn == Spec => []TimeoutsHitTheirOwn
  <1>1. TrefIsCurrent => TimeoutsHitTheirOwn
    BY DEF TrefIsCurrent, TimeoutsHitTheirOwn
  <1> QED
    BY <1>1, CurrentInvariant, PTL

-----------------------------------------------------------------------------
(* Every step is a step of the channel or none *)

\* _didClose either leaves the channel alone or closes it.
LEMMA DidCloseMaps ==
    ASSUME NEW ps, NEW final, NEW pending, DidClose(ps, final, pending),
           UNCHANGED events
    PROVE  [Channel!ChannelNext]_Channel!channelVars
  <1>1. CASE readyState = "CONNECTING" /\ ~final /\ ps # <<>>
    BY <1>1 DEF DidClose, TryNextProtocol, Channel!channelVars
  <1>2. CASE ~(readyState = "CONNECTING" /\ ~final /\ ps # <<>>)
    BY <1>2 DEF DidClose, CloseForGood, Channel!ChannelNext, Channel!ChannelCloses
  <1> QED
    BY <1>1, <1>2

\* Every step of the object is a step of the channel or leaves it alone.
LEMMA ChannelStep ==
    ASSUME [Next]_vars
    PROVE  [Channel!ChannelNext]_Channel!channelVars
  <1>1. CASE UNCHANGED <<socketVars, events>>
    BY <1>1 DEF socketVars, Channel!channelVars
  <1>2. CASE /\ \E ps, final, pending : DidClose(ps, final, pending)
             /\ UNCHANGED events
    BY <1>2, DidCloseMaps
  <1>3. CASE InfoAnswers \/ InfoFails \/ Disconnect
    BY <1>2, <1>3 DEF InfoAnswers, InfoFails, Disconnect
  <1>4. ASSUME NEW t \in Transports, TransportTimesOut(t)
        PROVE  [Channel!ChannelNext]_Channel!channelVars
    <2>1. CASE readyState = "CONNECTING"
      BY <1>2, <1>4, <2>1 DEF TransportTimesOut
    <2>2. CASE readyState # "CONNECTING"
      BY <1>4, <2>2 DEF TransportTimesOut, Channel!channelVars
    <2> QED
      BY <2>1, <2>2
  <1>5. ASSUME NEW t \in Transports, ReceiveOpen(t)
        PROVE  [Channel!ChannelNext]_Channel!channelVars
    BY <1>5 DEF ReceiveOpen, Channel!ChannelNext, Channel!ChannelOpens
  <1>6. ASSUME NEW t \in Transports, ReceiveReopen(t) \/ ReceiveClose(t)
        PROVE  [Channel!ChannelNext]_Channel!channelVars
    BY <1>2, <1>6 DEF ReceiveReopen, ReceiveClose
  <1>7. ASSUME NEW t \in Transports, ReceiveMessage(t)
        PROVE  [Channel!ChannelNext]_Channel!channelVars
    BY <1>7 DEF ReceiveMessage, socketVars, Channel!ChannelNext, Channel!ChannelDelivers
  <1>8. ASSUME NEW t \in Transports, ReceiveEnd(t)
        PROVE  [Channel!ChannelNext]_Channel!channelVars
    BY <1>1, <1>8 DEF ReceiveEnd
  <1>9. ASSUME NEW p \in posts, PostFails(p)
        PROVE  [Channel!ChannelNext]_Channel!channelVars
    BY <1>1, <1>2, <1>9 DEF PostFails
  <1>10. CASE DispatchClose
    BY <1>10 DEF DispatchClose, Channel!ChannelNext, Channel!ChannelReportsClose
  <1>11. CASE ServerStep
    BY <1>1, <1>11 DEF ServerStep, Accept, Push, EndResponse, SessionEnds, ServerRestarts
  <1>12. CASE InfoGarbled \/ Send \/ SendScheduled \/ \E p \in posts : PostSucceeds(p)
    BY <1>1, <1>12 DEF InfoGarbled, Send, SendScheduled, PostSucceeds
  <1>13. CASE UNCHANGED vars
    BY <1>1, <1>13 DEF vars
  <1> QED
    BY <1>3, <1>4, <1>5, <1>6, <1>7, <1>8, <1>9, <1>10, <1>11, <1>12, <1>13
    DEF Next, ClientStep, Receive

\* With its transports, sessions, timeouts and buffers hidden, a SockJS object
\* is the channel that MonitorClient counts on.
THEOREM ChannelIsImplemented == Spec => ImplementsChannel
  <1>1. Init => Channel!ChannelInit
    BY DEF Init, Channel!ChannelInit
  <1>2. [Next]_vars => [Channel!ChannelNext]_Channel!channelVars
    BY ChannelStep
  <1> QED
    BY <1>1, <1>2, PTL DEF Spec, ImplementsChannel, Channel!ChannelSpec
-----------------------------------------------------------------------------
(* Sequences *)

\* The first element is in the range; what is left or added adds nothing else.
LEMMA RangeOfSequences ==
    ASSUME NEW S, NEW s \in Seq(S)
    PROVE  /\ s # <<>> => Head(s) \in Range(s) /\ Range(Tail(s)) \subseteq Range(s)
           /\ \A e : Range(Append(s, e)) \subseteq Range(s) \cup {e}
  <1>1. ASSUME s # <<>> PROVE Head(s) \in Range(s)
    <2>1. 1 \in DOMAIN s /\ Head(s) = s[1]
      BY <1>1
    <2> QED
      BY <2>1 DEF Range
  <1>2. ASSUME s # <<>>, NEW i \in DOMAIN Tail(s) PROVE Tail(s)[i] \in Range(s)
    <2>1. i + 1 \in DOMAIN s /\ Tail(s)[i] = s[i + 1]
      BY <1>2
    <2> QED
      BY <2>1 DEF Range
  <1>3. ASSUME NEW e, NEW i \in DOMAIN Append(s, e)
        PROVE  Append(s, e)[i] \in Range(s) \cup {e}
    <2>1. s \in Seq(S \cup {e}) /\ DOMAIN s = 1 .. Len(s)
      OBVIOUS
    <2>2. DOMAIN Append(s, e) = 1 .. Len(s) + 1
      BY <2>1
    <2>3. CASE i = Len(s) + 1
      BY <2>1, <2>3
    <2>4. CASE i \in DOMAIN s
      BY <2>1, <2>4 DEF Range
    <2> QED
      BY <2>1, <2>2, <2>3, <2>4
  <1> QED
    BY <1>1, <1>2, <1>3 DEF Range

\* The next number extends a run of numbers.
LEMMA ContinuesAppend ==
    ASSUME NEW S, NEW s \in Seq(S), NEW n \in Nat, Continues(s, n)
    PROVE  Continues(Append(s, n + Len(s) + 1), n)
  <1>1. SUFFICES ASSUME NEW t, t = Append(s, n + Len(s) + 1) PROVE Continues(t, n)
    OBVIOUS
  <1>2. /\ DOMAIN t = 1 .. Len(s) + 1 /\ t[Len(s) + 1] = n + Len(s) + 1
        /\ \A i \in 1 .. Len(s) : t[i] = s[i]
    BY <1>1
  <1> QED
    BY <1>2 DEF Continues

\* A run that begins where another one ends extends it.
LEMMA ContinuesConcat ==
    ASSUME NEW S, NEW s \in Seq(S), NEW r \in Seq(S), NEW n \in Nat,
           Continues(s, n), Continues(r, n + Len(s))
    PROVE  Continues(s \o r, n)
  BY DEF Continues

\* The empty run.
LEMMA ContinuesEmpty == \A n : Continues(<<>>, n)
  BY DEF Continues

-----------------------------------------------------------------------------
(* Type correctness *)

\* The empty sequence has every element type.
LEMMA EmptyIsSeq == \A S : <<>> \in Seq(S)
  OBVIOUS

\* _didClose keeps the types of what it changes.
LEMMA DidCloseTypes ==
    ASSUME TypeOK, NEW ps \in Seq(Transports), NEW final \in BOOLEAN,
           NEW pending \in SUBSET Transports, DidClose(ps, final, pending)
    PROVE  /\ readyState' \in {"CONNECTING", "OPEN", "CLOSED"}
           /\ protocols' \in Seq(Transports)
           /\ transport' \in Transports \cup {NoTransport}
           /\ attached' \subseteq Transports
           /\ timeouts' \subseteq Transports
           /\ tref' \in Transports \cup {NoTransport}
           /\ closing' \in BOOLEAN
           /\ session' \in [Transports -> {"none", "asked", "up", "lost"}]
  <1>1. CASE readyState = "CONNECTING" /\ ~final /\ ps # <<>>
    <2>1. Head(ps) \in Transports /\ Tail(ps) \in Seq(Transports)
      BY <1>1
    <2> QED
      BY <1>1, <2>1 DEF DidClose, TryNextProtocol, Cleaned, NewTransport, TypeOK
  <1>2. CASE ~(readyState = "CONNECTING" /\ ~final /\ ps # <<>>)
    BY <1>2 DEF DidClose, CloseForGood, Cleaned, TypeOK
  <1> QED
    BY <1>1, <1>2

\* The transports in the order in which they are tried.
LEMMA DetectedProtocols ==
    ASSUME NEW w \in BOOLEAN
    PROVE  /\ DetectProtocols(w) \in Seq(Transports)
           /\ DetectProtocols(w) # <<>>
           /\ Tail(DetectProtocols(w)) \in Seq(AjaxTransports)
  <1>1. CASE w
    <2>1. DetectProtocols(w) = <<"websocket", "xhr-streaming", "xhr-polling">>
      BY <1>1 DEF DetectProtocols
    <2> QED
      BY <2>1 DEF Transports, AjaxTransports
  <1>2. CASE ~w
    <2>1. DetectProtocols(w) = <<"xhr-streaming", "xhr-polling">>
      BY <1>2 DEF DetectProtocols
    <2> QED
      BY <2>1 DEF Transports, AjaxTransports
  <1> QED
    BY <1>1, <1>2

\* Every step keeps the types.
LEMMA TypeStep ==
    ASSUME TypeOK, [Next]_vars
    PROVE  TypeOK'
  <1> USE MaxMessagesAssumption, MaxSendsAssumption, SockJsFaultsAssumption
  <1>1. ASSUME Fault PROVE faults' \in 0 .. MaxFaults
    BY <1>1 DEF Fault, TypeOK
  <1>2. CASE InfoAnswers
    <2>1. \A w \in BOOLEAN : DetectProtocols(w) \in Seq(Transports)
      BY DetectedProtocols
    <2> QED
      BY <1>2, <2>1, DidCloseTypes DEF InfoAnswers, TypeOK, senderVars
  <1>3. CASE InfoFails
    BY <1>1, <1>3, DidCloseTypes DEF InfoFails, TypeOK, senderVars
  <1>4. CASE InfoGarbled
    BY <1>1, <1>4 DEF InfoGarbled, TypeOK, socketVars, serverVars, senderVars
  <1>5. CASE DispatchClose
    <2>1. events' \in Seq({"open", "message", "close"})
      BY <1>5 DEF DispatchClose, TypeOK
    <2> QED
      BY <1>5, <2>1 DEF DispatchClose, TypeOK, serverVars, senderVars
  <1>6. ASSUME Transmit
        PROVE  /\ sent' \in 0 .. MaxSends
               /\ buffer' \in Seq(Message)
               /\ posts' \subseteq Seq(Message)
               /\ waiting' \in BOOLEAN
               /\ arrived' \in Seq(Message)
    <2>1. sent + 1 \in Message /\ sent' = sent + 1 /\ sent' \in 0 .. MaxSends
      BY <1>6 DEF Transmit, TypeOK, Message
    <2>2. CASE WebSocketSend(sent + 1)
      BY <2>1, <2>2 DEF WebSocketSend, TypeOK
    <2>3. CASE BufferedSend(sent + 1)
      <3>1. Append(buffer, sent + 1) \in Seq(Message)
        BY <2>1 DEF TypeOK
      <3> QED
        BY <2>1, <2>3, <3>1, EmptyIsSeq DEF BufferedSend, TypeOK
    <2> QED
      BY <1>6, <2>1, <2>2, <2>3 DEF Transmit
  <1>7. CASE Send
    BY <1>6, <1>7 DEF Send, TypeOK, socketVars, serverVars
  <1>8. CASE Disconnect
    BY <1>6, <1>8, DidCloseTypes DEF Disconnect, TypeOK
  <1>9. CASE SendScheduled
    BY <1>9, EmptyIsSeq DEF SendScheduled, TypeOK, socketVars, serverVars
  <1>10. ASSUME NEW t \in Transports, TransportTimesOut(t) PROVE TypeOK'
    <2>1. CASE readyState = "CONNECTING"
      BY <1>10, <2>1, DidCloseTypes DEF TransportTimesOut, TypeOK, senderVars
    <2>2. CASE readyState # "CONNECTING"
      BY <1>10, <2>2 DEF TransportTimesOut, TypeOK, senderVars
    <2> QED
      BY <2>1, <2>2
  <1>11. ASSUME NEW t \in Transports, NEW item, NextItem(t, item)
         PROVE  wire' \in [Transports -> Seq(Item)]
    BY <1>11 DEF NextItem, TypeOK
  <1>12. ASSUME NEW t \in Transports, Receive(t) PROVE TypeOK'
    <2>1. CASE ReceiveOpen(t)
      BY <1>11, <2>1 DEF ReceiveOpen, TypeOK, senderVars
    <2>2. CASE ReceiveReopen(t)
      BY <1>11, <2>2, DidCloseTypes DEF ReceiveReopen, TypeOK, senderVars
    <2>3. CASE ReceiveMessage(t)
      BY <1>11, <2>3 DEF ReceiveMessage, TypeOK, senderVars, socketVars
    <2>4. CASE ReceiveClose(t)
      BY <1>11, <2>4, DidCloseTypes DEF ReceiveClose, TypeOK, senderVars
    <2>5. CASE ReceiveEnd(t)
      BY <1>11, <2>5 DEF ReceiveEnd, TypeOK, senderVars, socketVars
    <2> QED
      BY <1>12, <2>1, <2>2, <2>3, <2>4, <2>5 DEF Receive
  <1>13. ASSUME NEW p \in posts, PostSucceeds(p) PROVE TypeOK'
    BY <1>13 DEF PostSucceeds, TypeOK, socketVars, serverVars
  <1>14. ASSUME NEW p \in posts, PostFails(p) PROVE TypeOK'
    <2>1. arrived \o p \in Seq(Message)
      BY DEF TypeOK
    <2>2. arrived' \in Seq(Message) /\ faults' \in 0 .. MaxFaults /\ posts' \subseteq Seq(Message)
      BY <1>1, <1>14, <2>1 DEF PostFails, TypeOK
    <2>3. CASE readyState = "OPEN"
      BY <1>14, <2>2, <2>3, DidCloseTypes DEF PostFails, TypeOK
    <2>4. CASE readyState # "OPEN"
      BY <1>14, <2>2, <2>4 DEF PostFails, TypeOK, socketVars
    <2> QED
      BY <2>3, <2>4
  <1>15. ASSUME NEW t \in Transports, NEW item \in Item, Deliver(t, item)
         PROVE  wire' \in [Transports -> Seq(Item)]
    BY <1>15 DEF Deliver, TypeOK
  <1>16. ASSUME NEW t \in Transports,
                \/ Accept(t) \/ Push(t) \/ EndResponse(t)
                \/ SessionEnds(t) \/ ServerRestarts(t)
         PROVE  TypeOK'
    <2>1. {"o", "a", "c", "end", "fail"} = Item
      BY DEF Item
    <2>2. CASE Accept(t)
      BY <1>15, <2>1, <2>2 DEF Accept, TypeOK, socketVars, senderVars
    <2>3. CASE Push(t)
      BY <1>15, <2>1, <2>3 DEF Push, TypeOK, socketVars, senderVars
    <2>4. CASE EndResponse(t)
      BY <1>15, <2>1, <2>4 DEF EndResponse, TypeOK, socketVars, senderVars
    <2>5. CASE SessionEnds(t)
      BY <1>1, <1>15, <2>1, <2>5 DEF SessionEnds, TypeOK, socketVars, senderVars
    <2>6. CASE ServerRestarts(t)
      BY <1>1, <2>6 DEF ServerRestarts, TypeOK, socketVars, senderVars
    <2> QED
      BY <1>16, <2>2, <2>3, <2>4, <2>5, <2>6
  <1>17. CASE UNCHANGED vars
    BY <1>17 DEF vars, TypeOK, socketVars, serverVars, senderVars
  <1> QED
    BY <1>2, <1>3, <1>4, <1>5, <1>7, <1>8, <1>9, <1>10, <1>12, <1>13, <1>14, <1>16, <1>17
    DEF Next, ClientStep, ServerStep

\* A new SockJS object is well typed.
LEMMA InitTypes == Init => TypeOK
  <1>1. <<>> \in Seq(Transports) /\ <<>> \in Seq(Item) /\ <<>> \in Seq(Message)
        /\ <<>> \in Seq({"open", "message", "close"})
    BY EmptyIsSeq
  <1>2. 0 \in 0 .. MaxSends /\ 0 \in 0 .. MaxMessages /\ 0 \in 0 .. MaxFaults
    BY MaxMessagesAssumption, MaxSendsAssumption, SockJsFaultsAssumption
  <1>3. Init => wire \in [Transports -> Seq(Item)]
    BY <1>1 DEF Init
  <1> QED
    BY <1>1, <1>2, <1>3 DEF Init, TypeOK

\* Protocols, transports, frames and payloads have their types in every state.
THEOREM TypeCorrect == Spec => []TypeOK
  <1>1. TypeOK /\ [Next]_vars => TypeOK'
    BY TypeStep
  <1> QED
    BY InitTypes, <1>1, PTL DEF Spec

-----------------------------------------------------------------------------
(* Messages reach the server in order: IInv is inductive *)

\* What _didClose does to transport, session and readyState.
LEMMA DidCloseEffect ==
    ASSUME NEW ps, NEW final, NEW pending, DidClose(ps, final, pending)
    PROVE  \/ /\ readyState = "CONNECTING" /\ readyState' = "CONNECTING"
              /\ ps # <<>> /\ protocols' = Tail(ps) /\ transport' = Head(ps)
              /\ session' = [session EXCEPT ![Head(ps)] = "asked"]
           \/ /\ readyState' = "CLOSED"
              /\ protocols' = ps
              /\ UNCHANGED <<transport, session>>
  BY DEF DidClose, TryNextProtocol, CloseForGood, Cleaned, NewTransport

\* While the info request is under way no transport can do anything.
LEMMA AskingIsQuiet ==
    ASSUME TypeOK, AbandonedTransportsAreSilent, TrefIsCurrent,
           WebSocketSessionIsOne, SenderStartsEmpty, info = "asking"
    PROVE  readyState = "CONNECTING" /\ attached = {} /\ timeouts = {} /\ posts = {}
  <1>1. NoTransport \notin Transports
    BY DEF NoTransport, Transports, AjaxTransports
  <1>2. readyState = "CONNECTING" /\ transport = NoTransport
    BY DEF WebSocketSessionIsOne
  <1> QED
    BY <1>1, <1>2
    DEF TypeOK, AbandonedTransportsAreSilent, TrefIsCurrent, SenderStartsEmpty,
        NothingBuffered

\* _didClose after the info request begins no WebSocket: a close by a timeout,
\* a frame, a failed request or the page.
LEMMA DidCloseKeepsWebSocket ==
    ASSUME TypeOK, WebSocketSessionIsOne, info # "asking", UNCHANGED <<info, wire>>,
           NEW final, NEW pending, DidClose(protocols, final, pending)
    PROVE  WebSocketSessionIsOne'
  <1>1. CASE /\ readyState' = "CONNECTING" /\ protocols # <<>>
             /\ protocols' = Tail(protocols)
             /\ session' = [session EXCEPT ![Head(protocols)] = "asked"]
    <2>1. Head(protocols) \in AjaxTransports /\ Tail(protocols) \in Seq(AjaxTransports)
      BY <1>1 DEF WebSocketSessionIsOne
    <2>2. "websocket" \notin AjaxTransports
      BY DEF AjaxTransports
    <2>3. session'["websocket"] = session["websocket"]
      BY <1>1, <2>1, <2>2 DEF TypeOK, Transports
    <2> QED
      BY <1>1, <2>1, <2>3 DEF WebSocketSessionIsOne
  <1>2. CASE readyState' = "CLOSED" /\ protocols' = protocols /\ session' = session
    BY <1>2 DEF WebSocketSessionIsOne
  <1> QED
    BY <1>1, <1>2, DidCloseEffect

\* Every step keeps the WebSocket's session in its place.
LEMMA WebSocketStep ==
    ASSUME IInv, [Next]_vars
    PROVE  WebSocketSessionIsOne'
  <1> USE DEF IInv
  <1>1. "websocket" \in Transports /\ "websocket" \notin AjaxTransports
    BY DEF Transports, AjaxTransports
  <1>2. CASE InfoAnswers
    <2>1. PICK w \in BOOLEAN : DidClose(DetectProtocols(w), FALSE, timeouts)
      BY <1>2 DEF InfoAnswers
    <2>2. readyState = "CONNECTING" /\ session["websocket"] = "none"
      BY <1>2 DEF InfoAnswers, WebSocketSessionIsOne
    <2>3. /\ readyState' = "CONNECTING"
          /\ protocols' = Tail(DetectProtocols(w))
      BY <2>1, <2>2, DetectedProtocols DEF DidClose, TryNextProtocol, NewTransport
    <2>4. wire' = wire /\ wire["websocket"] = <<>> /\ info' = "done"
      BY <1>2, <2>2 DEF InfoAnswers, WebSocketSessionIsOne
    <2> QED
      BY <2>3, <2>4, DetectedProtocols DEF WebSocketSessionIsOne
  <1>3. CASE InfoFails
    <2>1. /\ info' = "done" /\ UNCHANGED wire
          /\ readyState' = "CLOSED" /\ UNCHANGED <<session, protocols>>
      BY <1>3, DidCloseEffect DEF InfoFails, DidClose, CloseForGood, WebSocketSessionIsOne
    <2> QED
      BY <2>1 DEF WebSocketSessionIsOne
  <1>4. CASE InfoGarbled
    BY <1>4 DEF InfoGarbled, WebSocketSessionIsOne, socketVars, serverVars
  <1>5. CASE DispatchClose \/ Send \/ SendScheduled
    BY <1>5 DEF DispatchClose, Send, SendScheduled, WebSocketSessionIsOne, socketVars,
        serverVars
  <1>6. CASE Disconnect
    <2>1. info # "asking"
      BY <1>6 DEF Disconnect, Transmit, WebSocketSessionIsOne
    <2> QED
      BY <1>6, <2>1, DidCloseKeepsWebSocket DEF Disconnect
  <1>7. ASSUME NEW t \in Transports, TransportTimesOut(t)
        PROVE  WebSocketSessionIsOne'
    <2>1. info # "asking"
      BY <1>7, AskingIsQuiet DEF TransportTimesOut
    <2>2. CASE readyState = "CONNECTING"
      BY <1>7, <2>1, <2>2, DidCloseKeepsWebSocket DEF TransportTimesOut
    <2>3. CASE readyState # "CONNECTING"
      BY <1>7, <2>3 DEF TransportTimesOut, WebSocketSessionIsOne
    <2> QED
      BY <2>2, <2>3
  \* What taking an item off the wire does to that of the WebSocket.
  <1>8. ASSUME NEW t \in Transports, NEW item, NextItem(t, item)
        PROVE  /\ info # "asking" /\ t = transport
               /\ "end" \notin Range(wire'["websocket"])
               /\ t = "websocket" => session["websocket"] \in {"up", "lost"} /\ item # "end"
               /\ session["websocket"] \in {"none", "asked"} => wire'["websocket"] = <<>>
    <2>1. info # "asking" /\ t = transport
      BY <1>8, AskingIsQuiet DEF NextItem, AbandonedTransportsAreSilent
    <2>2. CASE t = "websocket"
      <3>1. wire[t] \in Seq(Item) /\ wire[t] # <<>> /\ item = Head(wire[t])
            /\ wire'[t] = Tail(wire[t])
        BY <1>8 DEF NextItem, TypeOK
      <3>2. Head(wire[t]) \in Range(wire[t]) /\ Range(Tail(wire[t])) \subseteq Range(wire[t])
        BY <3>1, RangeOfSequences
      <3>3. session["websocket"] \in {"up", "lost"}
        BY <1>1, <2>2, <3>1 DEF WebSocketSessionIsOne, TypeOK
      <3> QED
        BY <2>1, <2>2, <3>1, <3>2, <3>3 DEF WebSocketSessionIsOne
    <2>3. CASE t # "websocket"
      <3>1. wire'["websocket"] = wire["websocket"]
        BY <1>1, <1>8, <2>3 DEF NextItem, TypeOK
      <3> QED
        BY <2>1, <2>3, <3>1 DEF WebSocketSessionIsOne
    <2> QED
      BY <2>2, <2>3
  <1>9. ASSUME NEW t \in Transports, Receive(t) PROVE WebSocketSessionIsOne'
    <2>1. CASE ReceiveOpen(t)
      <3>1. NextItem(t, "o") /\ UNCHANGED <<info, protocols, transport, session>>
        BY <2>1 DEF ReceiveOpen
      <3> QED
        BY <1>8, <3>1 DEF WebSocketSessionIsOne
    <2>2. ASSUME NEW item, NEW final, NextItem(t, item), UNCHANGED info,
                 DidClose(protocols, final, timeouts)
          PROVE  WebSocketSessionIsOne'
      <3>1. info # "asking"
        BY <1>8, <2>2
      <3>2. CASE /\ readyState' = "CONNECTING" /\ protocols # <<>>
                 /\ protocols' = Tail(protocols)
                 /\ session' = [session EXCEPT ![Head(protocols)] = "asked"]
        <4>1. Head(protocols) \in AjaxTransports /\ Tail(protocols) \in Seq(AjaxTransports)
          BY <3>2 DEF WebSocketSessionIsOne
        <4>2. session'["websocket"] = session["websocket"]
          BY <1>1, <3>2, <4>1 DEF TypeOK
        <4> QED
          BY <1>8, <2>2, <3>1, <3>2, <4>1, <4>2 DEF WebSocketSessionIsOne
      <3>3. CASE readyState' = "CLOSED" /\ protocols' = protocols /\ session' = session
        BY <1>8, <2>2, <3>1, <3>3 DEF WebSocketSessionIsOne
      <3> QED
        BY <2>2, <3>2, <3>3, DidCloseEffect
    <2>3. CASE ReceiveReopen(t)
      BY <2>2, <2>3 DEF ReceiveReopen
    <2>4. CASE ReceiveClose(t)
      BY <2>2, <2>4 DEF ReceiveClose
    <2>5. CASE ReceiveMessage(t)
      <3>1. /\ NextItem(t, "a")
            /\ UNCHANGED <<info, readyState, protocols, transport, session>>
        BY <2>5 DEF ReceiveMessage, socketVars
      <3> QED
        BY <1>8, <3>1 DEF WebSocketSessionIsOne
    <2>6. CASE ReceiveEnd(t)
      <3>1. /\ NextItem(t, "end")
            /\ UNCHANGED <<info, readyState, protocols, transport>>
        BY <2>6 DEF ReceiveEnd, socketVars
      <3>2. t # "websocket" /\ session'["websocket"] = session["websocket"]
        BY <1>1, <1>8, <2>6, <3>1 DEF ReceiveEnd, TypeOK
      <3> QED
        BY <1>8, <3>1, <3>2 DEF WebSocketSessionIsOne
    <2> QED
      BY <1>9, <2>1, <2>3, <2>4, <2>5, <2>6 DEF Receive
  <1>10. ASSUME NEW p \in posts, PostSucceeds(p) PROVE WebSocketSessionIsOne'
    BY <1>10 DEF PostSucceeds, WebSocketSessionIsOne, socketVars, serverVars
  <1>11. ASSUME NEW p \in posts, PostFails(p) PROVE WebSocketSessionIsOne'
    <2>1. info # "asking"
      BY AskingIsQuiet
    <2>2. CASE DidClose(protocols, FALSE, timeouts)
      BY <1>11, <2>1, <2>2, DidCloseKeepsWebSocket DEF PostFails
    <2>3. CASE UNCHANGED <<socketVars, session>>
      BY <1>11, <2>3 DEF PostFails, WebSocketSessionIsOne, socketVars
    <2> QED
      BY <1>11, <2>2, <2>3 DEF PostFails
  <1>12. ASSUME NEW t \in Transports, NEW item \in Item, Deliver(t, item),
                item # "end" \/ t # "websocket"
         PROVE  /\ "end" \notin Range(wire'["websocket"])
                /\ t # "websocket" => wire'["websocket"] = wire["websocket"]
    <2>1. CASE t = "websocket"
      <3>1. wire'[t] = Append(wire[t], item) /\ wire[t] \in Seq(Item)
        BY <1>12 DEF Deliver, TypeOK
      <3>2. Range(Append(wire[t], item)) \subseteq Range(wire[t]) \cup {item}
        BY <3>1, RangeOfSequences
      <3> QED
        BY <1>12, <2>1, <3>1, <3>2 DEF WebSocketSessionIsOne
    <2>2. CASE t # "websocket"
      BY <1>1, <1>12, <2>2 DEF Deliver, TypeOK, WebSocketSessionIsOne
    <2> QED
      BY <2>1, <2>2
  <1>13. ASSUME NEW t \in Transports,
                \/ Accept(t) \/ Push(t) \/ EndResponse(t)
                \/ SessionEnds(t) \/ ServerRestarts(t)
         PROVE  WebSocketSessionIsOne'
    <2>1. UNCHANGED <<info, readyState, protocols, transport>>
      BY <1>13 DEF Accept, Push, EndResponse, SessionEnds, ServerRestarts, socketVars
    <2>2. "o" \in Item /\ "a" \in Item /\ "c" \in Item /\ "end" \in Item /\ "fail" \in Item
      BY DEF Item
    <2>3. \/ \E item \in {"o", "a", "c", "fail"} : Deliver(t, item)
          \/ t # "websocket" /\ Deliver(t, "end")
          \/ UNCHANGED wire
      BY <1>1, <1>13 DEF Accept, Push, EndResponse, SessionEnds, ServerRestarts
    <2>4. /\ "end" \notin Range(wire'["websocket"])
          /\ t # "websocket" => wire'["websocket"] = wire["websocket"]
      BY <1>12, <2>2, <2>3 DEF WebSocketSessionIsOne
    <2>5. CASE t = "websocket"
      <3>1. /\ session["websocket"] # "none"
            /\ session'["websocket"] \in {"up", "lost"}
        BY <1>13, <2>5
        DEF Accept, Push, EndResponse, SessionEnds, ServerRestarts, TypeOK
      <3> QED
        BY <2>1, <2>4, <3>1 DEF WebSocketSessionIsOne
    <2>6. CASE t # "websocket"
      <3>1. session'["websocket"] = session["websocket"]
        BY <1>1, <1>13, <2>6
        DEF Accept, Push, EndResponse, SessionEnds, ServerRestarts, TypeOK
      <3> QED
        BY <2>1, <2>4, <2>6, <3>1 DEF WebSocketSessionIsOne
    <2> QED
      BY <2>5, <2>6
  <1>14. CASE UNCHANGED vars
    BY <1>14 DEF vars, WebSocketSessionIsOne, socketVars, serverVars
  <1> QED
    BY <1>2, <1>3, <1>4, <1>5, <1>6, <1>7, <1>9, <1>10, <1>11, <1>13, <1>14
    DEF Next, ClientStep, ServerStep

\* The socket opens and closes without the sender, the transport changes only
\* while connecting, and the session of an open WebSocket does not come back.
LEMMA SocketMoves ==
    ASSUME IInv, [Next]_vars
    PROVE  /\ readyState' = "CONNECTING" => readyState = "CONNECTING"
           /\ readyState' = "OPEN" => readyState \in {"CONNECTING", "OPEN"}
           /\ readyState # "CONNECTING" => UNCHANGED transport
           /\ readyState = "OPEN" /\ session'["websocket"] = "up" /\ transport = "websocket"
                => session["websocket"] = "up"
  <1> DEFINE Goal ==
        /\ readyState' = "CONNECTING" => readyState = "CONNECTING"
        /\ readyState' = "OPEN" => readyState \in {"CONNECTING", "OPEN"}
        /\ readyState # "CONNECTING" => UNCHANGED transport
        /\ readyState = "OPEN" /\ session'["websocket"] = "up" /\ transport = "websocket"
             => session["websocket"] = "up"
  <1>1. readyState \in {"CONNECTING", "OPEN", "CLOSED"}
    BY DEF IInv, TypeOK
  <1>2. CASE UNCHANGED <<socketVars, session>>
    BY <1>1, <1>2 DEF socketVars
  <1>3. CASE \E ps, final, pending : DidClose(ps, final, pending)
    <2>1. PICK ps, final, pending : DidClose(ps, final, pending)
      BY <1>3
    <2> QED
      BY <1>1, <2>1, DidCloseEffect
  <1>4. CASE InfoAnswers \/ InfoFails \/ Disconnect
    BY <1>3, <1>4 DEF InfoAnswers, InfoFails, Disconnect
  <1>5. ASSUME NEW t \in Transports, TransportTimesOut(t) PROVE Goal
    <2>1. CASE readyState = "CONNECTING"
      BY <1>3, <1>5, <2>1 DEF TransportTimesOut
    <2>2. CASE readyState # "CONNECTING"
      BY <1>1, <1>5, <2>2 DEF TransportTimesOut
    <2> QED
      BY <2>1, <2>2
  <1>6. ASSUME NEW t \in Transports, Receive(t) PROVE Goal
    <2>1. CASE ReceiveOpen(t)
      BY <1>1, <2>1 DEF ReceiveOpen
    <2>2. CASE ReceiveReopen(t) \/ ReceiveClose(t)
      BY <1>3, <2>2 DEF ReceiveReopen, ReceiveClose
    <2>3. CASE ReceiveMessage(t)
      BY <1>2, <2>3 DEF ReceiveMessage
    <2>4. CASE ReceiveEnd(t)
      BY <1>1, <2>4 DEF ReceiveEnd, socketVars, IInv, TypeOK
    <2> QED
      BY <1>6, <2>1, <2>2, <2>3, <2>4 DEF Receive
  <1>7. ASSUME NEW p \in posts, PostFails(p) PROVE Goal
    BY <1>2, <1>3, <1>7 DEF PostFails
  <1>8. ASSUME NEW p \in posts, PostSucceeds(p) PROVE Goal
    BY <1>2, <1>8 DEF PostSucceeds, serverVars
  <1>9. CASE DispatchClose
    BY <1>1, <1>9 DEF DispatchClose, serverVars
  <1>10. CASE InfoGarbled \/ Send \/ SendScheduled
    BY <1>2, <1>10 DEF InfoGarbled, Send, SendScheduled, serverVars
  <1>11. CASE ServerStep
    <2>1. PICK t \in Transports :
              Accept(t) \/ Push(t) \/ EndResponse(t) \/ SessionEnds(t) \/ ServerRestarts(t)
      BY <1>11 DEF ServerStep
    <2>2. UNCHANGED socketVars
      BY <2>1 DEF Accept, Push, EndResponse, SessionEnds, ServerRestarts
    <2>3. ASSUME readyState = "OPEN", transport = "websocket",
                 session["websocket"] # "up"
          PROVE  session'["websocket"] # "up"
      <3>1. session["websocket"] = "lost" /\ "websocket" \in Transports
        BY <2>3 DEF IInv, WebSocketSessionIsOne
      <3> QED
        BY <2>1, <3>1
        DEF Accept, Push, EndResponse, SessionEnds, ServerRestarts, IInv, TypeOK
    <2> QED
      BY <1>1, <2>2, <2>3 DEF socketVars
  <1>12. CASE UNCHANGED vars
    BY <1>2, <1>12 DEF vars, serverVars
  <1> QED
    BY <1>4, <1>5, <1>6, <1>7, <1>8, <1>9, <1>10, <1>11, <1>12 DEF Next, ClientStep

\* A step that leaves the sender alone keeps what is known of it.
LEMMA SenderUntouched ==
    ASSUME IInv, [Next]_vars, UNCHANGED senderVars
    PROVE  SenderStartsEmpty' /\ MessagesFollow'
  <1>1. SenderStartsEmpty'
    BY SocketMoves DEF IInv, SenderStartsEmpty, NothingBuffered, senderVars
  <1>2. CASE readyState = "CONNECTING"
    <2>1. posts = {} /\ ~waiting /\ buffer = <<>> /\ sent = 0 /\ arrived = <<>>
      BY <1>2 DEF IInv, SenderStartsEmpty, NothingBuffered
    <2> QED
      BY <1>1, <2>1, ContinuesEmpty DEF MessagesFollow, senderVars
  <1>3. CASE readyState # "CONNECTING"
    <2>1. /\ readyState' = "OPEN" => readyState = "OPEN" /\ transport \in Transports
          /\ UNCHANGED transport
      BY <1>3, SocketMoves DEF IInv, WebSocketSessionIsOne
    <2>2. readyState' = "OPEN" /\ session'[transport] = "up" =>
              transport \in AjaxTransports \/ session[transport] = "up"
      BY <2>1, SocketMoves DEF Transports
    <2> QED
      BY <1>1, <2>1, <2>2 DEF IInv, MessagesFollow, senderVars, Continues
  <1> QED
    BY <1>2, <1>3

\* Sending extends what has arrived, the first payload or the buffer.
LEMMA TransmitFollows ==
    ASSUME IInv, Transmit, UNCHANGED transport,
           readyState' = "OPEN" => UNCHANGED session,
           readyState' # "CONNECTING"
    PROVE  SenderStartsEmpty' /\ MessagesFollow'
  <1>1. /\ readyState = "OPEN" /\ sent' = sent + 1 /\ sent \in Nat
        /\ arrived \in Seq(Message) /\ buffer \in Seq(Message)
        /\ posts \subseteq Seq(Message)
    BY MaxSendsAssumption DEF Transmit, IInv, TypeOK
  <1>2. MessagesFollow
    BY DEF IInv
  <1>3. CASE WebSocketSend(sent + 1)
    <2>1. transport = "websocket" /\ NothingBuffered /\ UNCHANGED <<buffer, posts, waiting>>
      BY <1>3 DEF WebSocketSend, IInv, SenderStartsEmpty
    <2>2. transport \notin AjaxTransports
      BY <2>1 DEF AjaxTransports
    <2>3. CASE session[transport] = "up"
      <3>1. sent = Len(arrived) /\ Continues(arrived, 0)
        BY <1>1, <1>2, <2>1, <2>3 DEF MessagesFollow, NothingBuffered
      <3>2. arrived' = Append(arrived, 0 + Len(arrived) + 1)
        BY <1>1, <1>3, <2>3, <3>1 DEF WebSocketSend
      <3>3. Continues(arrived', 0) /\ Len(arrived') = sent'
        BY <1>1, <3>1, <3>2, ContinuesAppend
      <3> QED
        BY <1>1, <2>1, <3>3 DEF MessagesFollow, SenderStartsEmpty, NothingBuffered
    <2>4. CASE session[transport] # "up"
      <3>1. arrived' = arrived
        BY <1>3, <2>4 DEF WebSocketSend
      <3> QED
        BY <1>1, <1>2, <2>1, <2>2, <2>4, <3>1
        DEF MessagesFollow, SenderStartsEmpty, NothingBuffered
    <2> QED
      BY <2>3, <2>4
  <1>4. CASE BufferedSend(sent + 1)
    <2>1. /\ transport \in AjaxTransports /\ transport # "websocket"
          /\ UNCHANGED <<waiting, arrived>> /\ Continues(arrived, 0)
      BY <1>2, <1>4 DEF BufferedSend, AjaxTransports, MessagesFollow
    <2>2. SenderStartsEmpty'
      BY <2>1 DEF SenderStartsEmpty
    <2>3. CASE posts = {} /\ ~waiting
      <3>1. buffer = <<>> /\ sent = Len(arrived)
        BY <1>1, <1>2, <2>1, <2>3 DEF MessagesFollow
      <3>2. posts' = {<<sent + 1>>} /\ buffer' = <<>>
        BY <1>4, <2>3, <3>1 DEF BufferedSend
      <3>3. Continues(<<sent + 1>>, Len(arrived)) /\ Len(<<sent + 1>>) = 1
        BY <1>1, <3>1 DEF Continues
      <3> QED
        BY <1>1, <2>1, <2>2, <2>3, <3>1, <3>2, <3>3, ContinuesEmpty DEF MessagesFollow
    <2>4. CASE waiting
      <3>1. posts = {} /\ Continues(buffer, Len(arrived)) /\ sent = Len(arrived) + Len(buffer)
        BY <1>1, <1>2, <2>4 DEF MessagesFollow
      <3>2. posts' = {} /\ buffer' = Append(buffer, Len(arrived) + Len(buffer) + 1)
        BY <1>4, <2>4, <3>1 DEF BufferedSend
      <3>3. Continues(buffer', Len(arrived)) /\ Len(buffer') = Len(buffer) + 1
        BY <1>1, <3>1, <3>2, ContinuesAppend
      <3> QED
        BY <1>1, <2>1, <2>2, <2>4, <3>1, <3>2, <3>3 DEF MessagesFollow
    <2>5. CASE posts # {} /\ ~waiting
      <3>1. PICK p \in posts :
                /\ posts = {p}
                /\ Continues(p, Len(arrived))
                /\ Continues(buffer, Len(arrived) + Len(p))
                /\ sent = Len(arrived) + Len(p) + Len(buffer)
        BY <1>1, <1>2, <2>5 DEF MessagesFollow
      <3>2. /\ posts' = {p}
            /\ buffer' = Append(buffer, (Len(arrived) + Len(p)) + Len(buffer) + 1)
        BY <1>4, <2>5, <3>1 DEF BufferedSend
      <3>3. Len(arrived) + Len(p) \in Nat
        BY <1>1
      <3>4. Continues(buffer', Len(arrived) + Len(p)) /\ Len(buffer') = Len(buffer) + 1
        BY <1>1, <3>1, <3>2, <3>3, ContinuesAppend
      <3>5. sent' = Len(arrived) + Len(p) + Len(buffer')
        BY <1>1, <3>1, <3>4
      <3> QED
        BY <1>1, <2>1, <2>2, <2>5, <3>1, <3>2, <3>4, <3>5 DEF MessagesFollow
    <2> QED
      BY <2>2, <2>3, <2>4, <2>5
  <1> QED
    BY <1>3, <1>4 DEF Transmit

\* Every step keeps the run of messages together.
LEMMA SenderStep ==
    ASSUME IInv, [Next]_vars
    PROVE  SenderStartsEmpty' /\ MessagesFollow'
  <1>1. /\ arrived \in Seq(Message) /\ buffer \in Seq(Message)
        /\ posts \subseteq Seq(Message) /\ MessagesFollow /\ Continues(arrived, 0)
    BY DEF IInv, TypeOK, MessagesFollow
  <1>2. CASE Send
    BY <1>2, TransmitFollows DEF Send, Transmit, socketVars, serverVars
  <1>3. CASE Disconnect
    <2>1. readyState' = "CLOSED" /\ UNCHANGED transport
      BY <1>3, DidCloseEffect DEF Disconnect, Transmit
    <2> QED
      BY <1>3, <2>1, TransmitFollows DEF Disconnect
  <1>4. CASE SendScheduled
    <2>1. /\ waiting /\ ~waiting' /\ posts = {} /\ Continues(buffer, Len(arrived))
          /\ readyState = "OPEN" => sent = Len(arrived) + Len(buffer)
          /\ UNCHANGED <<readyState, transport, session, sent, arrived>>
          /\ transport # "websocket"
      BY <1>1, <1>4
      DEF SendScheduled, MessagesFollow, socketVars, serverVars, IInv, SenderStartsEmpty,
          NothingBuffered
    <2>2. SenderStartsEmpty'
      BY <2>1 DEF IInv, SenderStartsEmpty, NothingBuffered
    <2>3. CASE buffer = <<>>
      <3>1. posts' = {} /\ buffer' = <<>>
        BY <1>4, <2>1, <2>3 DEF SendScheduled
      <3>2. readyState = "OPEN" => sent = Len(arrived)
        BY <1>1, <2>1, <2>3
      <3> QED
        BY <1>1, <2>1, <2>2, <3>1, <3>2 DEF MessagesFollow
    <2>4. CASE buffer # <<>>
      <3>1. posts' = {buffer} /\ buffer' = <<>>
        BY <1>4, <2>1, <2>4 DEF SendScheduled
      <3>2. readyState = "OPEN" => sent = Len(arrived) + Len(buffer) + Len(<<>>)
        BY <1>1, <2>1
      <3> QED
        BY <1>1, <2>1, <2>2, <3>1, <3>2, ContinuesEmpty DEF MessagesFollow
    <2> QED
      BY <2>3, <2>4
  <1>5. ASSUME NEW p \in posts
        PROVE  /\ posts = {p} /\ ~waiting
               /\ Continues(buffer, Len(arrived) + Len(p))
               /\ readyState = "OPEN" => sent = Len(arrived) + Len(p) + Len(buffer)
               /\ Continues(arrived \o p, 0)
               /\ Len(arrived \o p) = Len(arrived) + Len(p)
               /\ readyState # "CONNECTING" /\ transport # "websocket"
    <2>1. /\ posts = {p} /\ ~waiting /\ p \in Seq(Message)
          /\ Continues(p, 0 + Len(arrived))
          /\ Continues(buffer, Len(arrived) + Len(p))
          /\ readyState = "OPEN" => sent = Len(arrived) + Len(p) + Len(buffer)
      BY <1>1 DEF MessagesFollow
    <2>2. readyState # "CONNECTING" /\ transport # "websocket"
      BY DEF IInv, SenderStartsEmpty, NothingBuffered
    <2> QED
      BY <1>1, <2>1, <2>2, ContinuesConcat
  <1>6. ASSUME NEW p \in posts, PostSucceeds(p)
        PROVE  SenderStartsEmpty' /\ MessagesFollow'
    <2>1. /\ posts' = {} /\ waiting' /\ arrived' = arrived \o p
          /\ UNCHANGED <<readyState, transport, session, sent, buffer>>
      BY <1>5, <1>6 DEF PostSucceeds, socketVars, serverVars
    <2>2. SenderStartsEmpty'
      BY <1>5, <2>1 DEF SenderStartsEmpty
    <2> QED
      BY <1>5, <2>1, <2>2 DEF MessagesFollow
  <1>7. ASSUME NEW p \in posts, PostFails(p)
        PROVE  SenderStartsEmpty' /\ MessagesFollow'
    <2>1. readyState' = "CLOSED" /\ UNCHANGED transport
      BY <1>7, DidCloseEffect DEF PostFails, socketVars
    <2>2. posts' = {} /\ ~waiting' /\ arrived' \in {arrived, arrived \o p}
      BY <1>5, <1>7 DEF PostFails
    <2>3. Continues(arrived', 0)
      BY <1>1, <1>5, <2>2
    <2>4. SenderStartsEmpty'
      BY <1>5, <2>1 DEF SenderStartsEmpty
    <2> QED
      BY <2>1, <2>2, <2>3, <2>4 DEF MessagesFollow
  <1>8. CASE UNCHANGED senderVars
    BY <1>8, SenderUntouched
  <1>9. CASE InfoAnswers \/ InfoFails \/ InfoGarbled \/ DispatchClose
    BY <1>8, <1>9 DEF InfoAnswers, InfoFails, InfoGarbled, DispatchClose
  <1>10. CASE \E t \in Transports : TransportTimesOut(t) \/ Receive(t)
    BY <1>8, <1>10
    DEF TransportTimesOut, Receive, ReceiveOpen, ReceiveReopen, ReceiveMessage,
        ReceiveClose, ReceiveEnd
  <1>11. CASE ServerStep
    BY <1>8, <1>11 DEF ServerStep, Accept, Push, EndResponse, SessionEnds, ServerRestarts
  <1>12. CASE UNCHANGED vars
    BY <1>8, <1>12 DEF vars
  <1> QED
    BY <1>2, <1>3, <1>4, <1>6, <1>7, <1>9, <1>10, <1>11, <1>12 DEF Next, ClientStep

\* The inductive invariant.
THEOREM IInvCorrect == Spec => []IInv
  <1>1. Init => IInv
    <2> SUFFICES ASSUME Init PROVE IInv
      OBVIOUS
    <2>1. TypeOK
      BY InitTypes
    <2>2. AbandonedTransportsAreSilent /\ TrefIsCurrent /\ SenderStartsEmpty
      BY DEF Init, AbandonedTransportsAreSilent, TrefIsCurrent, SenderStartsEmpty,
             NothingBuffered
    <2>3. WebSocketSessionIsOne
      <3>1. "websocket" \in Transports /\ wire["websocket"] = <<>>
            /\ session["websocket"] = "none"
        BY DEF Init, Transports
      <3>2. Range(<<>>) = {} /\ <<>> \in Seq(AjaxTransports)
        BY EmptyIsSeq DEF Range
      <3> QED
        BY <3>1, <3>2 DEF Init, WebSocketSessionIsOne
    <2>4. MessagesFollow
      BY ContinuesEmpty DEF Init, MessagesFollow
    <2> QED
      BY <2>1, <2>2, <2>3, <2>4 DEF IInv
  <1>2. IInv /\ [Next]_vars => IInv'
    BY TypeStep, CurrentStep, WebSocketStep, SenderStep DEF IInv
  <1> QED
    BY <1>1, <1>2, PTL DEF Spec

\* Whatever requests fail, answers get lost and transports are given up, the
\* server gets a run of the page's messages from the first one on.
THEOREM MessagesStayInOrder == Spec => []MessagesArriveInOrder
  <1>1. IInv => MessagesArriveInOrder
    <2>1. IInv => arrived \in Seq(Message) /\ Continues(arrived, 0)
      BY DEF IInv, TypeOK, MessagesFollow
    <2>2. arrived \in Seq(Message) /\ Continues(arrived, 0) => MessagesArriveInOrder
      BY MaxSendsAssumption DEF Continues, MessagesArriveInOrder, Message
    <2> QED
      BY <2>1, <2>2
  <1> QED
    BY <1>1, IInvCorrect, PTL
=============================================================================
