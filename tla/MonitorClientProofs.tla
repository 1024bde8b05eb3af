------------------------ MODULE MonitorClientProofs ------------------------
(***************************************************************************)
(* Proofs about MonitorClient for every number of failures.                *)
(***************************************************************************)
EXTENDS MonitorClient, TLAPS

\* What a step does to the current socket, which is the only one that steps:
\* the record of the socket changes and all else is as it was.
LEMMA Stepper ==
    ASSUME IInv, NEW g \in DOMAIN sockets, SocketStep(g)
    PROVE  g = cur /\ cur \in Nat \ {0} /\ DOMAIN sockets = 1 .. cur
  BY DEF IInv, TypeOK, OneLiveSocket, SocketStep, Open, ConnectFails,
         ConnectionBreaks, ClosedAfterError, LinkLost, DispatchClose,
         ReceiveConnected, ReceiveMessage, ReceiveError, cur

\* The conditions under which replacing the current socket's record keeps the
\* invariant.
LEMMA InvReplace ==
    ASSUME IInv, cur # 0, NEW s \in Socket,
           sockets' = [sockets EXCEPT ![cur] = s],
           timers' \in Nat, faults' \in 0 .. MaxFaults,
           display' \in {{}, display, display \cup {cur}},
           s.readyState = "CLOSED" => timers' > 0 \/ s.closing,
           s.connected => sockets[cur].connected \/ display' = {},
           s.readyState = "OPEN" => ~s.closing,
           s.readyState = "CONNECTING" => s.session = "none" /\ ~s.closing,
           s.readyState = "CLOSED" => s.session = "closed",
           timers' + cur + Owed(s) <= 1 + 2 * faults'
    PROVE  IInv'
  <1> USE DEF IInv, TypeOK, cur
  <1>1. /\ cur' = cur /\ sockets' \in Seq(Socket) /\ cur \in Nat
        /\ DOMAIN sockets' = DOMAIN sockets /\ DOMAIN sockets = 1 .. cur
        /\ sockets'[cur] = s
        /\ \A g \in DOMAIN sockets \ {cur} : sockets'[g] = sockets[g]
    OBVIOUS
  <1>2. TypeOK'
    BY <1>1
  <1>3. OneLiveSocket'
    BY <1>1 DEF OneLiveSocket
  <1>4. NeverStranded'
    BY <1>1 DEF NeverStranded
  <1>5. DisplayIsCurrent'
    BY <1>1 DEF DisplayIsCurrent
  <1>6. ClosingIsClosed'
    BY <1>1 DEF ClosingIsClosed
  <1>7. OwedReconnectsAreBounded'
    BY <1>1 DEF OwedReconnectsAreBounded
  <1> QED
    BY <1>2, <1>3, <1>4, <1>5, <1>6, <1>7

LEMMA InvSocket ==
    ASSUME IInv, NEW g \in DOMAIN sockets, SocketStep(g)
    PROVE  IInv'
  <1> DEFINE s == sockets[cur]
  <1>1. /\ g = cur /\ cur \in Nat \ {0} /\ s \in Socket
        /\ timers \in Nat /\ faults \in Nat /\ faults \in 0 .. MaxFaults
        /\ timers + cur + Owed(s) <= 1 + 2 * faults
    BY Stepper DEF IInv, TypeOK, OwedReconnectsAreBounded
  <1>2. /\ s.readyState = "CLOSED" => timers > 0 \/ s.closing
        /\ s.readyState = "OPEN" => ~s.closing
        /\ s.readyState = "CONNECTING" => s.session = "none" /\ ~s.closing
        /\ s.readyState = "CLOSED" => s.session = "closed"
    BY <1>1 DEF IInv, NeverStranded, ClosingIsClosed
  <1> USE DEF Socket, ReadyState, Session, Owed
  <1>3. CASE Open(g)
    <2> DEFINE t == [s EXCEPT !.readyState = "OPEN", !.session = "opened"]
    <2>1. sockets' = [sockets EXCEPT ![cur] = t] /\ t \in Socket
      BY <1>1, <1>3 DEF Open
    <2> QED
      BY <1>1, <1>2, <1>3, <2>1, InvReplace DEF Open
  <1>4. CASE ConnectFails(g) \/ ConnectionBreaks(g) \/ ClosedAfterError(g)
    <2>1. sockets' = [sockets EXCEPT ![cur] = Closed(s)] /\ Closed(s) \in Socket
      BY <1>1, <1>4
         DEF ConnectFails, ConnectionBreaks, ClosedAfterError, DidClose, Closed
    <2>2. /\ Closed(s).readyState = "CLOSED" /\ Closed(s).closing
          /\ Closed(s).session = "closed"
          /\ Closed(s).connected = s.connected /\ Owed(Closed(s)) = 1
      BY <1>1 DEF Closed
    <2>3. timers + cur + 1 <= 1 + 2 * faults'
      BY <1>1, <1>4
         DEF ConnectFails, ConnectionBreaks, ClosedAfterError, Fault
    <2>4. faults' \in 0 .. MaxFaults /\ timers' = timers /\ display' = display
      BY <1>1, <1>4, ClientFaultsAssumption
         DEF ConnectFails, ConnectionBreaks, ClosedAfterError, Fault
    <2> HIDE DEF Owed
    <2> QED
      BY <1>1, <2>1, <2>2, <2>3, <2>4, InvReplace
  <1>5. CASE LinkLost(g)
    <2> DEFINE t == [s EXCEPT !.session = "lost"]
    <2>1. sockets' = [sockets EXCEPT ![cur] = t] /\ t \in Socket
      BY <1>1, <1>5 DEF LinkLost
    <2>2. /\ faults' = faults + 1 /\ faults' \in 0 .. MaxFaults
          /\ UNCHANGED <<timers, display>>
      BY <1>1, <1>5, ClientFaultsAssumption DEF LinkLost, Fault
    <2>3. /\ t.readyState = "OPEN" /\ ~t.closing /\ t.connected = s.connected
          /\ Owed(t) = 0
      BY <1>1, <1>2, <1>5 DEF LinkLost
    <2>4. timers' + cur + Owed(t) <= 1 + 2 * faults'
      BY <1>1, <2>2, <2>3
    <2> HIDE DEF t, Owed
    <2> QED
      BY <1>1, <2>1, <2>2, <2>3, <2>4, InvReplace
  <1>6. CASE DispatchClose(g)
    <2> DEFINE t == [s EXCEPT !.closing = FALSE, !.connected = FALSE]
    <2>1. sockets' = [sockets EXCEPT ![cur] = t] /\ t \in Socket
      BY <1>1, <1>6 DEF DispatchClose
    <2>2. /\ Owed(s) = 1 /\ timers' = timers + 1 /\ faults' = faults
          /\ s.readyState = "CLOSED" /\ s.session = "closed"
      BY <1>1, <1>2, <1>6 DEF DispatchClose, Reconnect
    <2>3. /\ t.readyState = "CLOSED" /\ t.session = "closed"
          /\ ~t.closing /\ ~t.connected /\ Owed(t) = 0
      BY <1>1, <2>2
    <2>4. /\ timers' \in Nat /\ timers' > 0 /\ faults' \in 0 .. MaxFaults
          /\ timers' + cur + Owed(t) <= 1 + 2 * faults'
      BY <1>1, <2>2, <2>3
    <2>5. display' = display
      BY <1>6 DEF DispatchClose
    <2> HIDE DEF t, Owed
    <2> QED
      BY <1>1, <2>1, <2>2, <2>3, <2>4, <2>5, InvReplace
  <1>7. CASE ReceiveConnected(g)
    <2> DEFINE t == [s EXCEPT !.session = "connected", !.connected = TRUE]
    <2>1. sockets' = [sockets EXCEPT ![cur] = t] /\ t \in Socket
      BY <1>1, <1>7 DEF ReceiveConnected
    <2> QED
      BY <1>1, <1>2, <1>7, <2>1, InvReplace DEF ReceiveConnected
  <1>8. CASE ReceiveMessage(g)
    <2>1. sockets' = [sockets EXCEPT ![cur] = s]
      BY <1>1, <1>8 DEF ReceiveMessage, IInv, TypeOK
    <2> QED
      BY <1>1, <1>2, <1>8, <2>1, InvReplace DEF ReceiveMessage
  <1>9. CASE ReceiveError(g)
    <2> DEFINE t == [s EXCEPT !.session = "erring"]
    <2>1. sockets' = [sockets EXCEPT ![cur] = t] /\ t \in Socket
      BY <1>1, <1>9 DEF ReceiveError
    <2>2. /\ faults' = faults + 1 /\ faults' \in 0 .. MaxFaults
          /\ timers' = timers + 1
      BY <1>1, <1>9, ClientFaultsAssumption DEF ReceiveError, Fault, Reconnect
    <2>3. /\ t.readyState = "OPEN" /\ ~t.closing /\ t.connected = s.connected
          /\ Owed(t) = 1 /\ Owed(s) = 0
      BY <1>1, <1>2, <1>9 DEF ReceiveError
    <2>4. timers' \in Nat /\ timers' + cur + Owed(t) <= 1 + 2 * faults'
      BY <1>1, <2>2, <2>3
    <2>5. display' = display
      BY <1>9 DEF ReceiveError
    <2> HIDE DEF t, Owed
    <2> QED
      BY <1>1, <2>1, <2>2, <2>3, <2>4, <2>5, InvReplace
  <1> QED
    BY <1>3, <1>4, <1>5, <1>6, <1>7, <1>8, <1>9 DEF SocketStep

\* A new socket is connecting, its predecessor closed for good.
LEMMA InvNewSocket ==
    ASSUME IInv, NEW old \in Seq(Socket), Len(old) = cur,
           sockets' = Append(old, NewSocket),
           \A g \in 1 .. cur : /\ old[g].readyState = "CLOSED"
                               /\ old[g].session = "closed"
                               /\ ~old[g].closing,
           timers' \in Nat, timers' + cur <= 2 * faults,
           UNCHANGED <<display, faults>>
    PROVE  IInv'
  <1> USE DEF IInv, TypeOK, cur
  <1>1. NewSocket \in Socket
    BY DEF NewSocket, Socket, ReadyState, Session
  <1>2. /\ cur' = cur + 1 /\ cur \in Nat
        /\ sockets' \in Seq(Socket) /\ DOMAIN sockets' = 1 .. cur + 1
        /\ sockets'[cur + 1] = NewSocket
        /\ \A g \in 1 .. cur : sockets'[g] = old[g]
    BY <1>1
  <1>3. TypeOK'
    BY <1>2
  <1>4. OneLiveSocket'
    BY <1>2 DEF OneLiveSocket
  <1>5. NeverStranded' /\ DisplayIsCurrent'
    BY <1>2 DEF NeverStranded, DisplayIsCurrent, NewSocket
  <1>6. ClosingIsClosed'
    BY <1>2 DEF ClosingIsClosed, NewSocket
  <1>7. OwedReconnectsAreBounded'
    <2>1. Owed(NewSocket) = 0
      BY DEF Owed, NewSocket
    <2> QED
      BY <1>2, <2>1 DEF OwedReconnectsAreBounded
  <1> QED
    BY <1>3, <1>4, <1>5, <1>6, <1>7

LEMMA InvPageLoads == IInv /\ PageLoads => IInv'
  <1> SUFFICES ASSUME IInv, PageLoads
               PROVE  IInv'
    OBVIOUS
  <1>1. /\ sockets \in Seq(Socket) /\ Len(sockets) = cur /\ cur = 0
        /\ timers = 0 /\ faults \in Nat /\ UNCHANGED <<timers, display, faults>>
        /\ sockets' = Append(sockets, NewSocket)
    BY DEF IInv, TypeOK, PageLoads, OwedReconnectsAreBounded, cur
  <1>2. timers' \in Nat /\ timers' + cur <= 2 * faults /\ 1 .. cur = {}
    BY <1>1
  <1> QED
    BY <1>1, <1>2, InvNewSocket

LEMMA InvTimer == IInv /\ TimerFires => IInv'
  <1> SUFFICES ASSUME IInv, TimerFires
               PROVE  IInv'
    OBVIOUS
  <1> DEFINE s == sockets[cur]
  <1>1. /\ cur \in Nat \ {0} /\ sockets \in Seq(Socket) /\ s \in Socket
        /\ timers' \in Nat /\ timers' = timers - 1 /\ timers \in Nat
        /\ faults \in 0 .. MaxFaults /\ UNCHANGED <<display, faults>>
        /\ timers + cur + Owed(s) <= 1 + 2 * faults
    BY DEF IInv, TypeOK, TimerFires, ConnectThrows, Reopen, cur,
           OwedReconnectsAreBounded
  <1>2. Owed(s) \in {0, 1}
    BY DEF Owed
  <1>3. CASE ConnectThrows
    <2>1. /\ s.readyState = "CONNECTING" /\ s.session = "none" /\ ~s.closing
          /\ sockets' = [sockets EXCEPT ![cur] = s]
          /\ s.connected = sockets[cur].connected
      BY <1>1, <1>3 DEF ConnectThrows, IInv, ClosingIsClosed, cur
    <2>2. timers' + cur + Owed(s) <= 1 + 2 * faults'
      BY <1>1, <1>2
    <2> HIDE DEF s
    <2> QED
      BY <1>1, <2>1, <2>2, InvReplace
  <1>4. CASE Reopen
    <2> DEFINE old == [sockets EXCEPT ![cur] = Disconnected(s)]
    <2>1. Disconnected(s) \in Socket
      BY <1>1 DEF Disconnected, Socket, ReadyState, Session
    <2>2. /\ old \in Seq(Socket) /\ Len(old) = cur
          /\ sockets' = Append(old, NewSocket)
      BY <1>1, <1>4, <2>1 DEF Reopen, cur
    <2>3. /\ Disconnected(s).readyState = "CLOSED"
          /\ Disconnected(s).session = "closed" /\ ~Disconnected(s).closing
      BY <1>1 DEF Disconnected, Socket
    <2>4. \A g \in 1 .. cur : /\ old[g].readyState = "CLOSED"
                              /\ old[g].session = "closed"
                              /\ ~old[g].closing
      BY <1>1, <2>3 DEF IInv, OneLiveSocket, ClosingIsClosed, cur
    <2>5. timers' + cur <= 2 * faults
      BY <1>1, <1>2
    <2> HIDE DEF old
    <2> QED
      BY <1>1, <2>2, <2>4, <2>5, InvNewSocket
  <1> QED
    BY <1>3, <1>4 DEF TimerFires

LEMMA InvInit == Init => IInv
  BY ClientFaultsAssumption
     DEF Init, IInv, TypeOK, OneLiveSocket, NeverStranded, DisplayIsCurrent,
         ClosingIsClosed, OwedReconnectsAreBounded, cur

LEMMA InvNext == IInv /\ [Next]_vars => IInv'
  <1> SUFFICES ASSUME IInv, [Next]_vars
               PROVE  IInv'
    OBVIOUS
  <1>1. CASE UNCHANGED vars
    BY <1>1 DEF IInv, TypeOK, OneLiveSocket, NeverStranded, DisplayIsCurrent,
                ClosingIsClosed, OwedReconnectsAreBounded, cur, vars
  <1>2. CASE Next
    BY <1>1, <1>2, InvPageLoads, InvTimer, InvSocket DEF Next, Sits
  <1> QED
    BY <1>1, <1>2

\* The strengthening that makes the facts below inductive.
THEOREM IInvCorrect == Spec => []IInv
  BY InvInit, InvNext, PTL DEF Spec

\* The type invariant holds: sockets, timers and the display keep their types,
\* however often the page reconnects.
THEOREM TypeCorrect == Spec => []TypeOK
  <1>1. IInv => TypeOK
    BY DEF IInv
  <1> QED
    BY <1>1, IInvCorrect, PTL

\* The page never listens on two sockets, whatever interleaving of timers,
\* close events and frames connect() is called in.
THEOREM OneSocketIsLive == Spec => []OneLiveSocket
  <1>1. IInv => OneLiveSocket
    BY DEF IInv
  <1> QED
    BY <1>1, IInvCorrect, PTL

\* A page whose socket is closed always has a reconnect coming.
THEOREM PageIsNeverStranded == Spec => []NeverStranded
  <1>1. IInv => NeverStranded
    BY DEF IInv
  <1> QED
    BY <1>1, IInvCorrect, PTL

\* A connected page shows only what its present session sent.
THEOREM ConnectedDisplayIsCurrent == Spec => []DisplayIsCurrent
  <1>1. IInv => DisplayIsCurrent
    BY DEF IInv
  <1> QED
    BY <1>1, IInvCorrect, PTL

\* However often connections fail, timers do not pile up: sockets created and
\* timers pending together exceed twice the failures by at most one.
THEOREM ReconnectsStayBounded == Spec => []ReconnectsAreBounded
  <1>1. IInv => ReconnectsAreBounded
    BY DEF IInv, TypeOK, OwedReconnectsAreBounded, ReconnectsAreBounded, cur, Owed
  <1> QED
    BY <1>1, IInvCorrect, PTL
=============================================================================
