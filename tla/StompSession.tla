---------------------------- MODULE StompSession ----------------------------
(***************************************************************************)
(* STOMP sessions between monitor pages and the server: what stomp.js and  *)
(* the callbacks of eventMonitor.js do once a SockJS socket is open, and   *)
(* the broker and the controller behind /events (WebSocketConfiguration,   *)
(* WebSocketController).                                                   *)
(*                                                                         *)
(* A socket is open, in order and without loss until it is closed.  The    *)
(* server, Spring's messaging, hands each frame it has decoded to one      *)
(* executor and each frame it sends to another: frames of one session may  *)
(* overtake each other on either.                                          *)
(***************************************************************************)
EXTENDS StompFrames

CONSTANTS
    Sessions,       \* sessions of the pages, one after the other or not
    Announcements,  \* lines that listeners, error handler and endpoint send
    FrameSize,      \* maxWebSocketFrameSize
    MaxClosings     \* bound on the sessions that end

ASSUME FrameSizeAssumption == FrameSize \in Nat \ {0}
ASSUME MaxClosingsAssumption == MaxClosings \in Nat
ASSUME LinesAssumption == Announcements \cap Sessions = {}

VARIABLES
    link,           \* the socket, see Link
    connected,      \* of the Stomp.Client
    counter,        \* ids it has given to subscriptions
    subscriptions,  \* ids that have a callback
    response,       \* lines the page shows of the session
    transmitted,    \* frames transmitted by the client, in order
    toServer,       \* pieces of them on their way
    decoder,        \* text the server has received of an incomplete frame
    received,       \* frames it has decoded, in order
    inbound,        \* those its inbound executor has still to handle
    registered,     \* subscriptions to /server/list
    outbound,       \* frames its outbound executor has still to send
    toClient,       \* frames on their way to the client, one to a text
    topic           \* lines broadcast on /server/list so far

pageVars == <<connected, counter, subscriptions, response>>
wireVars == <<transmitted, toServer>>
serverVars == <<decoder, received, inbound, registered>>
vars == <<link, pageVars, wireVars, serverVars, outbound, toClient, topic>>

\* Not yet open, open, closed on the page's side, and known to be closed on
\* the server's side too.
Link == {"none", "open", "closed", "ended"}

\* The line that websocketEndpoint answers a session's greeting with is
\* written as the session.
Line == Announcements \cup Sessions

\* {"status":"SUCCESS","data":{"content":...}}, the content with a character
\* of two bytes.
Body(line) == <<Char("before", line, 1), Char("content", line, 2), Char("after", line, 1)>>

Connect == Frame("CONNECT", <<HeaderLine("accept-version", "1.1,1.0"),
                              HeaderLine("heart-beat", "10000,10000")>>, <<>>)
Subscribe(id) == Frame("SUBSCRIBE", <<HeaderLine("id", id),
                                      HeaderLine("destination", "/server/list")>>, <<>>)
Greeting(s) == Frame("SEND", <<HeaderLine("destination", "/eventmonitor/events")>>,
                     <<Char("empty", s, 1)>>)
DisconnectFrame == Frame("DISCONNECT", <<>>, <<>>)
Connected == Frame("CONNECTED", <<HeaderLine("version", "1.1"),
                                  HeaderLine("heart-beat", "0,0")>>, <<>>)
MessageFrame(id, line) == Frame("MESSAGE", <<HeaderLine("destination", "/server/list"),
                                        HeaderLine("subscription", id)>>, Body(line))

\* Every frame, its text, the pieces that _transmit makes of it, and the frames
\* that the receiving side makes of the text.  A client subscribes once, under
\* id 0.
Frames == {Connect, DisconnectFrame, Connected} \cup {Greeting(s) : s \in Sessions}
    \cup {Subscribe(0)} \cup {MessageFrame(0, l) : l \in Line}
Text == [f \in Frames |-> Marshall(f)]
Cut == [f \in Frames |-> Pieces(Text[f], FrameSize)]
Reading == [f \in Frames |-> Unmarshall(Text[f])]

Parsed(frame) == Reading[frame][1]

FromClient(s) ==
    {Connect, Greeting(s), DisconnectFrame} \cup {Subscribe(id) : id \in 0 .. counter[s]}
FromServer(s) ==
    {Connected} \cup {MessageFrame(id, l) : id \in registered[s], l \in Line}

TypeOK ==
    /\ link \in [Sessions -> Link]
    /\ connected \in [Sessions -> BOOLEAN]
    /\ counter \in [Sessions -> Nat]
    /\ subscriptions \in [Sessions -> SUBSET Nat]
    /\ response \in [Sessions -> Seq(Line)]
    /\ registered \in [Sessions -> SUBSET Nat]
    /\ topic \in Seq(Line)
    /\ \A s \in Sessions :
           /\ transmitted[s] \in Seq(FromClient(s))
           /\ \A i \in DOMAIN toServer[s] : Len(toServer[s][i]) \in 1 .. FrameSize
           /\ inbound[s] \subseteq Range(received[s]) \cup {Parsed(DisconnectFrame)}
           /\ registered[s] # {} => outbound[s] \subseteq FromServer(s)
           /\ \A i \in DOMAIN toClient[s] : Len(Reading[toClient[s][i]]) = 1

Init ==
    /\ link = [s \in Sessions |-> "none"]
    /\ connected = [s \in Sessions |-> FALSE]
    /\ counter = [s \in Sessions |-> 0]
    /\ subscriptions = [s \in Sessions |-> {}]
    /\ response = [s \in Sessions |-> <<>>]
    /\ transmitted = [s \in Sessions |-> <<>>]
    /\ toServer = [s \in Sessions |-> <<>>]
    /\ decoder = [s \in Sessions |-> <<>>]
    /\ received = [s \in Sessions |-> <<>>]
    /\ inbound = [s \in Sessions |-> {}]
    /\ registered = [s \in Sessions |-> {}]
    /\ outbound = [s \in Sessions |-> {}]
    /\ toClient = [s \in Sessions |-> <<>>]
    /\ topic = <<>>

-----------------------------------------------------------------------------
(* The page *)

\* _transmit, for each of frames.
Transmit(s, frames) ==
    /\ transmitted' = [transmitted EXCEPT ![s] = @ \o frames]
    /\ toServer' = [toServer EXCEPT ![s] = @ \o
           FlattenSeq([i \in DOMAIN frames |-> Cut[frames[i]]])]

\* onopen.
Open(s) ==
    /\ link[s] = "none"
    /\ link' = [link EXCEPT ![s] = "open"]
    /\ Transmit(s, <<Connect>>)
    /\ UNCHANGED <<pageVars, serverVars, outbound, toClient, topic>>

\* onmessage: the frames in the next text.  The server puts one into each.
Arrived(s) == IF toClient[s] = <<>> THEN {} ELSE Range(Reading[Head(toClient[s])])

Receive(s, command) ==
    /\ link[s] = "open"
    /\ \E frame \in Arrived(s) : frame.command = command
    /\ toClient' = [toClient EXCEPT ![s] = Tail(@)]

\* The connect callback clears the display, subscribes and says hello.
ReceiveConnected(s) ==
    /\ Receive(s, "CONNECTED")
    /\ connected' = [connected EXCEPT ![s] = TRUE]
    /\ response' = [response EXCEPT ![s] = <<>>]
    /\ counter' = [counter EXCEPT ![s] = @ + 1]
    /\ subscriptions' = [subscriptions EXCEPT ![s] = @ \cup {counter[s]}]
    /\ Transmit(s, <<Subscribe(counter[s]), Greeting(s)>>)
    /\ UNCHANGED <<link, serverVars, outbound, topic>>

\* Mutant: the page shows the body as it came.
ReceiveMessage_Unparsed(s) ==
    /\ Receive(s, "MESSAGE")
    /\ \E frame \in Arrived(s) : response' = [response EXCEPT ![s] = Append(@, frame.body)]
    /\ UNCHANGED <<link, connected, counter, subscriptions, wireVars, serverVars,
                   outbound, topic>>

\* The callback of the subscription shows the line; JSON.parse throws on a body
\* that is not whole.
ReceiveMessage(s) ==
    /\ Receive(s, "MESSAGE")
    /\ \E frame \in Arrived(s) :
           \/ \E line \in Line :
                 /\ frame.headers["subscription"] \in subscriptions[s]
                 /\ frame.body = Body(line)
                 /\ response' = [response EXCEPT ![s] = Append(@, line)]
           \/ /\ \/ frame.headers["subscription"] \notin subscriptions[s]
                 \/ \A line \in Line : frame.body # Body(line)
              /\ UNCHANGED response
    /\ UNCHANGED <<link, connected, counter, subscriptions, wireVars, serverVars,
                   outbound, topic>>

\* The socket is closed: what the server sends from now on, or has sent and the
\* page has not read, is lost.
Close(s) ==
    /\ link[s] = "open"
    /\ Cardinality({t \in Sessions : link[t] \in {"closed", "ended"}}) < MaxClosings
    /\ link' = [link EXCEPT ![s] = "closed"]
    /\ connected' = [connected EXCEPT ![s] = FALSE]
    /\ toClient' = [toClient EXCEPT ![s] = <<>>]
    /\ outbound' = [outbound EXCEPT ![s] = {}]

\* disconnect, of a page that reconnects.
Disconnect(s) ==
    /\ Close(s)
    /\ Transmit(s, <<DisconnectFrame>>)
    /\ UNCHANGED <<counter, subscriptions, response, serverVars, topic>>

\* The connection breaks: what is on its way to the server may be lost.
Break(s) ==
    /\ Close(s)
    /\ \E n \in 0 .. Len(toServer[s]) :
           toServer' = [toServer EXCEPT ![s] = SubSeq(@, 1, n)]
    /\ UNCHANGED <<counter, subscriptions, response, transmitted, serverVars, topic>>

-----------------------------------------------------------------------------
(* The server: decoder and inbound executor *)

\* A piece completes at most one frame, because each frame begins a new piece.
ReceivePiece(s) ==
    LET text == decoder[s] \o Head(toServer[s])
        whole == {f \in Frames : Text[f] = text}
    IN  /\ toServer[s] # <<>>
        /\ link[s] # "ended"
        /\ toServer' = [toServer EXCEPT ![s] = Tail(@)]
        /\ \/ /\ whole = {}
              /\ decoder' = [decoder EXCEPT ![s] = text]
              /\ UNCHANGED <<received, inbound>>
           \/ \E f \in whole :
              /\ decoder' = [decoder EXCEPT ![s] = <<>>]
              /\ received' = [received EXCEPT ![s] = @ \o Reading[f]]
              /\ inbound' = [inbound EXCEPT ![s] = @ \cup Range(Reading[f])]
        /\ UNCHANGED <<link, pageVars, transmitted, registered, outbound, toClient, topic>>

Handle(s, frame, command) ==
    /\ frame \in inbound[s]
    /\ frame.command = command
    /\ inbound' = [inbound EXCEPT ![s] = @ \ {frame}]

HandleConnect(s, frame) ==
    /\ Handle(s, frame, "CONNECT")
    /\ outbound' = [outbound EXCEPT
           ![s] = IF link[s] = "open" THEN @ \cup {Connected} ELSE {}]
    /\ UNCHANGED <<link, pageVars, wireVars, decoder, received, registered, toClient, topic>>

HandleSubscribe(s, frame) ==
    /\ Handle(s, frame, "SUBSCRIBE")
    /\ registered' = [registered EXCEPT ![s] = @ \cup {frame.headers["id"]}]
    /\ UNCHANGED <<link, pageVars, wireVars, decoder, received, outbound, toClient, topic>>

\* Mutant: the session whose greeting is answered is left out.
Broadcast_ToOthers(line) ==
    /\ topic' = Append(topic, line)
    /\ outbound' = [s \in Sessions |->
           IF link[s] # "open" \/ s = line THEN outbound[s]
           ELSE outbound[s] \cup {MessageFrame(id, line) : id \in registered[s]}]

\* convertAndSend("/server/list", line): the simple broker hands a MESSAGE for
\* each registered subscription to the outbound executor.
Broadcast(line) ==
    /\ topic' = Append(topic, line)
    /\ outbound' = [s \in Sessions |->
           IF link[s] # "open" THEN {}
           ELSE outbound[s] \cup {MessageFrame(id, line) : id \in registered[s]}]

\* websocketEndpoint, whose result goes to /server/list.
HandleSend(s, frame) ==
    /\ Handle(s, frame, "SEND")
    /\ Broadcast(s)
    /\ UNCHANGED <<link, pageVars, wireVars, decoder, received, registered, toClient>>

\* The broker drops the session's subscriptions.
HandleDisconnect(s, frame) ==
    /\ Handle(s, frame, "DISCONNECT")
    /\ registered' = [registered EXCEPT ![s] = {}]
    /\ UNCHANGED <<link, pageVars, wireVars, decoder, received, outbound, toClient, topic>>

\* The server notices that the socket is closed, and has a DISCONNECT handled.
SessionEnds(s) ==
    /\ link[s] = "closed"
    /\ toServer[s] = <<>>
    /\ link' = [link EXCEPT ![s] = "ended"]
    /\ inbound' = [inbound EXCEPT ![s] = @ \cup {Parsed(DisconnectFrame)}]
    /\ decoder' = [decoder EXCEPT ![s] = <<>>]
    /\ UNCHANGED <<pageVars, wireVars, received, registered, outbound, toClient, topic>>

-----------------------------------------------------------------------------
(* The server: what it sends *)

\* A listener, the error handler or the endpoint writes a line.
Announce(line) ==
    /\ line \notin Range(topic)
    /\ Broadcast(line)
    /\ UNCHANGED <<link, pageVars, wireVars, serverVars, toClient>>

\* The outbound executor sends a frame.
Deliver(s, frame) ==
    /\ frame \in outbound[s]
    /\ outbound' = [outbound EXCEPT ![s] = @ \ {frame}]
    /\ toClient' = [toClient EXCEPT ![s] = Append(@, frame)]
    /\ UNCHANGED <<link, pageVars, wireVars, serverVars, topic>>

-----------------------------------------------------------------------------
PageStep(s) ==
    \/ Open(s) \/ ReceiveConnected(s) \/ ReceiveMessage(s) \/ Disconnect(s) \/ Break(s)

HandleStep(s) ==
    \E frame \in inbound[s] :
        \/ HandleConnect(s, frame) \/ HandleSubscribe(s, frame)
        \/ HandleSend(s, frame) \/ HandleDisconnect(s, frame)

DeliverStep(s) == \E frame \in outbound[s] : Deliver(s, frame)

SessionStep(s) ==
    PageStep(s) \/ ReceivePiece(s) \/ HandleStep(s) \/ SessionEnds(s) \/ DeliverStep(s)

Next ==
    \/ \E s \in Sessions : SessionStep(s)
    \/ \E line \in Announcements : Announce(line)

\* What is on its way arrives, the executors get through their tasks, and
\* callbacks run.  Nothing makes a page open or close, or a line be written.
Fairness ==
    \A s \in Sessions :
        WF_vars(ReceivePiece(s) \/ HandleStep(s) \/ DeliverStep(s)
                \/ ReceiveConnected(s) \/ ReceiveMessage(s))

Spec == Init /\ [][Next]_vars
FairSpec == Spec /\ Fairness

-----------------------------------------------------------------------------
(* Properties *)

\* The server decodes the frames the client transmitted, each whole and in
\* order, wherever _transmit cuts them; once nothing is on its way, all of them.
FramesArriveWhole ==
    \A s \in Sessions :
        LET parsed == [i \in DOMAIN transmitted[s] |-> Parsed(transmitted[s][i])]
        IN  /\ IsPrefix(received[s], parsed)
            /\ link[s] = "open" /\ toServer[s] = <<>> => received[s] = parsed

\* Lines on their way to a session, and those it has or will have.
OnTheWay(s) ==
    {line \in Line : \E frame \in outbound[s] \cup Range(toClient[s]) :
                         frame.body = Body(line)}

\* The greeting may be handled before the subscription and be missed.  But from
\* the first line a session gets, its own greeting or another, it misses none
\* that is written afterwards, whatever order they are handled in.
NoGaps ==
    \A s \in Sessions :
        LET due == Range(response[s]) \cup OnTheWay(s)
        IN  link[s] = "open" =>
                \A i, j \in DOMAIN topic : i < j /\ topic[i] \in due => topic[j] \in due

\* Frames, pieces and executors hidden, each session is fed as TopicFeed says:
\* each line once, from the subscription on, and in the end.
FeedState(s) ==
    CASE link[s] = "none" -> "absent"
      [] link[s] = "open" /\ registered[s] = {} -> "joining"
      [] link[s] = "open" /\ registered[s] # {} -> "attached"
      [] OTHER -> "left"

Feed == INSTANCE TopicFeed WITH
    Lines <- Line,
    published <- topic,
    state <- [s \in Sessions |-> FeedState(s)],
    pending <- [s \in Sessions |-> IF link[s] = "open" THEN OnTheWay(s) ELSE {}],
    shown <- response

ImplementsFeed == Feed!FairFeedSpec
=============================================================================
