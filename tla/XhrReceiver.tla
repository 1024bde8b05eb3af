----------------------------- MODULE XhrReceiver -----------------------------
(***************************************************************************)
(* The receiving side of an Ajax transport of sockjs-0.3.4.js, from the    *)
(* XMLHttpRequest to SockJS._didMessage: AbstractXHRObject, its events     *)
(* (EventEmitter), XhrReceiver, its events (REventTarget) and Polling.     *)
(*                                                                         *)
(* A response is a text of frames, one to a line.  It arrives in arbitrary *)
(* parts, so that a line is two characters here, its data and its line     *)
(* feed, one of which may arrive without the other.  Each event of a       *)
(* request is one turn of the browser.                                     *)
(***************************************************************************)
EXTENDS Naturals, Sequences, Functions

CONSTANTS
    Frames,      \* frames that the server writes, but for the last one
    CloseFrame,  \* a frame that closes the socket: c, or the o of the session
                 \* that a restarted server begins
    Page,        \* what an answer with another status than 200 contains
    MaxThrows    \* bound on the callbacks that throw

ASSUME FramesAssumption == CloseFrame \notin Frames /\ Page \notin Frames \cup {CloseFrame}
ASSUME MaxThrowsAssumption == MaxThrows \in Nat

VARIABLES
    transport,  \* "closed" once _didClose has cleaned it up: poll_is_closing is
                \* set, the receiver has lost its onmessage and onclose
    xhr,        \* the request of the present receiver, see Request
    buf_pos,    \* characters of its text that have been read
    written,    \* frames the server has written, in order
    delivered,  \* frames handed to _didMessage, in order
    throws      \* callbacks that have thrown

pageVars == <<transport, buf_pos, delivered, throws>>
vars == <<pageVars, xhr, written>>

Frame == Frames \cup {CloseFrame}

\* state: not there, to be started by utils.delay, sent to the server, answered
\* in full, or left behind by a callback that threw when it was finished;
\* events: of its EventEmitter, or nuked; text: what the server has written;
\* arrived: characters of it that the browser has.
Request == [state : {"none", "scheduled", "sent", "answered", "stuck"},
            events : {"on", "nuked"}, status : {0, 200, 500},
            text : Seq(Frame \cup {Page}), arrived : Nat]

NewRequest ==
    [state |-> "scheduled", events |-> "on", status |-> 200, text |-> <<>>, arrived |-> 0]

NoRequest ==
    [state |-> "none", events |-> "on", status |-> 200, text |-> <<>>, arrived |-> 0]

TypeOK ==
    /\ transport \in {"open", "closed"}
    /\ xhr \in Request
    /\ xhr.status = 200 => xhr.text \in Seq(Frame)
    /\ buf_pos \in 0 .. 2 * Len(written)
    /\ written \in Seq(Frame)
    /\ delivered \in Seq(Frame)
    /\ throws \in 0 .. MaxThrows

\* Polling schedules its first receiver.
Init ==
    /\ transport = "open"
    /\ xhr = NewRequest
    /\ buf_pos = 0
    /\ written = <<>>
    /\ delivered = <<>>
    /\ throws = 0

-----------------------------------------------------------------------------
(* The server *)

Writing == xhr.state = "sent"

\* It writes a frame into the response.  What it writes behind one that closes
\* the socket is heard by nobody, so that nothing more is written here.
Write(f) ==
    /\ Writing
    /\ f \notin Range(written) /\ CloseFrame \notin Range(written)
    /\ xhr' = [xhr EXCEPT !.text = Append(@, f)]
    /\ written' = Append(written, f)
    /\ UNCHANGED pageVars

\* It ends a response: a polling one after a frame, a streaming one after many.
EndResponse ==
    /\ Writing
    /\ xhr.text # <<>>
    /\ xhr' = [xhr EXCEPT !.state = "answered"]
    /\ UNCHANGED <<pageVars, written>>

\* An answer that is not 200, as it is when none of its text has arrived.
Failure(status, text) ==
    [state |-> "answered", events |-> xhr.events, status |-> status, text |-> text,
     arrived |-> 0]

\* It answers with another status, and a page that is no frame.
Refuse ==
    /\ Writing
    /\ xhr.text = <<>>
    /\ xhr' = Failure(500, <<Page>>)
    /\ UNCHANGED <<pageVars, written>>

\* The connection breaks: the request ends with status 0 and without a text.
Break ==
    /\ Writing
    /\ xhr' = Failure(0, <<>>)
    /\ UNCHANGED <<pageVars, written>>

-----------------------------------------------------------------------------
(* The end of the transport *)

\* Mutant: the request is not closed.
DidClose_KeepsRequest ==
    /\ transport' = "closed"
    /\ UNCHANGED xhr

\* _didClose as far as it concerns the receiver: Polling.abort,
\* XhrReceiver.abort, close.  A request that utils.delay has still to start
\* cannot be aborted: it is started all the same, with its events off.
DidClose ==
    /\ transport' = "closed"
    /\ xhr' = IF xhr.state = "scheduled" THEN [xhr EXCEPT !.events = "nuked"] ELSE NoRequest

\* SockJS.close, or the timeout of the transport.
Close ==
    /\ transport = "open"
    /\ DidClose
    /\ UNCHANGED <<buf_pos, delivered, throws, written>>

-----------------------------------------------------------------------------
(* Events of the request *)

\* Mutant: the status is not looked at.
Fresh_AnyStatus(arrived) ==
    IF xhr.events = "nuked" THEN <<>> ELSE SubSeq(xhr.text, buf_pos \div 2 + 1, arrived \div 2)

\* The lines that onchunk finds from buf_pos on: none in an answer whose status
\* is not 200, and none when emit is silent.
Fresh(arrived) ==
    IF xhr.status # 200 \/ xhr.events = "nuked" THEN <<>>
    ELSE SubSeq(xhr.text, buf_pos \div 2 + 1, arrived \div 2)

\* Each line is read, then handed on: n of them, that is all, or those up to
\* one whose callback throws.
HandOn(arrived, n) ==
    /\ delivered' = delivered \o SubSeq(Fresh(arrived), 1, n)
    /\ \/ n = Len(Fresh(arrived)) /\ UNCHANGED throws
       \/ /\ n > 0 /\ Fresh(arrived)[n] # CloseFrame
          /\ throws < MaxThrows
          /\ throws' = throws + 1

\* The last of them closes the socket: _didMessage calls _didClose for frame c,
\* _dispatchOpen does for frame o on an open socket.
HandsOnClose(arrived, n) == n > 0 /\ Fresh(arrived)[n] = CloseFrame

\* utils.delay runs _start.
Start ==
    /\ xhr.state = "scheduled"
    /\ xhr' = [xhr EXCEPT !.state = "sent"]
    /\ UNCHANGED <<pageVars, written>>

\* Mutant: the position moves on after the callback.
Chunk_MovesLate ==
    /\ xhr.state \in {"sent", "answered"}
    /\ \E arrived \in xhr.arrived + 1 .. 2 * Len(xhr.text) :
       \E n \in 0 .. Len(Fresh(arrived)) :
           /\ HandOn(arrived, n)
           /\ buf_pos' = buf_pos + 2 * IF throws' = throws THEN n ELSE n - 1
           /\ \/ HandsOnClose(arrived, n) /\ DidClose
              \/ /\ ~HandsOnClose(arrived, n)
                 /\ xhr' = [xhr EXCEPT !.arrived = arrived]
                 /\ UNCHANGED transport
    /\ UNCHANGED written

\* onreadystatechange with state 3: onchunk, with more of the text than before.
Chunk ==
    /\ xhr.state \in {"sent", "answered"}
    /\ \E arrived \in xhr.arrived + 1 .. 2 * Len(xhr.text) :
       \E n \in 0 .. Len(Fresh(arrived)) :
           /\ HandOn(arrived, n)
           /\ buf_pos' = buf_pos + 2 * n
           /\ \/ HandsOnClose(arrived, n) /\ DidClose
              \/ /\ ~HandsOnClose(arrived, n)
                 /\ xhr' = [xhr EXCEPT !.arrived = arrived]
                 /\ UNCHANGED transport
    /\ UNCHANGED written

\* Mutant: the next poll is not scheduled.
Finished_NoPoll ==
    /\ xhr' = NoRequest
    /\ transport' = IF xhr.status = 200 THEN "open" ELSE "closed"
    /\ UNCHANGED buf_pos

\* The event close reaches Polling, which polls again or gives up.
Finished ==
    \/ /\ xhr.status = 200
       /\ xhr' = NewRequest
       /\ buf_pos' = 0
       /\ UNCHANGED transport
    \/ /\ xhr.status # 200
       /\ xhr' = NoRequest
       /\ transport' = "closed"
       /\ UNCHANGED buf_pos

\* Mutant: onfinish does not read what has come since the last chunk.
Finish_SkipsText ==
    /\ xhr.state = "answered"
    /\ \/ xhr.events = "on" /\ Finished
       \/ xhr.events = "nuked" /\ xhr' = NoRequest /\ UNCHANGED <<transport, buf_pos>>
    /\ UNCHANGED <<delivered, throws, written>>

\* onreadystatechange with state 4: onfinish, then _cleanup.  A callback that
\* throws keeps both the event close and _cleanup from happening.
Finish ==
    /\ xhr.state = "answered"
    /\ \E n \in 0 .. Len(Fresh(2 * Len(xhr.text))) :
           /\ HandOn(2 * Len(xhr.text), n)
           /\ \/ /\ throws' # throws
                 /\ xhr' = [xhr EXCEPT !.state = "stuck"]
                 /\ buf_pos' = buf_pos + 2 * n
                 /\ UNCHANGED transport
              \/ /\ throws' = throws
                 /\ HandsOnClose(2 * Len(xhr.text), n)
                 /\ DidClose
                 /\ UNCHANGED buf_pos
              \/ /\ throws' = throws
                 /\ ~HandsOnClose(2 * Len(xhr.text), n)
                 /\ xhr.events = "on"
                 /\ Finished
              \/ /\ xhr.events = "nuked"
                 /\ xhr' = NoRequest
                 /\ UNCHANGED <<transport, buf_pos>>
    /\ UNCHANGED written

-----------------------------------------------------------------------------
ServerStep ==
    (\E f \in Frame : Write(f)) \/ EndResponse \/ Refuse \/ Break

BrowserStep == Start \/ Chunk \/ Finish

Next == ServerStep \/ BrowserStep \/ Close

\* Delayed functions and events of requests happen.  A response that contains a
\* frame ends: the server ends it after a frame, or after so many characters,
\* which its heartbeats alone fill.
Fairness == WF_vars(BrowserStep) /\ WF_vars(EndResponse)

Spec == Init /\ [][Next]_vars
FairSpec == Spec /\ Fairness

-----------------------------------------------------------------------------
(* Properties *)

\* What the proofs rest on: while a response can still be read, the frames
\* handed on are those of earlier responses and those of this one before
\* buf_pos, and the rest of its text is what the server wrote next.
ReadInStep ==
    transport = "open" /\ xhr.status = 200 =>
        /\ xhr.arrived <= 2 * Len(xhr.text)
        /\ buf_pos <= 2 * Len(xhr.text)
        /\ \E k \in 0 .. Len(delivered) :
               /\ buf_pos = 2 * k
               /\ Len(written) + k = Len(delivered) + Len(xhr.text)
               /\ \A i \in 1 .. Len(xhr.text) :
                      xhr.text[i] = written[Len(delivered) - k + i]

\* A closed transport has no request whose events could still be heard, and one
\* that is not closed has a request that is heard.
ClosedIsQuiet ==
    transport = "closed" <=> xhr.state = "none" \/ xhr.events = "nuked"

\* Each frame handed on is the one the server wrote at that place.
HandedOnAsWritten ==
    /\ Len(delivered) <= Len(written)
    /\ \A i \in 1 .. Len(delivered) : delivered[i] = written[i]

IInv == TypeOK /\ ReadInStep /\ ClosedIsQuiet /\ HandedOnAsWritten

\* The receiver is what FrameFeed says: however a response is cut up and
\* whatever throws, each frame is heard once and in order, and none after the
\* close.
Phase ==
    IF transport = "closed" THEN "closed" ELSE IF xhr.state = "stuck" THEN "stuck" ELSE "open"

Feed == INSTANCE FrameFeed WITH sent <- written, heard <- delivered, phase <- Phase

ImplementsFeed == Feed!FeedSpec

\* Unless a callback throws at the end of a response, every frame is heard in
\* the end or the transport is closed.
FramesAreHeard == Feed!FeedFairness

\* The server is not left without a request to answer, whatever responses
\* bring: the transport is given up, or it polls again.
PollingGoesOn ==
    transport = "open" ~> transport = "closed" \/ Writing \/ xhr.state = "stuck"
=============================================================================
