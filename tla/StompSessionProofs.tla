------------------------- MODULE StompSessionProofs -------------------------
(***************************************************************************)
(* Proofs about StompSession, for any number of sessions and lines and any *)
(* limit on the size of pieces: frames arrive whole, sessions have no      *)
(* gaps, and each session is fed as TopicFeed says.                        *)
(*                                                                         *)
(* The argument: the server is always at some piece of some frame that was *)
(* transmitted, has read the pieces before it, and finds the rest on the   *)
(* wire (WireInv), so that it decodes a frame exactly when its last piece  *)
(* comes.  A page follows its script (PageInv), and what is on its way to  *)
(* it is its CONNECTED, or lines each once, and nothing before the server  *)
(* has the subscription (WayInv); from then on each broadcast is added.    *)
(***************************************************************************)
EXTENDS StompSession, StompFramesProofs

\* What the heads and bodies of a session's frames are made of.
Tok == UNION {Range(f.headers) \cup Range(f.body) : f \in Frames}

Token == UNION {Tokens(f, Tok) : f \in Frames}

ParsedFrames == {Parsed(f) : f \in Frames}

-----------------------------------------------------------------------------
(* The frames *)

LEMMA FramesByKind ==
    /\ Connect \in Frames /\ DisconnectFrame \in Frames /\ Connected \in Frames
    /\ Subscribe(0) \in Frames
    /\ \A s \in Sessions : Greeting(s) \in Frames
    /\ \A l \in Line : MessageFrame(0, l) \in Frames
    /\ \A f \in Frames :
           \/ f \in {Connect, DisconnectFrame, Connected, Subscribe(0)}
           \/ \E s \in Sessions : f = Greeting(s)
           \/ \E l \in Line : f = MessageFrame(0, l)
  BY DEF Frames

LEMMA PartsOfFrames ==
    /\ Connect.command = "CONNECT" /\ Connect.body = <<>>
    /\ DisconnectFrame.command = "DISCONNECT" /\ DisconnectFrame.body = <<>>
    /\ Connected.command = "CONNECTED" /\ Connected.body = <<>>
    /\ Subscribe(0).command = "SUBSCRIBE" /\ Subscribe(0).body = <<>>
    /\ Subscribe(0).headers = <<HeaderLine("id", 0), HeaderLine("destination", "/server/list")>>
    /\ \A s : Greeting(s).command = "SEND"
    /\ \A s : Greeting(s).body = <<Char("empty", s, 1)>>
    /\ \A l : MessageFrame(0, l).command = "MESSAGE"
    /\ \A l : MessageFrame(0, l).body = Body(l)
    /\ \A l : MessageFrame(0, l).headers =
                  <<HeaderLine("destination", "/server/list"), HeaderLine("subscription", 0)>>
  BY DEF Connect, DisconnectFrame, Connected, Subscribe, Greeting, MessageFrame, Frame

\* A body tells its line.
LEMMA BodiesDiffer ==
    /\ \A l, m : Body(l) = Body(m) => l = m
    /\ \A l : Body(l) # <<>>
<1>1. \A l : Body(l)[1] = Char("before", l, 1) /\ Len(Body(l)) = 3
  BY DEF Body
<1>2. \A l : Char("before", l, 1).line = l
  BY DEF Char
<1>3. ASSUME NEW l, NEW m, Body(l) = Body(m) PROVE l = m
  BY <1>1, <1>2, <1>3
<1>. QED
  BY <1>1, <1>3

LEMMA OneAndTwo ==
    /\ \A a, b : /\ <<a, b>> \in Seq({a, b}) /\ Len(<<a, b>>) = 2
                 /\ DOMAIN <<a, b>> = {1, 2} /\ <<a, b>>[1] = a /\ <<a, b>>[2] = b
    /\ \A a : /\ <<a>> \in Seq({a}) /\ DOMAIN <<a>> = {1} /\ <<a>>[1] = a
  OBVIOUS

\* What a frame of Frames has to be, for WellFormed.
LEMMA WellFormedFrame ==
    ASSUME NEW f \in Frames, NEW U, f.headers \in Seq(U), NEW V, f.body \in Seq(V),
           \A i \in DOMAIN f.headers :
               f.headers[i].token = "header" /\ f.headers[i].name # "content-length",
           \A i, j \in DOMAIN f.headers :
               f.headers[i].name = f.headers[j].name => i = j,
           \A i \in DOMAIN f.body :
               f.body[i].token = "char" /\ f.body[i].bytes \in Nat \ {0}
    PROVE  WellFormed(f, Tok)
<1>1. Range(f.headers) \cup Range(f.body) \subseteq Tok
  BY DEF Tok
<1>2. \A i \in DOMAIN f.headers : f.headers[i] \in Tok
  BY <1>1 DEF Range
<1>3. \A i \in DOMAIN f.body : f.body[i] \in Tok
  BY <1>1 DEF Range
<1>4. f.headers \in Seq(Tok) /\ f.body \in Seq(Tok)
  BY <1>2, <1>3
<1>. QED
  BY <1>4 DEF WellFormed

LEMMA FramesAreWellFormed ==
    ASSUME NEW f \in Frames
    PROVE  WellFormed(f, Tok)
<1>1. ASSUME NEW a, NEW b, a # b, a # "content-length", b # "content-length",
             NEW v, NEW w, f.headers = <<HeaderLine(a, v), HeaderLine(b, w)>>,
             NEW V, f.body \in Seq(V),
             \A i \in DOMAIN f.body :
                 f.body[i].token = "char" /\ f.body[i].bytes \in Nat \ {0}
      PROVE  WellFormed(f, Tok)
  <2>. DEFINE h == HeaderLine(a, v)
              k == HeaderLine(b, w)
  <2>1. h.token = "header" /\ h.name = a /\ k.token = "header" /\ k.name = b
    BY TokensDiffer
  <2>2. f.headers = <<h, k>>
    BY <1>1
  <2>. HIDE DEF h, k
  <2>3. /\ f.headers \in Seq({h, k}) /\ DOMAIN f.headers = {1, 2}
        /\ f.headers[1] = h /\ f.headers[2] = k
    BY <2>2, OneAndTwo
  <2>. DEFINE U == {h, k}
  <2>4. /\ f.headers \in Seq(U)
        /\ \A i \in DOMAIN f.headers :
               f.headers[i].token = "header" /\ f.headers[i].name # "content-length"
        /\ \A i, j \in DOMAIN f.headers : f.headers[i].name = f.headers[j].name => i = j
    BY <1>1, <2>1, <2>3
  <2>. HIDE DEF U
  <2>. QED
    BY <1>1, <2>4, WellFormedFrame
<1>0. ASSUME f.body = <<>>
      PROVE  f.body \in Seq({}) /\ \A i \in DOMAIN f.body :
                 f.body[i].token = "char" /\ f.body[i].bytes \in Nat \ {0}
  BY <1>0
<1>2. CASE f = Connect
  <2>1. f.headers = <<HeaderLine("accept-version", "1.1,1.0"),
                      HeaderLine("heart-beat", "10000,10000")>> /\ f.body = <<>>
    BY <1>2 DEF Connect, Frame
  <2>. QED
    BY <2>1, <1>0, <1>1
<1>3. CASE f = DisconnectFrame
  <2>1. f.headers = <<>> /\ f.body = <<>>
    BY <1>3 DEF DisconnectFrame, Frame
  <2>2. /\ f.headers \in Seq({}) /\ f.body \in Seq({})
        /\ DOMAIN f.headers = {} /\ DOMAIN f.body = {}
    BY <2>1
  <2>. QED
    BY <2>2, WellFormedFrame
<1>4. CASE f = Connected
  <2>1. f.headers = <<HeaderLine("version", "1.1"), HeaderLine("heart-beat", "0,0")>>
        /\ f.body = <<>>
    BY <1>4 DEF Connected, Frame
  <2>. QED
    BY <2>1, <1>0, <1>1
<1>5. CASE f = Subscribe(0)
  <2>1. f.headers = <<HeaderLine("id", 0), HeaderLine("destination", "/server/list")>>
        /\ f.body = <<>>
    BY <1>5, PartsOfFrames
  <2>. QED
    BY <2>1, <1>0, <1>1
<1>6. ASSUME NEW s \in Sessions, f = Greeting(s) PROVE WellFormed(f, Tok)
  <2>. DEFINE h == HeaderLine("destination", "/eventmonitor/events")
              c == Char("empty", s, 1)
  <2>1. f.headers = <<h>> /\ f.body = <<c>>
    BY <1>6 DEF Greeting, Frame
  <2>2. /\ h.token = "header" /\ h.name # "content-length"
        /\ c.token = "char" /\ c.bytes \in Nat \ {0}
    BY TokensDiffer DEF Char
  <2>. HIDE DEF h, c
  <2>3. /\ f.headers \in Seq({h}) /\ DOMAIN f.headers = {1} /\ f.headers[1] = h
        /\ f.body \in Seq({c}) /\ DOMAIN f.body = {1} /\ f.body[1] = c
    BY <2>1, OneAndTwo
  <2>. QED
    BY <2>2, <2>3, WellFormedFrame
<1>7. ASSUME NEW l \in Line, f = MessageFrame(0, l) PROVE WellFormed(f, Tok)
  <2>. DEFINE c == Char("before", l, 1)
              d == Char("content", l, 2)
              e == Char("after", l, 1)
  <2>1. f.body = <<c, d, e>>
    BY <1>7, PartsOfFrames DEF Body
  <2>2. f.headers = <<HeaderLine("destination", "/server/list"),
                      HeaderLine("subscription", 0)>>
    BY <1>7, PartsOfFrames
  <2>3. /\ c.token = "char" /\ c.bytes \in Nat \ {0}
        /\ d.token = "char" /\ d.bytes \in Nat \ {0}
        /\ e.token = "char" /\ e.bytes \in Nat \ {0}
    BY DEF Char
  <2>. HIDE DEF c, d, e
  <2>4. f.body \in Seq({c, d, e}) /\ \A i \in DOMAIN f.body :
            f.body[i].token = "char" /\ f.body[i].bytes \in Nat \ {0}
    BY <2>1, <2>3
  <2>. QED
    BY <2>2, <2>4, <1>1
<1>. QED
  BY <1>2, <1>3, <1>4, <1>5, <1>6, <1>7, FramesByKind

\* The text of a frame is read as that frame and no other.
LEMMA ReadingOfFrame ==
    ASSUME NEW f \in Frames
    PROVE  /\ Text[f] = Marshall(f) /\ Text[f] \in Seq(Token) /\ Text[f] # <<>>
           /\ Reading[f] = <<Parsed(f)>> /\ Parsed(f) \in ParsedFrames
           /\ Parsed(f).command = f.command /\ Parsed(f).body = f.body
           /\ \A i \in DOMAIN f.headers :
                  Parsed(f).headers[f.headers[i].name] = f.headers[i].value
<1>1. WellFormed(f, Tok)
  BY FramesAreWellFormed
<1>2. Text[f] = Marshall(f) /\ Reading[f] = Unmarshall(Marshall(f))
  BY DEF Text, Reading
<1>3. PICK read : /\ Unmarshall(Marshall(f)) = <<read>>
                  /\ read.command = f.command /\ read.body = f.body
                  /\ \A i \in DOMAIN f.headers :
                         /\ f.headers[i].name \in DOMAIN read.headers
                         /\ read.headers[f.headers[i].name] = f.headers[i].value
  BY <1>1, FramesAreReadBack
<1>4. Reading[f] = <<read>> /\ Parsed(f) = read
  BY <1>2, <1>3 DEF Parsed
<1>5. Marshall(f) \in Seq(Tokens(f, Tok)) /\ Len(Marshall(f)) > 1
  BY <1>1, TextOfFrame, NulIsLast
<1>6. Tokens(f, Tok) \subseteq Token
  BY DEF Token
<1>7. Marshall(f) \in Seq(Token)
  <2>. HIDE DEF Token
  <2>. QED
    BY <1>5, <1>6
<1>8. Marshall(f) # <<>>
  BY <1>5
<1>9. Parsed(f) \in ParsedFrames
  BY DEF ParsedFrames
<1>. QED
  BY <1>2, <1>3, <1>4, <1>7, <1>8, <1>9

\* The headers that the two sides look at.
LEMMA HeadersRead ==
    /\ Parsed(Subscribe(0)).headers["id"] = 0
    /\ \A l \in Line : Parsed(MessageFrame(0, l)).headers["subscription"] = 0
<1>1. /\ 1 \in DOMAIN Subscribe(0).headers
      /\ Subscribe(0).headers[1] = HeaderLine("id", 0)
  BY PartsOfFrames, OneAndTwo
<1>2. Parsed(Subscribe(0)).headers["id"] = 0
  BY <1>1, FramesByKind, ReadingOfFrame, TokensDiffer
<1>3. ASSUME NEW l \in Line
      PROVE  Parsed(MessageFrame(0, l)).headers["subscription"] = 0
  <2>1. /\ 2 \in DOMAIN MessageFrame(0, l).headers
        /\ MessageFrame(0, l).headers[2] = HeaderLine("subscription", 0)
    BY PartsOfFrames, OneAndTwo
  <2>. QED
    BY <2>1, FramesByKind, ReadingOfFrame, TokensDiffer
<1>. QED
  BY <1>2, <1>3

\* Each command is that of one kind of frame.
LEMMA FrameOfCommand ==
    ASSUME NEW f \in Frames
    PROVE  /\ Parsed(f).command = "CONNECT" => f = Connect
           /\ Parsed(f).command = "SUBSCRIBE" => f = Subscribe(0)
           /\ Parsed(f).command = "DISCONNECT" => f = DisconnectFrame
           /\ Parsed(f).command = "CONNECTED" => f = Connected
           /\ Parsed(f).command = "SEND" => \E s \in Sessions : f = Greeting(s)
           /\ Parsed(f).command = "MESSAGE" => \E l \in Line : f = MessageFrame(0, l)
  BY FramesByKind, PartsOfFrames, ReadingOfFrame

LEMMA MessagesDiffer ==
    ASSUME NEW l, NEW m, MessageFrame(0, l) = MessageFrame(0, m)
    PROVE  l = m
  BY PartsOfFrames, BodiesDiffer

\* What the server has of a frame after i of its pieces.
Before(f, i) == FirstPieces(Text[f], FrameSize, i)

\* The pieces of a frame complete its text and, on the way, no frame's.
LEMMA PiecesOfFrame ==
    ASSUME NEW f \in Frames
    PROVE  /\ Cut[f] \in Seq(Seq(Token)) /\ Len(Cut[f]) \in Nat \ {0}
           /\ Before(f, 0) = <<>>
           /\ \A i \in 1 .. Len(Cut[f]) :
                  /\ Len(Cut[f][i]) \in 1 .. FrameSize
                  /\ Before(f, i - 1) \o Cut[f][i]
                       = IF i < Len(Cut[f]) THEN Before(f, i) ELSE Text[f]
           /\ \A i \in 1 .. Len(Cut[f]) : i < Len(Cut[f]) =>
                  /\ Before(f, i) \in Seq(Token)
                  /\ \A g \in Frames : Before(f, i) # Text[g]
<1>. DEFINE q == Len(Cut[f])
<1>1. Cut[f] = Pieces(Text[f], FrameSize)
  BY DEF Cut
<1>2. Text[f] \in Seq(Token) /\ Text[f] # <<>> /\ Text[f] = Marshall(f)
  BY ReadingOfFrame
<1>3. FrameSize \in Nat \ {0}
  BY FrameSizeAssumption
<1>4. /\ q \in Nat \ {0} /\ Cut[f] \in Seq(Seq(Token))
      /\ Before(f, 0) = <<>>
      /\ \A i \in 1 .. q :
             /\ Len(Cut[f][i]) \in 1 .. FrameSize
             /\ Before(f, i - 1) \o Cut[f][i] = IF i < q THEN Before(f, i) ELSE Text[f]
      /\ \A i \in 1 .. q : i < q => i * FrameSize \in 1 .. Len(Text[f]) - 1
  <2>. DEFINE text == Text[f]
              pieces == Pieces(text, FrameSize)
  <2>1. ASSUME NEW S, NEW t \in Seq(S), t # <<>>
        PROVE  /\ Len(Pieces(t, FrameSize)) \in Nat \ {0}
               /\ Pieces(t, FrameSize) \in Seq(Seq(S))
               /\ FirstPieces(t, FrameSize, 0) = <<>>
               /\ \A i \in 1 .. Len(Pieces(t, FrameSize)) :
                      /\ Len(Pieces(t, FrameSize)[i]) \in 1 .. FrameSize
                      /\ FirstPieces(t, FrameSize, i - 1) \o Pieces(t, FrameSize)[i]
                           = IF i < Len(Pieces(t, FrameSize))
                             THEN FirstPieces(t, FrameSize, i) ELSE t
               /\ \A i \in 1 .. Len(Pieces(t, FrameSize)) :
                      i < Len(Pieces(t, FrameSize)) => i * FrameSize \in 1 .. Len(t) - 1
    BY <2>1, <1>3, PiecesAddUp
  <2>. QED
    BY <1>1, <1>2, <2>1 DEF Before
<1>5. ASSUME NEW i \in 1 .. q, i < q
      PROVE  /\ Before(f, i) \in Seq(Token)
             /\ \A g \in Frames : Before(f, i) # Text[g]
  <2>1. PICK n \in 1 .. Len(Text[f]) - 1 : n = i * FrameSize
    BY <1>4, <1>5
  <2>2. Before(f, i) = SubSeq(Text[f], 1, n)
    BY <2>1 DEF Before, FirstPieces
  <2>3. SubSeq(Text[f], 1, n) \in Seq(Token)
    <3>. HIDE DEF Token
    <3>. QED
      BY <1>2
  <2>4. ASSUME NEW g \in Frames PROVE SubSeq(Text[f], 1, n) # Text[g]
    <3>1. WellFormed(f, Tok) /\ WellFormed(g, Tok) /\ Text[g] = Marshall(g)
      BY FramesAreWellFormed, ReadingOfFrame
    <3>2. n \in 1 .. Len(Marshall(f)) - 1
      BY <1>2
    <3>. QED
      BY <1>2, <3>1, <3>2, PartIsNoText
  <2>. QED
    BY <2>2, <2>3, <2>4
<1>. QED
  BY <1>4, <1>5

-----------------------------------------------------------------------------
(* Pieces on their way *)

\* The piece after a piece: the next of its frame, or the first of the next.
After(frames, c) ==
    IF c.piece < Len(Cut[frames[c.frame]])
    THEN [frame |-> c.frame, piece |-> c.piece + 1]
    ELSE [frame |-> c.frame + 1, piece |-> 1]

\* A place is a piece of one of frames, or that of the next one to come.
Places(frames) ==
    {c \in [frame : 1 .. Len(frames) + 1, piece : Nat \ {0}] :
        c.piece <= IF c.frame <= Len(frames) THEN Len(Cut[frames[c.frame]]) ELSE 1}

\* The pieces on a wire are those of frames at the places at[1], at[2], ...,
\* one after the other: what is held was before them, and n frames were before
\* the one that at[1] is of.
Carries(frames, n, held, wire, at) ==
    /\ at \in [1 .. Len(wire) + 1 -> Places(frames)]
    /\ at[1].frame = n + 1
    /\ held = IF at[1].frame <= Len(frames)
              THEN Before(frames[at[1].frame], at[1].piece - 1) ELSE <<>>
    /\ \A i \in 1 .. Len(wire) :
           /\ at[i].frame <= Len(frames)
           /\ wire[i] = Cut[frames[at[i].frame]][at[i].piece]
           /\ at[i + 1] = After(frames, at[i])

\* No piece of them is missing at the end.
Complete(frames, wire, at) == at[Len(wire) + 1] = [frame |-> Len(frames) + 1, piece |-> 1]

\* Nothing is on an unused wire.
LEMMA NothingCarried ==
    \E at : Carries(<<>>, 0, <<>>, <<>>, at) /\ Complete(<<>>, <<>>, at)
<1>. DEFINE c == [frame |-> 1, piece |-> 1]
            at == [i \in 1 .. 1 |-> c]
<1>1. c \in Places(<<>>) /\ Len(<<>>) = 0
  BY DEF Places
<1>2. Carries(<<>>, 0, <<>>, <<>>, at) /\ Complete(<<>>, <<>>, at)
  BY <1>1 DEF Carries, Complete
<1>. QED
  BY <1>2

\* A frame that is transmitted goes behind what is on its way.
LEMMA OneFrameMore ==
    ASSUME NEW frames \in Seq(Frames), NEW n \in Nat, NEW held,
           NEW wire \in Seq(Seq(Token)), NEW at,
           Carries(frames, n, held, wire, at), Complete(frames, wire, at),
           NEW f \in Frames
    PROVE  \E bt : /\ Carries(Append(frames, f), n, held, wire \o Cut[f], bt)
                   /\ Complete(Append(frames, f), wire \o Cut[f], bt)
<1>. DEFINE more == Append(frames, f)
            L == Len(frames)
            m == Len(wire)
            q == Len(Cut[f])
            longer == wire \o Cut[f]
            bt == [i \in 1 .. m + q + 1 |->
                      IF i <= m + 1 THEN at[i]
                      ELSE IF i <= m + q THEN [frame |-> L + 1, piece |-> i - m]
                      ELSE [frame |-> L + 2, piece |-> 1]]
<1>0. q \in Nat \ {0} /\ Cut[f] \in Seq(Seq(Token)) /\ Before(f, 0) = <<>>
  BY PiecesOfFrame
<1>1. /\ L \in Nat /\ m \in Nat /\ q \in Nat \ {0} /\ Cut[f] \in Seq(Seq(Token))
      /\ Before(f, 0) = <<>>
  BY <1>0
<1>2. /\ Len(more) = L + 1 /\ more[L + 1] = f
      /\ \A i \in 1 .. L : more[i] = frames[i]
  OBVIOUS
<1>3. /\ Len(longer) = m + q
      /\ \A i \in 1 .. m : longer[i] = wire[i]
      /\ \A k \in 1 .. q : longer[m + k] = Cut[f][k]
  BY <1>1, Concatenation
<1>4. at \in [1 .. m + 1 -> Places(frames)] /\ at[m + 1] = [frame |-> L + 1, piece |-> 1]
  BY DEF Carries, Complete
<1>5. Places(frames) \subseteq Places(more)
  <2>1. SUFFICES ASSUME NEW c \in Places(frames) PROVE c \in Places(more)
    OBVIOUS
  <2>2. /\ c \in [frame : 1 .. L + 1, piece : Nat \ {0}]
        /\ c.piece <= IF c.frame <= L THEN Len(Cut[frames[c.frame]]) ELSE 1
    BY DEF Places
  <2>3. c \in [frame : 1 .. L + 2, piece : Nat \ {0}]
    BY <1>1, <2>2
  <2>4. c.piece <= IF c.frame <= L + 1 THEN Len(Cut[more[c.frame]]) ELSE 1
    BY <1>1, <1>2, <2>2
  <2>. QED
    BY <1>1, <1>2, <2>3, <2>4 DEF Places
<1>6. /\ \A k \in 1 .. q : [frame |-> L + 1, piece |-> k] \in Places(more)
      /\ [frame |-> L + 2, piece |-> 1] \in Places(more)
  BY <1>1, <1>2 DEF Places
<1>7. bt \in [1 .. Len(longer) + 1 -> Places(more)]
  BY <1>1, <1>3, <1>4, <1>5, <1>6
<1>8. bt[1] = at[1]
  <2>. HIDE DEF longer, more, L, m, q
  <2>. QED
    BY <1>1
<1>9. held = IF bt[1].frame <= Len(more)
             THEN Before(more[bt[1].frame], bt[1].piece - 1) ELSE <<>>
  <2>1. at[1] \in Places(frames)
    <3>. HIDE DEF bt, longer, more, L, m, q
    <3>1. 1 \in 1 .. m + 1
      BY <1>1
    <3>. QED
      BY <1>4, <3>1
  <2>2. at[1].frame \in 1 .. L + 1 /\ (at[1].frame = L + 1 => at[1].piece = 1)
    <3>. HIDE DEF bt, longer, more, m, q
    <3>. QED
      BY <1>1, <2>1 DEF Places
  <2>3. /\ at[1].frame = L + 1 => Before(more[at[1].frame], at[1].piece - 1) = <<>>
        /\ at[1].frame <= L => more[at[1].frame] = frames[at[1].frame]
    <3>. HIDE DEF bt, longer, more, m, q
    <3>. QED
      BY <1>1, <1>2, <2>2
  <2>. HIDE DEF bt, longer, more, m, q
  <2>. QED
    BY <1>1, <1>2, <1>8, <2>2, <2>3 DEF Carries
<1>10. /\ \A i \in 1 .. m + 1 : bt[i] = at[i]
       /\ \A k \in 1 .. q : bt[m + k] = [frame |-> L + 1, piece |-> k]
       /\ bt[m + q + 1] = [frame |-> L + 2, piece |-> 1]
  <2>1. ASSUME NEW k \in 1 .. q PROVE bt[m + k] = [frame |-> L + 1, piece |-> k]
    <3>. HIDE DEF longer, more, L, m, q
    <3>1. CASE k = 1
      BY <1>1, <1>4, <3>1
    <3>2. CASE k > 1
      <4>1. m + k \in 1 .. m + q + 1 /\ ~(m + k <= m + 1) /\ m + k <= m + q
            /\ (m + k) - m = k
        BY <1>1, <3>2
      <4>. QED
        BY <4>1
    <3>. QED
      BY <1>1, <3>1, <3>2
  <2>. HIDE DEF longer, more, L, m, q
  <2>2. \A i \in 1 .. m + 1 : bt[i] = at[i]
    BY <1>1
  <2>3. /\ m + q + 1 \in 1 .. m + q + 1
        /\ ~(m + q + 1 <= m + 1) /\ ~(m + q + 1 <= m + q)
    BY <1>1
  <2>4. bt[m + q + 1] = [frame |-> L + 2, piece |-> 1]
    BY <2>3
  <2>. QED
    BY <2>1, <2>2, <2>4
<1>. HIDE DEF bt, longer, more, L, m, q
<1>11. ASSUME NEW i \in 1 .. m
       PROVE  /\ bt[i].frame <= L + 1
              /\ longer[i] = Cut[more[bt[i].frame]][bt[i].piece]
              /\ bt[i + 1] = After(more, bt[i])
  <2>1. i \in 1 .. m + 1 /\ i + 1 \in 1 .. m + 1
    BY <1>1
  <2>2. at[i].frame \in 1 .. L
    <3>1. at[i].frame <= L
      BY DEF Carries, L, m
    <3>2. at[i] \in Places(frames)
      BY <1>4, <2>1
    <3>3. at[i].frame \in 1 .. L + 1
      BY <3>2 DEF Places, L
    <3>. QED
      BY <1>1, <3>1, <3>3
  <2>3. /\ wire[i] = Cut[frames[at[i].frame]][at[i].piece]
        /\ at[i + 1] = After(frames, at[i])
    BY DEF Carries, m
  <2>4. bt[i] = at[i] /\ bt[i + 1] = at[i + 1] /\ longer[i] = wire[i]
    BY <1>3, <1>10, <2>1
  <2>5. more[at[i].frame] = frames[at[i].frame] /\ at[i].frame <= L + 1
    BY <1>1, <1>2, <2>2
  <2>. QED
    BY <2>3, <2>4, <2>5 DEF After
<1>12. ASSUME NEW k \in 1 .. q
       PROVE  /\ bt[m + k].frame <= L + 1
              /\ longer[m + k] = Cut[more[bt[m + k].frame]][bt[m + k].piece]
              /\ bt[(m + k) + 1] = After(more, bt[m + k])
  <2>1. bt[m + k] = [frame |-> L + 1, piece |-> k] /\ more[L + 1] = f /\ L + 1 <= L + 1
    BY <1>1, <1>2, <1>10
  <2>2. CASE k < q
    <3>1. k + 1 \in 1 .. q /\ (m + k) + 1 = m + (k + 1)
      BY <1>1, <2>2
    <3>2. bt[(m + k) + 1] = [frame |-> L + 1, piece |-> k + 1]
      BY <1>10, <3>1
    <3>3. After(more, bt[m + k]) = [frame |-> L + 1, piece |-> k + 1]
      BY <2>1, <2>2 DEF After, q
    <3>4. longer[m + k] = Cut[more[bt[m + k].frame]][bt[m + k].piece]
      BY <1>3, <2>1
    <3>. QED
      BY <2>1, <3>2, <3>3, <3>4
  <2>3. CASE k = q
    <3>1. bt[(m + k) + 1] = [frame |-> (L + 1) + 1, piece |-> 1]
      BY <1>1, <1>10, <2>3
    <3>2. After(more, bt[m + k]) = [frame |-> (L + 1) + 1, piece |-> 1]
      BY <1>1, <2>1, <2>3 DEF After, q
    <3>3. longer[m + k] = Cut[more[bt[m + k].frame]][bt[m + k].piece]
      BY <1>3, <2>1
    <3>. QED
      BY <2>1, <3>1, <3>2, <3>3
  <2>. QED
    BY <1>1, <2>2, <2>3
<1>13. ASSUME NEW i \in 1 .. m + q
       PROVE  /\ bt[i].frame <= L + 1
              /\ longer[i] = Cut[more[bt[i].frame]][bt[i].piece]
              /\ bt[i + 1] = After(more, bt[i])
  <2>1. CASE i <= m
    BY <1>1, <1>11, <2>1
  <2>2. CASE i > m
    <3>1. i - m \in 1 .. q /\ m + (i - m) = i
      BY <1>1, <2>2
    <3>. QED
      BY <1>12, <3>1
  <2>. QED
    BY <1>1, <2>1, <2>2
<1>14. bt[1].frame = n + 1
  BY <1>8 DEF Carries
<1>15. Carries(more, n, held, longer, bt)
  BY <1>2, <1>3, <1>7, <1>9, <1>13, <1>14 DEF Carries
<1>16. Complete(more, longer, bt)
  BY <1>1, <1>2, <1>3, <1>10 DEF Complete
<1>. QED
  BY <1>15, <1>16 DEF more, longer

\* What remains on a wire that breaks.
LEMMA WireIsCut ==
    ASSUME NEW frames \in Seq(Frames), NEW n \in Nat, NEW held,
           NEW wire \in Seq(Seq(Token)), NEW at, Carries(frames, n, held, wire, at),
           NEW k \in 0 .. Len(wire)
    PROVE  \E bt : Carries(frames, n, held, SubSeq(wire, 1, k), bt)
<1>. DEFINE bt == [i \in 1 .. k + 1 |-> at[i]]
            rest == SubSeq(wire, 1, k)
<1>1. Len(wire) \in Nat /\ k \in Nat /\ k <= Len(wire)
  OBVIOUS
<1>2. Len(rest) = k /\ \A i \in 1 .. k : rest[i] = wire[i]
  BY <1>1
<1>3. /\ at \in [1 .. Len(wire) + 1 -> Places(frames)]
      /\ at[1].frame = n + 1
      /\ held = IF at[1].frame <= Len(frames)
                THEN Before(frames[at[1].frame], at[1].piece - 1) ELSE <<>>
      /\ \A i \in 1 .. Len(wire) :
             /\ at[i].frame <= Len(frames)
             /\ wire[i] = Cut[frames[at[i].frame]][at[i].piece]
             /\ at[i + 1] = After(frames, at[i])
  BY DEF Carries
<1>4. bt \in [1 .. k + 1 -> Places(frames)] /\ bt[1] = at[1]
      /\ \A i \in 1 .. k : bt[i] = at[i] /\ bt[i + 1] = at[i + 1]
  <2>1. \A i \in 1 .. k + 1 : i \in 1 .. Len(wire) + 1
    BY <1>1
  <2>2. /\ 1 \in 1 .. k + 1
        /\ \A i \in 1 .. k : i \in 1 .. k + 1 /\ i + 1 \in 1 .. k + 1
    BY <1>1
  <2>3. \A i \in 1 .. k + 1 : at[i] \in Places(frames)
    BY <1>3, <2>1
  <2>. QED
    BY <2>2, <2>3
<1>5. \A i \in 1 .. k : i \in 1 .. Len(wire)
  BY <1>1
<1>. HIDE DEF bt, rest
<1>6. Carries(frames, n, held, rest, bt)
  BY <1>2, <1>3, <1>4, <1>5 DEF Carries
<1>. QED
  BY <1>6 DEF rest

\* A text that is not, or not yet, that of a frame.
NoFrames(text) == \A g \in Frames : Text[g] # text

\* The wire at places at goes on, without its first piece.
GoesOn(frames, n, held, wire, at) ==
    \E bt : /\ Carries(frames, n, held, Tail(wire), bt)
            /\ Complete(frames, wire, at) => Complete(frames, Tail(wire), bt)

\* What the first piece on a wire does to the text held: it lengthens it, or
\* completes that of the next frame.
LEMMA PieceArrives ==
    ASSUME NEW frames \in Seq(Frames), NEW n \in Nat, NEW held \in Seq(Token),
           NEW wire \in Seq(Seq(Token)), wire # <<>>, NEW at,
           Carries(frames, n, held, wire, at),
           NEW text, text = held \o Head(wire)
    PROVE  /\ n + 1 \in 1 .. Len(frames)
           /\ \/ /\ text \in Seq(Token) /\ NoFrames(text)
                 /\ GoesOn(frames, n, text, wire, at)
              \/ /\ Text[frames[n + 1]] = text
                 /\ GoesOn(frames, n + 1, <<>>, wire, at)
<1>. DEFINE L == Len(frames)
            m == Len(wire)
            rest == Tail(wire)
            c == at[1]
            f == frames[n + 1]
            q == Len(Cut[f])
            bt == [i \in 1 .. (m - 1) + 1 |-> at[i + 1]]
<1>1. L \in Nat /\ m \in Nat \ {0} /\ Head(wire) = wire[1]
  OBVIOUS
<1>2. /\ rest \in Seq(Seq(Token)) /\ Len(rest) = m - 1
      /\ \A i \in 1 .. m - 1 : rest[i] = wire[i + 1]
  OBVIOUS
<1>3. /\ at \in [1 .. m + 1 -> Places(frames)]
      /\ c.frame = n + 1
      /\ held = IF c.frame <= L THEN Before(frames[c.frame], c.piece - 1) ELSE <<>>
      /\ \A i \in 1 .. m :
             /\ at[i].frame <= L
             /\ wire[i] = Cut[frames[at[i].frame]][at[i].piece]
             /\ at[i + 1] = After(frames, at[i])
  BY DEF Carries
<1>4. /\ n + 1 \in 1 .. L /\ c.frame = n + 1
      /\ held = Before(f, c.piece - 1)
      /\ wire[1] = Cut[f][c.piece]
      /\ at[2] = After(frames, c)
  <2>. HIDE DEF L, m
  <2>1. 1 \in 1 .. m /\ 1 + 1 = 2
    BY <1>1
  <2>2. c.frame <= L /\ c.frame = n + 1
    BY <1>3, <2>1
  <2>3. held = Before(frames[c.frame], c.piece - 1)
    BY <1>3, <2>2
  <2>. QED
    BY <1>1, <1>3, <2>1, <2>2, <2>3
<1>5. c \in Places(frames) /\ at[2] \in Places(frames)
  <2>. HIDE DEF m
  <2>1. 1 \in 1 .. m + 1 /\ 2 \in 1 .. m + 1
    BY <1>1
  <2>. QED
    BY <1>3, <2>1
<1>. HIDE DEF L, m, rest, c
<1>6. f \in Frames
  BY <1>4 DEF L
<1>. HIDE DEF f
<1>7. c.piece \in 1 .. q /\ c = [frame |-> n + 1, piece |-> c.piece]
  <2>1. c \in [frame : 1 .. L + 1, piece : Nat \ {0}]
    BY <1>5 DEF Places, L
  <2>2. c.piece <= q
    BY <1>4, <1>5 DEF Places, L, f
  <2>3. q \in Nat
    BY <1>6, PiecesOfFrame
  <2>. QED
    BY <1>4, <2>1, <2>2, <2>3
<1>8. /\ text = IF c.piece < q THEN Before(f, c.piece) ELSE Text[f]
      /\ c.piece < q => /\ Before(f, c.piece) \in Seq(Token)
                        /\ \A g \in Frames : Before(f, c.piece) # Text[g]
      /\ \A g \in Frames : Before(g, 0) = <<>>
  <2>1. text = Before(f, c.piece - 1) \o Cut[f][c.piece]
    BY <1>1, <1>4
  <2>2. PICK k \in 1 .. q : k = c.piece
    BY <1>7
  <2>3. /\ Before(f, k - 1) \o Cut[f][k] = IF k < q THEN Before(f, k) ELSE Text[f]
        /\ k < q => /\ Before(f, k) \in Seq(Token)
                    /\ \A g \in Frames : Before(f, k) # Text[g]
    BY <1>6, PiecesOfFrame
  <2>4. \A g \in Frames : Before(g, 0) = <<>>
    BY PiecesOfFrame
  <2>. QED
    BY <2>1, <2>2, <2>3, <2>4
<1>9. /\ bt \in [1 .. (m - 1) + 1 -> Places(frames)]
      /\ \A i \in 1 .. m : bt[i] = at[i + 1]
  BY <1>1, <1>3
<1>. HIDE DEF bt
<1>10. \A i \in 1 .. m - 1 :
          /\ bt[i].frame <= L
          /\ rest[i] = Cut[frames[bt[i].frame]][bt[i].piece]
          /\ bt[i + 1] = After(frames, bt[i])
  <2>1. SUFFICES ASSUME NEW i \in 1 .. m - 1
                 PROVE  /\ bt[i].frame <= L
                        /\ rest[i] = Cut[frames[bt[i].frame]][bt[i].piece]
                        /\ bt[i + 1] = After(frames, bt[i])
    OBVIOUS
  <2>2. i \in 1 .. m /\ i + 1 \in 1 .. m
    BY <1>1
  <2>. QED
    BY <1>2, <1>3, <1>9, <2>2
<1>11. bt[1] = at[2] /\ bt[1] = After(frames, c)
  <2>1. 1 \in 1 .. m /\ 1 + 1 = 2
    BY <1>1
  <2>. QED
    BY <1>4, <1>9, <2>1
<1>12. Complete(frames, wire, at) => Complete(frames, rest, bt)
  <2>1. m \in 1 .. m /\ (m - 1) + 1 = m
    BY <1>1
  <2>. QED
    BY <1>2, <1>9, <2>1 DEF Complete, m
<1>13. CASE c.piece < q
  <2>1. bt[1] = [frame |-> n + 1, piece |-> c.piece + 1]
    BY <1>4, <1>7, <1>11, <1>13 DEF After, f
  <2>2. text = Before(f, (c.piece + 1) - 1) /\ text \in Seq(Token)
        /\ \A g \in Frames : Text[g] # text
    <3>1. (c.piece + 1) - 1 = c.piece
      BY <1>7
    <3>2. text = Before(f, c.piece)
      BY <1>8, <1>13
    <3>. QED
      BY <1>8, <1>13, <3>1, <3>2
  <2>3. text = IF bt[1].frame <= L
               THEN Before(frames[bt[1].frame], bt[1].piece - 1) ELSE <<>>
    <3>1. bt[1].frame = n + 1 /\ bt[1].piece = c.piece + 1 /\ n + 1 <= L
      BY <1>4, <2>1
    <3>. QED
      BY <2>2, <3>1 DEF f
  <2>4. Carries(frames, n, text, rest, bt)
    <3>1. bt[1].frame = n + 1
      BY <2>1
    <3>. QED
      BY <1>2, <1>9, <1>10, <2>3, <3>1 DEF Carries, L
  <2>. QED
    BY <1>4, <1>12, <2>2, <2>4 DEF L, rest, GoesOn, NoFrames
<1>14. CASE ~(c.piece < q)
  <2>1. bt[1] = [frame |-> (n + 1) + 1, piece |-> 1]
    BY <1>4, <1>7, <1>11, <1>14 DEF After, f
  <2>2. text = Text[f]
    BY <1>8, <1>14
  <2>3. <<>> = IF bt[1].frame <= L THEN Before(frames[bt[1].frame], bt[1].piece - 1)
               ELSE <<>>
    <3>1. \A g \in Frames : Before(g, 1 - 1) = <<>>
      BY <1>8
    <3>2. (n + 1) + 1 <= L => frames[(n + 1) + 1] \in Frames
      BY <1>1 DEF L
    <3>. QED
      BY <2>1, <3>1, <3>2
  <2>4. Carries(frames, n + 1, <<>>, rest, bt)
    <3>1. bt[1].frame = (n + 1) + 1
      BY <2>1
    <3>. QED
      BY <1>2, <1>9, <1>10, <2>3, <3>1 DEF Carries, L
  <2>. QED
    BY <1>4, <1>12, <2>2, <2>4 DEF L, rest, f, GoesOn
<1>. QED
  BY <1>13, <1>14

\* Transmit puts the pieces of one frame, or of two, behind each other.
LEMMA FlattenFew ==
    ASSUME NEW seqs, Len(seqs) \in Nat \ {0}
    PROVE  /\ Len(seqs) = 1 => FlattenSeq(seqs) = seqs[1]
           /\ Len(seqs) = 2 => FlattenSeq(seqs) = seqs[1] \o seqs[2]
<1>. DEFINE n == Len(seqs)
            Eq(g) == g = [i \in 1 .. n |-> IF i = 1 THEN seqs[i] ELSE g[i - 1] \o seqs[i]]
            w == [i \in 1 .. n |-> IF i = 1 THEN seqs[1] ELSE seqs[1] \o seqs[2]]
            h == CHOOSE g : Eq(g)
<1>1. FlattenSeq(seqs) = h[n]
  BY DEF FlattenSeq
<1>. HIDE DEF n
<1>2. ASSUME n \in {1, 2} PROVE Eq(w)
  <2>1. \A i \in 1 .. n : i = 1 \/ (i = 2 /\ i - 1 \in 1 .. n /\ i - 1 = 1)
    BY <1>2
  <2>2. ASSUME NEW i \in 1 .. n
        PROVE  w[i] = IF i = 1 THEN seqs[i] ELSE w[i - 1] \o seqs[i]
    <3>1. CASE i = 1
      BY <3>1
    <3>2. CASE i = 2 /\ i - 1 \in 1 .. n /\ i - 1 = 1
      BY <3>2
    <3>. QED
      BY <2>1, <3>1, <3>2
  <2>3. w = [i \in 1 .. n |-> w[i]]
    OBVIOUS
  <2>. HIDE DEF w
  <2>. QED
    BY <2>2, <2>3
<1>3. ASSUME n \in {1, 2} PROVE Eq(h)
  <2>. HIDE DEF Eq
  <2>. QED
    BY <1>2, <1>3
<1>. HIDE DEF h
<1>4. ASSUME n \in {1, 2} PROVE h[1] = seqs[1]
  <2>1. 1 \in 1 .. n
    BY <1>4
  <2>. QED
    BY <1>3, <1>4, <2>1
<1>5. ASSUME n = 2 PROVE h[2] = h[1] \o seqs[2]
  <2>1. 2 \in 1 .. n /\ 2 - 1 = 1
    BY <1>5
  <2>. QED
    BY <1>3, <1>5, <2>1
<1>. QED
  BY <1>1, <1>4, <1>5 DEF n

LEMMA PiecesTransmitted ==
    ASSUME NEW f, NEW g
    PROVE  /\ FlattenSeq([i \in DOMAIN <<f>> |-> Cut[<<f>>[i]]]) = Cut[f]
           /\ FlattenSeq([i \in DOMAIN <<f, g>> |-> Cut[<<f, g>>[i]]]) = Cut[f] \o Cut[g]
<1>. DEFINE one == [i \in DOMAIN <<f>> |-> Cut[<<f>>[i]]]
            two == [i \in DOMAIN <<f, g>> |-> Cut[<<f, g>>[i]]]
<1>1. Len(one) = 1 /\ one[1] = Cut[f]
  BY OneAndTwo
<1>2. Len(two) = 2 /\ two[1] = Cut[f] /\ two[2] = Cut[g]
  BY OneAndTwo
<1>. HIDE DEF one, two
<1>3. FlattenSeq(one) = one[1]
  <2>1. Len(one) \in Nat \ {0}
    BY <1>1
  <2>. QED
    BY <1>1, <2>1, FlattenFew
<1>4. FlattenSeq(two) = two[1] \o two[2]
  <2>1. Len(two) \in Nat \ {0}
    BY <1>2
  <2>. QED
    BY <1>2, <2>1, FlattenFew
<1>. QED
  BY <1>1, <1>2, <1>3, <1>4 DEF one, two

-----------------------------------------------------------------------------
(* The inductive invariant *)

Shape ==
    /\ link \in [Sessions -> Link]
    /\ connected \in [Sessions -> BOOLEAN]
    /\ counter \in [Sessions -> {0, 1}]
    /\ subscriptions \in [Sessions -> SUBSET Nat]
    /\ response \in [Sessions -> Seq(Line)]
    /\ transmitted \in [Sessions -> Seq(Frames)]
    /\ toServer \in [Sessions -> Seq(Seq(Token))]
    /\ decoder \in [Sessions -> Seq(Token)]
    /\ received \in [Sessions -> Seq(ParsedFrames)]
    /\ inbound \in [Sessions -> SUBSET ParsedFrames]
    /\ registered \in [Sessions -> SUBSET {0}]
    /\ outbound \in [Sessions -> SUBSET Frames]
    /\ toClient \in [Sessions -> Seq(Frames)]
    /\ topic \in Seq(Line)

\* What the page transmits as long as it is connected.
Script(s) ==
    IF counter[s] = 0 THEN <<Connect>> ELSE <<Connect, Subscribe(0), Greeting(s)>>

PageInv(s) ==
    /\ subscriptions[s] = IF counter[s] = 0 THEN {} ELSE {0}
    /\ link[s] = "none" => transmitted[s] = <<>> /\ counter[s] = 0
    /\ link[s] = "open" => transmitted[s] = Script(s)
    /\ link[s] \in {"closed", "ended"} =>
           transmitted[s] \in {Script(s), Append(Script(s), DisconnectFrame)}

\* Pieces lost with a connection are at the end, and what is held or on its
\* way is what the server has not decoded.
WireInv(s) ==
    /\ link[s] = "ended" => toServer[s] = <<>>
    /\ link[s] # "ended" =>
           \E at : /\ Carries(transmitted[s], Len(received[s]), decoder[s], toServer[s], at)
                   /\ link[s] \in {"none", "open"} => Complete(transmitted[s], toServer[s], at)

Reads(frames, sent) ==
    /\ Len(frames) <= Len(sent)
    /\ \A i \in 1 .. Len(frames) : frames[i] = Parsed(sent[i])

ReceivedInv(s) == Reads(received[s], transmitted[s])

Handled(s) == Range(received[s]) \ inbound[s]

\* Nothing is handled twice: what is broadcast was handled.
ServerInv(s) ==
    /\ inbound[s] \subseteq Range(received[s])
           \cup (IF link[s] = "ended" THEN {Parsed(DisconnectFrame)} ELSE {})
    /\ registered[s] # {} => counter[s] = 1
    /\ s \in Range(topic) => Parsed(Greeting(s)) \in Handled(s)

\* On their way to the page: one CONNECTED, before anything else, and each line
\* written since the subscription once.
Way(s) == outbound[s] \cup Range(toClient[s])

WayInv(s) ==
    /\ link[s] # "open" => outbound[s] = {} /\ toClient[s] = <<>>
    /\ \A f \in Way(s) : f = Connected \/ \E l \in Range(topic) : f = MessageFrame(0, l)
    /\ \A i, j \in DOMAIN toClient[s] : toClient[s][i] = toClient[s][j] => i = j
    /\ outbound[s] \cap Range(toClient[s]) = {}
    /\ Connected \in Way(s) => counter[s] = 0
    /\ link[s] = "open" /\ (Connected \in Way(s) \/ counter[s] = 1) =>
           Parsed(Connect) \in Handled(s)
    /\ link[s] \in {"none", "open"} /\ registered[s] = {} =>
           Way(s) \subseteq {Connected} /\ response[s] = <<>>

Due(s) == Range(response[s]) \cup OnTheWay(s)

GapInv(s) ==
    link[s] = "open" =>
        \A i, j \in DOMAIN topic : i < j /\ topic[i] \in Due(s) => topic[j] \in Due(s)

SessionInv(s) ==
    PageInv(s) /\ WireInv(s) /\ ReceivedInv(s) /\ ServerInv(s) /\ WayInv(s) /\ GapInv(s)

Inv == Shape /\ \A s \in Sessions : SessionInv(s)

-----------------------------------------------------------------------------
(* Sequences *)

LEMMA RangeOfAppend ==
    ASSUME NEW S, NEW q \in Seq(S), NEW x \in S
    PROVE  /\ Append(q, x) \in Seq(S) /\ Range(Append(q, x)) = Range(q) \cup {x}
           /\ \A i \in DOMAIN q : i \in DOMAIN Append(q, x) /\ Append(q, x)[i] = q[i]
           /\ DOMAIN Append(q, x) = DOMAIN q \cup {Len(q) + 1}
           /\ Append(q, x)[Len(q) + 1] = x
<1>1. /\ Append(q, x) \in Seq(S) /\ DOMAIN Append(q, x) = 1 .. Len(q) + 1
      /\ DOMAIN q = 1 .. Len(q) /\ Len(q) \in Nat
      /\ Append(q, x)[Len(q) + 1] = x
      /\ \A i \in 1 .. Len(q) : Append(q, x)[i] = q[i]
  OBVIOUS
<1>2. 1 .. Len(q) + 1 = 1 .. Len(q) \cup {Len(q) + 1}
  BY <1>1
<1>3. Range(Append(q, x)) = Range(q) \cup {x}
  BY <1>1, <1>2 DEF Range
<1>. QED
  BY <1>1, <1>2, <1>3

LEMMA TailOfDistinct ==
    ASSUME NEW S, NEW q \in Seq(S), q # <<>>,
           \A i, j \in DOMAIN q : q[i] = q[j] => i = j
    PROVE  /\ Head(q) \in Range(q) /\ Head(q) \in S /\ Tail(q) \in Seq(S)
           /\ Range(Tail(q)) = Range(q) \ {Head(q)}
           /\ \A i, j \in DOMAIN Tail(q) : Tail(q)[i] = Tail(q)[j] => i = j
<1>1. /\ Len(q) \in Nat \ {0} /\ DOMAIN q = 1 .. Len(q) /\ Head(q) = q[1]
      /\ Tail(q) \in Seq(S) /\ DOMAIN Tail(q) = 1 .. Len(q) - 1
      /\ \A i \in 1 .. Len(q) - 1 : Tail(q)[i] = q[i + 1]
  OBVIOUS
<1>2. 1 \in 1 .. Len(q) /\ \A i \in 1 .. Len(q) - 1 : i + 1 \in 1 .. Len(q) /\ i + 1 # 1
  BY <1>1
<1>3. \A i \in 1 .. Len(q) : i # 1 => i - 1 \in 1 .. Len(q) - 1 /\ (i - 1) + 1 = i
  BY <1>1
<1>4. Head(q) \in Range(q) /\ Head(q) \in S
  BY <1>1, <1>2 DEF Range
<1>5. ASSUME NEW i \in DOMAIN Tail(q)
      PROVE  Tail(q)[i] \in Range(q) /\ Tail(q)[i] # Head(q)
  BY <1>1, <1>2 DEF Range
<1>6. ASSUME NEW x \in Range(q), x # Head(q) PROVE x \in Range(Tail(q))
  <2>1. PICK i \in 1 .. Len(q) : x = q[i]
    BY <1>1 DEF Range
  <2>2. i - 1 \in 1 .. Len(q) - 1 /\ (i - 1) + 1 = i
    BY <1>1, <1>3, <1>6, <2>1
  <2>3. Tail(q)[i - 1] = x /\ i - 1 \in DOMAIN Tail(q)
    BY <1>1, <2>1, <2>2
  <2>. QED
    BY <2>3 DEF Range
<1>7. Range(Tail(q)) = Range(q) \ {Head(q)}
  BY <1>5, <1>6 DEF Range
<1>8. ASSUME NEW i \in DOMAIN Tail(q), NEW j \in DOMAIN Tail(q), Tail(q)[i] = Tail(q)[j]
      PROVE  i = j
  <2>1. q[i + 1] = q[j + 1] /\ i + 1 \in DOMAIN q /\ j + 1 \in DOMAIN q
    BY <1>1, <1>2, <1>8
  <2>2. i + 1 = j + 1
    BY <2>1
  <2>. QED
    BY <1>1, <2>2
<1>. QED
  BY <1>1, <1>4, <1>7, <1>8

LEMMA FewAppended ==
    ASSUME NEW a, NEW b, NEW c, NEW d
    PROVE  /\ Append(<<a>>, d) = <<a, d>> /\ Append(<<a, b, c>>, d) = <<a, b, c, d>>
           /\ Append(Append(<<a>>, b), c) = <<a, b, c>>
<1>. DEFINE U == {a, b, c, d}
            four == Append(<<a, b, c>>, d)
            two == Append(<<a>>, d)
            three == Append(Append(<<a>>, b), c)
<1>1. /\ <<a, b, c>> \in Seq(U) /\ Len(<<a, b, c>>) = 3 /\ <<a>> \in Seq(U)
      /\ <<a, b>> \in Seq(U) /\ Len(<<a, b>>) = 2
      /\ b \in U /\ c \in U /\ d \in U
  OBVIOUS
<1>2. /\ four \in Seq(U) /\ DOMAIN four = 1 .. 4
      /\ four[1] = a /\ four[2] = b /\ four[3] = c /\ four[4] = d
  BY <1>1
<1>3. two \in Seq(U) /\ DOMAIN two = 1 .. 2 /\ two[1] = a /\ two[2] = d
  BY <1>1
<1>4. /\ three \in Seq(U) /\ DOMAIN three = 1 .. 3
      /\ three[1] = a /\ three[2] = b /\ three[3] = c
  BY <1>1
<1>. HIDE DEF two, three, four
<1>5. two = <<a, d>>
  BY <1>3
<1>6. four = <<a, b, c, d>>
  BY <1>2
<1>7. three = <<a, b, c>>
  BY <1>4
<1>. QED
  BY <1>5, <1>6, <1>7 DEF two, three, four

-----------------------------------------------------------------------------
(* What the invariant says of the frames at hand *)

\* The frames of a page are all different, and sent in their time.
LEMMA FramesOfPage ==
    ASSUME Shape, NEW s \in Sessions, PageInv(s)
    PROVE  /\ \A i, j \in DOMAIN transmitted[s] :
                  Parsed(transmitted[s][i]) = Parsed(transmitted[s][j]) => i = j
           /\ Range(transmitted[s]) \subseteq
                  {Connect, Subscribe(0), Greeting(s), DisconnectFrame}
           /\ Subscribe(0) \in Range(transmitted[s]) => counter[s] = 1
           /\ DisconnectFrame \in Range(transmitted[s]) => link[s] \in {"closed", "ended"}
<1>. DEFINE a == Connect
            b == Subscribe(0)
            c == Greeting(s)
            d == DisconnectFrame
            sent == transmitted[s]
<1>1. /\ Parsed(a).command = "CONNECT" /\ Parsed(b).command = "SUBSCRIBE"
      /\ Parsed(c).command = "SEND" /\ Parsed(d).command = "DISCONNECT"
  BY FramesByKind, PartsOfFrames, ReadingOfFrame
<1>2. /\ a.command = "CONNECT" /\ b.command = "SUBSCRIBE"
      /\ c.command = "SEND" /\ d.command = "DISCONNECT"
  BY PartsOfFrames
<1>3. sent \in {<<>>, <<a>>, <<a, b, c>>, Append(<<a>>, d), Append(<<a, b, c>>, d)}
  BY DEF PageInv, Script, Shape, Link
<1>4. /\ counter[s] = 0 => sent \in {<<>>, <<a>>, Append(<<a>>, d)}
      /\ link[s] \notin {"closed", "ended"} => sent \in {<<>>, <<a>>, <<a, b, c>>}
  BY DEF PageInv, Script, Shape, Link
<1>5. counter[s] \in {0, 1}
  BY DEF Shape
<1>. HIDE DEF a, b, c, d, sent
<1>6. Append(<<a>>, d) = <<a, d>> /\ Append(<<a, b, c>>, d) = <<a, b, c, d>>
  BY FewAppended
<1>7. \A i, j \in DOMAIN sent : Parsed(sent[i]) = Parsed(sent[j]) => i = j
  BY <1>1, <1>3, <1>6
<1>8. Range(sent) \subseteq {a, b, c, d}
  BY <1>3, <1>6 DEF Range
<1>9. b \in Range(sent) => counter[s] = 1
  BY <1>2, <1>4, <1>5, <1>6 DEF Range
<1>10. d \in Range(sent) => link[s] \in {"closed", "ended"}
  BY <1>2, <1>4, <1>6 DEF Range
<1>. QED
  BY <1>7, <1>8, <1>9, <1>10 DEF a, b, c, d, sent

\* What a task of the inbound executor is about.
LEMMA FrameAtHand ==
    ASSUME Shape, NEW s \in Sessions, SessionInv(s), NEW frame \in inbound[s]
    PROVE  /\ frame.command = "CONNECT" => frame = Parsed(Connect)
           /\ frame.command = "SUBSCRIBE" =>
                  frame = Parsed(Subscribe(0)) /\ frame.headers["id"] = 0 /\ counter[s] = 1
           /\ frame.command = "SEND" => frame = Parsed(Greeting(s))
           /\ frame.command = "DISCONNECT" => link[s] \in {"closed", "ended"}
           /\ frame.command # "DISCONNECT" => frame \in Range(received[s])
<1>1. /\ Parsed(Connect).command = "CONNECT" /\ Parsed(Subscribe(0)).command = "SUBSCRIBE"
      /\ Parsed(Greeting(s)).command = "SEND"
      /\ Parsed(DisconnectFrame).command = "DISCONNECT"
  BY FramesByKind, PartsOfFrames, ReadingOfFrame
<1>2. \/ frame \in Range(received[s])
      \/ link[s] = "ended" /\ frame = Parsed(DisconnectFrame)
  BY DEF SessionInv, ServerInv
<1>3. CASE frame \in Range(received[s])
  <2>1. PICK i \in 1 .. Len(received[s]) : frame = received[s][i]
    <3>1. DOMAIN received[s] = 1 .. Len(received[s])
      BY DEF Shape
    <3>. QED
      BY <1>3, <3>1 DEF Range
  <2>2. i \in DOMAIN transmitted[s] /\ frame = Parsed(transmitted[s][i])
    <3>1. /\ received[s] \in Seq(ParsedFrames) /\ transmitted[s] \in Seq(Frames)
          /\ Len(received[s]) <= Len(transmitted[s])
      BY DEF Shape, SessionInv, ReceivedInv, Reads
    <3>2. Len(received[s]) \in Nat /\ Len(transmitted[s]) \in Nat
          /\ DOMAIN transmitted[s] = 1 .. Len(transmitted[s])
      BY <3>1
    <3>. QED
      BY <2>1, <3>1, <3>2 DEF SessionInv, ReceivedInv, Reads
  <2>3. transmitted[s][i] \in Range(transmitted[s])
    BY <2>2 DEF Range
  <2>. QED
    BY <1>1, <1>3, <2>2, <2>3, FramesOfPage, HeadersRead DEF SessionInv
<1>. QED
  BY <1>1, <1>2, <1>3

\* What the page reads.
LEMMA FrameRead ==
    ASSUME Shape, NEW s \in Sessions, NEW command, Receive(s, command)
    PROVE  /\ link[s] = "open" /\ toClient[s] # <<>> /\ Head(toClient[s]) \in Frames
           /\ Arrived(s) = {Parsed(Head(toClient[s]))}
           /\ Parsed(Head(toClient[s])).command = command
           /\ toClient' = [toClient EXCEPT ![s] = Tail(@)]
<1>1. toClient[s] # <<>>
  BY DEF Receive, Arrived
<1>2. Head(toClient[s]) \in Frames
  BY <1>1 DEF Shape
<1>3. Reading[Head(toClient[s])] = <<Parsed(Head(toClient[s]))>>
  BY <1>2, ReadingOfFrame
<1>4. \A x : Range(<<x>>) = {x}
  BY DEF Range
<1>5. Arrived(s) = {Parsed(Head(toClient[s]))}
  BY <1>1, <1>3, <1>4 DEF Arrived
<1>. QED
  BY <1>1, <1>2, <1>5 DEF Receive

\* The lines on their way are those of the messages on their way.
LEMMA LinesOfMessages ==
    ASSUME NEW W, \A f \in W : f = Connected \/ \E l : f = MessageFrame(0, l), NEW l
    PROVE  (\E f \in W : f.body = Body(l)) <=> MessageFrame(0, l) \in W
  BY PartsOfFrames, BodiesDiffer

LEMMA ReadsMore ==
    ASSUME NEW frames \in Seq(ParsedFrames), NEW sent \in Seq(Frames), NEW f \in Frames,
           Reads(frames, sent)
    PROVE  Reads(frames, Append(sent, f))
<1>1. /\ Len(Append(sent, f)) = Len(sent) + 1 /\ Len(sent) \in Nat /\ Len(frames) \in Nat
      /\ \A i \in 1 .. Len(sent) : Append(sent, f)[i] = sent[i]
  OBVIOUS
<1>. QED
  BY <1>1 DEF Reads

\* What Transmit does with one frame.
LEMMA TransmitOne ==
    ASSUME Shape, NEW s \in Sessions, NEW f \in Frames, Transmit(s, <<f>>)
    PROVE  /\ transmitted' = [transmitted EXCEPT ![s] = Append(@, f)]
           /\ toServer' = [toServer EXCEPT ![s] = @ \o Cut[f]]
           /\ transmitted' \in [Sessions -> Seq(Frames)]
           /\ toServer' \in [Sessions -> Seq(Seq(Token))]
<1>1. transmitted[s] \in Seq(Frames) /\ toServer[s] \in Seq(Seq(Token))
  BY DEF Shape
<1>2. transmitted[s] \o <<f>> = Append(transmitted[s], f)
  BY <1>1
<1>3. Cut[f] \in Seq(Seq(Token))
  BY PiecesOfFrame
<1>4. toServer[s] \o Cut[f] \in Seq(Seq(Token)) /\ Append(transmitted[s], f) \in Seq(Frames)
  BY <1>1, <1>3
<1>5. /\ transmitted' = [transmitted EXCEPT ![s] = Append(@, f)]
      /\ toServer' = [toServer EXCEPT ![s] = @ \o Cut[f]]
  BY <1>2, PiecesTransmitted, Zenon DEF Transmit
<1>. QED
  BY <1>4, <1>5 DEF Shape

LEMMA TransmitTwo ==
    ASSUME Shape, NEW s \in Sessions, NEW f \in Frames, NEW g \in Frames,
           Transmit(s, <<f, g>>)
    PROVE  /\ transmitted' = [transmitted EXCEPT ![s] = Append(Append(@, f), g)]
           /\ toServer' = [toServer EXCEPT ![s] = (@ \o Cut[f]) \o Cut[g]]
           /\ transmitted' \in [Sessions -> Seq(Frames)]
           /\ toServer' \in [Sessions -> Seq(Seq(Token))]
<1>1. transmitted[s] \in Seq(Frames) /\ toServer[s] \in Seq(Seq(Token))
  BY DEF Shape
<1>2. transmitted[s] \o <<f, g>> = Append(Append(transmitted[s], f), g)
  BY <1>1
<1>3. Cut[f] \in Seq(Seq(Token)) /\ Cut[g] \in Seq(Seq(Token))
  BY PiecesOfFrame
<1>4. toServer[s] \o (Cut[f] \o Cut[g]) = (toServer[s] \o Cut[f]) \o Cut[g]
  <2>1. \A a, b, c \in Seq(Seq(Token)) : (a \o b) \o c = a \o (b \o c)
    BY SMTT(30), ConcatAssociative
  <2>. QED
    BY <1>1, <1>3, <2>1
<1>5. /\ (toServer[s] \o Cut[f]) \o Cut[g] \in Seq(Seq(Token))
      /\ Append(Append(transmitted[s], f), g) \in Seq(Frames)
  BY <1>1, <1>3
<1>6. /\ transmitted' = [transmitted EXCEPT ![s] = Append(Append(@, f), g)]
      /\ toServer' = [toServer EXCEPT ![s] = (@ \o Cut[f]) \o Cut[g]]
  BY <1>2, <1>4, PiecesTransmitted, Zenon DEF Transmit
<1>. QED
  BY <1>5, <1>6 DEF Shape

-----------------------------------------------------------------------------
(* Parts of the invariant that a step leaves alone *)

LEMMA PageKept ==
    ASSUME NEW t, PageInv(t), link'[t] = link[t], counter'[t] = counter[t],
           subscriptions'[t] = subscriptions[t], transmitted'[t] = transmitted[t]
    PROVE  PageInv(t)'
  BY DEF PageInv, Script

LEMMA WireKept ==
    ASSUME NEW t, WireInv(t), link'[t] = link[t], transmitted'[t] = transmitted[t],
           received'[t] = received[t], decoder'[t] = decoder[t], toServer'[t] = toServer[t]
    PROVE  WireInv(t)'
  BY DEF WireInv

LEMMA ReceivedKept ==
    ASSUME NEW t, ReceivedInv(t), transmitted'[t] = transmitted[t],
           received'[t] = received[t]
    PROVE  ReceivedInv(t)'
  BY DEF ReceivedInv

LEMMA ServerKept ==
    ASSUME NEW t, ServerInv(t), link'[t] = link[t], inbound'[t] = inbound[t],
           received'[t] = received[t], registered'[t] = registered[t],
           counter'[t] = counter[t], t \in Range(topic') => t \in Range(topic)
    PROVE  ServerInv(t)'
  BY DEF ServerInv, Handled

LEMMA WayKept ==
    ASSUME NEW t, WayInv(t), link'[t] = link[t], inbound'[t] = inbound[t],
           received'[t] = received[t], registered'[t] = registered[t],
           counter'[t] = counter[t], response'[t] = response[t],
           outbound'[t] = outbound[t], toClient'[t] = toClient[t], topic' = topic
    PROVE  WayInv(t)'
  BY DEF WayInv, Way, Handled

LEMMA GapKept ==
    ASSUME NEW t, GapInv(t), link'[t] = link[t], response'[t] = response[t],
           outbound'[t] = outbound[t], toClient'[t] = toClient[t], topic' = topic
    PROVE  GapInv(t)'
  BY DEF GapInv, Due, OnTheWay

SameAt(t) ==
    /\ link'[t] = link[t] /\ counter'[t] = counter[t]
    /\ subscriptions'[t] = subscriptions[t] /\ response'[t] = response[t]
    /\ transmitted'[t] = transmitted[t] /\ toServer'[t] = toServer[t]
    /\ decoder'[t] = decoder[t] /\ received'[t] = received[t]
    /\ inbound'[t] = inbound[t] /\ registered'[t] = registered[t]
    /\ outbound'[t] = outbound[t] /\ toClient'[t] = toClient[t]

LEMMA SessionKept ==
    ASSUME NEW t, SessionInv(t), SameAt(t), topic' = topic
    PROVE  SessionInv(t)'
  BY PageKept, WireKept, ReceivedKept, ServerKept, WayKept, GapKept DEF SessionInv, SameAt

\* A step of one session.
LEMMA StepOfOne ==
    ASSUME Inv, Shape', NEW s \in Sessions, topic' = topic,
           \A t \in Sessions : t # s => SameAt(t),
           PageInv(s)', WireInv(s)', ReceivedInv(s)', ServerInv(s)', WayInv(s)', GapInv(s)'
    PROVE  Inv'
<1>1. SessionInv(s)'
  BY DEF SessionInv
<1>2. ASSUME NEW t \in Sessions, t # s PROVE SessionInv(t)'
  BY <1>2, SessionKept DEF Inv
<1>. QED
  BY <1>1, <1>2 DEF Inv

-----------------------------------------------------------------------------
(* Steps of the page *)

LEMMA OpenStep ==
    ASSUME Inv, NEW s \in Sessions, Open(s)
    PROVE  Inv'
<1>1. Shape /\ SessionInv(s) /\ topic' = topic
  BY DEF Inv, Open
<1>2. /\ Connect \in Frames /\ Transmit(s, <<Connect>>)
      /\ link[s] = "none" /\ link' = [link EXCEPT ![s] = "open"]
  BY FramesByKind DEF Open
<1>3. /\ transmitted' = [transmitted EXCEPT ![s] = Append(@, Connect)]
      /\ toServer' = [toServer EXCEPT ![s] = @ \o Cut[Connect]]
      /\ transmitted' \in [Sessions -> Seq(Frames)]
      /\ toServer' \in [Sessions -> Seq(Seq(Token))]
  BY <1>1, <1>2, TransmitOne
<1>4. Shape'
  BY <1>1, <1>2, <1>3 DEF Shape, Link, Open, pageVars, serverVars
<1>5. \A t \in Sessions : t # s => SameAt(t)
  BY <1>1, <1>2, <1>3 DEF Shape, SameAt, Open, pageVars, serverVars
<1>6. /\ link'[s] = "open" /\ counter'[s] = counter[s] /\ counter[s] = 0
      /\ subscriptions'[s] = subscriptions[s] /\ transmitted[s] = <<>>
      /\ transmitted'[s] = Append(<<>>, Connect) /\ toServer'[s] = toServer[s] \o Cut[Connect]
      /\ decoder'[s] = decoder[s] /\ received'[s] = received[s] /\ inbound'[s] = inbound[s]
      /\ registered'[s] = registered[s] /\ response'[s] = response[s]
      /\ outbound'[s] = outbound[s] /\ toClient'[s] = toClient[s]
  BY <1>1, <1>2, <1>3 DEF Shape, Open, pageVars, serverVars, SessionInv, PageInv
<1>7. PageInv(s)'
  <2>1. Append(<<>>, Connect) = <<Connect>>
    OBVIOUS
  <2>. QED
    BY <1>1, <1>6, <2>1 DEF SessionInv, PageInv, Script
<1>8. WireInv(s)'
  <2>1. PICK at : /\ Carries(transmitted[s], Len(received[s]), decoder[s], toServer[s], at)
                  /\ Complete(transmitted[s], toServer[s], at)
    BY <1>1, <1>2 DEF SessionInv, WireInv
  <2>2. /\ transmitted[s] \in Seq(Frames) /\ toServer[s] \in Seq(Seq(Token))
        /\ Len(received[s]) \in Nat
    BY <1>1 DEF Shape
  <2>3. \E bt : /\ Carries(Append(transmitted[s], Connect), Len(received[s]), decoder[s],
                           toServer[s] \o Cut[Connect], bt)
                /\ Complete(Append(transmitted[s], Connect), toServer[s] \o Cut[Connect], bt)
    BY <1>2, <2>1, <2>2, OneFrameMore
  <2>. QED
    BY <1>6, <2>3 DEF WireInv
<1>9. ReceivedInv(s)'
  <2>1. /\ transmitted[s] \in Seq(Frames) /\ received[s] \in Seq(ParsedFrames)
        /\ Reads(received[s], transmitted[s])
    BY <1>1 DEF SessionInv, ReceivedInv, Shape
  <2>2. Reads(received[s], Append(transmitted[s], Connect))
    BY <1>2, <2>1, ReadsMore
  <2>. QED
    BY <1>6, <2>2 DEF ReceivedInv
<1>10. ServerInv(s)'
  BY <1>1, <1>2, <1>6 DEF SessionInv, ServerInv, Handled
<1>11. registered[s] = {} /\ response[s] = <<>> /\ outbound[s] = {} /\ toClient[s] = <<>>
  BY <1>1, <1>2, <1>6 DEF SessionInv, ServerInv, WayInv
<1>12. Way(s) = {}
  BY <1>11 DEF Way, Range
<1>13. WayInv(s)'
  BY <1>6, <1>11, <1>12 DEF WayInv, Way
<1>14. Due(s)' = {}
  BY <1>6, <1>11, <1>12 DEF Due, OnTheWay, Way, Range
<1>15. GapInv(s)'
  BY <1>14 DEF GapInv
<1>. QED
  BY <1>1, <1>4, <1>5, <1>7, <1>8, <1>9, <1>10, <1>13, <1>15, StepOfOne

\* CONNECTED is read before anything else, and once.
LEMMA ConnectedAtHand ==
    ASSUME Shape, NEW s \in Sessions, SessionInv(s), Receive(s, "CONNECTED")
    PROVE  /\ link[s] = "open" /\ toClient[s] # <<>> /\ Head(toClient[s]) = Connected
           /\ counter[s] = 0 /\ registered[s] = {} /\ response[s] = <<>>
           /\ Way(s) = {Connected} /\ outbound[s] = {} /\ Parsed(Connect) \in Handled(s)
           /\ toClient' = [toClient EXCEPT ![s] = Tail(@)] /\ Tail(toClient[s]) = <<>>
<1>1. /\ link[s] = "open" /\ toClient[s] # <<>> /\ Head(toClient[s]) \in Frames
      /\ Parsed(Head(toClient[s])).command = "CONNECTED"
      /\ toClient' = [toClient EXCEPT ![s] = Tail(@)]
  BY FrameRead
<1>2. Head(toClient[s]) = Connected
  BY <1>1, FrameOfCommand
<1>3. toClient[s] \in Seq(Frames) /\ WayInv(s) /\ ServerInv(s)
  BY DEF Shape, SessionInv
<1>4. /\ Connected \in Range(toClient[s]) /\ Tail(toClient[s]) \in Seq(Frames)
      /\ Range(Tail(toClient[s])) = Range(toClient[s]) \ {Connected}
  BY <1>1, <1>2, <1>3, TailOfDistinct DEF WayInv
<1>5. counter[s] = 0 /\ registered[s] = {}
  BY <1>3, <1>4 DEF WayInv, Way, ServerInv
<1>6. Way(s) = {Connected} /\ response[s] = <<>> /\ Parsed(Connect) \in Handled(s)
  BY <1>1, <1>3, <1>4, <1>5 DEF WayInv, Way
<1>7. outbound[s] = {} /\ Range(Tail(toClient[s])) = {}
  BY <1>3, <1>4, <1>6 DEF WayInv, Way
<1>8. \A q \in Seq(Frames) : Range(q) = {} => q = <<>>
  BY DEF Range
<1>. QED
  BY <1>1, <1>2, <1>4, <1>5, <1>6, <1>7, <1>8

LEMMA ReceiveConnectedStep ==
    ASSUME Inv, NEW s \in Sessions, ReceiveConnected(s)
    PROVE  Inv'
<1>. DEFINE a == Connect
            b == Subscribe(0)
            c == Greeting(s)
<1>1. Shape /\ SessionInv(s) /\ topic' = topic /\ Receive(s, "CONNECTED")
  BY DEF Inv, ReceiveConnected
<1>2. /\ link[s] = "open" /\ toClient[s] # <<>> /\ Head(toClient[s]) = Connected
      /\ counter[s] = 0 /\ registered[s] = {} /\ response[s] = <<>>
      /\ Way(s) = {Connected} /\ outbound[s] = {} /\ Parsed(Connect) \in Handled(s)
      /\ toClient' = [toClient EXCEPT ![s] = Tail(@)] /\ Tail(toClient[s]) = <<>>
  BY <1>1, ConnectedAtHand
<1>3. a \in Frames /\ b \in Frames /\ c \in Frames /\ Transmit(s, <<b, c>>)
  BY <1>2, FramesByKind DEF ReceiveConnected
<1>. HIDE DEF a, b, c
<1>4. /\ transmitted' = [transmitted EXCEPT ![s] = Append(Append(@, b), c)]
      /\ toServer' = [toServer EXCEPT ![s] = (@ \o Cut[b]) \o Cut[c]]
      /\ transmitted' \in [Sessions -> Seq(Frames)]
      /\ toServer' \in [Sessions -> Seq(Seq(Token))]
  BY <1>1, <1>3, TransmitTwo
<1>5. /\ connected' = [connected EXCEPT ![s] = TRUE]
      /\ response' = [response EXCEPT ![s] = <<>>]
      /\ counter' = [counter EXCEPT ![s] = @ + 1]
      /\ subscriptions' = [subscriptions EXCEPT ![s] = @ \cup {counter[s]}]
      /\ UNCHANGED <<link, decoder, received, inbound, registered, outbound, topic>>
  BY DEF ReceiveConnected, serverVars
<1>6. Shape'
  <2>1. counter' \in [Sessions -> {0, 1}] /\ subscriptions' \in [Sessions -> SUBSET Nat]
    BY <1>1, <1>2, <1>5 DEF Shape
  <2>2. response' \in [Sessions -> Seq(Line)] /\ toClient' \in [Sessions -> Seq(Frames)]
    BY <1>1, <1>2, <1>5 DEF Shape
  <2>3. connected' \in [Sessions -> BOOLEAN]
    BY <1>1, <1>5 DEF Shape
  <2>. QED
    BY <1>1, <1>4, <1>5, <2>1, <2>2, <2>3 DEF Shape
<1>7. \A t \in Sessions : t # s => SameAt(t)
  BY <1>1, <1>2, <1>4, <1>5 DEF Shape, SameAt
<1>8. /\ link'[s] = "open" /\ counter'[s] = 1 /\ subscriptions[s] = {}
      /\ subscriptions'[s] = {0} /\ transmitted[s] = <<a>>
      /\ transmitted'[s] = Append(Append(transmitted[s], b), c)
      /\ toServer'[s] = (toServer[s] \o Cut[b]) \o Cut[c]
      /\ decoder'[s] = decoder[s] /\ received'[s] = received[s] /\ inbound'[s] = inbound[s]
      /\ registered'[s] = {} /\ response'[s] = <<>>
      /\ outbound'[s] = {} /\ toClient'[s] = <<>>
  <2>1. transmitted[s] = <<a>> /\ subscriptions[s] = {}
    BY <1>1, <1>2 DEF SessionInv, PageInv, Script, a
  <2>2. counter'[s] = 1
    BY <1>1, <1>2, <1>5 DEF Shape
  <2>3. subscriptions'[s] = {0}
    BY <1>1, <1>2, <1>5, <2>1 DEF Shape
  <2>4. /\ transmitted'[s] = Append(Append(transmitted[s], b), c)
        /\ toServer'[s] = (toServer[s] \o Cut[b]) \o Cut[c]
    BY <1>1, <1>4 DEF Shape
  <2>5. response'[s] = <<>> /\ toClient'[s] = <<>>
    BY <1>1, <1>2, <1>5 DEF Shape
  <2>. QED
    BY <1>2, <1>5, <2>1, <2>2, <2>3, <2>4, <2>5
<1>9. PageInv(s)'
  <2>1. Append(Append(<<a>>, b), c) = <<a, b, c>>
    BY FewAppended
  <2>. QED
    BY <1>8, <2>1 DEF PageInv, Script, a, b, c
<1>10. /\ transmitted[s] \in Seq(Frames) /\ toServer[s] \in Seq(Seq(Token))
       /\ received[s] \in Seq(ParsedFrames) /\ Len(received[s]) \in Nat
       /\ Append(transmitted[s], b) \in Seq(Frames)
       /\ toServer[s] \o Cut[b] \in Seq(Seq(Token))
  <2>1. /\ transmitted[s] \in Seq(Frames) /\ toServer[s] \in Seq(Seq(Token))
        /\ received[s] \in Seq(ParsedFrames) /\ Cut[b] \in Seq(Seq(Token))
    BY <1>1, <1>3, PiecesOfFrame DEF Shape
  <2>. QED
    BY <1>3, <2>1
<1>11. WireInv(s)'
  <2>1. PICK at : /\ Carries(transmitted[s], Len(received[s]), decoder[s], toServer[s], at)
                  /\ Complete(transmitted[s], toServer[s], at)
    BY <1>1, <1>2 DEF SessionInv, WireInv
  <2>2. PICK bt : /\ Carries(Append(transmitted[s], b), Len(received[s]), decoder[s],
                             toServer[s] \o Cut[b], bt)
                  /\ Complete(Append(transmitted[s], b), toServer[s] \o Cut[b], bt)
    BY <1>3, <1>10, <2>1, OneFrameMore
  <2>3. \E ct : /\ Carries(Append(Append(transmitted[s], b), c), Len(received[s]), decoder[s],
                           (toServer[s] \o Cut[b]) \o Cut[c], ct)
                /\ Complete(Append(Append(transmitted[s], b), c),
                            (toServer[s] \o Cut[b]) \o Cut[c], ct)
    BY <1>3, <1>10, <2>2, OneFrameMore
  <2>. QED
    BY <1>8, <2>3 DEF WireInv
<1>12. ReceivedInv(s)'
  <2>1. Reads(received[s], Append(transmitted[s], b))
    BY <1>1, <1>3, <1>10, ReadsMore DEF SessionInv, ReceivedInv
  <2>2. Reads(received[s], Append(Append(transmitted[s], b), c))
    BY <1>3, <1>10, <2>1, ReadsMore
  <2>. QED
    BY <1>8, <2>2 DEF ReceivedInv
<1>13. ServerInv(s)'
  BY <1>1, <1>2, <1>8 DEF SessionInv, ServerInv, Handled
<1>14. Way(s)' = {} /\ Handled(s)' = Handled(s)
  BY <1>8 DEF Way, Range, Handled
<1>15. WayInv(s)'
  BY <1>2, <1>8, <1>14 DEF WayInv, Way
<1>16. Due(s)' = {}
  BY <1>8, <1>14 DEF Due, OnTheWay, Way, Range
<1>17. GapInv(s)'
  BY <1>16 DEF GapInv
<1>. QED
  BY <1>1, <1>6, <1>7, <1>9, <1>11, <1>12, <1>13, <1>15, <1>17, StepOfOne

\* A message that is read shows its line, which is one of the topic's.
LEMMA MessageAtHand ==
    ASSUME Shape, NEW s \in Sessions, SessionInv(s), ReceiveMessage(s)
    PROVE  \E line \in Line :
               /\ link[s] = "open" /\ toClient[s] # <<>>
               /\ Head(toClient[s]) = MessageFrame(0, line)
               /\ MessageFrame(0, line) \in Way(s)
               /\ registered[s] # {} /\ counter[s] = 1
               /\ response' = [response EXCEPT ![s] = Append(@, line)]
               /\ toClient' = [toClient EXCEPT ![s] = Tail(@)]
<1>1. /\ link[s] = "open" /\ toClient[s] # <<>> /\ Head(toClient[s]) \in Frames
      /\ Arrived(s) = {Parsed(Head(toClient[s]))}
      /\ Parsed(Head(toClient[s])).command = "MESSAGE"
      /\ toClient' = [toClient EXCEPT ![s] = Tail(@)]
  BY FrameRead DEF ReceiveMessage
<1>2. PICK line \in Line : Head(toClient[s]) = MessageFrame(0, line)
  BY <1>1, FrameOfCommand
<1>3. toClient[s] \in Seq(Frames) /\ WayInv(s) /\ ServerInv(s) /\ PageInv(s)
  BY DEF Shape, SessionInv
<1>4. MessageFrame(0, line) \in Way(s)
  BY <1>1, <1>2, <1>3, TailOfDistinct DEF WayInv, Way
<1>5. MessageFrame(0, line) # Connected
  BY PartsOfFrames
<1>6. registered[s] # {} /\ counter[s] = 1 /\ subscriptions[s] = {0}
  BY <1>1, <1>3, <1>4, <1>5 DEF WayInv, ServerInv, PageInv
<1>7. /\ Parsed(Head(toClient[s])).headers["subscription"] = 0
      /\ Parsed(Head(toClient[s])).body = Body(line)
  BY <1>2, HeadersRead, FramesByKind, ReadingOfFrame, PartsOfFrames
<1>8. response' = [response EXCEPT ![s] = Append(@, line)]
  <2>1. PICK frame \in Arrived(s) :
           \/ \E l \in Line :
                 /\ frame.body = Body(l)
                 /\ response' = [response EXCEPT ![s] = Append(@, l)]
           \/ \/ frame.headers["subscription"] \notin subscriptions[s]
              \/ \A l \in Line : frame.body # Body(l)
    BY DEF ReceiveMessage
  <2>2. frame = Parsed(Head(toClient[s]))
    BY <1>1, <2>1
  <2>. QED
    BY <1>6, <1>7, <2>1, <2>2, BodiesDiffer
<1>. QED
  BY <1>1, <1>2, <1>4, <1>6, <1>8

LEMMA ReceiveMessageStep ==
    ASSUME Inv, NEW s \in Sessions, ReceiveMessage(s)
    PROVE  Inv' /\ Way(s)' = Way(s) \ {Head(toClient[s])}
<1>1. Shape /\ SessionInv(s)
  BY DEF Inv
<1>2. PICK line \in Line :
          /\ link[s] = "open" /\ toClient[s] # <<>>
          /\ Head(toClient[s]) = MessageFrame(0, line)
          /\ MessageFrame(0, line) \in Way(s)
          /\ registered[s] # {} /\ counter[s] = 1
          /\ response' = [response EXCEPT ![s] = Append(@, line)]
          /\ toClient' = [toClient EXCEPT ![s] = Tail(@)]
  BY <1>1, MessageAtHand
<1>3. UNCHANGED <<link, connected, counter, subscriptions, transmitted, toServer, decoder,
                  received, inbound, registered, outbound, topic>>
  BY DEF ReceiveMessage, wireVars, serverVars
<1>4. toClient[s] \in Seq(Frames) /\ response[s] \in Seq(Line) /\ WayInv(s)
  BY <1>1 DEF Shape, SessionInv
<1>5. /\ Tail(toClient[s]) \in Seq(Frames)
      /\ Range(Tail(toClient[s])) = Range(toClient[s]) \ {MessageFrame(0, line)}
      /\ MessageFrame(0, line) \in Range(toClient[s])
      /\ \A i, j \in DOMAIN Tail(toClient[s]) :
             Tail(toClient[s])[i] = Tail(toClient[s])[j] => i = j
  BY <1>2, <1>4, TailOfDistinct DEF WayInv
<1>6. /\ Append(response[s], line) \in Seq(Line)
      /\ Range(Append(response[s], line)) = Range(response[s]) \cup {line}
  BY <1>4, RangeOfAppend
<1>7. Shape'
  <2>1. response' \in [Sessions -> Seq(Line)] /\ toClient' \in [Sessions -> Seq(Frames)]
    BY <1>1, <1>2, <1>5, <1>6 DEF Shape
  <2>. QED
    BY <1>1, <1>3, <2>1 DEF Shape
<1>8. \A t \in Sessions : t # s => SameAt(t)
  BY <1>1, <1>2, <1>3 DEF Shape, SameAt
<1>9. response'[s] = Append(response[s], line) /\ toClient'[s] = Tail(toClient[s])
  BY <1>1, <1>2 DEF Shape
<1>10. PageInv(s)' /\ WireInv(s)' /\ ReceivedInv(s)' /\ ServerInv(s)'
  BY <1>1, <1>3, PageKept, WireKept, ReceivedKept, ServerKept DEF SessionInv
<1>11. /\ Way(s)' = Way(s) \ {MessageFrame(0, line)} /\ Handled(s)' = Handled(s)
       /\ Range(toClient'[s]) \subseteq Range(toClient[s])
  BY <1>3, <1>4, <1>5, <1>9 DEF Way, WayInv, Handled
<1>12. WayInv(s)'
  BY <1>2, <1>3, <1>4, <1>5, <1>9, <1>11 DEF WayInv
<1>13. Due(s)' = Due(s)
  <2>1. \A f \in Way(s) : f = Connected \/ \E l : f = MessageFrame(0, l)
    BY <1>4 DEF WayInv
  <2>2. ASSUME NEW l \in Line
        PROVE  /\ l \in OnTheWay(s) <=> MessageFrame(0, l) \in Way(s)
               /\ l \in OnTheWay(s)' <=> MessageFrame(0, l) \in Way(s)'
    <3>1. (\E f \in Way(s) : f.body = Body(l)) <=> MessageFrame(0, l) \in Way(s)
      BY <2>1, LinesOfMessages
    <3>2. (\E f \in Way(s)' : f.body = Body(l)) <=> MessageFrame(0, l) \in Way(s)'
      BY <1>11, <2>1, LinesOfMessages
    <3>. QED
      BY <3>1, <3>2 DEF OnTheWay, Way
  <2>3. \A l \in Line : MessageFrame(0, l) \in Way(s)' \/ l = line
                        <=> MessageFrame(0, l) \in Way(s)
    BY <1>2, <1>11, MessagesDiffer
  <2>4. OnTheWay(s) \subseteq Line /\ OnTheWay(s)' \subseteq Line
    BY DEF OnTheWay
  <2>5. OnTheWay(s)' \cup {line} = OnTheWay(s) /\ line \in Line
    BY <1>2, <2>2, <2>3, <2>4
  <2>. QED
    BY <1>6, <1>9, <2>5 DEF Due
<1>14. GapInv(s)'
  BY <1>1, <1>3, <1>13 DEF SessionInv, GapInv
<1>. QED
  BY <1>2, <1>3, <1>7, <1>8, <1>10, <1>11, <1>12, <1>14, StepOfOne

\* What the two ways of closing have in common.
LEMMA CloseStep ==
    ASSUME Inv, NEW s \in Sessions, Close(s),
           UNCHANGED <<counter, subscriptions, response, serverVars, topic>>,
           transmitted' \in [Sessions -> Seq(Frames)],
           toServer' \in [Sessions -> Seq(Seq(Token))],
           \A t \in Sessions : t # s =>
               transmitted'[t] = transmitted[t] /\ toServer'[t] = toServer[t],
           transmitted'[s] \in {transmitted[s], Append(transmitted[s], DisconnectFrame)},
           \E at : Carries(transmitted'[s], Len(received[s]), decoder[s], toServer'[s], at)
    PROVE  Inv'
<1>1. Shape /\ SessionInv(s)
  BY DEF Inv
<1>2. /\ link[s] = "open" /\ link' = [link EXCEPT ![s] = "closed"]
      /\ connected' = [connected EXCEPT ![s] = FALSE]
      /\ toClient' = [toClient EXCEPT ![s] = <<>>]
      /\ outbound' = [outbound EXCEPT ![s] = {}]
      /\ UNCHANGED <<counter, subscriptions, response, decoder, received, inbound,
                     registered, topic>>
  BY DEF Close, serverVars
<1>3. Shape'
  <2>1. link' \in [Sessions -> Link]
    BY <1>1, <1>2 DEF Shape, Link
  <2>2. /\ connected' \in [Sessions -> BOOLEAN]
        /\ toClient' \in [Sessions -> Seq(Frames)]
        /\ outbound' \in [Sessions -> SUBSET Frames]
    BY <1>1, <1>2 DEF Shape
  <2>. QED
    BY <1>1, <1>2, <2>1, <2>2 DEF Shape
<1>4. \A t \in Sessions : t # s => SameAt(t)
  BY <1>1, <1>2 DEF Shape, SameAt
<1>5. link'[s] = "closed" /\ toClient'[s] = <<>> /\ outbound'[s] = {}
  BY <1>1, <1>2 DEF Shape
<1>6. PageInv(s)'
  <2>1. transmitted[s] = Script(s) /\ Script(s)' = Script(s)
    BY <1>1, <1>2 DEF SessionInv, PageInv, Script
  <2>. QED
    BY <1>1, <1>2, <1>5, <2>1 DEF SessionInv, PageInv
<1>7. WireInv(s)'
  BY <1>2, <1>5 DEF WireInv
<1>8. ReceivedInv(s)'
  <2>1. /\ transmitted[s] \in Seq(Frames) /\ received[s] \in Seq(ParsedFrames)
        /\ Reads(received[s], transmitted[s])
    BY <1>1 DEF SessionInv, ReceivedInv, Shape
  <2>2. Reads(received[s], Append(transmitted[s], DisconnectFrame))
    BY <2>1, ReadsMore, FramesByKind
  <2>. QED
    BY <1>2, <2>1, <2>2 DEF ReceivedInv
<1>9. ServerInv(s)'
  BY <1>1, <1>2, <1>5 DEF SessionInv, ServerInv, Handled
<1>10. Way(s)' = {}
  BY <1>5 DEF Way, Range
<1>11. WayInv(s)'
  BY <1>5, <1>10 DEF WayInv, Way
<1>12. GapInv(s)'
  BY <1>5 DEF GapInv
<1>. QED
  BY <1>2, <1>3, <1>4, <1>6, <1>7, <1>8, <1>9, <1>11, <1>12, StepOfOne

LEMMA DisconnectStep ==
    ASSUME Inv, NEW s \in Sessions, Disconnect(s)
    PROVE  Inv'
<1>1. Shape /\ SessionInv(s) /\ DisconnectFrame \in Frames
  BY FramesByKind DEF Inv
<1>2. /\ Close(s) /\ Transmit(s, <<DisconnectFrame>>)
      /\ UNCHANGED <<counter, subscriptions, response, serverVars, topic>>
  BY DEF Disconnect
<1>3. /\ transmitted' = [transmitted EXCEPT ![s] = Append(@, DisconnectFrame)]
      /\ toServer' = [toServer EXCEPT ![s] = @ \o Cut[DisconnectFrame]]
      /\ transmitted' \in [Sessions -> Seq(Frames)]
      /\ toServer' \in [Sessions -> Seq(Seq(Token))]
  BY <1>1, <1>2, TransmitOne
<1>4. /\ transmitted'[s] = Append(transmitted[s], DisconnectFrame)
      /\ toServer'[s] = toServer[s] \o Cut[DisconnectFrame]
      /\ \A t \in Sessions : t # s =>
             transmitted'[t] = transmitted[t] /\ toServer'[t] = toServer[t]
  BY <1>1, <1>3 DEF Shape
<1>5. PICK at : /\ Carries(transmitted[s], Len(received[s]), decoder[s], toServer[s], at)
                /\ Complete(transmitted[s], toServer[s], at)
  BY <1>1, <1>2 DEF SessionInv, WireInv, Close
<1>6. /\ transmitted[s] \in Seq(Frames) /\ toServer[s] \in Seq(Seq(Token))
      /\ Len(received[s]) \in Nat
  BY <1>1 DEF Shape
<1>7. \E bt : Carries(transmitted'[s], Len(received[s]), decoder[s], toServer'[s], bt)
  BY <1>1, <1>4, <1>5, <1>6, OneFrameMore
<1>. QED
  BY <1>2, <1>3, <1>4, <1>7, CloseStep

LEMMA BreakStep ==
    ASSUME Inv, NEW s \in Sessions, Break(s)
    PROVE  Inv'
<1>1. Shape /\ SessionInv(s)
  BY DEF Inv
<1>2. PICK n \in 0 .. Len(toServer[s]) :
          toServer' = [toServer EXCEPT ![s] = SubSeq(@, 1, n)]
  BY DEF Break
<1>3. /\ Close(s)
      /\ UNCHANGED <<counter, subscriptions, response, transmitted, serverVars, topic>>
  BY DEF Break
<1>4. /\ transmitted[s] \in Seq(Frames) /\ toServer[s] \in Seq(Seq(Token))
      /\ Len(received[s]) \in Nat
  BY <1>1 DEF Shape
<1>5. SubSeq(toServer[s], 1, n) \in Seq(Seq(Token))
  BY <1>4
<1>6. /\ toServer' \in [Sessions -> Seq(Seq(Token))]
      /\ toServer'[s] = SubSeq(toServer[s], 1, n)
      /\ \A t \in Sessions : t # s => toServer'[t] = toServer[t]
  BY <1>1, <1>2, <1>5 DEF Shape
<1>7. PICK at : Carries(transmitted[s], Len(received[s]), decoder[s], toServer[s], at)
  BY <1>1, <1>3 DEF SessionInv, WireInv, Close
<1>8. \E bt : Carries(transmitted[s], Len(received[s]), decoder[s], toServer'[s], bt)
  <2>1. \E bt : Carries(transmitted[s], Len(received[s]), decoder[s],
                       SubSeq(toServer[s], 1, n), bt)
    BY Zenon, <1>4, <1>7, WireIsCut
  <2>. QED
    BY <1>6, <2>1
<1>9. transmitted' \in [Sessions -> Seq(Frames)] /\ transmitted' = transmitted
  BY <1>1, <1>3 DEF Shape
<1>. QED
  BY <1>3, <1>6, <1>8, <1>9, CloseStep

-----------------------------------------------------------------------------
(* Steps of the server *)

\* A frame that is complete is the next of those transmitted, and new.
LEMMA ReceivePieceStep ==
    ASSUME Inv, NEW s \in Sessions, ReceivePiece(s)
    PROVE  Inv'
<1>. DEFINE text == decoder[s] \o Head(toServer[s])
            n == Len(received[s])
            f == transmitted[s][n + 1]
            whole == {g \in Frames : Text[g] = text}
            Piece(d, k) ==
                \E bt : /\ Carries(transmitted[s], k, d, Tail(toServer[s]), bt)
                        /\ link[s] \in {"none", "open"} =>
                               Complete(transmitted[s], Tail(toServer[s]), bt)
<1>1. Shape /\ SessionInv(s)
  BY DEF Inv
<1>2. /\ toServer[s] # <<>> /\ link[s] # "ended"
      /\ toServer' = [toServer EXCEPT ![s] = Tail(@)]
      /\ \/ /\ whole = {}
            /\ decoder' = [decoder EXCEPT ![s] = text]
            /\ UNCHANGED <<received, inbound>>
         \/ \E g \in whole :
            /\ decoder' = [decoder EXCEPT ![s] = <<>>]
            /\ received' = [received EXCEPT ![s] = @ \o Reading[g]]
            /\ inbound' = [inbound EXCEPT ![s] = @ \cup Range(Reading[g])]
      /\ UNCHANGED <<link, connected, counter, subscriptions, response, transmitted,
                     registered, outbound, toClient, topic>>
  BY DEF ReceivePiece, pageVars
<1>3. /\ transmitted[s] \in Seq(Frames) /\ toServer[s] \in Seq(Seq(Token))
      /\ decoder[s] \in Seq(Token) /\ received[s] \in Seq(ParsedFrames) /\ n \in Nat
      /\ Tail(toServer[s]) \in Seq(Seq(Token)) /\ inbound[s] \subseteq ParsedFrames
  <2>1. /\ transmitted[s] \in Seq(Frames) /\ toServer[s] \in Seq(Seq(Token))
        /\ decoder[s] \in Seq(Token) /\ received[s] \in Seq(ParsedFrames)
        /\ inbound[s] \subseteq ParsedFrames
    BY <1>1 DEF Shape
  <2>. QED
    BY <1>2, <2>1
<1>4. PICK at : /\ Carries(transmitted[s], n, decoder[s], toServer[s], at)
                /\ link[s] \in {"none", "open"} =>
                       Complete(transmitted[s], toServer[s], at)
  BY <1>1, <1>2 DEF SessionInv, WireInv
<1>. HIDE DEF n, text
<1>5. /\ n + 1 \in 1 .. Len(transmitted[s])
      /\ \/ /\ text \in Seq(Token) /\ \A g \in Frames : Text[g] # text
            /\ Piece(text, n)
         \/ Text[f] = text /\ Piece(<<>>, n + 1)
  <2>. HIDE DEF Piece
  <2>1. text = decoder[s] \o Head(toServer[s])
    BY DEF text
  <2>2. PICK frames \in Seq(Frames), wire \in Seq(Seq(Token)), held \in Seq(Token) :
            frames = transmitted[s] /\ wire = toServer[s] /\ held = decoder[s]
    BY <1>3
  <2>4. /\ n + 1 \in 1 .. Len(frames)
        /\ \/ /\ text \in Seq(Token) /\ NoFrames(text)
              /\ GoesOn(frames, n, text, wire, at)
           \/ /\ Text[frames[n + 1]] = text
              /\ GoesOn(frames, n + 1, <<>>, wire, at)
    <3>1. wire # <<>> /\ Carries(frames, n, held, wire, at) /\ n \in Nat
          /\ text = held \o Head(wire)
      BY <1>2, <1>3, <1>4, <2>1, <2>2
    <3>. QED
      BY <3>1, PieceArrives
  <2>3. ASSUME NEW d, NEW k, GoesOn(transmitted[s], k, d, toServer[s], at)
        PROVE  Piece(d, k)
    BY <1>4, <2>3 DEF GoesOn, Piece
  <2>. QED
    BY <2>2, <2>3, <2>4 DEF f, NoFrames
<1>. HIDE DEF Piece, f
<1>6. f \in Frames
  BY <1>3, <1>5 DEF f
<1>7. /\ toServer'[s] = Tail(toServer[s]) /\ toServer' \in [Sessions -> Seq(Seq(Token))]
      /\ \A t \in Sessions : t # s => toServer'[t] = toServer[t]
  BY <1>1, <1>2, <1>3 DEF Shape
<1>8. PageInv(s)' /\ GapInv(s)'
  BY <1>1, <1>2, PageKept, GapKept DEF SessionInv
<1>9. CASE /\ text \in Seq(Token) /\ \A g \in Frames : Text[g] # text
           /\ Piece(text, n)
  <2>1. decoder' = [decoder EXCEPT ![s] = text] /\ UNCHANGED <<received, inbound>>
    BY <1>2, <1>9
  <2>2. Shape'
    BY <1>1, <1>2, <1>7, <1>9, <2>1 DEF Shape
  <2>3. \A t \in Sessions : t # s => SameAt(t)
    BY <1>1, <1>2, <1>7, <2>1 DEF Shape, SameAt
  <2>4. decoder'[s] = text
    BY <1>1, <2>1 DEF Shape
  <2>5. WireInv(s)'
    BY <1>2, <1>7, <1>9, <2>1, <2>4 DEF WireInv, Piece, n
  <2>6. ReceivedInv(s)' /\ ServerInv(s)' /\ WayInv(s)'
    BY <1>1, <1>2, <2>1, ReceivedKept, ServerKept, WayKept DEF SessionInv
  <2>. QED
    BY <1>2, <1>8, <2>2, <2>3, <2>5, <2>6, StepOfOne
<1>10. CASE Text[f] = text /\ Piece(<<>>, n + 1)
  <2>. DEFINE p == Parsed(f)
  <2>1. PICK g \in Frames :
           /\ Text[g] = text
           /\ decoder' = [decoder EXCEPT ![s] = <<>>]
           /\ received' = [received EXCEPT ![s] = @ \o Reading[g]]
           /\ inbound' = [inbound EXCEPT ![s] = @ \cup Range(Reading[g])]
    BY <1>2, <1>6, <1>10
  <2>2. Reading[g] = <<p>> /\ p \in ParsedFrames
    <3>1. Reading[g] = Reading[f]
      BY <1>6, <1>10, <2>1 DEF Reading
    <3>. QED
      BY <1>6, <3>1, ReadingOfFrame
  <2>. HIDE DEF p
  <2>3. /\ received[s] \o <<p>> = Append(received[s], p)
        /\ Append(received[s], p) \in Seq(ParsedFrames)
        /\ Len(Append(received[s], p)) = n + 1 /\ Append(received[s], p)[n + 1] = p
        /\ \A i \in 1 .. n : Append(received[s], p)[i] = received[s][i]
        /\ Range(Append(received[s], p)) = Range(received[s]) \cup {p}
    <3>1. /\ received[s] \o <<p>> = Append(received[s], p)
          /\ Len(Append(received[s], p)) = n + 1 /\ Append(received[s], p)[n + 1] = p
          /\ \A i \in 1 .. n : Append(received[s], p)[i] = received[s][i]
      BY <1>3, <2>2 DEF n
    <3>. QED
      BY <1>3, <2>2, <3>1, RangeOfAppend
  <2>4. Range(<<p>>) = {p}
    BY DEF Range
  <2>5. /\ decoder'[s] = <<>> /\ received'[s] = Append(received[s], p)
        /\ inbound'[s] = inbound[s] \cup {p}
    BY <1>1, <2>1, <2>2, <2>3, <2>4 DEF Shape
  <2>6. Shape'
    <3>1. decoder' \in [Sessions -> Seq(Token)]
      BY <1>1, <2>1 DEF Shape
    <3>2. received' \in [Sessions -> Seq(ParsedFrames)]
      BY <1>1, <2>1, <2>2, <2>3 DEF Shape
    <3>3. inbound' \in [Sessions -> SUBSET ParsedFrames]
      <4>1. inbound' = [inbound EXCEPT ![s] = @ \cup {p}]
        BY <2>1, <2>2, <2>4
      <4>2. inbound[s] \cup {p} \in SUBSET ParsedFrames
        BY <1>3, <2>2
      <4>. QED
        BY <1>1, <4>1, <4>2 DEF Shape
    <3>. QED
      BY <1>1, <1>2, <1>7, <3>1, <3>2, <3>3 DEF Shape
  <2>7. \A t \in Sessions : t # s => SameAt(t)
    BY <1>1, <1>2, <1>7, <2>1 DEF Shape, SameAt
  <2>8. WireInv(s)'
    BY <1>2, <1>7, <1>10, <2>3, <2>5 DEF WireInv, Piece
  <2>9. /\ n <= Len(transmitted[s]) /\ Len(transmitted[s]) \in Nat
        /\ DOMAIN transmitted[s] = 1 .. Len(transmitted[s])
        /\ \A i \in 1 .. n : received[s][i] = Parsed(transmitted[s][i])
        /\ DOMAIN received[s] = 1 .. n
    BY <1>1, <1>3 DEF SessionInv, ReceivedInv, Reads, n
  <2>10. ReceivedInv(s)'
    <3>1. Append(received[s], p)[n + 1] = Parsed(transmitted[s][n + 1])
      BY <2>3 DEF p, f
    <3>2. \A i \in 1 .. n + 1 : i \in 1 .. n \/ i = n + 1
      BY <1>3
    <3>. QED
      BY <1>2, <1>5, <2>3, <2>5, <2>9, <3>1, <3>2 DEF ReceivedInv, Reads
  <2>11. p \notin Range(received[s])
    <3>1. SUFFICES ASSUME p \in Range(received[s]) PROVE FALSE
      OBVIOUS
    <3>2. PICK i \in 1 .. n : p = received[s][i]
      BY <2>9, <3>1 DEF Range
    <3>3. Parsed(transmitted[s][i]) = Parsed(transmitted[s][n + 1])
      BY <2>9, <3>2 DEF p, f
    <3>4. i \in DOMAIN transmitted[s] /\ n + 1 \in DOMAIN transmitted[s] /\ i # n + 1
      BY <1>3, <1>5, <2>9
    <3>. QED
      BY <1>1, <3>3, <3>4, FramesOfPage DEF SessionInv
  <2>12. /\ Range(received'[s]) = Range(received[s]) \cup {p}
         /\ \A x \in Handled(s) : x \in Handled(s)'
    BY <2>3, <2>5, <2>11 DEF Handled
  <2>13. ServerInv(s)'
    BY <1>1, <1>2, <2>5, <2>12 DEF SessionInv, ServerInv
  <2>14. WayInv(s)'
    BY <1>1, <1>2, <2>12 DEF SessionInv, WayInv, Way
  <2>. QED
    BY <1>2, <1>8, <2>6, <2>7, <2>8, <2>10, <2>13, <2>14, StepOfOne
<1>. QED
  BY <1>5, <1>9, <1>10

\* What a task of the inbound executor leaves alone, and what it marks.
LEMMA HandleMarks ==
    ASSUME Shape, NEW s \in Sessions, SessionInv(s), NEW frame, NEW command,
           Handle(s, frame, command), received' = received
    PROVE  /\ inbound'[s] = inbound[s] \ {frame}
           /\ \A t \in Sessions : t # s => inbound'[t] = inbound[t]
           /\ inbound' \in [Sessions -> SUBSET ParsedFrames]
           /\ \A x \in Handled(s) : x \in Handled(s)'
           /\ frame \in Range(received[s]) => frame \in Handled(s)'
           /\ frame \notin Handled(s)
<1>1. frame \in inbound[s] /\ inbound' = [inbound EXCEPT ![s] = @ \ {frame}]
  BY DEF Handle
<1>2. /\ inbound'[s] = inbound[s] \ {frame}
      /\ \A t \in Sessions : t # s => inbound'[t] = inbound[t]
      /\ inbound' \in [Sessions -> SUBSET ParsedFrames]
  BY <1>1 DEF Shape
<1>. QED
  BY <1>1, <1>2 DEF Handled

LEMMA HandleConnectStep ==
    ASSUME Inv, NEW s \in Sessions, NEW frame, HandleConnect(s, frame)
    PROVE  Inv' /\ (link[s] = "open" => Way(s)' = Way(s) \cup {Connected})
<1>1. Shape /\ SessionInv(s) /\ frame \in inbound[s] /\ frame.command = "CONNECT"
  BY DEF Inv, HandleConnect, Handle
<1>2. /\ Handle(s, frame, "CONNECT")
      /\ outbound' = [outbound EXCEPT
             ![s] = IF link[s] = "open" THEN @ \cup {Connected} ELSE {}]
      /\ UNCHANGED <<link, connected, counter, subscriptions, response, transmitted,
                     toServer, decoder, received, registered, toClient, topic>>
  BY DEF HandleConnect, pageVars, wireVars
<1>3. frame = Parsed(Connect) /\ frame \in Range(received[s])
  BY <1>1, FrameAtHand
<1>4. /\ inbound'[s] = inbound[s] \ {frame}
      /\ \A t \in Sessions : t # s => inbound'[t] = inbound[t]
      /\ inbound' \in [Sessions -> SUBSET ParsedFrames]
      /\ \A x \in Handled(s) : x \in Handled(s)'
      /\ frame \in Handled(s)' /\ frame \notin Handled(s)
  BY <1>1, <1>2, <1>3, HandleMarks
<1>5. /\ outbound'[s] = IF link[s] = "open" THEN outbound[s] \cup {Connected} ELSE {}
      /\ \A t \in Sessions : t # s => outbound'[t] = outbound[t]
      /\ outbound' \in [Sessions -> SUBSET Frames]
  BY <1>1, <1>2, FramesByKind DEF Shape
<1>6. Shape'
  BY <1>1, <1>2, <1>4, <1>5 DEF Shape
<1>7. \A t \in Sessions : t # s => SameAt(t)
  BY <1>2, <1>4, <1>5 DEF SameAt
<1>8. PageInv(s)' /\ WireInv(s)' /\ ReceivedInv(s)'
  BY <1>1, <1>2, PageKept, WireKept, ReceivedKept DEF SessionInv
<1>9. ServerInv(s)'
  BY <1>1, <1>2, <1>4 DEF SessionInv, ServerInv
<1>10. CASE link[s] = "open"
  <2>1. Way(s)' = Way(s) \cup {Connected}
    BY <1>2, <1>5, <1>10 DEF Way
  <2>2. Connected \notin Way(s) /\ counter[s] = 0
    BY <1>1, <1>3, <1>4, <1>10 DEF SessionInv, WayInv, Shape
  <2>3. Connected \notin Range(toClient[s])
    BY <2>2 DEF Way
  <2>4. WayInv(s)'
    BY <1>1, <1>2, <1>3, <1>4, <1>5, <1>10, <2>1, <2>2, <2>3 DEF SessionInv, WayInv
  <2>5. OnTheWay(s)' = OnTheWay(s)
    <3>1. \A l \in Line : Connected.body # Body(l)
      BY PartsOfFrames, BodiesDiffer
    <3>2. \A l \in Line : (\E f \in Way(s)' : f.body = Body(l))
                          <=> (\E f \in Way(s) : f.body = Body(l))
      BY <2>1, <3>1
    <3>. QED
      BY <3>2 DEF OnTheWay, Way
  <2>6. GapInv(s)'
    BY <1>1, <1>2, <2>5 DEF SessionInv, GapInv, Due
  <2>. QED
    BY <1>2, <1>6, <1>7, <1>8, <1>9, <2>1, <2>4, <2>6, StepOfOne
<1>11. CASE link[s] # "open"
  <2>1. Way(s) = {} /\ Way(s)' = {} /\ outbound'[s] = {}
    BY <1>1, <1>2, <1>5, <1>11 DEF SessionInv, WayInv, Way, Range
  <2>2. WayInv(s)' /\ GapInv(s)'
    BY <1>1, <1>2, <1>11, <2>1 DEF SessionInv, WayInv, GapInv, Way
  <2>. QED
    BY <1>2, <1>6, <1>7, <1>8, <1>9, <1>11, <2>2, StepOfOne
<1>. QED
  BY <1>10, <1>11

LEMMA HandleSubscribeStep ==
    ASSUME Inv, NEW s \in Sessions, NEW frame, HandleSubscribe(s, frame)
    PROVE  Inv' /\ registered'[s] = {0} /\ counter[s] = 1
<1>1. Shape /\ SessionInv(s) /\ frame \in inbound[s] /\ frame.command = "SUBSCRIBE"
  BY DEF Inv, HandleSubscribe, Handle
<1>2. /\ Handle(s, frame, "SUBSCRIBE")
      /\ registered' = [registered EXCEPT ![s] = @ \cup {frame.headers["id"]}]
      /\ UNCHANGED <<link, connected, counter, subscriptions, response, transmitted,
                     toServer, decoder, received, outbound, toClient, topic>>
  BY DEF HandleSubscribe, pageVars, wireVars
<1>3. frame.headers["id"] = 0 /\ counter[s] = 1
  BY <1>1, FrameAtHand
<1>4. /\ inbound'[s] = inbound[s] \ {frame}
      /\ \A t \in Sessions : t # s => inbound'[t] = inbound[t]
      /\ inbound' \in [Sessions -> SUBSET ParsedFrames]
      /\ \A x \in Handled(s) : x \in Handled(s)'
  BY <1>1, <1>2, HandleMarks
<1>5. /\ registered'[s] = {0} /\ registered' \in [Sessions -> SUBSET {0}]
      /\ \A t \in Sessions : t # s => registered'[t] = registered[t]
  BY <1>1, <1>2, <1>3 DEF Shape
<1>6. Shape'
  BY <1>1, <1>2, <1>4, <1>5 DEF Shape
<1>7. \A t \in Sessions : t # s => SameAt(t)
  BY <1>2, <1>4, <1>5 DEF SameAt
<1>8. PageInv(s)' /\ WireInv(s)' /\ ReceivedInv(s)' /\ GapInv(s)'
  BY <1>1, <1>2, PageKept, WireKept, ReceivedKept, GapKept DEF SessionInv
<1>9. ServerInv(s)'
  BY <1>1, <1>2, <1>3, <1>4 DEF SessionInv, ServerInv
<1>10. WayInv(s)'
  BY <1>1, <1>2, <1>4, <1>5 DEF SessionInv, WayInv, Way
<1>. QED
  BY <1>2, <1>3, <1>5, <1>6, <1>7, <1>8, <1>9, <1>10, StepOfOne

LEMMA HandleDisconnectStep ==
    ASSUME Inv, NEW s \in Sessions, NEW frame, HandleDisconnect(s, frame)
    PROVE  Inv' /\ link[s] \in {"closed", "ended"}
<1>1. Shape /\ SessionInv(s) /\ frame \in inbound[s] /\ frame.command = "DISCONNECT"
  BY DEF Inv, HandleDisconnect, Handle
<1>2. /\ Handle(s, frame, "DISCONNECT")
      /\ registered' = [registered EXCEPT ![s] = {}]
      /\ UNCHANGED <<link, connected, counter, subscriptions, response, transmitted,
                     toServer, decoder, received, outbound, toClient, topic>>
  BY DEF HandleDisconnect, pageVars, wireVars
<1>3. link[s] \in {"closed", "ended"}
  BY <1>1, FrameAtHand
<1>4. /\ inbound'[s] = inbound[s] \ {frame}
      /\ \A t \in Sessions : t # s => inbound'[t] = inbound[t]
      /\ inbound' \in [Sessions -> SUBSET ParsedFrames]
      /\ \A x \in Handled(s) : x \in Handled(s)'
  BY <1>1, <1>2, HandleMarks
<1>5. /\ registered'[s] = {} /\ registered' \in [Sessions -> SUBSET {0}]
      /\ \A t \in Sessions : t # s => registered'[t] = registered[t]
  BY <1>1, <1>2 DEF Shape
<1>6. Shape'
  BY <1>1, <1>2, <1>4, <1>5 DEF Shape
<1>7. \A t \in Sessions : t # s => SameAt(t)
  BY <1>2, <1>4, <1>5 DEF SameAt
<1>8. PageInv(s)' /\ WireInv(s)' /\ ReceivedInv(s)' /\ GapInv(s)'
  BY <1>1, <1>2, PageKept, WireKept, ReceivedKept, GapKept DEF SessionInv
<1>9. ServerInv(s)'
  BY <1>1, <1>2, <1>4, <1>5 DEF SessionInv, ServerInv
<1>10. WayInv(s)'
  BY <1>1, <1>2, <1>3, <1>4 DEF SessionInv, WayInv, Way
<1>. QED
  BY <1>2, <1>3, <1>6, <1>7, <1>8, <1>9, <1>10, StepOfOne

LEMMA SessionEndsStep ==
    ASSUME Inv, NEW s \in Sessions, SessionEnds(s)
    PROVE  Inv'
<1>. DEFINE p == Parsed(DisconnectFrame)
<1>1. Shape /\ SessionInv(s)
  BY DEF Inv
<1>2. /\ link[s] = "closed" /\ toServer[s] = <<>>
      /\ link' = [link EXCEPT ![s] = "ended"]
      /\ inbound' = [inbound EXCEPT ![s] = @ \cup {p}]
      /\ decoder' = [decoder EXCEPT ![s] = <<>>]
      /\ UNCHANGED <<connected, counter, subscriptions, response, transmitted, toServer,
                     received, registered, outbound, toClient, topic>>
  BY DEF SessionEnds, pageVars, wireVars
<1>3. p \in ParsedFrames /\ \A t \in Sessions : Parsed(Greeting(t)) # p
  BY FramesByKind, PartsOfFrames, ReadingOfFrame
<1>. HIDE DEF p
<1>4. /\ link'[s] = "ended" /\ link' \in [Sessions -> Link]
      /\ \A t \in Sessions : t # s => link'[t] = link[t]
  BY <1>1, <1>2 DEF Shape, Link
<1>5. /\ inbound'[s] = inbound[s] \cup {p} /\ inbound' \in [Sessions -> SUBSET ParsedFrames]
      /\ \A t \in Sessions : t # s => inbound'[t] = inbound[t]
  <2>1. inbound[s] \cup {p} \in SUBSET ParsedFrames
    BY <1>1, <1>3 DEF Shape
  <2>. QED
    BY <1>1, <1>2, <2>1 DEF Shape
<1>6. decoder' \in [Sessions -> Seq(Token)] /\ \A t \in Sessions : t # s => decoder'[t] = decoder[t]
  BY <1>1, <1>2 DEF Shape
<1>7. Shape'
  BY <1>1, <1>2, <1>4, <1>5, <1>6 DEF Shape
<1>8. \A t \in Sessions : t # s => SameAt(t)
  BY <1>2, <1>4, <1>5, <1>6 DEF SameAt
<1>9. PageInv(s)'
  BY <1>1, <1>2, <1>4 DEF SessionInv, PageInv, Script
<1>10. WireInv(s)' /\ ReceivedInv(s)'
  BY <1>1, <1>2, <1>4, ReceivedKept DEF SessionInv, WireInv
<1>11. ServerInv(s)'
  BY <1>1, <1>2, <1>3, <1>4, <1>5 DEF SessionInv, ServerInv, Handled, p
<1>12. WayInv(s)' /\ GapInv(s)'
  BY <1>1, <1>2, <1>4 DEF SessionInv, WayInv, GapInv, Way
<1>. QED
  BY <1>2, <1>7, <1>8, <1>9, <1>10, <1>11, <1>12, StepOfOne

LEMMA DeliverKeeps ==
    ASSUME Inv, NEW s \in Sessions, NEW frame, Deliver(s, frame)
    PROVE  Inv' /\ Way(s)' = Way(s)
<1>1. Shape /\ SessionInv(s) /\ WayInv(s)
  BY DEF Inv, SessionInv
<1>2. /\ frame \in outbound[s]
      /\ outbound' = [outbound EXCEPT ![s] = @ \ {frame}]
      /\ toClient' = [toClient EXCEPT ![s] = Append(@, frame)]
      /\ UNCHANGED <<link, connected, counter, subscriptions, response, transmitted,
                     toServer, decoder, received, inbound, registered, topic>>
  BY DEF Deliver, pageVars, wireVars, serverVars
<1>3. frame \in Frames /\ toClient[s] \in Seq(Frames) /\ frame \notin Range(toClient[s])
  BY <1>1, <1>2 DEF Shape, WayInv
<1>4. /\ Append(toClient[s], frame) \in Seq(Frames)
      /\ Range(Append(toClient[s], frame)) = Range(toClient[s]) \cup {frame}
      /\ \A i \in DOMAIN toClient[s] : Append(toClient[s], frame)[i] = toClient[s][i]
      /\ DOMAIN Append(toClient[s], frame) = DOMAIN toClient[s] \cup {Len(toClient[s]) + 1}
      /\ Append(toClient[s], frame)[Len(toClient[s]) + 1] = frame
  BY <1>3, RangeOfAppend
<1>5. /\ outbound'[s] = outbound[s] \ {frame} /\ outbound' \in [Sessions -> SUBSET Frames]
      /\ toClient'[s] = Append(toClient[s], frame)
      /\ toClient' \in [Sessions -> Seq(Frames)]
      /\ \A t \in Sessions : t # s => outbound'[t] = outbound[t] /\ toClient'[t] = toClient[t]
  BY <1>1, <1>2, <1>4 DEF Shape
<1>6. Shape'
  BY <1>1, <1>2, <1>5 DEF Shape
<1>7. \A t \in Sessions : t # s => SameAt(t)
  BY <1>2, <1>5 DEF SameAt
<1>8. PageInv(s)' /\ WireInv(s)' /\ ReceivedInv(s)' /\ ServerInv(s)'
  BY <1>1, <1>2, PageKept, WireKept, ReceivedKept, ServerKept DEF SessionInv
<1>9. Way(s)' = Way(s) /\ Handled(s)' = Handled(s) /\ link[s] = "open"
  BY <1>1, <1>2, <1>4, <1>5 DEF Way, Handled, WayInv
<1>10. \A i, j \in DOMAIN toClient'[s] : toClient'[s][i] = toClient'[s][j] => i = j
  <2>1. \A i \in DOMAIN toClient[s] : toClient[s][i] # frame
    BY <1>3 DEF Range
  <2>. QED
    BY <1>1, <1>4, <1>5, <2>1 DEF WayInv
<1>11. outbound'[s] \cap Range(toClient'[s]) = {}
  BY <1>1, <1>4, <1>5 DEF WayInv
<1>12. WayInv(s)'
  BY <1>1, <1>2, <1>9, <1>10, <1>11 DEF WayInv
<1>13. GapInv(s)'
  <2>1. OnTheWay(s)' = OnTheWay(s)
    BY <1>9 DEF OnTheWay, Way
  <2>. QED
    BY <1>1, <1>2, <2>1 DEF SessionInv, GapInv, Due
<1>. QED
  BY <1>2, <1>6, <1>7, <1>8, <1>9, <1>12, <1>13, StepOfOne

-----------------------------------------------------------------------------
(* A line is broadcast *)

\* What is on its way to a session afterwards.
LEMMA BroadcastTo ==
    ASSUME Shape, NEW line \in Line, Broadcast(line)
    PROVE  /\ outbound' \in [Sessions -> SUBSET Frames]
           /\ topic' \in Seq(Line) /\ Range(topic') = Range(topic) \cup {line}
           /\ \A t \in Sessions :
                  outbound'[t] = IF link[t] # "open" THEN {}
                                 ELSE IF registered[t] = {} THEN outbound[t]
                                 ELSE outbound[t] \cup {MessageFrame(0, line)}
<1>1. topic \in Seq(Line) /\ topic' = Append(topic, line)
  BY DEF Shape, Broadcast
<1>2. topic' \in Seq(Line) /\ Range(topic') = Range(topic) \cup {line}
  BY <1>1, RangeOfAppend
<1>3. outbound' = [u \in Sessions |->
          IF link[u] # "open" THEN {}
          ELSE outbound[u] \cup {MessageFrame(id, line) : id \in registered[u]}]
  BY DEF Broadcast
<1>4. ASSUME NEW u \in Sessions
      PROVE  {MessageFrame(id, line) : id \in registered[u]}
               = IF registered[u] = {} THEN {} ELSE {MessageFrame(0, line)}
  <2>1. registered[u] = {} \/ registered[u] = {0}
    BY DEF Shape
  <2>. QED
    BY <2>1
<1>5. \A u \in Sessions : outbound[u] \subseteq Frames
  BY DEF Shape
<1>6. MessageFrame(0, line) \in Frames
  BY FramesByKind
<1>7. outbound' \in [Sessions -> SUBSET Frames]
  BY <1>3, <1>4, <1>5, <1>6
<1>. QED
  BY <1>2, <1>3, <1>4, <1>7

\* A line that is new keeps the invariant of each session, if the session whose
\* line it is has had its greeting handled.
LEMMA BroadcastKeeps ==
    ASSUME Shape, NEW t \in Sessions, SessionInv(t),
           NEW line \in Line, line \notin Range(topic), Broadcast(line),
           UNCHANGED <<link, counter, subscriptions, response, transmitted, toServer,
                       decoder, received, registered, toClient>>,
           inbound'[t] \subseteq inbound[t],
           t = line => Parsed(Greeting(t)) \in Handled(t)'
    PROVE  SessionInv(t)'
<1>. DEFINE f == MessageFrame(0, line)
<1>1. /\ topic' \in Seq(Line) /\ Range(topic') = Range(topic) \cup {line}
      /\ outbound'[t] = IF link[t] = "open" /\ registered[t] # {}
                        THEN outbound[t] \cup {f} ELSE outbound[t]
  <2>1. link[t] # "open" => outbound[t] = {}
    BY DEF SessionInv, WayInv
  <2>. QED
    BY <2>1, BroadcastTo
<1>2. PageInv(t)' /\ WireInv(t)' /\ ReceivedInv(t)'
  BY PageKept, WireKept, ReceivedKept DEF SessionInv
<1>3. \A x \in Handled(t) : x \in Handled(t)'
  BY DEF Handled
<1>4. ServerInv(t)'
  BY <1>1, <1>3 DEF SessionInv, ServerInv
<1>5. WayInv(t) /\ \A g \in Way(t) : g = Connected \/ \E l \in Range(topic) : g = MessageFrame(0, l)
  BY DEF SessionInv, WayInv
<1>6. f # Connected /\ f \notin Way(t)
  BY <1>5, PartsOfFrames, MessagesDiffer
<1>7. CASE link[t] = "open" /\ registered[t] # {}
  <2>1. Way(t)' = Way(t) \cup {f} /\ outbound'[t] = outbound[t] \cup {f}
    BY <1>1, <1>7 DEF Way
  <2>2. f \notin Range(toClient[t])
    BY <1>6 DEF Way
  <2>. HIDE DEF f
  <2>3. WayInv(t)'
    <3>1. \A g \in Way(t)' : g = Connected \/ \E l \in Range(topic') : g = MessageFrame(0, l)
      BY <1>1, <1>5, <2>1 DEF f
    <3>2. Connected \in Way(t)' => Connected \in Way(t)
      BY <1>6, <2>1
    <3>. QED
      BY <1>3, <1>5, <1>7, <2>1, <2>2, <3>1, <3>2 DEF WayInv
  <2>4. \A l \in Line : (\E g \in Way(t)' : g.body = Body(l))
                        <=> (\E g \in Way(t) : g.body = Body(l)) \/ l = line
    BY <2>1, PartsOfFrames, BodiesDiffer DEF f
  <2>5. Due(t)' = Due(t) \cup {line}
    <3>1. OnTheWay(t)' = OnTheWay(t) \cup {line}
      BY <2>4 DEF OnTheWay, Way
    <3>. QED
      BY <3>1 DEF Due
  <2>6. GapInv(t)'
    <3>1. SUFFICES ASSUME NEW i \in DOMAIN topic', NEW j \in DOMAIN topic',
                          i < j, topic'[i] \in Due(t)'
                   PROVE  topic'[j] \in Due(t)'
      BY DEF GapInv
    <3>2. /\ topic' = Append(topic, line) /\ topic \in Seq(Line)
      BY DEF Shape, Broadcast
    <3>3. /\ DOMAIN topic = 1 .. Len(topic) /\ Len(topic) \in Nat
          /\ DOMAIN topic' = 1 .. Len(topic) + 1
          /\ topic'[Len(topic) + 1] = line
          /\ \A k \in 1 .. Len(topic) : topic'[k] = topic[k]
      BY <3>2
    <3>4. CASE j = Len(topic) + 1
      BY <2>5, <3>3, <3>4
    <3>5. CASE j # Len(topic) + 1
      <4>1. i \in DOMAIN topic /\ j \in DOMAIN topic
            /\ topic'[i] = topic[i] /\ topic'[j] = topic[j]
        BY <3>1, <3>3, <3>5
      <4>2. topic[i] # line
        BY <4>1 DEF Range
      <4>. QED
        BY <1>7, <2>5, <3>1, <4>1, <4>2 DEF SessionInv, GapInv
    <3>. QED
      BY <3>4, <3>5
  <2>. QED
    BY <1>2, <1>4, <2>3, <2>6 DEF SessionInv
<1>8. CASE ~(link[t] = "open" /\ registered[t] # {})
  <2>1. outbound'[t] = outbound[t] /\ Way(t)' = Way(t)
    BY <1>1, <1>8 DEF Way
  <2>2. WayInv(t)'
    BY <1>1, <1>3, <1>5, <2>1 DEF WayInv
  <2>3. GapInv(t)'
    <3>1. SUFFICES ASSUME link[t] = "open" PROVE GapInv(t)'
      BY DEF GapInv
    <3>2. Way(t) \subseteq {Connected} /\ response[t] = <<>>
      BY <1>5, <1>8, <3>1 DEF WayInv
    <3>3. OnTheWay(t)' = {}
      BY <2>1, <3>2, PartsOfFrames, BodiesDiffer DEF OnTheWay, Way
    <3>4. Due(t)' = {}
      BY <3>2, <3>3 DEF Due, Range
    <3>. QED
      BY <3>4 DEF GapInv
  <2>. QED
    BY <1>2, <1>4, <2>2, <2>3 DEF SessionInv
<1>. QED
  BY <1>7, <1>8

LEMMA HandleSendStep ==
    ASSUME Inv, NEW s \in Sessions, NEW frame, HandleSend(s, frame)
    PROVE  Inv' /\ s \notin Range(topic) /\ s \in Line
<1>1. Shape /\ SessionInv(s) /\ frame \in inbound[s] /\ frame.command = "SEND"
  BY DEF Inv, HandleSend, Handle
<1>2. /\ Handle(s, frame, "SEND") /\ Broadcast(s)
      /\ UNCHANGED <<link, connected, counter, subscriptions, response, transmitted,
                     toServer, decoder, received, registered, toClient>>
  BY DEF HandleSend, pageVars, wireVars
<1>3. frame = Parsed(Greeting(s)) /\ frame \in Range(received[s])
  BY <1>1, FrameAtHand
<1>4. /\ inbound'[s] = inbound[s] \ {frame}
      /\ \A t \in Sessions : t # s => inbound'[t] = inbound[t]
      /\ inbound' \in [Sessions -> SUBSET ParsedFrames]
      /\ frame \in Handled(s)' /\ frame \notin Handled(s)
  BY <1>1, <1>2, <1>3, HandleMarks
<1>5. s \notin Range(topic) /\ s \in Line
  BY <1>1, <1>3, <1>4 DEF SessionInv, ServerInv, Line
<1>6. outbound' \in [Sessions -> SUBSET Frames] /\ topic' \in Seq(Line)
  BY <1>1, <1>2, <1>5, BroadcastTo
<1>7. Shape'
  BY <1>1, <1>2, <1>4, <1>6 DEF Shape
<1>8. ASSUME NEW t \in Sessions PROVE SessionInv(t)'
  <2>1. SessionInv(t) /\ inbound'[t] \subseteq inbound[t]
    BY <1>4 DEF Inv
  <2>2. t = s => Parsed(Greeting(t)) \in Handled(t)'
    BY <1>3, <1>4
  <2>. QED
    BY <1>1, <1>2, <1>5, <2>1, <2>2, BroadcastKeeps
<1>. QED
  BY <1>5, <1>7, <1>8 DEF Inv

LEMMA AnnounceStep ==
    ASSUME Inv, NEW line \in Announcements, Announce(line)
    PROVE  Inv'
<1>1. /\ Shape /\ Broadcast(line) /\ line \notin Range(topic) /\ line \in Line
      /\ UNCHANGED <<link, connected, counter, subscriptions, response, transmitted,
                     toServer, decoder, received, inbound, registered, toClient>>
  BY DEF Inv, Announce, pageVars, wireVars, serverVars, Line
<1>2. ASSUME NEW t \in Sessions PROVE SessionInv(t)'
  <2>1. t # line
    BY LinesAssumption
  <2>2. SessionInv(t) /\ inbound'[t] \subseteq inbound[t]
    BY <1>1 DEF Inv
  <2>. QED
    BY <1>1, <2>1, <2>2, BroadcastKeeps
<1>3. Shape'
  <2>1. outbound' \in [Sessions -> SUBSET Frames] /\ topic' \in Seq(Line)
    BY <1>1, BroadcastTo
  <2>. QED
    BY <1>1, <2>1 DEF Shape
<1>. QED
  BY <1>2, <1>3 DEF Inv

-----------------------------------------------------------------------------
(* The invariant and what follows from it *)

LEMMA InitIsInv == Init => Inv
<1>1. SUFFICES ASSUME Init PROVE Inv
  OBVIOUS
<1>2. Shape
  <2>1. \A S : <<>> \in Seq(S)
    OBVIOUS
  <2>2. \A S : \A x \in S : [s \in Sessions |-> x] \in [Sessions -> S]
    OBVIOUS
  <2>3. /\ link \in [Sessions -> Link] /\ connected \in [Sessions -> BOOLEAN]
        /\ counter \in [Sessions -> {0, 1}]
    BY <1>1, <2>2 DEF Init, Link
  <2>4. /\ subscriptions \in [Sessions -> SUBSET Nat]
        /\ inbound \in [Sessions -> SUBSET ParsedFrames]
        /\ registered \in [Sessions -> SUBSET {0}]
        /\ outbound \in [Sessions -> SUBSET Frames]
    BY <1>1 DEF Init
  <2>5. /\ response \in [Sessions -> Seq(Line)]
        /\ transmitted \in [Sessions -> Seq(Frames)]
        /\ toServer \in [Sessions -> Seq(Seq(Token))]
        /\ decoder \in [Sessions -> Seq(Token)]
        /\ received \in [Sessions -> Seq(ParsedFrames)]
        /\ toClient \in [Sessions -> Seq(Frames)]
        /\ topic \in Seq(Line)
    BY <1>1, <2>1, <2>2 DEF Init
  <2>. QED
    BY <2>3, <2>4, <2>5 DEF Shape
<1>3. ASSUME NEW s \in Sessions PROVE SessionInv(s)
  <2>1. /\ link[s] = "none" /\ counter[s] = 0 /\ subscriptions[s] = {} /\ response[s] = <<>>
        /\ transmitted[s] = <<>> /\ toServer[s] = <<>> /\ decoder[s] = <<>>
        /\ received[s] = <<>> /\ inbound[s] = {} /\ registered[s] = {}
        /\ outbound[s] = {} /\ toClient[s] = <<>> /\ topic = <<>>
    BY <1>1 DEF Init
  <2>2. PageInv(s) /\ ServerInv(s) /\ GapInv(s)
    BY <2>1 DEF PageInv, ServerInv, GapInv, Range
  <2>3. WireInv(s)
    BY <2>1, NothingCarried DEF WireInv
  <2>4. ReceivedInv(s)
    BY <2>1 DEF ReceivedInv, Reads
  <2>5. WayInv(s)
    BY <2>1 DEF WayInv, Way, Range
  <2>. QED
    BY <2>2, <2>3, <2>4, <2>5 DEF SessionInv
<1>. QED
  BY <1>2, <1>3 DEF Inv

LEMMA NextKeepsInv == Inv /\ [Next]_vars => Inv'
<1>1. SUFFICES ASSUME Inv, [Next]_vars PROVE Inv'
  OBVIOUS
<1>2. CASE UNCHANGED vars
  <2>1. Shape'
    <3>1. UNCHANGED <<link, connected, counter, subscriptions, response, transmitted,
                      toServer, decoder, received, inbound, registered, outbound,
                      toClient, topic>>
      BY <1>2 DEF vars, pageVars, wireVars, serverVars
    <3>. QED
      BY <1>1, <3>1 DEF Inv, Shape
  <2>2. topic' = topic /\ \A t : SameAt(t)
    BY <1>2 DEF SameAt, vars, pageVars, wireVars, serverVars
  <2>. QED
    BY <1>1, <2>1, <2>2, SessionKept DEF Inv
<1>3. ASSUME NEW line \in Announcements, Announce(line) PROVE Inv'
  BY <1>1, <1>3, AnnounceStep
<1>4. ASSUME NEW s \in Sessions, PageStep(s) PROVE Inv'
  BY <1>1, <1>4, OpenStep, ReceiveConnectedStep, ReceiveMessageStep, DisconnectStep,
     BreakStep DEF PageStep
<1>5. ASSUME NEW s \in Sessions, HandleStep(s) PROVE Inv'
  BY <1>1, <1>5, HandleConnectStep, HandleSubscribeStep, HandleSendStep,
     HandleDisconnectStep DEF HandleStep
<1>6. ASSUME NEW s \in Sessions, ReceivePiece(s) \/ SessionEnds(s) \/ DeliverStep(s)
      PROVE  Inv'
  BY <1>1, <1>6, ReceivePieceStep, SessionEndsStep, DeliverKeeps DEF DeliverStep
<1>. QED
  BY <1>1, <1>2, <1>3, <1>4, <1>5, <1>6 DEF Next, SessionStep

\* The invariant, at every moment.
THEOREM SessionInvariant == Spec => []Inv
  BY InitIsInv, NextKeepsInv, PTL DEF Spec

\* A page transmits only what it may: one CONNECT, a subscription under an id it
\* has given, its greeting; pieces are not empty and not above the limit; the
\* server handles what it has decoded, and sends lines to subscriptions it has.
LEMMA InvImpliesTypeOK == Inv => TypeOK
<1>1. SUFFICES ASSUME Inv PROVE TypeOK
  OBVIOUS
<1>2. Shape
  BY <1>1 DEF Inv
<1>3. ASSUME NEW s \in Sessions
      PROVE  /\ transmitted[s] \in Seq(FromClient(s))
             /\ \A i \in DOMAIN toServer[s] : Len(toServer[s][i]) \in 1 .. FrameSize
             /\ inbound[s] \subseteq Range(received[s]) \cup {Parsed(DisconnectFrame)}
             /\ registered[s] # {} => outbound[s] \subseteq FromServer(s)
             /\ \A i \in DOMAIN toClient[s] : Len(Reading[toClient[s][i]]) = 1
  <2>1. SessionInv(s)
    BY <1>1 DEF Inv
  <2>2. transmitted[s] \in Seq(FromClient(s))
    <3>1. counter[s] \in {0, 1} /\ transmitted[s] \in Seq(Frames)
      BY <1>2 DEF Shape
    <3>2. 0 \in 0 .. counter[s]
      BY <3>1
    <3>3. {Connect, Subscribe(0), Greeting(s), DisconnectFrame} \subseteq FromClient(s)
      BY <3>2 DEF FromClient
    <3>4. \A i \in DOMAIN transmitted[s] : transmitted[s][i] \in FromClient(s)
      BY <1>2, <2>1, <3>3, FramesOfPage DEF SessionInv, Range
    <3>. QED
      BY <3>1, <3>4
  <2>3. ASSUME NEW i \in DOMAIN toServer[s] PROVE Len(toServer[s][i]) \in 1 .. FrameSize
    <3>1. toServer[s] \in Seq(Seq(Token)) /\ transmitted[s] \in Seq(Frames)
      BY <1>2 DEF Shape
    <3>2. i \in 1 .. Len(toServer[s]) /\ Len(toServer[s]) \in Nat /\ toServer[s] # <<>>
      BY <3>1
    <3>3. PICK at : Carries(transmitted[s], Len(received[s]), decoder[s], toServer[s], at)
      BY <2>1, <3>2 DEF SessionInv, WireInv
    <3>4. /\ at[i] \in Places(transmitted[s]) /\ at[i].frame <= Len(transmitted[s])
          /\ toServer[s][i] = Cut[transmitted[s][at[i].frame]][at[i].piece]
      <4>1. i \in 1 .. Len(toServer[s]) + 1
        BY <3>2
      <4>2. at[i] \in Places(transmitted[s])
        BY <3>3, <4>1 DEF Carries
      <4>. QED
        BY <3>2, <3>3, <4>2 DEF Carries
    <3>5. PICK f \in Frames : f = transmitted[s][at[i].frame]
      BY <3>1, <3>4 DEF Places
    <3>6. at[i].piece \in 1 .. Len(Cut[f])
      BY <3>4, <3>5, PiecesOfFrame DEF Places
    <3>. QED
      BY <3>4, <3>5, <3>6, PiecesOfFrame
  <2>4. inbound[s] \subseteq Range(received[s]) \cup {Parsed(DisconnectFrame)}
    BY <2>1 DEF SessionInv, ServerInv
  <2>5. registered[s] # {} => outbound[s] \subseteq FromServer(s)
    <3>1. registered[s] # {} => 0 \in registered[s]
      BY <1>2 DEF Shape
    <3>2. \A f \in outbound[s] : f = Connected \/ \E l \in Line : f = MessageFrame(0, l)
      <4>1. Range(topic) \subseteq Line
        BY <1>2 DEF Shape, Range
      <4>. QED
        BY <2>1, <4>1 DEF SessionInv, WayInv, Way
    <3>. QED
      BY <3>1, <3>2 DEF FromServer
  <2>6. ASSUME NEW i \in DOMAIN toClient[s] PROVE Len(Reading[toClient[s][i]]) = 1
    <3>1. toClient[s][i] \in Frames
      BY <1>2 DEF Shape
    <3>2. Len(<<Parsed(toClient[s][i])>>) = 1
      OBVIOUS
    <3>3. Reading[toClient[s][i]] = <<Parsed(toClient[s][i])>>
      BY Zenon, <3>1, ReadingOfFrame
    <3>. QED
      BY <3>2, <3>3
  <2>. QED
    BY <2>2, <2>3, <2>4, <2>5, <2>6
<1>4. /\ link \in [Sessions -> Link] /\ connected \in [Sessions -> BOOLEAN]
      /\ counter \in [Sessions -> Nat] /\ subscriptions \in [Sessions -> SUBSET Nat]
      /\ response \in [Sessions -> Seq(Line)] /\ registered \in [Sessions -> SUBSET Nat]
      /\ topic \in Seq(Line)
  <2>1. counter \in [Sessions -> Nat] /\ registered \in [Sessions -> SUBSET Nat]
    <3>1. SUBSET {0} \subseteq SUBSET Nat /\ {0, 1} \subseteq Nat
      OBVIOUS
    <3>. QED
      BY <1>2, <3>1 DEF Shape
  <2>. QED
    BY <1>2, <2>1 DEF Shape
<1>. QED
  BY <1>3, <1>4 DEF TypeOK

\* TypeOK: sessions exchange only the frames they should.
THEOREM TypeCorrect == Spec => []TypeOK
  BY SessionInvariant, InvImpliesTypeOK, PTL

\* Once nothing is on its way, nothing is missing.
LEMMA InvImpliesWhole == Inv => FramesArriveWhole
<1>1. SUFFICES ASSUME Inv, NEW s \in Sessions
               PROVE  LET parsed == [i \in DOMAIN transmitted[s] |-> Parsed(transmitted[s][i])]
                      IN  /\ IsPrefix(received[s], parsed)
                          /\ link[s] = "open" /\ toServer[s] = <<>> => received[s] = parsed
  BY DEF FramesArriveWhole
<1>. DEFINE parsed == [i \in DOMAIN transmitted[s] |-> Parsed(transmitted[s][i])]
            n == Len(received[s])
            m == Len(transmitted[s])
<1>2. SessionInv(s) /\ received[s] \in Seq(ParsedFrames) /\ transmitted[s] \in Seq(Frames)
  BY <1>1 DEF Inv, Shape
<1>3. /\ n \in Nat /\ m \in Nat /\ DOMAIN transmitted[s] = 1 .. m /\ n <= m
      /\ \A i \in 1 .. n : received[s][i] = Parsed(transmitted[s][i])
      /\ DOMAIN received[s] = 1 .. n
  BY <1>2 DEF SessionInv, ReceivedInv, Reads
<1>4. parsed \in Seq(ParsedFrames) /\ Len(parsed) = m
  BY <1>2, <1>3, ReadingOfFrame
<1>5. \A i \in 1 .. n : parsed[i] = received[s][i]
  BY <1>3
<1>. HIDE DEF parsed, n, m
<1>6. IsPrefix(received[s], parsed)
  <2>1. SubSeq(received[s], 1, n) = SubSeq(parsed, 1, n)
    BY <1>2, <1>3, <1>4, <1>5 DEF n
  <2>. QED
    BY <1>3, <1>4, <2>1 DEF IsPrefix, n
<1>7. ASSUME link[s] = "open", toServer[s] = <<>> PROVE received[s] = parsed
  <2>1. PICK at : /\ Carries(transmitted[s], n, decoder[s], toServer[s], at)
                  /\ Complete(transmitted[s], toServer[s], at)
    BY <1>2, <1>7 DEF SessionInv, WireInv, n
  <2>2. Len(toServer[s]) + 1 = 1
    BY <1>7
  <2>3. at[1].frame = n + 1 /\ at[1] = [frame |-> m + 1, piece |-> 1]
    BY <2>1, <2>2 DEF Carries, Complete, m
  <2>4. n = m
    BY <1>3, <2>3
  <2>. QED
    BY <1>2, <1>3, <1>4, <1>5, <2>4 DEF n
<1>. QED
  BY <1>6, <1>7 DEF parsed

\* FramesArriveWhole: whatever the pieces, the server decodes the frames that
\* were transmitted.
THEOREM FramesStayWhole == Spec => []FramesArriveWhole
  BY SessionInvariant, InvImpliesWhole, PTL

LEMMA InvImpliesNoGaps == Inv => NoGaps
  BY DEF Inv, SessionInv, GapInv, Due, NoGaps

\* NoGaps: from the first line a session gets, it misses none.
THEOREM SessionsMissNothing == Spec => []NoGaps
  BY SessionInvariant, InvImpliesNoGaps, PTL

-----------------------------------------------------------------------------
(* The refinement *)

FeedStates == [s \in Sessions |-> FeedState(s)]
FeedPending == [s \in Sessions |-> IF link[s] = "open" THEN OnTheWay(s) ELSE {}]

\* The steps of TopicFeed in terms of this module.
LEMMA StepsOfFeed ==
    /\ Feed!feedVars = <<topic, FeedStates, FeedPending, response>>
    /\ \A s : Feed!Join(s) <=>
           /\ FeedStates[s] = "absent"
           /\ FeedStates' = [FeedStates EXCEPT ![s] = "joining"]
           /\ UNCHANGED <<topic, FeedPending, response>>
    /\ \A s : Feed!Attach(s) <=>
           /\ FeedStates[s] = "joining"
           /\ FeedStates' = [FeedStates EXCEPT ![s] = "attached"]
           /\ UNCHANGED <<topic, FeedPending, response>>
    /\ \A s : Feed!Leave(s) <=>
           /\ FeedStates[s] \in {"joining", "attached"}
           /\ FeedStates' = [FeedStates EXCEPT ![s] = "left"]
           /\ FeedPending' = [FeedPending EXCEPT ![s] = {}]
           /\ UNCHANGED <<topic, response>>
    /\ \A l : Feed!PublishLine(l) <=>
           /\ l \notin Range(topic)
           /\ topic' = Append(topic, l)
           /\ FeedPending' = [s \in Sessions |->
                 IF FeedStates[s] = "attached" THEN FeedPending[s] \cup {l} ELSE FeedPending[s]]
           /\ UNCHANGED <<FeedStates, response>>
    /\ \A s, l : Feed!ShowLine(s, l) <=>
           /\ l \in FeedPending[s]
           /\ FeedPending' = [FeedPending EXCEPT ![s] = @ \ {l}]
           /\ response' = [response EXCEPT ![s] = Append(@, l)]
           /\ UNCHANGED <<topic, FeedStates>>
<1>1. Feed!feedVars = <<topic, FeedStates, FeedPending, response>>
  BY DEF Feed!feedVars, FeedStates, FeedPending
<1>2. \A s : Feed!Join(s) <=>
          /\ FeedStates[s] = "absent"
          /\ FeedStates' = [FeedStates EXCEPT ![s] = "joining"]
          /\ UNCHANGED <<topic, FeedPending, response>>
  BY Zenon DEF Feed!Join, FeedStates, FeedPending
<1>3. \A s : Feed!Attach(s) <=>
          /\ FeedStates[s] = "joining"
          /\ FeedStates' = [FeedStates EXCEPT ![s] = "attached"]
          /\ UNCHANGED <<topic, FeedPending, response>>
  BY Zenon DEF Feed!Attach, FeedStates, FeedPending
<1>4. \A s : Feed!Leave(s) <=>
          /\ FeedStates[s] \in {"joining", "attached"}
          /\ FeedStates' = [FeedStates EXCEPT ![s] = "left"]
          /\ FeedPending' = [FeedPending EXCEPT ![s] = {}]
          /\ UNCHANGED <<topic, response>>
  BY Zenon DEF Feed!Leave, FeedStates, FeedPending
<1>5. \A l : Feed!PublishLine(l) <=>
          /\ l \notin Range(topic)
          /\ topic' = Append(topic, l)
          /\ FeedPending' = [s \in Sessions |->
                IF FeedStates[s] = "attached" THEN FeedPending[s] \cup {l} ELSE FeedPending[s]]
          /\ UNCHANGED <<FeedStates, response>>
  <2>1. Feed!Range(topic) = Range(topic)
    BY DEF Feed!Range, Range
  <2>. QED
    BY Zenon, <2>1 DEF Feed!PublishLine, FeedStates, FeedPending
<1>6. \A s, l : Feed!ShowLine(s, l) <=>
          /\ l \in FeedPending[s]
          /\ FeedPending' = [FeedPending EXCEPT ![s] = @ \ {l}]
          /\ response' = [response EXCEPT ![s] = Append(@, l)]
          /\ UNCHANGED <<topic, FeedStates>>
  BY Zenon DEF Feed!ShowLine, FeedStates, FeedPending
<1>. QED
  BY <1>1, <1>2, <1>3, <1>4, <1>5, <1>6

LEMMA StatesOfFeed ==
    ASSUME Shape, NEW s \in Sessions
    PROVE  /\ FeedStates[s] \in {"absent", "joining", "attached", "left"}
           /\ FeedStates[s] = "absent" <=> link[s] = "none"
           /\ FeedStates[s] = "joining" <=> link[s] = "open" /\ registered[s] = {}
           /\ FeedStates[s] = "attached" <=> link[s] = "open" /\ registered[s] # {}
  BY DEF FeedStates, FeedState, Shape, Link

LEMMA StatesOfFeedNext ==
    ASSUME Shape', NEW s \in Sessions
    PROVE  /\ FeedStates'[s] \in {"absent", "joining", "attached", "left"}
           /\ FeedStates'[s] = "absent" <=> link'[s] = "none"
           /\ FeedStates'[s] = "joining" <=> link'[s] = "open" /\ registered'[s] = {}
           /\ FeedStates'[s] = "attached" <=> link'[s] = "open" /\ registered'[s] # {}
  BY DEF FeedStates, FeedState, Shape, Link

\* Lines on their way are the messages on their way.
LEMMA PendingOfFeed ==
    ASSUME NEW s \in Sessions, WayInv(s)
    PROVE  FeedPending[s] = IF link[s] = "open"
                            THEN {l \in Line : MessageFrame(0, l) \in Way(s)} ELSE {}
<1>1. \A f \in Way(s) : f = Connected \/ \E l : f = MessageFrame(0, l)
  BY DEF WayInv
<1>2. \A l \in Line : (\E f \in Way(s) : f.body = Body(l)) <=> MessageFrame(0, l) \in Way(s)
  BY <1>1, LinesOfMessages
<1>. QED
  BY <1>2 DEF FeedPending, OnTheWay, Way

LEMMA PendingOfFeedNext ==
    ASSUME NEW s \in Sessions, WayInv(s)'
    PROVE  FeedPending'[s] = IF link'[s] = "open"
                             THEN {l \in Line : MessageFrame(0, l) \in Way(s)'} ELSE {}
<1>1. \A f \in Way(s)' : f = Connected \/ \E l : f = MessageFrame(0, l)
  BY DEF WayInv
<1>2. \A l \in Line : (\E f \in Way(s)' : f.body = Body(l)) <=> MessageFrame(0, l) \in Way(s)'
  BY <1>1, LinesOfMessages
<1>. QED
  BY <1>2 DEF FeedPending, OnTheWay, Way

LEMMA FunctionsOfFeed ==
    /\ FeedStates = [s \in Sessions |-> FeedStates[s]]
    /\ FeedStates' = [s \in Sessions |-> FeedStates'[s]]
    /\ FeedPending = [s \in Sessions |-> FeedPending[s]]
    /\ FeedPending' = [s \in Sessions |-> FeedPending'[s]]
  BY DEF FeedStates, FeedPending

\* What a step does not touch.
LEMMA SameInFeed ==
    ASSUME NEW s \in Sessions, link'[s] = link[s], registered'[s] = registered[s],
           outbound'[s] = outbound[s], toClient'[s] = toClient[s]
    PROVE  FeedStates'[s] = FeedStates[s] /\ FeedPending'[s] = FeedPending[s]
  BY DEF FeedStates, FeedState, FeedPending, OnTheWay

\* What a step of StompSession is in terms of TopicFeed.
FeedMoves == [Feed!FeedNext]_(Feed!feedVars)

FeedSameAt(t) == FeedStates'[t] = FeedStates[t] /\ FeedPending'[t] = FeedPending[t]

LEMMA FeedIsOfStates ==
    /\ (\A t \in Sessions : FeedStates'[t] = FeedStates[t]) => FeedStates' = FeedStates
    /\ (\A t \in Sessions : FeedPending'[t] = FeedPending[t]) => FeedPending' = FeedPending
<1>1. (\A t \in Sessions : FeedStates'[t] = FeedStates[t]) => FeedStates' = FeedStates
  BY FunctionsOfFeed, SMT
<1>2. (\A t \in Sessions : FeedPending'[t] = FeedPending[t]) => FeedPending' = FeedPending
  BY FunctionsOfFeed, SMT
<1>. QED
  BY <1>1, <1>2

LEMMA FeedStutters ==
    ASSUME topic' = topic, response' = response, \A t \in Sessions : FeedSameAt(t)
    PROVE  FeedMoves
<1>1. FeedStates' = FeedStates /\ FeedPending' = FeedPending
  BY FeedIsOfStates DEF FeedSameAt
<1>2. Feed!feedVars' = Feed!feedVars
  <2>1. Feed!feedVars = <<topic, FeedStates, FeedPending, response>>
    BY StepsOfFeed
  <2>2. Feed!feedVars' = <<topic', FeedStates', FeedPending', response'>>
    BY DEF Feed!feedVars, FeedStates, FeedPending
  <2>. QED
    BY <1>1, <2>1, <2>2
<1>. QED
  BY <1>2 DEF FeedMoves

LEMMA OthersSameInFeed ==
    ASSUME NEW s \in Sessions,
           \A t \in Sessions : t # s =>
               /\ link'[t] = link[t] /\ registered'[t] = registered[t]
               /\ outbound'[t] = outbound[t] /\ toClient'[t] = toClient[t]
    PROVE  /\ \A t \in Sessions : t # s => FeedSameAt(t)
           /\ FeedStates' = [FeedStates EXCEPT ![s] = FeedStates'[s]]
           /\ FeedPending' = [FeedPending EXCEPT ![s] = FeedPending'[s]]
<1>1. \A t \in Sessions : t # s => FeedSameAt(t)
  BY SameInFeed DEF FeedSameAt
<1>2. FeedStates' = [FeedStates EXCEPT ![s] = FeedStates'[s]]
  BY <1>1, FunctionsOfFeed, SMT DEF FeedSameAt
<1>3. FeedPending' = [FeedPending EXCEPT ![s] = FeedPending'[s]]
  BY <1>1, FunctionsOfFeed, SMT DEF FeedSameAt
<1>. QED
  BY <1>1, <1>2, <1>3

LEMMA OpenMoves ==
    ASSUME Inv, Inv', NEW s \in Sessions, Open(s)
    PROVE  FeedMoves
<1>1. Shape /\ Shape' /\ SessionInv(s) /\ SessionInv(s)'
  BY DEF Inv
<1>2. /\ link[s] = "none" /\ link'[s] = "open" /\ registered' = registered
      /\ UNCHANGED <<outbound, toClient, topic, response>>
      /\ \A t \in Sessions : t # s => link'[t] = link[t]
  BY <1>1 DEF Open, serverVars, pageVars, Shape
<1>3. FeedStates' = [FeedStates EXCEPT ![s] = FeedStates'[s]]
      /\ FeedPending' = [FeedPending EXCEPT ![s] = FeedPending'[s]]
  BY <1>2, OthersSameInFeed
<1>4. registered[s] = {}
  BY <1>1, <1>2 DEF SessionInv, ServerInv, PageInv
<1>5. FeedStates[s] = "absent" /\ FeedStates'[s] = "joining"
  BY <1>1, <1>2, <1>4, StatesOfFeed, StatesOfFeedNext
<1>6. FeedPending[s] = {} /\ FeedPending'[s] = {}
  <2>1. Way(s)' = {}
    BY <1>1, <1>2 DEF SessionInv, WayInv, Way, Range
  <2>. QED
    BY <1>1, <1>2, <2>1, PendingOfFeed, PendingOfFeedNext DEF SessionInv
<1>7. FeedPending' = FeedPending
  BY <1>3, <1>6, FunctionsOfFeed, FeedIsOfStates
<1>8. Feed!Join(s)
  BY <1>2, <1>3, <1>5, <1>7, StepsOfFeed
<1>. QED
  BY <1>8 DEF FeedMoves, Feed!FeedNext

LEMMA ReceiveConnectedMoves ==
    ASSUME Inv, Inv', NEW s \in Sessions, ReceiveConnected(s)
    PROVE  FeedMoves
<1>1. Shape /\ Shape' /\ SessionInv(s) /\ SessionInv(s)'
  BY DEF Inv
<1>2. Receive(s, "CONNECTED") /\ response' = [response EXCEPT ![s] = <<>>]
      /\ UNCHANGED <<link, registered, outbound, topic>>
  BY DEF ReceiveConnected, serverVars
<1>3. /\ response[s] = <<>> /\ Way(s) = {Connected} /\ outbound[s] = {}
      /\ toClient' = [toClient EXCEPT ![s] = Tail(@)] /\ Tail(toClient[s]) = <<>>
  BY <1>1, <1>2, ConnectedAtHand
<1>4. response' = response /\ toClient'[s] = <<>>
      /\ \A t \in Sessions : t # s => toClient'[t] = toClient[t]
  BY <1>1, <1>2, <1>3 DEF Shape
<1>5. \A t \in Sessions : t # s => FeedSameAt(t)
  BY <1>2, <1>4, OthersSameInFeed
<1>6. FeedStates'[s] = FeedStates[s]
  BY <1>2 DEF FeedStates, FeedState
<1>7. FeedPending'[s] = FeedPending[s]
  <2>1. Way(s)' = {}
    BY <1>2, <1>3, <1>4 DEF Way, Range
  <2>2. \A l \in Line : MessageFrame(0, l) # Connected
    BY DEF MessageFrame, Connected, Frame
  <2>3. FeedPending[s] = {} /\ FeedPending'[s] = {}
    BY <1>1, <1>3, <2>1, <2>2, PendingOfFeed, PendingOfFeedNext DEF SessionInv
  <2>. QED
    BY <2>3
<1>. QED
  BY <1>2, <1>4, <1>5, <1>6, <1>7, FeedStutters DEF FeedSameAt

LEMMA ReceiveMessageMoves ==
    ASSUME Inv, Inv', NEW s \in Sessions, ReceiveMessage(s)
    PROVE  FeedMoves
<1>1. Shape /\ Shape' /\ SessionInv(s) /\ SessionInv(s)'
  BY DEF Inv
<1>2. PICK line \in Line :
          /\ link[s] = "open" /\ toClient[s] # <<>>
          /\ Head(toClient[s]) = MessageFrame(0, line)
          /\ MessageFrame(0, line) \in Way(s)
          /\ response' = [response EXCEPT ![s] = Append(@, line)]
          /\ toClient' = [toClient EXCEPT ![s] = Tail(@)]
  BY <1>1, MessageAtHand
<1>3. UNCHANGED <<link, registered, outbound, topic>>
  BY DEF ReceiveMessage, serverVars
<1>4. \A t \in Sessions : t # s => toClient'[t] = toClient[t]
  BY <1>1, <1>2 DEF Shape
<1>5. FeedPending' = [FeedPending EXCEPT ![s] = FeedPending'[s]]
      /\ \A t \in Sessions : t # s => FeedSameAt(t)
  BY <1>3, <1>4, OthersSameInFeed
<1>6. FeedStates'[s] = FeedStates[s]
  BY <1>3 DEF FeedStates, FeedState
<1>7. FeedStates' = FeedStates
  BY <1>5, <1>6, FeedIsOfStates DEF FeedSameAt
<1>8. Way(s)' = Way(s) \ {MessageFrame(0, line)}
  BY <1>2, ReceiveMessageStep
<1>9. /\ FeedPending[s] = {l \in Line : MessageFrame(0, l) \in Way(s)}
      /\ FeedPending'[s] = {l \in Line : MessageFrame(0, l) \in Way(s)'}
  BY <1>1, <1>2, <1>3, PendingOfFeed, PendingOfFeedNext DEF SessionInv
<1>10. line \in FeedPending[s] /\ FeedPending'[s] = FeedPending[s] \ {line}
  BY <1>2, <1>8, <1>9, MessagesDiffer
<1>11. FeedPending' = [FeedPending EXCEPT ![s] = @ \ {line}]
  BY <1>5, <1>10
<1>12. Feed!ShowLine(s, line)
  BY <1>2, <1>3, <1>7, <1>10, <1>11, StepsOfFeed
<1>. QED
  BY <1>12 DEF FeedMoves, Feed!FeedNext

LEMMA CloseMoves ==
    ASSUME Inv, Inv', NEW s \in Sessions, Close(s), UNCHANGED <<response, registered, topic>>
    PROVE  FeedMoves
<1>1. Shape /\ Shape' /\ SessionInv(s) /\ SessionInv(s)'
  BY DEF Inv
<1>2. /\ link[s] = "open" /\ link'[s] = "closed"
      /\ \A t \in Sessions : t # s => /\ link'[t] = link[t] /\ outbound'[t] = outbound[t]
                                     /\ toClient'[t] = toClient[t]
  BY <1>1 DEF Close, Shape
<1>3. FeedStates' = [FeedStates EXCEPT ![s] = FeedStates'[s]]
      /\ FeedPending' = [FeedPending EXCEPT ![s] = FeedPending'[s]]
  BY <1>2, OthersSameInFeed
<1>4. FeedStates[s] \in {"joining", "attached"} /\ FeedStates'[s] = "left"
  BY <1>1, <1>2, StatesOfFeed, StatesOfFeedNext
<1>5. FeedPending'[s] = {}
  BY <1>1, <1>2, PendingOfFeedNext DEF SessionInv
<1>6. FeedPending' = [FeedPending EXCEPT ![s] = {}]
      /\ FeedStates' = [FeedStates EXCEPT ![s] = "left"]
  BY <1>3, <1>4, <1>5
<1>7. Feed!Leave(s)
  BY <1>4, <1>6, StepsOfFeed
<1>. QED
  BY <1>7 DEF FeedMoves, Feed!FeedNext

LEMMA ReceivePieceMoves ==
    ASSUME NEW s \in Sessions, ReceivePiece(s)
    PROVE  FeedMoves
<1>1. UNCHANGED <<link, registered, outbound, toClient, topic, response>>
  BY DEF ReceivePiece, pageVars
<1>2. \A t \in Sessions : FeedSameAt(t)
  BY <1>1, SameInFeed DEF FeedSameAt
<1>. QED
  BY <1>1, <1>2, FeedStutters

LEMMA HandleConnectMoves ==
    ASSUME Inv, Inv', NEW s \in Sessions, NEW frame, HandleConnect(s, frame)
    PROVE  FeedMoves
<1>1. Shape /\ Shape' /\ SessionInv(s) /\ SessionInv(s)'
  BY DEF Inv
<1>2. /\ UNCHANGED <<link, registered, toClient, topic, response>>
      /\ \A t \in Sessions : t # s => outbound'[t] = outbound[t]
  BY <1>1 DEF HandleConnect, pageVars, Shape
<1>3. \A t \in Sessions : t # s => FeedSameAt(t)
  BY <1>2, OthersSameInFeed
<1>4. FeedStates'[s] = FeedStates[s]
  BY <1>2 DEF FeedStates, FeedState
<1>5. FeedPending'[s] = FeedPending[s]
  <2>1. \A l \in Line : MessageFrame(0, l) # Connected
    BY DEF MessageFrame, Connected, Frame
  <2>2. link[s] = "open" => Way(s)' = Way(s) \cup {Connected}
    BY HandleConnectStep
  <2>. QED
    BY <1>1, <1>2, <2>1, <2>2, PendingOfFeed, PendingOfFeedNext DEF SessionInv
<1>. QED
  BY <1>2, <1>3, <1>4, <1>5, FeedStutters DEF FeedSameAt

LEMMA HandleSubscribeMoves ==
    ASSUME Inv, Inv', NEW s \in Sessions, NEW frame, HandleSubscribe(s, frame)
    PROVE  FeedMoves
<1>1. Shape /\ Shape' /\ SessionInv(s) /\ SessionInv(s)'
  BY DEF Inv
<1>2. /\ UNCHANGED <<link, outbound, toClient, topic, response>>
      /\ \A t \in Sessions : t # s => registered'[t] = registered[t]
  BY <1>1 DEF HandleSubscribe, pageVars, Shape
<1>3. registered'[s] = {0}
  BY HandleSubscribeStep
<1>4. /\ \A t \in Sessions : t # s => FeedSameAt(t)
      /\ FeedStates' = [FeedStates EXCEPT ![s] = FeedStates'[s]]
  BY <1>2, OthersSameInFeed
<1>5. FeedPending'[s] = FeedPending[s]
  BY <1>2 DEF FeedPending, OnTheWay
<1>6. CASE FeedStates[s] = "joining"
  <2>1. FeedStates'[s] = "attached"
    BY <1>1, <1>2, <1>3, <1>6, StatesOfFeed, StatesOfFeedNext
  <2>2. FeedPending' = FeedPending
    BY <1>4, <1>5, FeedIsOfStates DEF FeedSameAt
  <2>3. Feed!Attach(s)
    BY <1>2, <1>4, <1>6, <2>1, <2>2, StepsOfFeed
  <2>. QED
    BY <2>3 DEF FeedMoves, Feed!FeedNext
<1>7. CASE FeedStates[s] # "joining"
  <2>1. ~(link[s] = "open" /\ registered[s] = {})
    BY <1>1, <1>7, StatesOfFeed
  <2>2. FeedStates'[s] = FeedStates[s]
    BY <1>1, <1>2, <1>3, <2>1 DEF FeedStates, FeedState, Shape, Link
  <2>. QED
    BY <1>2, <1>4, <1>5, <2>2, FeedStutters DEF FeedSameAt
<1>. QED
  BY <1>6, <1>7

LEMMA HandleDisconnectMoves ==
    ASSUME Inv, Inv', NEW s \in Sessions, NEW frame, HandleDisconnect(s, frame)
    PROVE  FeedMoves
<1>1. Shape /\ Shape' /\ SessionInv(s) /\ SessionInv(s)'
  BY DEF Inv
<1>2. /\ UNCHANGED <<link, outbound, toClient, topic, response>>
      /\ \A t \in Sessions : t # s => registered'[t] = registered[t]
  BY <1>1 DEF HandleDisconnect, pageVars, Shape
<1>3. link[s] \in {"closed", "ended"}
  BY HandleDisconnectStep
<1>4. \A t \in Sessions : t # s => FeedSameAt(t)
  BY <1>2, OthersSameInFeed
<1>5. FeedStates'[s] = FeedStates[s] /\ FeedPending'[s] = FeedPending[s]
  BY <1>2, <1>3 DEF FeedStates, FeedState, FeedPending
<1>. QED
  BY <1>2, <1>4, <1>5, FeedStutters DEF FeedSameAt

LEMMA SessionEndsMoves ==
    ASSUME Inv, Inv', NEW s \in Sessions, SessionEnds(s)
    PROVE  FeedMoves
<1>1. Shape
  BY DEF Inv
<1>2. /\ UNCHANGED <<registered, outbound, toClient, topic, response>>
      /\ \A t \in Sessions : t # s => link'[t] = link[t]
      /\ link[s] = "closed" /\ link'[s] = "ended"
  BY <1>1 DEF SessionEnds, pageVars, Shape
<1>3. \A t \in Sessions : t # s => FeedSameAt(t)
  BY <1>2, OthersSameInFeed
<1>4. FeedStates'[s] = FeedStates[s] /\ FeedPending'[s] = FeedPending[s]
  BY <1>2 DEF FeedStates, FeedState, FeedPending
<1>. QED
  BY <1>2, <1>3, <1>4, FeedStutters DEF FeedSameAt

LEMMA DeliverMoves ==
    ASSUME Inv, Inv', NEW s \in Sessions, NEW frame, Deliver(s, frame)
    PROVE  FeedMoves
<1>1. Shape /\ SessionInv(s) /\ SessionInv(s)'
  BY DEF Inv
<1>2. /\ UNCHANGED <<link, registered, topic, response>>
      /\ \A t \in Sessions : t # s => outbound'[t] = outbound[t] /\ toClient'[t] = toClient[t]
  BY <1>1 DEF Deliver, pageVars, serverVars, Shape
<1>3. \A t \in Sessions : t # s => FeedSameAt(t)
  BY <1>2, OthersSameInFeed
<1>4. FeedStates'[s] = FeedStates[s]
  BY <1>2 DEF FeedStates, FeedState
<1>5. FeedPending'[s] = FeedPending[s]
  BY <1>1, <1>2, DeliverKeeps, PendingOfFeed, PendingOfFeedNext DEF SessionInv
<1>. QED
  BY <1>2, <1>3, <1>4, <1>5, FeedStutters DEF FeedSameAt

LEMMA BroadcastMoves ==
    ASSUME Inv, Inv', NEW line \in Line, line \notin Range(topic), Broadcast(line),
           UNCHANGED <<link, registered, toClient, response>>
    PROVE  FeedMoves
<1>1. Shape
  BY DEF Inv
<1>2. ASSUME NEW t \in Sessions
      PROVE  /\ FeedStates'[t] = FeedStates[t]
             /\ FeedPending'[t] = IF FeedStates[t] = "attached"
                                 THEN FeedPending[t] \cup {line} ELSE FeedPending[t]
  <2>1. SessionInv(t) /\ SessionInv(t)'
    BY <1>2 DEF Inv
  <2>2. FeedStates'[t] = FeedStates[t]
    BY <1>2 DEF FeedStates, FeedState
  <2>3. FeedStates[t] = "attached" <=> link[t] = "open" /\ registered[t] # {}
    BY <1>1, <1>2, StatesOfFeed
  <2>4. outbound'[t] = IF link[t] # "open" THEN {}
                       ELSE IF registered[t] = {} THEN outbound[t]
                       ELSE outbound[t] \cup {MessageFrame(0, line)}
    BY <1>1, <1>2, BroadcastTo
  <2>5. CASE link[t] # "open"
    <3>1. FeedPending[t] = {} /\ FeedPending'[t] = {}
      BY <2>1, <2>5, PendingOfFeed, PendingOfFeedNext DEF SessionInv
    <3>. QED
      BY <2>2, <2>3, <2>5, <3>1
  <2>6. CASE link[t] = "open"
    <3>1. Way(t)' = IF registered[t] = {} THEN Way(t) ELSE Way(t) \cup {MessageFrame(0, line)}
      BY <2>4, <2>6 DEF Way
    <3>2. /\ FeedPending[t] = {l \in Line : MessageFrame(0, l) \in Way(t)}
          /\ FeedPending'[t] = {l \in Line : MessageFrame(0, l) \in Way(t)'}
      BY <2>1, <2>6, PendingOfFeed, PendingOfFeedNext DEF SessionInv
    <3>3. registered[t] = {} => FeedPending'[t] = FeedPending[t]
      BY <3>1, <3>2
    <3>4. registered[t] # {} => FeedPending'[t] = FeedPending[t] \cup {line}
      BY <3>1, <3>2, MessagesDiffer
    <3>. QED
      BY <2>2, <2>3, <2>6, <3>3, <3>4
  <2>. QED
    BY <2>5, <2>6
<1>3. FeedStates' = FeedStates
  BY <1>2, FeedIsOfStates
<1>4. FeedPending' = [t \in Sessions |-> IF FeedStates[t] = "attached"
                                        THEN FeedPending[t] \cup {line} ELSE FeedPending[t]]
  BY <1>2, FunctionsOfFeed, SMT
<1>5. topic' = Append(topic, line)
  BY DEF Broadcast
<1>6. Feed!PublishLine(line)
  BY <1>3, <1>4, <1>5, StepsOfFeed
<1>. QED
  BY <1>6 DEF FeedMoves, Feed!FeedNext

LEMMA NextMoves == Inv /\ Inv' /\ [Next]_vars => FeedMoves
<1>1. SUFFICES ASSUME Inv, Inv', [Next]_vars PROVE FeedMoves
  OBVIOUS
<1>2. CASE UNCHANGED vars
  <2>1. UNCHANGED <<link, registered, outbound, toClient, topic, response>>
    BY <1>2 DEF vars, pageVars, serverVars
  <2>2. \A t \in Sessions : FeedSameAt(t)
    BY <2>1, SameInFeed DEF FeedSameAt
  <2>. QED
    BY <2>1, <2>2, FeedStutters
<1>3. ASSUME NEW line \in Announcements, Announce(line) PROVE FeedMoves
  <2>1. line \in Line /\ line \notin Range(topic) /\ Broadcast(line)
        /\ UNCHANGED <<link, registered, toClient, response>>
    BY <1>3 DEF Announce, Line, pageVars, serverVars
  <2>. QED
    BY <1>1, <2>1, BroadcastMoves
<1>4. ASSUME NEW s \in Sessions, PageStep(s) PROVE FeedMoves
  <2>1. ASSUME Disconnect(s) \/ Break(s) PROVE FeedMoves
    <3>1. Close(s) /\ UNCHANGED <<response, registered, topic>>
      BY <2>1 DEF Disconnect, Break, serverVars
    <3>. QED
      BY <1>1, <1>4, <3>1, CloseMoves
  <2>. QED
    BY <1>1, <1>4, <2>1, OpenMoves, ReceiveConnectedMoves, ReceiveMessageMoves DEF PageStep
<1>5. ASSUME NEW s \in Sessions, HandleStep(s) PROVE FeedMoves
  <2>1. ASSUME NEW frame, HandleSend(s, frame) PROVE FeedMoves
    <3>1. s \in Line /\ s \notin Range(topic) /\ Broadcast(s)
          /\ UNCHANGED <<link, registered, toClient, response>>
      BY <1>1, <1>5, <2>1, HandleSendStep DEF HandleSend, pageVars
    <3>. QED
      BY <1>1, <3>1, BroadcastMoves
  <2>. QED
    BY <1>1, <1>5, <2>1, HandleConnectMoves, HandleSubscribeMoves, HandleDisconnectMoves
       DEF HandleStep
<1>6. ASSUME NEW s \in Sessions, ReceivePiece(s) \/ SessionEnds(s) \/ DeliverStep(s)
      PROVE  FeedMoves
  BY <1>1, <1>6, ReceivePieceMoves, SessionEndsMoves, DeliverMoves DEF DeliverStep
<1>. QED
  BY <1>1, <1>2, <1>3, <1>4, <1>5, <1>6 DEF Next, SessionStep

LEMMA InitOfFeed == Init => Feed!FeedInit
<1>1. SUFFICES ASSUME Init PROVE Feed!FeedInit
  OBVIOUS
<1>2. FeedStates = [s \in Sessions |-> "absent"]
  BY <1>1 DEF Init, FeedStates, FeedState
<1>3. FeedPending = [s \in Sessions |-> {}]
  BY <1>1 DEF Init, FeedPending
<1>4. topic = <<>> /\ response = [s \in Sessions |-> <<>>]
  BY <1>1 DEF Init
<1>. QED
  BY <1>2, <1>3, <1>4 DEF Feed!FeedInit, FeedStates, FeedPending

\* The refinement: StompSession implements TopicFeed.  From the subscription on a
\* page is shown each line once, never one broadcast before, whatever executors
\* and wire do with the order; and never one after its session is closed.
THEOREM FeedIsImplemented == Spec => Feed!FeedSpec
<1>1. Inv /\ Inv' /\ [Next]_vars => [Feed!FeedNext]_(Feed!feedVars)
  BY NextMoves DEF FeedMoves
<1>. QED
  BY <1>1, InitOfFeed, SessionInvariant, PTL DEF Spec, Feed!FeedSpec
=============================================================================
