-------------------------- MODULE StompFramesProofs --------------------------
(***************************************************************************)
(* Proofs about StompFrames, for frames and texts of any length: the text  *)
(* of a frame is read back as that frame, whatever its characters take in  *)
(* bytes, and the pieces of a text add up to it at no earlier piece than   *)
(* the last.                                                               *)
(*                                                                         *)
(* The argument: a text has its only NUL at its end and its first blank    *)
(* line between head and body, so that Split finds one text that is not    *)
(* empty, and UnmarshallSingle the head and the rest; the number of bytes  *)
(* is never below that of characters, so that the rest is taken whole.     *)
(***************************************************************************)
EXTENDS StompFrames, FiniteSetTheorems, SequenceTheorems, TLAPS

\* A frame as the application and the server make them: no header twice, none
\* named content-length (the tokens are from a set T).
WellFormed(frame, T) ==
    /\ frame.headers \in Seq(T) /\ frame.body \in Seq(T)
    /\ \A i \in DOMAIN frame.headers :
           /\ frame.headers[i].token = "header"
           /\ frame.headers[i].name # "content-length"
    /\ \A i, j \in DOMAIN frame.headers :
           frame.headers[i].name = frame.headers[j].name => i = j
    /\ \A i \in DOMAIN frame.body :
           frame.body[i].token = "char" /\ frame.body[i].bytes \in Nat \ {0}

Tokens(frame, T) ==
    T \cup {CommandLine(frame.command), LF, NUL,
            HeaderLine("content-length", SizeOfUTF8(frame.body))}

HeadOf(frame) == <<CommandLine(frame.command)>> \o frame.headers \o ContentLength(frame.body)

-----------------------------------------------------------------------------
(* Lengths *)

\* A body takes at least as many bytes as it has characters.
LEMMA BytesCoverCharacters ==
    ASSUME NEW T, NEW body \in Seq(T),
           \A i \in DOMAIN body : body[i].bytes \in Nat \ {0}
    PROVE  SizeOfUTF8(body) \in Nat /\ Len(body) <= SizeOfUTF8(body)
<1>. DEFINE Cell(i) == {i} \X (1 .. body[i].bytes)
            cells == UNION {Cell(i) : i \in DOMAIN body}
            f == [i \in 1 .. Len(body) |-> Cell(i)]
            g == [i \in 1 .. Len(body) |-> <<i, 1>>]
<1>1. Len(body) \in Nat /\ DOMAIN body = 1 .. Len(body)
  OBVIOUS
<1>2. /\ IsFiniteSet(1 .. Len(body)) /\ Cardinality(1 .. Len(body)) = Len(body)
  BY <1>1, FS_Interval
<1>3. IsFiniteSet({Cell(i) : i \in DOMAIN body})
  <2>1. f \in Surjection(1 .. Len(body), {Cell(i) : i \in DOMAIN body})
    BY <1>1 DEF Surjection
  <2>. QED
    BY <1>2, <2>1, FS_Surjection
<1>4. \A i \in DOMAIN body : IsFiniteSet(Cell(i))
  <2>. TAKE i \in DOMAIN body
  <2>1. IsFiniteSet({i})
    BY FS_Singleton
  <2>2. IsFiniteSet(1 .. body[i].bytes)
    BY FS_Interval
  <2>. QED
    BY <2>1, <2>2, FS_Product
<1>5. IsFiniteSet(cells)
  BY <1>3, <1>4, FS_UNION
<1>6. g \in Injection(1 .. Len(body), cells)
  <2>1. \A i \in 1 .. Len(body) : g[i] \in cells
    <3>. TAKE i \in 1 .. Len(body)
    <3>1. 1 \in 1 .. body[i].bytes
      BY <1>1
    <3>2. <<i, 1>> \in Cell(i)
      BY <3>1
    <3>. QED
      BY <1>1, <3>2
  <2>2. g \in [1 .. Len(body) -> cells]
    BY <2>1
  <2>3. \A i, j \in 1 .. Len(body) : g[i] = g[j] => i = j
    OBVIOUS
  <2>. QED
    BY <2>2, <2>3 DEF Injection, IsInjective
<1>7. Len(body) <= Cardinality(cells)
  BY <1>2, <1>5, <1>6, FS_Injection
<1>8. Cardinality(cells) \in Nat
  BY <1>5, FS_CardinalityType
<1>. QED
  BY <1>7, <1>8 DEF SizeOfUTF8

-----------------------------------------------------------------------------
(* Texts *)

LEMMA Concatenation ==
    ASSUME NEW S, NEW s \in Seq(S), NEW t \in Seq(S), NEW n, n = Len(s)
    PROVE  /\ s \o t \in Seq(S) /\ Len(s \o t) = n + Len(t)
           /\ \A i \in 1 .. n : (s \o t)[i] = s[i]
           /\ \A i \in 1 .. Len(t) : (s \o t)[n + i] = t[i]
<1>1. n \in Nat /\ Len(t) \in Nat
  OBVIOUS
<1>2. /\ s \o t \in Seq(S) /\ Len(s \o t) = n + Len(t)
      /\ \A i \in 1 .. n + Len(t) : (s \o t)[i] = IF i <= n THEN s[i] ELSE t[i - n]
  BY ConcatProperties
<1>3. ASSUME NEW i \in 1 .. Len(t) PROVE (s \o t)[n + i] = t[i]
  <2>1. n + i \in 1 .. n + Len(t) /\ ~(n + i <= n) /\ (n + i) - n = i
    BY <1>1
  <2>. QED
    BY <1>2, <2>1
<1>. QED
  BY <1>1, <1>2, <1>3

\* A text put together from its parts.
LEMMA TextOfParts ==
    ASSUME NEW U, NEW head \in Seq(U), NEW body \in Seq(U), NEW x \in U, NEW y \in U
    PROVE  LET text == head \o <<x>> \o body \o <<y>>
               p == Len(head) + 1
               b == Len(body)
           IN  /\ text \in Seq(U) /\ p \in Nat \ {0} /\ b \in Nat
               /\ Len(text) = p + b + 1
               /\ \A i \in 1 .. p - 1 : text[i] = head[i]
               /\ text[p] = x
               /\ \A i \in 1 .. b : text[p + i] = body[i]
               /\ text[p + b + 1] = y
<1>. DEFINE one == head \o <<x>>
            two == one \o body
            p == Len(head) + 1
            b == Len(body)
<1>1. <<x>> \in Seq(U) /\ <<y>> \in Seq(U) /\ Len(<<x>>) = 1 /\ Len(<<y>>) = 1
  OBVIOUS
<1>2. Len(head) \in Nat /\ Len(body) \in Nat
  OBVIOUS
<1>3. /\ one \in Seq(U) /\ Len(one) = p /\ one[p] = x
      /\ \A i \in 1 .. p - 1 : one[i] = head[i]
  BY <1>1, <1>2, Concatenation
<1>. HIDE DEF one
<1>4. /\ two \in Seq(U) /\ Len(two) = p + b
      /\ \A i \in 1 .. p : two[i] = one[i]
      /\ \A i \in 1 .. b : two[p + i] = body[i]
  BY <1>2, <1>3, Concatenation
<1>. HIDE DEF two, p, b
<1>5. /\ two \o <<y>> \in Seq(U) /\ Len(two \o <<y>>) = p + b + 1
      /\ \A i \in 1 .. p + b : (two \o <<y>>)[i] = two[i]
      /\ (two \o <<y>>)[p + b + 1] = y
  BY <1>1, <1>4, Concatenation
<1>. QED
  BY <1>2, <1>3, <1>4, <1>5 DEF two, one, p, b

\* What the head of a frame is made of.
LEMMA HeadOfFrame ==
    ASSUME NEW T, NEW frame, WellFormed(frame, T)
    PROVE  LET head == HeadOf(frame)
               h == Len(frame.headers)
           IN  /\ head \in Seq(Tokens(frame, T))
               /\ h \in Nat /\ Len(head) \in {h + 1, h + 2}
               /\ head[1] = CommandLine(frame.command)
               /\ \A i \in 1 .. h : head[i + 1] = frame.headers[i]
               /\ Len(head) = h + 2 =>
                      head[h + 2] = HeaderLine("content-length", SizeOfUTF8(frame.body))
<1>. DEFINE U == Tokens(frame, T)
            c == CommandLine(frame.command)
            l == HeaderLine("content-length", SizeOfUTF8(frame.body))
            h == Len(frame.headers)
            one == <<c>> \o frame.headers
<1>1. frame.headers \in Seq(U) /\ c \in U /\ l \in U
  BY DEF WellFormed, Tokens
<1>. HIDE DEF c, l, U
<1>2. <<c>> \in Seq(U) /\ Len(<<c>>) = 1 /\ <<l>> \in Seq(U) /\ Len(<<l>>) = 1 /\ h \in Nat
  BY <1>1
<1>3. /\ one \in Seq(U) /\ Len(one) = h + 1 /\ one[1] = c
      /\ \A i \in 1 .. h : one[i + 1] = frame.headers[i]
  BY <1>1, <1>2, Concatenation
<1>. HIDE DEF one
<1>4. CASE frame.body = <<>>
  <2>1. HeadOf(frame) = one
    BY <1>3, <1>4 DEF HeadOf, ContentLength, one, c
  <2>. QED
    BY <1>2, <1>3, <2>1 DEF c, U
<1>5. CASE frame.body # <<>>
  <2>1. HeadOf(frame) = one \o <<l>>
    BY <1>5 DEF HeadOf, ContentLength, one, c, l
  <2>2. /\ one \o <<l>> \in Seq(U) /\ Len(one \o <<l>>) = h + 2
        /\ \A i \in 1 .. h + 1 : (one \o <<l>>)[i] = one[i]
        /\ (one \o <<l>>)[h + 2] = l
    BY <1>2, <1>3, Concatenation
  <2>3. /\ HeadOf(frame) \in Seq(U) /\ Len(HeadOf(frame)) = h + 2
        /\ HeadOf(frame)[1] = c /\ HeadOf(frame)[h + 2] = l
    BY <1>2, <1>3, <2>1, <2>2
  <2>4. \A i \in 1 .. h : HeadOf(frame)[i + 1] = frame.headers[i]
    BY <1>2, <1>3, <2>1, <2>2
  <2>. QED
    BY <1>2, <2>3, <2>4 DEF c, l, U
<1>. QED
  BY <1>4, <1>5

LEMMA SameSequences ==
    ASSUME NEW S, NEW a \in Seq(S), NEW T, NEW c \in Seq(T), NEW n, Len(a) = n, Len(c) = n,
           \A i \in 1 .. n : a[i] = c[i]
    PROVE  a = c
  OBVIOUS

\* Where the parts of a frame's text are.
LEMMA TextOfFrame ==
    ASSUME NEW T, NEW frame, WellFormed(frame, T)
    PROVE  LET head == HeadOf(frame)
               text == Marshall(frame)
               p == Len(head) + 1
               b == Len(frame.body)
           IN  /\ text \in Seq(Tokens(frame, T)) /\ p \in Nat /\ b \in Nat
               /\ p >= 2
               /\ Len(text) = p + b + 1
               /\ \A i \in 1 .. p - 1 : text[i] = head[i]
               /\ text[p] = LF
               /\ \A i \in 1 .. b : text[p + i] = frame.body[i]
               /\ text[p + b + 1] = NUL
<1>. DEFINE head == HeadOf(frame)
            U == Tokens(frame, T)
            body == frame.body
            h == Len(frame.headers)
<1>1. body \in Seq(U) /\ LF \in U /\ NUL \in U
  BY DEF WellFormed, Tokens
<1>2. head \in Seq(U) /\ h \in Nat /\ Len(head) \in {h + 1, h + 2}
  BY HeadOfFrame
<1>3. Marshall(frame) = head \o <<LF>> \o body \o <<NUL>>
  BY DEF Marshall, HeadOf
<1>. DEFINE p == Len(head) + 1
            b == Len(body)
<1>. HIDE DEF head, body, U
<1>4. /\ Marshall(frame) \in Seq(U) /\ p \in Nat \ {0} /\ b \in Nat
      /\ Len(Marshall(frame)) = p + b + 1
      /\ \A i \in 1 .. p - 1 : Marshall(frame)[i] = head[i]
      /\ Marshall(frame)[p] = LF
      /\ \A i \in 1 .. b : Marshall(frame)[p + i] = body[i]
      /\ Marshall(frame)[p + b + 1] = NUL
  <2>1. /\ Marshall(frame) \in Seq(U) /\ p \in Nat \ {0} /\ b \in Nat
        /\ Len(Marshall(frame)) = p + b + 1
    BY <1>1, <1>2, <1>3, TextOfParts
  <2>2. \A i \in 1 .. p - 1 : Marshall(frame)[i] = head[i]
    BY <1>1, <1>2, <1>3, TextOfParts
  <2>3. Marshall(frame)[p] = LF
    BY <1>1, <1>2, <1>3, TextOfParts
  <2>4. \A i \in 1 .. b : Marshall(frame)[p + i] = body[i]
    BY <1>1, <1>2, <1>3, TextOfParts
  <2>5. Marshall(frame)[p + b + 1] = NUL
    BY <1>1, <1>2, <1>3, TextOfParts
  <2>. QED
    BY <2>1, <2>2, <2>3, <2>4, <2>5
<1>5. p >= 2
  BY <1>2
<1>. QED
  BY <1>4, <1>5 DEF head, body, U

\* The tokens of a head, of a body and the two others are different.
LEMMA TokensDiffer ==
    /\ LF # NUL /\ NUL.token = "NUL" /\ LF.token = "LF"
    /\ \A command : CommandLine(command).token = "command"
    /\ \A command : CommandLine(command).value = command
    /\ \A name, value : /\ HeaderLine(name, value).token = "header"
                        /\ HeaderLine(name, value).name = name
                        /\ HeaderLine(name, value).value = value
  BY DEF LF, NUL, CommandLine, HeaderLine

LEMMA HeadIsNoMark ==
    ASSUME NEW T, NEW frame, WellFormed(frame, T), NEW i \in 1 .. Len(HeadOf(frame))
    PROVE  HeadOf(frame)[i] # LF /\ HeadOf(frame)[i] # NUL
<1>. DEFINE h == Len(frame.headers)
<1>1. /\ h \in Nat /\ Len(HeadOf(frame)) \in {h + 1, h + 2}
      /\ HeadOf(frame)[1] = CommandLine(frame.command)
      /\ \A k \in 1 .. h : HeadOf(frame)[k + 1] = frame.headers[k]
      /\ Len(HeadOf(frame)) = h + 2 =>
             HeadOf(frame)[h + 2] = HeaderLine("content-length", SizeOfUTF8(frame.body))
  BY HeadOfFrame
<1>2. \A k \in 1 .. h : frame.headers[k].token = "header"
  BY DEF WellFormed
<1>3. CASE i = 1
  BY <1>1, <1>3, TokensDiffer
<1>4. CASE i \in 2 .. h + 1
  <2>1. i - 1 \in 1 .. h /\ HeadOf(frame)[(i - 1) + 1] = frame.headers[i - 1]
    BY <1>1, <1>4
  <2>2. HeadOf(frame)[i].token = "header"
    BY <1>1, <1>2, <1>4, <2>1
  <2>. QED
    BY <2>2, TokensDiffer
<1>5. CASE i = h + 2
  BY <1>1, <1>5, TokensDiffer
<1>. QED
  BY <1>1, <1>3, <1>4, <1>5

\* A text has one NUL, its last token.
LEMMA NulIsLast ==
    ASSUME NEW T, NEW frame, WellFormed(frame, T)
    PROVE  LET text == Marshall(frame)
           IN  /\ Len(text) \in Nat /\ Len(text) > 1 /\ DOMAIN text = 1 .. Len(text)
               /\ text[1] # LF /\ text[Len(text)] = NUL
               /\ \A i \in 1 .. Len(text) - 1 : text[i] # NUL
<1>. DEFINE text == Marshall(frame)
            p == Len(HeadOf(frame)) + 1
            b == Len(frame.body)
<1>1. /\ text \in Seq(Tokens(frame, T)) /\ p \in Nat /\ b \in Nat
      /\ p >= 2
      /\ Len(text) = p + b + 1
      /\ \A i \in 1 .. p - 1 : text[i] = HeadOf(frame)[i]
      /\ text[p] = LF
      /\ \A i \in 1 .. b : text[p + i] = frame.body[i]
      /\ text[p + b + 1] = NUL
  BY TextOfFrame
<1>2. Len(frame.headers) \in Nat /\ \A i \in 1 .. b : frame.body[i].token = "char"
  BY DEF WellFormed
<1>. HIDE DEF text, p, b
<1>3. \A i \in 1 .. p - 1 : text[i] # LF /\ text[i] # NUL
  BY <1>1, HeadIsNoMark DEF p
<1>4. \A i \in p + 1 .. p + b : text[i] # NUL
  <2>. TAKE i \in p + 1 .. p + b
  <2>1. i - p \in 1 .. b /\ text[p + (i - p)] = frame.body[i - p]
    BY <1>1
  <2>2. text[i].token = "char"
    BY <1>1, <1>2, <2>1
  <2>. QED
    BY <2>2, TokensDiffer
<1>5. \A i \in 1 .. Len(text) - 1 : text[i] # NUL
  BY <1>1, <1>3, <1>4, TokensDiffer
<1>. QED
  BY <1>1, <1>2, <1>3, <1>5 DEF text
-----------------------------------------------------------------------------
(* Reading a text back *)

LEMMA NthOfOne ==
    ASSUME NEW n \in Int
    PROVE  Cardinality({n}) = 1 /\ Nth({n}, 1) = n
<1>1. Cardinality({n}) = 1
  BY FS_Singleton
<1>2. {j \in {n} : j <= n} = {n}
  OBVIOUS
<1>. QED
  BY <1>1, <1>2 DEF Nth

\* A text with one NUL, at its end, is split into the text before it and an
\* empty one.
LEMMA SplitAtTheEnd ==
    ASSUME NEW S, NEW text \in Seq(S), NEW n \in Nat, n = Len(text), n > 1,
           text[n] = NUL, \A i \in 1 .. n - 1 : text[i] # NUL
    PROVE  /\ DOMAIN Split(text) = 1 .. 2
           /\ Split(text)[1] = SubSeq(text, 1, n - 1)
           /\ Split(text)[2] = <<>>
<1>. DEFINE ends == {i \in DOMAIN text : text[i] = NUL}
            End(k) == CASE k = 0 -> 0
                        [] k \in 1 .. Cardinality(ends) -> Nth(ends, k)
                        [] OTHER -> Len(text) + 1
            Starts(k) == {i \in End(k - 1) + 1 .. End(k) :
                             k = 1 \/ i = End(k) \/ text[i] # LF}
            split == [k \in 1 .. Cardinality(ends) + 1 |->
                         SubSeq(text, Min(Starts(k)), End(k) - 1)]
<1>1. Split(text) = split
  BY DEF Split
<1>2. ends = {n}
  OBVIOUS
<1>. HIDE DEF ends
<1>3. Cardinality(ends) = 1 /\ Nth(ends, 1) = n
  BY <1>2, NthOfOne
<1>4. End(0) = 0 /\ End(1) = n /\ End(2) = n + 1
  BY <1>3
<1>. HIDE DEF End
<1>5. Starts(1) = 1 .. n /\ Starts(2) = {n + 1}
  BY <1>4
<1>. HIDE DEF Starts
<1>6. Min(Starts(1)) = 1
  BY <1>5 DEF Min
<1>7. split[1] = SubSeq(text, 1, n - 1)
  BY <1>3, <1>4, <1>6
<1>8. Min(Starts(2)) = n + 1
  BY <1>5 DEF Min
<1>9. split[2] = SubSeq(text, n + 1, n)
  BY <1>3, <1>4, <1>8
<1>10. SubSeq(text, n + 1, n) = <<>>
  BY SubSeqEmpty
<1>11. DOMAIN split = 1 .. 2
  BY <1>3
<1>. HIDE DEF split
<1>. QED
  BY <1>1, <1>7, <1>9, <1>10, <1>11

\* It makes one frame.
LEMMA OneFrameToAText ==
    ASSUME NEW S, NEW text \in Seq(S), NEW n \in Nat, n = Len(text), n > 1,
           text[n] = NUL, \A i \in 1 .. n - 1 : text[i] # NUL
    PROVE  Unmarshall(text) = <<UnmarshallSingle(SubSeq(text, 1, n - 1))>>
<1>. DEFINE texts == Split(text)
            full == {k \in DOMAIN texts : texts[k] # <<>>}
            frames == [i \in 1 .. Cardinality(full) |-> UnmarshallSingle(texts[Nth(full, i)])]
<1>1. /\ DOMAIN texts = 1 .. 2 /\ texts[2] = <<>>
      /\ texts[1] = SubSeq(text, 1, n - 1)
  BY SplitAtTheEnd
<1>2. Len(SubSeq(text, 1, n - 1)) = n - 1
  OBVIOUS
<1>3. texts[1] # <<>>
  <2>. HIDE DEF texts
  <2>1. Len(texts[1]) # 0
    BY <1>1, <1>2
  <2>. QED
    BY <2>1
<1>4. full = {1}
  BY <1>1, <1>3
<1>5. Unmarshall(text) = frames
  BY DEF Unmarshall
<1>6. Cardinality(full) = 1 /\ Nth(full, 1) = 1
  BY <1>4, NthOfOne
<1>. HIDE DEF texts, full
<1>7. frames = [i \in 1 .. 1 |-> UnmarshallSingle(texts[Nth(full, i)])]
  BY <1>6
<1>8. frames = <<UnmarshallSingle(texts[1])>>
  BY <1>6, <1>7
<1>. QED
  BY <1>1, <1>5, <1>8

\* The header of a name that one line has is that line's.
LEMMA HeaderOfLine ==
    ASSUME NEW S, NEW lines \in Seq(S), NEW i \in 1 .. Len(lines),
           \A j \in 1 .. Len(lines) : lines[j].name = lines[i].name => j = i
    PROVE  /\ lines[i].name \in DOMAIN Headers(lines)
           /\ Headers(lines)[lines[i].name] = lines[i].value
<1>. DEFINE named == {j \in 1 .. Len(lines) : lines[j].name = lines[i].name}
<1>1. named = {i}
  OBVIOUS
<1>2. Min({i}) = i
  BY DEF Min
<1>3. SelectInSeq(lines, LAMBDA line : line.name = lines[i].name) = i
  BY <1>1, <1>2 DEF SelectInSeq
<1>4. lines[i].name \in {lines[j].name : j \in DOMAIN lines}
  OBVIOUS
<1>. QED
  BY <1>3, <1>4 DEF Headers

\* Of a text without its NUL, UnmarshallSingle finds the blank line, and takes
\* what is behind it whole: a content-length that is there is not below its
\* number of characters.
LEMMA SingleOfParts ==
    ASSUME NEW S, NEW data \in Seq(S), NEW p \in Nat, p >= 2, p <= Len(data),
           data[p] = LF, \A i \in 1 .. p - 1 : data[i] # LF,
           NEW lines, lines = SubSeq(data, 2, p - 1),
           NEW body, body = SubSeq(data, p + 1, Len(data)),
           "content-length" \in DOMAIN Headers(lines) =>
               /\ Headers(lines)["content-length"] \in Nat
               /\ Headers(lines)["content-length"] >= Len(body)
    PROVE  UnmarshallSingle(data) = Frame(data[1].value, Headers(lines), body)
<1>1. p \in {i \in 1 .. Len(data) : data[i] = LF}
  OBVIOUS
<1>2. Min({i \in 1 .. Len(data) : data[i] = LF}) = p
  BY DEF Min
<1>3. SelectInSeq(data, LAMBDA t : t = LF) = p
  BY <1>1, <1>2 DEF SelectInSeq
<1>4. Len(body) \in Nat
  OBVIOUS
<1>5. ~("content-length" \in DOMAIN Headers(lines)
          /\ Headers(lines)["content-length"] < Len(body))
  BY <1>4
<1>. QED
  BY <1>3, <1>5 DEF UnmarshallSingle

\* The lines of a frame's head: its headers, and maybe the length.
LEMMA LinesOfFrame ==
    ASSUME NEW T, NEW frame, WellFormed(frame, T), NEW S, NEW lines \in Seq(S),
           NEW h \in Nat, h = Len(frame.headers), Len(lines) \in {h, h + 1},
           \A i \in 1 .. Len(lines) : lines[i] = HeadOf(frame)[i + 1],
           Len(lines) + 1 = Len(HeadOf(frame))
    PROVE  /\ \A i \in 1 .. h : /\ frame.headers[i].name \in DOMAIN Headers(lines)
                                /\ Headers(lines)[frame.headers[i].name]
                                     = frame.headers[i].value
           /\ "content-length" \in DOMAIN Headers(lines) =>
                  Headers(lines)["content-length"] = SizeOfUTF8(frame.body)
<1>. DEFINE l == HeaderLine("content-length", SizeOfUTF8(frame.body))
<1>1. /\ \A i \in 1 .. h : HeadOf(frame)[i + 1] = frame.headers[i]
      /\ Len(lines) = h + 1 => HeadOf(frame)[h + 2] = l
  BY HeadOfFrame
<1>2. /\ \A i \in 1 .. h : lines[i] = frame.headers[i]
      /\ Len(lines) = h + 1 => lines[h + 1] = l
  BY <1>1
<1>3. /\ \A i \in 1 .. h : frame.headers[i].name # "content-length"
      /\ \A i, j \in 1 .. h : frame.headers[i].name = frame.headers[j].name => i = j
  BY DEF WellFormed
<1>4. l.name = "content-length" /\ l.value = SizeOfUTF8(frame.body)
  BY TokensDiffer
<1>. HIDE DEF l
<1>5. ASSUME NEW i \in 1 .. h
      PROVE  /\ frame.headers[i].name \in DOMAIN Headers(lines)
             /\ Headers(lines)[frame.headers[i].name] = frame.headers[i].value
  <2>1. lines[i] = frame.headers[i] /\ i \in 1 .. Len(lines)
    BY <1>2
  <2>2. ASSUME NEW j \in 1 .. Len(lines), lines[j].name = lines[i].name PROVE j = i
    <3>1. CASE j \in 1 .. h
      BY <1>2, <1>3, <2>1, <2>2, <3>1
    <3>2. CASE j \notin 1 .. h
      <4>1. ASSUME NEW n \in {h, h + 1}, NEW k \in 1 .. n, k \notin 1 .. h
            PROVE  k = h + 1 /\ n = h + 1
        BY <4>1
      <4>2. j = h + 1 /\ Len(lines) = h + 1
        BY Zenon, <2>2, <3>2, <4>1
      <4>3. lines[j].name = "content-length"
        BY <1>2, <1>4, <4>2
      <4>. QED
        BY <1>3, <2>1, <2>2, <4>3
    <3>. QED
      BY <3>1, <3>2
  <2>3. \A j \in 1 .. Len(lines) : lines[j].name = lines[i].name => j = i
    BY <2>2
  <2>4. /\ lines[i].name \in DOMAIN Headers(lines)
        /\ Headers(lines)[lines[i].name] = lines[i].value
    BY Zenon, <2>1, <2>3, HeaderOfLine
  <2>. QED
    BY <2>1, <2>4
<1>6. ASSUME "content-length" \in DOMAIN Headers(lines)
      PROVE  Headers(lines)["content-length"] = SizeOfUTF8(frame.body)
  <2>1. PICK i \in 1 .. Len(lines) : lines[i].name = "content-length"
    BY <1>6 DEF Headers
  <2>2. i = h + 1 /\ Len(lines) = h + 1
    BY <1>2, <1>3, <2>1
  <2>3. lines[i].value = SizeOfUTF8(frame.body)
    BY <1>2, <1>4, <2>2
  <2>4. \A j \in 1 .. Len(lines) : lines[j].name = lines[i].name => j = i
    BY <1>2, <1>3, <2>1, <2>2
  <2>. QED
    BY <2>1, <2>3, <2>4, HeaderOfLine
<1>. QED
  BY <1>5, <1>6

\* The text of a frame is read back as that frame: one frame, its command, its
\* headers and its whole body, whatever its characters take in bytes
\* (Frame.marshall, Frame.unmarshall).
THEOREM FramesAreReadBack ==
    ASSUME NEW T, NEW frame, WellFormed(frame, T)
    PROVE  \E read :
               /\ Unmarshall(Marshall(frame)) = <<read>>
               /\ read.command = frame.command /\ read.body = frame.body
               /\ \A i \in DOMAIN frame.headers :
                      /\ frame.headers[i].name \in DOMAIN read.headers
                      /\ read.headers[frame.headers[i].name] = frame.headers[i].value
<1>. DEFINE text == Marshall(frame)
            head == HeadOf(frame)
            body == frame.body
            U == Tokens(frame, T)
            p == Len(head) + 1
            b == Len(body)
            h == Len(frame.headers)
            data == SubSeq(text, 1, p + b)
            lines == SubSeq(data, 2, p - 1)
<1>1. body \in Seq(T) /\ b \in Nat /\ h \in Nat /\ DOMAIN frame.headers = 1 .. h
  BY DEF WellFormed
<1>2. /\ text \in Seq(U) /\ p \in Nat /\ p >= 2
      /\ Len(text) = p + b + 1
      /\ \A i \in 1 .. p - 1 : text[i] = head[i]
      /\ text[p] = LF
      /\ \A i \in 1 .. b : text[p + i] = body[i]
  <2>1. text \in Seq(U) /\ p \in Nat /\ p >= 2 /\ Len(text) = p + b + 1
    BY TextOfFrame
  <2>2. \A i \in 1 .. p - 1 : text[i] = head[i]
    BY TextOfFrame
  <2>3. text[p] = LF
    BY TextOfFrame
  <2>4. \A i \in 1 .. b : text[p + i] = body[i]
    BY TextOfFrame
  <2>. HIDE DEF text, head, body, U, p, b
  <2>. QED
    BY <2>1, <2>2, <2>3, <2>4
<1>3. head[1] = CommandLine(frame.command) /\ p \in {h + 2, h + 3}
  BY <1>1, HeadOfFrame
<1>4. \A i \in 1 .. p - 1 : head[i] # LF
  BY HeadIsNoMark
<1>5. text[Len(text)] = NUL /\ \A i \in 1 .. Len(text) - 1 : text[i] # NUL
  BY NulIsLast
<1>. HIDE DEF text, head, body, U, p, b, h
<1>6. Unmarshall(text) = <<UnmarshallSingle(data)>>
  <2>1. p + b + 1 \in Nat /\ p + b + 1 > 1 /\ (p + b + 1) - 1 = p + b
    BY <1>1, <1>2
  <2>2. text[p + b + 1] = NUL /\ \A i \in 1 .. (p + b + 1) - 1 : text[i] # NUL
    BY <1>1, <1>2, <1>5
  <2>. QED
    BY <1>2, <2>1, <2>2, OneFrameToAText
<1>7. /\ data \in Seq(U) /\ Len(data) = p + b
      /\ \A i \in 1 .. p + b : data[i] = text[i]
  BY <1>1, <1>2
<1>. HIDE DEF data
<1>8. /\ lines \in Seq(U) /\ Len(lines) = p - 2
      /\ \A i \in 1 .. p - 2 : lines[i] = data[i + 1]
  BY <1>1, <1>2, <1>7
<1>9. SubSeq(data, p + 1, Len(data)) = body
  <2>1. Len(SubSeq(data, p + 1, p + b)) = b
    BY <1>1, <1>2, <1>7
  <2>2. \A i \in 1 .. b : SubSeq(data, p + 1, p + b)[i] = body[i]
    BY <1>1, <1>2, <1>7
  <2>3. Len(body) = b /\ SubSeq(data, p + 1, p + b) \in Seq(U)
    BY <1>1, <1>2, <1>7 DEF b
  <2>4. SubSeq(data, p + 1, Len(data)) = SubSeq(data, p + 1, p + b)
    BY <1>7
  <2>. QED
    BY <1>1, <2>1, <2>2, <2>3, <2>4, SameSequences
<1>. HIDE DEF lines
<1>10. \A i \in 1 .. p - 2 : lines[i] = head[i + 1]
  BY <1>1, <1>2, <1>7, <1>8
<1>11. /\ \A i \in 1 .. h : /\ frame.headers[i].name \in DOMAIN Headers(lines)
                            /\ Headers(lines)[frame.headers[i].name]
                                 = frame.headers[i].value
       /\ "content-length" \in DOMAIN Headers(lines) =>
              Headers(lines)["content-length"] = SizeOfUTF8(body)
  <2>1. Len(lines) \in {h, h + 1} /\ Len(lines) + 1 = Len(head)
    BY <1>1, <1>2, <1>3, <1>8 DEF p
  <2>. QED
    BY <1>1, <1>8, <1>10, <2>1, LinesOfFrame DEF h, head, body
<1>12. SizeOfUTF8(body) \in Nat /\ b <= SizeOfUTF8(body)
  <2>1. \A i \in DOMAIN body : body[i].bytes \in Nat \ {0}
    BY DEF WellFormed, body
  <2>. QED
    BY <1>1, <2>1, BytesCoverCharacters DEF b
<1>13. UnmarshallSingle(data) = Frame(data[1].value, Headers(lines), body)
  <2>1. data[p] = LF /\ \A i \in 1 .. p - 1 : data[i] # LF
    <3>1. \A i \in 1 .. p : i \in 1 .. p + b /\ data[i] = text[i]
      BY <1>1, <1>2, <1>7
    <3>. QED
      BY <1>2, <1>4, <3>1
  <2>2. p \in Nat /\ p >= 2 /\ p <= Len(data)
    BY <1>1, <1>2, <1>7
  <2>3. "content-length" \in DOMAIN Headers(lines) =>
            /\ Headers(lines)["content-length"] \in Nat
            /\ Headers(lines)["content-length"] >= Len(body)
    BY <1>1, <1>11, <1>12 DEF b
  <2>. QED
    BY <1>7, <1>9, <2>1, <2>2, <2>3, SingleOfParts DEF lines
<1>14. data[1].value = frame.command
  BY <1>1, <1>2, <1>3, <1>7, TokensDiffer
<1>15. WITNESS UnmarshallSingle(data)
<1>. QED
  BY <1>1, <1>6, <1>11, <1>13, <1>14 DEF Frame, text, body

-----------------------------------------------------------------------------
(* Cutting a text *)

\* The number of pieces: each before the last is full, and there is something
\* left for the last.
LEMMA NumberOfPieces ==
    ASSUME NEW n \in Nat \ {0}, NEW size \in Nat \ {0},
           NEW q, q = (n + size - 1) \div size
    PROVE  /\ q \in Nat \ {0} /\ n <= q * size
           /\ \A i \in 1 .. q : (i - 1) * size \in Nat /\ (i - 1) * size < n
           /\ \A i \in 1 .. q : i < q => i * size < n
<1>1. q \in Nat /\ q * size <= n + size - 1 /\ n + size - 1 < (q + 1) * size
  OBVIOUS
<1>2. (q + 1) * size = q * size + size
  BY <1>1
<1>3. n <= q * size
  BY <1>1, <1>2
<1>4. q # 0
  BY <1>3
<1>5. ASSUME NEW i \in 1 .. q PROVE (i - 1) * size \in Nat /\ (i - 1) * size < n
  <2>1. (q - i) * size >= 0
    BY <1>1
  <2>2. (i - 1) * size = q * size - (q - i) * size - size
    BY <1>1
  <2>3. (i - 1) * size \in Nat
    OBVIOUS
  <2>. QED
    BY <1>1, <2>1, <2>2, <2>3
<1>6. ASSUME NEW i \in 1 .. q, i < q PROVE i * size < n
  <2>1. i + 1 \in 1 .. q /\ (i + 1) - 1 = i
    BY <1>1, <1>6
  <2>. QED
    BY <1>5, <2>1
<1>. QED
  BY <1>1, <1>3, <1>4, <1>5, <1>6

LEMMA MinOfTwo ==
    ASSUME NEW a \in Int, NEW b \in Int
    PROVE  Min({a, b}) = IF a <= b THEN a ELSE b
<1>1. CASE a <= b
  BY <1>1 DEF Min
<1>2. CASE b < a
  BY <1>2 DEF Min
<1>. QED
  BY <1>1, <1>2

\* What the server has after the first i pieces of a text.
FirstPieces(text, size, i) == SubSeq(text, 1, i * size)

\* The pieces of _transmit are not empty and not above the limit, and they add
\* up to the text, with the last one and not before.
THEOREM PiecesAddUp ==
    ASSUME NEW S, NEW text \in Seq(S), text # <<>>, NEW size \in Nat \ {0},
           NEW q, q = Len(Pieces(text, size))
    PROVE  /\ q \in Nat \ {0} /\ Pieces(text, size) \in Seq(Seq(S))
           /\ FirstPieces(text, size, 0) = <<>>
           /\ \A i \in 1 .. q :
                  /\ Len(Pieces(text, size)[i]) \in 1 .. size
                  /\ FirstPieces(text, size, i - 1) \o Pieces(text, size)[i]
                       = IF i < q THEN FirstPieces(text, size, i) ELSE text
           /\ \A i \in 1 .. q : i < q => i * size \in 1 .. Len(text) - 1
<1>. DEFINE n == Len(text)
            pieces == Pieces(text, size)
            m == (n + size - 1) \div size
<1>1. n \in Nat \ {0}
  OBVIOUS
<1>2. /\ m \in Nat \ {0} /\ n <= m * size
      /\ \A i \in 1 .. m : (i - 1) * size \in Nat /\ (i - 1) * size < n
      /\ \A i \in 1 .. m : i < m => i * size < n
  BY <1>1, NumberOfPieces
<1>3. pieces = [i \in 1 .. m |-> SubSeq(text, (i - 1) * size + 1, Min({i * size, n}))]
  BY DEF Pieces
<1>. HIDE DEF m, pieces
<1>4. q = m
  BY <1>2, <1>3 DEF pieces
<1>5. FirstPieces(text, size, 0) = <<>>
  BY SubSeqEmpty DEF FirstPieces
<1>6. ASSUME NEW i \in 1 .. m
      PROVE  /\ pieces[i] \in Seq(S) /\ Len(pieces[i]) \in 1 .. size
             /\ FirstPieces(text, size, i - 1) \o pieces[i]
                  = IF i < m THEN FirstPieces(text, size, i) ELSE text
             /\ i < m => i * size \in 1 .. n - 1
  <2>. DEFINE a == (i - 1) * size
              c == IF i * size <= n THEN i * size ELSE n
  <2>1. a \in Nat /\ a < n /\ i * size = a + size /\ i * size \in Nat
    BY <1>2
  <2>2. pieces[i] = SubSeq(text, a + 1, c)
    <3>1. Min({i * size, n}) = c
      BY <1>1, <2>1, MinOfTwo
    <3>2. pieces[i] = SubSeq(text, (i - 1) * size + 1, Min({i * size, n}))
      BY <1>3
    <3>. HIDE DEF c
    <3>. QED
      BY <3>1, <3>2
  <2>3. i < m => i * size < n
    BY <1>2
  <2>4. i = m => n <= i * size
    BY <1>2
  <2>. HIDE DEF a
  <2>5. c \in Nat /\ a < c /\ c <= n /\ c - a <= size /\ (i < m => c = i * size) /\ (i = m => c = n)
    BY <1>1, <2>1, <2>3, <2>4
  <2>. HIDE DEF c
  <2>6. Len(SubSeq(text, a + 1, c)) = c - a /\ SubSeq(text, a + 1, c) \in Seq(S)
    BY <1>1, <2>1, <2>5
  <2>7. SubSeq(text, 1, a) \o SubSeq(text, a + 1, c) = SubSeq(text, 1, c)
    <3>1. 1 \in 1 .. n + 1 /\ a \in 1 - 1 .. n /\ c \in a .. n
      BY <1>1, <2>1, <2>5
    <3>. QED
      BY <3>1, ConcatAdjacentSubSeq
  <2>8. SubSeq(text, 1, n) = text
    BY SubSeqFull
  <2>9. FirstPieces(text, size, i - 1) = SubSeq(text, 1, a)
    BY DEF FirstPieces, a
  <2>10. FirstPieces(text, size, i) = SubSeq(text, 1, i * size)
    BY DEF FirstPieces
  <2>11. pieces[i] \in Seq(S) /\ Len(pieces[i]) \in 1 .. size
    BY <1>1, <2>1, <2>2, <2>5, <2>6
  <2>12. FirstPieces(text, size, i - 1) \o pieces[i] = SubSeq(text, 1, c)
    BY <2>2, <2>7, <2>9
  <2>13. SubSeq(text, 1, c) = IF i < m THEN FirstPieces(text, size, i) ELSE text
    <3>1. CASE i < m
      BY <2>5, <2>10, <3>1
    <3>2. CASE i = m
      BY <1>2, <2>5, <2>8, <3>2
    <3>. QED
      BY <1>2, <3>1, <3>2
  <2>14. i < m => i * size \in 1 .. n - 1
    BY <1>1, <2>1, <2>3
  <2>. QED
    BY <2>11, <2>12, <2>13, <2>14
<1>7. pieces \in Seq(Seq(S))
  <2>1. pieces \in [1 .. m -> Seq(S)]
    BY <1>3, <1>6
  <2>. QED
    BY <1>2, <2>1
<1>. QED
  BY <1>2, <1>4, <1>5, <1>6, <1>7 DEF pieces

\* A part of a frame's text is no frame's text.
LEMMA PartIsNoText ==
    ASSUME NEW T, NEW f, WellFormed(f, T), NEW U, NEW g, WellFormed(g, U),
           NEW k \in 1 .. Len(Marshall(f)) - 1
    PROVE  SubSeq(Marshall(f), 1, k) # Marshall(g)
<1>1. /\ Marshall(f) \in Seq(Tokens(f, T)) /\ Len(Marshall(f)) \in Nat
      /\ \A i \in 1 .. Len(Marshall(f)) - 1 : Marshall(f)[i] # NUL
  BY TextOfFrame, NulIsLast
<1>2. Len(Marshall(g)) \in Nat /\ Marshall(g)[Len(Marshall(g))] = NUL
  BY NulIsLast
<1>3. /\ Len(SubSeq(Marshall(f), 1, k)) = k
      /\ SubSeq(Marshall(f), 1, k)[k] = Marshall(f)[k]
  BY <1>1
<1>. QED
  BY <1>1, <1>2, <1>3
=============================================================================
