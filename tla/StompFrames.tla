----------------------------- MODULE StompFrames -----------------------------
(***************************************************************************)
(* Frames of stomp.js as text.  A text is a sequence of tokens: a line of  *)
(* the head (with its line end), the blank line, a character of the body,  *)
(* the NUL at the end.  A character is what matters of it: how many bytes  *)
(* it takes in UTF-8, which part of the JSON it belongs to, and whose      *)
(* line's JSON that is.                                                    *)
(***************************************************************************)
EXTENDS Naturals, SequencesExt, FiniteSetsExt

LF == [token |-> "LF"]
NUL == [token |-> "NUL"]
CommandLine(command) == [token |-> "command", value |-> command]
HeaderLine(name, value) == [token |-> "header", name |-> name, value |-> value]
Char(part, line, bytes) ==
    [token |-> "char", part |-> part, line |-> line, bytes |-> bytes]

Frame(command, headers, body) ==
    [command |-> command, headers |-> headers, body |-> body]

SizeOfUTF8(s) == Cardinality(UNION {{i} \X (1 .. s[i].bytes) : i \in DOMAIN s})

ContentLength(body) ==
    IF body = <<>> THEN <<>>
    ELSE <<HeaderLine("content-length", SizeOfUTF8(body))>>

\* Frame.marshall: toString, and NUL.
Marshall(frame) ==
    <<CommandLine(frame.command)>> \o frame.headers \o ContentLength(frame.body)
        \o <<LF>> \o frame.body \o <<NUL>>

\* The head's lines as a map; of a header that is repeated the first counts.
Headers(lines) ==
    [name \in {lines[i].name : i \in DOMAIN lines} |->
        lines[SelectInSeq(lines, LAMBDA line : line.name = name)].value]

\* Mutant: the length is taken for the end of the body.
UnmarshallSingle_LengthAsEnd(data) ==
    LET divider == SelectInSeq(data, LAMBDA t : t = LF)
        headers == Headers(SubSeq(data, 2, divider - 1))
        rest == SubSeq(data, divider + 1, Len(data))
        last == IF "content-length" \in DOMAIN headers
                THEN headers["content-length"] - divider ELSE Len(rest)
    IN  Frame(data[1].value, headers, SubSeq(rest, 1, last))

\* content-length counts bytes and is used as a number of characters: the body
\* of a text that ends with it is taken whole either way.
UnmarshallSingle(data) ==
    LET divider == SelectInSeq(data, LAMBDA t : t = LF)
        headers == Headers(SubSeq(data, 2, divider - 1))
        rest == SubSeq(data, divider + 1, Len(data))
        body == IF "content-length" \in DOMAIN headers
                   /\ headers["content-length"] < Len(rest)
                THEN SubSeq(rest, 1, headers["content-length"]) ELSE rest
    IN  Frame(data[1].value, headers, body)

\* The k-th number of a finite set.
Nth(S, k) == CHOOSE i \in S : Cardinality({j \in S : j <= i}) = k

\* split at each NUL and the line feeds after it: text k is between the NULs
\* k - 1 and k.
Split(datas) ==
    LET ends == {i \in DOMAIN datas : datas[i] = NUL}
        End(k) ==
            CASE k = 0 -> 0
              [] k \in 1 .. Cardinality(ends) -> Nth(ends, k)
              [] OTHER -> Len(datas) + 1
        Start(k) == Min({i \in End(k - 1) + 1 .. End(k) :
                            k = 1 \/ i = End(k) \/ datas[i] # LF})
    IN  [k \in 1 .. Cardinality(ends) + 1 |-> SubSeq(datas, Start(k), End(k) - 1)]

\* A frame for each text that is not empty.
Unmarshall(datas) ==
    LET texts == Split(datas)
        full == {k \in DOMAIN texts : texts[k] # <<>>}
    IN  [i \in 1 .. Cardinality(full) |-> UnmarshallSingle(texts[Nth(full, i)])]

\* Mutant: what remains starts one character too late.
Pieces_SkipsOne(text, size) ==
    [i \in 1 .. (Len(text) + size) \div (size + 1) |->
        SubSeq(text, (i - 1) * (size + 1) + 1,
               Min({i * (size + 1) - 1, Len(text)}))]

\* The loop of _transmit: pieces of at most size, the last one not empty.
Pieces(text, size) ==
    [i \in 1 .. (Len(text) + size - 1) \div size |->
        SubSeq(text, (i - 1) * size + 1, Min({i * size, Len(text)}))]
=============================================================================
