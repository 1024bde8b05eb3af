-------------------------- MODULE XhrReceiverProofs --------------------------
(***************************************************************************)
(* Proofs about XhrReceiver, for any frames and any number of callbacks    *)
(* that throw.                                                             *)
(*                                                                         *)
(* The argument: what a response has still to give is what the server has  *)
(* written beyond the frames handed on (ReadInStep).  Handing on the next  *)
(* n lines then extends the frames handed on as the server wrote them      *)
(* (HandedOnAsWritten), and that is a step Hear of FrameFeed.              *)
(***************************************************************************)
EXTENDS XhrReceiver, SequenceTheorems, TLAPS

\* What SubSeq takes from a sequence.
LEMMA SubSeqElements ==
    ASSUME NEW S, NEW s \in Seq(S), NEW a \in Nat \ {0}, NEW b \in 0 .. Len(s)
    PROVE  /\ SubSeq(s, a, b) \in Seq(S)
           /\ Len(SubSeq(s, a, b)) = IF a <= b THEN b - a + 1 ELSE 0
           /\ \A i \in 1 .. Len(SubSeq(s, a, b)) : SubSeq(s, a, b)[i] = s[a + i - 1]
    OBVIOUS

\* What a concatenation contains.
LEMMA ConcatElements ==
    ASSUME NEW S, NEW s \in Seq(S), NEW t \in Seq(S)
    PROVE  /\ s \o t \in Seq(S)
           /\ Len(s \o t) = Len(s) + Len(t)
           /\ \A i \in 1 .. Len(s) : (s \o t)[i] = s[i]
           /\ \A i \in 1 .. Len(t) : (s \o t)[Len(s) + i] = t[i]
    OBVIOUS

\* The lines onchunk finds are those of the text from line k + 1 on.
LEMMA FreshLines ==
    ASSUME IInv, NEW arrived \in 0 .. 2 * Len(xhr.text), xhr.events = "on", xhr.status = 200,
           NEW k \in Nat, buf_pos = 2 * k
    PROVE  /\ Fresh(arrived) \in Seq(Frame)
           /\ Len(Fresh(arrived)) <= Len(xhr.text)
           /\ k <= Len(xhr.text) => k + Len(Fresh(arrived)) <= Len(xhr.text)
           /\ \A i \in 1 .. Len(Fresh(arrived)) : Fresh(arrived)[i] = xhr.text[k + i]
<1>1. xhr.text \in Seq(Frame) /\ Len(xhr.text) \in Nat
    BY DEF IInv, TypeOK
<1>2. buf_pos \div 2 + 1 = k + 1 /\ arrived \div 2 \in 0 .. Len(xhr.text)
    BY <1>1
<1>3. Fresh(arrived) = SubSeq(xhr.text, k + 1, arrived \div 2)
    BY <1>2 DEF Fresh
<1>. QED
    BY <1>1, <1>2, <1>3, SubSeqElements

\* Handing on n lines extends the frames handed on with what was written next,
\* and stays within the text.
LEMMA HandOnExtends ==
    ASSUME IInv, xhr.state # "none", UNCHANGED written,
           NEW arrived \in 0 .. 2 * Len(xhr.text),
           NEW n \in 0 .. Len(Fresh(arrived)), HandOn(arrived, n)
    PROVE  /\ delivered' \in Seq(Frame) /\ throws' \in 0 .. MaxThrows /\ n \in Nat
           /\ Len(delivered') = Len(delivered) + n
           /\ HandedOnAsWritten'
           /\ n > 0 => /\ transport = "open" /\ xhr.status = 200
                       /\ delivered'[Len(delivered')] = Fresh(arrived)[n]
           /\ transport = "open" /\ xhr.status = 200 => buf_pos + 2 * n <= 2 * Len(xhr.text)
<1>1. CASE transport = "closed" \/ xhr.status # 200
  <2>1. Fresh(arrived) = <<>>
    BY <1>1 DEF IInv, ClosedIsQuiet, Fresh
  <2>2. n = 0 /\ SubSeq(Fresh(arrived), 1, n) = <<>>
    BY <2>1
  <2>3. delivered' = delivered
    BY <2>2 DEF HandOn, IInv, TypeOK
  <2>. QED
    BY <1>1, <2>2, <2>3, MaxThrowsAssumption DEF HandOn, IInv, TypeOK, HandedOnAsWritten
<1>2. CASE transport = "open" /\ xhr.status = 200
  <2>1. xhr.events = "on"
    BY <1>2 DEF IInv, ClosedIsQuiet, TypeOK, Request
  <2>2. PICK k \in 0 .. Len(delivered) :
            /\ buf_pos = 2 * k
            /\ Len(written) + k = Len(delivered) + Len(xhr.text)
            /\ \A i \in 1 .. Len(xhr.text) : xhr.text[i] = written[Len(delivered) - k + i]
    BY <1>2 DEF IInv, ReadInStep
  <2>3. /\ xhr.text \in Seq(Frame) /\ delivered \in Seq(Frame) /\ written \in Seq(Frame)
        /\ k <= Len(xhr.text)
    BY <1>2, <2>2 DEF IInv, TypeOK, ReadInStep
  <2>4. /\ Fresh(arrived) \in Seq(Frame)
        /\ k + Len(Fresh(arrived)) <= Len(xhr.text)
        /\ \A i \in 1 .. Len(Fresh(arrived)) : Fresh(arrived)[i] = xhr.text[k + i]
    <3>1. k \in Nat /\ buf_pos = 2 * k
      BY <2>2, <2>3
    <3>. QED
      BY <1>2, <2>1, <2>3, <3>1, FreshLines
  <2>. DEFINE new == SubSeq(Fresh(arrived), 1, n)
  <2>5. /\ new \in Seq(Frame) /\ Len(new) = n
        /\ \A i \in 1 .. n : new[i] = Fresh(arrived)[i]
    BY <2>4, SubSeqElements
  <2>6. delivered' = delivered \o new
    BY DEF HandOn
  <2>. HIDE DEF new
  <2>7. /\ delivered' \in Seq(Frame) /\ Len(delivered') = Len(delivered) + n
        /\ \A i \in 1 .. Len(delivered) : delivered'[i] = delivered[i]
        /\ \A i \in 1 .. n : delivered'[Len(delivered) + i] = new[i]
    <3>1. delivered \in Seq(Frame) /\ new \in Seq(Frame)
      BY <2>3, <2>5
    <3>2. /\ delivered \o new \in Seq(Frame)
          /\ Len(delivered \o new) = Len(delivered) + Len(new)
          /\ \A i \in 1 .. Len(delivered) : (delivered \o new)[i] = delivered[i]
          /\ \A i \in 1 .. Len(new) : (delivered \o new)[Len(delivered) + i] = new[i]
      BY <3>1, ConcatElements
    <3>. QED
      BY <2>5, <2>6, <3>2, Zenon
  <2>8. \A i \in 1 .. n : new[i] = written[Len(delivered) + i]
    <3>1. SUFFICES ASSUME NEW i \in 1 .. n PROVE new[i] = written[Len(delivered) + i]
      OBVIOUS
    <3>2. i \in 1 .. Len(Fresh(arrived)) /\ k + i \in 1 .. Len(xhr.text)
      <4>1. /\ k \in Nat /\ n \in Nat /\ Len(xhr.text) \in Nat
            /\ Len(Fresh(arrived)) \in Nat /\ k + Len(Fresh(arrived)) <= Len(xhr.text)
        BY <2>3, <2>4
      <4>. QED
        BY <4>1
    <3>3. new[i] = xhr.text[k + i]
      BY <2>4, <2>5, <3>2
    <3>4. xhr.text[k + i] = written[Len(delivered) - k + (k + i)]
      BY <2>2, <3>2
    <3>5. Len(delivered) - k + (k + i) = Len(delivered) + i
      BY <2>2, <2>3
    <3>. QED
      BY <3>3, <3>4, <3>5
  <2>9. HandedOnAsWritten'
    <3>1. Len(delivered') <= Len(written)
      BY <2>2, <2>3, <2>4, <2>7
    <3>2. ASSUME NEW i \in 1 .. Len(delivered') PROVE delivered'[i] = written[i]
      <4>1. CASE i <= Len(delivered)
        BY <2>3, <2>7, <4>1 DEF IInv, HandedOnAsWritten
      <4>2. CASE i > Len(delivered)
        <5>1. i - Len(delivered) \in 1 .. n /\ i = Len(delivered) + (i - Len(delivered))
          BY <2>3, <2>7, <4>2
        <5>. QED
          BY <2>7, <2>8, <5>1
      <4>. QED
        BY <2>3, <4>1, <4>2
    <3>. QED
      BY <3>1, <3>2 DEF HandedOnAsWritten
  <2>10. throws' \in 0 .. MaxThrows
    BY MaxThrowsAssumption DEF HandOn, IInv, TypeOK
  <2>11. n > 0 => delivered'[Len(delivered')] = Fresh(arrived)[n]
    BY <2>3, <2>5, <2>7
  <2>12. buf_pos + 2 * n <= 2 * Len(xhr.text)
    BY <2>2, <2>3, <2>4
  <2>. QED
    BY <1>2, <2>7, <2>9, <2>10, <2>11, <2>12
<1>. QED
  BY <1>1, <1>2 DEF IInv, TypeOK

-----------------------------------------------------------------------------
(* The invariant *)

\* A fresh request reads nothing and is heard.
LEMMA NewRequestIsTyped ==
    /\ NewRequest \in Request /\ NoRequest \in Request
    /\ NewRequest.text = <<>> /\ NoRequest.text = <<>>
    /\ NewRequest.state = "scheduled" /\ NewRequest.events = "on"
    /\ NewRequest.arrived = 0 /\ NoRequest.state = "none"
  BY DEF NewRequest, NoRequest, Request

\* The initial state satisfies the invariant.
LEMMA InitIInv == Init => IInv
<1>. SUFFICES ASSUME Init PROVE IInv
  OBVIOUS
<1>1. TypeOK
  <2>1. <<>> \in Seq(Frame) /\ Len(<<>>) = 0 /\ 0 \in 0 .. MaxThrows
    BY MaxThrowsAssumption
  <2>. QED
    BY <2>1, NewRequestIsTyped DEF Init, TypeOK
<1>2. ClosedIsQuiet /\ HandedOnAsWritten
  BY NewRequestIsTyped DEF Init, ClosedIsQuiet, HandedOnAsWritten
<1>3. ReadInStep
  <2>1. /\ Len(written) = 0 /\ Len(delivered) = 0 /\ Len(xhr.text) = 0
        /\ buf_pos = 2 * 0 /\ xhr.arrived = 0
    BY NewRequestIsTyped DEF Init
  <2>2. \E k \in 0 .. Len(delivered) :
            /\ buf_pos = 2 * k
            /\ Len(written) + k = Len(delivered) + Len(xhr.text)
            /\ \A i \in 1 .. Len(xhr.text) :
                   xhr.text[i] = written[Len(delivered) - k + i]
    <3>1. 0 \in 0 .. Len(delivered)
      BY <2>1
    <3>2. WITNESS 0 \in 0 .. Len(delivered)
    <3>. QED
      BY <2>1
  <2>. QED
    BY <2>1, <2>2 DEF ReadInStep
<1>. QED
  BY <1>1, <1>2, <1>3 DEF IInv

\* The server's steps.
LEMMA ServerKeepsIInv == ASSUME IInv, ServerStep PROVE IInv'
<1>. USE DEF IInv
<1>1. ASSUME NEW f \in Frame, Write(f) PROVE IInv'
  <2>1. TypeOK'
    <3>1. /\ xhr.text \in Seq(Frame \cup {Page}) /\ f \in Frame \cup {Page}
          /\ xhr.status = 200 => xhr.text \in Seq(Frame)
          /\ written \in Seq(Frame)
      BY DEF TypeOK, Request
    <3>2. /\ Append(xhr.text, f) \in Seq(Frame \cup {Page})
          /\ xhr.status = 200 => Append(xhr.text, f) \in Seq(Frame)
          /\ Append(written, f) \in Seq(Frame) /\ Len(Append(written, f)) = Len(written) + 1
      BY <3>1
    <3>3. /\ xhr' \in Request /\ xhr'.text = Append(xhr.text, f)
          /\ xhr'.status = xhr.status
      <4>1. xhr \in Request /\ xhr' = [xhr EXCEPT !.text = Append(xhr.text, f)]
        BY <1>1 DEF Write, TypeOK
      <4>2. xhr' \in Request
        <5>1. Append(xhr.text, f) \in Seq(Frame \cup {Page})
          BY <3>2
        <5>. QED
          BY <4>1, <5>1 DEF Request
      <4>3. xhr'.text = Append(xhr.text, f) /\ xhr'.status = xhr.status
        BY <4>1 DEF Request
      <4>. QED
        BY <4>2, <4>3
    <3>. QED
      BY <1>1, <3>2, <3>3 DEF Write, TypeOK, pageVars
  <2>2. ClosedIsQuiet'
    BY <1>1 DEF Write, TypeOK, Request, pageVars, ClosedIsQuiet
  <2>3. HandedOnAsWritten'
    BY <1>1 DEF Write, TypeOK, pageVars, HandedOnAsWritten
  <2>4. ReadInStep'
    <3>1. SUFFICES ASSUME transport = "open", xhr.status = 200 PROVE ReadInStep'
      BY <1>1 DEF Write, TypeOK, Request, pageVars, ReadInStep
    <3>2. PICK k \in 0 .. Len(delivered) :
              /\ buf_pos = 2 * k
              /\ Len(written) + k = Len(delivered) + Len(xhr.text)
              /\ \A i \in 1 .. Len(xhr.text) : xhr.text[i] = written[Len(delivered) - k + i]
      BY <3>1 DEF ReadInStep
    <3>3. /\ xhr.text \in Seq(Frame) /\ written \in Seq(Frame) /\ delivered \in Seq(Frame)
          /\ f \in Frame
      BY <3>1, <1>1 DEF TypeOK
    <3>4. /\ xhr'.text = Append(xhr.text, f) /\ written' = Append(written, f)
          /\ xhr'.arrived = xhr.arrived
      BY <1>1 DEF Write, TypeOK, Request
    <3>5. /\ Len(xhr'.text) = Len(xhr.text) + 1 /\ Len(written') = Len(written) + 1
          /\ xhr'.text[Len(xhr.text) + 1] = f /\ written'[Len(written) + 1] = f
          /\ \A i \in 1 .. Len(xhr.text) : xhr'.text[i] = xhr.text[i]
          /\ \A i \in 1 .. Len(written) : written'[i] = written[i]
      BY <3>3, <3>4
    <3>6. /\ Len(xhr.text) \in Nat /\ Len(written) \in Nat /\ Len(delivered) \in Nat
          /\ k \in Nat /\ Len(written) + k = Len(delivered) + Len(xhr.text)
      BY <3>2, <3>3
    <3>7. \A i \in 1 .. Len(xhr'.text) : xhr'.text[i] = written'[Len(delivered) - k + i]
      <4>1. SUFFICES ASSUME NEW i \in 1 .. Len(xhr'.text)
                     PROVE  xhr'.text[i] = written'[Len(delivered) - k + i]
        OBVIOUS
      <4>2. CASE i = Len(xhr.text) + 1
        <5>1. Len(delivered) - k + i = Len(written) + 1
          BY <3>6, <4>2
        <5>. QED
          BY <3>5, <4>2, <5>1
      <4>3. CASE i # Len(xhr.text) + 1
        <5>1. i \in 1 .. Len(xhr.text)
          BY <3>3, <3>5, <4>3
        <5>2. k <= Len(delivered)
          BY <3>2, <3>6
        <5>3. Len(delivered) - k + i \in 1 .. Len(written)
          BY <3>6, <5>1, <5>2
        <5>4. xhr.text[i] = written[Len(delivered) - k + i]
          BY <3>2, <5>1
        <5>. QED
          BY <3>5, <5>1, <5>3, <5>4
      <4>. QED
        BY <4>2, <4>3
    <3>8. \E j \in 0 .. Len(delivered') :
              /\ buf_pos' = 2 * j
              /\ Len(written') + j = Len(delivered') + Len(xhr'.text)
              /\ \A i \in 1 .. Len(xhr'.text) : xhr'.text[i] = written'[Len(delivered') - j + i]
      <4>1. UNCHANGED <<buf_pos, delivered>>
        BY <1>1 DEF Write, pageVars
      <4>2. k \in 0 .. Len(delivered')
        BY <4>1
      <4>3. buf_pos' = 2 * k
        BY <3>2, <4>1
      <4>4. Len(written') + k = Len(delivered') + Len(xhr'.text)
        <5>1. /\ Len(xhr'.text) = Len(xhr.text) + 1 /\ Len(written') = Len(written) + 1
              /\ Len(delivered') = Len(delivered)
          BY <3>5, <4>1
        <5>. QED
          BY <3>6, <5>1
      <4>5. \A i \in 1 .. Len(xhr'.text) : xhr'.text[i] = written'[Len(delivered') - k + i]
        BY <3>7, <4>1
      <4>. QED
        BY <4>2, <4>3, <4>4, <4>5
    <3>9. xhr'.arrived <= 2 * Len(xhr'.text) /\ buf_pos' <= 2 * Len(xhr'.text)
      <4>1. xhr.arrived <= 2 * Len(xhr.text) /\ buf_pos <= 2 * Len(xhr.text)
        BY <3>1 DEF ReadInStep
      <4>2. xhr.arrived \in Nat /\ buf_pos \in Nat /\ buf_pos' = buf_pos
        BY <1>1, <3>3 DEF Write, pageVars, TypeOK, Request
      <4>3. Len(xhr'.text) = Len(xhr.text) + 1 /\ xhr'.arrived = xhr.arrived
        BY <3>4, <3>5
      <4>4. buf_pos' <= 2 * Len(xhr'.text)
        BY <3>6, <4>1, <4>2, <4>3
      <4>5. xhr'.arrived <= 2 * Len(xhr'.text)
        BY <3>6, <4>1, <4>2, <4>3
      <4>. QED
        BY <4>4, <4>5
    <3>. QED
      BY <3>8, <3>9 DEF ReadInStep
  <2>. QED
    BY <2>1, <2>2, <2>3, <2>4
<1>2. CASE EndResponse
  <2>1. TypeOK'
    <3>1. xhr' \in Request /\ xhr'.text = xhr.text /\ xhr'.status = xhr.status
      <4>1. xhr \in Request /\ xhr' = [xhr EXCEPT !.state = "answered"]
        BY <1>2 DEF EndResponse, TypeOK
      <4>. QED
        BY <4>1 DEF Request
    <3>. QED
      BY <1>2, <3>1 DEF EndResponse, TypeOK, pageVars
  <2>2. UNCHANGED <<transport, buf_pos, delivered, written>>
    BY <1>2 DEF EndResponse, pageVars
  <2>3. /\ xhr'.text = xhr.text /\ xhr'.status = xhr.status /\ xhr'.arrived = xhr.arrived
        /\ xhr'.events = xhr.events /\ xhr.state # "none" /\ xhr'.state # "none"
    BY <1>2 DEF EndResponse, Writing, TypeOK, Request
  <2>. QED
    BY <2>1, <2>2, <2>3 DEF ClosedIsQuiet, HandedOnAsWritten, ReadInStep
<1>3. CASE Refuse \/ Break
  <2>1. UNCHANGED <<pageVars, written>> /\ xhr.state = "sent"
    BY <1>3 DEF Refuse, Break, Writing
  <2>2. PICK code \in {0, 500}, text \in Seq(Frame \cup {Page}) : xhr' = Failure(code, text)
    <3>1. <<Page>> \in Seq(Frame \cup {Page}) /\ <<>> \in Seq(Frame \cup {Page})
      OBVIOUS
    <3>2. xhr' = Failure(500, <<Page>>) \/ xhr' = Failure(0, <<>>)
      BY <1>3 DEF Refuse, Break
    <3>3. CASE xhr' = Failure(500, <<Page>>)
      <4>. WITNESS 500 \in {0, 500}, <<Page>> \in Seq(Frame \cup {Page})
      <4>. QED
        BY <3>3
    <3>4. CASE xhr' = Failure(0, <<>>)
      <4>. WITNESS 0 \in {0, 500}, <<>> \in Seq(Frame \cup {Page})
      <4>. QED
        BY <3>4
    <3>. QED
      BY <3>2, <3>3, <3>4
  <2>3. /\ xhr' \in Request /\ xhr'.status # 200
        /\ xhr'.state = "answered" /\ xhr'.events = xhr.events
    BY <2>2 DEF Failure, TypeOK, Request
  <2>. QED
    BY <2>1, <2>3 DEF pageVars, TypeOK, ClosedIsQuiet, HandedOnAsWritten, ReadInStep
<1>. QED
  BY <1>1, <1>2, <1>3 DEF ServerStep

\* The position moves on by as many lines as are handed on.
LEMMA HandOnReads ==
    ASSUME IInv, xhr.state # "none", transport = "open", xhr.status = 200,
           UNCHANGED written, NEW arrived \in 0 .. 2 * Len(xhr.text),
           NEW n \in 0 .. Len(Fresh(arrived)), HandOn(arrived, n)
    PROVE  \E k \in 0 .. Len(delivered') :
               /\ buf_pos + 2 * n = 2 * k
               /\ Len(written) + k = Len(delivered') + Len(xhr.text)
               /\ \A i \in 1 .. Len(xhr.text) :
                      xhr.text[i] = written[Len(delivered') - k + i]
<1>1. PICK k \in 0 .. Len(delivered) :
          /\ buf_pos = 2 * k
          /\ Len(written) + k = Len(delivered) + Len(xhr.text)
          /\ \A i \in 1 .. Len(xhr.text) : xhr.text[i] = written[Len(delivered) - k + i]
  BY DEF IInv, ReadInStep
<1>2. /\ Len(delivered) \in Nat /\ k \in Nat /\ n \in Nat /\ k <= Len(delivered)
      /\ Len(written) \in Nat /\ Len(delivered') = Len(delivered) + n
  <2>1. n \in Nat /\ Len(delivered') = Len(delivered) + n
    BY HandOnExtends
  <2>2. Len(delivered) \in Nat /\ Len(written) \in Nat
    BY DEF IInv, TypeOK
  <2>. QED
    BY <2>1, <2>2
<1>3. k + n \in 0 .. Len(delivered') /\ buf_pos + 2 * n = 2 * (k + n)
  BY <1>1, <1>2
<1>4. /\ Len(written) + (k + n) = Len(delivered') + Len(xhr.text)
      /\ Len(delivered') - (k + n) = Len(delivered) - k
  <2>1. PICK w \in Nat, d \in Nat, x \in Nat :
            w = Len(written) /\ d = Len(delivered) /\ x = Len(xhr.text)
    BY DEF IInv, TypeOK
  <2>2. w + k = d + x /\ k \in Nat /\ n \in Nat
    BY <1>1, <1>2, <2>1
  <2>3. w + (k + n) = (d + n) + x /\ (d + n) - (k + n) = d - k
    BY <2>2
  <2>. QED
    BY <1>2, <2>1, <2>3
<1>5. \A i \in 1 .. Len(xhr.text) : xhr.text[i] = written[Len(delivered') - (k + n) + i]
  <2>1. SUFFICES ASSUME NEW i \in 1 .. Len(xhr.text)
                 PROVE  xhr.text[i] = written[Len(delivered') - (k + n) + i]
    OBVIOUS
  <2>2. xhr.text[i] = written[(Len(delivered) - k) + i]
    BY <1>1
  <2>3. Len(delivered') - (k + n) = Len(delivered) - k
    BY <1>4
  <2>. QED
    BY <2>2, <2>3
<1>. QED
  BY <1>3, <1>4, <1>5

\* What the steps of the browser have in common: frames are handed on, and the
\* position moves on, in a text that stays.
LEMMA ReadingKeepsIInv ==
    ASSUME IInv, xhr.state # "none", UNCHANGED <<transport, written>>,
           NEW arrived \in 0 .. 2 * Len(xhr.text),
           NEW n \in 0 .. Len(Fresh(arrived)), HandOn(arrived, n),
           buf_pos' = buf_pos + 2 * n,
           xhr' \in Request, xhr'.text = xhr.text, xhr'.status = xhr.status,
           xhr'.events = xhr.events, xhr'.state # "none",
           xhr'.arrived \in 0 .. 2 * Len(xhr.text)
    PROVE  IInv'
<1>1. /\ delivered' \in Seq(Frame) /\ throws' \in 0 .. MaxThrows /\ n \in Nat
      /\ Len(delivered') = Len(delivered) + n
      /\ HandedOnAsWritten'
      /\ n > 0 => transport = "open" /\ xhr.status = 200
      /\ transport = "open" /\ xhr.status = 200 => buf_pos + 2 * n <= 2 * Len(xhr.text)
  BY HandOnExtends
<1>2. ClosedIsQuiet'
  BY DEF IInv, ClosedIsQuiet
<1>3. CASE transport = "open" /\ xhr.status = 200
  <2>1. PICK k \in 0 .. Len(delivered') :
            /\ buf_pos + 2 * n = 2 * k
            /\ Len(written) + k = Len(delivered') + Len(xhr.text)
            /\ \A i \in 1 .. Len(xhr.text) : xhr.text[i] = written[Len(delivered') - k + i]
    BY <1>3, HandOnReads
  <2>2. ReadInStep'
    <3>1. xhr'.arrived <= 2 * Len(xhr.text) /\ buf_pos' <= 2 * Len(xhr.text)
      BY <1>1, <1>3 DEF IInv, TypeOK
    <3>. QED
      BY <2>1, <3>1 DEF ReadInStep
  <2>3. TypeOK'
    <3>1. buf_pos' \in 0 .. 2 * Len(written)
      <4>1. /\ Len(delivered') \in Nat /\ Len(written) \in Nat /\ Len(xhr.text) \in Nat
            /\ buf_pos \in Nat /\ Len(xhr.text) <= Len(written)
        <5>1. Len(delivered') \in Nat /\ Len(written) \in Nat /\ Len(xhr.text) \in Nat
          <6>1. xhr.text \in Seq(Frame) /\ written \in Seq(Frame)
            BY <1>3 DEF IInv, TypeOK
          <6>. QED
            BY <1>1, <6>1
        <5>2. k \in Nat /\ k <= Len(delivered')
          BY <2>1, <5>1
        <5>3. Len(written) + k = Len(delivered') + Len(xhr.text)
          BY <2>1
        <5>4. Len(xhr.text) <= Len(written)
          BY <5>1, <5>2, <5>3
        <5>. QED
          BY <5>1, <5>4 DEF IInv, TypeOK
      <4>. QED
        BY <1>1, <1>3, <4>1
    <3>. QED
      BY <1>1, <3>1 DEF IInv, TypeOK
  <2>. QED
    BY <1>1, <1>2, <2>2, <2>3 DEF IInv
<1>4. CASE transport # "open" \/ xhr.status # 200
  <2>1. n = 0 /\ buf_pos' = buf_pos
    BY <1>1, <1>4 DEF IInv, TypeOK
  <2>2. TypeOK'
    BY <1>1, <2>1 DEF IInv, TypeOK
  <2>3. ReadInStep'
    BY <1>4 DEF ReadInStep
  <2>. QED
    BY <1>1, <1>2, <2>2, <2>3 DEF IInv
<1>. QED
  BY <1>3, <1>4

\* A transport that is closed has read what it has, and is quiet.
LEMMA ClosingKeepsIInv ==
    ASSUME IInv, UNCHANGED written, transport' = "closed",
           xhr' \in Request, xhr'.status = 200 => xhr'.text \in Seq(Frame),
           xhr'.state = "none" \/ xhr'.events = "nuked",
           buf_pos' \in 0 .. 2 * Len(written), delivered' \in Seq(Frame),
           throws' \in 0 .. MaxThrows, HandedOnAsWritten'
    PROVE  IInv'
<1>1. TypeOK'
  BY DEF IInv, TypeOK
<1>2. ReadInStep' /\ ClosedIsQuiet'
  BY DEF ReadInStep, ClosedIsQuiet
<1>. QED
  BY <1>1, <1>2 DEF IInv

\* What _didClose leaves of the request.
LEMMA DidCloseQuiets ==
    ASSUME IInv, DidClose
    PROVE  /\ transport' = "closed" /\ xhr' \in Request
           /\ xhr'.status = 200 => xhr'.text \in Seq(Frame)
           /\ xhr'.state = "none" \/ xhr'.events = "nuked"
<1>1. CASE xhr.state = "scheduled"
  <2>1. xhr \in Request /\ xhr' = [xhr EXCEPT !.events = "nuked"]
    BY <1>1 DEF DidClose, IInv, TypeOK
  <2>2. xhr' \in Request
    BY <2>1 DEF Request
  <2>3. xhr'.events = "nuked" /\ xhr'.text = xhr.text /\ xhr'.status = xhr.status
    BY <2>1 DEF Request
  <2>. QED
    BY <2>2, <2>3 DEF DidClose, IInv, TypeOK
<1>2. CASE xhr.state # "scheduled"
  <2>1. xhr' = NoRequest
    BY <1>2 DEF DidClose
  <2>2. <<>> \in Seq(Frame)
    OBVIOUS
  <2>. QED
    BY <2>1, <2>2, NewRequestIsTyped DEF DidClose
<1>. QED
  BY <1>1, <1>2

\* Handing frames on before a close.
LEMMA HandOnAndClose ==
    ASSUME IInv, xhr.state # "none", NEW arrived \in 0 .. 2 * Len(xhr.text),
           NEW n \in 0 .. Len(Fresh(arrived)), HandOn(arrived, n), UNCHANGED written,
           transport' = "closed", xhr' \in Request,
           xhr'.status = 200 => xhr'.text \in Seq(Frame),
           xhr'.state = "none" \/ xhr'.events = "nuked",
           buf_pos' \in 0 .. 2 * Len(written)
    PROVE  IInv'
  BY HandOnExtends, ClosingKeepsIInv

\* The steps that do not read.
LEMMA StartKeepsIInv == ASSUME IInv, Start PROVE IInv'
<1>1. xhr \in Request /\ xhr' = [xhr EXCEPT !.state = "sent"] /\ xhr.state # "none"
  BY DEF Start, IInv, TypeOK
<1>2. xhr' \in Request
  BY <1>1 DEF Request
<1>3. /\ xhr'.text = xhr.text /\ xhr'.status = xhr.status /\ xhr'.arrived = xhr.arrived
      /\ xhr'.events = xhr.events /\ xhr'.state # "none"
  BY <1>1 DEF Request
<1>4. UNCHANGED <<transport, buf_pos, delivered, throws, written>>
  BY DEF Start, pageVars
<1>. QED
  BY <1>1, <1>2, <1>3, <1>4 DEF IInv, TypeOK, ReadInStep, ClosedIsQuiet, HandedOnAsWritten

LEMMA CloseKeepsIInv == ASSUME IInv, Close PROVE IInv'
<1>1. DidClose /\ UNCHANGED <<buf_pos, delivered, throws, written>>
  BY DEF Close
<1>2. HandedOnAsWritten'
  BY <1>1 DEF IInv, HandedOnAsWritten
<1>. QED
  BY <1>1, <1>2, DidCloseQuiets, ClosingKeepsIInv DEF IInv, TypeOK

\* The position stays within what has been written.
LEMMA PositionStays ==
    ASSUME IInv, xhr.state # "none", UNCHANGED written,
           NEW arrived \in 0 .. 2 * Len(xhr.text),
           NEW n \in 0 .. Len(Fresh(arrived)), HandOn(arrived, n)
    PROVE  buf_pos + 2 * n \in 0 .. 2 * Len(written)
<1>1. /\ n \in Nat /\ delivered' \in Seq(Frame) /\ HandedOnAsWritten'
      /\ n > 0 => transport = "open" /\ xhr.status = 200
  BY HandOnExtends
<1>2. CASE transport = "open" /\ xhr.status = 200
  <2>1. PICK k \in 0 .. Len(delivered') : buf_pos + 2 * n = 2 * k
    BY <1>2, HandOnReads
  <2>2. Len(delivered') \in Nat /\ Len(written) \in Nat /\ Len(delivered') <= Len(written)
    BY <1>1 DEF IInv, TypeOK, HandedOnAsWritten
  <2>. QED
    BY <2>1, <2>2
<1>3. CASE transport # "open" \/ xhr.status # 200
  <2>1. n = 0
    BY <1>1, <1>3
  <2>. QED
    BY <2>1 DEF IInv, TypeOK
<1>. QED
  BY <1>2, <1>3

LEMMA ChunkKeepsIInv == ASSUME IInv, Chunk PROVE IInv'
<1>. DEFINE Reads(arrived, n) ==
         /\ HandOn(arrived, n)
         /\ buf_pos' = buf_pos + 2 * n
         /\ \/ HandsOnClose(arrived, n) /\ DidClose
            \/ /\ ~HandsOnClose(arrived, n)
               /\ xhr' = [xhr EXCEPT !.arrived = arrived]
               /\ UNCHANGED transport
<1>0. PICK arrived \in xhr.arrived + 1 .. 2 * Len(xhr.text) :
          \E n \in 0 .. Len(Fresh(arrived)) : Reads(arrived, n)
  BY DEF Chunk
<1>1. PICK n \in 0 .. Len(Fresh(arrived)) : Reads(arrived, n)
  BY <1>0
<1>2. xhr \in Request /\ xhr.state # "none" /\ UNCHANGED written
  BY DEF Chunk, IInv, TypeOK
<1>3. arrived \in 0 .. 2 * Len(xhr.text) /\ arrived \in Nat
  <2>1. xhr.arrived \in Nat /\ Len(xhr.text) \in Nat
    BY <1>2 DEF Request
  <2>. QED
    BY <2>1
<1>4. CASE HandsOnClose(arrived, n) /\ DidClose
  <2>1. buf_pos' \in 0 .. 2 * Len(written)
    BY <1>1, <1>2, <1>3, PositionStays
  <2>. QED
    BY <1>1, <1>2, <1>3, <1>4, <2>1, DidCloseQuiets, HandOnAndClose
<1>5. CASE xhr' = [xhr EXCEPT !.arrived = arrived] /\ UNCHANGED transport
  <2>1. xhr' \in Request
    BY <1>2, <1>3, <1>5 DEF Request
  <2>2. /\ xhr'.text = xhr.text /\ xhr'.status = xhr.status /\ xhr'.events = xhr.events
        /\ xhr'.state # "none" /\ xhr'.arrived = arrived
    BY <1>2, <1>5 DEF Request
  <2>. QED
    BY <1>1, <1>2, <1>3, <1>5, <2>1, <2>2, ReadingKeepsIInv
<1>. QED
  BY <1>1, <1>4, <1>5

\* At the end of a response all of its lines are handed on, unless a callback
\* throws: nothing that was written is missed.
LEMMA AllRead ==
    ASSUME IInv, xhr.state # "none", xhr.events = "on", xhr.status = 200,
           UNCHANGED <<written, throws>>,
           NEW n \in 0 .. Len(Fresh(2 * Len(xhr.text))), HandOn(2 * Len(xhr.text), n)
    PROVE  transport = "open" /\ Len(delivered') = Len(written)
<1>1. transport = "open"
  BY DEF IInv, ClosedIsQuiet, TypeOK
<1>2. PICK k \in 0 .. Len(delivered) :
          /\ buf_pos = 2 * k
          /\ Len(written) + k = Len(delivered) + Len(xhr.text)
  BY <1>1 DEF IInv, ReadInStep
<1>3. PICK x \in Nat : x = Len(xhr.text)
  BY DEF IInv, TypeOK
<1>4. xhr.text \in Seq(Frame) /\ Len(delivered) \in Nat /\ Len(written) \in Nat /\ throws \in Nat
  BY DEF IInv, TypeOK
<1>5. k \in Nat /\ k <= x
  BY <1>1, <1>2, <1>3, <1>4 DEF IInv, ReadInStep
<1>6. buf_pos \div 2 + 1 = k + 1 /\ (2 * x) \div 2 = x
  <2>1. x \in Nat /\ k \in Nat /\ buf_pos = 2 * k
    BY <1>2, <1>5
  <2>2. (2 * k) \div 2 = k /\ (2 * x) \div 2 = x
    BY <2>1
  <2>. QED
    BY <2>1, <2>2
<1>7. Fresh(2 * Len(xhr.text)) = SubSeq(xhr.text, k + 1, x)
  BY <1>3, <1>6 DEF Fresh
<1>8. Len(SubSeq(xhr.text, k + 1, x)) = x - k
  <2>1. k + 1 \in Nat \ {0} /\ x \in 0 .. Len(xhr.text)
    BY <1>3, <1>5
  <2>2. Len(SubSeq(xhr.text, k + 1, x)) = IF k + 1 <= x THEN x - (k + 1) + 1 ELSE 0
    BY <1>4, <2>1, SubSeqElements
  <2>. QED
    BY <1>3, <1>5, <2>2
<1>9. n = x - k
  <2>1. n = Len(Fresh(2 * Len(xhr.text)))
    BY <1>4 DEF HandOn
  <2>. QED
    BY <1>7, <1>8, <2>1
<1>10. Len(delivered') = Len(delivered) + n
  <2>1. 2 * Len(xhr.text) \in 0 .. 2 * Len(xhr.text)
    BY <1>3
  <2>. QED
    BY <2>1, HandOnExtends
<1>11. Len(written) + k = Len(delivered) + x
  BY <1>2, <1>3
<1>. QED
  BY <1>1, <1>3, <1>4, <1>5, <1>9, <1>10, <1>11

LEMMA FinishKeepsIInv == ASSUME IInv, Finish PROVE IInv'
<1>. DEFINE length == 2 * Len(xhr.text)
<1>1. PICK n \in 0 .. Len(Fresh(length)) :
          /\ HandOn(length, n)
          /\ \/ /\ throws' # throws
                /\ xhr' = [xhr EXCEPT !.state = "stuck"]
                /\ buf_pos' = buf_pos + 2 * n
                /\ UNCHANGED transport
             \/ /\ throws' = throws
                /\ HandsOnClose(length, n)
                /\ DidClose
                /\ UNCHANGED buf_pos
             \/ /\ throws' = throws
                /\ ~HandsOnClose(length, n)
                /\ xhr.events = "on"
                /\ Finished
             \/ /\ xhr.events = "nuked"
                /\ xhr' = NoRequest
                /\ UNCHANGED <<transport, buf_pos>>
  BY DEF Finish
<1>2. xhr \in Request /\ xhr.state = "answered" /\ UNCHANGED written
  BY DEF Finish, IInv, TypeOK
<1>3. length \in 0 .. 2 * Len(xhr.text)
  <2>1. Len(xhr.text) \in Nat
    BY <1>2 DEF Request
  <2>. QED
    BY <2>1
<1>4. <<>> \in Seq(Frame) /\ buf_pos \in 0 .. 2 * Len(written)
  BY DEF IInv, TypeOK
<1>. HIDE DEF length
<1>5. CASE /\ xhr' = [xhr EXCEPT !.state = "stuck"]
           /\ buf_pos' = buf_pos + 2 * n
           /\ UNCHANGED transport
  <2>1. xhr' \in Request
    BY <1>2, <1>5 DEF Request
  <2>2. /\ xhr'.text = xhr.text /\ xhr'.status = xhr.status /\ xhr'.events = xhr.events
        /\ xhr'.state # "none" /\ xhr'.arrived = xhr.arrived
    BY <1>2, <1>5 DEF Request
  <2>3. CASE transport = "open" /\ xhr.status = 200
    <3>1. xhr.arrived \in 0 .. 2 * Len(xhr.text)
      <4>1. xhr.arrived \in Nat /\ xhr.arrived <= 2 * Len(xhr.text) /\ Len(xhr.text) \in Nat
        BY <1>2, <2>3 DEF Request, IInv, ReadInStep
      <4>. QED
        BY <4>1
    <3>. QED
      BY <1>1, <1>2, <1>3, <1>5, <2>1, <2>2, <3>1, ReadingKeepsIInv
  <2>4. CASE transport # "open" \/ xhr.status # 200
    <3>1. /\ delivered' \in Seq(Frame) /\ throws' \in 0 .. MaxThrows
          /\ HandedOnAsWritten'
      BY <1>1, <1>2, <1>3, HandOnExtends
    <3>2. buf_pos' \in 0 .. 2 * Len(written)
      BY <1>1, <1>2, <1>3, <1>5, PositionStays
    <3>. QED
      BY <1>2, <1>5, <2>1, <2>2, <2>4, <3>1, <3>2 DEF IInv, TypeOK, ReadInStep, ClosedIsQuiet
  <2>. QED
    BY <2>3, <2>4
<1>6. CASE DidClose /\ UNCHANGED buf_pos
  BY <1>1, <1>2, <1>3, <1>4, <1>6, DidCloseQuiets, HandOnAndClose
<1>7. CASE throws' = throws /\ xhr.events = "on" /\ Finished
  <2>1. CASE xhr.status = 200 /\ xhr' = NewRequest /\ buf_pos' = 0 /\ UNCHANGED transport
    <3>1. transport = "open" /\ Len(delivered') = Len(written)
      BY <1>1, <1>2, <1>7, <2>1, AllRead DEF length
    <3>2. delivered' \in Seq(Frame) /\ HandedOnAsWritten'
      BY <1>1, <1>2, <1>3, HandOnExtends
    <3>3. /\ xhr' \in Request /\ xhr'.text = <<>> /\ xhr'.state = "scheduled"
          /\ xhr'.events = "on" /\ xhr'.arrived = 0 /\ Len(xhr'.text) = 0
      BY <2>1, NewRequestIsTyped
    <3>4. TypeOK'
      BY <1>2, <1>4, <1>7, <2>1, <3>2, <3>3 DEF IInv, TypeOK
    <3>5. ReadInStep'
      <4>1. Len(delivered') \in Nat /\ 0 \in 0 .. Len(delivered')
        BY <3>2
      <4>2. \E k \in 0 .. Len(delivered') :
                /\ buf_pos' = 2 * k
                /\ Len(written') + k = Len(delivered') + Len(xhr'.text)
                /\ \A i \in 1 .. Len(xhr'.text) :
                       xhr'.text[i] = written'[Len(delivered') - k + i]
        <5>1. /\ buf_pos' = 2 * 0
              /\ Len(written') + 0 = Len(delivered') + Len(xhr'.text)
              /\ 1 .. Len(xhr'.text) = {}
          BY <1>2, <2>1, <3>1, <3>3, <4>1
        <5>. QED
          BY <4>1, <5>1
      <4>3. xhr'.arrived <= 2 * Len(xhr'.text) /\ buf_pos' <= 2 * Len(xhr'.text)
        BY <2>1, <3>3
      <4>. QED
        BY <4>2, <4>3 DEF ReadInStep
    <3>6. ClosedIsQuiet'
      BY <2>1, <3>1, <3>3 DEF ClosedIsQuiet
    <3>. QED
      BY <3>2, <3>4, <3>5, <3>6 DEF IInv
  <2>2. CASE xhr' = NoRequest /\ transport' = "closed" /\ UNCHANGED buf_pos
    BY <1>1, <1>2, <1>3, <1>4, <2>2, NewRequestIsTyped, HandOnAndClose
  <2>. QED
    BY <1>7, <2>1, <2>2 DEF Finished
<1>8. CASE xhr.events = "nuked" /\ xhr' = NoRequest /\ UNCHANGED <<transport, buf_pos>>
  <2>1. transport' = "closed"
    BY <1>8 DEF IInv, ClosedIsQuiet, TypeOK
  <2>. QED
    BY <1>1, <1>2, <1>3, <1>4, <1>8, <2>1, NewRequestIsTyped, HandOnAndClose
<1>. QED
  BY <1>1, <1>5, <1>6, <1>7, <1>8

LEMMA NextKeepsIInv == IInv /\ [Next]_vars => IInv'
<1>. SUFFICES ASSUME IInv, [Next]_vars PROVE IInv'
  OBVIOUS
<1>1. CASE UNCHANGED vars
  BY <1>1 DEF vars, pageVars, IInv, TypeOK, ReadInStep, ClosedIsQuiet, HandedOnAsWritten
<1>. QED
  BY <1>1, ServerKeepsIInv, StartKeepsIInv, ChunkKeepsIInv, FinishKeepsIInv, CloseKeepsIInv
  DEF Next, BrowserStep

\* The inductive invariant holds: each frame handed on is the one the server
\* wrote at that place, however responses are cut up and whatever throws, what
\* remains to be read of a response is what the server wrote next, and a
\* transport is closed exactly when no event of a request is heard.
THEOREM IInvCorrect == Spec => []IInv
<1>. QED
  BY InitIInv, NextKeepsIInv, PTL DEF Spec

\* The type invariant holds: the page that comes with another status than 200
\* is never handed on, and buf_pos stays within what was written.
THEOREM TypeCorrect == Spec => []TypeOK
<1>1. IInv => TypeOK
  BY DEF IInv
<1>. QED
  BY <1>1, IInvCorrect, PTL

-----------------------------------------------------------------------------
(* XhrReceiver implements FrameFeed *)

\* A sequence that agrees with a longer one is a prefix of it.
LEMMA AgreeingIsPrefix ==
    ASSUME NEW S, NEW s \in Seq(S), NEW t \in Seq(S), Len(s) <= Len(t),
           \A i \in 1 .. Len(s) : s[i] = t[i]
    PROVE  s = SubSeq(t, 1, Len(s))
<1>1. /\ SubSeq(t, 1, Len(s)) \in Seq(S) /\ Len(SubSeq(t, 1, Len(s))) = Len(s)
      /\ \A i \in 1 .. Len(s) : SubSeq(t, 1, Len(s))[i] = s[i]
  OBVIOUS
<1>. QED
  BY <1>1, SeqEqual

\* Handing on at least one frame is a step Hear.
LEMMA HandOnHears ==
    ASSUME IInv, xhr.state \notin {"none", "stuck"}, UNCHANGED written,
           NEW arrived \in 0 .. 2 * Len(xhr.text),
           NEW n \in 0 .. Len(Fresh(arrived)), n > 0, HandOn(arrived, n),
           HandsOnClose(arrived, n) => transport' = "closed"
    PROVE  Feed!Hear
<1>1. /\ delivered' \in Seq(Frame) /\ n \in Nat /\ Len(delivered') = Len(delivered) + n
      /\ HandedOnAsWritten' /\ transport = "open"
      /\ delivered'[Len(delivered')] = Fresh(arrived)[n]
  BY HandOnExtends
<1>2. /\ delivered' = SubSeq(written, 1, Len(delivered'))
      /\ Len(delivered') \in Len(delivered) + 1 .. Len(written)
      /\ delivered'[Len(delivered')] = written[Len(delivered')]
  <2>1. /\ written \in Seq(Frame) /\ Len(delivered) \in Nat /\ Len(written) \in Nat
        /\ Len(delivered') \in Nat /\ Len(delivered') <= Len(written)
        /\ \A i \in 1 .. Len(delivered') : delivered'[i] = written[i]
    BY <1>1 DEF IInv, TypeOK, HandedOnAsWritten
  <2>2. /\ Len(delivered') \in Len(delivered) + 1 .. Len(written)
        /\ Len(delivered') \in 1 .. Len(delivered')
    BY <1>1, <2>1
  <2>. QED
    BY <1>1, <2>1, <2>2, AgreeingIsPrefix
<1>3. written[Len(delivered')] = CloseFrame => Phase' = "closed"
  BY <1>1, <1>2 DEF HandsOnClose, Phase
<1>4. Phase = "open" /\ Phase' \in {"open", "closed", "stuck"}
  BY <1>1 DEF Phase
<1>. QED
  BY <1>2, <1>3, <1>4 DEF Feed!Hear

\* Every step is one of FrameFeed or does not show.
LEMMA FeedStep == IInv /\ [Next]_vars => [Feed!FeedNext]_<<written, delivered, Phase>>
<1>. SUFFICES ASSUME IInv, [Next]_vars
              PROVE  Feed!FeedNext \/ UNCHANGED <<written, delivered, Phase>>
  OBVIOUS
<1>1. CASE UNCHANGED vars
  BY <1>1 DEF vars, pageVars, Phase
<1>2. ASSUME NEW f \in Frame, Write(f) PROVE Feed!FeedNext
  <2>1. xhr'.state = xhr.state
    BY <1>2 DEF Write, IInv, TypeOK, Request
  <2>2. Feed!SendFrame(f)
    BY <1>2, <2>1 DEF Write, pageVars, Feed!SendFrame, Phase
  <2>. QED
    BY <2>2 DEF Feed!FeedNext, Frame
<1>3. CASE EndResponse \/ Refuse \/ Break \/ Start
  <2>1. UNCHANGED <<written, delivered, transport>> /\ xhr.state # "stuck"
    BY <1>3 DEF EndResponse, Refuse, Break, Start, Writing, pageVars
  <2>2. xhr'.state # "stuck"
    BY <1>3 DEF EndResponse, Refuse, Break, Start, Failure, IInv, TypeOK, Request
  <2>. QED
    BY <2>1, <2>2 DEF Phase
<1>4. CASE Close
  BY <1>4 DEF Close, DidClose, Phase, Feed!FeedNext, Feed!StopHearing, Feed!CloseStuck
<1>5. ASSUME NEW arrived \in 0 .. 2 * Len(xhr.text), NEW n \in 0 .. Len(Fresh(arrived)),
             xhr.state # "none", HandOn(arrived, n), n = 0
      PROVE  delivered' = delivered /\ UNCHANGED throws
  <2>1. SubSeq(Fresh(arrived), 1, 0) = <<>>
    OBVIOUS
  <2>. QED
    BY <1>5, <2>1 DEF HandOn, IInv, TypeOK
<1>6. CASE Chunk
  <2>. DEFINE Reads(arrived, n) ==
           /\ HandOn(arrived, n)
           /\ \/ HandsOnClose(arrived, n) /\ DidClose
              \/ /\ ~HandsOnClose(arrived, n)
                 /\ xhr' = [xhr EXCEPT !.arrived = arrived]
                 /\ UNCHANGED transport
  <2>1. PICK arrived \in xhr.arrived + 1 .. 2 * Len(xhr.text) :
            \E n \in 0 .. Len(Fresh(arrived)) : Reads(arrived, n)
    BY <1>6 DEF Chunk
  <2>2. PICK n \in 0 .. Len(Fresh(arrived)) : Reads(arrived, n)
    BY <2>1
  <2>3. xhr \in Request /\ xhr.state \in {"sent", "answered"} /\ UNCHANGED written
    BY <1>6 DEF Chunk, IInv, TypeOK
  <2>4. arrived \in 0 .. 2 * Len(xhr.text)
    <3>1. xhr.arrived \in Nat /\ Len(xhr.text) \in Nat
      BY <2>3 DEF Request
    <3>. QED
      BY <3>1
  <2>5. CASE n = 0
    <3>1. ~HandsOnClose(arrived, n)
      BY <2>5 DEF HandsOnClose
    <3>2. xhr'.state = xhr.state /\ UNCHANGED transport
      BY <2>2, <2>3, <3>1 DEF Request
    <3>. QED
      BY <1>5, <2>2, <2>3, <2>4, <2>5, <3>2 DEF Phase
  <2>6. CASE n > 0
    BY <2>2, <2>3, <2>4, <2>6, HandOnHears DEF DidClose, Feed!FeedNext
  <2>7. n \in Nat
    BY <2>2, <2>3, <2>4, HandOnExtends
  <2>. QED
    BY <2>5, <2>6, <2>7
<1>7. CASE Finish
  <2>. DEFINE length == 2 * Len(xhr.text)
  <2>1. PICK n \in 0 .. Len(Fresh(length)) :
            /\ HandOn(length, n)
            /\ \/ /\ throws' # throws
                  /\ UNCHANGED transport
               \/ /\ HandsOnClose(length, n)
                  /\ DidClose
               \/ /\ ~HandsOnClose(length, n)
                  /\ xhr.events = "on"
                  /\ Finished
               \/ /\ xhr.events = "nuked"
                  /\ UNCHANGED transport
    BY <1>7 DEF Finish
  <2>2. xhr \in Request /\ xhr.state = "answered" /\ UNCHANGED written
    BY <1>7 DEF Finish, IInv, TypeOK
  <2>3. length \in 0 .. 2 * Len(xhr.text)
    <3>1. Len(xhr.text) \in Nat
      BY <2>2 DEF Request
    <3>. QED
      BY <3>1
  <2>. HIDE DEF length
  <2>4. CASE n = 0
    <3>1. ~HandsOnClose(length, n) /\ delivered' = delivered /\ throws' = throws
      BY <1>5, <2>1, <2>2, <2>3, <2>4 DEF HandsOnClose
    <3>2. CASE xhr.events = "nuked" /\ UNCHANGED transport
      BY <2>2, <3>1, <3>2 DEF IInv, ClosedIsQuiet, TypeOK, Phase
    <3>3. CASE xhr.events = "on" /\ Finished
      <4>1. transport = "open"
        BY <2>2, <3>3 DEF IInv, ClosedIsQuiet, TypeOK
      <4>2. CASE xhr' = NewRequest /\ UNCHANGED transport
        BY <2>2, <3>1, <4>1, <4>2, NewRequestIsTyped DEF Phase
      <4>3. CASE transport' = "closed"
        BY <2>2, <3>1, <4>1, <4>3 DEF Phase, Feed!FeedNext, Feed!StopHearing
      <4>. QED
        BY <3>3, <4>2, <4>3 DEF Finished
    <3>. QED
      BY <2>1, <3>1, <3>2, <3>3
  <2>5. CASE n > 0
    <3>1. xhr.events = "on"
      BY <2>1, <2>2, <2>3, <2>5, HandOnExtends DEF IInv, ClosedIsQuiet, TypeOK, Request
    <3>2. throws' # throws => ~HandsOnClose(length, n)
      BY <2>1 DEF HandOn, HandsOnClose
    <3>3. HandsOnClose(length, n) => transport' = "closed"
      BY <2>1, <3>1, <3>2 DEF DidClose
    <3>. QED
      BY <2>1, <2>2, <2>3, <2>5, <3>3, HandOnHears DEF Feed!FeedNext
  <2>6. n \in Nat
    BY <2>1, <2>2, <2>3, HandOnExtends
  <2>. QED
    BY <2>4, <2>5, <2>6
<1>. QED
  BY <1>1, <1>2, <1>3, <1>4, <1>6, <1>7 DEF Next, ServerStep, BrowserStep

\* The refinement: XhrReceiver implements FrameFeed.  Each frame the server
\* writes is handed on at most once and in its order, and none is handed on
\* after a frame that closes the socket or once the transport has been given up.
THEOREM FeedIsImplemented == Spec => ImplementsFeed
<1>1. Init => Feed!FeedInit
  BY NewRequestIsTyped DEF Init, Feed!FeedInit, Phase
<1>. QED
  BY <1>1, FeedStep, IInvCorrect, PTL DEF Spec, ImplementsFeed, Feed!FeedSpec, Feed!feedVars

=============================================================================
