--------------------------- MODULE LifecycleProofs ---------------------------
(***************************************************************************)
(* Two proofs about what EventPipeline broadcasts, for any number of       *)
(* requests, client ids, consumers of incomingEventQueue and failures.     *)
(*                                                                         *)
(* One consumer of processedEventQueue broadcasts the lines of an event in *)
(* the order of its listener's calls.  The argument: what is queued is in  *)
(* order, what has been broadcast comes before what is queued, and no      *)
(* announcement is ahead of its listener (PastOnly).                       *)
(*                                                                         *)
(* With any number of them, every behaviour of EventPipeline is one of     *)
(* EventLifecycle, fairness aside: the three actions of an event happen in *)
(* order, each is announced before the next begins, and no line is told    *)
(* twice.  The argument: no two announcements under way or broadcast say   *)
(* the same (OnceInvariant), because a call announces what comes after all *)
(* that has been announced of its event (PastOnly again).                  *)
(***************************************************************************)
EXTENDS EventPipelineProofs

-----------------------------------------------------------------------------
(* Lines in order *)

Before(x, y) ==
    x.event = y.event /\ {x.action, y.action} \subseteq Action
        => Rank[x.action] < Rank[y.action]

InOrder(s) == \A i, j \in DOMAIN s : i < j => Before(s[i], s[j])

\* Rank of the last call of e that can have been announced.
Due(e) ==
    IF stage[e] \in {"idle", "called", "written"}
    THEN Rank[action[e]] - 1
    ELSE Rank[action[e]]

PastOnly == \A a \in Announced : Rank[a.action] <= Due(a.event)

Order ==
    /\ BroadcastInOrder
    /\ \A n \in Notifiers : InOrder(processedEventQueue[n])
    /\ \A n \in Notifiers :
           \A x \in Range(topic), y \in Range(processedEventQueue[n]) : Before(x, y)
    /\ PastOnly

LEMMA AppendInOrder ==
    ASSUME NEW S, NEW s \in Seq(S), NEW x \in S, InOrder(s),
           \A y \in Range(s) : Before(y, x)
    PROVE  InOrder(Append(s, x))
<1>1. /\ DOMAIN Append(s, x) = 1 .. Len(s) + 1 /\ DOMAIN s = 1 .. Len(s) /\ Len(s) \in Nat
      /\ \A i \in 1 .. Len(s) + 1 : Append(s, x)[i] = IF i <= Len(s) THEN s[i] ELSE x
  OBVIOUS
<1>2. SUFFICES ASSUME NEW i \in 1 .. Len(s) + 1, NEW j \in 1 .. Len(s) + 1, i < j
               PROVE  Before(Append(s, x)[i], Append(s, x)[j])
  BY <1>1 DEF InOrder
<1>3. i \in DOMAIN s /\ Append(s, x)[i] = s[i] /\ s[i] \in Range(s)
  BY <1>1, <1>2 DEF Range
<1>4. CASE j <= Len(s)
  BY <1>1, <1>2, <1>3, <1>4 DEF InOrder
<1>5. CASE ~(j <= Len(s))
  BY <1>1, <1>3, <1>5
<1>. QED
  BY <1>4, <1>5

LEMMA TailInOrder ==
    ASSUME NEW S, NEW s \in Seq(S), s # <<>>, InOrder(s)
    PROVE  InOrder(Tail(s)) /\ \A y \in Range(Tail(s)) : Before(Head(s), y)
<1>1. /\ DOMAIN s = 1 .. Len(s) /\ Len(s) \in Nat \ {0} /\ Head(s) = s[1]
      /\ DOMAIN Tail(s) = 1 .. Len(s) - 1
      /\ \A i \in 1 .. Len(s) - 1 : Tail(s)[i] = s[i + 1] /\ i + 1 \in 1 .. Len(s)
  OBVIOUS
<1>2. ASSUME NEW i \in DOMAIN Tail(s), NEW j \in DOMAIN Tail(s), i < j
      PROVE  Before(Tail(s)[i], Tail(s)[j])
  <2>1. i + 1 \in DOMAIN s /\ j + 1 \in DOMAIN s /\ i + 1 < j + 1
    BY <1>1, <1>2
  <2>. QED
    BY <1>1, <1>2, <2>1 DEF InOrder
<1>3. ASSUME NEW i \in DOMAIN Tail(s) PROVE Before(Head(s), Tail(s)[i])
  <2>1. i + 1 \in DOMAIN s /\ 1 \in DOMAIN s /\ 1 < i + 1
    BY <1>1, <1>3
  <2>. QED
    BY <1>1, <1>3, <2>1 DEF InOrder
<1>. QED
  BY <1>2, <1>3 DEF InOrder, Range

LEMMA RankValues ==
    /\ Rank["INSERT"] = 1 /\ Rank["UPDATE"] = 2 /\ Rank["DELETE"] = 3
    /\ \A a \in Action : Rank[a] \in 1 .. 3
  BY DEF Rank, Action

LEMMA AnnouncedType ==
    ASSUME TypeOK, NEW a \in Announced
    PROVE  a.event \in Events /\ a.action \in Action
<1>1. CASE \E n \in Notifiers : a \in Range(processedEventQueue[n])
  <2>1. a \in EventStatusChange
    BY <1>1 DEF TypeOK, Range
  <2>. QED
    BY <2>1 DEF EventStatusChange
<1>2. CASE a \in Range(topic) /\ a.action \in Action
  <2>1. a \in EventStatusChange \cup ErrorLine
    BY <1>2 DEF TypeOK, Range
  <2>. QED
    BY <1>2, <2>1 DEF EventStatusChange, ErrorLine
<1>. QED
  BY <1>1, <1>2, AnnouncedWhere

\* A call's progress never takes back what may have been announced.
LEMMA DueGrows ==
    ASSUME IInv, [Next]_vars, NEW e \in Events
    PROVE  Due(e) \in Int /\ Due(e)' \in Int /\ Due(e) <= Due(e)'
<1>1. action[e] \in Action /\ action'[e] \in Action
  BY TypeNext DEF IInv, TypeOK
<1>2. Due(e) \in Int /\ Due(e)' \in Int
  BY <1>1, RankValues DEF Due
<1>3. CASE UNCHANGED <<action, stage>>
  BY <1>2, <1>3 DEF Due
<1>4. ASSUME NEW f \in Events, ListenerStep(f) PROVE Due(e) <= Due(e)'
  <2>1. CASE f # e
    <3>1. stage'[e] = stage[e] /\ action'[e] = action[e]
      BY <1>4, <2>1 DEF ListenerStep, CallStep, Receive, Save, SaveProcessedEvent, Delete,
         Commit, Return, FlushFails, CallFails, Rollback, HandleError, HandleErrorFails,
         IInv, TypeOK
    <3>. QED
      BY <1>2, <3>1 DEF Due
  <2>2. CASE f = e /\ Commit(f)
    <3>1. /\ stage[e] = "ready"
          /\ \/ action[e] = "INSERT" /\ action'[e] = "UPDATE"
             \/ action[e] = "UPDATE" /\ action'[e] = "DELETE"
             \/ stage'[e] = "done" /\ action'[e] = action[e]
      BY <2>2 DEF Commit, Return, IInv, TypeOK
    <3>. QED
      BY <1>1, <3>1, RankValues DEF Due
  <2>3. CASE f = e /\ ~Commit(f)
    <3>1. action'[e] = action[e]
      BY <1>4, <2>3 DEF ListenerStep, CallStep, Receive, Save, SaveProcessedEvent, Delete,
         FlushFails, CallFails, Rollback, HandleError, HandleErrorFails
    <3>2. \/ stage[e] \in {"idle", "called", "written"}
          \/ stage'[e] \in {"ready", "failing", "failed"}
      BY <1>4, <2>3 DEF ListenerStep, CallStep, Receive, Save, SaveProcessedEvent, Delete,
         FlushFails, CallFails, Rollback, HandleError, HandleErrorFails,
         IInv, TypeOK, RequestsComeFirst
    <3>. QED
      BY <1>1, <3>1, <3>2, RankValues DEF Due
  <2>. QED
    BY <2>1, <2>2, <2>3
<1>5. ASSUME NEW f \in Events, UploadStep(f) PROVE UNCHANGED <<action, stage>>
  BY <1>5 DEF UploadStep, SaveIncomingEvent, UploadReturns, UploadFails,
     UploadFailsUntold, chainVars
<1>6. ASSUME NEW n \in Notifiers, NotifierStep(n) PROVE UNCHANGED <<action, stage>>
  BY <1>6 DEF NotifierStep, InformUser, InformUserFails, chainVars
<1>7. UNCHANGED vars => UNCHANGED <<action, stage>>
  BY DEF vars, chainVars
<1>. QED
  BY <1>2, <1>3, <1>4, <1>5, <1>6, <1>7 DEF Next, Idle

-----------------------------------------------------------------------------
LEMMA PastOnlyNext ==
    ASSUME IInv, PastOnly, Next
    PROVE  PastOnly'
<1>. SUFFICES ASSUME NEW a \in Announced'
              PROVE  Rank[a.action] <= Due(a.event)'
  BY DEF PastOnly
<1>1. CASE a \in Announced
  <2>1. a.event \in Events /\ Rank[a.action] \in Int
    BY <1>1, AnnouncedType, RankValues DEF IInv
  <2>2. Rank[a.action] <= Due(a.event)
    BY <1>1 DEF PastOnly
  <2>. QED
    BY <2>1, <2>2, DueGrows
<1>2. ASSUME NEW e \in Events, NEW n \in Notifiers, SaveProcessedEvent(e, n),
             a = [event |-> e, action |-> action[e], id |-> AnnouncedId(e)]
      PROVE  Rank[a.action] <= Due(a.event)'
  <2>1. stage'[e] \in {"ready", "notified"} /\ action'[e] = action[e] /\ action[e] \in Action
    BY <1>2 DEF SaveProcessedEvent, IInv, TypeOK
  <2>. QED
    BY <1>2, <2>1, RankValues DEF Due
<1>. QED
  BY <1>1, <1>2, OnlyCallsAnnounce DEF IInv

\* A call announces what comes after everything announced of its event.
LEMMA AnnouncedLater ==
    ASSUME IInv, PastOnly, NEW e \in Events, NEW n \in Notifiers, SaveProcessedEvent(e, n),
           NEW a \in Announced, a.event = e
    PROVE  Rank[a.action] < Rank[action[e]]
<1>1. stage[e] \in {"called", "written"} /\ action[e] \in Action
  BY DEF SaveProcessedEvent, IInv, TypeOK
<1>2. Rank[a.action] <= Rank[action[e]] - 1
  BY <1>1 DEF PastOnly, Due
<1>. QED
  BY <1>1, <1>2, RankValues, AnnouncedType DEF IInv

LEMMA OrderAnnounce ==
    ASSUME IInv, Order, PastOnly', NEW e \in Events, NEW n \in Notifiers,
           SaveProcessedEvent(e, n)
    PROVE  Order'
<1> DEFINE m == [event |-> e, action |-> action[e], id |-> AnnouncedId(e)]
<1>1. /\ processedEventQueue \in [Notifiers -> Seq(EventStatusChange)]
      /\ processedEventQueue' = [processedEventQueue EXCEPT ![n] = Append(@, m)]
      /\ UNCHANGED topic /\ m \in EventStatusChange
  BY AnnouncementType DEF IInv, TypeOK, SaveProcessedEvent
<1>2. \A x \in Announced : Before(x, m)
  BY AnnouncedLater DEF Order, Before
<1>3. \A x \in Range(topic) : Before(x, m)
  BY <1>2, AnnouncedWhere DEF Before
<1>4. \A x \in Range(processedEventQueue[n]) : Before(x, m)
  BY <1>2, AnnouncedWhere
<1>5. InOrder(processedEventQueue'[n])
  BY <1>1, <1>4, AppendInOrder DEF Order
<1>6. \A k \in Notifiers : InOrder(processedEventQueue'[k])
  BY <1>1, <1>5 DEF Order
<1>7. Range(Append(processedEventQueue[n], m)) \subseteq Range(processedEventQueue[n]) \cup {m}
  BY <1>1, RangeOfAppend
<1>8. ASSUME NEW k \in Notifiers, NEW x \in Range(topic), NEW y \in Range(processedEventQueue'[k])
      PROVE  Before(x, y)
  <2>1. CASE k = n
    <3>1. y \in Range(processedEventQueue[n]) \/ y = m
      BY <1>1, <1>7, <2>1
    <3>. QED
      BY <1>3, <3>1 DEF Order
  <2>2. CASE k # n
    <3>1. processedEventQueue'[k] = processedEventQueue[k]
      BY <1>1, <2>2
    <3>. QED
      BY <3>1 DEF Order
  <2>. QED
    BY <2>1, <2>2
<1>. QED
  BY <1>1, <1>6, <1>8 DEF Order, BroadcastInOrder, InOrder, Before

LEMMA OrderInform ==
    ASSUME IInv, Order, PastOnly', NEW n \in Notifiers, Notifiers = {n}, NotifierStep(n)
    PROVE  Order'
<1> DEFINE q == processedEventQueue[n]
<1>1. /\ q \in Seq(EventStatusChange) /\ q # <<>> /\ processedEventQueue'[n] = Tail(q)
      /\ topic \in Seq(EventStatusChange \cup ErrorLine)
      /\ topic' = topic \/ topic' = Append(topic, Head(q))
  BY DEF NotifierStep, InformUser, InformUserFails, Acknowledge, IInv, TypeOK
<1>2. /\ Head(q) \in Range(q) /\ Range(Tail(q)) \subseteq Range(q)
      /\ Head(q) \in EventStatusChange
  BY <1>1, RangeOfTail
<1>3. InOrder(Tail(q)) /\ \A y \in Range(Tail(q)) : Before(Head(q), y)
  BY <1>1, TailInOrder DEF Order
<1>4. \A x \in Range(topic), y \in Range(q) : Before(x, y)
  BY DEF Order
<1>5. InOrder(topic)
  BY DEF Order, BroadcastInOrder, InOrder, Before
<1>6. InOrder(topic') /\ \A x \in Range(topic') : x \in Range(topic) \/ x = Head(q)
  <2>1. CASE topic' = topic
    BY <1>5, <2>1
  <2>2. CASE topic' = Append(topic, Head(q))
    <3>1. Head(q) \in EventStatusChange \cup ErrorLine
      BY <1>2
    <3>2. InOrder(Append(topic, Head(q)))
      BY <1>1, <1>2, <1>4, <1>5, <3>1, AppendInOrder
    <3>3. Range(Append(topic, Head(q))) \subseteq Range(topic) \cup {Head(q)}
      BY <1>1, <3>1, RangeOfAppend
    <3>. QED
      BY <2>2, <3>2, <3>3
  <2>. QED
    BY <1>1, <2>1, <2>2
<1>7. BroadcastInOrder'
  BY <1>6 DEF BroadcastInOrder, InOrder, Before
<1>8. \A x \in Range(topic'), y \in Range(processedEventQueue'[n]) : Before(x, y)
  BY <1>1, <1>2, <1>3, <1>4, <1>6
<1>. QED
  BY <1>1, <1>3, <1>7, <1>8 DEF Order

\* An ERROR line is neither before nor after an announcement.
LEMMA OrderError ==
    ASSUME IInv, Order, PastOnly', NEW e \in Events, NEW source \in {"rest", "jms"},
           BroadcastError(e, source), UNCHANGED processedEventQueue
    PROVE  Order'
<1> DEFINE line == [event |-> e, action |-> "ERROR", source |-> source]
<1>1. /\ topic \in Seq(EventStatusChange \cup ErrorLine) /\ topic' = Append(topic, line)
      /\ line \in EventStatusChange \cup ErrorLine
  BY DEF IInv, TypeOK, BroadcastError, ErrorLine
<1>2. \A y : Before(y, line) /\ Before(line, y)
  BY DEF Before, Action
<1>3. InOrder(topic)
  BY DEF Order, BroadcastInOrder, InOrder, Before
<1>4. InOrder(topic')
  BY <1>1, <1>2, <1>3, AppendInOrder
<1>5. BroadcastInOrder'
  BY <1>4 DEF BroadcastInOrder, InOrder, Before
<1>6. Range(Append(topic, line)) \subseteq Range(topic) \cup {line}
  BY <1>1, RangeOfAppend
<1>7. ASSUME NEW n \in Notifiers, NEW x \in Range(topic'), NEW y \in Range(processedEventQueue'[n])
      PROVE  Before(x, y)
  <2>1. x \in Range(topic) \/ x = line
    BY <1>1, <1>6
  <2>2. CASE x \in Range(topic)
    BY <2>2 DEF Order
  <2>3. CASE x = line
    BY <1>2, <2>3
  <2>. QED
    BY <2>1, <2>2, <2>3
<1>. QED
  BY <1>5, <1>7 DEF Order

LEMMA OrderFrame ==
    ASSUME Order, PastOnly', UNCHANGED <<processedEventQueue, topic>>
    PROVE  Order'
  BY DEF Order, BroadcastInOrder

LEMMA OrderNext ==
    ASSUME NEW n \in Notifiers, Notifiers = {n}, IInv, Order, [Next]_vars
    PROVE  Order'
<1>1. CASE UNCHANGED vars
  BY <1>1 DEF vars, chainVars, Order, BroadcastInOrder, PastOnly, Announced, Due
<1>2. CASE Next
  <2>1. PastOnly'
    BY <1>2, PastOnlyNext DEF Order
  <2>2. ASSUME NEW e \in Events, ListenerStep(e) PROVE Order'
    <3>1. CASE HandleError(e)
      <4>1. BroadcastError(e, "jms") /\ UNCHANGED processedEventQueue
        BY <3>1 DEF HandleError
      <4>. QED
        BY <2>1, <4>1, OrderError
    <3>2. CASE \E k \in Notifiers : SaveProcessedEvent(e, k)
      BY <2>1, <3>2, OrderAnnounce
    <3>3. CASE ~HandleError(e) /\ ~\E k \in Notifiers : SaveProcessedEvent(e, k)
      <4>1. UNCHANGED <<processedEventQueue, topic>>
        BY <2>2, <3>3 DEF ListenerStep, CallStep, Receive, Save, Delete, Commit,
           FlushFails, CallFails, Rollback, HandleErrorFails
      <4>. QED
        BY <2>1, <4>1, OrderFrame
    <3>. QED
      BY <3>1, <3>2, <3>3
  <2>3. ASSUME NEW e \in Events, UploadStep(e) PROVE Order'
    <3>1. CASE UploadFails(e)
      <4>1. BroadcastError(e, "rest") /\ UNCHANGED processedEventQueue
        BY <3>1 DEF UploadFails
      <4>. QED
        BY <2>1, <4>1, OrderError
    <3>2. CASE ~UploadFails(e)
      <4>1. UNCHANGED <<processedEventQueue, topic>>
        BY <2>3, <3>2 DEF UploadStep, SaveIncomingEvent, UploadReturns, UploadFailsUntold
      <4>. QED
        BY <2>1, <4>1, OrderFrame
    <3>. QED
      BY <3>1, <3>2
  <2>. QED
    BY <1>1, <1>2, <2>1, <2>2, <2>3, OrderInform DEF Next, Idle
<1>. QED
  BY <1>1, <1>2

LEMMA OrderInit == Init => Order
<1>. SUFFICES ASSUME Init PROVE Order
  OBVIOUS
<1>1. \A a : a \notin Range(<<>>)
  BY DEF Range
<1>2. Announced = {}
  BY <1>1, AnnouncedWhere DEF Init
<1>3. topic = <<>> /\ \A n \in Notifiers : processedEventQueue[n] = <<>>
  BY DEF Init
<1>. QED
  BY <1>1, <1>2, <1>3 DEF Order, BroadcastInOrder, InOrder, PastOnly

\* With one consumer of processedEventQueue users see each event's lines at
\* most once and in order, whatever gets lost on the way and however many
\* chains run at once (ProcessedEventListener, while one consumer runs).
THEOREM OneNotifierKeepsOrder ==
    ASSUME NEW n, Notifiers = {n}
    PROVE  Spec => []BroadcastInOrder
<1>1. n \in Notifiers
  OBVIOUS
<1>2. IInv /\ Order /\ [Next]_vars => Order'
  BY <1>1, OrderNext
<1>3. Order => BroadcastInOrder
  BY DEF Order
<1>. QED
  BY <1>2, <1>3, OrderInit, IInvCorrect, PTL DEF Spec

-----------------------------------------------------------------------------
(* No line is told twice *)

\* The line of EventLifecycle that a line of the topic stands for.
LineOf(m) == [event |-> m.event, says |-> Told(m)]

NoneTwice(s) == \A i, j \in DOMAIN s : i # j => LineOf(s[i]) # LineOf(s[j])

ErrorsAreDue ==
    \A x \in Range(topic) : x.action = "ERROR" =>
        /\ x.source = "rest" => response[x.event] = "ERROR"
        /\ x.source = "jms" => stage[x.event] = "failed"

OnceInvariant ==
    /\ \A n \in Notifiers : NoneTwice(processedEventQueue[n])
    /\ \A n, k \in Notifiers : n # k =>
           \A x \in Range(processedEventQueue[n]), y \in Range(processedEventQueue[k]) :
               LineOf(x) # LineOf(y)
    /\ \A n \in Notifiers : \A x \in Range(topic), y \in Range(processedEventQueue[n]) :
           LineOf(x) # LineOf(y)
    /\ PastOnly
    /\ ErrorsAreDue

LEMMA AppendOnce ==
    ASSUME NEW S, NEW s \in Seq(S), NEW x \in S, NoneTwice(s),
           \A y \in Range(s) : LineOf(y) # LineOf(x)
    PROVE  NoneTwice(Append(s, x))
<1>1. /\ DOMAIN Append(s, x) = 1 .. Len(s) + 1 /\ DOMAIN s = 1 .. Len(s) /\ Len(s) \in Nat
      /\ \A i \in 1 .. Len(s) + 1 : Append(s, x)[i] = IF i <= Len(s) THEN s[i] ELSE x
  OBVIOUS
<1>2. ASSUME NEW i \in 1 .. Len(s) PROVE Append(s, x)[i] = s[i] /\ i \in DOMAIN s /\ s[i] \in Range(s)
  BY <1>1 DEF Range
<1>3. Append(s, x)[Len(s) + 1] = x
  BY <1>1
<1>4. SUFFICES ASSUME NEW i \in 1 .. Len(s) + 1, NEW j \in 1 .. Len(s) + 1, i # j
               PROVE  LineOf(Append(s, x)[i]) # LineOf(Append(s, x)[j])
  BY <1>1 DEF NoneTwice
<1>5. CASE i \in 1 .. Len(s) /\ j \in 1 .. Len(s)
  BY <1>2, <1>4, <1>5 DEF NoneTwice
<1>6. CASE i = Len(s) + 1 /\ j \in 1 .. Len(s)
  BY <1>2, <1>3, <1>6
<1>7. CASE j = Len(s) + 1 /\ i \in 1 .. Len(s)
  BY <1>2, <1>3, <1>7
<1>. QED
  BY <1>1, <1>4, <1>5, <1>6, <1>7

LEMMA TailOnce ==
    ASSUME NEW S, NEW s \in Seq(S), s # <<>>, NoneTwice(s)
    PROVE  NoneTwice(Tail(s)) /\ \A y \in Range(Tail(s)) : LineOf(y) # LineOf(Head(s))
<1>1. /\ DOMAIN s = 1 .. Len(s) /\ Len(s) \in Nat \ {0} /\ Head(s) = s[1]
      /\ DOMAIN Tail(s) = 1 .. Len(s) - 1
      /\ \A i \in 1 .. Len(s) - 1 : Tail(s)[i] = s[i + 1] /\ i + 1 \in 1 .. Len(s)
  OBVIOUS
<1>2. ASSUME NEW i \in DOMAIN Tail(s), NEW j \in DOMAIN Tail(s), i # j
      PROVE  LineOf(Tail(s)[i]) # LineOf(Tail(s)[j])
  <2>1. i + 1 \in DOMAIN s /\ j + 1 \in DOMAIN s /\ i + 1 # j + 1
    BY <1>1, <1>2
  <2>. QED
    BY <1>1, <1>2, <2>1 DEF NoneTwice
<1>3. ASSUME NEW i \in DOMAIN Tail(s) PROVE LineOf(Tail(s)[i]) # LineOf(Head(s))
  <2>1. i + 1 \in DOMAIN s /\ 1 \in DOMAIN s /\ 1 # i + 1
    BY <1>1, <1>3
  <2>. QED
    BY <1>1, <1>3, <2>1 DEF NoneTwice
<1>. QED
  BY <1>2, <1>3 DEF NoneTwice, Range

\* What lines say: an announcement its action, an ERROR line something else.
LEMMA LineFacts ==
    /\ \A m \in EventStatusChange :
           m.action \in Action /\ m.event \in Events /\ Told(m) = m.action
    /\ \A m \in ErrorLine :
           /\ m.action = "ERROR" /\ m.event \in Events /\ Told(m) \notin Action
           /\ \/ m.source = "rest" /\ Told(m) = "rejected"
              \/ m.source = "jms" /\ Told(m) = "failed"
    /\ \A x, y : LineOf(x) = LineOf(y) <=> x.event = y.event /\ Told(x) = Told(y)
<1>1. ASSUME NEW m \in EventStatusChange
      PROVE  m.action \in Action /\ m.event \in Events /\ Told(m) = m.action
  <2>1. m.action \in Action /\ m.event \in Events
    BY DEF EventStatusChange
  <2>2. m.action # "ERROR"
    BY <2>1 DEF Action
  <2>. QED
    BY <2>1, <2>2 DEF Told
<1>2. ASSUME NEW m \in ErrorLine
      PROVE  /\ m.action = "ERROR" /\ m.event \in Events /\ Told(m) \notin Action
             /\ \/ m.source = "rest" /\ Told(m) = "rejected"
                \/ m.source = "jms" /\ Told(m) = "failed"
  BY DEF ErrorLine, Action, Told
<1>3. ASSUME NEW x, NEW y
      PROVE  LineOf(x) = LineOf(y) <=> x.event = y.event /\ Told(x) = Told(y)
  <2>1. LineOf(x).event = x.event /\ LineOf(x).says = Told(x)
    BY DEF LineOf
  <2>2. LineOf(y).event = y.event /\ LineOf(y).says = Told(y)
    BY DEF LineOf
  <2>3. ASSUME x.event = y.event, Told(x) = Told(y) PROVE LineOf(x) = LineOf(y)
    BY <2>3 DEF LineOf
  <2>. QED
    BY <2>1, <2>2, <2>3
<1>. QED
  BY <1>1, <1>2, <1>3

\* Everything in the queues and on the topic is a line.
LEMMA LineTypes ==
    ASSUME TypeOK
    PROVE  /\ processedEventQueue \in [Notifiers -> Seq(EventStatusChange)]
           /\ \A n \in Notifiers : Range(processedEventQueue[n]) \subseteq EventStatusChange
           /\ topic \in Seq(EventStatusChange \cup ErrorLine)
           /\ Range(topic) \subseteq EventStatusChange \cup ErrorLine
  BY DEF TypeOK, Range

-----------------------------------------------------------------------------
(* The invariant *)

\* A new announcement says what nobody has said.
LEMMA AnnouncementIsNew ==
    ASSUME IInv, OnceInvariant, NEW e \in Events, NEW n \in Notifiers, SaveProcessedEvent(e, n),
           NEW m, m = [event |-> e, action |-> action[e], id |-> AnnouncedId(e)]
    PROVE  /\ m \in EventStatusChange
           /\ \A x \in Range(topic) : LineOf(x) # LineOf(m)
           /\ \A k \in Notifiers : \A x \in Range(processedEventQueue[k]) : LineOf(x) # LineOf(m)
<1>1. m \in EventStatusChange
  BY AnnouncementType DEF IInv
<1>2. ASSUME NEW x \in Announced, x \in EventStatusChange PROVE LineOf(x) # LineOf(m)
  <2>1. CASE x.event = e
    <3>1. Rank[x.action] < Rank[m.action]
      BY <2>1, AnnouncedLater DEF OnceInvariant
    <3>2. x.action \in Action /\ m.action \in Action /\ x.action # m.action
      BY <1>1, <1>2, <3>1, LineFacts, RankValues
    <3>. QED
      BY <1>1, <1>2, <3>2, LineFacts
  <2>2. CASE x.event # e
    BY <2>2, LineFacts
  <2>. QED
    BY <2>1, <2>2
<1>3. ASSUME NEW x \in Range(topic) PROVE LineOf(x) # LineOf(m)
  <2>1. CASE x \in EventStatusChange
    <3>1. x \in Announced
      BY <2>1, LineFacts, AnnouncedWhere
    <3>. QED
      BY <1>2, <2>1, <3>1
  <2>2. CASE x \in ErrorLine
    BY <1>1, <2>2, LineFacts
  <2>. QED
    BY <2>1, <2>2, LineTypes DEF IInv
<1>4. ASSUME NEW k \in Notifiers, NEW x \in Range(processedEventQueue[k])
      PROVE  LineOf(x) # LineOf(m)
  <2>1. x \in Announced /\ x \in EventStatusChange
    BY AnnouncedWhere, LineTypes DEF IInv
  <2>. QED
    BY <1>2, <2>1
<1>. QED
  BY <1>1, <1>3, <1>4

LEMMA OnceAnnounce ==
    ASSUME IInv, OnceInvariant, PastOnly', NEW e \in Events, NEW n \in Notifiers,
           SaveProcessedEvent(e, n)
    PROVE  OnceInvariant'
<1>1. PICK m : m = [event |-> e, action |-> action[e], id |-> AnnouncedId(e)]
  OBVIOUS
<1>2. /\ m \in EventStatusChange
      /\ \A x \in Range(topic) : LineOf(x) # LineOf(m)
      /\ \A k \in Notifiers : \A x \in Range(processedEventQueue[k]) : LineOf(x) # LineOf(m)
  BY <1>1, AnnouncementIsNew
<1>3. processedEventQueue \in [Notifiers -> Seq(EventStatusChange)]
  BY LineTypes DEF IInv
<1>4. /\ processedEventQueue'[n] = Append(processedEventQueue[n], m)
      /\ \A k \in Notifiers \ {n} : processedEventQueue'[k] = processedEventQueue[k]
      /\ topic' = topic /\ response' = response
      /\ \A f \in Events : stage[f] = "failed" => stage'[f] = "failed"
  BY <1>1, <1>3 DEF SaveProcessedEvent, restVars, IInv, TypeOK
<1>5. NoneTwice(Append(processedEventQueue[n], m))
  BY <1>2, <1>3, AppendOnce DEF OnceInvariant
<1>6. ASSUME NEW y \in Range(processedEventQueue'[n])
      PROVE  y = m \/ y \in Range(processedEventQueue[n])
  BY <1>2, <1>3, <1>4, RangeOfAppend
<1>7. ASSUME NEW k \in Notifiers PROVE NoneTwice(processedEventQueue'[k])
  BY <1>4, <1>5 DEF OnceInvariant
<1>8. ASSUME NEW k \in Notifiers, NEW l \in Notifiers, k # l,
             NEW x \in Range(processedEventQueue'[k]), NEW y \in Range(processedEventQueue'[l])
      PROVE  LineOf(x) # LineOf(y)
  <2>1. (k = n /\ x = m) \/ x \in Range(processedEventQueue[k])
    BY <1>4, <1>6
  <2>2. (l = n /\ y = m) \/ y \in Range(processedEventQueue[l])
    BY <1>4, <1>6
  <2>. QED
    BY <1>2, <1>8, <2>1, <2>2 DEF OnceInvariant
<1>9. ASSUME NEW k \in Notifiers, NEW x \in Range(topic), NEW y \in Range(processedEventQueue'[k])
      PROVE  LineOf(x) # LineOf(y)
  <2>1. y = m \/ y \in Range(processedEventQueue[k])
    BY <1>4, <1>6
  <2>. QED
    BY <1>2, <2>1 DEF OnceInvariant
<1>10. ErrorsAreDue'
  BY <1>4, LineTypes, LineFacts DEF OnceInvariant, ErrorsAreDue, IInv
<1>. QED
  BY <1>4, <1>7, <1>8, <1>9, <1>10 DEF OnceInvariant

LEMMA OnceInform ==
    ASSUME IInv, OnceInvariant, PastOnly', NEW n \in Notifiers, NotifierStep(n)
    PROVE  OnceInvariant'
<1>1. PICK q : q = processedEventQueue[n]
  OBVIOUS
<1>2. /\ q \in Seq(EventStatusChange) /\ q # <<>> /\ processedEventQueue'[n] = Tail(q)
      /\ \A k \in Notifiers \ {n} : processedEventQueue'[k] = processedEventQueue[k]
      /\ topic' = topic \/ topic' = Append(topic, Head(q))
      /\ UNCHANGED <<response, stage>>
  BY <1>1, LineTypes DEF NotifierStep, InformUser, InformUserFails, Acknowledge, IInv,
                         restVars, chainVars
<1>3. /\ Range(q) = Range(Tail(q)) \cup {Head(q)} /\ Head(q) \in EventStatusChange
      /\ NoneTwice(Tail(q)) /\ \A y \in Range(Tail(q)) : LineOf(y) # LineOf(Head(q))
  BY <1>1, <1>2, RangeOfTail, TailOnce DEF OnceInvariant
<1>4. ASSUME NEW k \in Notifiers, NEW y \in Range(processedEventQueue'[k])
      PROVE  y \in Range(processedEventQueue[k]) /\ LineOf(y) # LineOf(Head(q))
  <2>1. CASE k = n
    BY <1>1, <1>2, <1>3, <2>1
  <2>2. CASE k # n
    BY <1>1, <1>2, <1>3, <2>2 DEF OnceInvariant
  <2>. QED
    BY <2>1, <2>2
<1>5. ASSUME NEW x \in Range(topic') PROVE x \in Range(topic) \/ x = Head(q)
  <2>1. CASE topic' = topic
    BY <2>1
  <2>2. CASE topic' = Append(topic, Head(q))
    <3>1. Head(q) \in EventStatusChange \cup ErrorLine
      BY <1>3
    <3>2. Range(Append(topic, Head(q))) = Range(topic) \cup {Head(q)}
      BY <3>1, LineTypes, RangeOfAppend DEF IInv
    <3>. QED
      BY <2>2, <3>2
  <2>. QED
    BY <1>2, <2>1, <2>2
<1>6. ASSUME NEW k \in Notifiers PROVE NoneTwice(processedEventQueue'[k])
  BY <1>2, <1>3 DEF OnceInvariant
<1>7. ASSUME NEW k \in Notifiers, NEW x \in Range(topic'), NEW y \in Range(processedEventQueue'[k])
      PROVE  LineOf(x) # LineOf(y)
  BY <1>4, <1>5 DEF OnceInvariant
<1>8. ASSUME NEW k \in Notifiers, NEW l \in Notifiers, k # l,
             NEW x \in Range(processedEventQueue'[k]), NEW y \in Range(processedEventQueue'[l])
      PROVE  LineOf(x) # LineOf(y)
  BY <1>4, <1>8 DEF OnceInvariant
<1>9. ErrorsAreDue'
  <2>1. Head(q).action # "ERROR"
    BY <1>3, LineFacts DEF Action
  <2>. QED
    BY <1>2, <1>5, <2>1 DEF OnceInvariant, ErrorsAreDue
<1>. QED
  BY <1>6, <1>7, <1>8, <1>9 DEF OnceInvariant

LEMMA OnceError ==
    ASSUME IInv, OnceInvariant, PastOnly', NEW e \in Events, NEW source \in {"rest", "jms"},
           BroadcastError(e, source), UNCHANGED processedEventQueue,
           \A f \in Events : response[f] = "ERROR" => response'[f] = "ERROR",
           \A f \in Events : stage[f] = "failed" => stage'[f] = "failed",
           source = "rest" => response'[e] = "ERROR",
           source = "jms" => stage'[e] = "failed"
    PROVE  OnceInvariant'
<1>1. PICK line : line = [event |-> e, action |-> "ERROR", source |-> source]
  OBVIOUS
<1>2. line \in ErrorLine /\ line.event = e /\ line.source = source /\ topic' = Append(topic, line)
  BY <1>1 DEF ErrorLine, BroadcastError
<1>3. Range(topic') = Range(topic) \cup {line}
  <2>1. line \in EventStatusChange \cup ErrorLine
    BY <1>2
  <2>2. Range(Append(topic, line)) = Range(topic) \cup {line}
    BY <2>1, LineTypes, RangeOfAppend DEF IInv
  <2>. QED
    BY <1>2, <2>2
<1>4. ASSUME NEW k \in Notifiers, NEW y \in Range(processedEventQueue[k])
      PROVE  LineOf(line) # LineOf(y)
  BY <1>2, LineFacts, LineTypes DEF IInv
<1>5. ErrorsAreDue'
  <2>1. \A x \in Range(topic) : x.event \in Events
    BY LineFacts, LineTypes DEF IInv
  <2>. QED
    BY <1>2, <1>3, <2>1 DEF OnceInvariant, ErrorsAreDue
<1>. QED
  BY <1>3, <1>4, <1>5 DEF OnceInvariant

LEMMA OnceFrame ==
    ASSUME IInv, OnceInvariant, PastOnly', UNCHANGED <<processedEventQueue, topic>>,
           \A f \in Events : response[f] = "ERROR" => response'[f] = "ERROR",
           \A f \in Events : stage[f] = "failed" => stage'[f] = "failed"
    PROVE  OnceInvariant'
<1>1. \A x \in Range(topic) : x.event \in Events
  BY LineFacts, LineTypes DEF IInv
<1>2. ErrorsAreDue'
  BY <1>1 DEF OnceInvariant, ErrorsAreDue
<1>. QED
  BY <1>2 DEF OnceInvariant

LEMMA OnceNext ==
    ASSUME IInv, OnceInvariant, [Next]_vars
    PROVE  OnceInvariant'
<1>1. CASE UNCHANGED vars
  BY <1>1 DEF vars, restVars, chainVars, OnceInvariant, PastOnly, Announced, Due, ErrorsAreDue
<1>2. CASE Next
  <2>1. PastOnly'
    BY <1>2, PastOnlyNext DEF OnceInvariant
  <2>2. response \in [Events -> {"none", "pending", "OK", "ERROR"}] /\ stage \in [Events -> Stage]
    BY DEF IInv, TypeOK
  <2>3. ASSUME NEW e \in Events, ListenerStep(e) PROVE OnceInvariant'
    <3>1. UNCHANGED response /\ \A f \in Events : stage[f] = "failed" => stage'[f] = "failed"
      BY <2>2, <2>3 DEF ListenerStep, CallStep, Receive, Save, SaveProcessedEvent, Delete,
         Commit, Return, FlushFails, CallFails, Rollback, HandleError, HandleErrorFails,
         restVars, InCall,
         IInv, RequestsComeFirst
    <3>2. CASE HandleError(e)
      <4>1. BroadcastError(e, "jms") /\ UNCHANGED processedEventQueue /\ stage'[e] = "failed"
        BY <2>2, <3>2 DEF HandleError
      <4>. QED
        BY <2>1, <3>1, <4>1, OnceError
    <3>3. CASE \E k \in Notifiers : SaveProcessedEvent(e, k)
      BY <2>1, <3>3, OnceAnnounce
    <3>4. CASE ~HandleError(e) /\ ~\E k \in Notifiers : SaveProcessedEvent(e, k)
      <4>1. UNCHANGED <<processedEventQueue, topic>>
        BY <2>3, <3>4 DEF ListenerStep, CallStep, Receive, Save, Delete, Commit,
           FlushFails, CallFails, Rollback, HandleErrorFails
      <4>. QED
        BY <2>1, <3>1, <4>1, OnceFrame
    <3>. QED
      BY <3>2, <3>3, <3>4
  <2>4. ASSUME NEW e \in Events, UploadStep(e) PROVE OnceInvariant'
    <3>1. UNCHANGED stage /\ \A f \in Events : response[f] = "ERROR" => response'[f] = "ERROR"
      BY <2>2, <2>4 DEF UploadStep, SaveIncomingEvent, UploadReturns, UploadFails,
     UploadFailsUntold, chainVars
    <3>2. CASE UploadFails(e)
      <4>1. /\ BroadcastError(e, "rest") /\ UNCHANGED processedEventQueue
            /\ response'[e] = "ERROR"
        BY <2>2, <3>2 DEF UploadFails
      <4>. QED
        BY <2>1, <3>1, <4>1, OnceError
    <3>3. CASE ~UploadFails(e)
      <4>1. UNCHANGED <<processedEventQueue, topic>>
        BY <2>4, <3>3 DEF UploadStep, SaveIncomingEvent, UploadReturns, UploadFailsUntold
      <4>. QED
        BY <2>1, <3>1, <4>1, OnceFrame
    <3>. QED
      BY <3>2, <3>3
  <2>. QED
    BY <1>1, <1>2, <2>1, <2>3, <2>4, OnceInform DEF Next, Idle
<1>. QED
  BY <1>1, <1>2

LEMMA OnceInit == Init => OnceInvariant
<1>. SUFFICES ASSUME Init PROVE OnceInvariant
  OBVIOUS
<1>1. \A a : a \notin Range(<<>>)
  BY DEF Range
<1>2. Announced = {}
  BY <1>1, AnnouncedWhere DEF Init
<1>3. topic = <<>> /\ \A n \in Notifiers : processedEventQueue[n] = <<>>
  BY DEF Init
<1>. QED
  BY <1>1, <1>2, <1>3 DEF OnceInvariant, NoneTwice, PastOnly, ErrorsAreDue

-----------------------------------------------------------------------------
(* The steps of EventLifecycle *)

SameElsewhere(e) ==
    \A f \in Events \ {e} :
        Phase(f)' = Phase(f) /\ (IsAnnounced(f)' <=> IsAnnounced(f))

SameOutboxes == \A f \in Events : Outbox(f)' = Outbox(f)

\* One event's phase changes: what that makes of the functions of EventLifecycle.
LEMMA MapsPhase ==
    ASSUME NEW e \in Events, NEW p, SameElsewhere(e), Phase(e)' = p
    PROVE  [f \in Events |-> Phase(f)]' = [[f \in Events |-> Phase(f)] EXCEPT ![e] = p]
  BY DEF SameElsewhere

LEMMA MapsAnnounced ==
    ASSUME NEW e \in Events, NEW b \in BOOLEAN, SameElsewhere(e), IsAnnounced(e)' <=> b
    PROVE  [f \in Events |-> IsAnnounced(f)]' = [[f \in Events |-> IsAnnounced(f)] EXCEPT ![e] = b]
<1>1. \A f \in Events : IsAnnounced(f) \in BOOLEAN /\ IsAnnounced(f)' \in BOOLEAN
  BY DEF IsAnnounced
<1>. QED
  BY <1>1 DEF SameElsewhere

LEMMA MapsTold ==
    ASSUME TypeOK, NEW m \in EventStatusChange \cup ErrorLine, topic' = Append(topic, m)
    PROVE  [i \in DOMAIN topic |-> [event |-> topic[i].event, says |-> Told(topic[i])]]' =
               Append([i \in DOMAIN topic |->
                          [event |-> topic[i].event, says |-> Told(topic[i])]], LineOf(m))
<1>1. /\ DOMAIN topic = 1 .. Len(topic) /\ Len(topic) \in Nat
      /\ DOMAIN topic' = 1 .. Len(topic) + 1
      /\ \A i \in 1 .. Len(topic) + 1 : topic'[i] = IF i <= Len(topic) THEN topic[i] ELSE m
  BY DEF TypeOK
<1>2. PICK s : s = [i \in DOMAIN topic |-> LineOf(topic[i])]
  OBVIOUS
<1>3. s \in Seq({LineOf(topic[i]) : i \in DOMAIN topic}) /\ Len(s) = Len(topic)
  BY <1>1, <1>2
<1>4. /\ DOMAIN Append(s, LineOf(m)) = 1 .. Len(topic) + 1
      /\ \A i \in 1 .. Len(topic) + 1 :
             Append(s, LineOf(m))[i] = IF i <= Len(topic) THEN s[i] ELSE LineOf(m)
  BY <1>1, <1>3
<1>5. \A i \in 1 .. Len(topic) + 1 : LineOf(topic'[i]) = Append(s, LineOf(m))[i]
  BY <1>1, <1>2, <1>4
<1>6. Append(s, LineOf(m)) = [i \in 1 .. Len(topic) + 1 |-> Append(s, LineOf(m))[i]]
  <2>1. PICK S : S = {LineOf(topic[i]) : i \in DOMAIN topic} \cup {LineOf(m)}
    OBVIOUS
  <2>2. s \in Seq(S) /\ LineOf(m) \in S
    BY <1>1, <1>2, <2>1
  <2>3. PICK q : q = Append(s, LineOf(m))
    OBVIOUS
  <2>4. q \in Seq(S) /\ Len(q) = Len(topic) + 1
    BY <1>3, <2>2, <2>3
  <2>5. q = [i \in 1 .. Len(q) |-> q[i]]
    BY <2>4
  <2>. QED
    BY <2>3, <2>4, <2>5
<1>7. [i \in DOMAIN topic' |-> LineOf(topic'[i])] = Append(s, LineOf(m))
  BY <1>1, <1>5, <1>6
<1>. QED
  BY <1>2, <1>7 DEF LineOf

LEMMA NotTold ==
    ASSUME NEW m, \A x \in Range(topic) : LineOf(x) # LineOf(m)
    PROVE  LineOf(m) \notin Range([i \in DOMAIN topic |->
               [event |-> topic[i].event, says |-> Told(topic[i])]])
  BY DEF Range, LineOf

LEMMA TellsOnce ==
    ASSUME TypeOK, NEW m \in EventStatusChange \cup ErrorLine, topic' = Append(topic, m),
           \A x \in Range(topic) : LineOf(x) # LineOf(m),
           NEW e, NEW says, LineOf(m) = Lifecycle!Line(e, says)
    PROVE  Lifecycle!TellOnce(e, says)
<1>1. Lifecycle!Line(e, says) \notin Lifecycle!Range([i \in DOMAIN topic |->
          [event |-> topic[i].event, says |-> Told(topic[i])]])
  BY NotTold DEF Range, Lifecycle!Range
<1>2. [i \in DOMAIN topic |-> [event |-> topic[i].event, says |-> Told(topic[i])]]' =
          Append([i \in DOMAIN topic |->
                     [event |-> topic[i].event, says |-> Told(topic[i])]],
                 Lifecycle!Line(e, says))
  BY MapsTold
<1>. QED
  BY <1>1, <1>2 DEF Lifecycle!TellOnce

LEMMA StepAccept ==
    ASSUME NEW e \in Events, SameElsewhere(e), SameOutboxes, UNCHANGED topic,
           Phase(e) = "absent", Phase(e)' = "accepted", IsAnnounced(e)' <=> IsAnnounced(e)
    PROVE  Lifecycle!Accept(e)
<1>1. [f \in Events |-> Phase(f)]' = [[f \in Events |-> Phase(f)] EXCEPT ![e] = "accepted"]
  BY MapsPhase
<1>2. [f \in Events |-> IsAnnounced(f)]' = [f \in Events |-> IsAnnounced(f)]
  <2>1. \A f \in Events : IsAnnounced(f) \in BOOLEAN /\ IsAnnounced(f)' \in BOOLEAN
    BY DEF IsAnnounced
  <2>. QED
    BY <2>1 DEF SameElsewhere
<1>3. [f \in Events |-> Outbox(f)]' = [f \in Events |-> Outbox(f)]
  BY DEF SameOutboxes
<1>. QED
  BY <1>1, <1>2, <1>3 DEF Lifecycle!Accept

LEMMA StepAdvance ==
    ASSUME NEW e \in Events, SameElsewhere(e), SameOutboxes, UNCHANGED topic,
           ~IsAnnounced(e)',
           \/ Phase(e) = "accepted" /\ Phase(e)' = "INSERT"
           \/ /\ IsAnnounced(e)
              /\ \/ Phase(e) = "INSERT" /\ Phase(e)' = "UPDATE"
                 \/ Phase(e) = "UPDATE" /\ Phase(e)' = "DELETE"
                 \/ Phase(e) = "DELETE" /\ Phase(e)' = "completed"
    PROVE  Lifecycle!Advance(e)
<1>1. /\ Phase(e) \in DOMAIN Lifecycle!Following
      /\ Phase(e)' = Lifecycle!Following[Phase(e)]
  BY DEF Lifecycle!Following
<1>2. Phase(e) \in Lifecycle!Actions => IsAnnounced(e)
  BY DEF Lifecycle!Actions
<1>3. [f \in Events |-> Phase(f)]' =
          [[f \in Events |-> Phase(f)] EXCEPT ![e] = Lifecycle!Following[@]]
  BY <1>1, MapsPhase
<1>4. [f \in Events |-> IsAnnounced(f)]' =
          [[f \in Events |-> IsAnnounced(f)] EXCEPT ![e] = FALSE]
  BY MapsAnnounced
<1>. QED
  BY <1>1, <1>2, <1>3, <1>4 DEF Lifecycle!Advance, SameOutboxes

LEMMA StepFail ==
    ASSUME NEW e \in Events, SameElsewhere(e), SameOutboxes, UNCHANGED topic,
           ~IsAnnounced(e)', Phase(e) \in Action, Phase(e)' = "failed"
    PROVE  Lifecycle!Fail(e)
<1>1. [f \in Events |-> Phase(f)]' = [[f \in Events |-> Phase(f)] EXCEPT ![e] = "failed"]
  BY MapsPhase
<1>2. [f \in Events |-> IsAnnounced(f)]' =
          [[f \in Events |-> IsAnnounced(f)] EXCEPT ![e] = FALSE]
  BY MapsAnnounced
<1>. QED
  BY <1>1, <1>2 DEF Lifecycle!Fail, Lifecycle!Actions, Action, SameOutboxes

LEMMA StepAnnounce ==
    ASSUME NEW e \in Events, SameElsewhere(e), UNCHANGED topic,
           ~IsAnnounced(e), IsAnnounced(e)', Phase(e) \in Action, Phase(e)' = Phase(e),
           Outbox(e)' = Outbox(e) \cup {Phase(e)},
           \A f \in Events \ {e} : Outbox(f)' = Outbox(f)
    PROVE  Lifecycle!Announce(e)
<1>1. [f \in Events |-> Phase(f)]' = [f \in Events |-> Phase(f)]
  BY DEF SameElsewhere
<1>2. [f \in Events |-> IsAnnounced(f)]' =
          [[f \in Events |-> IsAnnounced(f)] EXCEPT ![e] = TRUE]
  BY MapsAnnounced
<1>3. [f \in Events |-> Outbox(f)]' =
          [[f \in Events |-> Outbox(f)] EXCEPT ![e] = @ \cup {Phase(e)}]
  OBVIOUS
<1>. QED
  BY <1>1, <1>2, <1>3 DEF Lifecycle!Announce, Lifecycle!Actions, Action

SameChains == \A f \in Events :
    Phase(f)' = Phase(f) /\ (IsAnnounced(f)' <=> IsAnnounced(f))

LEMMA MapsChains ==
    ASSUME SameChains
    PROVE  /\ [f \in Events |-> Phase(f)]' = [f \in Events |-> Phase(f)]
           /\ [f \in Events |-> IsAnnounced(f)]' = [f \in Events |-> IsAnnounced(f)]
<1>1. \A f \in Events : IsAnnounced(f) \in BOOLEAN /\ IsAnnounced(f)' \in BOOLEAN
  BY DEF IsAnnounced
<1>. QED
  BY <1>1 DEF SameChains

LEMMA StepTake ==
    ASSUME TypeOK, SameChains, NEW m \in EventStatusChange,
           m.action \in Outbox(m.event),
           Outbox(m.event)' = Outbox(m.event) \ {m.action},
           \A f \in Events \ {m.event} : Outbox(f)' = Outbox(f),
           \/ UNCHANGED topic
           \/ topic' = Append(topic, m) /\ \A x \in Range(topic) : LineOf(x) # LineOf(m)
    PROVE  \E a \in Lifecycle!Actions : Lifecycle!Tell(m.event, a) \/ Lifecycle!Lose(m.event, a)
<1>1. m.event \in Events /\ m.action \in Action /\ Told(m) = m.action
  BY LineFacts
<1>2. [f \in Events |-> Outbox(f)]' =
          [[f \in Events |-> Outbox(f)] EXCEPT ![m.event] = @ \ {m.action}]
  BY <1>1
<1>3. m.action \in Lifecycle!Actions
  BY <1>1 DEF Lifecycle!Actions, Action
<1>4. CASE UNCHANGED topic
  <2>1. Lifecycle!Lose(m.event, m.action)
    BY <1>1, <1>2, <1>4, MapsChains DEF Lifecycle!Lose
  <2>. QED
    BY <1>3, <2>1
<1>5. CASE /\ topic' = Append(topic, m)
           /\ \A x \in Range(topic) : LineOf(x) # LineOf(m)
  <2>1. LineOf(m) = Lifecycle!Line(m.event, m.action)
    BY <1>1 DEF LineOf, Lifecycle!Line
  <2>2. Lifecycle!TellOnce(m.event, m.action)
    BY <1>5, <2>1, TellsOnce
  <2>3. Lifecycle!Tell(m.event, m.action)
    BY <1>1, <1>2, <2>2, MapsChains DEF Lifecycle!Tell
  <2>. QED
    BY <1>3, <2>3
<1>. QED
  BY <1>4, <1>5

LEMMA StepReject ==
    ASSUME TypeOK, SameChains, SameOutboxes, NEW m \in ErrorLine, m.source = "rest",
           topic' = Append(topic, m), \A x \in Range(topic) : LineOf(x) # LineOf(m)
    PROVE  Lifecycle!Reject(m.event)
<1>1. LineOf(m) = Lifecycle!Line(m.event, "rejected")
  BY LineFacts DEF LineOf, Lifecycle!Line
<1>2. Lifecycle!TellOnce(m.event, "rejected")
  BY <1>1, TellsOnce
<1>3. [f \in Events |-> Outbox(f)]' = [f \in Events |-> Outbox(f)]
  BY DEF SameOutboxes
<1>. QED
  BY <1>2, <1>3, MapsChains DEF Lifecycle!Reject

\* The handling of e's failure ends.
LEMMA MapsOver ==
    ASSUME NEW e \in Events, SameElsewhere(e), SameOutboxes,
           Phase(e)' = "over", ~IsAnnounced(e), ~IsAnnounced(e)'
    PROVE  /\ [f \in Events |-> Phase(f)]' = [[f \in Events |-> Phase(f)] EXCEPT ![e] = "over"]
           /\ [f \in Events |-> IsAnnounced(f)]' = [f \in Events |-> IsAnnounced(f)]
           /\ [f \in Events |-> Outbox(f)]' = [f \in Events |-> Outbox(f)]
<1>1. \A f \in Events : IsAnnounced(f) \in BOOLEAN /\ IsAnnounced(f)' \in BOOLEAN
  BY DEF IsAnnounced
<1>2. [f \in Events |-> IsAnnounced(f)]' = [f \in Events |-> IsAnnounced(f)]
  BY <1>1 DEF SameElsewhere
<1>. QED
  BY <1>2, MapsPhase DEF SameOutboxes

LEMMA StepReport ==
    ASSUME TypeOK, NEW e \in Events, SameElsewhere(e), SameOutboxes,
           Phase(e) = "failed", Phase(e)' = "over", ~IsAnnounced(e), ~IsAnnounced(e)',
           NEW m \in ErrorLine, m.event = e, m.source = "jms",
           topic' = Append(topic, m), \A x \in Range(topic) : LineOf(x) # LineOf(m)
    PROVE  Lifecycle!Report(e)
<1>1. LineOf(m) = Lifecycle!Line(e, "failed")
  BY LineFacts DEF LineOf, Lifecycle!Line
<1>2. Lifecycle!TellOnce(e, "failed")
  BY <1>1, TellsOnce
<1>. QED
  BY <1>2, MapsOver DEF Lifecycle!Report

LEMMA StepLoseReport ==
    ASSUME NEW e \in Events, SameElsewhere(e), SameOutboxes, UNCHANGED topic,
           Phase(e) = "failed", Phase(e)' = "over", ~IsAnnounced(e), ~IsAnnounced(e)'
    PROVE  Lifecycle!LoseReport(e)
  BY MapsOver DEF Lifecycle!LoseReport

LEMMA StepNone ==
    ASSUME SameChains, SameOutboxes, UNCHANGED topic
    PROVE  UNCHANGED Lifecycle!lifecycleVars
<1>1. [f \in Events |-> Outbox(f)]' = [f \in Events |-> Outbox(f)]
  BY DEF SameOutboxes
<1>. QED
  BY <1>1, MapsChains DEF Lifecycle!lifecycleVars

-----------------------------------------------------------------------------
(* The steps of EventPipeline *)

\* A step that leaves e's call and message alone.
LEMMA SamePhase ==
    ASSUME NEW f \in Events, stage'[f] = stage[f], action'[f] = action[f],
           (f \in incomingEventQueue)' <=> f \in incomingEventQueue
    PROVE  Phase(f)' = Phase(f) /\ (IsAnnounced(f)' <=> IsAnnounced(f))
<1>1. CASE f \in incomingEventQueue
  BY <1>1 DEF Phase, IsAnnounced
<1>2. CASE f \notin incomingEventQueue
  BY <1>2 DEF Phase, IsAnnounced
<1>. QED
  BY <1>1, <1>2

LEMMA SameOutbox ==
    ASSUME UNCHANGED processedEventQueue
    PROVE  SameOutboxes
  BY DEF SameOutboxes, Outbox

LEMMA SaysError ==
    ASSUME IInv, OnceInvariant, NEW m \in ErrorLine,
           m.source = "rest" => response[m.event] # "ERROR",
           m.source = "jms" => stage[m.event] # "failed"
    PROVE  \A x \in Range(topic) : LineOf(x) # LineOf(m)
<1>. SUFFICES ASSUME NEW x \in Range(topic), LineOf(x) = LineOf(m) PROVE FALSE
  OBVIOUS
<1>1. x.event = m.event /\ Told(x) = Told(m)
  BY LineFacts
<1>2. x \in ErrorLine
  BY <1>1, LineFacts, LineTypes DEF IInv
<1>3. x.source = m.source /\ x.action = "ERROR"
  BY <1>1, <1>2, LineFacts
<1>. QED
  BY <1>1, <1>3, LineFacts DEF OnceInvariant, ErrorsAreDue

LEMMA UploadMaps ==
    ASSUME IInv, OnceInvariant, NEW e \in Events, UploadStep(e)
    PROVE  Lifecycle!LifecycleNext \/ UNCHANGED Lifecycle!lifecycleVars
<1>1. UNCHANGED <<stage, action>> /\ SameOutboxes
  BY SameOutbox DEF UploadStep, SaveIncomingEvent, UploadReturns, UploadFails,
     UploadFailsUntold, chainVars
<1>2. ASSUME NEW id, SaveIncomingEvent(e, id) PROVE Lifecycle!LifecycleNext
  <2>1. stage[e] = "idle" /\ e \notin incomingEventQueue
    BY <1>2 DEF SaveIncomingEvent, IInv, RequestsComeFirst
  <2>2. incomingEventQueue' = incomingEventQueue \cup {e} /\ UNCHANGED topic
    BY <1>2 DEF SaveIncomingEvent
  <2>3. SameElsewhere(e)
    BY <1>1, <2>2, SamePhase DEF SameElsewhere
  <2>4. Phase(e) = "absent" /\ Phase(e)' = "accepted"
    BY <1>1, <2>1, <2>2 DEF Phase, InCall
  <2>5. IsAnnounced(e)' <=> IsAnnounced(e)
    BY <1>1 DEF IsAnnounced
  <2>6. Lifecycle!Accept(e)
    BY <1>1, <2>2, <2>3, <2>4, <2>5, StepAccept
  <2>. QED
    BY <2>6 DEF Lifecycle!LifecycleNext
<1>3. CASE UploadReturns(e) \/ UploadFailsUntold(e)
  <2>1. UNCHANGED <<incomingEventQueue, topic>>
    BY <1>3 DEF UploadReturns, UploadFailsUntold
  <2>2. SameChains
    BY <1>1, <2>1, SamePhase DEF SameChains
  <2>. QED
    BY <1>1, <2>1, <2>2, StepNone
<1>4. CASE UploadFails(e)
  <2>1. /\ UNCHANGED incomingEventQueue /\ response[e] # "ERROR"
        /\ BroadcastError(e, "rest")
    BY <1>4 DEF UploadFails
  <2>2. SameChains
    BY <1>1, <2>1, SamePhase DEF SameChains
  <2>3. PICK m : m = [event |-> e, action |-> "ERROR", source |-> "rest"]
    OBVIOUS
  <2>4. m \in ErrorLine /\ m.event = e /\ m.source = "rest" /\ topic' = Append(topic, m)
    BY <2>1, <2>3 DEF ErrorLine, BroadcastError
  <2>5. \A x \in Range(topic) : LineOf(x) # LineOf(m)
    BY <2>1, <2>4, SaysError
  <2>6. Lifecycle!Reject(e)
    BY <1>1, <2>2, <2>4, <2>5, StepReject DEF IInv
  <2>. QED
    BY <2>6 DEF Lifecycle!LifecycleNext
<1>. QED
  BY <1>2, <1>3, <1>4 DEF UploadStep

LEMMA AnnounceMaps ==
    ASSUME IInv, NEW e \in Events, NEW n \in Notifiers, SaveProcessedEvent(e, n)
    PROVE  Lifecycle!Announce(e)
<1>1. PICK m : m = [event |-> e, action |-> action[e], id |-> AnnouncedId(e)]
  OBVIOUS
<1>2. /\ m \in EventStatusChange /\ m.event = e /\ m.action = action[e]
      /\ processedEventQueue \in [Notifiers -> Seq(EventStatusChange)]
      /\ processedEventQueue' = [processedEventQueue EXCEPT ![n] = Append(@, m)]
  BY <1>1, AnnouncementType DEF SaveProcessedEvent, IInv, TypeOK
<1>3. Range(Append(processedEventQueue[n], m)) = Range(processedEventQueue[n]) \cup {m}
  BY <1>2, RangeOfAppend
<1>4. /\ UNCHANGED <<topic, action, incomingEventQueue>> /\ action[e] \in Action
      /\ stage[e] \in {"called", "written"} /\ stage'[e] \in {"ready", "notified"}
      /\ \A f \in Events \ {e} : stage'[f] = stage[f]
  BY DEF SaveProcessedEvent, restVars, IInv, TypeOK
<1>5. SameElsewhere(e)
  BY <1>4, SamePhase DEF SameElsewhere
<1>6. /\ Phase(e) = action[e] /\ Phase(e)' = action[e]
      /\ ~IsAnnounced(e) /\ IsAnnounced(e)'
  BY <1>4 DEF Phase, IsAnnounced, InCall
<1>7. /\ processedEventQueue'[n] = Append(processedEventQueue[n], m)
      /\ \A k \in Notifiers \ {n} : processedEventQueue'[k] = processedEventQueue[k]
  BY <1>2
<1>8. ASSUME NEW f \in Events, NEW a
      PROVE  (\E k \in Notifiers : \E x \in Range(processedEventQueue'[k]) :
                  x.event = f /\ x.action = a)
                 <=> \/ \E k \in Notifiers : \E x \in Range(processedEventQueue[k]) :
                            x.event = f /\ x.action = a
                     \/ f = e /\ a = action[e]
  <2>1. \A k \in Notifiers : \A x : x \in Range(processedEventQueue'[k]) <=>
            x \in Range(processedEventQueue[k]) \/ (k = n /\ x = m)
    BY <1>3, <1>7
  <2>. QED
    BY <1>2, <2>1
<1>9. Outbox(e)' = Outbox(e) \cup {Phase(e)}
  BY <1>4, <1>6, <1>8 DEF Outbox
<1>10. \A f \in Events \ {e} : Outbox(f)' = Outbox(f)
  BY <1>8 DEF Outbox
<1>. QED
  BY <1>4, <1>5, <1>6, <1>9, <1>10, StepAnnounce

LEMMA ListenerMaps ==
    ASSUME IInv, OnceInvariant, NEW e \in Events, ListenerStep(e)
    PROVE  Lifecycle!LifecycleNext \/ UNCHANGED Lifecycle!lifecycleVars
<1>1. stage \in [Events -> Stage] /\ action \in [Events -> Action]
  BY DEF IInv, TypeOK
<1>2. CASE \E n \in Notifiers : SaveProcessedEvent(e, n)
  BY <1>2, AnnounceMaps DEF Lifecycle!LifecycleNext
<1>3. CASE Receive(e)
  <2>1. /\ e \in incomingEventQueue /\ incomingEventQueue' = incomingEventQueue \ {e}
        /\ stage' = [stage EXCEPT ![e] = "called"]
        /\ UNCHANGED <<action, processedEventQueue, topic>>
    BY <1>3 DEF Receive
  <2>2. stage[e] = "idle" /\ action[e] = "INSERT"
    BY <2>1 DEF IInv, RequestsComeFirst, Held
  <2>3. SameElsewhere(e)
    BY <1>1, <2>1, SamePhase DEF SameElsewhere
  <2>4. Phase(e) = "accepted" /\ Phase(e)' = "INSERT" /\ ~IsAnnounced(e)'
    BY <1>1, <2>1, <2>2 DEF Phase, IsAnnounced, InCall
  <2>5. Lifecycle!Advance(e)
    BY <2>1, <2>3, <2>4, SameOutbox, StepAdvance
  <2>. QED
    BY <2>5 DEF Lifecycle!LifecycleNext
<1>4. CASE Save(e) \/ Delete(e)
  <2>1. /\ UNCHANGED <<incomingEventQueue, action, processedEventQueue, topic>>
        /\ \/ stage[e] = "called" /\ stage' = [stage EXCEPT ![e] = "written"]
           \/ stage[e] = "notified" /\ stage' = [stage EXCEPT ![e] = "ready"]
    BY <1>4 DEF Save, Delete, restVars
  <2>2. Phase(e)' = Phase(e) /\ (IsAnnounced(e)' <=> IsAnnounced(e))
    BY <1>1, <2>1 DEF Phase, IsAnnounced, InCall
  <2>3. SameChains
    BY <1>1, <2>1, <2>2, SamePhase DEF SameChains
  <2>. QED
    BY <2>1, <2>3, SameOutbox, StepNone
<1>5. CASE Commit(e)
  <2>1. /\ stage[e] = "ready" /\ Return(e)
        /\ UNCHANGED <<incomingEventQueue, processedEventQueue, topic>>
    BY <1>5 DEF Commit, restVars
  <2>2. /\ \A f \in Events \ {e} : stage'[f] = stage[f] /\ action'[f] = action[f]
        /\ \/ action[e] = "INSERT" /\ action'[e] = "UPDATE" /\ stage'[e] = "called"
           \/ action[e] = "UPDATE" /\ action'[e] = "DELETE" /\ stage'[e] = "called"
           \/ action[e] = "DELETE" /\ stage'[e] = "done"
    BY <1>1, <2>1 DEF Return
  <2>3. SameElsewhere(e)
    BY <2>1, <2>2, SamePhase DEF SameElsewhere
  <2>4. Phase(e) = action[e] /\ IsAnnounced(e) /\ ~IsAnnounced(e)'
    BY <2>1, <2>2 DEF Phase, IsAnnounced, InCall
  <2>5. Phase(e)' = IF stage'[e] = "done" THEN "completed" ELSE action'[e]
    BY <2>2 DEF Phase, InCall
  <2>6. Lifecycle!Advance(e)
    BY <2>1, <2>2, <2>3, <2>4, <2>5, SameOutbox, StepAdvance
  <2>. QED
    BY <2>6 DEF Lifecycle!LifecycleNext
<1>6. CASE FlushFails(e) \/ CallFails(e)
  <2>1. /\ stage[e] \in InCall /\ stage' = [stage EXCEPT ![e] = "failing"]
        /\ UNCHANGED <<incomingEventQueue, action, processedEventQueue, topic>>
    BY <1>6 DEF FlushFails, CallFails, Rollback, InCall, restVars
  <2>2. SameElsewhere(e)
    BY <1>1, <2>1, SamePhase DEF SameElsewhere
  <2>3. Phase(e) = action[e] /\ action[e] \in Action
    BY <1>1, <2>1 DEF Phase, InCall
  <2>4. Phase(e)' = "failed" /\ ~IsAnnounced(e)'
    BY <1>1, <2>1 DEF Phase, IsAnnounced, InCall
  <2>5. Lifecycle!Fail(e)
    BY <2>1, <2>2, <2>3, <2>4, SameOutbox, StepFail
  <2>. QED
    BY <2>5 DEF Lifecycle!LifecycleNext
<1>7. CASE HandleError(e) \/ HandleErrorFails(e)
  <2>1. /\ stage[e] = "failing" /\ stage' = [stage EXCEPT ![e] = "failed"]
        /\ UNCHANGED <<incomingEventQueue, action, processedEventQueue>>
        /\ BroadcastError(e, "jms") \/ UNCHANGED topic
    BY <1>7 DEF HandleError, HandleErrorFails, restVars
  <2>2. Phase(e) = "failed" /\ Phase(e)' = "over" /\ ~IsAnnounced(e) /\ ~IsAnnounced(e)'
    BY <1>1, <2>1 DEF Phase, IsAnnounced, InCall
  <2>3. SameElsewhere(e)
    BY <1>1, <2>1, SamePhase DEF SameElsewhere
  <2>4. PICK m : m = [event |-> e, action |-> "ERROR", source |-> "jms"]
    OBVIOUS
  <2>5. /\ m \in ErrorLine /\ m.event = e /\ m.source = "jms"
        /\ BroadcastError(e, "jms") => topic' = Append(topic, m)
    BY <2>4 DEF ErrorLine, BroadcastError
  <2>6. \A x \in Range(topic) : LineOf(x) # LineOf(m)
    BY <2>1, <2>5, SaysError
  <2>7. CASE BroadcastError(e, "jms")
    <3>1. Lifecycle!Report(e)
      BY <2>1, <2>2, <2>3, <2>5, <2>6, <2>7, SameOutbox, StepReport DEF IInv
    <3>. QED
      BY <3>1 DEF Lifecycle!LifecycleNext
  <2>8. CASE UNCHANGED topic
    <3>1. Lifecycle!LoseReport(e)
      BY <2>1, <2>2, <2>3, <2>8, SameOutbox, StepLoseReport
    <3>. QED
      BY <3>1 DEF Lifecycle!LifecycleNext
  <2>. QED
    BY <2>1, <2>7, <2>8
<1>. QED
  BY <1>2, <1>3, <1>4, <1>5, <1>6, <1>7 DEF ListenerStep, CallStep

LEMMA NotifierMaps ==
    ASSUME IInv, OnceInvariant, NEW n \in Notifiers, NotifierStep(n)
    PROVE  Lifecycle!LifecycleNext
<1>1. PICK q : q = processedEventQueue[n]
  OBVIOUS
<1>2. PICK m : m = Head(q)
  OBVIOUS
<1>3. /\ q \in Seq(EventStatusChange) /\ q # <<>> /\ processedEventQueue'[n] = Tail(q)
      /\ \A k \in Notifiers \ {n} : processedEventQueue'[k] = processedEventQueue[k]
      /\ topic' = topic \/ topic' = Append(topic, m)
      /\ UNCHANGED <<stage, action, incomingEventQueue>>
  BY <1>1, <1>2, LineTypes DEF NotifierStep, InformUser, InformUserFails, Acknowledge, IInv,
                               restVars, chainVars
<1>4. /\ Range(q) = Range(Tail(q)) \cup {m} /\ m \in EventStatusChange
      /\ \A y \in Range(Tail(q)) : LineOf(y) # LineOf(m)
  BY <1>1, <1>2, <1>3, RangeOfTail, TailOnce DEF OnceInvariant
<1>5. SameChains
  BY <1>3, SamePhase DEF SameChains
<1>6. \A x \in Range(topic) : LineOf(x) # LineOf(m)
  BY <1>1, <1>4 DEF OnceInvariant
<1>7. m.event \in Events /\ m.action \in Action
  BY <1>4, LineFacts
<1>8. ASSUME NEW k \in Notifiers, NEW x \in Range(processedEventQueue'[k])
      PROVE  x \in Range(processedEventQueue[k]) /\ ~(x.event = m.event /\ x.action = m.action)
  <2>1. x \in Range(processedEventQueue[k]) /\ LineOf(x) # LineOf(m)
    <3>1. CASE k = n
      BY <1>1, <1>3, <1>4, <1>8, <3>1
    <3>2. CASE k # n
      BY <1>1, <1>3, <1>4, <1>8, <3>2 DEF OnceInvariant
    <3>. QED
      BY <3>1, <3>2
  <2>. QED
    BY <1>4, <2>1, LineFacts, LineTypes DEF IInv
<1>9. ASSUME NEW k \in Notifiers, NEW x \in Range(processedEventQueue[k]), x # m
      PROVE  x \in Range(processedEventQueue'[k])
  <2>1. CASE k = n
    BY <1>1, <1>3, <1>4, <1>9, <2>1
  <2>2. CASE k # n
    BY <1>3, <2>2
  <2>. QED
    BY <2>1, <2>2
<1>10. ASSUME NEW f \in Events, NEW a \in Action
       PROVE  a \in Outbox(f)' <=> a \in Outbox(f) /\ ~(f = m.event /\ a = m.action)
  BY <1>8, <1>9 DEF Outbox
<1>11. m.action \in Outbox(m.event)
  BY <1>1, <1>4, <1>7 DEF Outbox
<1>12. \A f \in Events : Outbox(f) \subseteq Action /\ Outbox(f)' \subseteq Action
  BY DEF Outbox
<1>13. Outbox(m.event)' = Outbox(m.event) \ {m.action}
  BY <1>7, <1>10, <1>12
<1>14. \A f \in Events \ {m.event} : Outbox(f)' = Outbox(f)
  BY <1>10, <1>12
<1>15. \E a \in Lifecycle!Actions :
           Lifecycle!Tell(m.event, a) \/ Lifecycle!Lose(m.event, a)
  BY <1>3, <1>4, <1>5, <1>6, <1>11, <1>13, <1>14, StepTake DEF IInv
<1>. QED
  BY <1>7, <1>15 DEF Lifecycle!LifecycleNext

LEMMA NextMaps ==
    ASSUME IInv, OnceInvariant, [Next]_vars
    PROVE  [Lifecycle!LifecycleNext]_(Lifecycle!lifecycleVars)
<1>1. CASE UNCHANGED vars
  <2>1. UNCHANGED <<stage, action, incomingEventQueue, processedEventQueue, topic>>
    BY <1>1 DEF vars, restVars, chainVars
  <2>2. SameChains
    BY <2>1, SamePhase DEF SameChains
  <2>. QED
    BY <2>1, <2>2, SameOutbox, StepNone
<1>. QED
  BY <1>1, UploadMaps, ListenerMaps, NotifierMaps DEF Next, Idle

LEMMA InitMaps == Init => Lifecycle!LifecycleInit
<1>. SUFFICES ASSUME Init PROVE Lifecycle!LifecycleInit
  OBVIOUS
<1>1. \A e \in Events : Phase(e) = "absent" /\ IsAnnounced(e) = FALSE
  BY DEF Init, Phase, IsAnnounced, InCall
<1>2. \A a : a \notin Range(<<>>)
  BY DEF Range
<1>3. \A e \in Events : Outbox(e) = {}
  BY <1>2 DEF Init, Outbox
<1>4. [i \in DOMAIN topic |-> [event |-> topic[i].event, says |-> Told(topic[i])]] = <<>>
  BY DEF Init
<1>. QED
  BY <1>1, <1>3, <1>4 DEF Lifecycle!LifecycleInit

\* The pipeline implements EventLifecycle, for any number of events, client ids,
\* threads and failures: every step of the endpoint, the listeners, the error
\* handler and the broker is a step of it or none.
THEOREM LifecycleIsImplemented == Spec => Lifecycle!LifecycleSpec
<1>1. Init => OnceInvariant
  BY OnceInit
<1>2. IInv /\ OnceInvariant /\ [Next]_vars => OnceInvariant'
  BY OnceNext
<1>3. IInv /\ OnceInvariant /\ [Next]_vars => [Lifecycle!LifecycleNext]_(Lifecycle!lifecycleVars)
  BY NextMaps
<1>. QED
  BY <1>1, <1>2, <1>3, InitMaps, IInvCorrect, PTL DEF Spec, Lifecycle!LifecycleSpec
=============================================================================
