------------------------ MODULE EventPipelineProofs ------------------------
(***************************************************************************)
(* Proofs about EventPipeline for every set of requests, of client ids and *)
(* of notifiers and every bound on consumers and failures: the types, and  *)
(* the invariant that ties the rows of the events table to the listeners.  *)
(***************************************************************************)
EXTENDS EventPipeline, TLAPS

-----------------------------------------------------------------------------
(* Types *)

\* The announcement that processEvent sends is one.
LEMMA AnnouncementType ==
    ASSUME TypeOK, NEW e \in Events
    PROVE  [event |-> e, action |-> action[e], id |-> AnnouncedId(e)]
               \in EventStatusChange
  BY DEF TypeOK, EventStatusChange, AnnouncedId, Work

\* Whatever happens to the event of a request, the types are preserved.
LEMMA TypeUpload ==
    ASSUME TypeOK, NEW e \in Events, UploadStep(e)
    PROVE  TypeOK'
  <1>1. ASSUME NEW id \in ClientIds \cup {NoId}, SaveIncomingEvent(e, id)
        PROVE  TypeOK'
    <2>1. id \in Nat
      BY ClientIdsAssumption DEF NoId
    <2> QED
      BY <1>1, <2>1 DEF TypeOK, SaveIncomingEvent, dbVars
  <1>2. CASE UploadReturns(e)
    BY <1>2 DEF TypeOK, UploadReturns, chainVars, dbVars
  <1>3. CASE UploadFails(e)
    <2>1. [event |-> e, action |-> "ERROR", source |-> "rest"] \in ErrorLine
      BY DEF ErrorLine
    <2>2. topic' \in Seq(EventStatusChange \cup ErrorLine)
      BY <1>3, <2>1 DEF TypeOK, UploadFails, BroadcastError
    <2>3. faults' \in 0 .. MaxFaults
      BY <1>3, MaxFaultsAssumption DEF TypeOK, UploadFails, Fault
    <2> QED
      BY <1>3, <2>2, <2>3 DEF TypeOK, UploadFails, chainVars, dbVars
  <1>4. CASE UploadFailsUntold(e)
    BY <1>4, MaxFaultsAssumption DEF TypeOK, UploadFailsUntold, chainVars, dbVars
  <1> QED
    BY <1>1, <1>2, <1>3, <1>4 DEF UploadStep

LEMMA TypeListener ==
    ASSUME TypeOK, NEW e \in Events, ListenerStep(e)
    PROVE  TypeOK'
  <1>1. CASE Receive(e)
    BY <1>1 DEF TypeOK, Receive, dbVars, Stage, InCall
  <1>2. CASE Save(e)
    <2>1. nextId' \in Nat \ {0}
      BY <1>2 DEF TypeOK, Save, Persist
    <2>2. PICK op \in {"insert", "update", "clean"}, id \in Nat :
              tx' = [tx EXCEPT ![e] = [op |-> op, id |-> id]]
      BY <1>2 DEF TypeOK, Save, Persist, Merge
    <2>3. tx' \in [Events -> Work]
      BY <2>2 DEF TypeOK, Work
    <2> QED
      BY <1>2, <2>1, <2>3 DEF TypeOK, Save, restVars, Stage, InCall
  <1>3. ASSUME NEW n \in Notifiers, SaveProcessedEvent(e, n)
        PROVE  TypeOK'
    <2> DEFINE m == [event |-> e, action |-> action[e], id |-> AnnouncedId(e)]
    <2>1. m \in EventStatusChange
      BY AnnouncementType
    <2>2. processedEventQueue' =
              [processedEventQueue EXCEPT ![n] = Append(processedEventQueue[n], m)]
      BY <1>3 DEF SaveProcessedEvent
    <2> HIDE DEF m
    <2>3. processedEventQueue' \in [Notifiers -> Seq(EventStatusChange)]
      BY <2>1, <2>2 DEF TypeOK
    <2>4. stage' \in [Events -> Stage]
      BY <1>3 DEF TypeOK, SaveProcessedEvent, Stage, InCall
    <2> QED
      BY <1>3, <2>3, <2>4 DEF TypeOK, SaveProcessedEvent, restVars, dbVars
  <1>4. CASE Delete(e)
    <2>1. nextId' \in Nat \ {0}
      BY <1>4 DEF TypeOK, Delete, Persist
    <2>2. PICK op \in {"delete", "discard"}, id \in Nat :
              tx' = [tx EXCEPT ![e] = [op |-> op, id |-> id]]
      BY <1>4 DEF TypeOK, Delete, Persist
    <2>3. tx' \in [Events -> Work]
      BY <2>2 DEF TypeOK, Work
    <2> QED
      BY <1>4, <2>1, <2>3 DEF TypeOK, Delete, restVars, Stage, InCall
  <1>5. CASE Commit(e)
    <2>1. tx' \in [Events -> Work]
      BY <1>5 DEF TypeOK, Commit, Work, NoWork, NoId
    <2>2. table' \subseteq Row
      BY <1>5 DEF TypeOK, Commit, Flushed, Others, Row, Work
    <2>3. /\ action' \in [Events -> Action]
          /\ stage' \in [Events -> Stage]
          /\ eventDto' \in [Events -> Nat]
      <3>1. tx[e].id \in Nat
        BY <1>5 DEF TypeOK, Work
      <3>2. CASE action[e] = "DELETE"
        BY <1>5, <3>2 DEF TypeOK, Commit, Return, Stage
      <3>3. CASE action[e] # "DELETE"
        <4>1. PICK next \in {"UPDATE", "DELETE"} :
                 /\ action' = [action EXCEPT ![e] = next]
                 /\ stage' = [stage EXCEPT ![e] = "called"]
                 /\ eventDto' = [eventDto EXCEPT ![e] = tx[e].id]
          BY <1>5, <3>3 DEF Commit, Return
        <4> QED
          BY <4>1, <3>1 DEF TypeOK, Action, Stage, InCall
      <3> QED
        BY <3>2, <3>3
    <2> QED
      BY <1>5, <2>1, <2>2, <2>3 DEF TypeOK, Commit, restVars
  <1>6. ASSUME Rollback(e), faults' \in 0 .. MaxFaults
        PROVE  TypeOK'
    BY <1>6 DEF TypeOK, Rollback, restVars, dbVars, Work, NoWork, NoId, Stage
  <1>7. CASE FlushFails(e)
    BY <1>6, <1>7 DEF TypeOK, FlushFails
  <1>8. CASE CallFails(e)
    <2>1. faults' \in 0 .. MaxFaults
      BY <1>8, MaxFaultsAssumption DEF TypeOK, CallFails, Fault
    <2> QED
      BY <1>6, <1>8, <2>1 DEF CallFails
  <1>9. CASE HandleError(e)
    <2>1. [event |-> e, action |-> "ERROR", source |-> "jms"] \in ErrorLine
      BY DEF ErrorLine
    <2>2. topic' \in Seq(EventStatusChange \cup ErrorLine)
      BY <1>9, <2>1 DEF TypeOK, HandleError, BroadcastError
    <2> QED
      BY <1>9, <2>2 DEF TypeOK, HandleError, restVars, dbVars, Stage
  <1>10. CASE HandleErrorFails(e)
    BY <1>10, MaxFaultsAssumption DEF TypeOK, HandleErrorFails, Fault, restVars, dbVars, Stage
  <1> QED
    BY <1>1, <1>2, <1>3, <1>4, <1>5, <1>7, <1>8, <1>9, <1>10 DEF ListenerStep, CallStep

LEMMA TypeNotifier ==
    ASSUME TypeOK, NEW n \in Notifiers, NotifierStep(n)
    PROVE  TypeOK'
  <1> DEFINE q == processedEventQueue[n]
  <1>1. q \in Seq(EventStatusChange) /\ q # <<>>
    BY DEF TypeOK, NotifierStep, InformUser, InformUserFails, Acknowledge
  <1>2. Head(q) \in EventStatusChange /\ Tail(q) \in Seq(EventStatusChange)
    BY <1>1
  <1>3. processedEventQueue' = [processedEventQueue EXCEPT ![n] = Tail(q)]
    BY DEF NotifierStep, InformUser, InformUserFails, Acknowledge
  <1>4. processedEventQueue' \in [Notifiers -> Seq(EventStatusChange)]
    BY <1>2, <1>3 DEF TypeOK
  <1>5. CASE InformUser(n)
    <2>1. topic' = Append(topic, Head(q))
      BY <1>5 DEF InformUser
    <2>2. topic' \in Seq(EventStatusChange \cup ErrorLine)
      BY <1>2, <2>1 DEF TypeOK
    <2> QED
      BY <1>4, <1>5, <2>2 DEF TypeOK, InformUser, restVars, chainVars, dbVars
  <1>6. CASE InformUserFails(n)
    <2>1. faults' \in 0 .. MaxFaults
      BY <1>6, MaxFaultsAssumption DEF TypeOK, InformUserFails, Fault
    <2> QED
      BY <1>4, <1>6, <2>1 DEF TypeOK, InformUserFails, restVars, chainVars, dbVars
  <1> QED
    BY <1>5, <1>6 DEF NotifierStep

LEMMA TypeInit == Init => TypeOK
  BY MaxFaultsAssumption
     DEF Init, TypeOK, Action, Stage, InCall, Work, NoWork, NoId

LEMMA TypeNext == TypeOK /\ [Next]_vars => TypeOK'
  <1> SUFFICES ASSUME TypeOK, [Next]_vars
               PROVE  TypeOK'
    OBVIOUS
  <1>1. CASE UNCHANGED vars
    BY <1>1 DEF TypeOK, vars, restVars, chainVars, dbVars
  <1>2. CASE Next
    BY <1>1, <1>2, TypeUpload, TypeListener, TypeNotifier DEF Next, Idle
  <1> QED
    BY <1>1, <1>2

\* Every variable keeps its type: in particular the queues and the topic hold
\* only announcements and error lines, and ids are numbers.
THEOREM TypeCorrect == Spec => []TypeOK
  BY TypeInit, TypeNext, PTL DEF Spec

-----------------------------------------------------------------------------
(* Rows and listeners *)

\* A step that leaves the requests, the calls and the table alone.
LEMMA InvFrame ==
    ASSUME IInv, TypeOK', UNCHANGED <<restVars, chainVars, dbVars>>
    PROVE  IInv'
  BY DEF IInv, restVars, chainVars, dbVars, RequestsComeFirst, WorkFitsCall,
         RowIdsWereGenerated, KnownIdsWereGenerated, PendingInsertsAreFresh,
         AbsentRowsStayAbsent, CompletedLeavesNoRow, RowsAccountedFor, Knows, Held, Found

\* A step of a request that changes no call that holds an id of the table.
LEMMA InvUpload ==
    ASSUME IInv, TypeOK', NEW e \in Events, UploadStep(e)
    PROVE  IInv'
  <1>1. ASSUME NEW id \in ClientIds \cup {NoId}, SaveIncomingEvent(e, id)
        PROVE  IInv'
    <2> USE <1>1 DEF IInv, SaveIncomingEvent, dbVars, TypeOK
    <2>1. stage[e] = "idle" /\ ~Held(e) /\ tx[e].op = "none"
      BY DEF RequestsComeFirst, WorkFitsCall
    <2>2. RequestsComeFirst'
      BY DEF RequestsComeFirst, Held
    <2>3. WorkFitsCall'
      BY <2>1 DEF WorkFitsCall
    <2>4. RowIdsWereGenerated' /\ KnownIdsWereGenerated'
      BY <2>1 DEF RowIdsWereGenerated, KnownIdsWereGenerated, Knows, Held
    <2>5. PendingInsertsAreFresh'
      BY <2>1 DEF PendingInsertsAreFresh, Knows, Held, Found
    <2>6. AbsentRowsStayAbsent' /\ CompletedLeavesNoRow'
      BY <2>1 DEF AbsentRowsStayAbsent, CompletedLeavesNoRow, Knows, Held, Found
    <2>7. RowsAccountedFor'
      BY <2>1 DEF RowsAccountedFor, Held
    <2> QED
      BY <2>2, <2>3, <2>4, <2>5, <2>6, <2>7
  <1>2. ASSUME response[e] # "none", response' = [response EXCEPT ![e] = "OK"],
               UNCHANGED <<incomingEventQueue, chainVars, dbVars>>
        PROVE  IInv'
    BY <1>2 DEF IInv, TypeOK, chainVars, dbVars, RequestsComeFirst, WorkFitsCall,
         RowIdsWereGenerated, KnownIdsWereGenerated, PendingInsertsAreFresh,
         AbsentRowsStayAbsent, CompletedLeavesNoRow, RowsAccountedFor, Knows, Held, Found
  <1>3. CASE UploadReturns(e)
    BY <1>2, <1>3 DEF UploadReturns
  <1>4. CASE UploadFails(e) \/ UploadFailsUntold(e)
    BY <1>4 DEF UploadFails, UploadFailsUntold, IInv, TypeOK, chainVars, dbVars, RequestsComeFirst,
         WorkFitsCall, RowIdsWereGenerated, KnownIdsWereGenerated,
         PendingInsertsAreFresh, AbsentRowsStayAbsent, CompletedLeavesNoRow,
         RowsAccountedFor, Knows, Held, Found
  <1> QED
    BY <1>1, <1>3, <1>4 DEF UploadStep

LEMMA InvReceive ==
    ASSUME IInv, TypeOK', NEW e \in Events, Receive(e)
    PROVE  IInv'
  <1> USE DEF IInv, TypeOK, Receive, dbVars
  <1>1. stage[e] = "idle" /\ ~Held(e) /\ tx[e].op = "none"
    BY DEF RequestsComeFirst, WorkFitsCall
  <1>2. RequestsComeFirst'
    BY DEF RequestsComeFirst, Held
  <1>3. WorkFitsCall'
    BY <1>1 DEF WorkFitsCall
  <1>4. RowIdsWereGenerated' /\ KnownIdsWereGenerated' /\ PendingInsertsAreFresh'
    BY DEF RowIdsWereGenerated, KnownIdsWereGenerated, PendingInsertsAreFresh,
           Knows, Held, Found
  <1>5. AbsentRowsStayAbsent' /\ CompletedLeavesNoRow'
    BY DEF AbsentRowsStayAbsent, CompletedLeavesNoRow, Knows, Held, Found
  <1>6. RowsAccountedFor'
    BY <1>1 DEF RowsAccountedFor, Held
  <1> QED
    BY <1>2, <1>3, <1>4, <1>5, <1>6

\* A call that stays a call: only its stage and its work change, and no row.
\* Saving and deleting are of this kind.
LEMMA InvWork ==
    ASSUME IInv, TypeOK', NEW e \in Events,
           NEW op \in {"insert", "update", "clean", "delete", "discard"},
           NEW id \in Nat, NEW s \in {"written", "ready"},
           tx[e].op = "none", stage[e] \in InCall,
           tx' = [tx EXCEPT ![e] = [op |-> op, id |-> id]],
           stage' = [stage EXCEPT ![e] = s],
           nextId' \in {nextId, nextId + 1},
           UNCHANGED <<restVars, eventDto, action, table>>,
           op \in {"insert", "update", "clean"} <=> action[e] # "DELETE",
           op \in {"update", "clean", "delete"} => id = eventDto[e],
           op \in {"insert", "discard"} <=> ~Found(eventDto[e]),
           op = "insert" => id = nextId /\ nextId' = nextId + 1
    PROVE  IInv'
  <1> USE DEF IInv, TypeOK, restVars
  <1>1. /\ tx'[e] = [op |-> op, id |-> id] /\ stage'[e] = s
        /\ \A f \in Events \ {e} : tx'[f] = tx[f] /\ stage'[f] = stage[f]
    OBVIOUS
  <1>2. RequestsComeFirst'
    BY <1>1 DEF RequestsComeFirst, Held, InCall
  <1>3. WorkFitsCall'
    BY <1>1 DEF WorkFitsCall
  <1>4. /\ \A f \in Events \ {e} : Knows(f)' <=> Knows(f)
        /\ Knows(e)' => Knows(e) \/ Found(eventDto[e])
    BY <1>1 DEF Knows, Held
  <1>5. RowIdsWereGenerated' /\ KnownIdsWereGenerated'
    <2>1. RowIdsWereGenerated'
      BY DEF RowIdsWereGenerated
    <2>2. KnownIdsWereGenerated'
      BY <1>4 DEF RowIdsWereGenerated, KnownIdsWereGenerated, Row, Found
    <2> QED
      BY <2>1, <2>2
  <1>6. PendingInsertsAreFresh'
    <2>1. SUFFICES ASSUME NEW g \in Events, tx'[g].op = "insert"
                   PROVE  /\ tx'[g].id \in 1 .. nextId' - 1
                          /\ ~Found(tx'[g].id)
                          /\ \A f \in Events : Knows(f)' => eventDto[f] # tx'[g].id
                          /\ \A f \in Events \ {g} :
                                 tx'[f].op = "insert" => tx'[f].id # tx'[g].id
      BY DEF PendingInsertsAreFresh, Found
    <2>2. CASE g = e
      <3>1. op = "insert" /\ tx'[g].id = nextId /\ nextId' = nextId + 1
        BY <1>1, <2>1, <2>2
      <3>2. ~Found(nextId)
        BY DEF Found, RowIdsWereGenerated
      <3>3. \A f \in Events : Knows(f)' => Knows(f)
        BY <1>4, <3>1
      <3>4. \A f \in Events : Knows(f)' => eventDto[f] # nextId
        BY <3>3 DEF KnownIdsWereGenerated
      <3>5. \A f \in Events \ {e} : tx'[f].op = "insert" => tx'[f].id # nextId
        BY <1>1 DEF PendingInsertsAreFresh
      <3> QED
        BY <2>2, <3>1, <3>2, <3>4, <3>5
    <2>3. CASE g # e
      <3>1. tx'[g] = tx[g]
        BY <1>1, <2>3
      <3>2. tx[g].id \in 1 .. nextId - 1
        BY <2>1, <3>1 DEF PendingInsertsAreFresh
      <3>3. op = "insert" => id # tx[g].id
        BY <3>2
      <3>4. ~Found(tx[g].id) /\ \A f \in Events : Knows(f) => eventDto[f] # tx[g].id
        BY <2>1, <3>1 DEF PendingInsertsAreFresh
      <3>5. \A f \in Events : Knows(f)' => eventDto[f] # tx[g].id
        BY <1>4, <3>4
      <3>6. \A f \in Events \ {g} : tx'[f].op = "insert" => tx'[f].id # tx[g].id
        BY <1>1, <2>1, <3>1, <3>3 DEF PendingInsertsAreFresh
      <3> QED
        BY <3>1, <3>2, <3>4, <3>5, <3>6
    <2> QED
      BY <2>2, <2>3
  <1>7. AbsentRowsStayAbsent'
    BY <1>1 DEF AbsentRowsStayAbsent, Knows, Held, Found
  <1>8. CompletedLeavesNoRow'
    BY <1>1 DEF CompletedLeavesNoRow, Found
  <1>9. RowsAccountedFor'
    <2>1. \A f \in Events : stage[f] # "done" => stage'[f] # "done"
      BY <1>1
    <2> QED
      BY <2>1 DEF RowsAccountedFor, Held
  <1> QED
    BY <1>2, <1>3, <1>5, <1>6, <1>7, <1>8, <1>9

LEMMA InvSave ==
    ASSUME IInv, TypeOK', NEW e \in Events, Save(e)
    PROVE  IInv'
  <1>1. /\ tx[e].op = "none" /\ stage[e] \in InCall /\ action[e] # "DELETE"
        /\ nextId \in Nat /\ eventDto[e] \in Nat
    BY DEF IInv, TypeOK, WorkFitsCall, Save, InCall
  <1>2. CASE ~Found(eventDto[e]) /\ Persist(e, "insert")
    BY <1>1, <1>2, InvWork DEF Save, Persist
  <1>3. CASE Found(eventDto[e]) /\ Merge(e) /\ UNCHANGED nextId
    <2>1. PICK op \in {"update", "clean"} :
              tx' = [tx EXCEPT ![e] = [op |-> op, id |-> eventDto[e]]]
      BY <1>3 DEF Merge
    <2> QED
      BY <1>1, <1>3, <2>1, InvWork DEF Save
  <1> QED
    BY <1>2, <1>3 DEF Save

LEMMA InvDelete ==
    ASSUME IInv, TypeOK', NEW e \in Events, Delete(e)
    PROVE  IInv'
  <1>1. /\ tx[e].op = "none" /\ stage[e] \in InCall
        /\ nextId \in Nat /\ eventDto[e] \in Nat
    BY DEF IInv, TypeOK, WorkFitsCall, Delete, InCall
  <1>2. action[e] = "DELETE"
    BY DEF IInv, WorkFitsCall, Delete
  <1>3. CASE ~Found(eventDto[e]) /\ Persist(e, "discard")
    BY <1>1, <1>2, <1>3, InvWork DEF Delete, Persist
  <1>4. CASE /\ Found(eventDto[e])
             /\ tx' = [tx EXCEPT ![e] = [op |-> "delete", id |-> eventDto[e]]]
             /\ UNCHANGED nextId
    BY <1>1, <1>2, <1>4, InvWork DEF Delete
  <1> QED
    BY <1>3, <1>4 DEF Delete

\* Announcing moves a call on without touching its work.
LEMMA InvSend ==
    ASSUME IInv, TypeOK', NEW e \in Events, NEW n \in Notifiers,
           SaveProcessedEvent(e, n)
    PROVE  IInv'
  <1> USE DEF IInv, TypeOK, SaveProcessedEvent, restVars, dbVars
  <1>1. /\ stage[e] \in {"written", "called"} /\ stage'[e] \in {"ready", "notified"}
        /\ stage[e] = "written" <=> stage'[e] = "ready"
        /\ stage'[e] = "notified" => action[e] = "DELETE"
        /\ \A f \in Events \ {e} : stage'[f] = stage[f]
    OBVIOUS
  <1>2. RequestsComeFirst'
    BY <1>1 DEF RequestsComeFirst, Held
  <1>3. WorkFitsCall'
    BY <1>1 DEF WorkFitsCall
  <1>4. RowIdsWereGenerated' /\ KnownIdsWereGenerated' /\ PendingInsertsAreFresh'
    BY DEF RowIdsWereGenerated, KnownIdsWereGenerated, PendingInsertsAreFresh,
           Knows, Held, Found
  <1>5. AbsentRowsStayAbsent' /\ CompletedLeavesNoRow'
    BY <1>1 DEF AbsentRowsStayAbsent, CompletedLeavesNoRow, Knows, Held, Found
  <1>6. RowsAccountedFor'
    <2>1. \A f \in Events : stage[f] # "done" => stage'[f] # "done"
      BY <1>1
    <2> QED
      BY <2>1 DEF RowsAccountedFor, Held
  <1> QED
    BY <1>2, <1>3, <1>4, <1>5, <1>6

\* A call that ends without a commit drops its work.
LEMMA InvDrop ==
    ASSUME IInv, TypeOK', NEW e \in Events,
           NEW s \in {"failing", "failed"},
           stage[e] \in InCall \cup {"failing"},
           stage' = [stage EXCEPT ![e] = s],
           tx' = [tx EXCEPT ![e] = NoWork] \/ (tx[e].op = "none" /\ tx' = tx),
           UNCHANGED <<restVars, eventDto, action, dbVars>>
    PROVE  IInv'
  <1> USE DEF IInv, TypeOK, restVars, dbVars
  <1>1. /\ stage'[e] = s /\ tx'[e].op = "none"
        /\ \A f \in Events \ {e} : stage'[f] = stage[f] /\ tx'[f] = tx[f]
    BY DEF NoWork
  <1>2. RequestsComeFirst'
    BY <1>1 DEF RequestsComeFirst, Held, InCall
  <1>3. WorkFitsCall'
    BY <1>1 DEF WorkFitsCall
  <1>4. \A f \in Events : Knows(f)' => Knows(f)
    BY <1>1 DEF Knows, Held
  <1>5. RowIdsWereGenerated' /\ KnownIdsWereGenerated'
    BY <1>4 DEF RowIdsWereGenerated, KnownIdsWereGenerated
  <1>6. PendingInsertsAreFresh'
    <2>1. \A f \in Events : tx'[f].op = "insert" => tx'[f] = tx[f]
      BY <1>1
    <2>2. \A i : Found(i)' <=> Found(i)
      BY DEF Found
    <2> QED
      BY <1>4, <2>1, <2>2 DEF PendingInsertsAreFresh
  <1>7. AbsentRowsStayAbsent' /\ CompletedLeavesNoRow'
    <2>1. AbsentRowsStayAbsent'
      BY <1>1 DEF AbsentRowsStayAbsent, Knows, Held, Found
    <2>2. CompletedLeavesNoRow'
      BY <1>1 DEF CompletedLeavesNoRow, Found
    <2> QED
      BY <2>1, <2>2
  <1>8. RowsAccountedFor'
    <2>1. \A f \in Events : stage[f] # "done" => stage'[f] # "done"
      BY <1>1
    <2> QED
      BY <2>1 DEF RowsAccountedFor, Held
  <1> QED
    BY <1>2, <1>3, <1>5, <1>6, <1>7, <1>8

\* The commit is the only step that changes rows.  INSERT and UPDATE leave the
\* row of their transaction in the table and hand its id to the next call.
LEMMA InvCommitSave ==
    ASSUME IInv, TypeOK', NEW e \in Events, Commit(e), action[e] # "DELETE"
    PROVE  IInv'
  <1> DEFINE id == tx[e].id
             op == tx[e].op
  <1> USE DEF IInv, TypeOK, restVars
  <1>1. /\ stage[e] = "ready" /\ id \in Nat
        /\ op \in {"insert", "update", "clean"}
        /\ op \in {"update", "clean"} => id = eventDto[e] /\ Knows(e)
        /\ op = "update" => Found(id)
    BY DEF Commit, WorkFitsCall, CanFlush, Work, Knows
  <1>2. /\ stage'[e] = "called" /\ eventDto'[e] = id /\ tx'[e].op = "none"
        /\ action'[e] = (IF action[e] = "INSERT" THEN "UPDATE" ELSE "DELETE")
        /\ \A f \in Events \ {e} : /\ tx'[f] = tx[f] /\ stage'[f] = stage[f]
                                   /\ action'[f] = action[f]
                                   /\ eventDto'[f] = eventDto[f]
        /\ nextId' = nextId
        /\ response' = response /\ incomingEventQueue' = incomingEventQueue
    BY DEF Commit, Return, NoWork, Action
  <1>3. Held(e)' /\ \A f \in Events \ {e} : Knows(f)' <=> Knows(f)
    BY <1>2 DEF Held, Knows
  <1>4. table' = (IF op = "clean" THEN table
                  ELSE Others(id) \cup {[id |-> id, writer |-> e]})
    BY <1>1 DEF Commit, Flushed
  <1>5. \A i : Found(i)' <=> Found(i) \/ (op = "insert" /\ i = id)
    <2>1. CASE op = "clean"
      BY <1>4, <2>1 DEF Found
    <2>2. CASE op # "clean"
      <3>1. [id |-> id, writer |-> e].id = id
        OBVIOUS
      <3>2. \A r \in table' : r \in table \/ r.id = id
        BY <1>4, <2>2, <3>1 DEF Others
      <3>3. \A r \in table : r.id # id => r \in table'
        BY <1>4, <2>2 DEF Others
      <3>4. [id |-> id, writer |-> e] \in table'
        BY <1>4, <2>2
      <3> QED
        BY <1>1, <2>2, <3>1, <3>2, <3>3, <3>4 DEF Found
    <2> QED
      BY <2>1, <2>2
  <1>6. id \in 1 .. nextId - 1
    BY <1>1 DEF PendingInsertsAreFresh, KnownIdsWereGenerated
  <1>7. RequestsComeFirst'
    BY <1>1, <1>2, <1>3 DEF RequestsComeFirst, Held
  <1>8. WorkFitsCall'
    <2>1. SUFFICES ASSUME NEW f \in Events
                   PROVE  /\ stage'[f] = "notified" => action'[f] = "DELETE"
                          /\ tx'[f].op = "none" <=> stage'[f] \notin {"written", "ready"}
                          /\ tx'[f].op \in {"insert", "update", "clean"} => action'[f] # "DELETE"
                          /\ tx'[f].op \in {"delete", "discard"} => action'[f] = "DELETE"
                          /\ tx'[f].op \in {"update", "clean", "delete"} => tx'[f].id = eventDto'[f]
      BY DEF WorkFitsCall
    <2>2. CASE f = e
      BY <1>2, <2>2
    <2>3. CASE f # e
      BY <1>2, <2>3 DEF WorkFitsCall
    <2> QED
      BY <2>2, <2>3
  <1>9. RowIdsWereGenerated'
    BY <1>2, <1>4, <1>6 DEF RowIdsWereGenerated, Others
  <1>10. KnownIdsWereGenerated'
    BY <1>2, <1>3, <1>6 DEF KnownIdsWereGenerated
  <1>11. PendingInsertsAreFresh'
    <2>1. SUFFICES ASSUME NEW g \in Events, tx'[g].op = "insert"
                   PROVE  /\ tx'[g].id \in 1 .. nextId' - 1
                          /\ ~\E r \in table' : r.id = tx'[g].id
                          /\ \A f \in Events : Knows(f)' => eventDto'[f] # tx'[g].id
                          /\ \A f \in Events \ {g} :
                                 tx'[f].op = "insert" => tx'[f].id # tx'[g].id
      BY DEF PendingInsertsAreFresh, Found
    <2>2. g # e /\ tx'[g] = tx[g]
      BY <1>2, <2>1
    <2>3. tx[g].id # id
      BY <1>1, <2>1, <2>2 DEF PendingInsertsAreFresh
    <2>4. /\ tx[g].id \in 1 .. nextId - 1 /\ ~Found(tx[g].id)
          /\ \A f \in Events : Knows(f) => eventDto[f] # tx[g].id
          /\ \A f \in Events \ {g} : tx[f].op = "insert" => tx[f].id # tx[g].id
      BY <2>1, <2>2 DEF PendingInsertsAreFresh
    <2>5. ~\E r \in table' : r.id = tx'[g].id
      BY <1>5, <2>2, <2>3, <2>4 DEF Found
    <2>6. \A f \in Events : Knows(f)' => eventDto'[f] # tx'[g].id
      BY <1>2, <1>3, <2>2, <2>3, <2>4
    <2>7. \A f \in Events \ {g} : tx'[f].op = "insert" => tx'[f].id # tx'[g].id
      BY <1>2, <2>2, <2>4
    <2> QED
      BY <1>2, <2>2, <2>4, <2>5, <2>6, <2>7
  <1>12. \A f \in Events \ {e} : Held(f) /\ op = "insert" => eventDto[f] # id
    BY DEF PendingInsertsAreFresh, Knows
  <1>13. AbsentRowsStayAbsent'
    BY <1>2, <1>5, <1>12 DEF AbsentRowsStayAbsent, Held
  <1>14. CompletedLeavesNoRow'
    BY <1>2, <1>5, <1>12 DEF CompletedLeavesNoRow, RequestsComeFirst
  <1>15. RowsAccountedFor'
    <2>1. SUFFICES ASSUME NEW r \in table'
                   PROVE  \E f \in Events :
                              Held(f)' /\ eventDto'[f] = r.id /\ stage'[f] # "done"
      BY DEF RowsAccountedFor
    <2>2. CASE r.id = id
      BY <1>2, <1>3, <2>2
    <2>3. CASE r.id # id
      <3>1. r \in table
        BY <1>4, <2>3 DEF Others
      <3>2. PICK f \in Events : Held(f) /\ eventDto[f] = r.id /\ stage[f] # "done"
        BY <3>1 DEF RowsAccountedFor
      <3>3. f # e
        BY <1>1, <2>3, <3>1, <3>2 DEF AbsentRowsStayAbsent, Found
      <3> QED
        BY <1>2, <3>2, <3>3 DEF Held
    <2> QED
      BY <2>2, <2>3
  <1> QED
    BY <1>7, <1>8, <1>9, <1>10, <1>11, <1>13, <1>14, <1>15

\* DELETE removes the row its listener holds, if it is still there, and
\* nothing else; the event is complete and no row has its id.
LEMMA InvCommitDelete ==
    ASSUME IInv, TypeOK', NEW e \in Events, Commit(e), action[e] = "DELETE"
    PROVE  IInv'
  <1> USE DEF IInv, TypeOK, restVars
  <1>1. /\ stage[e] = "ready" /\ Held(e)
        /\ tx[e].op \in {"delete", "discard"}
        /\ tx[e].op = "delete" => tx[e].id = eventDto[e]
    BY DEF Commit, WorkFitsCall, Work, Held
  <1>2. /\ stage'[e] = "done" /\ tx'[e].op = "none"
        /\ \A f \in Events \ {e} : tx'[f] = tx[f] /\ stage'[f] = stage[f]
        /\ UNCHANGED <<action, eventDto, nextId, response, incomingEventQueue>>
    BY DEF Commit, Return, NoWork
  <1>3. \A f \in Events : Held(f)' <=> Held(f)
    BY <1>2 DEF Held
  <1>4. \A f \in Events : Knows(f)' => Knows(f)
    BY <1>2 DEF Held, Knows
  <1>5. table' = Others(eventDto[e])
    BY <1>1 DEF Commit, Flushed, AbsentRowsStayAbsent, Found, Others
  <1>6. \A i : Found(i)' <=> Found(i) /\ i # eventDto[e]
    BY <1>5 DEF Found, Others
  <1>7. RequestsComeFirst'
    BY <1>1, <1>2, <1>3 DEF RequestsComeFirst
  <1>8. WorkFitsCall'
    BY <1>2 DEF WorkFitsCall
  <1>9. RowIdsWereGenerated' /\ KnownIdsWereGenerated'
    BY <1>2, <1>4, <1>5 DEF RowIdsWereGenerated, KnownIdsWereGenerated, Others
  <1>10. PendingInsertsAreFresh'
    <2>1. \A f \in Events : tx'[f].op = "insert" => tx'[f] = tx[f]
      BY <1>2
    <2> QED
      BY <1>2, <1>4, <1>6, <2>1 DEF PendingInsertsAreFresh
  <1>11. AbsentRowsStayAbsent'
    BY <1>2, <1>3, <1>6 DEF AbsentRowsStayAbsent
  <1>12. CompletedLeavesNoRow'
    BY <1>2, <1>6 DEF CompletedLeavesNoRow
  <1>13. RowsAccountedFor'
    <2>1. SUFFICES ASSUME NEW r \in table'
                   PROVE  \E f \in Events :
                              Held(f)' /\ eventDto'[f] = r.id /\ stage'[f] # "done"
      BY DEF RowsAccountedFor
    <2>2. r \in table /\ r.id # eventDto[e]
      BY <1>5 DEF Others
    <2>3. PICK f \in Events : Held(f) /\ eventDto[f] = r.id /\ stage[f] # "done"
      BY <2>2 DEF RowsAccountedFor
    <2> QED
      BY <1>2, <1>3, <2>2, <2>3
  <1> QED
    BY <1>7, <1>8, <1>9, <1>10, <1>11, <1>12, <1>13

LEMMA InvListener ==
    ASSUME IInv, TypeOK', NEW e \in Events, ListenerStep(e)
    PROVE  IInv'
  <1>1. CASE Receive(e) \/ Save(e) \/ Delete(e) \/ Commit(e)
    BY <1>1, InvReceive, InvSave, InvDelete, InvCommitSave, InvCommitDelete
  <1>2. CASE \E n \in Notifiers : SaveProcessedEvent(e, n)
    BY <1>2, InvSend
  <1>3. CASE FlushFails(e) \/ CallFails(e)
    BY <1>3, InvDrop DEF FlushFails, CallFails, Rollback, InCall
  <1>4. CASE HandleError(e) \/ HandleErrorFails(e)
    <2>1. tx[e].op = "none"
      BY <1>4 DEF IInv, WorkFitsCall, HandleError, HandleErrorFails
    <2> QED
      BY <1>4, <2>1, InvDrop DEF HandleError, HandleErrorFails
  <1> QED
    BY <1>1, <1>2, <1>3, <1>4 DEF ListenerStep, CallStep

LEMMA InvInit == Init => IInv
  BY TypeInit
     DEF Init, IInv, RequestsComeFirst, WorkFitsCall, RowIdsWereGenerated,
         KnownIdsWereGenerated, PendingInsertsAreFresh, AbsentRowsStayAbsent,
         CompletedLeavesNoRow, RowsAccountedFor, Held, Knows, Found, NoWork

LEMMA InvNext == IInv /\ [Next]_vars => IInv'
  <1> SUFFICES ASSUME IInv, [Next]_vars
               PROVE  IInv'
    OBVIOUS
  <1>1. TypeOK'
    BY TypeNext DEF IInv
  <1>2. CASE UNCHANGED vars
    BY <1>1, <1>2, InvFrame DEF vars
  <1>3. ASSUME NEW n \in Notifiers, NotifierStep(n)
        PROVE  IInv'
    BY <1>1, <1>3, InvFrame DEF NotifierStep, InformUser, InformUserFails
  <1>4. CASE Next
    BY <1>1, <1>2, <1>3, <1>4, InvUpload, InvListener DEF Next, Idle
  <1> QED
    BY <1>2, <1>4

\* The strengthening that makes the facts below inductive.
THEOREM IInvCorrect == Spec => []IInv
  BY InvInit, InvNext, PTL DEF Spec

\* Every row of the events table has a listener that holds its id and is still
\* to delete it, or that failed: rows are never forgotten or overwritten away
\* from the chain that will remove them, whatever ids the requests carry.
THEOREM RowsAreAccountedFor == Spec => []RowsAccountedFor
  <1>1. IInv => RowsAccountedFor
    BY DEF IInv
  <1> QED
    BY <1>1, IInvCorrect, PTL

\* A completed event's row is gone for good, however many other listeners
\* update or delete the same id at the same time.
THEOREM CompletedEventsLeaveNoRow == Spec => []CompletedLeavesNoRow
  <1>1. IInv => CompletedLeavesNoRow
    BY DEF IInv
  <1> QED
    BY <1>1, IInvCorrect, PTL

\* UPDATE and DELETE only ever work on ids the identity column handed out.
THEOREM HeldIdsAreGenerated == Spec => []HeldIdsWereGenerated
  <1>1. IInv => HeldIdsWereGenerated
    BY DEF IInv, KnownIdsWereGenerated, HeldIdsWereGenerated, Knows
  <1> QED
    BY <1>1, IInvCorrect, PTL

-----------------------------------------------------------------------------
(* Announcements *)

LEMMA RangeOfAppend ==
    ASSUME NEW S, NEW s \in Seq(S), NEW x \in S
    PROVE  Range(Append(s, x)) = Range(s) \cup {x}
<1>1. /\ DOMAIN Append(s, x) = 1 .. Len(s) + 1 /\ DOMAIN s = 1 .. Len(s) /\ Len(s) \in Nat
      /\ \A i \in 1 .. Len(s) + 1 : Append(s, x)[i] = IF i <= Len(s) THEN s[i] ELSE x
  OBVIOUS
<1>2. ASSUME NEW i \in 1 .. Len(s) + 1 PROVE Append(s, x)[i] \in Range(s) \cup {x}
  <2>1. CASE i <= Len(s)
    <3>1. i \in DOMAIN s /\ Append(s, x)[i] = s[i]
      BY <1>1, <2>1
    <3>. QED
      BY <3>1 DEF Range
  <2>2. CASE ~(i <= Len(s))
    BY <1>1, <2>2
  <2>. QED
    BY <2>1, <2>2
<1>3. \A i \in 1 .. Len(s) : i \in DOMAIN Append(s, x) /\ Append(s, x)[i] = s[i]
  BY <1>1
<1>4. Len(s) + 1 \in DOMAIN Append(s, x) /\ Append(s, x)[Len(s) + 1] = x
  BY <1>1
<1>. QED
  BY <1>1, <1>2, <1>3, <1>4 DEF Range

LEMMA RangeOfTail ==
    ASSUME NEW S, NEW s \in Seq(S), s # <<>>
    PROVE  Range(s) = Range(Tail(s)) \cup {Head(s)}
<1>1. /\ DOMAIN s = 1 .. Len(s) /\ Len(s) \in Nat \ {0} /\ Head(s) = s[1]
      /\ DOMAIN Tail(s) = 1 .. Len(s) - 1
      /\ \A i \in 1 .. Len(s) - 1 : Tail(s)[i] = s[i + 1] /\ i + 1 \in 1 .. Len(s)
  OBVIOUS
<1>2. 1 \in DOMAIN s
  BY <1>1
<1>3. \A i \in 2 .. Len(s) : i - 1 \in DOMAIN Tail(s) /\ Tail(s)[i - 1] = s[i]
  BY <1>1
<1>4. \A i \in DOMAIN s : i = 1 \/ i \in 2 .. Len(s)
  BY <1>1
<1>5. ASSUME NEW i \in DOMAIN s PROVE s[i] \in Range(Tail(s)) \cup {Head(s)}
  <2>1. CASE i = 1
    BY <1>1, <2>1
  <2>2. CASE i \in 2 .. Len(s)
    BY <1>3, <2>2 DEF Range
  <2>. QED
    BY <1>4, <2>1, <2>2
<1>6. Head(s) \in Range(s)
  BY <1>1, <1>2 DEF Range
<1>7. ASSUME NEW i \in DOMAIN Tail(s) PROVE Tail(s)[i] \in Range(s)
  BY <1>1 DEF Range
<1>8. Range(s) \subseteq Range(Tail(s)) \cup {Head(s)}
  BY <1>5 DEF Range
<1>9. Range(Tail(s)) \subseteq Range(s)
  BY <1>7 DEF Range
<1>. QED
  BY <1>6, <1>8, <1>9

LEMMA AnnouncedWhere ==
    /\ \A a : a \in Announced <=>
           \/ \E n \in Notifiers : a \in Range(processedEventQueue[n])
           \/ a \in Range(topic) /\ a.action \in Action
    /\ \A a : a \in Announced' <=>
           \/ \E n \in Notifiers : a \in Range(processedEventQueue'[n])
           \/ a \in Range(topic') /\ a.action \in Action
<1>1. ASSUME NEW a
      PROVE  a \in Announced <=>
                 \/ \E n \in Notifiers : a \in Range(processedEventQueue[n])
                 \/ a \in Range(topic) /\ a.action \in Action
  <2>1. a \in UNION {Range(processedEventQueue[n]) : n \in Notifiers} <=>
            \E n \in Notifiers : a \in Range(processedEventQueue[n])
    OBVIOUS
  <2>2. a \in {line \in Range(topic) : line.action \in Action} <=>
            a \in Range(topic) /\ a.action \in Action
    OBVIOUS
  <2>. QED
    BY <2>1, <2>2 DEF Announced
<1>2. ASSUME NEW a
      PROVE  a \in Announced' <=>
                 \/ \E n \in Notifiers : a \in Range(processedEventQueue'[n])
                 \/ a \in Range(topic') /\ a.action \in Action
  <2>1. a \in UNION {Range(processedEventQueue'[n]) : n \in Notifiers} <=>
            \E n \in Notifiers : a \in Range(processedEventQueue'[n])
    OBVIOUS
  <2>2. a \in {line \in Range(topic') : line.action \in Action} <=>
            a \in Range(topic') /\ a.action \in Action
    OBVIOUS
  <2>. QED
    BY <2>1, <2>2 DEF Announced
<1>. QED
  BY <1>1, <1>2

\* Nothing is announced but by a call, and no ERROR line is an announcement.
LEMMA OnlyCallsAnnounce ==
    ASSUME TypeOK, Next, NEW a \in Announced'
    PROVE  \/ a \in Announced
           \/ \E e \in Events, n \in Notifiers :
                  /\ SaveProcessedEvent(e, n)
                  /\ a = [event |-> e, action |-> action[e], id |-> AnnouncedId(e)]
<1>1. /\ processedEventQueue \in [Notifiers -> Seq(EventStatusChange)]
      /\ topic \in Seq(EventStatusChange \cup ErrorLine)
  BY DEF TypeOK
<1>2. ASSUME UNCHANGED <<processedEventQueue, topic>> PROVE a \in Announced
  BY <1>2 DEF Announced
<1>3. ASSUME NEW e \in Events, NEW source \in {"rest", "jms"}, BroadcastError(e, source),
             UNCHANGED processedEventQueue
      PROVE  a \in Announced
  <2> DEFINE line == [event |-> e, action |-> "ERROR", source |-> source]
  <2>1. line \in EventStatusChange \cup ErrorLine /\ line.action \notin Action
    BY DEF ErrorLine, Action
  <2>2. Range(topic') \subseteq Range(topic) \cup {line}
    BY <1>1, <1>3, <2>1, RangeOfAppend DEF BroadcastError
  <2>. QED
    BY <1>3, <2>1, <2>2 DEF Announced
<1>4. ASSUME NEW e \in Events, NEW n \in Notifiers, SaveProcessedEvent(e, n)
      PROVE  \/ a \in Announced
             \/ a = [event |-> e, action |-> action[e], id |-> AnnouncedId(e)]
  <2> DEFINE m == [event |-> e, action |-> action[e], id |-> AnnouncedId(e)]
  <2>1. m \in EventStatusChange
    BY AnnouncementType
  <2>2. /\ processedEventQueue' = [processedEventQueue EXCEPT ![n] = Append(@, m)]
        /\ topic' = topic
    BY <1>4 DEF SaveProcessedEvent
  <2>3. Range(Append(processedEventQueue[n], m)) \subseteq Range(processedEventQueue[n]) \cup {m}
    BY <1>1, <2>1, RangeOfAppend
  <2>4. \A k \in Notifiers :
            Range(processedEventQueue'[k]) \subseteq Range(processedEventQueue[k]) \cup {m}
    BY <1>1, <2>2, <2>3
  <2>. QED
    BY <2>2, <2>4 DEF Announced
<1>5. ASSUME NEW n \in Notifiers, NotifierStep(n)
      PROVE  a \in Announced
  <2>1. /\ processedEventQueue[n] # <<>>
        /\ processedEventQueue' = [processedEventQueue EXCEPT ![n] = Tail(@)]
        /\ topic' = topic \/ topic' = Append(topic, Head(processedEventQueue[n]))
    BY <1>5 DEF NotifierStep, InformUser, InformUserFails, Acknowledge
  <2>2. /\ Head(processedEventQueue[n]) \in Range(processedEventQueue[n])
        /\ Range(Tail(processedEventQueue[n])) \subseteq Range(processedEventQueue[n])
    BY <1>1, <2>1, RangeOfTail
  <2>3. \A k \in Notifiers : Range(processedEventQueue'[k]) \subseteq Range(processedEventQueue[k])
    BY <1>1, <2>1, <2>2
  <2>4. Head(processedEventQueue[n]) \in EventStatusChange
    BY <1>1, <2>1
  <2>5. Range(topic') \subseteq Range(topic) \cup {Head(processedEventQueue[n])}
    <3>1. CASE topic' = topic
      BY <3>1
    <3>2. CASE topic' = Append(topic, Head(processedEventQueue[n]))
      <4>1. Head(processedEventQueue[n]) \in EventStatusChange \cup ErrorLine
        BY <2>4
      <4>. QED
        BY <1>1, <3>2, <4>1, RangeOfAppend
    <3>. QED
      BY <2>1, <3>1, <3>2
  <2>6. CASE \E k \in Notifiers : a \in Range(processedEventQueue'[k])
    BY <2>3, <2>6, AnnouncedWhere
  <2>7. CASE a \in Range(topic') /\ a.action \in Action
    BY <2>2, <2>5, <2>7, AnnouncedWhere
  <2>. QED
    BY <2>6, <2>7, AnnouncedWhere
<1>6. ASSUME NEW e \in Events, UploadStep(e)
      PROVE  a \in Announced
  <2>1. CASE UploadFails(e)
    <3>1. BroadcastError(e, "rest") /\ UNCHANGED processedEventQueue
      BY <2>1 DEF UploadFails
    <3>. QED
      BY <1>3, <3>1
  <2>2. CASE \/ UploadReturns(e) \/ UploadFailsUntold(e)
             \/ \E id \in ClientIds \cup {NoId} : SaveIncomingEvent(e, id)
    BY <1>2, <2>2 DEF SaveIncomingEvent, UploadReturns, UploadFailsUntold
  <2>. QED
    BY <1>6, <2>1, <2>2 DEF UploadStep
<1>7. ASSUME NEW e \in Events, ListenerStep(e)
      PROVE  a \in Announced \/ \E n \in Notifiers : SaveProcessedEvent(e, n)
  <2>1. CASE HandleError(e)
    <3>1. BroadcastError(e, "jms") /\ UNCHANGED processedEventQueue
      BY <2>1 DEF HandleError
    <3>. QED
      BY <1>3, <3>1
  <2>2. CASE Receive(e) \/ Save(e) \/ Delete(e) \/ Commit(e)
    <3>1. UNCHANGED <<processedEventQueue, topic>>
      BY <2>2 DEF Receive, Save, Delete, Commit
    <3>. QED
      BY <1>2, <3>1
  <2>3. CASE FlushFails(e) \/ CallFails(e) \/ HandleErrorFails(e)
    BY <1>2, <2>3 DEF FlushFails, CallFails, Rollback, HandleErrorFails
  <2>. QED
    BY <1>7, <2>1, <2>2, <2>3 DEF ListenerStep, CallStep
<1>. QED
  BY <1>2, <1>4, <1>5, <1>6, <1>7 DEF Next, Idle, vars
=============================================================================
