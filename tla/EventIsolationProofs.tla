------------------------ MODULE EventIsolationProofs ------------------------
(***************************************************************************)
(* Proofs about EventPipeline when no request carries an id, for any       *)
(* number of requests, consumers, notifiers and failures: chains do not    *)
(* disturb each other, whatever goes wrong has a cause of its own, and ids *)
(* tell the announcements of events apart.                                 *)
(*                                                                         *)
(* The argument: every listener works on a row of its own (IdsAreOwn,      *)
(* RowsAreOwn), so that each save after the INSERT finds it, and finds it  *)
(* unchanged, and each flush hits it (WorkIsOwn).  So a listener fails     *)
(* only by an injected failure, and so it is with everything else that     *)
(* goes wrong (MishapsAreFew).  The ids announced are those of the         *)
(* announcing listener's row (AnnouncementsAreOwn).                        *)
(***************************************************************************)
EXTENDS EventPipelineProofs, FiniteSetTheorems

\* No two listeners hold the same id; before its INSERT has committed a
\* listener holds none.
IdsAreOwn ==
    /\ \A e \in Events : ~Held(e) => eventDto[e] = NoId
    /\ \A e, f \in Events : Held(e) /\ Held(f) /\ e # f => eventDto[e] # eventDto[f]

\* A row's writer is the one listener that holds its id, and the row is there
\* until that listener has deleted it.
RowsAreOwn ==
    /\ \A r \in table : Held(r.writer) /\ eventDto[r.writer] = r.id
    /\ \A e \in Events :
           Held(e) /\ stage[e] # "done" => [id |-> eventDto[e], writer |-> e] \in table

\* INSERT inserts, UPDATE finds its row unchanged, DELETE finds it.
WorkIsOwn ==
    \A e \in Events :
        /\ tx[e].op \notin {"update", "discard"}
        /\ tx[e].op = "insert" => ~Held(e)
        /\ tx[e].op = "clean" => Held(e)

Isolated == IdsAreOwn /\ RowsAreOwn /\ WorkIsOwn

-----------------------------------------------------------------------------
(* Chains are isolated *)

\* The flush of an isolated chain succeeds.
LEMMA IsolatedCanFlush ==
    ASSUME IInv, Isolated, NEW e \in Events, stage[e] = "ready"
    PROVE  CanFlush(e)
<1>. SUFFICES ASSUME tx[e].op = "delete" PROVE Found(tx[e].id)
  BY DEF CanFlush, Isolated, WorkIsOwn
<1>1. Held(e) /\ tx[e].id = eventDto[e]
  BY DEF IInv, WorkFitsCall, Held
<1>2. [id |-> eventDto[e], writer |-> e] \in table
  BY <1>1 DEF Isolated, RowsAreOwn
<1>. QED
  BY <1>1, <1>2 DEF Found

\* A step that leaves ids, actions and rows alone keeps chains isolated when it
\* keeps their work their own.
LEMMA IsolatedFrame ==
    ASSUME Isolated, UNCHANGED <<eventDto, action, table>>, WorkIsOwn',
           \A e \in Events : stage[e] = "done" => stage'[e] = "done"
    PROVE  Isolated'
  BY DEF Isolated, IdsAreOwn, RowsAreOwn, Held

\* What a save or a delete of an isolated chain finds.
LEMMA IsolatedFinds ==
    ASSUME IInv, Isolated, NEW e \in Events, stage[e] \in InCall
    PROVE  /\ Held(e) <=> Found(eventDto[e])
           /\ Held(e) => [id |-> eventDto[e], writer |-> e] \in table
<1>1. Held(e) => [id |-> eventDto[e], writer |-> e] \in table
  BY DEF Isolated, RowsAreOwn, InCall
<1>2. ASSUME ~Held(e) PROVE ~Found(eventDto[e])
  <2>1. eventDto[e] = 0
    BY <1>2 DEF Isolated, IdsAreOwn, NoId
  <2>2. \A r \in table : r.id # 0
    BY DEF IInv, RowIdsWereGenerated, TypeOK
  <2>. QED
    BY <2>1, <2>2 DEF Found
<1>. QED
  BY <1>1, <1>2 DEF Found

\* The steps of a request: without client ids they change no id.
LEMMA UploadIsolated ==
    ASSUME ClientIds = {}, IInv, Isolated, NEW e \in Events, UploadStep(e)
    PROVE  Isolated' /\ UNCHANGED <<eventDto, action, stage, tx, table, nextId>>
<1>1. UNCHANGED <<action, stage, tx, table, nextId>>
  BY DEF UploadStep, SaveIncomingEvent, UploadReturns, UploadFails, UploadFailsUntold,
         chainVars, dbVars
<1>2. UNCHANGED eventDto
  <2>1. CASE SaveIncomingEvent(e, NoId)
    <3>1. eventDto[e] = NoId
      BY <2>1 DEF SaveIncomingEvent, IInv, RequestsComeFirst, Isolated, IdsAreOwn
    <3>. QED
      BY <2>1, <3>1 DEF SaveIncomingEvent, IInv, TypeOK
  <2>2. CASE UploadReturns(e) \/ UploadFails(e) \/ UploadFailsUntold(e)
    BY <2>2 DEF UploadReturns, UploadFails, UploadFailsUntold, chainVars
  <2>. QED
    BY <2>1, <2>2 DEF UploadStep
<1>. QED
  BY <1>1, <1>2, IsolatedFrame DEF Isolated, WorkIsOwn, Held

LEMMA SaveIsolated ==
    ASSUME IInv, Isolated, NEW e \in Events, Save(e) \/ Delete(e)
    PROVE  /\ Isolated'
           /\ tx'[e].op \in {"insert", "clean", "delete"}
           /\ tx'[e].op = "insert" => tx'[e].id = nextId /\ ~Held(e)
           /\ \A f \in Events \ {e} : tx'[f] = tx[f]
<1>1. /\ stage[e] \in InCall /\ UNCHANGED <<eventDto, action, table>>
      /\ \A f \in Events : stage[f] = "done" => stage'[f] = "done"
  BY DEF Save, Delete, InCall, IInv, TypeOK
<1>2. tx \in [Events -> Work]
  BY DEF IInv, TypeOK
<1>3. /\ tx'[e].op \in {"insert", "clean", "delete"}
      /\ tx'[e].op = "insert" => ~Held(e) /\ tx'[e].id = nextId
      /\ tx'[e].op = "clean" => Held(e)
      /\ \A f \in Events \ {e} : tx'[f] = tx[f]
  <2>1. CASE Save(e)
    BY <1>1, <1>2, <2>1, IsolatedFinds DEF Save, Persist, Merge
  <2>2. CASE Delete(e)
    <3>1. Held(e)
      BY <2>2 DEF Delete, IInv, WorkFitsCall, Held
    <3>2. tx' = [tx EXCEPT ![e] = [op |-> "delete", id |-> eventDto[e]]]
      BY <1>1, <2>2, <3>1, IsolatedFinds DEF Delete
    <3>. QED
      BY <1>2, <3>1, <3>2
  <2>. QED
    BY <2>1, <2>2
<1>4. WorkIsOwn'
  BY <1>1, <1>3 DEF Isolated, WorkIsOwn, Held
<1>. QED
  BY <1>1, <1>3, <1>4, IsolatedFrame

LEMMA CommitIsolated ==
    ASSUME IInv, Isolated, NEW e \in Events, Commit(e)
    PROVE  Isolated'
<1>1. /\ eventDto \in [Events -> Nat] /\ action \in [Events -> Action]
      /\ stage \in [Events -> Stage] /\ tx \in [Events -> Work] /\ table \subseteq Row
  BY DEF IInv, TypeOK
<1>2. stage[e] = "ready" /\ table' = Flushed(e) /\ Return(e) /\ tx' = [tx EXCEPT ![e] = NoWork]
  BY DEF Commit
<1>3. WorkIsOwn'
  BY <1>1, <1>2 DEF Isolated, WorkIsOwn, NoWork, Held, Return
<1>4. CASE tx[e].op = "insert"
  <2>1. ~Held(e) /\ action[e] = "INSERT"
    BY <1>4 DEF Isolated, WorkIsOwn, Held
  <2>2. /\ \A r \in table : r.id # tx[e].id
        /\ \A f \in Events : Held(f) => eventDto[f] # tx[e].id
    BY <1>4 DEF IInv, PendingInsertsAreFresh, Found, Knows
  <2>3. table' = table \cup {[id |-> tx[e].id, writer |-> e]}
    BY <1>2, <1>4, <2>2 DEF Flushed, Others
  <2>4. /\ action' = [action EXCEPT ![e] = "UPDATE"]
        /\ stage' = [stage EXCEPT ![e] = "called"]
        /\ eventDto' = [eventDto EXCEPT ![e] = tx[e].id]
    BY <1>2, <2>1 DEF Return
  <2>5. \A f \in Events : Held(f)' <=> f = e \/ Held(f)
    BY <1>1, <2>4 DEF Held
  <2>6. IdsAreOwn'
    BY <1>1, <2>2, <2>4, <2>5 DEF Isolated, IdsAreOwn
  <2>7. RowsAreOwn'
    <3>1. \A r \in table : r.writer # e /\ r.writer \in Events
      BY <1>1, <2>1 DEF Isolated, RowsAreOwn, Row
    <3>2. \A r \in table' : (Held(r.writer) /\ eventDto[r.writer] = r.id)'
      BY <1>1, <2>3, <2>4, <2>5, <3>1 DEF Isolated, RowsAreOwn
    <3>3. \A f \in Events : Held(f)' /\ stage'[f] # "done" =>
              [id |-> eventDto'[f], writer |-> f] \in table'
      BY <1>1, <2>3, <2>4, <2>5 DEF Isolated, RowsAreOwn
    <3>. QED
      BY <3>2, <3>3 DEF RowsAreOwn, Held
  <2>. QED
    BY <1>3, <2>6, <2>7 DEF Isolated
<1>5. CASE tx[e].op = "clean"
  <2>1. action[e] = "UPDATE" /\ Held(e) /\ tx[e].id = eventDto[e]
    BY <1>1, <1>5 DEF Isolated, WorkIsOwn, Held, IInv, WorkFitsCall, Action
  <2>2. table' = table
    BY <1>2, <1>5 DEF Flushed
  <2>3. /\ action' = [action EXCEPT ![e] = "DELETE"]
        /\ stage' = [stage EXCEPT ![e] = "called"] /\ eventDto' = eventDto
    <3>1. /\ action' = [action EXCEPT ![e] = "DELETE"]
          /\ stage' = [stage EXCEPT ![e] = "called"]
          /\ eventDto' = [eventDto EXCEPT ![e] = tx[e].id]
      BY <1>2, <2>1 DEF Return
    <3>. QED
      BY <1>1, <2>1, <3>1
  <2>4. \A f \in Events : Held(f)' <=> Held(f)
    BY <1>1, <2>1, <2>3 DEF Held
  <2>5. \A r \in table : r.writer \in Events
    BY <1>1 DEF Row
  <2>6. stage[e] # "done" /\ \A f \in Events \ {e} : stage'[f] = stage[f]
    BY <1>1, <1>2, <2>3
  <2>. QED
    BY <1>3, <2>1, <2>2, <2>3, <2>4, <2>5, <2>6 DEF Isolated, IdsAreOwn, RowsAreOwn
<1>6. CASE tx[e].op = "delete"
  <2>1. action[e] = "DELETE" /\ Held(e) /\ tx[e].id = eventDto[e]
    BY <1>6 DEF IInv, WorkFitsCall, Held
  <2>2. table' = {r \in table : r.id # eventDto[e]}
    BY <1>2, <1>6, <2>1 DEF Flushed, Others
  <2>3. action' = action /\ eventDto' = eventDto /\ stage' = [stage EXCEPT ![e] = "done"]
    BY <1>2, <2>1 DEF Return
  <2>4. IdsAreOwn' /\ \A f \in Events : Held(f)' <=> Held(f)
    BY <2>3 DEF Isolated, IdsAreOwn, Held
  <2>5. RowsAreOwn'
    <3>1. \A r \in table' : (Held(r.writer) /\ eventDto[r.writer] = r.id)'
      BY <2>2, <2>3 DEF Isolated, RowsAreOwn, Held
    <3>2. \A f \in Events : Held(f)' /\ stage'[f] # "done" =>
              [id |-> eventDto'[f], writer |-> f] \in table'
      BY <1>1, <2>1, <2>2, <2>3, <2>4 DEF Isolated, RowsAreOwn, IdsAreOwn
    <3>. QED
      BY <3>1, <3>2 DEF RowsAreOwn, Held
  <2>. QED
    BY <1>3, <2>4, <2>5 DEF Isolated
<1>7. tx[e].op \in {"insert", "clean", "delete"}
  BY <1>1, <1>2 DEF IInv, WorkFitsCall, Isolated, WorkIsOwn, Work
<1>. QED
  BY <1>4, <1>5, <1>6, <1>7

\* A call that starts, announces or fails.
LEMMA CallIsolated ==
    ASSUME IInv, Isolated, NEW e \in Events,
           Receive(e) \/ (\E n \in Notifiers : SaveProcessedEvent(e, n))
               \/ CallFails(e) \/ HandleError(e) \/ HandleErrorFails(e)
    PROVE  Isolated'
<1>1. /\ UNCHANGED <<eventDto, action, table>>
      /\ tx' = tx \/ tx' = [tx EXCEPT ![e] = NoWork]
  BY DEF Receive, SaveProcessedEvent, CallFails, Rollback, HandleError, HandleErrorFails, dbVars
<1>2. \A f \in Events : stage[f] = "done" => stage'[f] = "done"
  BY DEF Receive, SaveProcessedEvent, CallFails, Rollback, HandleError, HandleErrorFails,
         InCall, IInv, TypeOK, RequestsComeFirst
<1>3. WorkIsOwn'
  <2>1. tx \in [Events -> Work]
    BY DEF IInv, TypeOK
  <2>2. \A f \in Events : tx'[f] = tx[f] \/ tx'[f].op = "none"
    BY <1>1, <2>1 DEF NoWork
  <2>. QED
    BY <1>1, <2>2 DEF Isolated, WorkIsOwn, Held
<1>. QED
  BY <1>1, <1>2, <1>3, IsolatedFrame

LEMMA IsolatedNext ==
    ASSUME ClientIds = {}, IInv, Isolated, [Next]_vars
    PROVE  Isolated'
<1>1. CASE UNCHANGED vars
  BY <1>1 DEF vars, chainVars, dbVars, Isolated, IdsAreOwn, RowsAreOwn, WorkIsOwn, Held
<1>2. CASE \E e \in Events : UploadStep(e)
  BY <1>2, UploadIsolated
<1>3. ASSUME NEW e \in Events, ListenerStep(e) PROVE Isolated'
  <2>1. ~FlushFails(e)
    BY IsolatedCanFlush DEF FlushFails
  <2>. QED
    BY <1>3, <2>1, SaveIsolated, CommitIsolated, CallIsolated DEF ListenerStep, CallStep
<1>4. ASSUME NEW n \in Notifiers, NotifierStep(n) PROVE Isolated'
  <2>1. UNCHANGED <<chainVars, dbVars>>
    BY <1>4 DEF NotifierStep, InformUser, InformUserFails
  <2>. QED
    BY <2>1 DEF chainVars, dbVars, Isolated, IdsAreOwn, RowsAreOwn, WorkIsOwn, Held
<1>. QED
  BY <1>1, <1>2, <1>3, <1>4 DEF Next, Idle

LEMMA IsolatedInit == Init => Isolated
  BY DEF Init, Isolated, IdsAreOwn, RowsAreOwn, WorkIsOwn, Held, NoWork

-----------------------------------------------------------------------------
(* What goes wrong has a cause *)

AllMishaps == UNION {{e} \X Mishaps(e) : e \in Events}

MishapsAreFew == IsFiniteSet(AllMishaps) /\ Cardinality(AllMishaps) <= faults

\* A step that adds at most as many mishaps as failures.
LEMMA MishapsCounted ==
    ASSUME MishapsAreFew, faults \in Nat, faults' \in Nat, NEW x, NEW y,
           \/ AllMishaps' \subseteq AllMishaps /\ faults <= faults'
           \/ AllMishaps' \subseteq AllMishaps \cup {x} /\ faults + 1 <= faults'
           \/ AllMishaps' \subseteq AllMishaps \cup {x, y} /\ faults + 2 <= faults'
    PROVE  MishapsAreFew'
<1>1. PICK S : S = AllMishaps
  OBVIOUS
<1>2. IsFiniteSet(S) /\ Cardinality(S) \in Nat /\ Cardinality(S) <= faults
  BY <1>1, FS_CardinalityType DEF MishapsAreFew
<1>3. /\ IsFiniteSet(S \cup {x}) /\ Cardinality(S \cup {x}) \in Nat
      /\ Cardinality(S \cup {x}) <= faults + 1
  <2>1. /\ IsFiniteSet(S \cup {x})
        /\ \/ Cardinality(S \cup {x}) = Cardinality(S)
           \/ Cardinality(S \cup {x}) = Cardinality(S) + 1
    BY <1>2, FS_AddElement
  <2>. QED
    BY <1>2, <2>1
<1>4. /\ IsFiniteSet((S \cup {x}) \cup {y}) /\ Cardinality((S \cup {x}) \cup {y}) \in Nat
      /\ Cardinality((S \cup {x}) \cup {y}) <= faults + 2
  <2>1. /\ IsFiniteSet((S \cup {x}) \cup {y})
        /\ \/ Cardinality((S \cup {x}) \cup {y}) = Cardinality(S \cup {x})
           \/ Cardinality((S \cup {x}) \cup {y}) = Cardinality(S \cup {x}) + 1
    BY <1>3, FS_AddElement
  <2>. QED
    BY <1>3, <2>1
<1>5. PICK T : /\ AllMishaps' \subseteq T /\ IsFiniteSet(T)
               /\ Cardinality(T) \in Nat /\ Cardinality(T) <= faults'
  <2>1. CASE AllMishaps' \subseteq AllMishaps /\ faults <= faults'
    BY <1>1, <1>2, <2>1
  <2>2. CASE AllMishaps' \subseteq AllMishaps \cup {x} /\ faults + 1 <= faults'
    BY <1>1, <1>3, <2>2
  <2>3. CASE AllMishaps' \subseteq AllMishaps \cup {x, y} /\ faults + 2 <= faults'
    <3>1. AllMishaps' \subseteq (S \cup {x}) \cup {y}
      BY <1>1, <2>3
    <3>. QED
      BY <1>4, <2>3, <3>1
  <2>. QED
    BY <2>1, <2>2, <2>3
<1>6. PICK U : U = AllMishaps'
  OBVIOUS
<1>7. IsFiniteSet(U) /\ Cardinality(U) <= Cardinality(T) /\ Cardinality(U) \in Nat
  BY <1>5, <1>6, FS_Subset, FS_CardinalityType
<1>. QED
  BY <1>5, <1>6, <1>7 DEF MishapsAreFew

LEMMA MishapsAdded ==
    ASSUME NEW D, \A f \in Events : \A w \in Mishaps(f)' : w \in Mishaps(f) \/ <<f, w>> \in D
    PROVE  AllMishaps' \subseteq AllMishaps \cup D
  BY DEF AllMishaps

\* Nothing new goes wrong with f.
LEMMA NoNewMishap ==
    ASSUME NEW f,
           LinesDue(f)' \subseteq LinesDue(f) \cup Outbox(f)' \cup Shown(f)',
           Outbox(f) \cup Shown(f) \subseteq Outbox(f)' \cup Shown(f)',
           response'[f] = "ERROR" => response[f] = "ERROR",
           stage'[f] \in {"failing", "failed"} => stage[f] \in {"failing", "failed"}
    PROVE  Mishaps(f)' \subseteq Mishaps(f)
  BY DEF Mishaps

LEMMA SameLinesDue ==
    ASSUME NEW f, action'[f] = action[f], stage'[f] = stage[f], response'[f] = response[f]
    PROVE  LinesDue(f)' = LinesDue(f)
  BY DEF LinesDue, IsAnnounced

\* What a broadcast shows.
LEMMA BroadcastShows ==
    ASSUME TypeOK, NEW m \in EventStatusChange \cup ErrorLine, topic' = Append(topic, m)
    PROVE  /\ \A f \in Events : Shown(f) \subseteq Shown(f)'
           /\ Told(m) \in Shown(m.event)'
<1>1. topic \in Seq(EventStatusChange \cup ErrorLine)
  BY DEF TypeOK
<1>2. Range(topic') = Range(topic) \cup {m}
  BY <1>1, RangeOfAppend
<1>. QED
  BY <1>2 DEF Shown

LEMMA SameShown ==
    ASSUME UNCHANGED topic
    PROVE  \A f \in Events : Shown(f)' = Shown(f)
  BY DEF Shown

LEMMA SameOutboxes ==
    ASSUME UNCHANGED processedEventQueue
    PROVE  \A f \in Events : Outbox(f)' = Outbox(f)
  BY DEF Outbox

\* Failures or not, a step that adds nothing to what has gone wrong.
LEMMA QuietStep ==
    ASSUME IInv, MishapsAreFew, faults' \in {faults, faults + 1},
           \A f \in Events : Mishaps(f)' \subseteq Mishaps(f)
    PROVE  MishapsAreFew'
<1>1. AllMishaps' \subseteq AllMishaps
  BY DEF AllMishaps
<1>2. faults \in Nat
  BY MaxFaultsAssumption DEF IInv, TypeOK
<1>3. faults' \in Nat /\ faults <= faults'
  BY <1>2
<1>. QED
  BY <1>1, <1>2, <1>3, MishapsCounted

\* A failure that adds one mishap of e.
LEMMA NewMishap ==
    ASSUME IInv, MishapsAreFew, Fault, NEW e \in Events, NEW w,
           Mishaps(e)' \subseteq Mishaps(e) \cup {w},
           \A f \in Events \ {e} : Mishaps(f)' \subseteq Mishaps(f)
    PROVE  MishapsAreFew'
<1>1. \A f \in Events : \A v \in Mishaps(f)' : v \in Mishaps(f) \/ <<f, v>> \in {<<e, w>>}
  OBVIOUS
<1>2. AllMishaps' \subseteq AllMishaps \cup {<<e, w>>}
  BY <1>1, MishapsAdded
<1>3. faults \in Nat /\ faults' = faults + 1
  BY MaxFaultsAssumption DEF Fault, IInv, TypeOK
<1>. QED
  BY <1>2, <1>3, MishapsCounted

\* Nothing goes wrong with an event that a step does not touch.
LEMMA OthersUntouched ==
    ASSUME NEW f, action'[f] = action[f], stage'[f] = stage[f], response'[f] = response[f],
           Outbox(f) \cup Shown(f) \subseteq Outbox(f)' \cup Shown(f)'
    PROVE  Mishaps(f)' \subseteq Mishaps(f)
  BY SameLinesDue, NoNewMishap

LEMMA MishapsUpload ==
    ASSUME IInv, MishapsAreFew, NEW e \in Events, UploadStep(e)
    PROVE  MishapsAreFew'
<1>1. /\ UNCHANGED <<action, stage, processedEventQueue>>
      /\ \A f \in Events \ {e} : response'[f] = response[f]
  BY DEF UploadStep, SaveIncomingEvent, UploadReturns, UploadFails, UploadFailsUntold,
         chainVars, IInv, TypeOK
<1>2. \A f \in Events : Outbox(f)' = Outbox(f) /\ Shown(f) \subseteq Shown(f)'
  <2>1. CASE UploadFails(e)
    <3>1. [event |-> e, action |-> "ERROR", source |-> "rest"]
              \in EventStatusChange \cup ErrorLine
      BY DEF ErrorLine
    <3>. QED
      BY <1>1, <2>1, <3>1, SameOutboxes, BroadcastShows
      DEF UploadFails, BroadcastError, IInv
  <2>2. CASE UNCHANGED topic
    BY <1>1, <2>2, SameOutboxes, SameShown
  <2>. QED
    BY <2>1, <2>2 DEF UploadStep, SaveIncomingEvent, UploadReturns, UploadFailsUntold
<1>3. \A f \in Events \ {e} : Mishaps(f)' \subseteq Mishaps(f)
  BY <1>1, <1>2, OthersUntouched
<1>4. ASSUME response'[e] # "ERROR", UNCHANGED faults PROVE MishapsAreFew'
  <2>1. LinesDue(e)' \subseteq LinesDue(e)
    BY <1>1, <1>4 DEF LinesDue, IsAnnounced
  <2>2. Mishaps(e)' \subseteq Mishaps(e)
    BY <1>1, <1>2, <1>4, <2>1, NoNewMishap
  <2>. QED
    BY <1>3, <1>4, <2>2, QuietStep
<1>5. LinesDue(e)' \subseteq LinesDue(e) \cup {"rejected"}
  BY <1>1 DEF LinesDue, IsAnnounced
<1>6. CASE UploadFails(e)
  <2>1. PICK m : m = [event |-> e, action |-> "ERROR", source |-> "rest"]
    OBVIOUS
  <2>2. m \in EventStatusChange \cup ErrorLine /\ m.event = e /\ Told(m) = "rejected"
    BY <2>1 DEF ErrorLine, Told
  <2>3. topic' = Append(topic, m) /\ Fault
    BY <1>6, <2>1 DEF UploadFails, BroadcastError
  <2>4. "rejected" \in Shown(e)'
    BY <2>2, <2>3, BroadcastShows DEF IInv
  <2>5. Mishaps(e)' \subseteq Mishaps(e) \cup {"upload"}
    BY <1>1, <1>2, <1>5, <2>4 DEF Mishaps
  <2>. QED
    BY <1>3, <2>3, <2>5, NewMishap
<1>7. CASE UploadFailsUntold(e)
  <2>1. Mishaps(e)' \subseteq Mishaps(e) \cup {"upload", "rejected"}
    BY <1>1, <1>2, <1>5 DEF Mishaps
  <2>2. \A f \in Events : \A v \in Mishaps(f)' :
            v \in Mishaps(f) \/ <<f, v>> \in {<<e, "upload">>, <<e, "rejected">>}
    BY <1>3, <2>1
  <2>3. AllMishaps' \subseteq AllMishaps \cup {<<e, "upload">>, <<e, "rejected">>}
    BY <2>2, MishapsAdded
  <2>4. faults \in Nat /\ faults' = faults + 2
    BY <1>7, MaxFaultsAssumption DEF UploadFailsUntold, IInv, TypeOK
  <2>. QED
    BY <2>3, <2>4, MishapsCounted
<1>8. CASE UploadReturns(e) \/ \E id \in ClientIds \cup {NoId} : SaveIncomingEvent(e, id)
  BY <1>4, <1>8 DEF UploadReturns, SaveIncomingEvent, IInv, TypeOK
<1>. QED
  BY <1>6, <1>7, <1>8 DEF UploadStep

\* A new announcement is in an outbox.
LEMMA AnnouncementIsDue ==
    ASSUME IInv, NEW e \in Events, NEW n \in Notifiers, SaveProcessedEvent(e, n)
    PROVE  action[e] \in Outbox(e)' /\ \A f \in Events : Outbox(f) \subseteq Outbox(f)'
<1>1. PICK m : m = [event |-> e, action |-> action[e], id |-> AnnouncedId(e)]
  OBVIOUS
<1>2. /\ m \in EventStatusChange /\ m.event = e /\ m.action = action[e]
      /\ action[e] \in Action
      /\ processedEventQueue \in [Notifiers -> Seq(EventStatusChange)]
      /\ processedEventQueue' = [processedEventQueue EXCEPT ![n] = Append(@, m)]
  BY <1>1, AnnouncementType DEF SaveProcessedEvent, IInv, TypeOK
<1>3. Range(Append(processedEventQueue[n], m)) = Range(processedEventQueue[n]) \cup {m}
  BY <1>2, RangeOfAppend
<1>4. /\ m \in Range(processedEventQueue'[n])
      /\ \A k \in Notifiers : Range(processedEventQueue[k]) \subseteq Range(processedEventQueue'[k])
  BY <1>2, <1>3
<1>. QED
  BY <1>2, <1>4 DEF Outbox

LEMMA MishapsListener ==
    ASSUME ClientIds = {}, IInv, Isolated, MishapsAreFew, NEW e \in Events, ListenerStep(e)
    PROVE  MishapsAreFew'
<1>1. /\ UNCHANGED response
      /\ \A f \in Events \ {e} : stage'[f] = stage[f] /\ action'[f] = action[f]
      /\ stage[e] \in Stage /\ action[e] \in Action
  BY DEF ListenerStep, CallStep, Receive, Save, SaveProcessedEvent, Delete, Commit, Return,
         FlushFails, CallFails, Rollback, HandleError, HandleErrorFails, restVars, IInv, TypeOK
<1>2. \A f \in Events : Outbox(f) \subseteq Outbox(f)' /\ Shown(f) \subseteq Shown(f)'
  <2>1. CASE HandleError(e)
    <3>1. [event |-> e, action |-> "ERROR", source |-> "jms"]
              \in EventStatusChange \cup ErrorLine
      BY DEF ErrorLine
    <3>. QED
      BY <2>1, <3>1, SameOutboxes, BroadcastShows DEF HandleError, BroadcastError, IInv
  <2>2. CASE \E n \in Notifiers : SaveProcessedEvent(e, n)
    BY <2>2, AnnouncementIsDue, SameShown DEF SaveProcessedEvent
  <2>3. CASE UNCHANGED <<processedEventQueue, topic>>
    BY <2>3, SameOutboxes, SameShown
  <2>. QED
    BY <2>1, <2>2, <2>3 DEF ListenerStep, CallStep, Receive, Save, Delete, Commit,
       FlushFails, CallFails, Rollback, HandleErrorFails
<1>3. \A f \in Events \ {e} : Mishaps(f)' \subseteq Mishaps(f)
  BY <1>1, <1>2, OthersUntouched
<1>4. ASSUME UNCHANGED faults, LinesDue(e)' \subseteq LinesDue(e) \cup Outbox(e)' \cup Shown(e)',
             stage'[e] \in {"failing", "failed"} => stage[e] \in {"failing", "failed"}
      PROVE  MishapsAreFew'
  <2>1. Mishaps(e)' \subseteq Mishaps(e)
    BY <1>1, <1>2, <1>4, NoNewMishap
  <2>. QED
    BY <1>3, <1>4, <2>1, QuietStep
<1>5. CASE Receive(e) \/ Save(e) \/ Delete(e)
  <2>1. /\ UNCHANGED <<action, faults>> /\ stage'[e] \notin {"failing", "failed", "done"}
        /\ IsAnnounced(e)' => IsAnnounced(e)
    BY <1>5 DEF Receive, Save, Delete, IsAnnounced, IInv, TypeOK
  <2>2. LinesDue(e)' \subseteq LinesDue(e)
    BY <1>1, <2>1 DEF LinesDue
  <2>. QED
    BY <1>4, <2>1, <2>2
<1>6. ASSUME NEW n \in Notifiers, SaveProcessedEvent(e, n) PROVE MishapsAreFew'
  <2>1. UNCHANGED <<action, faults>> /\ stage'[e] \in {"ready", "notified"}
    BY <1>6 DEF SaveProcessedEvent, IInv, TypeOK
  <2>2. LinesDue(e)' \subseteq LinesDue(e) \cup {action[e]}
    BY <1>1, <2>1 DEF LinesDue
  <2>. QED
    BY <1>4, <1>6, <2>1, <2>2, AnnouncementIsDue
<1>7. CASE Commit(e)
  <2>1. /\ stage[e] = "ready" /\ UNCHANGED faults
        /\ \/ action[e] = "INSERT" /\ action'[e] = "UPDATE" /\ stage'[e] = "called"
           \/ action[e] = "UPDATE" /\ action'[e] = "DELETE" /\ stage'[e] = "called"
           \/ action'[e] = action[e] /\ stage'[e] = "done"
    BY <1>7 DEF Commit, Return, IInv, TypeOK
  <2>2. /\ Rank["INSERT"] = 1 /\ Rank["UPDATE"] = 2 /\ Rank["DELETE"] = 3
        /\ \A a \in Action : a \in {"INSERT", "UPDATE", "DELETE"}
    BY DEF Rank, Action
  <2>3. LinesDue(e)' \subseteq LinesDue(e)
    BY <1>1, <2>1, <2>2 DEF LinesDue, IsAnnounced
  <2>. QED
    BY <1>4, <2>1, <2>3
<1>8. CASE CallFails(e)
  <2>1. /\ stage[e] \in InCall /\ stage'[e] = "failing" /\ UNCHANGED action /\ Fault
    BY <1>8 DEF CallFails, Rollback, IInv, TypeOK
  <2>2. LinesDue(e)' \subseteq LinesDue(e)
    BY <1>1, <2>1 DEF LinesDue, IsAnnounced
  <2>3. Mishaps(e)' \subseteq Mishaps(e) \cup {"chain"}
    BY <1>1, <1>2, <2>2 DEF Mishaps
  <2>. QED
    BY <1>3, <2>1, <2>3, NewMishap
<1>9. CASE HandleError(e)
  <2>1. /\ stage[e] = "failing" /\ stage'[e] = "failed" /\ UNCHANGED <<action, faults>>
    BY <1>9 DEF HandleError, IInv, TypeOK
  <2>2. PICK m : m = [event |-> e, action |-> "ERROR", source |-> "jms"]
    OBVIOUS
  <2>3. m \in EventStatusChange \cup ErrorLine /\ m.event = e /\ Told(m) = "failed"
    BY <2>2 DEF ErrorLine, Told
  <2>4. "failed" \in Shown(e)'
    BY <1>9, <2>2, <2>3, BroadcastShows DEF HandleError, BroadcastError, IInv
  <2>5. LinesDue(e)' \subseteq LinesDue(e) \cup {"failed"}
    BY <1>1, <2>1 DEF LinesDue, IsAnnounced
  <2>. QED
    BY <1>4, <2>1, <2>4, <2>5
<1>10. CASE HandleErrorFails(e)
  <2>1. stage[e] = "failing" /\ stage'[e] = "failed" /\ UNCHANGED action /\ Fault
    BY <1>10 DEF HandleErrorFails, IInv, TypeOK
  <2>2. LinesDue(e)' \subseteq LinesDue(e) \cup {"failed"}
    BY <1>1, <2>1 DEF LinesDue, IsAnnounced
  <2>3. Mishaps(e)' \subseteq Mishaps(e) \cup {"failed"}
    BY <1>1, <1>2, <2>1, <2>2 DEF Mishaps
  <2>. QED
    BY <1>3, <2>1, <2>3, NewMishap
<1>11. ~FlushFails(e)
  BY IsolatedCanFlush DEF FlushFails
<1>. QED
  BY <1>5, <1>6, <1>7, <1>8, <1>9, <1>10, <1>11 DEF ListenerStep, CallStep

LEMMA MishapsNotifier ==
    ASSUME IInv, MishapsAreFew, NEW n \in Notifiers, NotifierStep(n)
    PROVE  MishapsAreFew'
<1>1. PICK q : q = processedEventQueue[n]
  OBVIOUS
<1>2. PICK m : m = Head(q)
  OBVIOUS
<1>3. /\ q \in Seq(EventStatusChange) /\ q # <<>> /\ processedEventQueue'[n] = Tail(q)
      /\ \A k \in Notifiers \ {n} : processedEventQueue'[k] = processedEventQueue[k]
      /\ UNCHANGED <<stage, action, response>>
      /\ m \in EventStatusChange
  BY <1>1, <1>2 DEF NotifierStep, InformUser, InformUserFails, Acknowledge,
                    restVars, chainVars, IInv, TypeOK
<1>4. Range(q) = Range(Tail(q)) \cup {m}
  BY <1>2, <1>3, RangeOfTail
<1>5. /\ m.event \in Events /\ m.action \in Action /\ Told(m) = m.action
  BY <1>3 DEF EventStatusChange, Action, Told
<1>6. \A k \in Notifiers : \A x \in Range(processedEventQueue[k]) :
          x = m \/ x \in Range(processedEventQueue'[k])
  BY <1>1, <1>3, <1>4
<1>7. \A f \in Events : \A a \in Outbox(f) :
          a \in Outbox(f)' \/ (f = m.event /\ a = m.action)
  BY <1>6 DEF Outbox
<1>8. \A f \in Events : LinesDue(f)' = LinesDue(f)
  BY <1>3, SameLinesDue
<1>9. CASE InformUser(n)
  <2>1. topic' = Append(topic, m) /\ UNCHANGED faults
    BY <1>1, <1>2, <1>9 DEF InformUser
  <2>2. /\ \A f \in Events : Shown(f) \subseteq Shown(f)'
        /\ m.action \in Shown(m.event)'
    BY <1>3, <1>5, <2>1, BroadcastShows DEF IInv
  <2>3. \A f \in Events : Outbox(f) \cup Shown(f) \subseteq Outbox(f)' \cup Shown(f)'
    BY <1>7, <2>2
  <2>4. \A f \in Events : Mishaps(f)' \subseteq Mishaps(f)
    BY <1>3, <2>3, OthersUntouched
  <2>. QED
    BY <2>1, <2>4, QuietStep
<1>10. CASE InformUserFails(n)
  <2>1. UNCHANGED topic /\ Fault
    BY <1>10 DEF InformUserFails
  <2>2. \A f \in Events : Shown(f)' = Shown(f)
    BY <2>1, SameShown
  <2>3. \A f \in Events \ {m.event} : Mishaps(f)' \subseteq Mishaps(f)
    <3>1. \A f \in Events \ {m.event} :
              Outbox(f) \cup Shown(f) \subseteq Outbox(f)' \cup Shown(f)'
      BY <1>7, <2>2
    <3>. QED
      BY <1>3, <3>1, OthersUntouched
  <2>4. Mishaps(m.event)' \subseteq Mishaps(m.event) \cup {m.action}
    BY <1>3, <1>5, <1>7, <1>8, <2>2 DEF Mishaps
  <2>. QED
    BY <1>5, <2>1, <2>3, <2>4, NewMishap
<1>. QED
  BY <1>9, <1>10 DEF NotifierStep

LEMMA MishapsNext ==
    ASSUME ClientIds = {}, IInv, Isolated, MishapsAreFew, [Next]_vars
    PROVE  MishapsAreFew'
<1>1. CASE UNCHANGED vars
  <2>1. UNCHANGED <<stage, action, response, processedEventQueue, topic, faults>>
    BY <1>1 DEF vars, restVars, chainVars
  <2>2. \A f \in Events : Mishaps(f)' \subseteq Mishaps(f)
    BY <2>1, SameOutboxes, SameShown, OthersUntouched
  <2>. QED
    BY <2>1, <2>2, QuietStep
<1>. QED
  BY <1>1, MishapsUpload, MishapsListener, MishapsNotifier DEF Next, Idle

LEMMA MishapsInit == Init => MishapsAreFew
<1>. SUFFICES ASSUME Init PROVE MishapsAreFew
  OBVIOUS
<1>1. Rank["INSERT"] = 1 /\ \A a \in Action : ~(Rank[a] < 1)
  BY DEF Rank, Action
<1>2. \A e \in Events : LinesDue(e) = {}
  BY <1>1 DEF Init, LinesDue, IsAnnounced
<1>3. \A e \in Events : Mishaps(e) = {}
  BY <1>2 DEF Init, Mishaps
<1>4. AllMishaps = {} /\ faults = 0
  BY <1>3 DEF AllMishaps, Init
<1>. QED
  BY <1>4, FS_EmptySet DEF MishapsAreFew

\* Without client ids each rejected upload, each failed chain and each line that
\* is missing has a failure of its own, however many chains run at once.
THEOREM MishapsHaveTheirCause ==
    ASSUME ClientIds = {}
    PROVE  Spec => []MishapsHaveACause
<1>1. Init => Isolated /\ MishapsAreFew
  BY IsolatedInit, MishapsInit
<1>2. IInv /\ Isolated /\ MishapsAreFew /\ [Next]_vars => (Isolated /\ MishapsAreFew)'
  BY IsolatedNext, MishapsNext
<1>3. MishapsAreFew => MishapsHaveACause
  BY DEF MishapsAreFew, AllMishaps, MishapsHaveACause
<1>. QED
  BY <1>1, <1>2, <1>3, IInvCorrect, PTL DEF Spec

\* Each failed chain is a mishap of its own event.
LEMMA FailuresAreMishaps == IInv /\ MishapsAreFew => FailuresHaveACause
<1>. SUFFICES ASSUME IInv, MishapsAreFew PROVE FailuresHaveACause
  OBVIOUS
<1>1. PICK F : F = {e \in Events : stage[e] \in {"failing", "failed"}}
  OBVIOUS
<1>2. PICK g : g = [e \in F |-> <<e, "chain">>]
  OBVIOUS
<1>3. \A e \in F : <<e, "chain">> \in AllMishaps
  <2>1. ASSUME NEW e \in F PROVE e \in Events /\ "chain" \in Mishaps(e)
    BY <1>1, <2>1 DEF Mishaps
  <2>. QED
    BY <2>1 DEF AllMishaps
<1>4. g \in Injection(F, AllMishaps)
  BY <1>2, <1>3 DEF Injection, IsInjective
<1>5. IsFiniteSet(AllMishaps)
  BY DEF MishapsAreFew
<1>6. Cardinality(F) <= Cardinality(AllMishaps) /\ IsFiniteSet(F)
  BY <1>4, <1>5, FS_Injection
<1>7. Cardinality(F) \in Nat /\ Cardinality(AllMishaps) \in Nat
  BY <1>5, <1>6, FS_CardinalityType
<1>8. faults \in Nat
  BY MaxFaultsAssumption DEF IInv, TypeOK
<1>. QED
  BY <1>8,  <1>1, <1>6, <1>7 DEF MishapsAreFew, FailuresHaveACause

\* Without client ids no chain's flush fails because of another chain: at most
\* as many chains fail as calls have failed, however many run at once.
THEOREM ChainsDoNotClash ==
    ASSUME ClientIds = {}
    PROVE  Spec => []FailuresHaveACause
<1>1. Init => Isolated /\ MishapsAreFew
  BY IsolatedInit, MishapsInit
<1>2. IInv /\ Isolated /\ MishapsAreFew /\ [Next]_vars => (Isolated /\ MishapsAreFew)'
  BY IsolatedNext, MishapsNext
<1>. QED
  BY <1>1, <1>2, FailuresAreMishaps, IInvCorrect, PTL DEF Spec

-----------------------------------------------------------------------------
(* Announcements identify events *)

\* The id announced is the one the announcing listener holds or, while its
\* INSERT is uncommitted, the one that INSERT will give it; no other listener
\* holds it or is about to.
Own(a) ==
    /\ a.event \in Events /\ a.id \in 1 .. nextId - 1
    /\ Held(a.event) => a.id = eventDto[a.event]
    /\ ~Held(a.event) =>
           \/ stage[a.event] = "ready" /\ a.id = tx[a.event].id
           \/ stage[a.event] \in {"failing", "failed"}
    /\ \A f \in Events \ {a.event} :
           /\ Held(f) => a.id # eventDto[f]
           /\ tx[f].op = "insert" => a.id # tx[f].id

AnnouncementsAreOwn ==
    /\ \A a \in Announced : Own(a)
    /\ AnnouncementsIdentifyEvents

\* A step that leaves a's call where it is, and gives no other listener its id.
LEMMA OwnFrame ==
    ASSUME NEW a, Own(a), nextId \in Nat, nextId' \in Nat, nextId <= nextId',
           UNCHANGED <<eventDto, action>>,
           \/ stage'[a.event] = stage[a.event] /\ tx'[a.event] = tx[a.event]
           \/ stage'[a.event] \in {"failing", "failed"}
           \/ Held(a.event),
           \A f \in Events : tx'[f].op = "insert" =>
               tx'[f] = tx[f] \/ tx'[f].id = nextId
    PROVE  Own(a)'
<1>1. a.id \in 1 .. nextId' - 1 /\ a.id # nextId
  BY DEF Own
<1>2. (~Held(a.event))' =>
          \/ stage'[a.event] = "ready" /\ a.id = tx'[a.event].id
          \/ stage'[a.event] \in {"failing", "failed"}
  BY DEF Own, Held
<1>3. ASSUME NEW f \in Events \ {a.event}, tx'[f].op = "insert" PROVE a.id # tx'[f].id
  BY <1>1, <1>3 DEF Own
<1>. QED
  BY <1>1, <1>2, <1>3 DEF Own, Held

LEMMA OwnUpload ==
    ASSUME ClientIds = {}, IInv, Isolated, NEW a, Own(a), NEW e \in Events, UploadStep(e)
    PROVE  Own(a)'
<1>1. UNCHANGED <<eventDto, action, stage, tx, nextId>>
  BY UploadIsolated
<1>. QED
  BY <1>1 DEF Own, Held

LEMMA OwnSave ==
    ASSUME IInv, Isolated, NEW a, Own(a), NEW e \in Events, Save(e) \/ Delete(e)
    PROVE  Own(a)'
<1>1. /\ UNCHANGED <<eventDto, action>>
      /\ stage[e] \in {"called", "notified"}
      /\ \A f \in Events \ {e} : stage'[f] = stage[f]
  BY DEF Save, Delete, IInv, TypeOK
<1>2. nextId \in Nat /\ nextId' \in {nextId, nextId + 1}
  BY DEF Save, Delete, Persist, IInv, TypeOK
<1>3. /\ \A f \in Events \ {e} : tx'[f] = tx[f]
      /\ tx'[e].op = "insert" => tx'[e].id = nextId
  BY SaveIsolated
<1>4. a.event = e => Held(e)
  BY <1>1 DEF Own
<1>. QED
  BY <1>1, <1>2, <1>3, <1>4, OwnFrame DEF Own

LEMMA OwnCommit ==
    ASSUME IInv, Isolated, NEW a, Own(a), NEW e \in Events, Commit(e)
    PROVE  Own(a)'
<1>1. /\ eventDto \in [Events -> Nat] /\ action \in [Events -> Action]
      /\ stage \in [Events -> Stage] /\ tx \in [Events -> Work] /\ nextId' = nextId
  BY DEF IInv, TypeOK, Commit
<1>2. stage[e] = "ready" /\ Return(e) /\ tx' = [tx EXCEPT ![e] = NoWork]
  BY DEF Commit
<1>3. tx[e].op \in {"insert", "clean", "delete"}
  BY <1>1, <1>2 DEF IInv, WorkFitsCall, Isolated, WorkIsOwn, Work
<1>4. \/ /\ ~Held(e) /\ tx[e].op = "insert"
         /\ action' = [action EXCEPT ![e] = "UPDATE"]
         /\ eventDto' = [eventDto EXCEPT ![e] = tx[e].id]
      \/ Held(e) /\ Held(e)' /\ eventDto' = eventDto
  BY <1>1, <1>2, <1>3 DEF IInv, WorkFitsCall, Isolated, WorkIsOwn, Held, Return, Action
<1>5. \A f \in Events \ {e} : /\ tx'[f] = tx[f] /\ stage'[f] = stage[f]
                              /\ (Held(f)' <=> Held(f)) /\ eventDto'[f] = eventDto[f]
  BY <1>1, <1>2 DEF Return, Held
<1>6. tx'[e].op = "none" /\ Held(e)'
  BY <1>1, <1>2, <1>4 DEF NoWork, Held
<1>7. CASE a.event = e
  <2>1. a.id = eventDto'[e]
    BY <1>1, <1>2, <1>4, <1>7 DEF Own
  <2>. QED
    BY <1>1, <1>5, <1>6, <1>7, <2>1 DEF Own, Held
<1>8. CASE a.event # e
  <2>1. a.id # eventDto'[e]
    BY <1>1, <1>4, <1>8 DEF Own
  <2>. QED
    BY <1>1, <1>5, <1>6, <1>8, <2>1 DEF Own, Held
<1>. QED
  BY <1>7, <1>8

LEMMA OwnCall ==
    ASSUME IInv, Isolated, NEW a, Own(a), NEW e \in Events,
           Receive(e) \/ (\E n \in Notifiers : SaveProcessedEvent(e, n))
               \/ CallFails(e) \/ HandleError(e) \/ HandleErrorFails(e)
    PROVE  Own(a)'
<1>1. UNCHANGED <<eventDto, action, nextId>> /\ nextId \in Nat
  BY DEF Receive, SaveProcessedEvent, CallFails, Rollback, HandleError, HandleErrorFails,
         dbVars, IInv, TypeOK
<1>2. /\ \A f \in Events \ {e} : stage'[f] = stage[f] /\ tx'[f] = tx[f]
      /\ tx'[e] = tx[e] \/ tx'[e].op = "none"
  BY DEF Receive, SaveProcessedEvent, CallFails, Rollback, HandleError, HandleErrorFails,
         NoWork, IInv, TypeOK
<1>3. stage'[e] \in {"failing", "failed"} \/ stage[e] \in {"idle", "called", "written"}
  BY DEF Receive, SaveProcessedEvent, CallFails, Rollback, HandleError, HandleErrorFails,
         IInv, TypeOK, RequestsComeFirst
<1>4. a.event = e => stage'[e] \in {"failing", "failed"} \/ Held(e)
  BY <1>3 DEF Own
<1>. QED
  BY <1>1, <1>2, <1>4, OwnFrame DEF Own

\* A new announcement: no earlier one of another event has its id.
LEMMA OwnAnnounced ==
    ASSUME IInv, Isolated, AnnouncementsAreOwn, NEW e \in Events, NEW n \in Notifiers,
           SaveProcessedEvent(e, n),
           NEW m, m = [event |-> e, action |-> action[e], id |-> AnnouncedId(e)]
    PROVE  Own(m)' /\ \A b \in Announced : b.event = e <=> b.id = m.id
<1>1. /\ UNCHANGED <<eventDto, action, tx, nextId>> /\ m.event = e /\ m.id = AnnouncedId(e)
      /\ stage \in [Events -> Stage] /\ action \in [Events -> Action] /\ tx \in [Events -> Work]
  BY DEF SaveProcessedEvent, dbVars, IInv, TypeOK
<1>2. CASE action[e] = "INSERT"
  <2>1. stage[e] = "written" /\ stage'[e] = "ready"
    BY <1>1, <1>2 DEF SaveProcessedEvent
  <2>2. tx[e].op = "insert" /\ ~Held(e) /\ m.id = tx[e].id
    BY <1>1, <1>2, <2>1 DEF IInv, WorkFitsCall, Isolated, WorkIsOwn, Work, Held, AnnouncedId
  <2>3. /\ m.id \in 1 .. nextId - 1
        /\ \A f \in Events : Held(f) => eventDto[f] # m.id
        /\ \A f \in Events \ {e} : tx[f].op = "insert" => tx[f].id # m.id
    BY <2>2 DEF IInv, PendingInsertsAreFresh, Knows
  <2>4. Own(m)'
    BY <1>1, <2>1, <2>2, <2>3 DEF Own, Held
  <2>5. \A b \in Announced : b.event # e /\ b.id # m.id
    BY <2>1, <2>2 DEF AnnouncementsAreOwn, Own
  <2>. QED
    BY <2>4, <2>5
<1>3. CASE action[e] # "INSERT"
  <2>1. Held(e) /\ m.id = eventDto[e]
    BY <1>1, <1>3 DEF Held, AnnouncedId
  <2>2. m.id \in 1 .. nextId - 1
    BY <2>1 DEF IInv, KnownIdsWereGenerated, Knows
  <2>3. \A f \in Events \ {e} : /\ Held(f) => m.id # eventDto[f]
                                /\ tx[f].op = "insert" => m.id # tx[f].id
    BY <2>1 DEF Isolated, IdsAreOwn, IInv, PendingInsertsAreFresh, Knows
  <2>4. Own(m)'
    BY <1>1, <2>1, <2>2, <2>3 DEF Own, Held
  <2>5. \A b \in Announced : b.event = e <=> b.id = m.id
    BY <2>1 DEF AnnouncementsAreOwn, Own
  <2>. QED
    BY <2>4, <2>5
<1>. QED
  BY <1>2, <1>3

LEMMA OwnNext ==
    ASSUME ClientIds = {}, IInv, Isolated, NEW a, Own(a), Next
    PROVE  Own(a)'
<1>1. CASE \E e \in Events : UploadStep(e)
  BY <1>1, OwnUpload
<1>2. ASSUME NEW e \in Events, ListenerStep(e) PROVE Own(a)'
  <2>1. ~FlushFails(e)
    BY IsolatedCanFlush DEF FlushFails
  <2>. QED
    BY <1>2, <2>1, OwnSave, OwnCommit, OwnCall DEF ListenerStep, CallStep
<1>3. ASSUME NEW n \in Notifiers, NotifierStep(n) PROVE Own(a)'
  <2>1. UNCHANGED <<chainVars, dbVars>>
    BY <1>3 DEF NotifierStep, InformUser, InformUserFails
  <2>. QED
    BY <2>1 DEF chainVars, dbVars, Own, Held
<1>4. CASE Idle
  BY <1>4 DEF Idle, vars, chainVars, dbVars, Own, Held
<1>. QED
  BY <1>1, <1>2, <1>3, <1>4 DEF Next

LEMMA AnnouncementsNext ==
    ASSUME ClientIds = {}, IInv, Isolated, AnnouncementsAreOwn, [Next]_vars
    PROVE  AnnouncementsAreOwn'
<1>1. CASE UNCHANGED vars
  BY <1>1 DEF vars, chainVars, dbVars, AnnouncementsAreOwn, AnnouncementsIdentifyEvents,
              Announced, Own, Held
<1>2. CASE Next
  <2>1. ASSUME NEW a \in Announced' PROVE Own(a)'
    <3>1. CASE a \in Announced
      BY <1>2, <3>1, OwnNext DEF AnnouncementsAreOwn
    <3>2. CASE a \notin Announced
      BY <1>2, <3>2, OnlyCallsAnnounce, OwnAnnounced DEF IInv
    <3>. QED
      BY <3>1, <3>2
  <2>2. ASSUME NEW a \in Announced', NEW b \in Announced'
        PROVE  a.event = b.event <=> a.id = b.id
    <3>1. CASE a \in Announced /\ b \in Announced
      BY <3>1 DEF AnnouncementsAreOwn, AnnouncementsIdentifyEvents
    <3>2. ASSUME NEW c \in Announced', c \notin Announced, NEW d \in Announced
          PROVE  c.event = d.event <=> c.id = d.id
      BY <1>2, <3>2, OnlyCallsAnnounce, OwnAnnounced DEF IInv
    <3>3. CASE a \notin Announced /\ b \notin Announced
      <4>1. PICK e \in Events, n \in Notifiers :
                /\ SaveProcessedEvent(e, n)
                /\ a = [event |-> e, action |-> action[e], id |-> AnnouncedId(e)]
        BY <1>2, <3>3, OnlyCallsAnnounce DEF IInv
      <4>2. PICK f \in Events, k \in Notifiers :
                /\ SaveProcessedEvent(f, k)
                /\ b = [event |-> f, action |-> action[f], id |-> AnnouncedId(f)]
        BY <1>2, <3>3, OnlyCallsAnnounce DEF IInv
      <4>3. e = f
        BY <4>1, <4>2 DEF SaveProcessedEvent, IInv, TypeOK
      <4>. QED
        BY <4>1, <4>2, <4>3
    <3>. QED
      BY <3>1, <3>2, <3>3
  <2>. QED
    BY <2>1, <2>2 DEF AnnouncementsAreOwn, AnnouncementsIdentifyEvents
<1>. QED
  BY <1>1, <1>2

LEMMA AnnouncementsInit == Init => AnnouncementsAreOwn
<1>. SUFFICES ASSUME Init PROVE AnnouncementsAreOwn
  OBVIOUS
<1>1. \A a : a \notin Range(<<>>)
  BY DEF Range
<1>2. Announced = {}
  BY <1>1, AnnouncedWhere DEF Init
<1>. QED
  BY <1>2 DEF AnnouncementsAreOwn, AnnouncementsIdentifyEvents

\* Without client ids the users can tell the announcements of events apart by
\* the id alone, however many chains run, fail or are announced out of order.
THEOREM IdsIdentifyEvents ==
    ASSUME ClientIds = {}
    PROVE  Spec => []AnnouncementsIdentifyEvents
<1>1. Init => Isolated /\ AnnouncementsAreOwn
  BY IsolatedInit, AnnouncementsInit
<1>2. IInv /\ Isolated /\ AnnouncementsAreOwn /\ [Next]_vars
          => (Isolated /\ AnnouncementsAreOwn)'
  BY IsolatedNext, AnnouncementsNext
<1>3. AnnouncementsAreOwn => AnnouncementsIdentifyEvents
  BY DEF AnnouncementsAreOwn
<1>. QED
  BY <1>1, <1>2, <1>3, IInvCorrect, PTL DEF Spec
=============================================================================
