--------------------------- MODULE EventLifecycle ---------------------------
(***************************************************************************)
(* What the application promises about uploaded events, without queues,    *)
(* transactions or ids: an accepted event is worked through INSERT, UPDATE *)
(* and DELETE in that order or fails on the way; each of the three is      *)
(* announced before the next begins; an announcement reaches the users at  *)
(* most once, in any order or not at all; so does the report of a failure. *)
(***************************************************************************)
EXTENDS Naturals, Sequences, Functions

CONSTANT Events

VARIABLES
    phase,      \* how far each event has come
    announced,  \* whether its present action has been announced
    outbox,     \* announcements on their way to the users
    told        \* lines the users have seen, in order

lifecycleVars == <<phase, announced, outbox, told>>

Actions == {"INSERT", "UPDATE", "DELETE"}
Following == [accepted |-> "INSERT", INSERT |-> "UPDATE",
              UPDATE |-> "DELETE", DELETE |-> "completed"]

LifecycleInit ==
    /\ phase = [e \in Events |-> "absent"]
    /\ announced = [e \in Events |-> FALSE]
    /\ outbox = [e \in Events |-> {}]
    /\ told = <<>>

Accept(e) ==
    /\ phase[e] = "absent"
    /\ phase' = [phase EXCEPT ![e] = "accepted"]
    /\ UNCHANGED <<announced, outbox, told>>

\* The next action begins when the present one has been announced.
Advance(e) ==
    /\ phase[e] \in DOMAIN Following
    /\ phase[e] \in Actions => announced[e]
    /\ phase' = [phase EXCEPT ![e] = Following[@]]
    /\ announced' = [announced EXCEPT ![e] = FALSE]
    /\ UNCHANGED <<outbox, told>>

Announce(e) ==
    /\ phase[e] \in Actions
    /\ ~announced[e]
    /\ announced' = [announced EXCEPT ![e] = TRUE]
    /\ outbox' = [outbox EXCEPT ![e] = @ \cup {phase[e]}]
    /\ UNCHANGED <<phase, told>>

Fail(e) ==
    /\ phase[e] \in Actions
    /\ phase' = [phase EXCEPT ![e] = "failed"]
    /\ announced' = [announced EXCEPT ![e] = FALSE]
    /\ UNCHANGED <<outbox, told>>

Line(e, says) == [event |-> e, says |-> says]

TellOnce(e, says) ==
    /\ Line(e, says) \notin Range(told)
    /\ told' = Append(told, Line(e, says))

Tell(e, a) ==
    /\ a \in outbox[e]
    /\ TellOnce(e, a)
    /\ outbox' = [outbox EXCEPT ![e] = @ \ {a}]
    /\ UNCHANGED <<phase, announced>>

Lose(e, a) ==
    /\ a \in outbox[e]
    /\ outbox' = [outbox EXCEPT ![e] = @ \ {a}]
    /\ UNCHANGED <<phase, announced, told>>

Report(e) ==
    /\ phase[e] = "failed"
    /\ TellOnce(e, "failed")
    /\ phase' = [phase EXCEPT ![e] = "over"]
    /\ UNCHANGED <<announced, outbox>>

LoseReport(e) ==
    /\ phase[e] = "failed"
    /\ phase' = [phase EXCEPT ![e] = "over"]
    /\ UNCHANGED <<announced, outbox, told>>

\* An upload may be rejected although the event has been accepted.
Reject(e) ==
    /\ TellOnce(e, "rejected")
    /\ UNCHANGED <<phase, announced, outbox>>

LifecycleNext ==
    \E e \in Events :
        \/ Accept(e) \/ Advance(e) \/ Announce(e) \/ Fail(e)
        \/ \E a \in Actions : Tell(e, a) \/ Lose(e, a)
        \/ Report(e) \/ LoseReport(e) \/ Reject(e)

\* An accepted event gets on, announcements leave the outbox and the report of
\* a failure is attempted.
LifecycleFairness ==
    \A e \in Events :
        /\ WF_lifecycleVars(Advance(e) \/ Announce(e) \/ Fail(e))
        /\ \A a \in Actions : WF_lifecycleVars(Tell(e, a) \/ Lose(e, a))
        /\ WF_lifecycleVars(Report(e) \/ LoseReport(e))

LifecycleSpec == LifecycleInit /\ [][LifecycleNext]_lifecycleVars
FairLifecycleSpec == LifecycleSpec /\ LifecycleFairness
=============================================================================
