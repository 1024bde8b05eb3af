----------------------------- MODULE TopicFeed -----------------------------
(***************************************************************************)
(* What a monitor page is promised of the topic /server/list: from the     *)
(* moment its session is attached, each line published is shown to it      *)
(* once, in any order; what was published before is never shown.  A page   *)
(* that has joined gets attached and then gets its lines, unless it        *)
(* leaves.  Frames, subscription ids and executor threads do not show.     *)
(***************************************************************************)
EXTENDS Naturals, Sequences, Functions

CONSTANTS Sessions, Lines

VARIABLES
    published,  \* lines published so far, in order
    state,      \* of each session
    pending,    \* lines a session has still to be shown
    shown       \* lines it has been shown, in order

feedVars == <<published, state, pending, shown>>

FeedInit ==
    /\ published = <<>>
    /\ state = [s \in Sessions |-> "absent"]
    /\ pending = [s \in Sessions |-> {}]
    /\ shown = [s \in Sessions |-> <<>>]

Join(s) ==
    /\ state[s] = "absent"
    /\ state' = [state EXCEPT ![s] = "joining"]
    /\ UNCHANGED <<published, pending, shown>>

Attach(s) ==
    /\ state[s] = "joining"
    /\ state' = [state EXCEPT ![s] = "attached"]
    /\ UNCHANGED <<published, pending, shown>>

Leave(s) ==
    /\ state[s] \in {"joining", "attached"}
    /\ state' = [state EXCEPT ![s] = "left"]
    /\ pending' = [pending EXCEPT ![s] = {}]
    /\ UNCHANGED <<published, shown>>

PublishLine(l) ==
    /\ l \notin Range(published)
    /\ published' = Append(published, l)
    /\ pending' = [s \in Sessions |->
          IF state[s] = "attached" THEN pending[s] \cup {l} ELSE pending[s]]
    /\ UNCHANGED <<state, shown>>

ShowLine(s, l) ==
    /\ l \in pending[s]
    /\ pending' = [pending EXCEPT ![s] = @ \ {l}]
    /\ shown' = [shown EXCEPT ![s] = Append(@, l)]
    /\ UNCHANGED <<published, state>>

FeedNext ==
    \/ \E l \in Lines : PublishLine(l)
    \/ \E s \in Sessions : Join(s) \/ Attach(s) \/ Leave(s) \/ \E l \in Lines : ShowLine(s, l)

FeedFairness ==
    \A s \in Sessions : WF_feedVars(Attach(s) \/ \E l \in Lines : ShowLine(s, l))

FeedSpec == FeedInit /\ [][FeedNext]_feedVars
FairFeedSpec == FeedSpec /\ FeedFairness
=============================================================================
