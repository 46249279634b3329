----------------------------- MODULE OneTimeReset -----------------------------
(* What a password reset link promises, with no clock, claim or table: a      *)
(* link's door opens once and closes once; only requests admitted through an  *)
(* open door write a password, each at most once; and a request is told       *)
(* "yes" only when it wrote and the door is closed for good.                  *)
CONSTANTS Token, Request

VARIABLES
    door,   \* per token: "none", "open", "closed"
    stage,  \* per request: "out", "in", "wrote", "yes", "no"
    tok     \* per request: the token it presents

vars == <<door, stage, tok>>

Init ==
    /\ door = [j \in Token |-> "none"]
    /\ stage = [p \in Request |-> "out"]
    /\ tok \in [Request -> Token]

Open(j) ==
    /\ door[j] = "none"
    /\ door' = [door EXCEPT ![j] = "open"]
    /\ UNCHANGED <<stage, tok>>

Admit(p) ==
    /\ stage[p] = "out"
    /\ door[tok[p]] = "open"
    /\ stage' = [stage EXCEPT ![p] = "in"]
    /\ UNCHANGED <<door, tok>>

Write(p) ==
    /\ stage[p] = "in"
    /\ stage' = [stage EXCEPT ![p] = "wrote"]
    /\ UNCHANGED <<door, tok>>

\* Closing goes with the work of some request, which need not be answered yet.
Close(p) ==
    /\ door[tok[p]] = "open"
    /\ stage[p] \in {"out", "wrote"}
    /\ door' = [door EXCEPT ![tok[p]] = "closed"]
    /\ UNCHANGED tok

Finish(p) ==
    /\ stage[p] \notin {"yes", "no"}
    /\ \/ UNCHANGED door
       \/ Close(p)
    /\ \/ stage' = [stage EXCEPT ![p] = "no"]
       \/ /\ stage[p] = "wrote" /\ door'[tok[p]] = "closed"
          /\ stage' = [stage EXCEPT ![p] = "yes"]
    /\ UNCHANGED tok

Next ==
    \/ \E j \in Token : Open(j)
    \/ \E p \in Request :
          \/ Admit(p) \/ Write(p) \/ Finish(p)
          \/ Close(p) /\ UNCHANGED stage

Spec == Init /\ [][Next]_vars
=============================================================================
