----------------------------- MODULE OneTimeToken -----------------------------
(* What an invitation or registration link promises, with no table, no stamps  *)
(* and no clock but the fact that a token's time is over.  A token is opened    *)
(* once and ends once: redeemed by one request that had seen it open and then    *)
(* found it in time, or lapsed after its time; a redeemer need not be in time    *)
(* any more when it redeems, only when it looked last.  Nobody comes with a token before it is on record   *)
(* and its owner stands ready; callers are told only what is so.                 *)
CONSTANTS Token, Request

VARIABLES
    register,   \* per token: "none", "open", "spent", "lapsed"
    late,       \* tokens whose time is over
    ready,      \* tokens whose owner is there to be let in
    stage,      \* per request: "out", "in", "saw", "timed", "won", or its answer:
                \* "yes", "valid", "late", "no"
    ask         \* per request: its token, and whether it would redeem it

vars == <<register, late, ready, stage, ask>>

Init ==
    /\ register = [j \in Token |-> "none"]
    /\ late = {} /\ ready = {}
    /\ stage = [p \in Request |-> "out"]
    /\ ask \in [Request -> [token : Token, redeem : BOOLEAN]]

\* A token may be late already when it is put on record.
Open(j) ==
    /\ register[j] = "none"
    /\ register' = [register EXCEPT ![j] = "open"]
    /\ late' \in {late, late \cup {j}}
    /\ UNCHANGED <<ready, stage, ask>>

Prepare(j) ==
    /\ ready' = ready \cup {j}
    /\ UNCHANGED <<register, late, stage, ask>>

Pass ==
    /\ \E over \in SUBSET {j \in Token : register[j] # "none"} : late' = late \cup over
    /\ UNCHANGED <<register, ready, stage, ask>>

Goes(p, to) == stage' = [stage EXCEPT ![p] = to]

\* Links are handed out for tokens on record, once the owner is ready.
Enter(p) ==
    /\ stage[p] = "out"
    /\ register[ask[p].token] # "none" /\ ask[p].token \in ready
    /\ Goes(p, "in")
    /\ UNCHANGED <<register, late, ready, ask>>

See(p) ==
    /\ stage[p] = "in" /\ register[ask[p].token] = "open"
    /\ Goes(p, "saw")
    /\ UNCHANGED <<register, late, ready, ask>>

\* The last look at the time before a redemption.
FindInTime(p) ==
    /\ stage[p] = "saw" /\ ask[p].redeem /\ ask[p].token \notin late
    /\ Goes(p, "timed")
    /\ UNCHANGED <<register, late, ready, ask>>

\* A redemption may come to nothing, as when somebody else has ended the token.
Miss(p) ==
    /\ stage[p] = "timed"
    /\ Goes(p, "saw")
    /\ UNCHANGED <<register, late, ready, ask>>

\* Who redeems a token need not learn of it.
Redeem(p) ==
    LET j == ask[p].token IN
    /\ stage[p] = "timed" /\ register[j] = "open"
    /\ register' = [register EXCEPT ![j] = "spent"]
    /\ Goes(p, "won") \/ Goes(p, "no")
    /\ UNCHANGED <<late, ready, ask>>

Lapse(p) ==
    LET j == ask[p].token IN
    /\ stage[p] = "saw"
    /\ register[j] = "open" /\ j \in late
    /\ register' = [register EXCEPT ![j] = "lapsed"]
    /\ Goes(p, "late")
    /\ UNCHANGED <<late, ready, ask>>

Tell(p) ==
    /\ \/ stage[p] = "saw" /\ ~ask[p].redeem /\ Goes(p, "valid")
       \/ stage[p] = "won" /\ Goes(p, "yes")
       \/ stage[p] \in {"in", "saw"} /\ ask[p].token \in late /\ Goes(p, "late")
       \/ stage[p] \in {"out", "in", "saw", "timed", "won"} /\ Goes(p, "no")
    /\ UNCHANGED <<register, late, ready, ask>>

Next ==
    \/ \E j \in Token : Open(j) \/ Prepare(j)
    \/ Pass
    \/ \E p \in Request : \/ Enter(p) \/ See(p) \/ Lapse(p) \/ Tell(p)
                         \/ FindInTime(p) \/ Redeem(p) \/ Miss(p)

Spec == Init /\ [][Next]_vars
=============================================================================
