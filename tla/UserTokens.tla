------------------------------ MODULE UserTokens ------------------------------
(* Onboarding tokens.  An invitation or a self-registration creates a pending *)
(* user, records a token and attaches its metadata to the user                 *)
(* (command/invite.go, command/registration_request.go); the link is then      *)
(* validated or consumed (command/token_validation.go) against the token table *)
(* (tokens/bun_repository.go).  Steps interleave between database statements   *)
(* and clock readings.  Time is a natural number; 0 is the zero time.          *)
EXTENDS Naturals, FiniteSets

CONSTANTS
    Token,      \* jti values, one per onboarding
    Request,    \* validate and consume requests, each executed once
    TokenTTL,   \* lifetime of a token
    MaxTime,    \* bound on the clock
    Faults      \* which of "error", "lost_reply", "crash" may happen

ASSUME TokenTimeAssumption == TokenTTL \in Nat \ {0} /\ MaxTime \in Nat \ {0}
ASSUME TokenFaultAssumption == Faults \subseteq {"error", "lost_reply", "crash"}

VARIABLES
    clock,
    onboard,    \* per token: progress of the command that issues it
    users,      \* per token: the user the command created
    tokens,     \* the user token table
    pc, seen, usedAt, answer,   \* per request: its place and its locals
    readAt,     \* per request: the repository's reading of the clock
    job,        \* per request: link presented, type asked for, what to do
    logged      \* per token: requests that logged its consumption

issueVars == <<onboard, users>>
localVars == <<pc, seen, usedAt, readAt, answer, job>>
vars == <<clock, onboard, users, tokens, pc, seen, usedAt, readAt, answer, job, logged>>

-----------------------------------------------------------------------------
(* Records and their tests *)

Types == {"invite", "registration"}
Jobs == [tok : Token, type : Types, mode : {"validate", "consume"}]
TokenRecord == [status : {"absent", "issued", "used", "expired"},
                type : Types, expiresAt : Nat, usedAt : Nat]
Absent == [status |-> "absent", type |-> "invite", expiresAt |-> 0, usedAt |-> 0]

\* GetTokenByJTI selects on the jti and on the type the caller names.
Lookup(j, type) ==
    IF tokens[j].status # "absent" /\ tokens[j].type = type THEN tokens[j] ELSE Absent

\* Bug: the statement does not ask for the issued status.
UpdatableUnused(rec, status, now) ==
    rec.status # "absent" /\ (status = "used" => rec.expiresAt > now)

\* Bug: the expiry is not part of the statement, only of the validation.
UpdatableIssued(rec, status, now) == rec.status = "issued" /\ rec.usedAt = 0

\* The WHERE clause of UpdateTokenStatus, at the time the repository read.
Updatable(rec, status, now) ==
    /\ rec.status = "issued" /\ rec.usedAt = 0
    /\ status = "used" => rec.expiresAt > now

\* What loadUsableToken answers; "late" makes it expire the token first.
Verdict(rec, now) ==
    IF rec.status = "absent" THEN "not_found"
    ELSE IF rec.status = "used" \/ rec.usedAt # 0 THEN "already_used"
    ELSE IF rec.status = "expired" THEN "expired"
    ELSE IF now > rec.expiresAt THEN "late"
    ELSE "usable"

\* What userTokenConflictError answers after a consume matched no row.
ConflictVerdict(rec, at) ==
    IF rec.status = "absent" THEN "not_found"
    ELSE IF at > rec.expiresAt \/ rec.status = "expired" THEN "expired"
    ELSE "already_used"

-----------------------------------------------------------------------------
Init ==
    /\ clock = 1
    /\ onboard = [j \in Token |-> [stage |-> "none", expiresAt |-> 0, type |-> "invite"]]
    /\ users = [j \in Token |-> [exists |-> FALSE, metadata |-> FALSE]]
    /\ tokens = [j \in Token |-> Absent]
    /\ job \in [Request -> Jobs]
    /\ pc = [p \in Request |-> "idle"]
    /\ seen = [p \in Request |-> Absent]
    /\ usedAt = [p \in Request |-> 0]
    /\ readAt = [p \in Request |-> 0]
    /\ answer = [p \in Request |-> "none"]
    /\ logged = [j \in Token |-> {}]

-----------------------------------------------------------------------------
(* Issuing: user, link, token, metadata -- in this order, nothing undone *)

Stage(j, s) == onboard' = [onboard EXCEPT ![j].stage = s]

CreateUser(j) ==
    /\ onboard[j].stage = "none"
    /\ \E type \in Types :
          onboard' = [onboard EXCEPT ![j].stage = "created", ![j].type = type]
    /\ users' = [users EXCEPT ![j].exists = TRUE]
    /\ UNCHANGED <<clock, tokens, localVars, logged>>

IssueLink(j) ==
    /\ onboard[j].stage = "created"
    /\ onboard' = [onboard EXCEPT ![j].stage = "stamped",
                                  ![j].expiresAt = clock + TokenTTL]
    /\ UNCHANGED <<clock, users, tokens, localVars, logged>>

CreateToken(j) ==
    tokens' = [tokens EXCEPT ![j] =
                 [status |-> "issued", type |-> onboard[j].type,
                  expiresAt |-> onboard[j].expiresAt, usedAt |-> 0]]

RecordToken(j) ==
    /\ onboard[j].stage = "stamped"
    /\ \/ CreateToken(j) /\ Stage(j, "recorded")
       \/ "lost_reply" \in Faults /\ CreateToken(j) /\ Stage(j, "failed")
       \/ "error" \in Faults /\ Stage(j, "failed") /\ UNCHANGED tokens
    /\ UNCHANGED <<clock, users, localVars, logged>>

\* Bug: the link is handed out before the metadata is attached.
AttachMetadataLater(j) ==
    /\ onboard[j].stage = "recorded"
    /\ Stage(j, "delivered")
    /\ UNCHANGED <<clock, users, tokens, localVars, logged>>

\* Only when the user record took the metadata does the caller get the link.
AttachMetadata(j) ==
    /\ onboard[j].stage = "recorded"
    /\ \/ users' = [users EXCEPT ![j].metadata = TRUE] /\ Stage(j, "delivered")
       \/ /\ "lost_reply" \in Faults
          /\ users' = [users EXCEPT ![j].metadata = TRUE]
          /\ Stage(j, "failed")
       \/ "error" \in Faults /\ Stage(j, "failed") /\ UNCHANGED users
    /\ UNCHANGED <<clock, tokens, localVars, logged>>

-----------------------------------------------------------------------------
(* Validating and consuming *)

Goto(p, place) == pc' = [pc EXCEPT ![p] = place]

Reply(p, what) ==
    /\ Goto(p, "done")
    /\ answer' = [answer EXCEPT ![p] = what]
    /\ seen' = [seen EXCEPT ![p] = Absent]

Start(p) ==
    /\ pc[p] = "idle"
    /\ onboard[job[p].tok].stage = "delivered"
    /\ \/ Goto(p, "resolving") /\ UNCHANGED <<answer, seen>>
       \/ Reply(p, "refused")       \* the link manager rejects the link
    /\ UNCHANGED <<clock, issueVars, tokens, usedAt, readAt, job, logged>>

GetTokenByJTI(p) ==
    /\ pc[p] = "resolving"
    /\ \/ /\ Goto(p, "validating")
          /\ seen' = [seen EXCEPT ![p] = Lookup(job[p].tok, job[p].type)]
          /\ UNCHANGED answer
       \/ "error" \in Faults /\ Reply(p, "error")
    /\ UNCHANGED <<clock, issueVars, tokens, usedAt, readAt, job, logged>>

LoadUsableToken(p) ==
    /\ pc[p] = "validating"
    /\ LET verdict == Verdict(seen[p], clock) IN
       \/ verdict = "late" /\ Goto(p, "expiring") /\ UNCHANGED <<answer, seen>>
       \/ /\ verdict = "usable"
          /\ Goto(p, "loaded")
          /\ seen' = [seen EXCEPT ![p] = Absent]
          /\ UNCHANGED answer
       \/ verdict \notin {"late", "usable"} /\ Reply(p, verdict)
    /\ UNCHANGED <<clock, issueVars, tokens, usedAt, readAt, job, logged>>

\* A user mismatch, or the scope enforcer says no.
RefuseLoaded(p) ==
    /\ pc[p] = "loaded"
    /\ Reply(p, "refused")
    /\ UNCHANGED <<clock, issueVars, tokens, usedAt, readAt, job, logged>>

\* The statement of UpdateTokenStatus for request p, at the time the repository
\* read before it.
UpdateTokenStatus(p, status, at, now) ==
    LET j == job[p].tok IN
    /\ Updatable(Lookup(j, job[p].type), status, now)
    /\ tokens' = [tokens EXCEPT ![j].status = status, ![j].usedAt = at]

\* The outcome of marking a late token is ignored.  The repository reads its clock
\* here too, but a statement that expires a token does not compare it.
MarkExpired(p) ==
    /\ pc[p] = "expiring"
    /\ \/ UpdateTokenStatus(p, "expired", 0, clock)
       \/ /\ "error" \in Faults \/ ~Updatable(Lookup(job[p].tok, job[p].type), "expired", clock)
          /\ UNCHANGED tokens
    /\ Reply(p, "expired")
    /\ UNCHANGED <<clock, issueVars, usedAt, readAt, job, logged>>

AnswerValid(p) ==
    /\ pc[p] = "loaded" /\ job[p].mode = "validate"
    /\ Reply(p, "valid")
    /\ UNCHANGED <<clock, issueVars, tokens, usedAt, readAt, job, logged>>

StampUse(p) ==
    /\ pc[p] = "loaded" /\ job[p].mode = "consume"
    /\ Goto(p, "consuming")
    /\ usedAt' = [usedAt EXCEPT ![p] = clock]
    /\ UNCHANGED <<clock, issueVars, tokens, seen, readAt, answer, job, logged>>

\* UpdateTokenStatus reads the repository's clock before it builds its statement.
ReadClock(p) ==
    /\ pc[p] = "consuming"
    /\ Goto(p, "stating")
    /\ readAt' = [readAt EXCEPT ![p] = clock]
    /\ UNCHANGED <<clock, issueVars, tokens, seen, usedAt, answer, job, logged>>

\* The statement runs some time after that reading, before the expiry or not.
Consume(p) ==
    /\ pc[p] = "stating"
    /\ \/ /\ UpdateTokenStatus(p, "used", usedAt[p], readAt[p])
          /\ Goto(p, "consumed")
          /\ UNCHANGED <<answer, seen>>
       \/ /\ ~Updatable(Lookup(job[p].tok, job[p].type), "used", readAt[p])
          /\ Goto(p, "conflict")
          /\ UNCHANGED <<tokens, answer, seen>>
       \/ /\ "lost_reply" \in Faults
          /\ UpdateTokenStatus(p, "used", usedAt[p], readAt[p])
          /\ Reply(p, "error")
       \/ "error" \in Faults /\ Reply(p, "error") /\ UNCHANGED tokens
    /\ readAt' = [readAt EXCEPT ![p] = 0]
    /\ UNCHANGED <<clock, issueVars, usedAt, job, logged>>

ReportConflict(p) ==
    /\ pc[p] = "conflict"
    /\ \/ Reply(p, ConflictVerdict(Lookup(job[p].tok, job[p].type), usedAt[p]))
       \/ "error" \in Faults /\ Reply(p, "already_used")
    /\ UNCHANGED <<clock, issueVars, tokens, usedAt, readAt, job, logged>>

\* logActivity ignores the sink's error: the event may be missing.
LogConsumption(p) ==
    /\ pc[p] = "consumed"
    /\ \/ logged' = [logged EXCEPT ![job[p].tok] = @ \cup {p}]
       \/ "error" \in Faults /\ UNCHANGED logged
    /\ Reply(p, "ok")
    /\ UNCHANGED <<clock, issueVars, tokens, usedAt, readAt, job>>

Crash(p) ==
    /\ "crash" \in Faults
    /\ pc[p] \notin {"idle", "done", "crashed"}
    /\ Goto(p, "crashed")
    /\ UNCHANGED <<clock, issueVars, tokens, seen, usedAt, readAt, answer, job, logged>>

Tick ==
    /\ clock < MaxTime
    /\ clock' = clock + 1
    /\ UNCHANGED <<issueVars, tokens, localVars, logged>>

-----------------------------------------------------------------------------
Issue(j) == CreateUser(j) \/ IssueLink(j) \/ RecordToken(j) \/ AttachMetadata(j)

Execute(p) ==
    \/ GetTokenByJTI(p) \/ LoadUsableToken(p) \/ RefuseLoaded(p) \/ MarkExpired(p)
    \/ AnswerValid(p) \/ StampUse(p) \/ ReadClock(p) \/ Consume(p)
    \/ ReportConflict(p) \/ LogConsumption(p)

Next ==
    \/ Tick
    \/ \E j \in Token : Issue(j)
    \/ \E p \in Request : Start(p) \/ Execute(p) \/ Crash(p)

Spec == Init /\ [][Next]_vars

-----------------------------------------------------------------------------
(* Properties *)

\* Every variable keeps the shape the code gives it.
TypeOK ==
    /\ clock \in Nat
    /\ onboard \in [Token -> [stage : {"none", "created", "stamped", "recorded",
                                       "failed", "delivered"},
                              expiresAt : Nat, type : Types]]
    /\ users \in [Token -> [exists : BOOLEAN, metadata : BOOLEAN]]
    /\ tokens \in [Token -> TokenRecord]
    /\ job \in [Request -> Jobs]
    /\ pc \in [Request -> {"idle", "resolving", "validating", "expiring", "loaded",
                           "consuming", "stating", "consumed", "conflict", "done", "crashed"}]
    /\ seen \in [Request -> TokenRecord]
    /\ usedAt \in [Request -> Nat]
    /\ readAt \in [Request -> Nat]
    /\ answer \in [Request -> {"none", "ok", "valid", "error", "refused", "not_found",
                               "already_used", "expired"}]
    /\ logged \in [Token -> SUBSET Request]

\* A request past a successful consumption.
Consumed(p) == pc[p] = "consumed" \/ answer[p] = "ok"

\* Racing consumers: at most one request ever consumes a token, so at most one
\* caller is told "ok", and only that caller's consumption is ever logged.
OneConsumer ==
    /\ \A p, q \in Request :
           Consumed(p) /\ Consumed(q) /\ job[p].tok = job[q].tok => p = q
    /\ \A j \in Token : \A p \in logged[j] : answer[p] = "ok" /\ job[p].tok = j

\* The use of a token is stamped strictly before its expiry, and a token is marked
\* expired only after it, however long a request waits between its validation and its statement.
SettledInTime ==
    \A j \in Token :
        /\ tokens[j].status = "used" => tokens[j].usedAt \in 1 .. (tokens[j].expiresAt - 1)
        /\ tokens[j].status = "expired" => clock > tokens[j].expiresAt

\* A delivered link has its user, its token row and its metadata behind it.
LinkIsBacked ==
    \A j \in Token : onboard[j].stage = "delivered" =>
        users[j].exists /\ users[j].metadata /\ tokens[j].status # "absent"

\* Used and expired are final: no later statement touches the row again.
SettledForGood ==
    [][\A j \in Token : tokens[j].status \in {"used", "expired"}
                            => tokens'[j] = tokens[j]]_vars

-----------------------------------------------------------------------------
(* What the links promise *)

Registered(rec) ==
    CASE rec.status = "absent" -> "none"
      [] rec.status = "issued" -> "open"
      [] rec.status = "used" -> "spent"
      [] rec.status = "expired" -> "lapsed"

\* A row's time is over when no repository that reads its clock now may use it.
Over == {j \in Token : tokens[j].status # "absent" /\ tokens[j].expiresAt <= clock}

\* The user a link is for exists and knows of it.
Ready == {j \in Token : users[j].exists /\ users[j].metadata}

StageOf(p) ==
    CASE pc[p] = "idle" -> "out"
      [] pc[p] = "resolving" -> "in"
      [] pc[p] = "validating" -> IF seen[p].status = "issued" THEN "saw" ELSE "in"
      [] pc[p] \in {"expiring", "loaded", "consuming", "conflict"} -> "saw"
      [] pc[p] = "stating" ->
            IF tokens[job[p].tok].expiresAt > readAt[p] THEN "timed" ELSE "saw"
      [] pc[p] = "consumed" -> "won"
      [] pc[p] = "crashed" -> "no"
      [] pc[p] = "done" -> CASE answer[p] = "ok" -> "yes"
                             [] answer[p] = "valid" -> "valid"
                             [] answer[p] = "expired" -> "late"
                             [] OTHER -> "no"

Promise == INSTANCE OneTimeToken WITH
    register <- [j \in Token |-> Registered(tokens[j])],
    late <- Over,
    ready <- Ready,
    stage <- [p \in Request |-> StageOf(p)],
    ask <- [p \in Request |-> [token |-> job[p].tok, redeem |-> job[p].mode = "consume"]]

\* Conditional statements, stale reads and faults together keep the promise of
\* OneTimeToken: a link that is presented has its row, its user and its metadata
\* behind it although they are three writes, the token is redeemed by one request
\* that validated it and whose repository then read a time before the expiry (the
\* statement itself may run after it), and nobody is told "valid", "expired" or "ok" of a
\* token of which it was never so.
TokenPromiseKept == Promise!Spec
=============================================================================
