--------------------------- MODULE UserTokensProofs ---------------------------
(* Proofs about UserTokens, for every set of tokens and requests, every        *)
(* lifetime, clock bound and combination of faults.                            *)
EXTENDS UserTokens, TLAPS

-----------------------------------------------------------------------------
(* Types *)

Stages == {"none", "created", "stamped", "recorded", "failed", "delivered"}
Places == {"idle", "resolving", "validating", "expiring", "loaded",
           "consuming", "stating", "consumed", "conflict", "done", "crashed"}
Answers == {"none", "ok", "valid", "error", "refused", "not_found",
            "already_used", "expired"}

Onboarding == [stage : Stages, expiresAt : Nat, type : Types]

\* TypeOK in three parts: time, the tables with the onboardings that fill them,
\* and what a request keeps for itself.
TableType ==
    /\ onboard \in [Token -> Onboarding]
    /\ users \in [Token -> [exists : BOOLEAN, metadata : BOOLEAN]]
    /\ tokens \in [Token -> TokenRecord]

LocalType ==
    /\ job \in [Request -> Jobs]
    /\ pc \in [Request -> Places]
    /\ seen \in [Request -> TokenRecord]
    /\ usedAt \in [Request -> Nat]
    /\ readAt \in [Request -> Nat]
    /\ answer \in [Request -> Answers]

LEMMA TypeParts ==
    TypeOK <=> clock \in Nat /\ TableType /\ LocalType /\ logged \in [Token -> SUBSET Request]
  BY DEF TypeOK, TableType, LocalType, Onboarding, Stages, Places, Answers

LEMMA AbsentType == Absent \in TokenRecord
  BY DEF Absent, TokenRecord, Types

LEMMA LookupType ==
    ASSUME TypeOK, NEW p \in Request
    PROVE  /\ job[p].tok \in Token
           /\ Lookup(job[p].tok, job[p].type) \in TokenRecord
  BY AbsentType DEF TypeOK, Lookup, Jobs

LEMMA VerdictType ==
    ASSUME NEW rec \in TokenRecord, NEW now \in Nat
    PROVE  Verdict(rec, now) \in Answers \cup {"late", "usable"}
  BY DEF Verdict, Answers

LEMMA ConflictVerdictType ==
    ASSUME NEW rec \in TokenRecord, NEW at \in Nat
    PROVE  ConflictVerdict(rec, at) \in Answers \ {"ok", "none"}
  BY DEF ConflictVerdict, Answers

\* Issuing keeps the types of the tables.
LEMMA IssueType ==
    ASSUME TypeOK, NEW j \in Token, Issue(j)
    PROVE  TableType'
<1>1. TableType /\ clock + TokenTTL \in Nat
  BY TypeParts, TokenTimeAssumption
<1> USE <1>1 DEF TableType
<1>2. \A s \in Stages : Stage(j, s) => onboard' \in [Token -> Onboarding]
  BY DEF Stage, Onboarding
<1>3. CreateToken(j) => tokens' \in [Token -> TokenRecord]
  BY DEF CreateToken, TokenRecord, Onboarding
<1>4. {"failed", "recorded", "delivered"} \subseteq Stages
  BY DEF Stages
<1>5. CASE CreateUser(j)
  <2>1. onboard' \in [Token -> Onboarding]
    <3>1. PICK type \in Types :
              onboard' = [onboard EXCEPT ![j].stage = "created", ![j].type = type]
      BY <1>5 DEF CreateUser
    <3>2. [onboard[j] EXCEPT !.stage = "created", !.type = type] \in Onboarding
      BY DEF Onboarding, Stages
    <3> QED
      BY <3>1, <3>2
  <2>2. users' \in [Token -> [exists : BOOLEAN, metadata : BOOLEAN]]
    BY <1>5 DEF CreateUser
  <2> QED
    BY <1>5, <2>1, <2>2 DEF CreateUser
<1>6. CASE IssueLink(j)
  <2>1. onboard' \in [Token -> Onboarding]
    <3>1. [onboard[j] EXCEPT !.stage = "stamped", !.expiresAt = clock + TokenTTL] \in Onboarding
      BY DEF Onboarding, Stages
    <3> QED
      BY <1>6, <3>1 DEF IssueLink
  <2> QED
    BY <1>6, <2>1 DEF IssueLink
<1>7. CASE RecordToken(j)
  BY <1>2, <1>3, <1>4, <1>7 DEF RecordToken
<1>8. CASE AttachMetadata(j)
  <2>1. tokens' \in [Token -> TokenRecord]
    BY <1>8 DEF AttachMetadata
  <2>2. users' \in [Token -> [exists : BOOLEAN, metadata : BOOLEAN]]
    BY <1>8 DEF AttachMetadata
  <2> QED
    BY <1>2, <1>4, <1>8, <2>1, <2>2 DEF AttachMetadata
<1> QED
  BY <1>5, <1>6, <1>7, <1>8 DEF Issue

\* An answer keeps the types of what a request has for itself.
LEMMA ReplyType ==
    ASSUME LocalType, NEW p \in Request, NEW what \in Answers, Reply(p, what)
    PROVE  /\ pc' \in [Request -> Places]
           /\ seen' \in [Request -> TokenRecord]
           /\ answer' \in [Request -> Answers]
  BY AbsentType DEF LocalType, Reply, Goto, Places

\* So does every step of a request.
LEMMA LocalTypeStep ==
    ASSUME TypeOK, NEW p \in Request, Start(p) \/ Execute(p) \/ Crash(p)
    PROVE  LocalType'
<1>1. clock \in Nat /\ LocalType /\ seen[p] \in TokenRecord /\ usedAt[p] \in Nat
      /\ 0 \in Nat
  BY TypeParts DEF LocalType
<1>2. Lookup(job[p].tok, job[p].type) \in TokenRecord
  BY LookupType
<1>3. \A place \in Places : Goto(p, place) => pc' \in [Request -> Places]
  BY <1>1 DEF Goto, LocalType
<1>4. {"resolving", "validating", "expiring", "loaded", "consuming", "stating", "consumed",
       "conflict", "crashed"} \subseteq Places
  BY DEF Places
<1>5. {"refused", "error", "expired", "valid", "already_used", "ok"} \subseteq Answers
  BY DEF Answers
<1> USE <1>1, <1>2, <1>3, <1>4, <1>5, ReplyType DEF LocalType
<1>6. CASE Start(p)
  BY <1>6 DEF Start
<1>7. CASE GetTokenByJTI(p)
  BY <1>7 DEF GetTokenByJTI
<1>8. CASE LoadUsableToken(p)
  BY <1>8, VerdictType, AbsentType DEF LoadUsableToken
<1>9. CASE RefuseLoaded(p) \/ AnswerValid(p)
  BY <1>9 DEF RefuseLoaded, AnswerValid
<1>10. CASE MarkExpired(p)
  BY <1>10 DEF MarkExpired
<1>11. CASE StampUse(p)
  BY <1>11 DEF StampUse
<1>12. CASE ReadClock(p) \/ Consume(p)
  BY <1>12 DEF ReadClock, Consume
<1>13. CASE ReportConflict(p)
  BY <1>13, ConflictVerdictType DEF ReportConflict
<1>14. CASE LogConsumption(p)
  BY <1>14 DEF LogConsumption
<1>15. CASE Crash(p)
  BY <1>15 DEF Crash
<1> QED
  BY <1>6, <1>7, <1>8, <1>9, <1>10, <1>11, <1>12, <1>13, <1>14, <1>15 DEF Execute

\* What a request may do to the token table: expire a late row that is still
\* issued, or use one that had not expired when the repository read its clock.
Expires(p, j) ==
    /\ pc[p] = "expiring" /\ job[p].tok = j
    /\ tokens[j].status = "issued"
    /\ tokens'[j] = [tokens[j] EXCEPT !.status = "expired", !.usedAt = 0]
Uses(p, j) ==
    /\ pc[p] = "stating" /\ job[p].tok = j
    /\ tokens[j].status = "issued" /\ tokens[j].expiresAt > readAt[p]
    /\ tokens'[j] = [tokens[j] EXCEPT !.status = "used", !.usedAt = usedAt[p]]
KeepsOthers(j) == tokens' = [tokens EXCEPT ![j] = tokens'[j]]

\* The conditional statement finds its row issued, and changes no other.
LEMMA UpdateStep ==
    ASSUME TypeOK, NEW p \in Request, NEW status \in {"used", "expired"}, NEW at \in Nat,
           NEW now \in Nat, UpdateTokenStatus(p, status, at, now)
    PROVE  LET j == job[p].tok IN
           /\ tokens[j].status = "issued"
           /\ status = "used" => tokens[j].expiresAt > now
           /\ tokens'[j] = [tokens[j] EXCEPT !.status = status, !.usedAt = at]
           /\ KeepsOthers(j)
<1> DEFINE j == job[p].tok
<1>1. j \in Token /\ tokens \in [Token -> TokenRecord]
  BY LookupType DEF TypeOK
<1>2. Updatable(Lookup(j, job[p].type), status, now)
      /\ tokens' = [tokens EXCEPT ![j].status = status, ![j].usedAt = at]
  BY DEF UpdateTokenStatus
<1>3. Lookup(j, job[p].type) = tokens[j]
  BY <1>2 DEF Lookup, Updatable, Absent
<1> QED
  BY <1>1, <1>2, <1>3 DEF Updatable, KeepsOthers

\* A step of a request leaves the token table alone, expires a row or uses one.
LEMMA RequestRows ==
    ASSUME TypeOK, NEW p \in Request, Start(p) \/ Execute(p) \/ Crash(p)
    PROVE  \/ UNCHANGED tokens
           \/ (Expires(p, job[p].tok) \/ Uses(p, job[p].tok)) /\ KeepsOthers(job[p].tok)
<1>1. usedAt[p] \in Nat /\ readAt[p] \in Nat /\ clock \in Nat /\ 0 \in Nat
  BY DEF TypeOK
<1>2. CASE MarkExpired(p)
  BY <1>1, <1>2, UpdateStep DEF MarkExpired, Expires
<1>3. CASE Consume(p)
  BY <1>1, <1>3, UpdateStep DEF Consume, Uses
<1> QED
  BY <1>2, <1>3 DEF Start, Execute, Crash, GetTokenByJTI, LoadUsableToken, RefuseLoaded,
     AnswerValid, StampUse, ReadClock, ReportConflict, LogConsumption

LEMMA RequestKeepsRows ==
    ASSUME TypeOK, NEW p \in Request, Start(p) \/ Execute(p) \/ Crash(p)
    PROVE  tokens' \in [Token -> TokenRecord]
<1>1. job[p].tok \in Token /\ tokens \in [Token -> TokenRecord] /\ usedAt[p] \in Nat
  BY LookupType DEF TypeOK
<1>2. tokens'[job[p].tok] \in TokenRecord /\ KeepsOthers(job[p].tok)
        => tokens' \in [Token -> TokenRecord]
  BY <1>1 DEF KeepsOthers
<1>3. ASSUME NEW rec \in TokenRecord, NEW status \in {"used", "expired"}, NEW at \in Nat
      PROVE  [rec EXCEPT !.status = status, !.usedAt = at] \in TokenRecord
  BY DEF TokenRecord
<1>4. tokens[job[p].tok] \in TokenRecord
  BY <1>1
<1>5. /\ [tokens[job[p].tok] EXCEPT !.status = "expired", !.usedAt = 0] \in TokenRecord
      /\ [tokens[job[p].tok] EXCEPT !.status = "used", !.usedAt = usedAt[p]] \in TokenRecord
  BY <1>1, <1>3, <1>4
<1>6. Expires(p, job[p].tok) \/ Uses(p, job[p].tok) => tokens'[job[p].tok] \in TokenRecord
  BY <1>5 DEF Expires, Uses
<1> QED
  BY <1>1, <1>2, <1>6, RequestRows

LEMMA RequestLogs ==
    ASSUME TypeOK, NEW p \in Request, Start(p) \/ Execute(p) \/ Crash(p)
    PROVE  logged' \in [Token -> SUBSET Request]
<1>1. logged \in [Token -> SUBSET Request] /\ job[p].tok \in Token
  BY LookupType DEF TypeOK
<1>2. CASE LogConsumption(p)
  BY <1>1, <1>2 DEF LogConsumption
<1> QED
  BY <1>1, <1>2 DEF Start, Execute, Crash, GetTokenByJTI, LoadUsableToken, RefuseLoaded,
     MarkExpired, AnswerValid, StampUse, ReadClock, Consume, ReportConflict

\* Every variable of UserTokens keeps its shape.
THEOREM TypeCorrect == Spec => []TypeOK
<1>1. Init => TypeOK
  BY DEF Init, TypeOK, TokenRecord, Absent, Types
<1>2. TypeOK /\ [Next]_vars => TypeOK'
  <2> SUFFICES ASSUME TypeOK, [Next]_vars PROVE TypeOK'
    OBVIOUS
  <2>1. clock \in Nat /\ TableType /\ LocalType /\ logged \in [Token -> SUBSET Request]
    BY TypeParts
  <2> USE DEF TypeOK, TableType, LocalType, Onboarding, Stages, Places, Answers
  <2>2. CASE UNCHANGED vars
    BY <2>1, <2>2 DEF vars, issueVars, localVars
  <2>3. CASE Tick
    BY <2>1, <2>3 DEF Tick, issueVars, localVars
  <2>4. ASSUME NEW j \in Token, Issue(j) PROVE TypeOK'
    <3>1. UNCHANGED <<clock, localVars, logged>>
      BY <2>4 DEF Issue, CreateUser, IssueLink, RecordToken, AttachMetadata
    <3> QED
      BY <2>1, <2>4, <3>1, IssueType DEF localVars
  <2>5. ASSUME NEW p \in Request, Start(p) \/ Execute(p) \/ Crash(p) PROVE TypeOK'
    <3>1. UNCHANGED <<clock, issueVars>>
      BY <2>5 DEF Start, Execute, Crash, GetTokenByJTI, LoadUsableToken, RefuseLoaded,
                  MarkExpired, AnswerValid, StampUse, ReadClock, Consume, ReportConflict, LogConsumption
    <3>2. tokens' \in [Token -> TokenRecord]
      BY <2>1, <2>5, RequestKeepsRows
    <3>3. logged' \in [Token -> SUBSET Request]
      BY <2>1, <2>5, RequestLogs
    <3> QED
      BY <2>1, <2>5, <3>1, <3>2, <3>3, LocalTypeStep DEF issueVars
  <2> QED
    BY <2>2, <2>3, <2>4, <2>5 DEF Next
<1> QED
  BY <1>1, <1>2, PTL DEF Spec

-----------------------------------------------------------------------------
(* The inductive invariant: what the code relies on without saying it. *)

\* A token row is created once, after the user; a link is delivered after both
\* and after the metadata.
IssueOrder ==
    \A j \in Token :
        /\ onboard[j].stage \in {"none", "created", "stamped"} => tokens[j].status = "absent"
        /\ onboard[j].stage \in {"recorded", "delivered"} => tokens[j].status # "absent"
        /\ onboard[j].stage # "none" => users[j].exists
        /\ onboard[j].stage = "delivered" => users[j].metadata

\* The record a request holds is old, but its expiry is the row's.
SeenIsOfRow ==
    \A p \in Request : seen[p].status # "absent" =>
        LET rec == tokens[job[p].tok] IN
        rec.status # "absent" /\ rec.expiresAt = seen[p].expiresAt

\* A request about to expire a token has seen its expiry pass; one about to
\* consume it took its stamp before, and the repository its reading after that.
LateIsLate ==
    \A p \in Request : pc[p] = "expiring" =>
        seen[p].status # "absent" /\ clock > seen[p].expiresAt
StampedBefore ==
    /\ clock >= 1
    /\ \A p \in Request :
          /\ pc[p] = "consuming" => usedAt[p] \in 1 .. clock
          /\ pc[p] = "stating" => usedAt[p] \in 1 .. readAt[p]

\* Only a request that has returned has an answer.
AnsweredLast == \A p \in Request : answer[p] # "none" => pc[p] = "done"

\* Who consumed a token left it used.
ConsumedIsUsed ==
    \A p \in Request : Consumed(p) => tokens[job[p].tok].status = "used"

IInv ==
    /\ TypeOK /\ IssueOrder /\ SeenIsOfRow /\ LateIsLate /\ StampedBefore
    /\ AnsweredLast /\ ConsumedIsUsed /\ OneConsumer /\ SettledInTime

-----------------------------------------------------------------------------
(* What a step may do to one row, and to one request *)

Records(j) ==
    /\ onboard[j].stage = "stamped" /\ onboard'[j].stage \in {"recorded", "failed"}
    /\ tokens'[j].status = "issued"

RowMove(j) ==
    \/ tokens'[j] = tokens[j]
    \/ Records(j)
    \/ \E p \in Request : Expires(p, j) \/ Uses(p, j)

Goes(p, from, to) == pc[p] = from /\ pc'[p] = to /\ answer'[p] = answer[p]

RequestMove(p) ==
    \/ UNCHANGED <<pc[p], seen[p], usedAt[p], readAt[p], answer[p]>>
    \/ Goes(p, "idle", "resolving") /\ UNCHANGED <<seen[p], usedAt[p]>>
    \/ /\ Goes(p, "resolving", "validating") /\ UNCHANGED usedAt[p]
       /\ seen'[p] = Lookup(job[p].tok, job[p].type) /\ UNCHANGED tokens
    \/ /\ Goes(p, "validating", "expiring") /\ UNCHANGED <<seen[p], usedAt[p]>>
       /\ Verdict(seen[p], clock) = "late"
    \/ Goes(p, "validating", "loaded") /\ seen'[p] = Absent /\ UNCHANGED usedAt[p]
    \/ Goes(p, "loaded", "consuming") /\ usedAt'[p] = clock /\ UNCHANGED seen[p]
    \/ /\ Goes(p, "consuming", "stating") /\ UNCHANGED <<seen[p], usedAt[p]>>
       /\ readAt'[p] = clock
    \/ /\ Goes(p, "stating", "consumed") /\ UNCHANGED <<seen[p], usedAt[p]>>
       /\ Uses(p, job[p].tok)
    \/ Goes(p, "stating", "conflict") /\ UNCHANGED <<seen[p], usedAt[p]>>
    \/ pc'[p] = "crashed" /\ pc[p] # "done" /\ UNCHANGED <<seen[p], usedAt[p], answer[p]>>
    \/ /\ pc[p] # "done" /\ pc'[p] = "done" /\ answer'[p] # "none"
       /\ answer'[p] = "ok" => pc[p] = "consumed" /\ UNCHANGED tokens
       /\ seen'[p] = Absent /\ UNCHANGED usedAt[p]

Step(p) == Start(p) \/ Execute(p) \/ Crash(p)

LEMMA RowStep ==
    ASSUME TypeOK, [Next]_vars, NEW j \in Token
    PROVE  RowMove(j)
<1>1. tokens \in [Token -> TokenRecord] /\ onboard \in [Token -> Onboarding]
  BY TypeParts DEF TableType
<1>2. ASSUME NEW k \in Token, Issue(k) PROVE RowMove(j)
  <2>1. CASE RecordToken(k)
    <3>1. CASE j = k /\ CreateToken(j)
      <4>1. tokens'[j].status = "issued"
        BY <1>1, <3>1 DEF CreateToken
      <4>2. onboard[j].stage = "stamped" /\ (Stage(j, "recorded") \/ Stage(j, "failed"))
        BY <2>1, <3>1 DEF RecordToken
      <4>3. onboard'[j].stage \in {"recorded", "failed"}
        BY <1>1, <4>2 DEF Stage, Onboarding
      <4> QED
        BY <4>1, <4>2, <4>3 DEF Records, RowMove
    <3> QED
      BY <1>1, <2>1, <3>1 DEF RecordToken, CreateToken, RowMove
  <2> QED
    BY <1>2, <2>1 DEF Issue, CreateUser, IssueLink, AttachMetadata, RowMove
<1>3. ASSUME NEW p \in Request, Step(p) PROVE RowMove(j)
  <2>1. job[p].tok \in Token
    BY LookupType
  <2>2. CASE j = job[p].tok
    BY <1>3, <2>2, RequestRows DEF Step, RowMove
  <2>3. CASE j # job[p].tok
    BY <1>1, <1>3, <2>1, <2>3, RequestRows DEF Step, RowMove, KeepsOthers
  <2> QED
    BY <2>2, <2>3
<1>4. CASE UNCHANGED tokens
  BY <1>4 DEF RowMove
<1> QED
  BY <1>2, <1>3, <1>4 DEF Next, Step, Tick, vars

LEMMA RequestStep ==
    ASSUME TypeOK, [Next]_vars, NEW q \in Request
    PROVE  RequestMove(q)
<1>1. LocalType /\ clock \in Nat
  BY TypeParts
<1> USE DEF LocalType
<1>2. CASE UNCHANGED localVars
  BY <1>2 DEF localVars, RequestMove
<1>3. ASSUME NEW j \in Token, Issue(j) PROVE UNCHANGED localVars
  BY <1>3 DEF Issue, CreateUser, IssueLink, RecordToken, AttachMetadata
<1>4. ASSUME NEW p \in Request, p # q, Step(p) PROVE RequestMove(q)
  <2>1. UNCHANGED <<pc[q], seen[q], usedAt[q], readAt[q], answer[q]>>
    BY <1>1, <1>4 DEF Step, Start, Execute, Crash, GetTokenByJTI, LoadUsableToken, RefuseLoaded,
       MarkExpired, AnswerValid, StampUse, ReadClock, Consume, ReportConflict, LogConsumption, Goto, Reply
  <2> QED
    BY <2>1 DEF RequestMove
<1>5. ASSUME Step(q) PROVE RequestMove(q)
  <2>1. /\ \A place \in Places : Goto(q, place) => pc'[q] = place
        /\ \A what : Reply(q, what) =>
              pc'[q] = "done" /\ answer'[q] = what /\ seen'[q] = Absent
    BY <1>1 DEF Goto, Reply
  <2>2. {"resolving", "validating", "expiring", "loaded", "consuming", "stating", "consumed",
         "conflict", "crashed"} \subseteq Places
    BY DEF Places
  <2>3. seen[q] \in TokenRecord /\ usedAt[q] \in Nat /\ readAt[q] \in Nat /\ Lookup(job[q].tok, job[q].type) \in TokenRecord
    BY <1>1, LookupType
  <2> USE <2>1, <2>2 DEF RequestMove, Goes
  <2>4. CASE Start(q)
    BY <2>4 DEF Start
  <2>5. CASE GetTokenByJTI(q)
    BY <1>1, <2>5 DEF GetTokenByJTI
  <2>6. CASE LoadUsableToken(q)
    <3>1. Verdict(seen[q], clock) \notin {"ok", "none"}
      BY DEF Verdict
    <3>2. CASE Verdict(seen[q], clock) = "late" /\ Goto(q, "expiring") /\ UNCHANGED <<answer, seen>>
      BY <2>6, <3>2 DEF LoadUsableToken
    <3>3. CASE Goto(q, "loaded") /\ seen' = [seen EXCEPT ![q] = Absent] /\ UNCHANGED answer
      BY <1>1, <2>6, <3>3 DEF LoadUsableToken
    <3>4. CASE Reply(q, Verdict(seen[q], clock))
      BY <2>6, <3>1, <3>4 DEF LoadUsableToken
    <3> QED
      BY <2>6, <3>2, <3>3, <3>4 DEF LoadUsableToken
  <2>7. CASE RefuseLoaded(q) \/ AnswerValid(q)
    BY <2>7 DEF RefuseLoaded, AnswerValid
  <2>8. CASE MarkExpired(q)
    BY <2>8 DEF MarkExpired
  <2>9. CASE StampUse(q)
    BY <1>1, <2>9 DEF StampUse
  <2>14. CASE ReadClock(q)
    BY <1>1, <2>14 DEF ReadClock
  <2>10. CASE Consume(q)
    <3>1. CASE UpdateTokenStatus(q, "used", usedAt[q], readAt[q]) /\ Goto(q, "consumed") /\ UNCHANGED <<answer, seen>>
      BY <2>3, <2>10, <3>1, UpdateStep DEF Consume, Uses
    <3> QED
      BY <2>10, <3>1 DEF Consume
  <2>11. CASE ReportConflict(q)
    BY <2>3, <2>11, ConflictVerdictType DEF ReportConflict
  <2>12. CASE LogConsumption(q)
    BY <2>12 DEF LogConsumption
  <2>13. CASE Crash(q)
    BY <2>13 DEF Crash
  <2> QED
    BY <1>5, <2>4, <2>5, <2>6, <2>7, <2>8, <2>9, <2>10, <2>11, <2>12, <2>13, <2>14
       DEF Step, Execute
<1> QED
  <2>1. CASE Tick \/ UNCHANGED vars
    BY <1>2, <2>1 DEF Tick, vars, localVars
  <2> QED
    BY <1>2, <1>3, <1>4, <1>5, <2>1 DEF Next, Step

\* No step changes what a request is asked to do; the clock never goes back.
LEMMA FrameStep ==
    ASSUME TypeOK, [Next]_vars
    PROVE  UNCHANGED job /\ clock \in Nat /\ clock' \in Nat /\ clock' >= clock
<1>1. clock \in Nat
  BY TypeParts
<1>2. CASE Tick
  <2>1. clock' = clock + 1 /\ UNCHANGED job
    BY <1>2 DEF Tick, localVars
  <2> QED
    BY <1>1, <2>1
<1>3. CASE UNCHANGED <<clock, job>>
  BY <1>1, <1>3
<1>4. ASSUME NEW j \in Token, Issue(j) PROVE UNCHANGED <<clock, job>>
  BY <1>4 DEF Issue, CreateUser, IssueLink, RecordToken, AttachMetadata, localVars
<1>5. ASSUME NEW p \in Request, Step(p) PROVE UNCHANGED <<clock, job>>
  BY <1>5 DEF Step, Start, Execute, Crash, GetTokenByJTI, LoadUsableToken, RefuseLoaded,
     MarkExpired, AnswerValid, StampUse, ReadClock, Consume, ReportConflict, LogConsumption
<1> QED
  BY <1>2, <1>3, <1>4, <1>5 DEF Next, Step, vars, localVars

-----------------------------------------------------------------------------
(* Each conjunct is kept *)

LEMMA IssueOrderStep ==
    ASSUME TypeOK, IssueOrder, [Next]_vars
    PROVE  IssueOrder'
<1>1. onboard \in [Token -> Onboarding] /\ tokens \in [Token -> TokenRecord]
      /\ users \in [Token -> [exists : BOOLEAN, metadata : BOOLEAN]]
  BY TypeParts DEF TableType
<1>2. CASE UNCHANGED <<onboard, users, tokens>>
  BY <1>2 DEF IssueOrder
<1>3. ASSUME NEW p \in Request, Step(p) PROVE IssueOrder'
  <2>1. UNCHANGED <<onboard, users>>
    BY <1>3 DEF Step, Start, Execute, Crash, GetTokenByJTI, LoadUsableToken, RefuseLoaded,
       MarkExpired, AnswerValid, StampUse, ReadClock, Consume, ReportConflict, LogConsumption, issueVars
  <2>2. ASSUME NEW j \in Token
        PROVE  tokens'[j] = tokens[j] \/ (tokens[j].status = "issued" /\ tokens'[j].status # "absent")
    <3>1. [Next]_vars /\ tokens[j] \in TokenRecord
      BY <1>1
    <3>2. ~Records(j)
      BY <2>1 DEF Records
    <3>3. ASSUME NEW q \in Request, Expires(q, j) \/ Uses(q, j)
          PROVE  tokens[j].status = "issued" /\ tokens'[j].status # "absent"
      BY <3>1, <3>3 DEF Expires, Uses, TokenRecord
    <3> QED
      BY <3>1, <3>2, <3>3, RowStep DEF RowMove
  <2> QED
    BY <2>1, <2>2 DEF IssueOrder
<1>4. ASSUME NEW j \in Token, Issue(j) PROVE IssueOrder'
  <2>1. \A s \in Stages : Stage(j, s) => onboard'[j].stage = s /\ \A k \in Token \ {j} : onboard'[k] = onboard[k]
    BY <1>1 DEF Stage, Onboarding
  <2>2. {"recorded", "failed", "delivered"} \subseteq Stages
    BY DEF Stages
  <2>3. CASE CreateUser(j)
    <3>1. /\ onboard'[j].stage = "created"
          /\ \A k \in Token \ {j} : onboard'[k] = onboard[k]
      BY <1>1, <2>3 DEF CreateUser, Onboarding
    <3>2. /\ users'[j].exists /\ tokens[j].status = "absent"
          /\ \A k \in Token \ {j} : users'[k] = users[k]
      BY <1>1, <2>3 DEF CreateUser, IssueOrder
    <3> QED
      BY <2>3, <3>1, <3>2 DEF IssueOrder, CreateUser
  <2>4. CASE IssueLink(j)
    <3>1. /\ onboard'[j].stage = "stamped"
          /\ \A k \in Token \ {j} : onboard'[k] = onboard[k]
      BY <1>1, <2>4 DEF IssueLink, Onboarding
    <3> QED
      BY <2>4, <3>1 DEF IssueOrder, IssueLink
  <2>5. CASE RecordToken(j)
    <3>1. CreateToken(j) => tokens'[j].status = "issued" /\ \A k \in Token \ {j} : tokens'[k] = tokens[k]
      BY <1>1 DEF CreateToken
    <3>2. onboard[j].stage = "stamped" /\ UNCHANGED users
      BY <2>5 DEF RecordToken
    <3>3. CASE CreateToken(j) /\ (Stage(j, "recorded") \/ Stage(j, "failed"))
      BY <2>1, <2>2, <3>1, <3>2, <3>3 DEF IssueOrder
    <3>4. CASE UNCHANGED tokens /\ Stage(j, "failed")
      BY <2>1, <2>2, <3>2, <3>4 DEF IssueOrder
    <3> QED
      BY <2>5, <3>3, <3>4 DEF RecordToken
  <2>6. CASE AttachMetadata(j)
    <3>1. onboard[j].stage = "recorded" /\ UNCHANGED tokens
      BY <2>6 DEF AttachMetadata
    <3>2. users' = [users EXCEPT ![j].metadata = TRUE] =>
              /\ users'[j].metadata /\ users'[j].exists = users[j].exists
              /\ \A k \in Token \ {j} : users'[k] = users[k]
      BY <1>1
    <3>3. CASE users' = [users EXCEPT ![j].metadata = TRUE] /\ (Stage(j, "delivered") \/ Stage(j, "failed"))
      BY <2>1, <2>2, <3>1, <3>2, <3>3 DEF IssueOrder
    <3>4. CASE UNCHANGED users /\ Stage(j, "failed")
      BY <2>1, <2>2, <3>1, <3>4 DEF IssueOrder
    <3> QED
      BY <2>6, <3>3, <3>4 DEF AttachMetadata
  <2> QED
    BY <1>4, <2>3, <2>4, <2>5, <2>6 DEF Issue
<1> QED
  BY <1>2, <1>3, <1>4 DEF Next, Step, Tick, vars, issueVars

LEMMA SeenIsOfRowStep ==
    ASSUME TypeOK, IssueOrder, SeenIsOfRow, [Next]_vars
    PROVE  SeenIsOfRow'
<1> SUFFICES ASSUME NEW p \in Request, seen'[p].status # "absent"
             PROVE  LET rec == tokens'[job'[p].tok] IN
                    rec.status # "absent" /\ rec.expiresAt = seen'[p].expiresAt
  BY DEF SeenIsOfRow
<1>1. PICK j \in Token : job[p].tok = j /\ job'[p].tok = j
  BY FrameStep, LookupType
<1>2. RowMove(j) /\ tokens[j] \in TokenRecord
  BY RowStep DEF TypeOK
<1>3. tokens[j].status # "absent" =>
          tokens'[j].status # "absent" /\ tokens'[j].expiresAt = tokens[j].expiresAt
  BY <1>2 DEF RowMove, Records, Expires, Uses, IssueOrder, TokenRecord
<1>4. RequestMove(p)
  BY RequestStep
<1>5. CASE seen'[p] = seen[p]
  BY <1>1, <1>3, <1>5 DEF SeenIsOfRow
<1>6. CASE seen'[p] = Lookup(j, job[p].type) /\ UNCHANGED tokens
  BY <1>1, <1>6 DEF Lookup, Absent
<1>7. seen'[p] # Absent
  BY DEF Absent
<1> QED
  BY <1>1, <1>4, <1>5, <1>6, <1>7 DEF RequestMove

LEMMA LateIsLateStep ==
    ASSUME TypeOK, LateIsLate, [Next]_vars
    PROVE  LateIsLate'
<1> SUFFICES ASSUME NEW p \in Request, pc'[p] = "expiring"
             PROVE  seen'[p].status # "absent" /\ clock' > seen'[p].expiresAt
  BY DEF LateIsLate
<1>1. clock \in Nat /\ clock' \in Nat /\ clock' >= clock /\ seen[p].expiresAt \in Nat
  BY FrameStep DEF TypeOK, TokenRecord
<1>2. RequestMove(p)
  BY RequestStep
<1>3. CASE pc[p] = "expiring" /\ seen'[p] = seen[p]
  BY <1>1, <1>3 DEF LateIsLate
<1>4. CASE Verdict(seen[p], clock) = "late" /\ seen'[p] = seen[p]
  BY <1>1, <1>4 DEF Verdict
<1> QED
  BY <1>2, <1>3, <1>4 DEF RequestMove, Goes

LEMMA StampedBeforeStep ==
    ASSUME TypeOK, StampedBefore, [Next]_vars
    PROVE  StampedBefore'
<1>1. clock \in Nat /\ clock' \in Nat /\ clock' >= clock /\ clock >= 1
  BY FrameStep DEF StampedBefore
<1>3. ASSUME NEW p \in Request, pc'[p] = "stating" PROVE usedAt'[p] \in 1 .. readAt'[p]
  <2>1. CASE pc[p] = "stating" /\ usedAt'[p] = usedAt[p] /\ readAt'[p] = readAt[p]
    BY <2>1 DEF StampedBefore
  <2>2. CASE pc[p] = "consuming" /\ usedAt'[p] = usedAt[p] /\ readAt'[p] = clock
    BY <2>2 DEF StampedBefore
  <2> QED
    BY <1>3, <2>1, <2>2, RequestStep DEF RequestMove, Goes
<1>2. ASSUME NEW p \in Request, pc'[p] = "consuming" PROVE usedAt'[p] \in 1 .. clock'
  <2>1. CASE pc[p] = "consuming" /\ usedAt'[p] = usedAt[p]
    BY <1>1, <2>1 DEF StampedBefore
  <2>2. CASE usedAt'[p] = clock
    BY <1>1, <2>2
  <2> QED
    BY <1>2, <2>1, <2>2, RequestStep DEF RequestMove, Goes
<1> QED
  BY <1>1, <1>2, <1>3 DEF StampedBefore

LEMMA AnsweredLastStep ==
    ASSUME TypeOK, AnsweredLast, [Next]_vars
    PROVE  AnsweredLast'
  BY RequestStep DEF AnsweredLast, RequestMove, Goes

\* A request newly past its consumption has just used the row; the others were
\* past theirs before, and the row was used.
LEMMA ConsumedStep ==
    ASSUME TypeOK, AnsweredLast, [Next]_vars, NEW p \in Request, Consumed(p)'
    PROVE  Consumed(p) \/ Uses(p, job[p].tok)
  BY RequestStep DEF Consumed, RequestMove, Goes, AnsweredLast

LEMMA UsedStays ==
    ASSUME TypeOK, IssueOrder, [Next]_vars, NEW j \in Token,
           tokens[j].status \in {"used", "expired"}
    PROVE  tokens'[j] = tokens[j]
  BY RowStep DEF RowMove, Records, Expires, Uses, IssueOrder

LEMMA ConsumedIsUsedStep ==
    ASSUME TypeOK, IssueOrder, AnsweredLast, ConsumedIsUsed, [Next]_vars
    PROVE  ConsumedIsUsed'
<1> SUFFICES ASSUME NEW p \in Request, Consumed(p)'
             PROVE  tokens'[job'[p].tok].status = "used"
  BY DEF ConsumedIsUsed
<1>1. PICK j \in Token : job[p].tok = j /\ job'[p].tok = j
  BY FrameStep, LookupType
<1>2. CASE Consumed(p)
  BY <1>1, <1>2, UsedStays DEF ConsumedIsUsed
<1>3. CASE Uses(p, j)
  <2>1. tokens[j] \in TokenRecord
    BY DEF TypeOK
  <2> QED
    BY <1>1, <1>3, <2>1 DEF Uses, TokenRecord
<1> QED
  BY <1>1, <1>2, <1>3, ConsumedStep

\* One request moves at a time, and only it may log.
LEMMA OneMoves ==
    ASSUME TypeOK, [Next]_vars, NEW p \in Request, NEW q \in Request, p # q
    PROVE  pc'[p] = pc[p] \/ pc'[q] = pc[q]
<1>1. pc \in [Request -> Places]
  BY TypeParts DEF LocalType
<1>2. CASE UNCHANGED pc
  BY <1>2
<1>3. ASSUME NEW r \in Request, Step(r) PROVE \A s \in Request \ {r} : pc'[s] = pc[s]
  BY <1>1, <1>3 DEF Step, Start, Execute, Crash, GetTokenByJTI, LoadUsableToken, RefuseLoaded,
     MarkExpired, AnswerValid, StampUse, ReadClock, Consume, ReportConflict, LogConsumption, Goto, Reply
<1>4. ASSUME NEW j \in Token, Issue(j) PROVE UNCHANGED pc
  BY <1>4 DEF Issue, CreateUser, IssueLink, RecordToken, AttachMetadata, localVars
<1> QED
  BY <1>2, <1>3, <1>4 DEF Next, Step, Tick, vars, localVars

LEMMA LogStep ==
    ASSUME TypeOK, [Next]_vars, NEW j \in Token, NEW p \in logged'[j]
    PROVE  p \in logged[j] \/ (answer'[p] = "ok" /\ job[p].tok = j)
<1>1. logged \in [Token -> SUBSET Request] /\ answer \in [Request -> Answers]
  BY TypeParts DEF LocalType
<1>2. CASE UNCHANGED logged
  BY <1>2
<1>3. ASSUME NEW q \in Request, LogConsumption(q)
      PROVE  p \in logged[j] \/ (answer'[p] = "ok" /\ job[p].tok = j)
  <2>1. answer'[q] = "ok" /\ job[q].tok \in Token
    BY <1>1, <1>3, LookupType DEF LogConsumption, Reply
  <2>2. logged' = [logged EXCEPT ![job[q].tok] = @ \cup {q}] \/ UNCHANGED logged
    BY <1>3 DEF LogConsumption
  <2> QED
    BY <1>1, <2>1, <2>2
<1>4. ASSUME NEW q \in Request, Step(q), ~LogConsumption(q) PROVE UNCHANGED logged
  BY <1>4 DEF Step, Start, Execute, Crash, GetTokenByJTI, LoadUsableToken, RefuseLoaded,
     MarkExpired, AnswerValid, StampUse, ReadClock, Consume, ReportConflict
<1>5. ASSUME NEW k \in Token, Issue(k) PROVE UNCHANGED logged
  BY <1>5 DEF Issue, CreateUser, IssueLink, RecordToken, AttachMetadata
<1> QED
  BY <1>2, <1>3, <1>4, <1>5 DEF Next, Step, Tick, vars

LEMMA OneConsumerStep ==
    ASSUME TypeOK, AnsweredLast, ConsumedIsUsed, OneConsumer, [Next]_vars
    PROVE  OneConsumer'
<1>1. ASSUME NEW p \in Request, NEW q \in Request, Consumed(p)', Consumed(q)',
             job'[p].tok = job'[q].tok
      PROVE  p = q
  <2> SUFFICES ASSUME p # q PROVE FALSE
    OBVIOUS
  <2>1. UNCHANGED job
    BY FrameStep
  <2>2. ASSUME NEW r \in Request, ~Consumed(r), Consumed(r)'
        PROVE  Uses(r, job[r].tok) /\ pc'[r] # pc[r]
    BY <2>2, RequestStep, ConsumedStep DEF Consumed, RequestMove, Goes, AnsweredLast
  <2>3. CASE Consumed(p) /\ Consumed(q)
    BY <1>1, <2>1, <2>3 DEF OneConsumer
  <2>4. CASE ~Consumed(p) /\ ~Consumed(q)
    BY <1>1, <2>2, <2>4, OneMoves
  <2>5. CASE Consumed(p) /\ ~Consumed(q)
    BY <1>1, <2>1, <2>2, <2>5 DEF ConsumedIsUsed, Uses
  <2>6. CASE ~Consumed(p) /\ Consumed(q)
    BY <1>1, <2>1, <2>2, <2>6 DEF ConsumedIsUsed, Uses
  <2> QED
    BY <2>3, <2>4, <2>5, <2>6
<1>2. ASSUME NEW j \in Token, NEW p \in logged'[j]
      PROVE  answer'[p] = "ok" /\ job'[p].tok = j
  <2>1. CASE p \in logged[j]
    <3>1. p \in Request /\ answer[p] = "ok" /\ job[p].tok = j
      BY <2>1 DEF OneConsumer, TypeOK
    <3>2. pc[p] = "done"
      BY <3>1 DEF AnsweredLast
    <3> QED
      BY <3>1, <3>2, FrameStep, RequestStep DEF RequestMove, Goes
  <2> QED
    BY <1>2, <2>1, LogStep, FrameStep
<1> QED
  BY <1>1, <1>2 DEF OneConsumer

LEMMA SettledInTimeStep ==
    ASSUME TypeOK, IssueOrder, SeenIsOfRow, LateIsLate, StampedBefore, SettledInTime, [Next]_vars
    PROVE  SettledInTime'
<1> SUFFICES ASSUME NEW j \in Token
             PROVE  /\ tokens'[j].status = "used" =>
                           tokens'[j].usedAt \in 1 .. (tokens'[j].expiresAt - 1)
                    /\ tokens'[j].status = "expired" => clock' > tokens'[j].expiresAt
  BY DEF SettledInTime
<1>1. /\ clock \in Nat /\ clock' \in Nat /\ clock' >= clock
      /\ tokens[j] \in TokenRecord /\ tokens[j].expiresAt \in Nat
  BY FrameStep DEF TypeOK, TokenRecord
<1>2. CASE tokens'[j] = tokens[j]
  BY <1>1, <1>2 DEF SettledInTime
<1>3. CASE Records(j)
  BY <1>3 DEF Records
<1>4. ASSUME NEW p \in Request, Expires(p, j)
      PROVE  /\ tokens'[j].status = "expired" /\ tokens'[j].expiresAt = tokens[j].expiresAt
             /\ clock > tokens[j].expiresAt
  BY <1>1, <1>4 DEF Expires, TokenRecord, LateIsLate, SeenIsOfRow
<1>5. ASSUME NEW p \in Request, Uses(p, j)
      PROVE  /\ tokens'[j].status = "used" /\ tokens'[j].expiresAt = tokens[j].expiresAt
             /\ tokens'[j].usedAt \in 1 .. readAt[p] /\ tokens[j].expiresAt > readAt[p]
             /\ readAt[p] \in Nat
  BY <1>1, <1>5 DEF Uses, TokenRecord, StampedBefore, TypeOK
<1>6. CASE \E p \in Request : Expires(p, j)
  BY <1>1, <1>4, <1>6
<1>7. CASE \E p \in Request : Uses(p, j)
  BY <1>1, <1>5, <1>7
<1> QED
  BY <1>2, <1>3, <1>6, <1>7, RowStep DEF RowMove

-----------------------------------------------------------------------------
(* The theorems *)

LEMMA InitIInv == Init => IInv
<1> SUFFICES ASSUME Init PROVE IInv
  OBVIOUS
<1>1. TypeOK
  BY DEF Init, TypeOK, TokenRecord, Absent, Types
<1> QED
  BY <1>1 DEF Init, IInv, IssueOrder, SeenIsOfRow, LateIsLate, StampedBefore, AnsweredLast,
     ConsumedIsUsed, OneConsumer, SettledInTime, Consumed, Absent

LEMMA Inductive == Spec => []IInv
<1>1. IInv /\ TypeOK' /\ [Next]_vars => IInv'
  BY IssueOrderStep, SeenIsOfRowStep, LateIsLateStep, StampedBeforeStep, AnsweredLastStep,
     ConsumedIsUsedStep, OneConsumerStep, SettledInTimeStep DEF IInv
<1> QED
  BY <1>1, InitIInv, TypeCorrect, PTL DEF Spec

\* However many requests race, one consumes a token: at most one is told "ok",
\* and only its consumption is logged.
THEOREM OneConsumerHolds == Spec => []OneConsumer
<1>1. IInv => OneConsumer
  BY DEF IInv
<1> QED
  BY <1>1, Inductive, PTL

\* The use of a token is stamped before its expiry; it is expired only after it.
THEOREM SettledInTimeHolds == Spec => []SettledInTime
<1>1. IInv => SettledInTime
  BY DEF IInv
<1> QED
  BY <1>1, Inductive, PTL

\* A delivered link has its user, its token row and its metadata.
THEOREM LinkIsBackedHolds == Spec => []LinkIsBacked
<1>1. IInv => LinkIsBacked
  BY DEF IInv, IssueOrder, LinkIsBacked
<1> QED
  BY <1>1, Inductive, PTL

\* A used or expired row is never touched again.
THEOREM SettledForGoodHolds == Spec => SettledForGood
<1>1. IInv /\ [Next]_vars =>
          [\A j \in Token : tokens[j].status \in {"used", "expired"} => tokens'[j] = tokens[j]]_vars
  BY UsedStays DEF IInv
<1> QED
  BY <1>1, Inductive, PTL DEF Spec, SettledForGood

-----------------------------------------------------------------------------
(* The promise: UserTokens implements OneTimeToken *)

\* A record read as expired was late when it was read; a stamp lies in the past;
\* only who came to consume goes on to the statement; links are presented when
\* they have been delivered.
SeenLate ==
    \A p \in Request : seen[p].status = "expired" => clock > seen[p].expiresAt
StampsPast == \A p \in Request : usedAt[p] <= clock
ModeFits ==
    \A p \in Request :
        pc[p] \in {"consuming", "stating", "conflict"} => job[p].mode = "consume"
Presented ==
    \A p \in Request : pc[p] # "idle" => onboard[job[p].tok].stage = "delivered"

TellInv == IInv /\ SeenLate /\ StampsPast /\ ModeFits /\ Presented

LEMMA SeenLateStep ==
    ASSUME IInv, SeenLate, [Next]_vars
    PROVE  SeenLate'
<1> SUFFICES ASSUME NEW p \in Request, seen'[p].status = "expired"
             PROVE  clock' > seen'[p].expiresAt
  BY DEF SeenLate
<1>1. TypeOK /\ clock \in Nat /\ clock' \in Nat /\ clock' >= clock
  BY FrameStep DEF IInv
<1>2. job[p].tok \in Token /\ Lookup(job[p].tok, job[p].type) \in TokenRecord
      /\ seen[p] \in TokenRecord
  BY <1>1, LookupType DEF TypeOK
<1>3. seen'[p] = seen[p] \/ seen'[p] = Lookup(job[p].tok, job[p].type)
  BY <1>1, <1>2, RequestStep DEF RequestMove, Absent
<1>4. CASE seen'[p] = seen[p]
  <2>1. seen[p].expiresAt \in Nat
    BY <1>2 DEF TokenRecord
  <2> QED
    BY <1>1, <1>4, <2>1 DEF SeenLate
<1>5. CASE seen'[p] = Lookup(job[p].tok, job[p].type)
  <2>1. seen'[p] = tokens[job[p].tok] /\ tokens[job[p].tok].expiresAt \in Nat
    BY <1>1, <1>2, <1>5 DEF Lookup, Absent, TypeOK, TokenRecord
  <2> QED
    BY <1>1, <1>2, <2>1 DEF IInv, SettledInTime
<1> QED
  BY <1>3, <1>4, <1>5

LEMMA StampsPastStep ==
    ASSUME TypeOK, StampsPast, [Next]_vars
    PROVE  StampsPast'
<1> SUFFICES ASSUME NEW p \in Request PROVE usedAt'[p] <= clock'
  BY DEF StampsPast
<1>1. usedAt[p] \in Nat /\ clock \in Nat /\ clock' \in Nat /\ clock' >= clock
  BY FrameStep DEF TypeOK
<1>2. usedAt'[p] \in {usedAt[p], clock}
  BY RequestStep DEF RequestMove
<1> QED
  BY <1>1, <1>2 DEF StampsPast

LEMMA ModeFitsStep ==
    ASSUME TypeOK, ModeFits, [Next]_vars
    PROVE  ModeFits'
<1> SUFFICES ASSUME NEW p \in Request, pc'[p] \in {"consuming", "stating", "conflict"}
             PROVE  job'[p].mode = "consume"
  BY DEF ModeFits
<1>1. UNCHANGED job /\ pc \in [Request -> Places]
  BY FrameStep DEF TypeOK, Places
<1>2. CASE pc[p] \in {"consuming", "stating", "conflict"}
  BY <1>1, <1>2 DEF ModeFits
<1>3. CASE pc[p] = "loaded" /\ pc'[p] = "consuming"
  <2>1. StampUse(p)
    <3>1. \A q \in Request : Step(q) /\ q # p => pc'[p] = pc[p]
      BY <1>1 DEF Step, Start, Execute, Crash, GetTokenByJTI, LoadUsableToken, RefuseLoaded,
         MarkExpired, AnswerValid, StampUse, ReadClock, Consume, ReportConflict, LogConsumption, Goto, Reply
    <3>2. Step(p)
      BY <1>3, <3>1 DEF Next, Step, Tick, vars, localVars, Issue, CreateUser, IssueLink,
         RecordToken, AttachMetadata
    <3> QED
      BY <1>1, <1>3, <3>2 DEF Step, Start, Execute, Crash, GetTokenByJTI, LoadUsableToken,
         RefuseLoaded, MarkExpired, AnswerValid, ReadClock, Consume, ReportConflict, LogConsumption,
         Goto, Reply
  <2> QED
    BY <1>1, <2>1 DEF StampUse
<1> QED
  BY <1>2, <1>3, RequestStep DEF RequestMove, Goes

\* An onboarding that has delivered its link makes no further step.
LEMMA PresentedStep ==
    ASSUME TypeOK, Presented, [Next]_vars
    PROVE  Presented'
<1> SUFFICES ASSUME NEW p \in Request, pc'[p] # "idle"
             PROVE  onboard'[job'[p].tok].stage = "delivered"
  BY DEF Presented
<1>1. UNCHANGED job /\ job[p].tok \in Token /\ onboard \in [Token -> Onboarding]
      /\ pc \in [Request -> Places]
  BY FrameStep, LookupType, TypeParts DEF TableType, LocalType
<1>2. ASSUME NEW k \in Token, Issue(k) PROVE onboard'[job'[p].tok].stage = "delivered"
  <2>1. onboard[job[p].tok].stage = "delivered"
    BY <1>2 DEF Presented, Issue, CreateUser, IssueLink, RecordToken, AttachMetadata, localVars
  <2>2. onboard[k].stage # "delivered"
    BY <1>2 DEF Issue, CreateUser, IssueLink, RecordToken, AttachMetadata
  <2>3. onboard'[job[p].tok] = onboard[job[p].tok]
    BY <1>1, <1>2, <2>1, <2>2 DEF Issue, CreateUser, IssueLink, RecordToken, AttachMetadata, Stage
  <2> QED
    BY <1>1, <2>1, <2>3
<1>3. ASSUME NEW q \in Request, Step(q) PROVE onboard'[job'[p].tok].stage = "delivered"
  <2>1. UNCHANGED onboard
    BY <1>3 DEF Step, Start, Execute, Crash, GetTokenByJTI, LoadUsableToken, RefuseLoaded,
       MarkExpired, AnswerValid, StampUse, ReadClock, Consume, ReportConflict, LogConsumption, issueVars
  <2>2. CASE pc[p] # "idle"
    BY <1>1, <2>1, <2>2 DEF Presented
  <2>3. CASE pc[p] = "idle"
    <3>1. q = p
      BY <1>1, <1>3, <2>3 DEF Step, Start, Execute, Crash, GetTokenByJTI, LoadUsableToken,
         RefuseLoaded, MarkExpired, AnswerValid, StampUse, ReadClock, Consume, ReportConflict,
         LogConsumption, Goto, Reply
    <3>2. Start(p)
      BY <1>3, <2>3, <3>1 DEF Step, Execute, Crash, GetTokenByJTI, LoadUsableToken, RefuseLoaded,
         MarkExpired, AnswerValid, StampUse, ReadClock, Consume, ReportConflict, LogConsumption
    <3> QED
      BY <1>1, <2>1, <3>2 DEF Start
  <2> QED
    BY <2>2, <2>3
<1>4. CASE UNCHANGED <<onboard, pc>>
  BY <1>1, <1>4 DEF Presented
<1> QED
  BY <1>2, <1>3, <1>4 DEF Next, Step, Tick, vars, localVars, issueVars

LEMMA TellInductive == Spec => []TellInv
<1>1. Init => TellInv
  BY InitIInv DEF Init, TellInv, SeenLate, StampsPast, ModeFits, Presented, Absent
<1>2. TellInv /\ IInv' /\ [Next]_vars => TellInv'
  <2>1. IInv => TypeOK
    BY DEF IInv
  <2> QED
    BY <2>1, SeenLateStep, StampsPastStep, ModeFitsStep, PresentedStep DEF TellInv
<1> QED
  BY <1>1, <1>2, Inductive, PTL DEF Spec

-----------------------------------------------------------------------------
(* The refinement, step by step *)

Redeems(p) == job[p].mode = "consume"

\* What a step of request p for token j is on the other side.
PromiseMove(p, j, from, to) ==
    \/ /\ Registered(tokens'[j]) = Registered(tokens[j])
       /\ \/ to = from
          \/ from = "out" /\ to = "in" /\ Registered(tokens[j]) # "none" /\ j \in Ready
          \/ from = "in" /\ to = "saw" /\ Registered(tokens[j]) = "open"
          \/ from = "saw" /\ to = "valid" /\ ~Redeems(p)
          \/ from = "won" /\ to = "yes"
          \/ from \in {"in", "saw"} /\ to = "late" /\ j \in Over
          \/ from \in {"out", "in", "saw", "timed", "won"} /\ to = "no"
          \/ from = "saw" /\ to = "timed" /\ Redeems(p) /\ j \notin Over
          \/ from = "timed" /\ to = "saw"
    \/ /\ from = "timed" /\ to \in {"won", "no"}
       /\ Registered(tokens[j]) = "open" /\ Registered(tokens'[j]) = "spent"
    \/ /\ from = "saw" /\ to = "late" /\ j \in Over
       /\ Registered(tokens[j]) = "open" /\ Registered(tokens'[j]) = "lapsed"

\* Each status has a state of the register of its own.
LEMMA RegisteredIs ==
    ASSUME NEW rec \in TokenRecord
    PROVE  /\ Registered(rec) = "none" <=> rec.status = "absent"
           /\ Registered(rec) = "open" <=> rec.status = "issued"
           /\ Registered(rec) = "spent" <=> rec.status = "used"
           /\ Registered(rec) = "lapsed" <=> rec.status = "expired"
  BY DEF TokenRecord, Registered

\* Where the places of a request stand.
LEMMA StageIs ==
    ASSUME NEW p \in Request
    PROVE  /\ pc[p] = "idle" => StageOf(p) = "out"
           /\ pc[p] = "resolving" => StageOf(p) = "in"
           /\ pc[p] = "validating" =>
                 StageOf(p) = IF seen[p].status = "issued" THEN "saw" ELSE "in"
           /\ pc[p] \in {"expiring", "loaded", "consuming", "conflict"} => StageOf(p) = "saw"
           /\ pc[p] = "stating" =>
                 StageOf(p) = IF tokens[job[p].tok].expiresAt > readAt[p] THEN "timed" ELSE "saw"
           /\ pc[p] = "consumed" => StageOf(p) = "won"
           /\ pc[p] = "crashed" => StageOf(p) = "no"
           /\ pc[p] = "done" =>
                 /\ answer[p] = "ok" => StageOf(p) = "yes"
                 /\ answer[p] = "valid" => StageOf(p) = "valid"
                 /\ answer[p] = "expired" => StageOf(p) = "late"
                 /\ answer[p] \notin {"ok", "valid", "expired"} => StageOf(p) = "no"
  BY DEF StageOf

LEMMA StageIsNext ==
    ASSUME NEW p \in Request
    PROVE  /\ pc'[p] = "resolving" => StageOf(p)' = "in"
           /\ pc'[p] = "validating" =>
                 StageOf(p)' = IF seen'[p].status = "issued" THEN "saw" ELSE "in"
           /\ pc'[p] \in {"expiring", "loaded", "consuming", "conflict"} => StageOf(p)' = "saw"
           /\ pc'[p] = "stating" =>
                 StageOf(p)' = IF tokens'[job'[p].tok].expiresAt > readAt'[p] THEN "timed" ELSE "saw"
           /\ pc'[p] = "consumed" => StageOf(p)' = "won"
           /\ pc'[p] = "crashed" => StageOf(p)' = "no"
           /\ pc'[p] = "done" =>
                 /\ answer'[p] = "ok" => StageOf(p)' = "yes"
                 /\ answer'[p] = "valid" => StageOf(p)' = "valid"
                 /\ answer'[p] = "expired" => StageOf(p)' = "late"
                 /\ answer'[p] \notin {"ok", "valid", "expired"} => StageOf(p)' = "no"
  BY DEF StageOf

\* A request that says "expired" says it of a token whose time is over.
LEMMA LateIsOver ==
    ASSUME TellInv, NEW p \in Request
    PROVE  /\ pc[p] = "expiring" => job[p].tok \in Over
           /\ seen[p].status = "expired" => job[p].tok \in Over
           /\ ConflictVerdict(Lookup(job[p].tok, job[p].type), usedAt[p]) = "expired"
                 => job[p].tok \in Over
<1>1. PICK j \in Token : job[p].tok = j
  BY LookupType DEF TellInv, IInv
<1>2. /\ tokens[j] \in TokenRecord /\ seen[p] \in TokenRecord /\ clock \in Nat
      /\ usedAt[p] \in Nat /\ usedAt[p] <= clock
  BY DEF TellInv, IInv, TypeOK, StampsPast
<1>3. tokens[j].expiresAt \in Nat /\ seen[p].expiresAt \in Nat
  BY <1>2 DEF TokenRecord
<1>4. ASSUME tokens[j].status # "absent", tokens[j].expiresAt <= clock PROVE j \in Over
  BY <1>4 DEF Over
<1>5. ASSUME seen[p].status # "absent", clock > seen[p].expiresAt PROVE j \in Over
  BY <1>1, <1>3, <1>4, <1>2, <1>5 DEF TellInv, IInv, SeenIsOfRow
<1>6. CASE Lookup(j, job[p].type) = Absent
  BY <1>1, <1>2, <1>5, <1>6 DEF TellInv, IInv, LateIsLate, SeenLate, ConflictVerdict, Absent
<1>7. CASE Lookup(j, job[p].type) = tokens[j] /\ tokens[j].status # "absent"
  <2>1. tokens[j].status = "expired" => clock > tokens[j].expiresAt
    BY DEF TellInv, IInv, SettledInTime
  <2>2. ASSUME ConflictVerdict(tokens[j], usedAt[p]) = "expired" PROVE tokens[j].expiresAt <= clock
    BY <1>2, <1>3, <2>1, <2>2 DEF ConflictVerdict
  <2> QED
    BY <1>1, <1>2, <1>4, <1>5, <1>7, <2>2 DEF TellInv, IInv, LateIsLate, SeenLate
<1> QED
  BY <1>1, <1>6, <1>7 DEF Lookup

\* A conditional statement on the row of a token, on the other side.
LEMMA StatementMaps ==
    ASSUME TypeOK, NEW p \in Request, NEW status \in {"used", "expired"}, NEW at \in Nat,
           NEW now \in Nat, UpdateTokenStatus(p, status, at, now)
    PROVE  LET j == job[p].tok IN
           /\ Registered(tokens[j]) = "open"
           /\ status = "used" => tokens[j].expiresAt > now /\ Registered(tokens'[j]) = "spent"
           /\ status = "expired" => Registered(tokens'[j]) = "lapsed"
<1>1. PICK j \in Token : job[p].tok = j
  BY LookupType
<1>2. tokens[j] \in TokenRecord /\ tokens[j].expiresAt \in Nat /\ clock \in Nat
  BY DEF TypeOK, TokenRecord
<1>3. /\ tokens[j].status = "issued" /\ (status = "used" => tokens[j].expiresAt > now)
      /\ tokens'[j] = [tokens[j] EXCEPT !.status = status, !.usedAt = at]
  <2>1. /\ tokens[job[p].tok].status = "issued"
        /\ status = "used" => tokens[job[p].tok].expiresAt > now
        /\ tokens'[job[p].tok] = [tokens[job[p].tok] EXCEPT !.status = status, !.usedAt = at]
    <3>1. CASE status = "used"
      BY <3>1, UpdateStep
    <3>2. CASE status = "expired"
      BY <3>2, UpdateStep
    <3> QED
      BY <3>1, <3>2
  <2> QED
    BY <1>1, <2>1
<1>4. tokens'[j] \in TokenRecord /\ tokens'[j].status = status
  BY <1>2, <1>3 DEF TokenRecord
<1> QED
  BY <1>1, <1>2, <1>3, <1>4, RegisteredIs

\* A request's own steps.
LEMMA OwnMoves ==
    ASSUME TellInv, NEW p \in Request, Step(p)
    PROVE  PromiseMove(p, job[p].tok, StageOf(p), StageOf(p)')
<1>1. PICK j \in Token : job[p].tok = j
  BY LookupType DEF TellInv, IInv
<1>2. /\ TypeOK /\ tokens[j] \in TokenRecord /\ seen[p] \in TokenRecord /\ clock \in Nat
      /\ usedAt[p] \in Nat /\ readAt[p] \in Nat /\ readAt \in [Request -> Nat]
      /\ pc \in [Request -> Places] /\ answer \in [Request -> Answers]
      /\ seen \in [Request -> TokenRecord]
  BY DEF TellInv, IInv, TypeOK, Places, Answers
<1>3. /\ \A place \in Places : Goto(p, place) => pc'[p] = place
      /\ \A what \in Answers : Reply(p, what) => pc'[p] = "done" /\ answer'[p] = what
  BY <1>2 DEF Goto, Reply
<1>4. {"resolving", "validating", "expiring", "loaded", "consuming", "stating", "consumed",
       "conflict", "crashed"} \subseteq Places
  BY DEF Places
<1>5. {"ok", "valid", "error", "refused", "not_found", "already_used", "expired"} \subseteq Answers
  BY DEF Answers
<1> DEFINE from == StageOf(p)
           to == StageOf(p)'
<1>6. pc[p] \in Places \ {"idle", "done", "crashed"} => from \in {"in", "saw", "timed", "won"}
  BY StageIs DEF Places
<1>7. CASE Start(p)
  <2>1. onboard[j].stage = "delivered" /\ pc[p] = "idle" /\ UNCHANGED tokens
    BY <1>1, <1>7 DEF Start
  <2>2. Registered(tokens[j]) # "none" /\ j \in Ready
    BY <1>2, <2>1, RegisteredIs DEF TellInv, IInv, IssueOrder, Ready
  <2>3. from = "out" /\ to \in {"in", "no"}
    BY <1>3, <1>4, <1>5, <1>7, <2>1, StageIs, StageIsNext DEF Start
  <2> QED
    BY <1>1, <2>1, <2>2, <2>3 DEF PromiseMove
<1>8. CASE GetTokenByJTI(p)
  <2>1. from = "in" /\ UNCHANGED tokens
    BY <1>8, StageIs DEF GetTokenByJTI
  <2>2. CASE Goto(p, "validating") /\ seen' = [seen EXCEPT ![p] = Lookup(j, job[p].type)]
    <3>1. pc'[p] = "validating" /\ seen'[p] = Lookup(j, job[p].type)
      BY <1>2, <1>3, <1>4, <2>2
    <3>2. seen'[p].status = "issued" => tokens[j].status = "issued"
      BY <3>1 DEF Lookup, Absent
    <3>3. to = "in" \/ (to = "saw" /\ Registered(tokens[j]) = "open")
      BY <1>2, <3>1, <3>2, StageIsNext, RegisteredIs
    <3> QED
      BY <1>1, <2>1, <3>3 DEF PromiseMove
  <2>3. CASE Reply(p, "error")
    <3>1. to = "no"
      BY <1>3, <1>5, <2>3, StageIsNext
    <3> QED
      BY <1>1, <2>1, <3>1 DEF PromiseMove
  <2> QED
    BY <1>1, <1>8, <2>2, <2>3 DEF GetTokenByJTI
<1>9. CASE LoadUsableToken(p)
  <2>1. /\ pc[p] = "validating" /\ UNCHANGED tokens
        /\ from = IF seen[p].status = "issued" THEN "saw" ELSE "in"
    BY <1>9, StageIs DEF LoadUsableToken
  <2> DEFINE verdict == Verdict(seen[p], clock)
  <2>2. /\ verdict \in {"late", "usable", "not_found", "already_used", "expired"}
        /\ verdict \in {"late", "usable"} => seen[p].status = "issued"
        /\ verdict = "expired" => seen[p].status = "expired"
    BY <1>2 DEF Verdict, TokenRecord
  <2>3. CASE verdict = "late" /\ Goto(p, "expiring")
    BY <1>1, <1>3, <1>4, <2>1, <2>2, <2>3, StageIsNext DEF PromiseMove
  <2>4. CASE verdict = "usable" /\ Goto(p, "loaded")
    BY <1>1, <1>3, <1>4, <2>1, <2>2, <2>4, StageIsNext DEF PromiseMove
  <2>5. CASE verdict \notin {"late", "usable"} /\ Reply(p, verdict)
    <3>1. pc'[p] = "done" /\ answer'[p] = verdict
      BY <1>3, <1>5, <2>2, <2>5
    <3>2. to = "no" \/ (to = "late" /\ j \in Over)
      BY <1>1, <2>2, <2>5, <3>1, StageIsNext, LateIsOver
    <3> QED
      BY <1>1, <2>1, <3>2 DEF PromiseMove
  <2> QED
    BY <1>9, <2>3, <2>4, <2>5 DEF LoadUsableToken
<1>10. CASE RefuseLoaded(p)
  BY <1>1, <1>3, <1>5, <1>10, StageIs, StageIsNext DEF RefuseLoaded, PromiseMove
<1>11. CASE AnswerValid(p)
  BY <1>1, <1>3, <1>5, <1>11, StageIs, StageIsNext DEF AnswerValid, PromiseMove, Redeems
<1>12. CASE MarkExpired(p)
  <2>1. from = "saw" /\ to = "late" /\ j \in Over
    BY <1>1, <1>3, <1>5, <1>12, StageIs, StageIsNext, LateIsOver DEF MarkExpired
  <2>2. \/ UNCHANGED tokens
        \/ Registered(tokens[j]) = "open" /\ Registered(tokens'[j]) = "lapsed"
    <3>1. 0 \in Nat
      OBVIOUS
    <3> QED
      BY <1>1, <1>2, <1>12, <3>1, StatementMaps DEF MarkExpired
  <2> QED
    BY <1>1, <2>1, <2>2 DEF PromiseMove
<1>13. CASE StampUse(p)
  BY <1>1, <1>3, <1>4, <1>13, StageIs, StageIsNext DEF StampUse, PromiseMove
<1>18. CASE ReadClock(p)
  <2>1. /\ from = "saw" /\ Redeems(p) /\ UNCHANGED <<tokens, job>>
        /\ pc'[p] = "stating" /\ readAt'[p] = clock
    BY <1>2, <1>3, <1>4, <1>18, StageIs DEF ReadClock, Redeems, TellInv, ModeFits
  <2>2. to = IF tokens[j].expiresAt > clock THEN "timed" ELSE "saw"
    BY <1>1, <2>1, StageIsNext
  <2>3. tokens[j].expiresAt > clock => j \notin Over
    <3>1. tokens[j].expiresAt \in Nat
      BY <1>2 DEF TokenRecord
    <3> QED
      BY <1>2, <3>1 DEF Over
  <2> QED
    BY <1>1, <2>1, <2>2, <2>3 DEF PromiseMove
<1>14. CASE Consume(p)
  <2>1. from = IF tokens[j].expiresAt > readAt[p] THEN "timed" ELSE "saw"
    BY <1>1, <1>14, StageIs DEF Consume
  <2>2. CASE UpdateTokenStatus(p, "used", usedAt[p], readAt[p])
    <3>1. Registered(tokens[j]) = "open" /\ Registered(tokens'[j]) = "spent" /\ from = "timed"
      BY <1>1, <1>2, <2>1, <2>2, StatementMaps
    <3>2. to \in {"won", "no"}
      <4>1. tokens' # tokens
        BY <3>1
      <4>2. Goto(p, "consumed") \/ Reply(p, "error")
        BY <1>14, <4>1 DEF Consume
      <4> QED
        BY <1>3, <1>4, <1>5, <4>2, StageIsNext
    <3> QED
      BY <1>1, <2>1, <3>1, <3>2 DEF PromiseMove
  <2>3. CASE UNCHANGED tokens /\ (Goto(p, "conflict") \/ Reply(p, "error"))
    <3>1. to \in {"saw", "no"}
      BY <1>3, <1>4, <1>5, <2>3, StageIsNext
    <3> QED
      BY <1>1, <2>1, <2>3, <3>1 DEF PromiseMove
  <2> QED
    BY <1>14, <2>2, <2>3 DEF Consume
<1>15. CASE ReportConflict(p)
  <2>1. from = "saw" /\ UNCHANGED tokens
    BY <1>15, StageIs DEF ReportConflict
  <2> DEFINE verdict == ConflictVerdict(Lookup(j, job[p].type), usedAt[p])
  <2>2. verdict \in {"not_found", "expired", "already_used"}
    BY DEF ConflictVerdict
  <2>3. CASE Reply(p, verdict)
    <3>1. to = "no" \/ (to = "late" /\ verdict = "expired")
      BY <1>3, <1>5, <2>2, <2>3, StageIsNext
    <3> QED
      BY <1>1, <2>1, <3>1, LateIsOver DEF PromiseMove
  <2>4. CASE Reply(p, "already_used")
    BY <1>1, <1>3, <1>5, <2>1, <2>4, StageIsNext DEF PromiseMove
  <2> QED
    BY <1>1, <1>15, <2>3, <2>4 DEF ReportConflict
<1>16. CASE LogConsumption(p)
  BY <1>1, <1>3, <1>5, <1>16, StageIs, StageIsNext DEF LogConsumption, PromiseMove
<1>17. CASE Crash(p)
  <2>1. to = "no" /\ UNCHANGED tokens /\ from \in {"in", "saw", "timed", "won"}
    BY <1>2, <1>3, <1>4, <1>6, <1>17, StageIsNext DEF Crash
  <2> QED
    BY <1>1, <2>1 DEF PromiseMove
<1> QED
  BY <1>7, <1>8, <1>9, <1>10, <1>11, <1>12, <1>13, <1>14, <1>15, <1>16, <1>17, <1>18
     DEF Step, Execute

\* A row keeps its expiry, and stays on record.
LEMMA RowsKeepTime ==
    ASSUME IInv, [Next]_vars, NEW j \in Token, tokens[j].status # "absent"
    PROVE  tokens'[j].status # "absent" /\ tokens'[j].expiresAt = tokens[j].expiresAt
<1>1. TypeOK /\ tokens[j] \in TokenRecord
  BY DEF IInv, TypeOK
<1>2. ~Records(j)
  BY DEF IInv, IssueOrder, Records
<1>3. ASSUME NEW p \in Request, Expires(p, j) \/ Uses(p, j)
      PROVE  tokens'[j].status # "absent" /\ tokens'[j].expiresAt = tokens[j].expiresAt
  BY <1>1, <1>3 DEF Expires, Uses, TokenRecord
<1> QED
  BY <1>1, <1>2, <1>3, RowStep DEF RowMove

\* Only the token's own row, and only the request's own stage.
LEMMA OthersStay ==
    ASSUME TellInv, NEW p \in Request, Step(p)
    PROVE  /\ UNCHANGED <<clock, job, users>>
           /\ \A q \in Request \ {p} : StageOf(q)' = StageOf(q)
           /\ \A k \in Token \ {job[p].tok} : tokens'[k] = tokens[k]
<1>1. UNCHANGED <<clock, job, users>>
  BY DEF Step, Start, Execute, Crash, GetTokenByJTI, LoadUsableToken, RefuseLoaded,
     MarkExpired, AnswerValid, StampUse, ReadClock, Consume, ReportConflict, LogConsumption, issueVars
<1>4. TypeOK /\ IInv /\ [Next]_vars
  BY DEF TellInv, IInv, Step, Next
<1>2. ASSUME NEW q \in Request \ {p} PROVE StageOf(q)' = StageOf(q)
  <2>1. UNCHANGED <<pc[q], seen[q], readAt[q], answer[q]>>
    BY <1>4 DEF TypeOK, Step, Start, Execute, Crash, GetTokenByJTI, LoadUsableToken, RefuseLoaded,
       MarkExpired, AnswerValid, StampUse, ReadClock, Consume, ReportConflict, LogConsumption, Goto, Reply
  <2>2. pc[q] = "stating" => tokens'[job[q].tok].expiresAt = tokens[job[q].tok].expiresAt
    <3>1. pc[q] = "stating" => tokens[job[q].tok].status # "absent"
      BY <1>4, LookupType DEF TellInv, IInv, Presented, IssueOrder
    <3> QED
      BY <1>4, <3>1, LookupType, RowsKeepTime
  <2> QED
    BY <1>1, <2>1, <2>2 DEF StageOf
<1>3. ASSUME NEW k \in Token \ {job[p].tok} PROVE tokens'[k] = tokens[k]
  <2>1. UNCHANGED tokens \/ KeepsOthers(job[p].tok)
    BY <1>4, RequestRows DEF Step
  <2>2. job[p].tok \in Token /\ tokens \in [Token -> TokenRecord]
    BY <1>4, LookupType DEF TypeOK
  <2> QED
    BY <2>1, <2>2 DEF KeepsOthers
<1> QED
  BY <1>1, <1>2, <1>3

Register == [j \in Token |-> Registered(tokens[j])]
StageMap == [p \in Request |-> StageOf(p)]
AskMap == [p \in Request |-> [token |-> job[p].tok, redeem |-> job[p].mode = "consume"]]

\* A move of one request, everything else as it was, is a step of OneTimeToken.
LEMMA MoveMaps ==
    ASSUME TypeOK, NEW p \in Request, NEW j \in Token, job[p].tok = j,
           PromiseMove(p, j, StageMap[p], StageMap'[p]),
           \A q \in Request \ {p} : StageMap'[q] = StageMap[q],
           \A k \in Token \ {j} : Register'[k] = Register[k],
           AskMap' = AskMap, Over' = Over, Ready' = Ready
    PROVE  [Promise!Next]_(Promise!vars)
<1> DEFINE r == Register[j]
           s == StageMap[p]
           rr == Register'[j]
           ss == StageMap'[p]
<1>1. Register' = [Register EXCEPT ![j] = rr]
  BY DEF Register
<1>2. StageMap' = [StageMap EXCEPT ![p] = ss]
  BY DEF StageMap
<1>3. rr = r => Register' = Register
  BY DEF Register
<1>4. ss = s => StageMap' = StageMap
  BY DEF StageMap
<1>5. /\ r = Registered(tokens[j]) /\ rr = Registered(tokens'[j])
      /\ AskMap[p].token = j /\ (AskMap[p].redeem <=> Redeems(p))
  BY DEF Register, AskMap, Redeems
<1>6. /\ Promise!vars = <<Register, Over, Ready, StageMap, AskMap>>
      /\ Promise!vars' = <<Register', Over', Ready', StageMap', AskMap'>>
  BY DEF Promise!vars, Register, StageMap, AskMap
<1>7. Promise!Goes(p, ss)
  BY <1>2 DEF Promise!Goes, StageMap
<1> HIDE DEF r, s, rr, ss
<1>8. CASE rr = r /\ ss = s
  BY <1>3, <1>4, <1>6, <1>8
<1>9. CASE rr = r /\ s = "out" /\ ss = "in" /\ r # "none" /\ j \in Ready
  <2>1. Promise!Enter(p)
    BY <1>3, <1>5, <1>7, <1>9 DEF Promise!Enter, Register, StageMap, AskMap, r, s
  <2> QED
    BY <2>1 DEF Promise!Next
<1>10. CASE rr = r /\ s = "in" /\ ss = "saw" /\ r = "open"
  <2>1. Promise!See(p)
    BY <1>3, <1>5, <1>7, <1>10 DEF Promise!See, Register, StageMap, AskMap, r, s
  <2> QED
    BY <2>1 DEF Promise!Next
<1>11. CASE /\ rr = r
            /\ \/ s = "saw" /\ ss = "valid" /\ ~Redeems(p)
               \/ s = "won" /\ ss = "yes"
               \/ s \in {"in", "saw"} /\ ss = "late" /\ j \in Over
               \/ s \in {"out", "in", "saw", "timed", "won"} /\ ss = "no"
  <2>1. Promise!Tell(p)
    BY <1>3, <1>5, <1>7, <1>11 DEF Promise!Tell, Register, StageMap, AskMap, s
  <2> QED
    BY <2>1 DEF Promise!Next
<1>14. CASE rr = r /\ s = "saw" /\ ss = "timed" /\ Redeems(p) /\ j \notin Over
  <2>1. Promise!FindInTime(p)
    BY <1>3, <1>5, <1>7, <1>14 DEF Promise!FindInTime, Register, StageMap, AskMap, s
  <2> QED
    BY <2>1 DEF Promise!Next
<1>15. CASE rr = r /\ s = "timed" /\ ss = "saw"
  <2>1. Promise!Miss(p)
    BY <1>3, <1>7, <1>15 DEF Promise!Miss, Register, StageMap, AskMap, s
  <2> QED
    BY <2>1 DEF Promise!Next
<1>12. CASE s = "timed" /\ ss \in {"won", "no"} /\ r = "open" /\ rr = "spent"
  <2>1. Promise!Redeem(p)
    BY <1>1, <1>5, <1>7, <1>12 DEF Promise!Redeem, Register, StageMap, AskMap, r, s
  <2> QED
    BY <2>1 DEF Promise!Next
<1>13. CASE s = "saw" /\ ss = "late" /\ j \in Over /\ r = "open" /\ rr = "lapsed"
  <2>1. Promise!Lapse(p)
    BY <1>1, <1>5, <1>7, <1>13 DEF Promise!Lapse, Register, StageMap, AskMap, r, s
  <2> QED
    BY <2>1 DEF Promise!Next
<1> QED
  BY <1>5, <1>8, <1>9, <1>10, <1>11, <1>12, <1>13, <1>14, <1>15
     DEF PromiseMove, s, ss

\* Putting a token on record opens it, late or not.
LEMMA RecordMaps ==
    ASSUME TellInv, NEW j \in Token, onboard[j].stage = "stamped", CreateToken(j),
           UNCHANGED <<clock, users, localVars>>
    PROVE  Promise!Open(j)
<1>1. /\ onboard[j].expiresAt \in Nat /\ clock \in Nat /\ tokens \in [Token -> TokenRecord]
      /\ onboard[j].type \in Types
  BY DEF TellInv, IInv, TypeOK
<1>2. tokens[j].status = "absent" /\ tokens'[j].status = "issued"
      /\ \A k \in Token \ {j} : tokens'[k] = tokens[k]
  BY <1>1 DEF TellInv, IInv, IssueOrder, CreateToken
<1>3. Registered(tokens[j]) = "none" /\ Registered(tokens'[j]) = "open"
  BY <1>2 DEF Registered
<1>4. Register' = [Register EXCEPT ![j] = "open"]
  BY <1>2, <1>3 DEF Register
<1>5. j \notin Over /\ Over' \in {Over, Over \cup {j}}
  <2>1. \A k \in Token \ {j} : k \in Over' <=> k \in Over
    BY <1>2 DEF Over
  <2>2. j \notin Over
    BY <1>2 DEF Over
  <2>3. Over \subseteq Token /\ Over' \subseteq Token
    BY DEF Over
  <2>4. CASE j \in Over'
    BY <2>1, <2>2, <2>3, <2>4
  <2>5. CASE j \notin Over'
    BY <2>1, <2>2, <2>3, <2>5
  <2> QED
    BY <2>2, <2>4, <2>5
<1>6. UNCHANGED <<StageMap, AskMap, Ready>>
  <2>1. ASSUME NEW p \in Request PROVE StageOf(p)' = StageOf(p)
    <3>1. pc[p] # "idle" => job[p].tok # j
      BY DEF TellInv, Presented
    <3>2. job[p].tok \in Token
      BY LookupType DEF TellInv, IInv
    <3>3. UNCHANGED <<pc, seen, answer, readAt, job>>
      BY DEF localVars
    <3>4. pc[p] = "stating" => tokens'[job[p].tok] = tokens[job[p].tok]
      BY <1>2, <3>1, <3>2
    <3> QED
      BY <3>3, <3>4 DEF StageOf
  <2>2. UNCHANGED <<AskMap, Ready>>
    BY DEF AskMap, Ready, localVars
  <2> QED
    BY <2>1, <2>2 DEF StageMap
<1> QED
  BY <1>3, <1>4, <1>5, <1>6 DEF Promise!Open, Register, StageMap, AskMap

\* A write to the user of a token makes its owner ready at most.
LEMMA UserMaps ==
    ASSUME TypeOK, NEW j \in Token, CreateUser(j) \/ AttachMetadata(j)
    PROVE  [Promise!Next]_(Promise!vars)
<1>1. UNCHANGED <<clock, tokens, localVars>>
  BY DEF CreateUser, AttachMetadata
<1>2. UNCHANGED <<Register, Over, StageMap, AskMap>>
  BY <1>1 DEF Register, Over, StageMap, StageOf, AskMap, localVars
<1>3. /\ \A k \in Token \ {j} : users'[k] = users[k]
      /\ users[j].exists /\ users[j].metadata => users'[j].exists /\ users'[j].metadata
  BY DEF TypeOK, CreateUser, AttachMetadata
<1>4. Ready' = Ready \/ Ready' = Ready \cup {j}
  <2>1. \A k \in Token \ {j} : k \in Ready' <=> k \in Ready
    BY <1>3 DEF Ready
  <2>2. j \in Ready => j \in Ready'
    BY <1>3 DEF Ready
  <2>3. Ready \subseteq Token /\ Ready' \subseteq Token
    BY DEF Ready
  <2>4. CASE j \in Ready'
    BY <2>1, <2>3, <2>4
  <2>5. CASE j \notin Ready'
    BY <2>1, <2>2, <2>3, <2>5
  <2> QED
    BY <2>4, <2>5
<1>5. CASE Ready' = Ready
  BY <1>2, <1>5 DEF Promise!vars, Register, StageMap, AskMap
<1>6. CASE Ready' = Ready \cup {j}
  <2>1. Promise!Prepare(j)
    BY <1>2, <1>6 DEF Promise!Prepare, Register, StageMap, AskMap
  <2> QED
    BY <2>1 DEF Promise!Next
<1> QED
  BY <1>4, <1>5, <1>6

\* The clock only makes tokens on record late.
LEMMA TickMaps ==
    ASSUME IInv, Tick
    PROVE  Promise!Pass
<1>1. clock \in Nat /\ tokens \in [Token -> TokenRecord] /\ clock' = clock + 1
      /\ UNCHANGED <<tokens, users, pc, seen, readAt, answer, job>>
  BY DEF IInv, TypeOK, Tick, localVars, issueVars
<1>2. Over \subseteq Over'
  <2>1. \A j \in Token : tokens[j].expiresAt \in Nat
    BY <1>1 DEF TokenRecord
  <2> QED
    BY <1>1, <2>1 DEF Over
<1>3. Over' \in SUBSET {j \in Token : Register[j] # "none"}
  <2>1. \A j \in Over' : j \in Token /\ tokens[j].status # "absent"
    BY <1>1 DEF Over
  <2>2. \A j \in Token : tokens[j].status # "absent" => Register[j] # "none"
    BY <1>1, RegisteredIs DEF Register
  <2> QED
    BY <2>1, <2>2
<1>4. UNCHANGED <<Register, Ready, StageMap, AskMap>>
  BY <1>1 DEF Register, Ready, StageMap, StageOf, AskMap
<1>5. Over' = Over \cup Over'
  BY <1>2
<1> QED
  BY <1>3, <1>4, <1>5 DEF Promise!Pass, Register, StageMap, AskMap

\* Validation, conditional statements and faults implement the promise of
\* OneTimeToken: a link is presented only when its token is on record and its
\* user ready, a token is redeemed once, by a request that saw it open and whose
\* repository then read a time before its expiry, and callers are told "ok", "valid"
\* and "expired" only when it is so.
THEOREM TokenPromiseHolds == Spec => TokenPromiseKept
<1>1. Init => Promise!Init
  <2> SUFFICES ASSUME Init PROVE Promise!Init
    OBVIOUS
  <2>1. \A j \in Token : Registered(tokens[j]) = "none" /\ j \notin Over /\ j \notin Ready
    BY DEF Init, Absent, Registered, Over, Ready
  <2>2. \A p \in Request : StageOf(p) = "out"
    BY StageIs DEF Init
  <2>3. AskMap \in [Request -> [token : Token, redeem : BOOLEAN]]
    <3>1. \A p \in Request : job[p].tok \in Token /\ (job[p].mode = "consume") \in BOOLEAN
      BY DEF Init, Jobs
    <3> QED
      BY <3>1 DEF AskMap
  <2>4. Over = {} /\ Ready = {}
    BY <2>1 DEF Over, Ready
  <2> QED
    BY <2>1, <2>2, <2>3, <2>4 DEF Promise!Init, AskMap
<1>2. TellInv /\ [Next]_vars => [Promise!Next]_(Promise!vars)
  <2> SUFFICES ASSUME TellInv, [Next]_vars PROVE [Promise!Next]_(Promise!vars)
    OBVIOUS
  <2>1. IInv /\ TypeOK
    BY DEF TellInv, IInv
  <2>2. CASE UNCHANGED <<clock, tokens, users, localVars>>
    BY <2>2 DEF Promise!vars, StageOf, Over, Ready, localVars
  <2>3. CASE Tick
    BY <2>1, <2>3, TickMaps DEF Promise!Next
  <2>4. ASSUME NEW j \in Token, Issue(j) PROVE [Promise!Next]_(Promise!vars)
    <3>1. CASE onboard[j].stage = "stamped" /\ CreateToken(j) /\ UNCHANGED <<clock, users, localVars>>
      <4>1. Promise!Open(j)
        BY <3>1, RecordMaps
      <4> QED
        BY <4>1 DEF Promise!Next
    <3> QED
      BY <2>1, <2>2, <2>4, <3>1, UserMaps DEF Issue, IssueLink, RecordToken
  <2>5. ASSUME NEW p \in Request, Step(p) PROVE [Promise!Next]_(Promise!vars)
    <3>1. PICK j \in Token : job[p].tok = j
      BY <2>1, LookupType
    <3>2. UNCHANGED <<clock, job>> /\ AskMap' = AskMap /\ Ready' = Ready
      BY <2>5, OthersStay DEF AskMap, Ready
    <3>3. \A q \in Request \ {p} : StageMap'[q] = StageMap[q]
      BY <2>5, OthersStay DEF StageMap
    <3>4. \A k \in Token \ {j} : tokens'[k] = tokens[k]
      BY <2>5, <3>1, OthersStay
    <3>5. \A k \in Token \ {j} : Register'[k] = Register[k]
      BY <3>4 DEF Register
    <3>6. Over' = Over
      <4>1. ASSUME NEW k \in Token PROVE k \in Over' <=> k \in Over
        <5>1. CASE tokens[k].status # "absent"
          BY <2>1, <3>2, <5>1, RowsKeepTime DEF Over
        <5>2. CASE tokens[k].status = "absent"
          <6>1. tokens'[k] = tokens[k]
            <7>1. k # j \/ UNCHANGED tokens
              BY <2>1, <2>5, <3>1, <5>2, RequestRows DEF Step, Expires, Uses
            <7> QED
              BY <3>4, <7>1
          <6> QED
            BY <3>2, <6>1 DEF Over
        <5> QED
          BY <5>1, <5>2
      <4>2. Over \subseteq Token /\ Over' \subseteq Token
        BY DEF Over
      <4> QED
        BY <4>1, <4>2
    <3>7. PromiseMove(p, j, StageMap[p], StageMap'[p])
      BY <2>5, <3>1, OwnMoves DEF StageMap
    <3> QED
      BY <2>1, <3>1, <3>2, <3>3, <3>5, <3>6, <3>7, MoveMaps
  <2> QED
    BY <2>2, <2>3, <2>4, <2>5 DEF Next, Step, vars, localVars, issueVars
<1> QED
  BY <1>1, <1>2, TellInductive, PTL DEF Spec, TokenPromiseKept, Promise!Spec
=============================================================================
