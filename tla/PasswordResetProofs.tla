------------------------- MODULE PasswordResetProofs -------------------------
(* Proofs about PasswordReset, for every set of tokens and requests, every    *)
(* clock bound and both lifetimes.                                             *)
EXTENDS PasswordReset, TLAPS

-----------------------------------------------------------------------------
(* Types *)

\* What a request holds before its first read is a record.
LEMMA BlankRecord == Blank \in Record
  BY DEF Blank, Record, Status

\* Validation answers, or finds the token late or usable.
LEMMA VerdictType ==
    ASSUME NEW rec \in Record, NEW now \in Nat
    PROVE  Verdict(rec, now) \in Answers \cup {"late", "usable"}
  BY DEF Verdict, Answers

\* A lost claim is always reported with an answer, and never as a success.
LEMMA ConflictVerdictType ==
    ASSUME NEW rec \in Record, NEW at \in Nat
    PROVE  ConflictVerdict(rec, at) \in Answers \ {"ok", "none"}
  BY DEF ConflictVerdict, Answers

\* What a request keeps for itself has its type after a move or an answer.
LocalType ==
    /\ pc \in [Request -> Places]
    /\ tok \in [Request -> Token]
    /\ seen \in [Request -> Record]
    /\ stamp \in [Request -> Nat]
    /\ answer \in [Request -> Answers]

\* The part of TypeOK that is not about requests.
TableType ==
    /\ clock \in Nat
    /\ links \in [Token -> [stage : {"none", "foreign", "issued", "delivered", "withheld"},
                            expiresAt : Nat]]
    /\ resets \in [Token -> Record]

TraceType ==
    /\ wrote \in [Token -> SUBSET Request]
    /\ owner \in [Token -> SUBSET Request]
    /\ finalizers \in [Token -> SUBSET Request]

\* TypeOK is its three parts.
LEMMA TypeParts == TypeOK <=> TableType /\ LocalType /\ TraceType
  BY DEF TypeOK, TableType, LocalType, TraceType

\* A move goes to a place.
LEMMA GotoType ==
    ASSUME LocalType, NEW p \in Request, NEW place \in Places, Goto(p, place)
    PROVE  pc' \in [Request -> Places]
  BY DEF Goto, LocalType

\* An answer keeps the types of what a request has for itself.
LEMMA ReplyType ==
    ASSUME LocalType, NEW p \in Request, NEW what \in Answers, Reply(p, what)
    PROVE  /\ pc' \in [Request -> Places]
           /\ seen' \in [Request -> Record]
           /\ answer' \in [Request -> Answers]
<1>1. "done" \in Places
  BY DEF Places
<1> QED
  BY <1>1, GotoType, BlankRecord DEF Reply, LocalType

\* A step of a request keeps the types of what requests have for themselves.
LEMMA LocalTypeStep ==
    ASSUME TypeOK, NEW p \in Request, Start(p) \/ Execute(p) \/ Crash(p)
    PROVE  LocalType'
<1>1. TableType /\ LocalType
  BY TypeParts
<1>2. resets[tok[p]] \in Record /\ seen[p] \in Record /\ stamp[p] \in Nat /\ clock \in Nat
  BY <1>1 DEF TableType, LocalType
<1>3. {"resolving", "validating", "expiring", "overwriting", "accepted", "stamped",
       "conflict", "claimed", "releasing", "written", "readback", "crashed"} \subseteq Places
  BY DEF Places
<1>4. {"refused", "error", "expired", "in_progress", "ok"} \subseteq Answers
  BY DEF Answers
<1> USE <1>1, <1>2, <1>3, <1>4, GotoType, ReplyType DEF LocalType
<1>5. CASE Start(p)
  BY <1>5 DEF Start
<1>6. CASE GetResetByJTI(p)
  BY <1>6 DEF GetResetByJTI
<1>7. CASE ValidateResetRecord(p)
  BY <1>7, VerdictType, BlankRecord DEF ValidateResetRecord
<1>8. CASE UpdateResetStatusRead(p)
  BY <1>8 DEF UpdateResetStatusRead
<1>9. CASE UpdateResetStatusWrite(p)
  BY <1>9 DEF UpdateResetStatusWrite
<1>10. CASE RefuseAccepted(p) \/ StampClaim(p)
  BY <1>10 DEF RefuseAccepted, StampClaim
<1>11. CASE ClaimReset(p)
  BY <1>11 DEF ClaimReset
<1>12. CASE ReportConflict(p)
  BY <1>12, ConflictVerdictType DEF ReportConflict
<1>13. CASE ResetPassword(p) \/ ResetPasswordFails(p)
  BY <1>13 DEF ResetPassword, ResetPasswordFails
<1>14. CASE ReleaseResetClaim(p)
  BY <1>14 DEF ReleaseResetClaim
<1>15. CASE FinalizeReset(p)
  BY <1>15 DEF FinalizeReset
<1>16. CASE ReadBack(p)
  BY <1>16 DEF ReadBack
<1>17. CASE Crash(p)
  BY <1>17 DEF Crash
<1> QED
  BY <1>5, <1>6, <1>7, <1>8, <1>9, <1>10, <1>11, <1>12, <1>13, <1>14, <1>15, <1>16, <1>17
  DEF Execute, Resolve

\* The rows that the statements leave behind are records.
LEMMA RowType ==
    ASSUME NEW rec \in Record, NEW t \in Nat, NEW u \in BOOLEAN
    PROVE  /\ \A e \in Nat : Requested(e, t) \in Record
           /\ Expired(rec, u, t) \in Record
           /\ Claimed(rec, t) \in Record
           /\ Released(rec, t) \in Record
           /\ Finalized(rec, t) \in Record
  BY DEF Record, Status, Requested, Expired, Claimed, Released, Finalized

\* What of these rows the invariants look at.
LEMMA RowFields ==
    ASSUME NEW rec \in Record, NEW t \in Nat
    PROVE  /\ Claimed(rec, t).status = "processing"
           /\ Claimed(rec, t).updatedAt = t
           /\ Claimed(rec, t).used = rec.used
           /\ Released(rec, t).status = "requested"
           /\ Released(rec, t).used = rec.used
           /\ Finalized(rec, t).status = "changed"
  BY DEF Record, Claimed, Released, Finalized

\* A statement writes one row and leaves the others.
LEMMA StoreEffect ==
    ASSUME resets \in [Token -> Record], NEW j \in Token, NEW rec \in Record, Store(j, rec)
    PROVE  /\ resets' \in [Token -> Record]
           /\ resets'[j] = rec
           /\ \A k \in Token \ {j} : resets'[k] = resets[k]
  BY DEF Store

\* Every step keeps the types of the tables, the clock and the traces.
LEMMA TableTypeStep ==
    ASSUME TypeOK, [Next]_vars
    PROVE  TableType' /\ TraceType'
<1>1. TableType /\ LocalType /\ TraceType
  BY TypeParts
<1>2. CASE Tick
  BY <1>1, <1>2 DEF Tick, TableType, TraceType, issueVars, traceVars
<1>3. ASSUME NEW j \in Token, Issue(j) PROVE TableType' /\ TraceType'
  <2>1. CASE IssueLink(j)
    BY <1>1, <2>1, TimeAssumption DEF IssueLink, TableType, TraceType, traceVars
  <2>2. ASSUME CreateReset(j) PROVE resets' \in [Token -> Record]
    <3>1. links[j].expiresAt \in Nat /\ clock \in Nat /\ resets \in [Token -> Record]
      BY <1>1 DEF TableType
    <3>2. Requested(links[j].expiresAt, clock) \in Record
      BY <3>1 DEF Requested, Record, Status
    <3> QED
      BY <2>2, <3>1, <3>2, StoreEffect DEF CreateReset
  <2>3. CASE RecordReset(j)
    BY <1>1, <2>2, <2>3 DEF RecordReset, TableType, TraceType, traceVars
  <2>4. CASE RecordResetFails(j)
    BY <1>1, <2>2, <2>4 DEF RecordResetFails, TableType, TraceType, traceVars
  <2> QED
    BY <1>3, <2>1, <2>3, <2>4 DEF Issue
<1>4. ASSUME NEW p \in Request, Start(p) \/ Execute(p) \/ Crash(p)
      PROVE  TableType' /\ TraceType'
  <2>1. /\ tok[p] \in Token /\ resets[tok[p]] \in Record /\ seen[p] \in Record
        /\ stamp[p] \in Nat /\ clock \in Nat /\ resets \in [Token -> Record]
        /\ seen[p].used \in BOOLEAN /\ resets[tok[p]].used \in BOOLEAN
    BY <1>1 DEF TableType, LocalType, Record
  <2> USE <1>1, <2>1
  <2>2. CASE ClaimReset(p)
    <3>1. resets' \in [Token -> Record]
      BY <2>2, RowType, StoreEffect DEF ClaimReset, TakeClaim
    <3>2. owner' = owner \/ owner' = [owner EXCEPT ![tok[p]] = {p}]
      BY <2>2 DEF ClaimReset, TakeClaim
    <3>3. UNCHANGED <<clock, links, wrote, finalizers>>
      BY <2>2 DEF ClaimReset
    <3> QED
      BY <3>1, <3>2, <3>3 DEF TableType, TraceType
  <2>3. CASE UpdateResetStatusWrite(p)
    BY <2>3, RowType, StoreEffect
    DEF UpdateResetStatusWrite, TableType, TraceType, traceVars
  <2>4. CASE ReleaseResetClaim(p)
    BY <2>4, RowType, StoreEffect DEF ReleaseResetClaim, TableType, TraceType, traceVars
  <2>5. CASE FinalizeReset(p)
    <3>1. resets' \in [Token -> Record]
      BY <2>5, RowType, StoreEffect DEF FinalizeReset, WriteFinal
    <3>2. \/ finalizers' = finalizers
          \/ finalizers' = [finalizers EXCEPT ![tok[p]] = @ \cup {p}]
      BY <2>5 DEF FinalizeReset, WriteFinal
    <3>3. UNCHANGED <<clock, links, wrote, owner>>
      BY <2>5 DEF FinalizeReset
    <3> QED
      BY <3>1, <3>2, <3>3 DEF TableType, TraceType
  <2>6. CASE ResetPassword(p) \/ ResetPasswordFails(p)
    BY <2>6 DEF ResetPassword, ResetPasswordFails, TableType, TraceType, issueVars
  <2>7. CASE \/ Start(p) \/ GetResetByJTI(p) \/ ValidateResetRecord(p)
             \/ UpdateResetStatusRead(p) \/ RefuseAccepted(p) \/ StampClaim(p)
             \/ ReportConflict(p) \/ ReadBack(p) \/ Crash(p)
    BY <2>7 DEF Start, GetResetByJTI, ValidateResetRecord, UpdateResetStatusRead,
                RefuseAccepted, StampClaim, ReportConflict, ReadBack, Crash,
                TableType, TraceType, issueVars, traceVars
  <2> QED
    BY <1>4, <2>2, <2>3, <2>4, <2>5, <2>6, <2>7 DEF Execute, Resolve
<1>5. CASE UNCHANGED vars
  BY <1>1, <1>5 DEF vars, TableType, TraceType
<1> QED
  BY <1>2, <1>3, <1>4, <1>5 DEF Next

\* TypeOK is inductive.
LEMMA TypeStep ==
    ASSUME TypeOK, [Next]_vars
    PROVE  TypeOK'
<1>1. TableType' /\ TraceType'
  BY TableTypeStep
<1>2. LocalType'
  <2>1. ASSUME NEW p \in Request, Start(p) \/ Execute(p) \/ Crash(p) PROVE LocalType'
    BY <2>1, LocalTypeStep
  <2>2. ASSUME UNCHANGED localVars PROVE LocalType'
    BY <2>2 DEF TypeOK, LocalType, localVars
  <2>3. ASSUME NEW j \in Token, Issue(j) PROVE UNCHANGED localVars
    BY <2>3 DEF Issue, IssueLink, RecordReset, RecordResetFails
  <2> QED
    BY <2>1, <2>2, <2>3 DEF Next, Tick, vars, localVars
<1> QED
  BY <1>1, <1>2 DEF TypeOK, TableType, LocalType, TraceType

\* The types of TypeOK hold in every reachable state.
THEOREM TypeCorrect == Spec => []TypeOK
<1>1. Init => TypeOK
  BY BlankRecord DEF Init, TypeOK, Places, Answers
<1>2. TypeOK /\ [Next]_vars => TypeOK'
  BY TypeStep
<1> QED
  BY <1>1, <1>2, PTL DEF Spec

-----------------------------------------------------------------------------
(* The life of one row *)

\* Where a request stands before and after it takes its claim stamp.
Before == {"idle", "resolving", "validating", "expiring", "overwriting", "accepted"}
After == {"stamped", "conflict", "claimed", "releasing", "written", "readback"}

\* A request has no claim stamp before it takes one, and a stamp is not 0.
StampPlace ==
    /\ clock # 0
    /\ \A p \in Request : pc[p] \in Before => stamp[p] = 0
    /\ \A p \in Request : pc[p] \in After => stamp[p] # 0

\* A record is created once, and only an existing one is overwritten.
CreatedOnce ==
    /\ \A j \in Token : links[j].stage \in {"none", "foreign", "issued"} =>
           resets[j].status = "absent"
    /\ \A p \in Request : pc[p] = "validating" /\ seen[p].status # "absent" =>
           resets[tok[p]].status # "absent"
    /\ \A p \in Request : pc[p] \in {"expiring", "overwriting"} =>
           resets[tok[p]].status # "absent"

\* What one step may do to the row of token j.
RowKept(j) == UNCHANGED <<resets[j], owner[j], finalizers[j]>>
RowCreated(j) ==
    /\ resets[j].status = "absent"
    /\ resets'[j].status = "requested" /\ ~resets'[j].used
    /\ links'[j].stage \notin {"none", "foreign", "issued"}
    /\ UNCHANGED <<owner[j], finalizers[j]>>
RowExpired(j) ==
    /\ resets[j].status # "absent" /\ resets'[j].status = "expired"
    /\ UNCHANGED <<owner[j], finalizers[j]>>
RowClaimed(j, p) ==
    /\ tok[p] = j /\ pc[p] = "stamped" /\ Claimable(resets[j], stamp[p])
    /\ resets'[j] = Claimed(resets[j], stamp[p])
    /\ owner'[j] = {p} /\ UNCHANGED finalizers[j]
RowReleased(j, p) ==
    /\ tok[p] = j /\ pc[p] = "releasing" /\ pc'[p] = "done" /\ Fenced(resets[j], stamp[p])
    /\ resets'[j] = Released(resets[j], clock)
    /\ UNCHANGED <<owner[j], finalizers[j]>>
RowFinalized(j, p) ==
    /\ tok[p] = j /\ pc[p] = "written" /\ pc'[p] \in {"done", "readback"}
    /\ Fenced(resets[j], stamp[p])
    /\ resets'[j] = Finalized(resets[j], clock)
    /\ UNCHANGED owner[j] /\ finalizers'[j] = finalizers[j] \cup {p}

RowMove(j) ==
    \/ RowKept(j) \/ RowCreated(j) \/ RowExpired(j)
    \/ \E p \in Request : RowClaimed(j, p) \/ RowReleased(j, p) \/ RowFinalized(j, p)

\* Every step does to a row one of the things that RowMove lists.
LEMMA RowStep ==
    ASSUME TypeOK, CreatedOnce, [Next]_vars, NEW j \in Token
    PROVE  RowMove(j)
<1>1. TableType /\ LocalType /\ TraceType
  BY TypeParts
<1>2. CASE UNCHANGED <<resets, owner, finalizers>>
  BY <1>2 DEF RowMove, RowKept
<1>3. ASSUME NEW i \in Token, CreateReset(i), links[i].stage = "issued",
             links'[i].stage \in {"delivered", "withheld"},
             UNCHANGED <<owner, finalizers>>
      PROVE  RowMove(j)
  <2>1. links[i].expiresAt \in Nat /\ clock \in Nat /\ resets \in [Token -> Record]
    BY <1>1 DEF TableType
  <2>2. Requested(links[i].expiresAt, clock) \in Record
    BY <2>1 DEF Requested, Record, Status
  <2>3. /\ resets'[i] = Requested(links[i].expiresAt, clock)
        /\ \A k \in Token \ {i} : resets'[k] = resets[k]
    BY <1>3, <2>1, <2>2, StoreEffect DEF CreateReset
  <2>4. /\ Requested(links[i].expiresAt, clock).status = "requested"
        /\ ~Requested(links[i].expiresAt, clock).used
    BY DEF Requested
  <2>5. resets[i].status = "absent"
    BY <1>3 DEF CreatedOnce
  <2> QED
    BY <1>3, <2>3, <2>4, <2>5 DEF RowMove, RowKept, RowCreated
<1>4. ASSUME NEW i \in Token, Issue(i) PROVE RowMove(j)
  <2>1. RecordReset(i) \/ RecordResetFails(i) => links'[i].stage \in {"delivered", "withheld"}
    BY <1>1 DEF RecordReset, RecordResetFails, TableType
  <2> QED
    BY <1>2, <1>3, <1>4, <2>1
    DEF Issue, IssueLink, RecordReset, RecordResetFails, localVars, traceVars
<1>5. ASSUME NEW p \in Request, Start(p) \/ Execute(p) \/ Crash(p)
      PROVE  RowMove(j)
  <2>1. /\ tok[p] \in Token /\ resets[tok[p]] \in Record /\ seen[p] \in Record
        /\ stamp[p] \in Nat /\ clock \in Nat /\ resets \in [Token -> Record]
        /\ seen[p].used \in BOOLEAN /\ resets[tok[p]].used \in BOOLEAN
    BY <1>1 DEF TableType, LocalType, Record
  <2>2. ASSUME pc[p] = "stamped", TakeClaim(p), UNCHANGED finalizers PROVE RowMove(j)
    <3>1. /\ resets'[tok[p]] = Claimed(resets[tok[p]], stamp[p])
          /\ \A k \in Token \ {tok[p]} : resets'[k] = resets[k]
      BY <2>1, <2>2, RowType, StoreEffect DEF TakeClaim
    <3>2. owner'[tok[p]] = {p} /\ \A k \in Token \ {tok[p]} : owner'[k] = owner[k]
      BY <1>1, <2>1, <2>2 DEF TakeClaim, TraceType
    <3> QED
      BY <2>2, <3>1, <3>2 DEF RowMove, RowKept, RowClaimed, TakeClaim
  <2>3. CASE ClaimReset(p)
    BY <1>2, <2>2, <2>3 DEF ClaimReset
  <2>4. CASE UpdateResetStatusWrite(p)
    <3>1. ASSUME NEW u \in BOOLEAN, Store(tok[p], Expired(seen[p], u, clock))
          PROVE  RowMove(j)
      <4>1. /\ resets'[tok[p]].status = "expired"
            /\ \A k \in Token \ {tok[p]} : resets'[k] = resets[k]
        <5>1. Expired(seen[p], u, clock) \in Record
          BY <2>1, RowType
        <5>2. Expired(seen[p], u, clock).status = "expired"
          BY DEF Expired
        <5> QED
          BY <2>1, <3>1, <5>1, <5>2, StoreEffect
      <4>2. resets[tok[p]].status # "absent"
        BY <2>4 DEF UpdateResetStatusWrite, CreatedOnce
      <4> QED
        BY <2>4, <4>1, <4>2
        DEF UpdateResetStatusWrite, RowMove, RowKept, RowExpired, traceVars
    <3> QED
      BY <1>2, <2>1, <2>4, <3>1 DEF UpdateResetStatusWrite, traceVars
  <2>5. CASE ReleaseResetClaim(p)
    <3>1. CASE Fenced(resets[tok[p]], stamp[p]) /\ Store(tok[p], Released(resets[tok[p]], clock))
      <4>1. /\ resets'[tok[p]] = Released(resets[tok[p]], clock)
            /\ \A k \in Token \ {tok[p]} : resets'[k] = resets[k]
        BY <2>1, <3>1, RowType, StoreEffect
      <4> QED
        BY <1>1, <2>5, <3>1, <4>1
        DEF ReleaseResetClaim, RowMove, RowKept, RowReleased, traceVars, Reply, Goto, LocalType
    <3> QED
      BY <1>2, <2>5, <3>1 DEF ReleaseResetClaim, traceVars
  <2>6. CASE FinalizeReset(p)
    <3>1. CASE WriteFinal(p)
      <4>1. /\ resets'[tok[p]] = Finalized(resets[tok[p]], clock)
            /\ \A k \in Token \ {tok[p]} : resets'[k] = resets[k]
        BY <2>1, <3>1, RowType, StoreEffect DEF WriteFinal
      <4>2. /\ finalizers'[tok[p]] = finalizers[tok[p]] \cup {p}
            /\ \A k \in Token \ {tok[p]} : finalizers'[k] = finalizers[k]
        BY <1>1, <2>1, <3>1 DEF WriteFinal, TraceType
      <4> QED
        BY <1>1, <2>6, <3>1, <4>1, <4>2
        DEF FinalizeReset, WriteFinal, RowMove, RowKept, RowFinalized, Reply, Goto, LocalType
    <3> QED
      BY <1>2, <2>6, <3>1 DEF FinalizeReset
  <2>7. CASE \/ Start(p) \/ GetResetByJTI(p) \/ ValidateResetRecord(p)
             \/ UpdateResetStatusRead(p) \/ RefuseAccepted(p) \/ StampClaim(p)
             \/ ReportConflict(p) \/ ReadBack(p) \/ Crash(p)
             \/ ResetPassword(p) \/ ResetPasswordFails(p)
    BY <1>2, <2>7
    DEF Start, GetResetByJTI, ValidateResetRecord, UpdateResetStatusRead,
        RefuseAccepted, StampClaim, ReportConflict, ReadBack, Crash,
        ResetPassword, ResetPasswordFails, issueVars, traceVars
  <2> QED
    BY <1>5, <2>3, <2>4, <2>5, <2>6, <2>7 DEF Execute, Resolve
<1> QED
  BY <1>2, <1>4, <1>5 DEF Next, Tick, vars, issueVars, traceVars

-----------------------------------------------------------------------------
(* The life of one request *)

Step(p) == Start(p) \/ Execute(p) \/ Crash(p)

Stays(p) == UNCHANGED <<pc[p], seen[p], stamp[p], answer[p]>>

Goes(p, from, to) ==
    pc[p] = from /\ pc'[p] = to /\ UNCHANGED <<stamp[p], answer[p]>>

\* The moves of a request, with what they say of the tables.
Resolves(p) ==
    \/ Goes(p, "idle", "resolving")
    \/ /\ Goes(p, "resolving", "validating")
       /\ seen'[p] = resets[tok[p]] /\ UNCHANGED resets
    \/ Goes(p, "validating", "expiring") /\ seen[p].status # "absent" /\ UNCHANGED resets
    \/ Goes(p, "expiring", "overwriting") /\ UNCHANGED resets
    \/ Goes(p, "validating", "accepted")
    \/ /\ pc[p] = "accepted" /\ pc'[p] = "stamped"
       /\ stamp'[p] = clock /\ UNCHANGED answer[p]

Works(p) ==
    \/ Goes(p, "stamped", "claimed") /\ TakeClaim(p)
    \/ Goes(p, "stamped", "conflict")
    \/ Goes(p, "claimed", "written") /\ p \in wrote'[tok[p]]
    \/ Goes(p, "claimed", "releasing")
    \/ /\ Goes(p, "written", "readback")
       /\ WriteFinal(p) \/ "error" \in Faults
              \/ (~Fenced(resets[tok[p]], stamp[p]) /\ UNCHANGED <<resets, finalizers>>)

Ends(p) ==
    /\ pc[p] \in Before \cup After /\ UNCHANGED stamp[p]
    /\ \/ pc'[p] = "crashed" /\ UNCHANGED answer[p]
       \/ pc'[p] = "done" /\ answer'[p] \in Answers \ {"ok"}
       \/ pc[p] = "written" /\ pc'[p] = "done" /\ answer'[p] = "ok" /\ WriteFinal(p)
       \/ /\ pc[p] = "readback" /\ pc'[p] = "done" /\ answer'[p] = "ok"
          /\ PasswordResetFinalized(resets[tok[p]]) /\ UNCHANGED resets

LocalMove(p) == Stays(p) \/ Resolves(p) \/ Works(p) \/ Ends(p)

\* A step of a request moves it as Resolves, Works or Ends say.
LEMMA OwnStep ==
    ASSUME TypeOK, NEW p \in Request, Step(p)
    PROVE  Resolves(p) \/ Works(p) \/ Ends(p)
<1>1. LocalType /\ TableType /\ TraceType
  BY TypeParts
<1>2. seen[p] \in Record /\ resets[tok[p]] \in Record /\ stamp[p] \in Nat /\ clock \in Nat
  BY <1>1 DEF LocalType, TableType
<1>3. ASSUME NEW place, Goto(p, place) PROVE pc'[p] = place
  BY <1>1, <1>3 DEF Goto, LocalType
<1>4. ASSUME NEW what, Reply(p, what)
      PROVE  pc'[p] = "done" /\ answer'[p] = what
  BY <1>1, <1>4 DEF Reply, Goto, LocalType
<1> USE <1>3, <1>4 DEF Goes, Before, After, issueVars, traceVars
<1>5. CASE Start(p)
  BY <1>5 DEF Start, Resolves, Ends, Answers
<1>6. CASE GetResetByJTI(p)
  BY <1>1, <1>6 DEF GetResetByJTI, Resolves, Ends, Answers, LocalType
<1>7. CASE ValidateResetRecord(p)
  <2>1. /\ Verdict(seen[p], clock) # "ok"
        /\ Verdict(seen[p], clock) = "late" => seen[p].status # "absent"
    BY DEF Verdict
  <2>2. Verdict(seen[p], clock) \in Answers \cup {"late", "usable"}
    BY <1>2, VerdictType
  <2> QED
    BY <1>7, <2>1, <2>2 DEF ValidateResetRecord, Resolves, Ends
<1>8. CASE UpdateResetStatusRead(p) \/ UpdateResetStatusWrite(p)
  BY <1>8 DEF UpdateResetStatusRead, UpdateResetStatusWrite, Resolves, Ends, Answers
<1>9. CASE RefuseAccepted(p)
  BY <1>9 DEF RefuseAccepted, Ends, Answers
<1>10. CASE StampClaim(p)
  BY <1>1, <1>10 DEF StampClaim, Resolves, LocalType
<1>11. CASE ClaimReset(p)
  BY <1>11 DEF ClaimReset, Works, Ends, Answers
<1>12. CASE ReportConflict(p)
  BY <1>2, <1>12, ConflictVerdictType DEF ReportConflict, Ends, Answers
<1>13. CASE ResetPassword(p)
  <2>1. p \in wrote'[tok[p]]
    BY <1>1, <1>13 DEF ResetPassword, LocalType, TraceType
  <2> QED
    BY <1>13, <2>1 DEF ResetPassword, Works
<1>14. CASE ResetPasswordFails(p)
  BY <1>14 DEF ResetPasswordFails, Works
<1>15. CASE ReleaseResetClaim(p)
  BY <1>15 DEF ReleaseResetClaim, Ends, Answers
<1>16. CASE FinalizeReset(p)
  BY <1>16 DEF FinalizeReset, Works, Ends
<1>17. CASE ReadBack(p)
  BY <1>17 DEF ReadBack, Ends, Answers
<1>18. CASE Crash(p)
  BY <1>1, <1>18 DEF Crash, Ends, LocalType, Places
<1> QED
  BY <1>5, <1>6, <1>7, <1>8, <1>9, <1>10, <1>11, <1>12, <1>13, <1>14, <1>15, <1>16,
     <1>17, <1>18 DEF Step, Execute, Resolve

\* A step of one request leaves what another has for itself.
LEMMA OthersStay ==
    ASSUME TypeOK, NEW q \in Request, Step(q), NEW p \in Request \ {q}
    PROVE  Stays(p)
<1>1. LocalType
  BY TypeParts
<1>2. ASSUME NEW place, Goto(q, place) PROVE UNCHANGED pc[p]
  BY <1>1, <1>2 DEF Goto, LocalType
<1>3. ASSUME NEW what, Reply(q, what) PROVE UNCHANGED <<pc[p], seen[p], answer[p]>>
  BY <1>1, <1>2, <1>3 DEF Reply, LocalType
<1> USE <1>1, <1>2, <1>3 DEF Stays, LocalType
<1>4. CASE Start(q)
  BY <1>4 DEF Start
<1>5. CASE Resolve(q)
  BY <1>5 DEF Resolve, GetResetByJTI, ValidateResetRecord, UpdateResetStatusRead,
              UpdateResetStatusWrite
<1>6. CASE RefuseAccepted(q) \/ StampClaim(q) \/ ReportConflict(q)
  BY <1>6 DEF RefuseAccepted, StampClaim, ReportConflict
<1>7. CASE ClaimReset(q)
  BY <1>7 DEF ClaimReset
<1>8. CASE ResetPassword(q) \/ ResetPasswordFails(q) \/ ReleaseResetClaim(q)
  BY <1>8 DEF ResetPassword, ResetPasswordFails, ReleaseResetClaim
<1>9. CASE FinalizeReset(q) \/ ReadBack(q)
  BY <1>9 DEF FinalizeReset, ReadBack
<1>10. CASE Crash(q)
  BY <1>10 DEF Crash
<1> QED
  BY <1>4, <1>5, <1>6, <1>7, <1>8, <1>9, <1>10 DEF Step, Execute

\* A step is a step of one request, and the others stay.
LEMMA LocalStep ==
    ASSUME TypeOK, [Next]_vars, NEW p \in Request
    PROVE  LocalMove(p) /\ UNCHANGED tok
<1>1. ASSUME NEW q \in Request, Step(q) PROVE UNCHANGED tok
  BY <1>1
  DEF Step, Start, Execute, Resolve, Crash, GetResetByJTI, ValidateResetRecord,
      UpdateResetStatusRead, UpdateResetStatusWrite, RefuseAccepted, StampClaim,
      ClaimReset, ReportConflict, ResetPassword, ResetPasswordFails,
      ReleaseResetClaim, FinalizeReset, ReadBack
<1>2. CASE UNCHANGED localVars
  BY <1>2 DEF localVars, LocalMove, Stays
<1>3. ASSUME NEW j \in Token, Issue(j) PROVE UNCHANGED localVars
  BY <1>3 DEF Issue, IssueLink, RecordReset, RecordResetFails
<1> QED
  BY <1>1, <1>2, <1>3, OthersStay, OwnStep
  DEF LocalMove, Step, Next, Tick, vars, localVars

\* Passwords are only ever written, by a request that holds a claim; the clock
\* does not go back; a link does not return to an unrecorded stage.
LEMMA TraceStep ==
    ASSUME TypeOK, [Next]_vars
    PROVE  /\ clock <= clock'
           /\ \A j \in Token : wrote[j] \subseteq wrote'[j]
           /\ \A j \in Token : \A p \in wrote'[j] \ wrote[j] :
                  p \in Request /\ pc[p] = "claimed" /\ pc'[p] \in {"written", "releasing"}
           /\ \A j \in Token : links'[j].stage \in {"none", "foreign", "issued"} =>
                  links[j].stage \in {"none", "foreign", "issued"}
<1>1. LocalType /\ TableType /\ TraceType
  BY TypeParts
<1>2. CASE Tick
  BY <1>1, <1>2 DEF Tick, issueVars, traceVars, TableType
<1>3. ASSUME NEW j \in Token, Issue(j) PROVE UNCHANGED <<clock, wrote>>
  BY <1>3 DEF Issue, IssueLink, RecordReset, RecordResetFails, traceVars
<1>4. ASSUME NEW j \in Token, Issue(j), NEW i \in Token,
             links'[i].stage \in {"none", "foreign", "issued"}
      PROVE  links[i].stage \in {"none", "foreign", "issued"}
  BY <1>1, <1>4 DEF Issue, IssueLink, RecordReset, RecordResetFails, TableType
<1>5. ASSUME NEW q \in Request, ResetPassword(q) \/ ResetPasswordFails(q)
      PROVE  /\ UNCHANGED <<clock, links>>
             /\ \A j \in Token : wrote[j] \subseteq wrote'[j]
             /\ \A j \in Token : \A p \in wrote'[j] \ wrote[j] :
                    /\ p \in Request /\ pc[p] = "claimed"
                    /\ pc'[p] \in {"written", "releasing"}
  BY <1>1, <1>5
  DEF ResetPassword, ResetPasswordFails, Goto, issueVars, LocalType, TraceType
<1>6. ASSUME NEW q \in Request, Step(q), ~(ResetPassword(q) \/ ResetPasswordFails(q))
      PROVE  UNCHANGED <<clock, links, wrote>>
  BY <1>6
  DEF Step, Start, Execute, Resolve, Crash, GetResetByJTI, ValidateResetRecord,
      UpdateResetStatusRead, UpdateResetStatusWrite, RefuseAccepted, StampClaim,
      ClaimReset, ReportConflict, ReleaseResetClaim, FinalizeReset, ReadBack,
      issueVars, traceVars
<1>7. CASE UNCHANGED <<clock, links, wrote>>
  BY <1>1, <1>7 DEF TableType
<1> QED
  BY <1>1, <1>2, <1>3, <1>4, <1>5, <1>6, <1>7 DEF Next, Step, vars, TableType

-----------------------------------------------------------------------------
(* The inductive invariant *)

\* A claimed record carries the stamp of the request that claimed it last.
OwnerStamped ==
    \A j \in Token : resets[j].status = "processing" =>
        \E q \in Request : owner[j] = {q} /\ stamp[q] = resets[j].updatedAt /\ stamp[q] # 0

\* A request finalizes only after it wrote, and writes only under its claim.
WrittenFirst ==
    \A p \in Request :
        /\ pc[p] \in {"written", "readback"} => p \in wrote[tok[p]]
        /\ pc[p] \in Before \cup {"stamped", "conflict", "claimed"} => p \notin wrote[tok[p]]

\* Nobody finalizes a record that was finalized before.
FinalizedClosed == \A j \in Token : finalizers[j] # {} => Closed(j)

SafeInv ==
    /\ TypeOK /\ StampPlace /\ CreatedOnce
    /\ OwnerStamped /\ WrittenFirst /\ FinalizedClosed
    /\ SpentMeansWritten /\ SuccessMeansSpent /\ OneFinalizer

\* Rows never go back to absent, and a closed row stays closed.
LEMMA RowForward ==
    ASSUME TypeOK, CreatedOnce, [Next]_vars, NEW j \in Token
    PROVE  /\ resets[j].status # "absent" => resets'[j].status # "absent"
           /\ Closed(j) => Closed(j)'
<1>1. RowMove(j)
  BY RowStep
<1>2. resets[j] \in Record /\ clock \in Nat
  BY DEF TypeOK
<1>3. CASE RowKept(j) \/ RowCreated(j) \/ RowExpired(j)
  BY <1>3 DEF RowKept, RowCreated, RowExpired, Closed
<1>4. ASSUME NEW p \in Request, RowClaimed(j, p) \/ RowReleased(j, p) \/ RowFinalized(j, p)
      PROVE  /\ resets[j].status \in {"requested", "processing"}
             /\ resets'[j].status \in {"requested", "processing", "changed"}
  <2>1. stamp[p] \in Nat
    BY DEF TypeOK
  <2> QED
    BY <1>2, <1>4, <2>1, RowFields
    DEF RowClaimed, RowReleased, RowFinalized, Claimable, Fenced
<1> QED
  BY <1>1, <1>3, <1>4 DEF RowMove, Closed

\* StampPlace is kept: only StampClaim sets a stamp, and the clock is past 0.
LEMMA StampPlaceStep ==
    ASSUME TypeOK, StampPlace, [Next]_vars
    PROVE  StampPlace'
<1>1. clock' # 0
  BY TraceStep DEF StampPlace, TypeOK
<1>2. ASSUME NEW p \in Request
      PROVE  /\ pc'[p] \in Before => stamp'[p] = 0
             /\ pc'[p] \in After => stamp'[p] # 0
  <2>1. LocalMove(p)
    BY LocalStep
  <2> QED
    BY <2>1 DEF LocalMove, Stays, Resolves, Works, Ends, Goes, Before, After, StampPlace
<1> QED
  BY <1>1, <1>2 DEF StampPlace

\* CreatedOnce is kept: no statement deletes a row.
LEMMA CreatedOnceStep ==
    ASSUME TypeOK, CreatedOnce, [Next]_vars
    PROVE  CreatedOnce'
<1>1. ASSUME NEW j \in Token, links'[j].stage \in {"none", "foreign", "issued"}
      PROVE  resets'[j].status = "absent"
  <2>1. resets[j].status = "absent"
    BY <1>1, TraceStep DEF CreatedOnce
  <2>2. RowMove(j)
    BY RowStep
  <2> QED
    BY <1>1, <2>1, <2>2
    DEF RowMove, RowKept, RowCreated, RowExpired, RowClaimed, RowReleased, RowFinalized,
        Claimable, Fenced
<1>2. ASSUME NEW p \in Request
      PROVE  /\ pc'[p] = "validating" /\ seen'[p].status # "absent" =>
                   resets'[tok[p]].status # "absent"
             /\ pc'[p] \in {"expiring", "overwriting"} => resets'[tok[p]].status # "absent"
  <2>1. tok[p] \in Token
    BY DEF TypeOK
  <2>2. LocalMove(p)
    BY LocalStep
  <2>3. resets[tok[p]].status # "absent" => resets'[tok[p]].status # "absent"
    BY <2>1, RowForward
  <2> QED
    BY <2>2, <2>3 DEF LocalMove, Stays, Resolves, Works, Ends, Goes, CreatedOnce
<1>3. UNCHANGED tok \/ Request = {}
  BY LocalStep
<1> QED
  BY <1>1, <1>2, <1>3 DEF CreatedOnce

\* OwnerStamped is kept: only a claim makes a row "processing".
LEMMA OwnerStampedStep ==
    ASSUME TypeOK, StampPlace, CreatedOnce, OwnerStamped, [Next]_vars
    PROVE  OwnerStamped'
<1>1. SUFFICES ASSUME NEW j \in Token, resets'[j].status = "processing"
               PROVE  \E q \in Request : /\ owner'[j] = {q} /\ stamp'[q] # 0
                                         /\ stamp'[q] = resets'[j].updatedAt
  BY DEF OwnerStamped
<1>2. ASSUME NEW q \in Request, stamp[q] # 0 PROVE stamp'[q] = stamp[q]
  <2>1. LocalMove(q)
    BY LocalStep
  <2> QED
    BY <1>2, <2>1 DEF LocalMove, Stays, Resolves, Works, Ends, Goes, StampPlace, Before
<1>3. CASE RowKept(j)
  <2>1. resets[j].status = "processing"
    BY <1>1, <1>3 DEF RowKept
  <2>2. PICK q \in Request : owner[j] = {q} /\ stamp[q] = resets[j].updatedAt /\ stamp[q] # 0
    BY <2>1 DEF OwnerStamped
  <2> QED
    BY <1>2, <1>3, <2>2 DEF RowKept
<1>4. ASSUME NEW p \in Request, RowClaimed(j, p)
      PROVE  \E q \in Request : /\ owner'[j] = {q} /\ stamp'[q] # 0
                                /\ stamp'[q] = resets'[j].updatedAt
  <2>1. stamp[p] # 0
    BY <1>4 DEF RowClaimed, StampPlace, After
  <2>2. resets[j] \in Record /\ stamp[p] \in Nat
    BY DEF TypeOK
  <2>3. resets'[j].updatedAt = stamp[p]
    BY <1>4, <2>2, RowFields DEF RowClaimed
  <2> QED
    BY <1>2, <1>4, <2>1, <2>3 DEF RowClaimed
<1>5. ASSUME NEW p \in Request, RowReleased(j, p) \/ RowFinalized(j, p) PROVE FALSE
  <2>1. resets[j] \in Record /\ clock \in Nat
    BY DEF TypeOK
  <2> QED
    BY <1>1, <1>5, <2>1, RowFields DEF RowReleased, RowFinalized
<1>6. RowMove(j)
  BY RowStep
<1> QED
  BY <1>1, <1>3, <1>4, <1>5, <1>6 DEF RowMove, RowCreated, RowExpired

\* WrittenFirst is kept: the place "written" is reached by the write alone.
LEMMA WrittenFirstStep ==
    ASSUME TypeOK, WrittenFirst, [Next]_vars
    PROVE  WrittenFirst'
<1>1. SUFFICES ASSUME NEW p \in Request
               PROVE  /\ pc'[p] \in {"written", "readback"} => p \in wrote'[tok[p]]
                      /\ pc'[p] \in Before \cup {"stamped", "conflict", "claimed"} =>
                            p \notin wrote'[tok[p]]
  BY LocalStep DEF WrittenFirst
<1>2. LocalMove(p) /\ tok[p] \in Token
  BY LocalStep DEF TypeOK
<1>3. /\ wrote[tok[p]] \subseteq wrote'[tok[p]]
      /\ p \in wrote'[tok[p]] \ wrote[tok[p]] =>
             pc[p] = "claimed" /\ pc'[p] \in {"written", "releasing"}
  BY <1>2, TraceStep
<1> QED
  BY <1>2, <1>3 DEF LocalMove, Stays, Resolves, Works, Ends, Goes, Before, WrittenFirst

\* A finalized record is closed, so the fence admits no second finalizer.
LEMMA FinalizedClosedStep ==
    ASSUME TypeOK, CreatedOnce, FinalizedClosed, OneFinalizer, [Next]_vars
    PROVE  FinalizedClosed' /\ OneFinalizer'
<1>1. SUFFICES ASSUME NEW j \in Token
               PROVE  /\ finalizers'[j] # {} => Closed(j)'
                      /\ \A p, q \in finalizers'[j] : p = q
  BY DEF FinalizedClosed, OneFinalizer
<1>2. RowMove(j)
  BY RowStep
<1>3. CASE finalizers'[j] = finalizers[j]
  BY <1>3, RowForward DEF FinalizedClosed, OneFinalizer
<1>4. ASSUME NEW p \in Request, RowFinalized(j, p)
      PROVE  finalizers'[j] = {p} /\ Closed(j)'
  <2>1. finalizers[j] = {}
    BY <1>4 DEF RowFinalized, Fenced, FinalizedClosed, Closed
  <2>2. resets[j] \in Record /\ clock \in Nat
    BY DEF TypeOK
  <2>3. resets'[j].status = "changed"
    BY <1>4, <2>2, RowFields DEF RowFinalized
  <2> QED
    BY <1>4, <2>1, <2>3 DEF RowFinalized, Closed
<1> QED
  BY <1>2, <1>3, <1>4
  DEF RowMove, RowKept, RowCreated, RowExpired, RowClaimed, RowReleased

\* SpentMeansWritten is kept: only a request that wrote finalizes.
LEMMA SpentMeansWrittenStep ==
    ASSUME TypeOK, CreatedOnce, WrittenFirst, SpentMeansWritten, [Next]_vars
    PROVE  SpentMeansWritten'
<1>1. SUFFICES ASSUME NEW j \in Token, resets'[j].status = "changed"
               PROVE  wrote'[j] # {}
  BY DEF SpentMeansWritten
<1>2. RowMove(j) /\ wrote[j] \subseteq wrote'[j]
  BY RowStep, TraceStep
<1>3. CASE RowKept(j)
  BY <1>1, <1>2, <1>3 DEF RowKept, SpentMeansWritten
<1>4. ASSUME NEW p \in Request, RowClaimed(j, p) \/ RowReleased(j, p) PROVE FALSE
  <2>1. resets[j] \in Record /\ clock \in Nat /\ stamp[p] \in Nat
    BY DEF TypeOK
  <2> QED
    BY <1>1, <1>4, <2>1, RowFields DEF RowClaimed, RowReleased
<1>5. ASSUME NEW p \in Request, RowFinalized(j, p) PROVE wrote'[j] # {}
  BY <1>2, <1>5 DEF RowFinalized, WrittenFirst
<1> QED
  BY <1>1, <1>2, <1>3, <1>4, <1>5 DEF RowMove, RowCreated, RowExpired

\* SuccessMeansSpent is kept: "ok" follows a finalization or a read of one.
LEMMA SuccessMeansSpentStep ==
    ASSUME TypeOK, CreatedOnce, WrittenFirst, SuccessMeansSpent, [Next]_vars
    PROVE  SuccessMeansSpent'
<1>1. SUFFICES ASSUME NEW p \in Request, answer'[p] = "ok"
               PROVE  p \in wrote'[tok[p]] /\ Closed(tok[p])'
  BY LocalStep DEF SuccessMeansSpent
<1>2. LocalMove(p) /\ UNCHANGED tok /\ tok[p] \in Token
  BY LocalStep DEF TypeOK
<1>3. wrote[tok[p]] \subseteq wrote'[tok[p]] /\ (Closed(tok[p]) => Closed(tok[p])')
  BY <1>2, TraceStep, RowForward DEF Closed
<1>4. CASE answer[p] = "ok"
  BY <1>3, <1>4 DEF SuccessMeansSpent
<1>5. CASE answer[p] # "ok"
  <2>1. /\ pc[p] \in {"written", "readback"}
        /\ \/ WriteFinal(p)
           \/ PasswordResetFinalized(resets[tok[p]])
    BY <1>1, <1>2, <1>5 DEF LocalMove, Stays, Resolves, Works, Ends, Goes
  <2>2. p \in wrote'[tok[p]]
    BY <1>3, <2>1 DEF WrittenFirst
  <2>3. CASE WriteFinal(p)
    <3>1. resets \in [Token -> Record] /\ resets[tok[p]] \in Record /\ clock \in Nat
      BY <1>2 DEF TypeOK
    <3>2. /\ Finalized(resets[tok[p]], clock) \in Record
          /\ Finalized(resets[tok[p]], clock).status = "changed"
      BY <3>1, RowType, RowFields
    <3>3. resets'[tok[p]] = Finalized(resets[tok[p]], clock)
      BY <1>2, <2>3, <3>1, <3>2, StoreEffect DEF WriteFinal
    <3> QED
      BY <1>2, <2>2, <3>2, <3>3 DEF Closed
  <2>4. CASE PasswordResetFinalized(resets[tok[p]])
    BY <1>3, <2>2, <2>4 DEF PasswordResetFinalized, Closed
  <2> QED
    BY <2>1, <2>3, <2>4
<1> QED
  BY <1>4, <1>5

\* The inductive invariant holds in every reachable state.
THEOREM SafetyHolds == Spec => []SafeInv
<1>1. Init => SafeInv
  <2> SUFFICES ASSUME Init PROVE SafeInv
    OBVIOUS
  <2>1. TypeOK
    BY BlankRecord DEF Init, TypeOK, Places, Answers
  <2>2. StampPlace /\ CreatedOnce
    BY DEF Init, StampPlace, CreatedOnce, Before, After, Blank
  <2>3. OwnerStamped /\ WrittenFirst /\ FinalizedClosed
    BY DEF Init, OwnerStamped, WrittenFirst, FinalizedClosed, Blank, Before, TypeOK
  <2>4. SpentMeansWritten /\ SuccessMeansSpent /\ OneFinalizer
    BY DEF Init, SpentMeansWritten, SuccessMeansSpent, OneFinalizer, Blank
  <2> QED
    BY <2>1, <2>2, <2>3, <2>4 DEF SafeInv
<1>2. SafeInv /\ [Next]_vars => SafeInv'
  <2> SUFFICES ASSUME SafeInv, [Next]_vars PROVE SafeInv'
    OBVIOUS
  <2>1. TypeOK'
    BY TypeStep DEF SafeInv
  <2>2. StampPlace' /\ CreatedOnce' /\ OwnerStamped' /\ WrittenFirst'
    BY StampPlaceStep, CreatedOnceStep, OwnerStampedStep, WrittenFirstStep DEF SafeInv
  <2>3. FinalizedClosed' /\ OneFinalizer' /\ SpentMeansWritten' /\ SuccessMeansSpent'
    BY FinalizedClosedStep, SpentMeansWrittenStep, SuccessMeansSpentStep DEF SafeInv
  <2> QED
    BY <2>1, <2>2, <2>3 DEF SafeInv
<1> QED
  BY <1>1, <1>2, PTL DEF Spec

-----------------------------------------------------------------------------
(* The properties the runs check *)

\* A record reads "changed" only when some request wrote a password through it.
THEOREM SpentMeansWrittenHolds == Spec => []SpentMeansWritten
<1>1. SafeInv => SpentMeansWritten
  BY DEF SafeInv
<1> QED
  BY <1>1, SafetyHolds, PTL

\* A caller told "ok" wrote the password, and its token is closed for good.
THEOREM SuccessMeansSpentHolds == Spec => []SuccessMeansSpent
<1>1. SafeInv => SuccessMeansSpent
  BY DEF SafeInv
<1> QED
  BY <1>1, SafetyHolds, PTL

\* At most one request finalizes a token.
THEOREM OneFinalizerHolds == Spec => []OneFinalizer
<1>1. SafeInv => OneFinalizer
  BY DEF SafeInv
<1> QED
  BY <1>1, SafetyHolds, PTL

\* With distinct claim stamps the fence lets the last claimant through only.
THEOREM FenceNamesOwnerHolds == Spec => []FenceNamesOwner
<1>1. SafeInv => FenceNamesOwner
  <2> SUFFICES ASSUME SafeInv,
                      \A p, q \in Request : stamp[p] = stamp[q] /\ stamp[p] # 0 => p = q,
                      NEW p \in Request, Holds(p), Fenced(resets[tok[p]], stamp[p])
               PROVE  owner[tok[p]] = {p}
    BY DEF FenceNamesOwner
  <2>1. tok[p] \in Token
    BY DEF SafeInv, TypeOK
  <2>2. PICK q \in Request : /\ owner[tok[p]] = {q} /\ stamp[q] # 0
                             /\ stamp[q] = resets[tok[p]].updatedAt
    BY <2>1 DEF SafeInv, OwnerStamped, Fenced
  <2>3. stamp[q] = stamp[p]
    BY <2>2 DEF Fenced
  <2> QED
    BY <2>2, <2>3
<1> QED
  BY <1>1, SafetyHolds, PTL

\* A used or expired token never becomes claimable again.
THEOREM ClosedStaysClosedHolds == Spec => ClosedStaysClosed
<1>1. SafeInv /\ [Next]_vars => [\A j \in Token : Closed(j) => Closed(j)']_vars
  BY RowForward DEF SafeInv
<1> QED
  BY <1>1, SafetyHolds, PTL DEF Spec, ClosedStaysClosed

-----------------------------------------------------------------------------
(* Prompt claimants own their token alone *)

\* A claimant is inside its claim TTL.
InTime ==
    \A p \in Request : pc[p] \in {"stamped", "claimed", "releasing", "written"} =>
        stamp[p] <= clock /\ clock < stamp[p] + ClaimTTL

\* An open record is unused.
OpenUnused ==
    \A j \in Token : resets[j].status \in {"requested", "processing"} => ~resets[j].used

\* The record of a claimant is claimed by it, or was expired meanwhile.
HolderClaims ==
    \A p \in Request : Holds(p) =>
        /\ resets[tok[p]].status \in {"processing", "expired"}
        /\ resets[tok[p]].status = "processing" => resets[tok[p]].updatedAt = stamp[p]

PromptInv == InTime /\ OpenUnused /\ HolderClaims /\ ExclusiveOwnership

\* InTime is kept: with Prompt the clock waits for claimants.
LEMMA InTimeStep ==
    ASSUME TypeOK, InTime, Prompt, [Next]_vars
    PROVE  InTime'
<1>1. CASE Tick
  BY <1>1 DEF Tick, InTime, Busy, localVars, TypeOK
<1>2. ASSUME ~Tick PROVE UNCHANGED clock
  BY <1>2
  DEF Next, Issue, IssueLink, RecordReset, RecordResetFails, Start, Execute, Resolve, Crash,
      GetResetByJTI, ValidateResetRecord, UpdateResetStatusRead, UpdateResetStatusWrite,
      RefuseAccepted, StampClaim, ClaimReset, ReportConflict, ResetPassword,
      ResetPasswordFails, ReleaseResetClaim, FinalizeReset, ReadBack, vars
<1>3. CASE UNCHANGED clock
  <2> SUFFICES ASSUME NEW p \in Request,
                      pc'[p] \in {"stamped", "claimed", "releasing", "written"}
               PROVE  stamp'[p] <= clock /\ clock < stamp'[p] + ClaimTTL
    BY <1>3 DEF InTime
  <2>1. LocalMove(p) /\ clock \in Nat /\ ClaimTTL \in Nat \ {0}
    BY LocalStep, TimeAssumption DEF TypeOK
  <2> QED
    BY <2>1 DEF LocalMove, Stays, Resolves, Works, Ends, Goes, InTime
<1> QED
  BY <1>1, <1>2, <1>3

\* OpenUnused is kept: claims and releases require an unused record.
LEMMA OpenUnusedStep ==
    ASSUME TypeOK, CreatedOnce, OpenUnused, [Next]_vars
    PROVE  OpenUnused'
<1>1. SUFFICES ASSUME NEW j \in Token, resets'[j].status \in {"requested", "processing"}
               PROVE  ~resets'[j].used
  BY DEF OpenUnused
<1>2. RowMove(j)
  BY RowStep
<1>3. CASE RowKept(j)
  BY <1>1, <1>3 DEF RowKept, OpenUnused
<1>4. CASE RowCreated(j)
  BY <1>4 DEF RowCreated
<1>5. ASSUME NEW p \in Request, RowClaimed(j, p) \/ RowReleased(j, p) \/ RowFinalized(j, p)
      PROVE  ~resets'[j].used
  <2>1. resets[j] \in Record /\ clock \in Nat /\ stamp[p] \in Nat
    BY DEF TypeOK
  <2> QED
    BY <1>1, <1>5, <2>1, RowFields
    DEF RowClaimed, RowReleased, RowFinalized, Claimable, Fenced
<1> QED
  BY <1>1, <1>2, <1>3, <1>4, <1>5 DEF RowMove, RowExpired

\* Nobody can take over the claim of a prompt claimant.
LEMMA NoTakeover ==
    ASSUME TypeOK, InTime, HolderClaims, NEW p \in Request, Holds(p),
           NEW q \in Request, pc[q] = "stamped", tok[q] = tok[p]
    PROVE  ~Claimable(resets[tok[p]], stamp[q])
<1>1. stamp[q] <= clock /\ clock < stamp[p] + ClaimTTL
  BY DEF InTime, Holds
<1>2. /\ stamp[p] \in Nat /\ stamp[q] \in Nat /\ clock \in Nat /\ ClaimTTL \in Nat
      /\ resets[tok[p]].updatedAt \in Nat
  BY TimeAssumption DEF TypeOK, Record
<1> QED
  BY <1>1, <1>2 DEF HolderClaims, Claimable

\* A request comes to hold a claim only by taking it in this very step.
LEMMA HolderStep ==
    ASSUME TypeOK, [Next]_vars, NEW p \in Request, Holds(p)'
    PROVE  /\ UNCHANGED stamp[p]
           /\ Holds(p) \/ (pc[p] = "stamped" /\ TakeClaim(p))
<1>1. LocalMove(p)
  BY LocalStep
<1>2. pc'[p] \in {"claimed", "releasing", "written"}
  BY DEF Holds
<1> QED
  BY <1>1, <1>2 DEF LocalMove, Stays, Resolves, Works, Ends, Goes, Holds

\* HolderClaims is kept: nobody takes over, releases or finalizes for a holder.
LEMMA HolderClaimsStep ==
    ASSUME TypeOK, CreatedOnce, PromptInv, [Next]_vars
    PROVE  HolderClaims'
<1>1. SUFFICES ASSUME NEW p \in Request, Holds(p)'
               PROVE  /\ resets'[tok[p]].status \in {"processing", "expired"}
                      /\ resets'[tok[p]].status = "processing" =>
                             resets'[tok[p]].updatedAt = stamp'[p]
  BY LocalStep DEF HolderClaims
<1>2. PICK j \in Token : j = tok[p]
  BY DEF TypeOK
<1>3. /\ tok[p] \in Token /\ resets[tok[p]] \in Record /\ stamp[p] \in Nat
      /\ resets \in [Token -> Record]
  BY DEF TypeOK
<1>4. CASE pc[p] = "stamped" /\ TakeClaim(p)
  <2>1. resets'[tok[p]] = Claimed(resets[tok[p]], stamp[p])
    BY <1>3, <1>4, RowType, StoreEffect DEF TakeClaim
  <2> QED
    BY <1>1, <1>3, <2>1, RowFields, HolderStep
<1>5. CASE Holds(p)
  <2>1. RowMove(j) /\ UNCHANGED stamp[p]
    BY <1>1, RowStep, HolderStep
  <2>2. /\ resets[j].status \in {"processing", "expired"}
        /\ resets[j].status = "processing" => resets[j].updatedAt = stamp[p]
    BY <1>2, <1>5 DEF HolderClaims, PromptInv
  <2>3. CASE RowKept(j) \/ RowCreated(j) \/ RowExpired(j)
    BY <1>2, <2>1, <2>2, <2>3 DEF RowKept, RowCreated, RowExpired
  <2>4. ASSUME NEW q \in Request, RowClaimed(j, q) PROVE FALSE
    BY <1>2, <1>5, <2>4, NoTakeover DEF RowClaimed, PromptInv
  <2>5. ASSUME NEW q \in Request, RowReleased(j, q) \/ RowFinalized(j, q)
        PROVE  FALSE
    <3>1. q = p
      BY <1>2, <1>5, <2>5
      DEF RowReleased, RowFinalized, Holds, PromptInv, ExclusiveOwnership
    <3> QED
      BY <1>1, <2>5, <3>1 DEF RowReleased, RowFinalized, Holds
  <2> QED
    BY <2>1, <2>3, <2>4, <2>5 DEF RowMove
<1> QED
  BY <1>1, <1>4, <1>5, HolderStep

\* A claim is granted only when nobody holds one.
LEMMA ExclusiveStep ==
    ASSUME TypeOK, PromptInv, [Next]_vars
    PROVE  ExclusiveOwnership'
<1>1. SUFFICES ASSUME NEW p \in Request, NEW q \in Request, Holds(p)', Holds(q)',
                      tok[p] = tok[q]
               PROVE  p = q
  BY LocalStep DEF ExclusiveOwnership
<1>2. CASE Holds(p) /\ Holds(q)
  BY <1>1, <1>2 DEF PromptInv, ExclusiveOwnership
<1>3. ASSUME NEW a \in Request, NEW b \in Request, tok[a] = tok[b],
             Holds(a), pc[b] = "stamped", TakeClaim(b)
      PROVE  FALSE
  BY <1>3, NoTakeover DEF TakeClaim, PromptInv
<1>4. CASE TakeClaim(p) /\ TakeClaim(q)
  <2>1. owner' = [owner EXCEPT ![tok[p]] = {p}] /\ owner' = [owner EXCEPT ![tok[p]] = {q}]
    BY <1>1, <1>4 DEF TakeClaim
  <2>2. tok[p] \in Token /\ owner \in [Token -> SUBSET Request]
    BY DEF TypeOK
  <2> QED
    BY <2>1, <2>2
<1> QED
  BY <1>1, <1>2, <1>3, <1>4, HolderStep

\* With prompt claimants the claim invariant holds in every reachable state.
THEOREM PromptHolds == ASSUME Prompt PROVE Spec => []PromptInv
<1>1. Init => PromptInv
  BY DEF Init, PromptInv, InTime, OpenUnused, HolderClaims, ExclusiveOwnership, Holds, Blank
<1>2. SafeInv /\ PromptInv /\ [Next]_vars => PromptInv'
  BY InTimeStep, OpenUnusedStep, HolderClaimsStep, ExclusiveStep DEF SafeInv, PromptInv
<1> QED
  BY <1>1, <1>2, SafetyHolds, PTL DEF Spec

\* "Exclusive ownership during password change finalization": with prompt
\* claimants no two live requests hold the claim of one token.
THEOREM ExclusiveOwnershipHolds == ASSUME Prompt PROVE Spec => []ExclusiveOwnership
<1>1. PromptInv => ExclusiveOwnership
  BY DEF PromptInv
<1> QED
  BY <1>1, PromptHolds, PTL

-----------------------------------------------------------------------------
(* One success *)

\* With prompt claimants and no failed statement, who reads back the record
\* finalized it, or will find it expired.
ReadsOwn ==
    \A p \in Request :
        /\ pc[p] = "readback" =>
              p \in finalizers[tok[p]] \/ resets[tok[p]].status = "expired"
        /\ answer[p] = "ok" => p \in finalizers[tok[p]]

\* ReadsOwn is kept: with exclusive claims nobody else finalizes in between.
LEMMA ReadsOwnStep ==
    ASSUME "error" \notin Faults, SafeInv, PromptInv, ReadsOwn, [Next]_vars
    PROVE  ReadsOwn'
<1>1. TypeOK /\ CreatedOnce
  BY DEF SafeInv
<1>2. SUFFICES ASSUME NEW p \in Request, NEW j \in Token, j = tok[p]
               PROVE  /\ pc'[p] = "readback" =>
                            p \in finalizers'[j] \/ resets'[j].status = "expired"
                      /\ answer'[p] = "ok" => p \in finalizers'[j]
  <2>1. UNCHANGED tok \/ Request = {}
    BY <1>1, LocalStep
  <2>2. \A p \in Request : tok[p] \in Token
    BY <1>1 DEF TypeOK
  <2> QED
    BY <2>1, <2>2 DEF ReadsOwn
<1>3. LocalMove(p)
  BY <1>1, LocalStep
<1>4. /\ finalizers[j] \subseteq finalizers'[j]
      /\ resets[j].status = "expired" => resets'[j].status = "expired"
  <2>1. RowMove(j)
    BY <1>1, RowStep
  <2>2. ASSUME NEW q \in Request, RowClaimed(j, q) \/ RowReleased(j, q) \/ RowFinalized(j, q)
        PROVE  resets[j].status # "expired" /\ finalizers[j] \subseteq finalizers'[j]
    BY <2>2 DEF RowClaimed, RowReleased, RowFinalized, Claimable, Fenced
  <2> QED
    BY <2>1, <2>2 DEF RowMove, RowKept, RowCreated, RowExpired
<1>5. ASSUME WriteFinal(p) PROVE p \in finalizers'[j]
  BY <1>1, <1>2, <1>5 DEF WriteFinal, TypeOK
<1>6. ASSUME pc[p] = "written", ~Fenced(resets[j], stamp[p])
      PROVE  resets[j].status = "expired"
  BY <1>2, <1>6 DEF PromptInv, HolderClaims, OpenUnused, Holds, Fenced
<1>7. CASE Stays(p) \/ Resolves(p)
  BY <1>2, <1>4, <1>7 DEF Stays, Resolves, Goes, ReadsOwn
<1>8. CASE Works(p)
  BY <1>2, <1>4, <1>5, <1>6, <1>8 DEF Works, Goes, ReadsOwn
<1>9. CASE Ends(p)
  BY <1>2, <1>4, <1>5, <1>9 DEF Ends, ReadsOwn, PasswordResetFinalized
<1> QED
  BY <1>3, <1>7, <1>8, <1>9 DEF LocalMove

\* With prompt claimants and no failed statement, lost replies and crashes
\* notwithstanding, at most one caller per token is told "ok".
THEOREM OneSuccessHolds ==
    ASSUME Prompt, "error" \notin Faults
    PROVE  Spec => []OneSuccess
<1>1. Init => ReadsOwn
  BY DEF Init, ReadsOwn
<1>2. SafeInv /\ PromptInv /\ ReadsOwn /\ [Next]_vars => ReadsOwn'
  BY ReadsOwnStep
<1>3. SafeInv /\ ReadsOwn => OneSuccess
  BY DEF SafeInv, TypeOK, ReadsOwn, OneFinalizer, OneSuccess
<1> QED
  BY <1>1, <1>2, <1>3, SafetyHolds, PromptHolds, PTL DEF Spec

-----------------------------------------------------------------------------
(* The implementation of OneTimeReset *)

DoorMap == [j \in Token |-> DoorOf(resets[j])]
StageMap == [p \in Request |-> StageOf(p)]

\* What a step of p on token j does to the promise's variables; d and s are
\* the door and the stage before it, dd and ss after it.
Maps(d, s, dd, ss) ==
    \/ dd = d /\ ss = s
    \/ d = "open" /\ dd = d /\ s = "out" /\ ss = "in"
    \/ dd = d /\ s = "in" /\ ss = "wrote"
    \/ /\ s \notin {"yes", "no"}
       /\ dd = d \/ (d = "open" /\ dd = "closed" /\ s \in {"out", "wrote"})
       /\ ss = "no" \/ (s = "wrote" /\ dd = "closed" /\ ss = "yes")
    \/ d = "open" /\ dd = "closed" /\ s \in {"out", "wrote"} /\ ss = s

\* A step that moves one request and one door as Maps says is a step of the promise.
LEMMA MapsStep ==
    ASSUME UNCHANGED tok, NEW p \in Request, NEW j \in Token, tok[p] = j,
           \A q \in Request \ {p} : StageMap'[q] = StageMap[q],
           \A k \in Token \ {j} : DoorMap'[k] = DoorMap[k],
           Maps(DoorMap[j], StageMap[p], DoorMap'[j], StageMap'[p])
    PROVE  [Promise!Next]_(Promise!vars)
<1> DEFINE d == DoorMap[j]
           s == StageMap[p]
           dd == DoorMap'[j]
           ss == StageMap'[p]
<1>1. DoorMap' = [DoorMap EXCEPT ![j] = dd]
  BY DEF DoorMap
<1>2. StageMap' = [StageMap EXCEPT ![p] = ss]
  BY DEF StageMap
<1>3. dd = d => DoorMap' = DoorMap
  BY DEF DoorMap
<1>4. ss = s => StageMap' = StageMap
  BY DEF StageMap
<1> HIDE DEF d, s, dd, ss
<1>5. CASE dd = d /\ ss = s
  BY <1>3, <1>4, <1>5 DEF Promise!vars, DoorMap, StageMap
<1>6. CASE d = "open" /\ dd = d /\ s = "out" /\ ss = "in"
  <2>1. Promise!Admit(p)
    BY <1>2, <1>3, <1>6 DEF Promise!Admit, DoorMap, StageMap, d, s
  <2> QED
    BY <2>1 DEF Promise!Next
<1>7. CASE dd = d /\ s = "in" /\ ss = "wrote"
  <2>1. Promise!Write(p)
    BY <1>2, <1>3, <1>7 DEF Promise!Write, DoorMap, StageMap, s
  <2> QED
    BY <2>1 DEF Promise!Next
<1>8. ASSUME d = "open", dd = "closed", s \in {"out", "wrote"} PROVE Promise!Close(p)
  BY <1>1, <1>8 DEF Promise!Close, DoorMap, StageMap, d, s
<1>9. CASE /\ s \notin {"yes", "no"}
           /\ dd = d \/ (d = "open" /\ dd = "closed" /\ s \in {"out", "wrote"})
           /\ ss = "no" \/ (s = "wrote" /\ dd = "closed" /\ ss = "yes")
  <2>1. Promise!Finish(p)
    BY <1>2, <1>3, <1>8, <1>9 DEF Promise!Finish, DoorMap, StageMap, s, dd
  <2> QED
    BY <2>1 DEF Promise!Next
<1>10. CASE d = "open" /\ dd = "closed" /\ s \in {"out", "wrote"} /\ ss = s
  BY <1>4, <1>8, <1>10 DEF Promise!Next, StageMap
<1> QED
  BY <1>5, <1>6, <1>7, <1>9, <1>10 DEF Maps, d, s, dd, ss

\* Who stays keeps its stage.
LEMMA StageStays ==
    ASSUME TypeOK, [Next]_vars, NEW p \in Request, Stays(p)
    PROVE  StageMap'[p] = StageMap[p]
<1>1. UNCHANGED tok /\ tok[p] \in Token
  BY LocalStep DEF TypeOK
<1>2. p \in wrote'[tok[p]] <=> p \in wrote[tok[p]]
  BY <1>1, TraceStep DEF Stays
<1> QED
  BY <1>1, <1>2 DEF StageMap, StageOf, Stays

\* A step of p touches the row of its token only; it closes the door when it
\* expires or finalizes the record, and never opens it.
LEMMA DoorStep ==
    ASSUME TypeOK, CreatedOnce, NEW p \in Request, Step(p), NEW j \in Token, tok[p] = j
    PROVE  /\ \A k \in Token \ {j} : resets'[k] = resets[k]
           /\ \/ DoorOf(resets'[j]) = DoorOf(resets[j])
              \/ /\ DoorOf(resets[j]) = "open" /\ DoorOf(resets'[j]) = "closed"
                 /\ \/ pc[p] = "overwriting" /\ pc'[p] = "done"
                    \/ pc[p] = "written" /\ pc'[p] \in {"done", "readback"}
<1>1. /\ resets[j] \in Record /\ seen[p] \in Record /\ stamp[p] \in Nat /\ clock \in Nat
      /\ resets \in [Token -> Record] /\ pc \in [Request -> Places]
      /\ seen[p].used \in BOOLEAN /\ resets[j].used \in BOOLEAN
  BY DEF TypeOK, Record
<1>2. ASSUME NEW rec \in Record, Store(j, rec)
      PROVE  resets'[j] = rec /\ \A k \in Token \ {j} : resets'[k] = resets[k]
  BY <1>1, <1>2, StoreEffect
<1>3. CASE UNCHANGED resets
  BY <1>3
<1>4. CASE TakeClaim(p)
  <2>1. DoorOf(resets[j]) = "open"
    BY <1>4 DEF TakeClaim, Claimable, DoorOf
  <2>2. Claimed(resets[j], stamp[p]) \in Record
    BY <1>1, RowType
  <2>3. DoorOf(Claimed(resets[j], stamp[p])) = "open"
    BY <1>1, RowFields DEF DoorOf
  <2> QED
    BY <1>2, <1>4, <2>1, <2>2, <2>3 DEF TakeClaim
<1>5. CASE UpdateResetStatusWrite(p)
  <2>1. ASSUME NEW u \in BOOLEAN, Store(j, Expired(seen[p], u, clock))
        PROVE  resets'[j].status = "expired" /\ \A k \in Token \ {j} : resets'[k] = resets[k]
    <3>1. Expired(seen[p], u, clock) \in Record
      BY <1>1, RowType
    <3>2. Expired(seen[p], u, clock).status = "expired"
      BY DEF Expired
    <3> QED
      BY <1>2, <2>1, <3>1, <3>2
  <2>2. DoorOf(resets[j]) \in {"open", "closed"}
    <3>1. resets[j].status \in Status \ {"absent"}
      BY <1>1, <1>5 DEF UpdateResetStatusWrite, CreatedOnce, Record
    <3> QED
      BY <3>1 DEF DoorOf, Status
  <2>3. resets'[j].status = "expired" => DoorOf(resets'[j]) = "closed"
    BY DEF DoorOf
  <2>4. pc[p] = "overwriting" /\ pc'[p] = "done"
    BY <1>1, <1>5 DEF UpdateResetStatusWrite, Reply, Goto
  <2> QED
    BY <1>1, <1>3, <1>5, <2>1, <2>2, <2>3, <2>4 DEF UpdateResetStatusWrite
<1>6. CASE Fenced(resets[j], stamp[p]) /\ Store(j, Released(resets[j], clock))
  <2>1. DoorOf(resets[j]) = "open"
    BY <1>6 DEF Fenced, DoorOf
  <2>2. Released(resets[j], clock) \in Record
    BY <1>1, RowType
  <2>3. DoorOf(Released(resets[j], clock)) = "open"
    BY <1>1, RowFields DEF DoorOf
  <2> QED
    BY <1>2, <1>6, <2>1, <2>2, <2>3
<1>7. CASE WriteFinal(p) /\ FinalizeReset(p)
  <2>1. DoorOf(resets[j]) = "open"
    BY <1>7 DEF WriteFinal, Fenced, DoorOf
  <2>2. Finalized(resets[j], clock) \in Record
    BY <1>1, RowType
  <2>3. DoorOf(Finalized(resets[j], clock)) = "closed"
    BY <1>1, RowFields DEF DoorOf
  <2>4. pc[p] = "written" /\ pc'[p] \in {"done", "readback"}
    BY <1>1, <1>7 DEF FinalizeReset, Reply, Goto
  <2> QED
    BY <1>2, <1>7, <2>1, <2>2, <2>3, <2>4 DEF WriteFinal
<1> QED
  BY <1>3, <1>4, <1>5, <1>6, <1>7
  DEF Step, Start, Execute, Resolve, Crash, GetResetByJTI, ValidateResetRecord,
      UpdateResetStatusRead, RefuseAccepted, StampClaim, ClaimReset, ReportConflict,
      ResetPassword, ResetPasswordFails, ReleaseResetClaim, FinalizeReset, ReadBack,
      issueVars

\* Each move of a request is one the promise allows.
LEMMA OwnMaps ==
    ASSUME SafeInv, [Next]_vars, NEW p \in Request, Step(p), NEW j \in Token, tok[p] = j
    PROVE  Maps(DoorMap[j], StageMap[p], DoorMap'[j], StageMap'[p])
<1>1. TypeOK /\ CreatedOnce /\ WrittenFirst /\ UNCHANGED tok
  BY LocalStep DEF SafeInv
<1>2. /\ DoorMap[j] = DoorOf(resets[j]) /\ DoorMap'[j] = DoorOf(resets'[j])
      /\ StageMap[p] = StageOf(p) /\ StageMap'[p] = StageOf(p)'
  BY DEF DoorMap, StageMap
<1>3. \/ DoorMap'[j] = DoorMap[j]
      \/ /\ DoorMap[j] = "open" /\ DoorMap'[j] = "closed"
         /\ \/ pc[p] = "overwriting" /\ pc'[p] = "done"
            \/ pc[p] = "written" /\ pc'[p] \in {"done", "readback"}
  BY <1>1, <1>2, DoorStep
<1>4. CASE Resolves(p)
  <2>1. StageMap[p] = "out" /\ StageMap'[p] = "out"
    BY <1>2, <1>4 DEF Resolves, Goes, StageOf
  <2> QED
    BY <1>3, <1>4, <2>1 DEF Maps, Resolves, Goes
<1>5. CASE Works(p)
  <2>1. CASE Goes(p, "stamped", "claimed") /\ TakeClaim(p)
    <3>1. DoorMap[j] = "open"
      BY <1>2, <2>1 DEF TakeClaim, Claimable, DoorOf
    <3>2. StageMap[p] = "out" /\ StageMap'[p] = "in"
      BY <1>2, <2>1 DEF Goes, StageOf
    <3> QED
      BY <1>3, <2>1, <3>1, <3>2 DEF Maps, Goes
  <2>2. CASE Goes(p, "stamped", "conflict")
    <3>1. StageMap[p] = "out" /\ StageMap'[p] = "out"
      BY <1>2, <2>2 DEF Goes, StageOf
    <3> QED
      BY <1>3, <2>2, <3>1 DEF Maps, Goes
  <2>3. CASE Goes(p, "claimed", "written") \/ Goes(p, "claimed", "releasing")
    <3>1. StageMap[p] = "in" /\ StageMap'[p] \in {"in", "wrote"}
      BY <1>2, <2>3 DEF Goes, StageOf
    <3> QED
      BY <1>3, <2>3, <3>1 DEF Maps, Goes
  <2>4. CASE Goes(p, "written", "readback")
    <3>1. StageMap[p] = "wrote" /\ StageMap'[p] = "wrote"
      BY <1>2, <2>4 DEF Goes, StageOf
    <3> QED
      BY <1>3, <3>1 DEF Maps
  <2> QED
    BY <1>5, <2>1, <2>2, <2>3, <2>4 DEF Works
<1>6. CASE Ends(p)
  <2>1. StageMap[p] \in {"out", "in", "wrote"}
    BY <1>2, <1>6 DEF Ends, StageOf, Before, After
  <2>2. /\ pc[p] = "overwriting" => StageMap[p] = "out"
        /\ pc[p] \in {"written", "readback"} => StageMap[p] = "wrote"
    BY <1>2 DEF StageOf
  <2>3. CASE pc'[p] = "crashed" \/ (pc'[p] = "done" /\ answer'[p] # "ok")
    <3>1. StageMap'[p] = "no"
      BY <1>2, <2>3 DEF StageOf
    <3> QED
      BY <1>3, <2>1, <2>2, <3>1 DEF Maps
  <2>4. CASE pc[p] \in {"written", "readback"} /\ pc'[p] = "done" /\ answer'[p] = "ok"
    <3>1. StageMap'[p] = "yes"
      BY <1>2, <2>4 DEF StageOf
    <3>2. Closed(j)'
      BY <1>1, <2>4, SuccessMeansSpentStep DEF SafeInv, SuccessMeansSpent
    <3>3. DoorMap'[j] = "closed"
      BY <1>2, <3>2 DEF Closed, DoorOf
    <3> QED
      BY <1>3, <2>2, <2>4, <3>1, <3>3 DEF Maps
  <2> QED
    BY <1>6, <2>3, <2>4 DEF Ends
<1> QED
  BY <1>1, <1>4, <1>5, <1>6, OwnStep

\* Creating a record opens its door.
LEMMA CreateMaps ==
    ASSUME TypeOK, CreatedOnce, NEW j \in Token, links[j].stage = "issued",
           CreateReset(j), UNCHANGED <<localVars, traceVars>>
    PROVE  Promise!Open(j)
<1>1. links[j].expiresAt \in Nat /\ clock \in Nat /\ resets \in [Token -> Record]
  BY DEF TypeOK
<1>2. resets[j].status = "absent"
  BY DEF CreatedOnce
<1>3. Requested(links[j].expiresAt, clock).status = "requested"
  BY DEF Requested
<1>4. DoorOf(resets[j]) = "none" /\ DoorOf(Requested(links[j].expiresAt, clock)) = "open"
  BY <1>2, <1>3 DEF DoorOf
<1>5. DoorMap' = [DoorMap EXCEPT ![j] = "open"]
  BY <1>1, <1>4 DEF CreateReset, Store, DoorMap
<1>6. UNCHANGED StageMap
  BY DEF StageMap, StageOf, localVars, traceVars
<1> QED
  BY <1>4, <1>5, <1>6 DEF Promise!Open, DoorMap, StageMap, localVars

\* Claims, fences, clock and faults implement the promise of OneTimeReset.
THEOREM PromiseHolds == Spec => PromiseKept
<1>1. Init => Promise!Init
  <2> SUFFICES ASSUME Init PROVE Promise!Init
    OBVIOUS
  <2>1. \A j \in Token : DoorOf(resets[j]) = "none"
    BY DEF Init, Blank, DoorOf
  <2>2. \A p \in Request : StageOf(p) = "out"
    BY DEF Init, StageOf
  <2> QED
    BY <2>1, <2>2 DEF Init, Promise!Init
<1>2. SafeInv /\ [Next]_vars => [Promise!Next]_(Promise!vars)
  <2> SUFFICES ASSUME SafeInv, [Next]_vars PROVE [Promise!Next]_(Promise!vars)
    OBVIOUS
  <2>1. TypeOK /\ CreatedOnce
    BY DEF SafeInv
  <2>2. CASE UNCHANGED <<resets, localVars, traceVars>>
    BY <2>2 DEF Promise!vars, StageOf, localVars, traceVars
  <2>3. ASSUME NEW j \in Token, Issue(j) PROVE [Promise!Next]_(Promise!vars)
    <3>1. CASE links[j].stage = "issued" /\ CreateReset(j) /\ UNCHANGED <<localVars, traceVars>>
      <4>1. Promise!Open(j)
        BY <2>1, <3>1, CreateMaps
      <4> QED
        BY <4>1 DEF Promise!Next
    <3> QED
      BY <2>2, <2>3, <3>1 DEF Issue, IssueLink, RecordReset, RecordResetFails
  <2>4. ASSUME NEW p \in Request, Step(p) PROVE [Promise!Next]_(Promise!vars)
    <3>1. PICK j \in Token : tok[p] = j
      BY <2>1 DEF TypeOK
    <3>2. UNCHANGED tok
      BY <2>1, LocalStep
    <3>3. ASSUME NEW q \in Request \ {p} PROVE StageMap'[q] = StageMap[q]
      BY <2>1, <2>4, OthersStay, StageStays
    <3>4. \A k \in Token \ {j} : DoorMap'[k] = DoorMap[k]
      BY <2>1, <2>4, <3>1, DoorStep DEF DoorMap
    <3>5. Maps(DoorMap[j], StageMap[p], DoorMap'[j], StageMap'[p])
      BY <2>4, <3>1, OwnMaps
    <3> QED
      BY <3>1, <3>2, <3>3, <3>4, <3>5, MapsStep
  <2> QED
    BY <2>2, <2>3, <2>4
    DEF Next, Step, Tick, vars, issueVars, localVars, traceVars
<1> QED
  BY <1>1, <1>2, SafetyHolds, PTL DEF Spec, PromiseKept, Promise!Spec
=============================================================================
