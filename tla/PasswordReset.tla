---------------------------- MODULE PasswordReset ----------------------------
(* Self-service password reset: a link is issued and recorded             *)
(* (command/password_reset_request.go), then presented by confirmation     *)
(* requests (command/password_reset_confirm.go) that claim the record,      *)
(* write the password and finalize the record                                *)
(* (passwordreset/bun_repository.go).  Every step is one database statement *)
(* or one clock reading; requests interleave freely between them.            *)
(*                                                                           *)
(* Abstractions: time is a natural number and 0 is the zero time; used_at    *)
(* is the Boolean "used" because the code only asks whether it is null; the  *)
(* password itself is not kept, only which requests wrote one.               *)
EXTENDS Naturals, FiniteSets

CONSTANTS
    Token,      \* the jti values a link may carry
    Request,    \* confirmation requests, each executed once
    TokenTTL,   \* lifetime of an issued token
    ClaimTTL,   \* claimTTL of the confirm command
    MaxTime,    \* bound on the clock
    Faults,     \* which of "error", "lost_reply", "crash" may happen
    Prompt      \* TRUE: no live claimant outlasts ClaimTTL

ASSUME TimeAssumption ==
    /\ TokenTTL \in Nat \ {0}
    /\ ClaimTTL \in Nat \ {0}
    /\ MaxTime \in Nat \ {0}
ASSUME SwitchAssumption ==
    /\ Faults \subseteq {"error", "lost_reply", "crash"}
    /\ Prompt \in BOOLEAN

VARIABLES
    clock,      \* the shared clock
    links,      \* per token: how far issuing got, and the stamped expiry
    resets,     \* the password reset table
    pc,         \* per request: where Execute stands
    tok,        \* per request: the token of the link it presents
    seen,       \* per request: the record it read last
    stamp,      \* per request: claimedAt, 0 before it is taken
    answer,     \* per request: what the caller was told
    wrote,      \* per token: requests whose password write took effect
    owner,      \* per token: the last request that claimed it, {} if none
    finalizers  \* per token: requests whose FinalizeReset took effect

issueVars == <<links, resets>>
localVars == <<pc, tok, seen, stamp, answer>>
traceVars == <<wrote, owner, finalizers>>
vars == <<clock, links, resets, pc, tok, seen, stamp, answer,
          wrote, owner, finalizers>>

-----------------------------------------------------------------------------
(* Records and their tests *)

Status == {"absent", "requested", "processing", "expired", "changed"}
Record == [status : Status, expiresAt : Nat, used : BOOLEAN, updatedAt : Nat]
Blank == [status |-> "absent", expiresAt |-> 0, used |-> FALSE, updatedAt |-> 0]

ResetClaimActive(rec, now) ==
    rec.status = "processing" /\ rec.updatedAt + ClaimTTL > now

\* Bug: any claim counts as stale, staleAfter is not subtracted.
ClaimableNoGrace(rec, at) ==
    /\ ~rec.used
    /\ rec.expiresAt > at
    /\ rec.status \in {"requested", "processing"} /\ rec.updatedAt <= at

\* The WHERE clause of ClaimReset at the claimant's own stamp.
Claimable(rec, at) ==
    /\ ~rec.used
    /\ rec.expiresAt > at
    /\ \/ rec.status = "requested"
       \/ rec.status = "processing" /\ rec.updatedAt + ClaimTTL <= at

\* Bug: the claim stamp is not part of the fence.
FencedByStatus(rec, at) == rec.status = "processing" /\ ~rec.used

\* The WHERE clause shared by FinalizeReset and ReleaseResetClaim.
Fenced(rec, at) ==
    rec.status = "processing" /\ ~rec.used /\ rec.updatedAt = at

\* What validateResetRecord answers; "late" makes it expire the record first.
Verdict(rec, now) ==
    IF rec.status = "absent" THEN "not_found"
    ELSE IF rec.status = "changed" \/ rec.used THEN "already_used"
    ELSE IF ResetClaimActive(rec, now) THEN "in_progress"
    ELSE IF rec.status = "expired" THEN "expired"
    ELSE IF now > rec.expiresAt THEN "late"
    ELSE "usable"

\* What passwordResetConflictError answers; its tests are tried in order.
ConflictVerdict(rec, at) ==
    IF rec.status = "absent" THEN "not_found"
    ELSE IF at > rec.expiresAt \/ rec.status = "expired" THEN "expired"
    ELSE IF ResetClaimActive(rec, at) THEN "in_progress"
    ELSE IF rec.status = "changed" \/ rec.used THEN "already_used"
    ELSE "in_progress"

Answers == {"none", "ok", "error", "refused", "not_found", "already_used",
            "in_progress", "expired"}
Places == {"idle", "resolving", "validating", "expiring", "overwriting",
           "accepted", "stamped", "conflict", "claimed", "releasing",
           "written", "readback", "done", "crashed"}

\* The rows that the statements leave behind, and the statement itself.
Requested(expiry, now) ==
    [status |-> "requested", expiresAt |-> expiry, used |-> FALSE, updatedAt |-> now]
Expired(rec, used, now) ==
    [status |-> "expired", expiresAt |-> rec.expiresAt, used |-> used, updatedAt |-> now]
Claimed(rec, at) == [rec EXCEPT !.status = "processing", !.updatedAt = at]
Released(rec, now) == [rec EXCEPT !.status = "requested", !.updatedAt = now]
Finalized(rec, now) == [rec EXCEPT !.status = "changed", !.used = TRUE, !.updatedAt = now]

Store(j, rec) == resets' = [resets EXCEPT ![j] = rec]

-----------------------------------------------------------------------------
Init ==
    /\ clock = 1
    /\ links \in [Token -> {[stage |-> s, expiresAt |-> 0] : s \in {"none", "foreign"}}]
    /\ resets = [j \in Token |-> Blank]
    /\ pc = [p \in Request |-> "idle"]
    /\ tok \in [Request -> Token]
    /\ seen = [p \in Request |-> Blank]
    /\ stamp = [p \in Request |-> 0]
    /\ answer = [p \in Request |-> "none"]
    /\ wrote = [j \in Token |-> {}]
    /\ owner = [j \in Token |-> {}]
    /\ finalizers = [j \in Token |-> {}]

-----------------------------------------------------------------------------
(* Issuing: the expiry is stamped before the record is written *)

IssueLink(j) ==
    /\ links[j].stage = "none"
    /\ links' = [links EXCEPT ![j] =
                    [stage |-> "issued", expiresAt |-> clock + TokenTTL]]
    /\ UNCHANGED <<clock, resets, localVars, traceVars>>

CreateReset(j) == Store(j, Requested(links[j].expiresAt, clock))

RecordReset(j) ==
    /\ links[j].stage = "issued"
    /\ CreateReset(j)
    /\ links' = [links EXCEPT ![j].stage = "delivered"]
    /\ UNCHANGED <<clock, localVars, traceVars>>

\* An error hides the link from the caller, whether or not the row exists.
RecordResetFails(j) ==
    /\ links[j].stage = "issued"
    /\ links' = [links EXCEPT ![j].stage = "withheld"]
    /\ \/ "error" \in Faults /\ UNCHANGED resets
       \/ "lost_reply" \in Faults /\ CreateReset(j)
    /\ UNCHANGED <<clock, localVars, traceVars>>

-----------------------------------------------------------------------------
(* Confirmation: resolveResetToken *)

Goto(p, place) == pc' = [pc EXCEPT ![p] = place]

Reply(p, what) ==
    /\ Goto(p, "done")
    /\ answer' = [answer EXCEPT ![p] = what]
    /\ seen' = [seen EXCEPT ![p] = Blank]

\* "foreign" is a genuine link of another route: it carries a jti that no
\* reset record has.
Start(p) ==
    /\ pc[p] = "idle"
    /\ links[tok[p]].stage \in {"delivered", "foreign"}
    /\ \/ Goto(p, "resolving") /\ UNCHANGED <<answer, seen>>
       \/ Reply(p, "refused")       \* the link manager rejects the link
    /\ UNCHANGED <<clock, issueVars, tok, stamp, traceVars>>

GetResetByJTI(p) ==
    /\ pc[p] = "resolving"
    /\ \/ /\ Goto(p, "validating")
          /\ seen' = [seen EXCEPT ![p] = resets[tok[p]]]
          /\ UNCHANGED answer
       \/ "error" \in Faults /\ Reply(p, "error")
    /\ UNCHANGED <<clock, issueVars, tok, stamp, traceVars>>

ValidateResetRecord(p) ==
    /\ pc[p] = "validating"
    /\ LET verdict == Verdict(seen[p], clock) IN
       \/ verdict = "late" /\ Goto(p, "expiring") /\ UNCHANGED <<answer, seen>>
       \/ /\ verdict = "usable"
          /\ Goto(p, "accepted")
          /\ seen' = [seen EXCEPT ![p] = Blank]
          /\ UNCHANGED answer
       \/ verdict \notin {"late", "usable"} /\ Reply(p, verdict)
    /\ UNCHANGED <<clock, issueVars, tok, stamp, traceVars>>

\* UpdateResetStatus reads the record, then writes all of it back.  Whether
\* a null used_at of the copy is written is the store's choice.
UpdateResetStatusRead(p) ==
    /\ pc[p] = "expiring"
    /\ \/ /\ Goto(p, "overwriting")
          /\ seen' = [seen EXCEPT ![p] = resets[tok[p]]]
          /\ UNCHANGED answer
       \/ "error" \in Faults /\ Reply(p, "expired")
    /\ UNCHANGED <<clock, issueVars, tok, stamp, traceVars>>

\* Bug: the copy is written back with the status it was read with.
UpdateResetStatusWriteStale(p) ==
    /\ pc[p] = "overwriting"
    /\ Store(tok[p], seen[p])
    /\ Reply(p, "expired")
    /\ UNCHANGED <<clock, links, tok, stamp, traceVars>>

UpdateResetStatusWrite(p) ==
    /\ pc[p] = "overwriting"
    /\ \/ \E keep \in {seen[p].used, seen[p].used \/ resets[tok[p]].used} :
            Store(tok[p], Expired(seen[p], keep, clock))
       \/ "error" \in Faults /\ UNCHANGED resets
    /\ Reply(p, "expired")
    /\ UNCHANGED <<clock, links, tok, stamp, traceVars>>

\* A user mismatch, or the scope enforcer says no.
RefuseAccepted(p) ==
    /\ pc[p] = "accepted"
    /\ Reply(p, "refused")
    /\ UNCHANGED <<clock, issueVars, tok, stamp, traceVars>>

-----------------------------------------------------------------------------
(* Confirmation: claim *)

StampClaim(p) ==
    /\ pc[p] = "accepted"
    /\ Goto(p, "stamped")
    /\ stamp' = [stamp EXCEPT ![p] = clock]
    /\ UNCHANGED <<clock, issueVars, tok, seen, answer, traceVars>>

TakeClaim(p) ==
    /\ Claimable(resets[tok[p]], stamp[p])
    /\ Store(tok[p], Claimed(resets[tok[p]], stamp[p]))
    /\ owner' = [owner EXCEPT ![tok[p]] = {p}]

ClaimReset(p) ==
    /\ pc[p] = "stamped"
    /\ \/ TakeClaim(p) /\ Goto(p, "claimed") /\ UNCHANGED <<answer, seen>>
       \/ /\ ~Claimable(resets[tok[p]], stamp[p])
          /\ Goto(p, "conflict")
          /\ UNCHANGED <<answer, seen, resets, owner>>
       \/ "lost_reply" \in Faults /\ TakeClaim(p) /\ Reply(p, "error")
       \/ "error" \in Faults /\ Reply(p, "error") /\ UNCHANGED <<resets, owner>>
    /\ UNCHANGED <<clock, links, tok, stamp, wrote, finalizers>>

\* The claim matched no row: the record is read again to choose the answer.
ReportConflict(p) ==
    /\ pc[p] = "conflict"
    /\ \/ Reply(p, ConflictVerdict(resets[tok[p]], stamp[p]))
       \/ "error" \in Faults /\ Reply(p, "in_progress")
    /\ UNCHANGED <<clock, issueVars, tok, stamp, traceVars>>

-----------------------------------------------------------------------------
(* Confirmation: write the password, then finalize or release *)

ResetPassword(p) ==
    /\ pc[p] = "claimed"
    /\ Goto(p, "written")
    /\ wrote' = [wrote EXCEPT ![tok[p]] = @ \cup {p}]
    /\ UNCHANGED <<clock, issueVars, tok, seen, stamp, answer, owner, finalizers>>

\* Bug: a failed password write is finalized all the same.
ResetPasswordFailsUnnoticed(p) ==
    /\ pc[p] = "claimed"
    /\ Goto(p, "written")
    /\ UNCHANGED <<clock, issueVars, tok, seen, stamp, answer, traceVars>>

ResetPasswordFails(p) ==
    /\ pc[p] = "claimed"
    /\ Goto(p, "releasing")
    /\ \/ UNCHANGED wrote
       \/ "lost_reply" \in Faults /\ wrote' = [wrote EXCEPT ![tok[p]] = @ \cup {p}]
    /\ UNCHANGED <<clock, issueVars, tok, seen, stamp, answer, owner, finalizers>>

ReleaseResetClaim(p) ==
    /\ pc[p] = "releasing"
    /\ \/ /\ Fenced(resets[tok[p]], stamp[p])
          /\ Store(tok[p], Released(resets[tok[p]], clock))
       \/ ~Fenced(resets[tok[p]], stamp[p]) /\ UNCHANGED resets
       \/ "error" \in Faults /\ UNCHANGED resets
    /\ Reply(p, "error")
    /\ UNCHANGED <<clock, links, tok, stamp, traceVars>>

WriteFinal(p) ==
    /\ Fenced(resets[tok[p]], stamp[p])
    /\ Store(tok[p], Finalized(resets[tok[p]], clock))
    /\ finalizers' = [finalizers EXCEPT ![tok[p]] = @ \cup {p}]

FinalizeReset(p) ==
    /\ pc[p] = "written"
    /\ \/ WriteFinal(p) /\ Reply(p, "ok")
       \/ /\ "lost_reply" \in Faults
          /\ WriteFinal(p)
          /\ Goto(p, "readback")
          /\ UNCHANGED <<answer, seen>>
       \/ /\ "error" \in Faults \/ ~Fenced(resets[tok[p]], stamp[p])
          /\ Goto(p, "readback")
          /\ UNCHANGED <<answer, seen, resets, finalizers>>
    /\ UNCHANGED <<clock, links, tok, stamp, wrote, owner>>

\* Bug: a record still being processed counts as finalized.
PasswordResetFinalizedEarly(rec) == rec.status \in {"changed", "processing"}

PasswordResetFinalized(rec) == rec.status = "changed" /\ rec.used

ReadBack(p) ==
    /\ pc[p] = "readback"
    /\ \/ Reply(p, IF PasswordResetFinalized(resets[tok[p]]) THEN "ok" ELSE "error")
       \/ "error" \in Faults /\ Reply(p, "error")
    /\ UNCHANGED <<clock, issueVars, tok, stamp, traceVars>>

Crash(p) ==
    /\ "crash" \in Faults
    /\ pc[p] \notin {"idle", "done", "crashed"}
    /\ Goto(p, "crashed")
    /\ UNCHANGED <<clock, issueVars, tok, seen, stamp, answer, traceVars>>

-----------------------------------------------------------------------------
\* A request between its claim stamp and the end of its work on the claim.
Busy == {p \in Request : pc[p] \in {"stamped", "claimed", "releasing", "written"}}

\* Prompt is the deployment's promise that a claimant finishes within the
\* claim TTL; without it time passes whatever the requests are doing.
Tick ==
    /\ clock < MaxTime
    /\ Prompt => \A p \in Busy : clock + 1 < stamp[p] + ClaimTTL
    /\ clock' = clock + 1
    /\ UNCHANGED <<issueVars, localVars, traceVars>>

Issue(j) == IssueLink(j) \/ RecordReset(j) \/ RecordResetFails(j)

Resolve(p) ==
    \/ GetResetByJTI(p) \/ ValidateResetRecord(p)
    \/ UpdateResetStatusRead(p) \/ UpdateResetStatusWrite(p)

Execute(p) ==
    \/ Resolve(p) \/ RefuseAccepted(p)
    \/ StampClaim(p) \/ ClaimReset(p) \/ ReportConflict(p)
    \/ ResetPassword(p) \/ ResetPasswordFails(p) \/ ReleaseResetClaim(p)
    \/ FinalizeReset(p) \/ ReadBack(p)

Next ==
    \/ Tick
    \/ \E j \in Token : Issue(j)
    \/ \E p \in Request : Start(p) \/ Execute(p) \/ Crash(p)

Spec == Init /\ [][Next]_vars

\* A request that has started is run to its end by its goroutine; nobody is
\* obliged to issue, present or retry a link, and no fault is obliged to happen.
FairSpec == Spec /\ \A p \in Request : WF_vars(Execute(p))

-----------------------------------------------------------------------------
(* Properties *)

Closed(j) == resets[j].status \in {"changed", "expired"}

\* A request between the claim that admitted it and its last use of that claim.
Holds(p) == pc[p] \in {"claimed", "releasing", "written"}

\* Every variable keeps the shape the code gives it.
TypeOK ==
    /\ clock \in Nat
    /\ links \in [Token -> [stage : {"none", "foreign", "issued", "delivered", "withheld"},
                            expiresAt : Nat]]
    /\ resets \in [Token -> Record]
    /\ pc \in [Request -> Places]
    /\ tok \in [Request -> Token]
    /\ seen \in [Request -> Record]
    /\ stamp \in [Request -> Nat]
    /\ answer \in [Request -> Answers]
    /\ wrote \in [Token -> SUBSET Request]
    /\ owner \in [Token -> SUBSET Request]
    /\ finalizers \in [Token -> SUBSET Request]

\* A record reads "changed" only when some request really wrote a password
\* through that token: FinalizeReset follows the password write, and neither a
\* stale claimant nor the status overwrite can finalize for nobody.
SpentMeansWritten ==
    \A j \in Token : resets[j].status = "changed" => wrote[j] # {}

\* A caller told "ok" wrote the password itself, and the token can never be
\* claimed again, also when the answer comes from the read-back after a lost
\* reply, or another request overwrites the status meanwhile.
SuccessMeansSpent ==
    \A p \in Request : answer[p] = "ok" => p \in wrote[tok[p]] /\ Closed(tok[p])

\* FinalizeReset takes effect for at most one request per token, however many
\* claims were taken over, released or retried.
OneFinalizer ==
    \A j \in Token : \A p, q \in finalizers[j] : p = q

\* The updated_at fence of ReleaseResetClaim and FinalizeReset names the last
\* claimant and nobody else, as long as no two requests ever take the same
\* claim stamp: a claimant that was overtaken can neither release nor finalize.
FenceNamesOwner ==
    (\A p, q \in Request : stamp[p] = stamp[q] /\ stamp[p] # 0 => p = q)
        => \A p \in Request :
              Holds(p) /\ Fenced(resets[tok[p]], stamp[p]) => owner[tok[p]] = {p}

\* "processing to provide exclusive ownership during password change
\* finalization" (ClaimReset): no two live requests hold the claim of one token.
ExclusiveOwnership ==
    \A p, q \in Request : Holds(p) /\ Holds(q) /\ tok[p] = tok[q] => p = q

\* Two callers are never both told that they reset the password through one
\* link: needs prompt claimants, a slow one may be overtaken and still read
\* back the other's success.
OneSuccess ==
    \A p, q \in Request :
        answer[p] = "ok" /\ answer[q] = "ok" /\ tok[p] = tok[q] => p = q

\* A used or expired token is never returned to a claimable status: not by the
\* release of an overtaken claimant, not by the read-modify-write of
\* UpdateResetStatus.
ClosedStaysClosed ==
    [][\A j \in Token : Closed(j) => Closed(j)']_vars

\* With prompt claimants and a database that answers or loses only replies, a
\* request that wrote the password leaves the token closed unless it crashes:
\* the claim is not left to be taken again.
WrittenHolderCloses ==
    \A p \in Request : pc[p] = "written" ~> Closed(tok[p]) \/ pc[p] = "crashed"

-----------------------------------------------------------------------------
(* The promise of OneTimeReset, through this mapping of its variables *)

DoorOf(rec) ==
    CASE rec.status = "absent" -> "none"
      [] rec.status \in {"requested", "processing"} -> "open"
      [] rec.status \in {"changed", "expired"} -> "closed"

StageOf(p) ==
    CASE pc[p] = "claimed" -> "in"
      [] pc[p] = "releasing" -> IF p \in wrote[tok[p]] THEN "wrote" ELSE "in"
      [] pc[p] \in {"written", "readback"} -> "wrote"
      [] pc[p] = "crashed" -> "no"
      [] pc[p] = "done" -> IF answer[p] = "ok" THEN "yes" ELSE "no"
      [] OTHER -> "out"

Promise == INSTANCE OneTimeReset WITH
    door <- [j \in Token |-> DoorOf(resets[j])],
    stage <- [p \in Request |-> StageOf(p)],
    tok <- tok

\* Claims, fences, clock and faults together keep the promise of OneTimeReset.
PromiseKept == Promise!Spec
=============================================================================
