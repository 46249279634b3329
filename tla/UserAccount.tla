------------------------------ MODULE UserAccount ------------------------------
(* One user record and the commands that change it: UserCreate, lifecycle     *)
(* transition, UserUpdate, password reset and bootstrap of a temporary         *)
(* password (command/*.go), over the go-auth adapter                            *)
(* (adapter/goauth/repository.go).  Nothing keeps commands on one user apart:   *)
(* each looks at the record, decides, and writes what it decided, some of them  *)
(* the whole record.  The properties say what can come of it, and to what a      *)
(* command must have missed for it to happen.                                   *)
EXTENDS Naturals, FiniteSets

CONSTANTS
    Op,         \* command executions, each runs once
    Kinds,      \* the kinds of command in play
    Targets,    \* lifecycle states commands ask for
    Faults      \* which of "error", "lost_reply", "crash" may happen

Lifecycle == {"pending", "active", "suspended", "disabled", "archived"}

ASSUME AccountAssumption ==
    /\ Kinds \subseteq {"create", "transition", "update", "change", "bootstrap"}
    /\ Targets \subseteq Lifecycle
    /\ Faults \subseteq {"error", "lost_reply", "crash"}

VARIABLES
    user,       \* the stored record; status "absent" before it is created
    hasClear,   \* does the store have ResetPasswordAndClearTemporaryPassword
    job,        \* per op: its kind and its target state
    pc,
    form,       \* per op: the record it holds and may write
    current,    \* per op: the record the adapter's Update re-read
    answer,
    lastPassword,   \* the op whose password write took effect last, {} if none
    moved,          \* per op: the status change its transition really made
    logged,         \* per op: the change its lifecycle event reported
    missed,         \* per op: what others changed since it last looked
    putBack,        \* the ops whose write of the whole record changed the password
                    \* since a password was last set
    marksBy         \* the op that last changed the markers, or put a password back

vars == <<user, hasClear, job, pc, form, current, answer, lastPassword, moved, logged,
          missed, putBack, marksBy>>

-----------------------------------------------------------------------------
(* DefaultTransitionPolicy, and the record *)

Allowed(from) ==
    CASE from = "pending"   -> {"active", "disabled"}
      [] from = "active"    -> {"suspended", "disabled", "archived"}
      [] from = "suspended" -> {"active", "disabled"}
      [] from = "disabled"  -> {"archived"}
      [] OTHER              -> {}

\* temp: the metadata holds the markers of a temporary password.  The password is
\* named after the op that set it, {} is one from before.
User == [status : Lifecycle \cup {"absent"}, temp : BOOLEAN, password : SUBSET Op]
Missing == [status |-> "absent", temp |-> FALSE, password |-> {}]
Nothing == <<"absent", "absent">>

InFlight(p) == pc[p] \notin {"idle", "done", "crashed"}

Goto(p, place) == pc' = [pc EXCEPT ![p] = place]

Reply(p, what) ==
    /\ Goto(p, "done")
    /\ answer' = [answer EXCEPT ![p] = what]
    /\ form' = [form EXCEPT ![p] = Missing]
    /\ current' = [current EXCEPT ![p] = Missing]

Continue(p, place) == Goto(p, place) /\ UNCHANGED <<answer, form, current>>

\* A statement that took effect: go on, or be told that it failed.
Written(p, place) ==
    Continue(p, place) \/ ("lost_reply" \in Faults /\ Reply(p, "error"))
WrittenLast(p) ==
    Reply(p, "ok") \/ ("lost_reply" \in Faults /\ Reply(p, "error"))

-----------------------------------------------------------------------------
Init ==
    /\ user \in {Missing} \cup
          {[status |-> s, temp |-> t, password |-> {}] : s \in {"pending", "active"}, t \in BOOLEAN}
    /\ hasClear \in BOOLEAN
    /\ job = [p \in Op |-> [kind |-> "none", target |-> "active"]]
    /\ pc = [p \in Op |-> "idle"]
    /\ form = [p \in Op |-> Missing]
    /\ current = [p \in Op |-> Missing]
    /\ answer = [p \in Op |-> "none"]
    /\ lastPassword = {}
    /\ moved = [p \in Op |-> Nothing]
    /\ logged = [p \in Op |-> Nothing]
    /\ missed = [p \in Op |-> {}]
    /\ putBack = {} /\ marksBy = {}

\* Where Execute begins for each kind of command.
Entry(kind) ==
    CASE kind = "create"     -> "create"
      [] kind = "transition" -> "t_read"
      [] kind = "update"     -> "u_check"
      [] kind = "change"     -> "c_read"
      [] kind = "bootstrap"  -> "b_find"

\* A change of the password asks for no status.
Start(p) ==
    /\ pc[p] = "idle"
    /\ \E kind \in Kinds : \E target \in IF kind = "change" THEN {"active"} ELSE Targets :
          /\ job' = [job EXCEPT ![p] = [kind |-> kind, target |-> target]]
          /\ Goto(p, Entry(kind))
    /\ UNCHANGED <<user, hasClear, form, current, answer, lastPassword, moved, logged>>

\* GetByID into op p's own copy; a missing row is the store's error.
ReadForm(p, from, to) ==
    /\ pc[p] = from
    /\ \/ /\ user.status # "absent"
          /\ Goto(p, to)
          /\ form' = [form EXCEPT ![p] = user]
          /\ UNCHANGED <<answer, current>>
       \/ user.status = "absent" /\ Reply(p, "not_found")
    /\ UNCHANGED <<user, hasClear, job, lastPassword, moved, logged>>

-----------------------------------------------------------------------------
(* UserCreate, also run by bulk import: the status asked for, or active, and *)
(* whatever metadata the caller sends                                          *)

ResolveAuthUserStatus(asked) == IF asked = "" THEN "active" ELSE asked

CreateUser(p, next) ==
    \/ /\ user.status = "absent"
       /\ \E asked \in {"", job[p].target}, marked \in BOOLEAN :
             user' = [Missing EXCEPT !.status = ResolveAuthUserStatus(asked), !.temp = marked]
       /\ next
    \/ user.status # "absent" /\ Reply(p, "duplicate") /\ UNCHANGED user

Create(p) ==
    /\ pc[p] = "create"
    /\ CreateUser(p, WrittenLast(p))
    /\ UNCHANGED <<hasClear, job, lastPassword, moved, logged>>

-----------------------------------------------------------------------------
(* Lifecycle transition: the command's policy check, then the adapter's own *)
(* read and check, then go-auth's state machine writes the status column     *)

TransitionRead(p) == ReadForm(p, "t_read", "t_check")

EnforcePolicy(p) ==
    /\ pc[p] = "t_check"
    /\ \/ job[p].target \in Allowed(form[p].status) /\ Continue(p, "t_reread")
       \/ job[p].target \notin Allowed(form[p].status) /\ Reply(p, "denied")
    /\ UNCHANGED <<user, hasClear, job, lastPassword, moved, logged>>

UpdateStatus(p) ==
    /\ pc[p] = "t_reread"
    /\ \/ job[p].target \in Allowed(user.status) /\ Continue(p, "t_write")
       \/ job[p].target \notin Allowed(user.status) /\ Reply(p, "denied")
    /\ UNCHANGED <<user, hasClear, job, lastPassword, moved, logged>>

SmTransition(p) ==
    /\ pc[p] = "t_write"
    /\ user' = [user EXCEPT !.status = job[p].target]
    /\ moved' = [moved EXCEPT ![p] = <<user.status, job[p].target>>]
    /\ Written(p, "t_log")
    /\ UNCHANGED <<hasClear, job, lastPassword, logged>>

\* Bug: the event takes its from_state from the updated record.
LogTransitionLate(p) ==
    /\ pc[p] = "t_log"
    /\ logged' = [logged EXCEPT ![p] = <<user.status, job[p].target>>]
    /\ Reply(p, "ok")
    /\ UNCHANGED <<user, hasClear, job, lastPassword, moved>>

\* from_state comes from the command's first read.
LogTransition(p) ==
    /\ pc[p] = "t_log"
    /\ logged' = [logged EXCEPT ![p] = <<form[p].status, job[p].target>>]
    /\ Reply(p, "ok")
    /\ UNCHANGED <<user, hasClear, job, lastPassword, moved>>

-----------------------------------------------------------------------------
(* UserUpdate: the caller sends a whole record, not necessarily one it read *)

\* Any metadata, with or without the markers, and a status or none.
Edit(p) == [status : {"", job[p].target}, temp : BOOLEAN, password : {{}}]

Submit(p, mine) ==
    /\ Goto(p, "u_current")
    /\ form' = [form EXCEPT ![p] = mine]
    /\ UNCHANGED <<answer, current>>

\* Bug: the new status is taken without asking the policy.
UpdateCheckNone(p) ==
    /\ pc[p] = "u_check"
    /\ \E mine \in Edit(p) : Submit(p, mine)
    /\ UNCHANGED <<user, hasClear, job, lastPassword, moved, logged>>

\* Without a status nothing is read and nothing is asked.
UpdateCheck(p) ==
    /\ pc[p] = "u_check"
    /\ \E mine \in Edit(p) :
           \/ mine.status = "" /\ Submit(p, mine)
           \/ /\ mine.status # "" /\ user.status # "absent"
              /\ IF mine.status \in Allowed(user.status) \cup {user.status}
                 THEN Submit(p, mine) ELSE Reply(p, "denied")
           \/ mine.status # "" /\ user.status = "absent" /\ Reply(p, "not_found")
    /\ UNCHANGED <<user, hasClear, job, lastPassword, moved, logged>>

\* The adapter's Update: GetByID, then write the copy with the auth-managed
\* fields (here the password) of the record just read.
AdapterRead(p, from, to) ==
    /\ pc[p] = from
    /\ \/ /\ user.status # "absent"
          /\ Goto(p, to)
          /\ current' = [current EXCEPT ![p] = user]
          /\ UNCHANGED <<answer, form>>
       \/ user.status = "absent" /\ Reply(p, "not_found")
    /\ UNCHANGED <<user, hasClear, job, lastPassword, moved, logged>>

\* Bug: the caller's copy is written as it is, with the password it has.
MergeAuthUserUpdateNone(mine, stored) == [mine EXCEPT !.password = {}]

MergeAuthUserUpdate(mine, stored) == [mine EXCEPT !.password = stored.password]

UpdateRead(p) == AdapterRead(p, "u_current", "u_write")

\* Whether empty metadata is written over stored metadata is the store's own affair.
\* An empty status is left out, or refused by the table's constraint.
Stored(p) ==
    LET mine == MergeAuthUserUpdate(form[p], current[p]) IN
    {[mine EXCEPT !.status = IF @ = "" THEN user.status ELSE @, !.temp = t] :
        t \in {mine.temp, mine.temp \/ user.temp}}

UpdateWrite(p) ==
    /\ pc[p] = "u_write"
    /\ \/ user' \in Stored(p) /\ WrittenLast(p)
       \/ form[p].status = "" /\ Reply(p, "error") /\ UNCHANGED user
    /\ UNCHANGED <<hasClear, job, lastPassword, moved, logged>>

-----------------------------------------------------------------------------
(* Password reset: one read decides whether the markers must go *)

ChangeRead(p) == ReadForm(p, "c_read", "c_choose")

ResetPassword(p) ==
    /\ user' = [user EXCEPT !.password = {p}]
    /\ lastPassword' = {p}
    /\ WrittenLast(p)

\* Bug: the markers are left for somebody else to clear.
ResetPasswordAndClearNot(p) == ResetPassword(p)

ResetPasswordAndClear(p) ==
    /\ user' = [user EXCEPT !.password = {p}, !.temp = FALSE]
    /\ lastPassword' = {p}
    /\ WrittenLast(p)

\* Without the store's primitive the adapter reads again and may refuse.
ChangePassword(p) ==
    /\ pc[p] = "c_choose"
    /\ \/ ~form[p].temp /\ ResetPassword(p)
       \/ form[p].temp /\ hasClear /\ ResetPasswordAndClear(p)
       \/ /\ form[p].temp /\ ~hasClear
          /\ IF user.temp THEN Reply(p, "unsupported") ELSE Continue(p, "c_reset")
          /\ UNCHANGED <<user, lastPassword>>
    /\ UNCHANGED <<hasClear, job, moved, logged>>

ChangeReset(p) ==
    /\ pc[p] = "c_reset"
    /\ ResetPassword(p)
    /\ UNCHANGED <<hasClear, job, moved, logged>>

-----------------------------------------------------------------------------
(* Bootstrap: find or create, mark the record temporary, then set the password *)

Find(p) ==
    /\ pc[p] = "b_find"
    /\ Continue(p, IF user.status = "absent" THEN "b_create" ELSE "b_read")
    /\ UNCHANGED <<user, hasClear, job, lastPassword, moved, logged>>

BootstrapCreate(p) ==
    /\ pc[p] = "b_create"
    /\ CreateUser(p, Written(p, "b_read"))
    /\ UNCHANGED <<hasClear, job, lastPassword, moved, logged>>

BootstrapRead(p) == ReadForm(p, "b_read", "b_current")
MarkRead(p) == AdapterRead(p, "b_current", "b_mark")

\* Bug: marking is left to a later call.
MarkTemporarySkipped(p) ==
    /\ pc[p] = "b_mark"
    /\ Continue(p, "b_reset")
    /\ UNCHANGED <<user, hasClear, job, lastPassword, moved, logged>>

MarkTemporary(p) ==
    /\ pc[p] = "b_mark"
    /\ user' = [MergeAuthUserUpdate(form[p], current[p]) EXCEPT !.temp = TRUE]
    /\ Written(p, "b_reset")
    /\ UNCHANGED <<hasClear, job, lastPassword, moved, logged>>

\* The reset command with PreserveTemporaryPasswordMetadata: its own read
\* decides nothing, the plain ResetPassword follows.
BootstrapReset(p) ==
    /\ pc[p] = "b_reset"
    /\ ResetPassword(p)
    /\ UNCHANGED <<hasClear, job, moved, logged>>

-----------------------------------------------------------------------------
\* Any statement may fail without effect, and the process may die anywhere.
Fail(p) ==
    /\ InFlight(p) /\ pc[p] # "t_log"
    /\ "error" \in Faults
    /\ Reply(p, "error")
    /\ UNCHANGED <<user, hasClear, job, lastPassword, moved, logged>>

Crash(p) ==
    /\ InFlight(p)
    /\ "crash" \in Faults
    /\ Goto(p, "crashed")
    /\ form' = [form EXCEPT ![p] = Missing]
    /\ current' = [current EXCEPT ![p] = Missing]
    /\ UNCHANGED <<answer, user, hasClear, job, lastPassword, moved, logged>>

Transition(p) ==
    \/ TransitionRead(p) \/ EnforcePolicy(p) \/ UpdateStatus(p)
    \/ SmTransition(p) \/ LogTransition(p)
Update(p) == UpdateCheck(p) \/ UpdateRead(p) \/ UpdateWrite(p)
Change(p) == ChangeRead(p) \/ ChangePassword(p) \/ ChangeReset(p)
Bootstrap(p) ==
    \/ Find(p) \/ BootstrapCreate(p) \/ BootstrapRead(p)
    \/ MarkRead(p) \/ MarkTemporary(p) \/ BootstrapReset(p)

\* History.  A command has had its last look at the password when the adapter has
\* read the record again; at the markers when it has read or set them; at the status
\* when the policy was last asked, or, to write it back, when the record was read;
\* and at the status its event will name with its very first read.
Past(part) ==
    CASE part = "password" -> {"u_write", "b_mark"}
      [] part = "marks"    -> {"c_choose", "c_reset", "b_reset"}
      [] part = "status"   -> {"t_write", "u_current", "u_write", "b_current", "b_mark"}
      [] part = "first"    -> {"t_check", "t_reread", "t_write"}

Changed ==
    {part \in {"password", "marks", "status", "first"} :
        CASE part = "password" -> user'.password # user.password
          [] part = "marks"    -> user'.temp # user.temp
          [] OTHER             -> user'.status # user.status}

Watch(p) ==
    LET back == user'.password # user.password /\ lastPassword' = lastPassword IN
    /\ missed' = [q \in Op |->
                     missed[q] \cup {part \in Changed : q # p /\ pc[q] \in Past(part)}]
    /\ putBack' = IF lastPassword' # lastPassword THEN {}
                  ELSE IF back THEN putBack \cup {p} ELSE putBack
    /\ marksBy' = IF back \/ user'.temp # user.temp THEN {p} ELSE marksBy

Step(p) ==
    \/ Start(p) \/ Create(p) \/ Transition(p) \/ Update(p)
    \/ Change(p) \/ Bootstrap(p) \/ Fail(p) \/ Crash(p)

Next == \E p \in Op : Step(p) /\ Watch(p)

Spec == Init /\ [][Next]_vars

-----------------------------------------------------------------------------
(* Properties *)

Changes == {p \in Op : job[p].kind = "change"}
Bootstraps == {p \in Op : job[p].kind = "bootstrap"}
Updates == {p \in Op : job[p].kind = "update"}

\* Every variable keeps the shape the code gives it.
TypeOK ==
    /\ user \in User
    /\ hasClear \in BOOLEAN
    /\ job \in [Op -> [kind : Kinds \cup {"none"}, target : Targets \cup {"active"}]]
    /\ pc \in [Op -> {"idle", "create", "t_read", "t_check", "t_reread", "t_write",
                      "t_log", "u_check", "u_current", "u_write",
                      "c_read", "c_choose", "c_reset", "b_find", "b_create", "b_read",
                      "b_current", "b_mark", "b_reset", "done", "crashed"}]
    /\ form \in [Op -> User \cup [status : {""}, temp : BOOLEAN, password : {{}}]]
    /\ current \in [Op -> User]
    /\ answer \in [Op -> {"none", "ok", "error", "not_found", "denied", "duplicate",
                          "unsupported"}]
    /\ lastPassword \in SUBSET Op /\ putBack \in SUBSET Op /\ marksBy \in SUBSET Op
    /\ missed \in [Op -> SUBSET {"password", "marks", "status", "first"}]
    /\ moved \in [Op -> (Lifecycle \cup {"absent"}) \X (Lifecycle \cup {"absent"})]
    /\ logged \in [Op -> (Lifecycle \cup {"absent"}) \X (Lifecycle \cup {"absent"})]

\* A temporary password stands without its markers, which would let it outlive its
\* expiry, only if they were taken away between the two writes of its bootstrap, or
\* if since then an update sent a record without them: not when the bootstrap fails
\* or dies half way, nor when anything else happens to the user.
TemporaryIsMarked ==
    ~user.temp =>
        \A p \in user.password \cap Bootstraps :
            "marks" \in missed[p] \/ marksBy \cap Updates # {}

\* "permanent password changes cannot leave stale temporary password metadata
\* behind": the markers stand beside a password set by a normal change only if they
\* came after it had looked for them, if an update sent them, or while the bootstrap
\* that set them is under way or if it was cut short.
PermanentIsUnmarked ==
    user.temp =>
        \A p \in user.password \cap Changes :
            \/ "marks" \in missed[p]
            \/ marksBy \cap Updates # {}
            \/ \E b \in marksBy \cap Bootstraps :
                   pc[b] \in {"b_reset", "crashed"} \/ answer[b] = "error"

\* The stored password is the one set last.  An older one comes back only in the
\* whole record of a command that had read it again before the password was set.
PasswordIsLastWritten ==
    user.password # lastPassword => \E p \in putBack : "password" \in missed[p]

\* A lifecycle event names a change that the policy allows and the transition made,
\* from the very status it was made from unless another command changed the status
\* between the transition's first read and its write.
LogNamesRealChange ==
    \A p \in Op : logged[p] # Nothing =>
        /\ logged[p][2] \in Allowed(logged[p][1])
        /\ logged[p][2] = moved[p][2]
        /\ logged[p] = moved[p] \/ "first" \in missed[p]

\* The stored status moves only along the policy's edges, whichever command moves it
\* and whatever copy it was computed from; only a command that did not see another
\* one change the status, since it last looked, leaves them.
StatusFollowsPolicy ==
    [][user.status \notin {"absent", user'.status}
          => \/ user'.status \in Allowed(user.status)
             \/ \E p \in Op : pc'[p] # pc[p] /\ "status" \in missed[p]]_vars
=============================================================================
