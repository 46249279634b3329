-------------------------- MODULE UserAccountProofs --------------------------
(* Proofs about UserAccount, for every number of commands, every set of kinds  *)
(* and targets and every combination of faults.  Commands overlap as they like:  *)
(* each part of the invariant says what a command knows of the stored user, or   *)
(* else that it missed a change of just that.                                     *)
EXTENDS UserAccount, TLAPS

-----------------------------------------------------------------------------
(* The invariant *)

Places == {"idle", "create", "t_read", "t_check", "t_reread", "t_write", "t_log",
           "u_check", "u_current", "u_write", "c_read", "c_choose", "c_reset", "b_find",
           "b_create", "b_read", "b_current", "b_mark", "b_reset", "done", "crashed"}
Answers == {"none", "ok", "error", "not_found", "denied", "duplicate", "unsupported"}
Parts == {"password", "marks", "status", "first"}

\* What a command may hold: a record of the store, or one that asks for no status.
Form == User \cup [status : {""}, temp : BOOLEAN, password : {{}}]

TransitionPlaces == {"t_read", "t_check", "t_reread", "t_write", "t_log"}
UpdatePlaces == {"u_check", "u_current", "u_write"}
ChangePlaces == {"c_read", "c_choose", "c_reset"}
BootstrapPlaces == {"b_find", "b_create", "b_read", "b_current", "b_mark", "b_reset"}

\* A command is at a place of its own kind.
KindFits ==
    \A p \in Op :
        /\ pc[p] = "idle" <=> job[p].kind = "none"
        /\ pc[p] = "create" => job[p].kind = "create"
        /\ pc[p] \in TransitionPlaces => job[p].kind = "transition"
        /\ pc[p] \in UpdatePlaces => job[p].kind = "update"
        /\ pc[p] \in ChangePlaces => job[p].kind = "change"
        /\ pc[p] \in BootstrapPlaces => job[p].kind = "bootstrap"

\* Whoever found a user finds one ever after, and only an update holds a record that
\* it did not read.
Present ==
    \A p \in Op :
        /\ pc[p] \in {"t_check", "t_reread", "t_write", "t_log", "u_write", "c_choose", "c_reset",
                      "b_read", "b_current", "b_mark", "b_reset"} => user.status # "absent"
        /\ pc[p] \in {"u_current", "u_write", "b_current", "b_mark"} =>
               form[p].status # "absent"
        /\ pc[p] \notin {"u_current", "u_write"} => form[p] \in User

BaseInv == TypeOK /\ KindFits /\ Present

\* The status a command is about to write is one the policy allows.
StatusSeen ==
    \A p \in Op :
        \/ "status" \in missed[p]
        \/ /\ pc[p] = "t_write" => job[p].target \in Allowed(user.status)
           /\ pc[p] \in {"u_current", "u_write"} =>
                  form[p].status \in Allowed(user.status) \cup {user.status, ""}
           /\ pc[p] \in {"b_current", "b_mark"} => form[p].status = user.status

\* The status a transition will report is the one it starts from.
FirstSeen ==
    \A p \in Op :
        \/ "first" \in missed[p]
        \/ /\ pc[p] \in {"t_check", "t_reread", "t_write"} => form[p].status = user.status
           /\ pc[p] = "t_log" => moved[p] = <<form[p].status, job[p].target>>

\* What it will report is allowed, and leads where it went.
Reportable ==
    \A p \in Op :
        /\ pc[p] \in {"t_reread", "t_write", "t_log"} => job[p].target \in Allowed(form[p].status)
        /\ pc[p] = "t_log" => moved[p][2] = job[p].target
        /\ logged[p] # Nothing => pc[p] = "done"

StatusInv == BaseInv /\ StatusSeen /\ FirstSeen /\ Reportable /\ LogNamesRealChange

\* A user that is not there has no password and no markers.
AbsentIsMissing == user.status = "absent" => user = Missing

\* A password, stored or held by an adapter, is of a command that sets one.
SetByCommand ==
    \A p \in Op :
        p \in user.password \/ (\E q \in Op : p \in current[q].password)
            => job[p].kind \in {"change", "bootstrap"}

\* The password a command is about to put back is the stored one.
PasswordSeen ==
    \A p \in Op :
        pc[p] \in {"u_write", "b_mark"} =>
            "password" \in missed[p] \/ current[p].password = user.password

\* A bootstrap has set the markers, a change that leaves them alone has seen none.
MarksSeen ==
    \A p \in Op :
        \/ "marks" \in missed[p]
        \/ /\ pc[p] = "b_reset" => user.temp
           /\ pc[p] = "c_reset" => ~user.temp
           /\ pc[p] = "c_choose" /\ ~form[p].temp => ~user.temp

ErrorIsFinal == \A p \in Op : answer[p] = "error" => pc[p] = "done"

SecretsInv ==
    /\ BaseInv /\ AbsentIsMissing /\ SetByCommand /\ PasswordSeen /\ MarksSeen /\ ErrorIsFinal
    /\ PasswordIsLastWritten /\ TemporaryIsMarked /\ PermanentIsUnmarked

-----------------------------------------------------------------------------
(* What a step of command p is.  The other commands stay as they are. *)

\* Only p goes on, and every variable of the commands keeps its type.
Turn(p) ==
    /\ pc' \in [Op -> Places] /\ answer' \in [Op -> Answers]
    /\ form' \in [Op -> Form] /\ current' \in [Op -> User]
    /\ \A q \in Op : q # p => /\ pc'[q] = pc[q] /\ answer'[q] = answer[q]
                             /\ form'[q] = form[q] /\ current'[q] = current[q]

Goes(p, place) == pc'[p] = place /\ answer'[p] = answer[p]
HoldsOn(p) == form'[p] = form[p] /\ current'[p] = current[p]
Forgets(p) == form'[p] = Missing /\ current'[p] = Missing
Ends(p, what) == pc'[p] = "done" /\ answer'[p] = what /\ Forgets(p)
Quiet == UNCHANGED <<user, lastPassword>>
SameJobs == UNCHANGED <<job, moved, logged>>

Starts(p) ==
    /\ pc[p] = "idle" /\ Quiet /\ UNCHANGED <<moved, logged>>
    /\ \E kind \in Kinds, target \in Targets \cup {"active"} :
          /\ job' = [job EXCEPT ![p] = [kind |-> kind, target |-> target]]
          /\ Goes(p, Entry(kind)) /\ HoldsOn(p)

Reads(p) ==
    /\ \/ pc[p] = "t_read" /\ Goes(p, "t_check")
       \/ pc[p] = "c_read" /\ Goes(p, "c_choose")
       \/ pc[p] = "b_read" /\ Goes(p, "b_current")
    /\ user.status # "absent" /\ form'[p] = user /\ current'[p] = current[p]
    /\ Quiet /\ SameJobs

Checks(p) ==
    /\ \/ /\ pc[p] = "t_check" /\ Goes(p, "t_reread")
          /\ job[p].target \in Allowed(form[p].status)
       \/ /\ pc[p] = "t_reread" /\ Goes(p, "t_write")
          /\ job[p].target \in Allowed(user.status)
       \/ pc[p] = "c_choose" /\ Goes(p, "c_reset") /\ ~user.temp
       \/ pc[p] = "b_find" /\ Goes(p, "b_create") /\ user.status = "absent"
       \/ pc[p] = "b_find" /\ Goes(p, "b_read") /\ user.status # "absent"
    /\ HoldsOn(p) /\ Quiet /\ SameJobs

Submits(p) ==
    /\ pc[p] = "u_check" /\ Goes(p, "u_current")
    /\ form'[p].status \in Allowed(user.status) \cup {user.status, ""}
    /\ form'[p].status # "absent" /\ current'[p] = current[p]
    /\ Quiet /\ SameJobs

Rereads(p) ==
    /\ \/ pc[p] = "u_current" /\ Goes(p, "u_write")
       \/ pc[p] = "b_current" /\ Goes(p, "b_mark")
    /\ user.status # "absent"
    /\ current'[p] = user /\ form'[p] = form[p] /\ Quiet /\ SameJobs

Creates(p) ==
    /\ user.status = "absent"
    /\ \E status \in Lifecycle, marked \in BOOLEAN :
          user' = [status |-> status, temp |-> marked, password |-> {}]
    /\ \/ pc[p] = "create" /\ \E what \in {"ok", "error"} : Ends(p, what)
       \/ pc[p] = "b_create" /\ Goes(p, "b_read") /\ HoldsOn(p)
       \/ pc[p] = "b_create" /\ Ends(p, "error")
    /\ UNCHANGED lastPassword /\ SameJobs

Moves(p) ==
    /\ pc[p] = "t_write"
    /\ user' = [user EXCEPT !.status = job[p].target]
    /\ moved' = [moved EXCEPT ![p] = <<user.status, job[p].target>>]
    /\ (Goes(p, "t_log") /\ HoldsOn(p)) \/ Ends(p, "error")
    /\ UNCHANGED <<lastPassword, job, logged>>

Logs(p) ==
    /\ pc[p] = "t_log" /\ Ends(p, "ok")
    /\ logged' = [logged EXCEPT ![p] = <<form[p].status, job[p].target>>]
    /\ Quiet /\ UNCHANGED <<job, moved>>

\* An update keeps the stored status if it asks for none.
Replaces(p) ==
    /\ pc[p] = "u_write" /\ \E what \in {"ok", "error"} : Ends(p, what)
    /\ \E marked \in BOOLEAN :
          user' = [status |-> IF form[p].status = "" THEN user.status ELSE form[p].status,
                   temp |-> marked, password |-> current[p].password]
    /\ UNCHANGED lastPassword /\ SameJobs

Resets(p) ==
    /\ \/ /\ user' = [user EXCEPT !.password = {p}]
          /\ pc[p] \in {"b_reset", "c_reset"} \/ (pc[p] = "c_choose" /\ ~form[p].temp)
       \/ pc[p] = "c_choose" /\ user' = [user EXCEPT !.password = {p}, !.temp = FALSE]
    /\ lastPassword' = {p}
    /\ \E what \in {"ok", "error"} : Ends(p, what)
    /\ SameJobs

Marks(p) ==
    /\ pc[p] = "b_mark"
    /\ user' = [status |-> form[p].status, temp |-> TRUE, password |-> current[p].password]
    /\ (Goes(p, "b_reset") /\ HoldsOn(p)) \/ Ends(p, "error")
    /\ UNCHANGED lastPassword /\ SameJobs

\* A bootstrap that has marked the record stops only with an error.
Stops(p) ==
    /\ InFlight(p) /\ Quiet /\ SameJobs
    /\ \/ Goes(p, "crashed") /\ Forgets(p)
       \/ Ends(p, "error")
       \/ pc[p] # "b_reset" /\ \E what \in Answers : Ends(p, what)

Move(p) ==
    \/ Starts(p) \/ Reads(p) \/ Checks(p) \/ Submits(p) \/ Rereads(p) \/ Creates(p)
    \/ Moves(p) \/ Logs(p) \/ Replaces(p) \/ Resets(p) \/ Marks(p) \/ Stops(p)

LEMMA RecordTypes ==
    /\ Missing \in User /\ Missing.status = "absent"
    /\ \A status \in Lifecycle, marked \in BOOLEAN, password \in SUBSET Op :
          [status |-> status, temp |-> marked, password |-> password] \in User
    /\ "absent" \notin Lifecycle
<1>1. [status |-> "absent", temp |-> FALSE, password |-> {}] \in User
  BY DEF User
<1>2. ASSUME NEW status \in Lifecycle, NEW marked \in BOOLEAN, NEW password \in SUBSET Op
      PROVE  [status |-> status, temp |-> marked, password |-> password] \in User
  BY DEF User
<1>3. "absent" \notin Lifecycle
  BY DEF Lifecycle
<1> QED
  BY <1>1, <1>2, <1>3 DEF Missing

LEMMA OpTypes ==
    ASSUME TypeOK
    PROVE  /\ pc \in [Op -> Places] /\ answer \in [Op -> Answers]
           /\ form \in [Op -> Form] /\ current \in [Op -> User]
           /\ user \in User /\ Missing \in User /\ User \subseteq Form
  BY RecordTypes DEF TypeOK, Places, Answers, Form

LEMMA ReplyTurn ==
    ASSUME TypeOK, NEW p \in Op, NEW what \in Answers, Reply(p, what)
    PROVE  Turn(p) /\ Ends(p, what)
<1>1. "done" \in Places
  BY DEF Places
<1> QED
  BY <1>1, OpTypes DEF Reply, Goto, Turn, Ends, Forgets

LEMMA ContinueTurn ==
    ASSUME TypeOK, NEW p \in Op, NEW place \in Places, Continue(p, place)
    PROVE  Turn(p) /\ Goes(p, place) /\ HoldsOn(p)
  BY OpTypes DEF Continue, Goto, Turn, Goes, HoldsOn

\* A read into the command's copy.
LEMMA ReadTurn ==
    ASSUME TypeOK, NEW p \in Op, NEW from \in Places, NEW to \in Places, ReadForm(p, from, to)
    PROVE  /\ Turn(p) /\ Quiet /\ SameJobs /\ pc[p] = from
           /\ \/ /\ user.status # "absent" /\ Goes(p, to)
                 /\ form'[p] = user /\ current'[p] = current[p]
              \/ user.status = "absent" /\ Ends(p, "not_found")
<1>1. Quiet /\ SameJobs /\ pc[p] = from
  BY DEF ReadForm, Quiet, SameJobs
<1>2. CASE user.status = "absent"
  <2>1. Reply(p, "not_found") /\ "not_found" \in Answers
    BY <1>2 DEF ReadForm, Answers
  <2> QED
    BY <1>1, <1>2, <2>1, ReplyTurn
<1>3. CASE user.status # "absent"
  BY <1>1, <1>3, OpTypes DEF ReadForm, Goto, Turn, Goes
<1> QED
  BY <1>2, <1>3

\* The adapter's own read.
LEMMA RereadTurn ==
    ASSUME TypeOK, NEW p \in Op, NEW from \in Places, NEW to \in Places, AdapterRead(p, from, to)
    PROVE  /\ Turn(p) /\ Quiet /\ SameJobs /\ pc[p] = from
           /\ \/ /\ user.status # "absent" /\ Goes(p, to)
                 /\ form'[p] = form[p] /\ current'[p] = user
              \/ user.status = "absent" /\ Ends(p, "not_found")
<1>1. Quiet /\ SameJobs /\ pc[p] = from
  BY DEF AdapterRead, Quiet, SameJobs
<1>2. CASE user.status = "absent"
  <2>1. Reply(p, "not_found") /\ "not_found" \in Answers
    BY <1>2 DEF AdapterRead, Answers
  <2> QED
    BY <1>1, <1>2, <2>1, ReplyTurn
<1>3. CASE user.status # "absent"
  BY <1>1, <1>3, OpTypes DEF AdapterRead, Goto, Turn, Goes
<1> QED
  BY <1>2, <1>3

\* A statement that took effect.
LEMMA WrittenTurn ==
    ASSUME TypeOK, NEW p \in Op
    PROVE  /\ \A place \in Places : Written(p, place) =>
                  Turn(p) /\ ((Goes(p, place) /\ HoldsOn(p)) \/ Ends(p, "error"))
           /\ WrittenLast(p) => Turn(p) /\ \E what \in {"ok", "error"} : Ends(p, what)
<1>1. "ok" \in Answers /\ "error" \in Answers
  BY DEF Answers
<1>2. ASSUME NEW place \in Places, Written(p, place)
      PROVE  Turn(p) /\ ((Goes(p, place) /\ HoldsOn(p)) \/ Ends(p, "error"))
  BY <1>1, <1>2, ReplyTurn, ContinueTurn DEF Written
<1>3. ASSUME WrittenLast(p)
      PROVE  Turn(p) /\ \E what \in {"ok", "error"} : Ends(p, what)
  <2>1. CASE Reply(p, "ok")
    BY <1>1, <2>1, ReplyTurn
  <2>2. CASE Reply(p, "error")
    BY <1>1, <2>2, ReplyTurn
  <2> QED
    BY <1>3, <2>1, <2>2 DEF WrittenLast
<1> QED
  BY <1>2, <1>3

\* A command that replies without having changed anything.
LEMMA RefusalMoves ==
    ASSUME TypeOK, NEW p \in Op, NEW what \in Answers, Reply(p, what), Quiet, SameJobs,
           InFlight(p), pc[p] # "b_reset" \/ what = "error"
    PROVE  Turn(p) /\ Move(p)
  BY ReplyTurn DEF Move, Stops

LEMMA TransitionMoves ==
    ASSUME TypeOK, NEW p \in Op, Transition(p)
    PROVE  Turn(p) /\ Move(p)
<1>1. /\ {"t_read", "t_check", "t_reread", "t_write", "t_log"} \subseteq Places
      /\ {"denied", "ok", "not_found"} \subseteq Answers
  BY DEF Places, Answers
<1>2. CASE TransitionRead(p)
  <2>1. /\ Turn(p) /\ Quiet /\ SameJobs /\ pc[p] = "t_read"
        /\ \/ /\ user.status # "absent" /\ Goes(p, "t_check")
              /\ form'[p] = user /\ current'[p] = current[p]
           \/ user.status = "absent" /\ Ends(p, "not_found")
    BY <1>1, <1>2, ReadTurn DEF TransitionRead
  <2> QED
    BY <1>1, <2>1 DEF Move, Reads, Stops, InFlight
<1>3. CASE EnforcePolicy(p) \/ UpdateStatus(p)
  <2>1. Quiet /\ SameJobs /\ pc[p] \in {"t_check", "t_reread"} /\ InFlight(p)
    BY <1>3 DEF EnforcePolicy, UpdateStatus, Quiet, SameJobs, InFlight
  <2>2. CASE Reply(p, "denied")
    BY <1>1, <2>1, <2>2, RefusalMoves
  <2>3. CASE pc[p] = "t_check" /\ job[p].target \in Allowed(form[p].status) /\ Continue(p, "t_reread")
    BY <1>1, <2>1, <2>3, ContinueTurn DEF Move, Checks
  <2>4. CASE pc[p] = "t_reread" /\ job[p].target \in Allowed(user.status) /\ Continue(p, "t_write")
    BY <1>1, <2>1, <2>4, ContinueTurn DEF Move, Checks
  <2> QED
    BY <1>3, <2>2, <2>3, <2>4 DEF EnforcePolicy, UpdateStatus
<1>4. CASE SmTransition(p)
  <2>1. Turn(p) /\ ((Goes(p, "t_log") /\ HoldsOn(p)) \/ Ends(p, "error"))
    BY <1>1, <1>4, WrittenTurn DEF SmTransition
  <2> QED
    BY <1>4, <2>1 DEF SmTransition, Move, Moves
<1>5. CASE LogTransition(p)
  <2>1. Turn(p) /\ Ends(p, "ok")
    BY <1>1, <1>5, ReplyTurn DEF LogTransition
  <2> QED
    BY <1>5, <2>1 DEF LogTransition, Move, Logs, Quiet
<1> QED
  BY <1>2, <1>3, <1>4, <1>5 DEF Transition

\* The adapter's merge, field by field.
LEMMA Merged ==
    ASSUME NEW mine \in Form, NEW stored \in User
    PROVE  MergeAuthUserUpdate(mine, stored) =
               [status |-> mine.status, temp |-> mine.temp, password |-> stored.password]
<1> DEFINE States == Lifecycle \cup {"absent", ""}
<1>1. mine \in [status : States, temp : BOOLEAN, password : SUBSET Op]
  BY DEF Form, User
<1>2. stored.password \in SUBSET Op
  BY DEF User
<1> HIDE DEF States
<1> QED
  BY <1>1, <1>2 DEF MergeAuthUserUpdate

LEMMA StoredRecord ==
    ASSUME TypeOK, NEW p \in Op, NEW new \in Stored(p)
    PROVE  \E marked \in BOOLEAN :
              new = [status |-> IF form[p].status = "" THEN user.status ELSE form[p].status,
                     temp |-> marked, password |-> current[p].password]
<1>1. form[p] \in Form /\ current[p] \in User /\ user \in User
  BY OpTypes
<1>2. MergeAuthUserUpdate(form[p], current[p]) =
          [status |-> form[p].status, temp |-> form[p].temp, password |-> current[p].password]
  BY <1>1, Merged
<1>3. PICK marked \in {form[p].temp, form[p].temp \/ user.temp} :
         new = [[status |-> form[p].status, temp |-> form[p].temp, password |-> current[p].password]
                   EXCEPT !.status = IF @ = "" THEN user.status ELSE @, !.temp = marked]
  BY <1>2 DEF Stored
<1>4. form[p].temp \in BOOLEAN /\ user.temp \in BOOLEAN
  BY <1>1 DEF Form, User
<1>5. (form[p].temp \/ user.temp) \in BOOLEAN
  OBVIOUS
<1>6. marked \in BOOLEAN
  BY <1>3, <1>4, <1>5
<1> QED
  BY <1>3, <1>6

LEMMA UpdateMoves ==
    ASSUME TypeOK, NEW p \in Op, Update(p)
    PROVE  Turn(p) /\ Move(p)
<1>1. /\ {"u_check", "u_current", "u_write"} \subseteq Places
      /\ {"denied", "ok", "error", "not_found"} \subseteq Answers
      /\ job[p].target \in Lifecycle
  BY AccountAssumption DEF Places, Answers, TypeOK, Lifecycle
<1>2. CASE UpdateCheck(p)
  <2>1. Quiet /\ SameJobs /\ pc[p] = "u_check" /\ InFlight(p)
    BY <1>2 DEF UpdateCheck, Quiet, SameJobs, InFlight
  <2>2. CASE Reply(p, "denied") \/ Reply(p, "not_found")
    BY <1>1, <2>1, <2>2, RefusalMoves
  <2>3. ASSUME NEW mine \in Edit(p), Submit(p, mine),
               mine.status \in Allowed(user.status) \cup {user.status, ""}
        PROVE  Turn(p) /\ Move(p)
    <3>1. mine \in Form /\ mine.status # "absent"
      <4>1. PICK status \in {"", job[p].target}, marked \in BOOLEAN :
               mine = [status |-> status, temp |-> marked, password |-> {}]
        BY <2>3 DEF Edit
      <4>2. status # "absent" /\ status \in Lifecycle \cup {""}
        BY <1>1, RecordTypes
      <4> QED
        BY <4>1, <4>2 DEF Form, User
    <3>2. form' = [form EXCEPT ![p] = mine] /\ pc' = [pc EXCEPT ![p] = "u_current"]
          /\ UNCHANGED <<answer, current>>
      BY <2>3 DEF Submit, Goto
    <3>3. Turn(p)
      BY <1>1, <3>1, <3>2, OpTypes DEF Turn
    <3>4. form'[p] = mine /\ Goes(p, "u_current") /\ current'[p] = current[p]
      BY <3>2, OpTypes DEF Goes
    <3> QED
      BY <2>1, <2>3, <3>1, <3>3, <3>4 DEF Move, Submits
  <2> QED
    BY <1>2, <2>2, <2>3 DEF UpdateCheck
<1>3. CASE UpdateRead(p)
  <2>1. /\ Turn(p) /\ Quiet /\ SameJobs /\ pc[p] = "u_current"
        /\ \/ /\ user.status # "absent" /\ Goes(p, "u_write")
              /\ form'[p] = form[p] /\ current'[p] = user
           \/ user.status = "absent" /\ Ends(p, "not_found")
    BY <1>1, <1>3, RereadTurn DEF UpdateRead
  <2> QED
    BY <1>1, <2>1 DEF Move, Rereads, Stops, InFlight
<1>4. CASE UpdateWrite(p)
  <2>1. SameJobs /\ pc[p] = "u_write" /\ InFlight(p) /\ UNCHANGED lastPassword
    BY <1>4 DEF UpdateWrite, SameJobs, InFlight
  <2>2. CASE Reply(p, "error") /\ UNCHANGED user
    BY <1>1, <2>1, <2>2, RefusalMoves DEF Quiet
  <2>3. CASE user' \in Stored(p) /\ WrittenLast(p)
    <3>1. Turn(p) /\ \E what \in {"ok", "error"} : Ends(p, what)
      BY <2>3, WrittenTurn
    <3>2. PICK new \in Stored(p) : user' = new
      BY <2>3
    <3> QED
      BY <2>1, <3>1, <3>2, StoredRecord DEF Move, Replaces
  <2> QED
    BY <1>4, <2>2, <2>3 DEF UpdateWrite
<1> QED
  BY <1>2, <1>3, <1>4 DEF Update

LEMMA ChangeMoves ==
    ASSUME TypeOK, NEW p \in Op, Change(p)
    PROVE  Turn(p) /\ Move(p)
<1>1. /\ {"c_read", "c_choose", "c_reset"} \subseteq Places
      /\ {"unsupported", "ok", "not_found"} \subseteq Answers
  BY DEF Places, Answers
<1>2. CASE ChangeRead(p)
  <2>1. /\ Turn(p) /\ Quiet /\ SameJobs /\ pc[p] = "c_read"
        /\ \/ /\ user.status # "absent" /\ Goes(p, "c_choose")
              /\ form'[p] = user /\ current'[p] = current[p]
           \/ user.status = "absent" /\ Ends(p, "not_found")
    BY <1>1, <1>2, ReadTurn DEF ChangeRead
  <2> QED
    BY <1>1, <2>1 DEF Move, Reads, Stops, InFlight
<1>3. CASE ChangePassword(p)
  <2>1. SameJobs /\ pc[p] = "c_choose" /\ InFlight(p)
    BY <1>3 DEF ChangePassword, SameJobs, InFlight
  <2>2. CASE Reply(p, "unsupported") /\ UNCHANGED <<user, lastPassword>>
    BY <1>1, <2>1, <2>2, RefusalMoves DEF Quiet
  <2>3. CASE ~form[p].temp /\ ResetPassword(p)
    <3>1. Turn(p) /\ \E what \in {"ok", "error"} : Ends(p, what)
      BY <2>3, WrittenTurn DEF ResetPassword
    <3> QED
      BY <2>1, <2>3, <3>1 DEF ResetPassword, Move, Resets
  <2>4. CASE ResetPasswordAndClear(p)
    <3>1. Turn(p) /\ \E what \in {"ok", "error"} : Ends(p, what)
      BY <2>4, WrittenTurn DEF ResetPasswordAndClear
    <3> QED
      BY <2>1, <2>4, <3>1 DEF ResetPasswordAndClear, Move, Resets
  <2>5. CASE ~user.temp /\ Continue(p, "c_reset") /\ UNCHANGED <<user, lastPassword>>
    <3>1. Turn(p) /\ Goes(p, "c_reset") /\ HoldsOn(p)
      BY <1>1, <2>5, ContinueTurn
    <3> QED
      BY <2>1, <2>5, <3>1 DEF Move, Checks, Quiet
  <2> QED
    BY <1>3, <2>2, <2>3, <2>4, <2>5 DEF ChangePassword
<1>4. CASE ChangeReset(p)
  <2>1. Turn(p) /\ \E what \in {"ok", "error"} : Ends(p, what)
    BY <1>4, WrittenTurn DEF ChangeReset, ResetPassword
  <2> QED
    BY <1>4, <2>1 DEF ChangeReset, ResetPassword, Move, Resets, SameJobs
<1> QED
  BY <1>2, <1>3, <1>4 DEF Change

\* An account is created with a lifecycle state, without a password.
LEMMA CreatedUser ==
    ASSUME TypeOK, NEW p \in Op,
           \E asked \in {"", job[p].target}, marked \in BOOLEAN :
               user' = [Missing EXCEPT !.status = ResolveAuthUserStatus(asked), !.temp = marked]
    PROVE  \E status \in Lifecycle, marked \in BOOLEAN :
               user' = [status |-> status, temp |-> marked, password |-> {}]
<1>1. job[p].target \in Lifecycle /\ "active" \in Lifecycle
  BY AccountAssumption DEF TypeOK, Lifecycle
<1>2. PICK asked \in {"", job[p].target}, marked \in BOOLEAN :
         user' = [Missing EXCEPT !.status = ResolveAuthUserStatus(asked), !.temp = marked]
  OBVIOUS
<1>3. ResolveAuthUserStatus(asked) \in Lifecycle
  BY <1>1 DEF ResolveAuthUserStatus
<1> QED
  BY <1>2, <1>3 DEF Missing

LEMMA BootstrapMoves ==
    ASSUME TypeOK, NEW p \in Op, Bootstrap(p)
    PROVE  Turn(p) /\ Move(p)
<1>1. /\ {"b_find", "b_create", "b_read", "b_current", "b_mark", "b_reset"} \subseteq Places
      /\ {"duplicate", "ok", "not_found"} \subseteq Answers
  BY DEF Places, Answers
<1>2. CASE Find(p)
  <2>1. CASE user.status = "absent"
    BY <1>1, <1>2, <2>1, ContinueTurn DEF Find, Move, Checks, Quiet, SameJobs
  <2>2. CASE user.status # "absent"
    BY <1>1, <1>2, <2>2, ContinueTurn DEF Find, Move, Checks, Quiet, SameJobs
  <2> QED
    BY <2>1, <2>2
<1>3. CASE BootstrapCreate(p)
  <2>1. pc[p] = "b_create" /\ UNCHANGED lastPassword /\ SameJobs /\ InFlight(p)
    BY <1>3 DEF BootstrapCreate, SameJobs, InFlight
  <2>2. CASE user.status = "absent"
    <3>1. /\ Written(p, "b_read")
          /\ \E asked \in {"", job[p].target}, marked \in BOOLEAN :
                user' = [Missing EXCEPT !.status = ResolveAuthUserStatus(asked), !.temp = marked]
      BY <1>3, <2>2 DEF BootstrapCreate, CreateUser
    <3>2. Turn(p) /\ ((Goes(p, "b_read") /\ HoldsOn(p)) \/ Ends(p, "error"))
      BY <1>1, <3>1, WrittenTurn
    <3>3. \E status \in Lifecycle, marked \in BOOLEAN :
              user' = [status |-> status, temp |-> marked, password |-> {}]
      BY <3>1, CreatedUser
    <3> QED
      BY <2>1, <2>2, <3>2, <3>3 DEF Move, Creates
  <2>3. CASE user.status # "absent"
    <3>1. Reply(p, "duplicate") /\ Quiet
      BY <1>3, <2>1, <2>3 DEF BootstrapCreate, CreateUser, Quiet
    <3> QED
      BY <1>1, <2>1, <3>1, RefusalMoves
  <2> QED
    BY <2>2, <2>3
<1>4. CASE BootstrapRead(p)
  <2>1. /\ Turn(p) /\ Quiet /\ SameJobs /\ pc[p] = "b_read"
        /\ \/ /\ user.status # "absent" /\ Goes(p, "b_current")
              /\ form'[p] = user /\ current'[p] = current[p]
           \/ user.status = "absent" /\ Ends(p, "not_found")
    BY <1>1, <1>4, ReadTurn DEF BootstrapRead
  <2> QED
    BY <1>1, <2>1 DEF Move, Reads, Stops, InFlight
<1>5. CASE MarkRead(p)
  <2>1. /\ Turn(p) /\ Quiet /\ SameJobs /\ pc[p] = "b_current"
        /\ \/ /\ user.status # "absent" /\ Goes(p, "b_mark")
              /\ form'[p] = form[p] /\ current'[p] = user
           \/ user.status = "absent" /\ Ends(p, "not_found")
    BY <1>1, <1>5, RereadTurn DEF MarkRead
  <2> QED
    BY <1>1, <2>1 DEF Move, Rereads, Stops, InFlight
<1>6. CASE MarkTemporary(p)
  <2>1. Turn(p) /\ ((Goes(p, "b_reset") /\ HoldsOn(p)) \/ Ends(p, "error"))
    BY <1>1, <1>6, WrittenTurn DEF MarkTemporary
  <2>2. MergeAuthUserUpdate(form[p], current[p]) =
            [status |-> form[p].status, temp |-> form[p].temp, password |-> current[p].password]
    BY OpTypes, Merged
  <2>3. PICK new : new = MergeAuthUserUpdate(form[p], current[p])
    OBVIOUS
  <2>4. user' = [status |-> form[p].status, temp |-> TRUE, password |-> current[p].password]
    <3>1. user' = [new EXCEPT !.temp = TRUE]
      BY <1>6, <2>3 DEF MarkTemporary
    <3>2. new = [status |-> form[p].status, temp |-> form[p].temp, password |-> current[p].password]
      BY <2>2, <2>3
    <3> QED
      BY <3>1, <3>2
  <2> QED
    BY <1>6, <2>1, <2>4 DEF MarkTemporary, Move, Marks, SameJobs
<1>7. CASE BootstrapReset(p)
  <2>1. Turn(p) /\ \E what \in {"ok", "error"} : Ends(p, what)
    BY <1>7, WrittenTurn DEF BootstrapReset, ResetPassword
  <2> QED
    BY <1>7, <2>1 DEF BootstrapReset, ResetPassword, Move, Resets, SameJobs
<1> QED
  BY <1>2, <1>3, <1>4, <1>5, <1>6, <1>7 DEF Bootstrap

LEMMA StepMoves ==
    ASSUME TypeOK, NEW p \in Op, Step(p)
    PROVE  Turn(p) /\ Move(p)
<1>1. CASE Start(p)
  <2>1. PICK kind \in Kinds, target \in Targets \cup {"active"} :
           /\ job' = [job EXCEPT ![p] = [kind |-> kind, target |-> target]]
           /\ Goto(p, Entry(kind))
    BY <1>1 DEF Start
  <2>2. Entry(kind) \in Places
    BY <2>1, AccountAssumption DEF Entry, Places
  <2>3. /\ pc[p] = "idle" /\ UNCHANGED <<answer, form, current>>
        /\ UNCHANGED <<user, lastPassword, moved, logged>>
    BY <1>1 DEF Start
  <2>4. Turn(p) /\ Goes(p, Entry(kind)) /\ HoldsOn(p)
    BY <2>1, <2>2, <2>3, ContinueTurn DEF Continue
  <2> QED
    BY <2>1, <2>3, <2>4 DEF Move, Starts, Quiet
<1>2. CASE Create(p)
  <2>1. /\ pc[p] = "create" /\ UNCHANGED lastPassword /\ SameJobs /\ InFlight(p)
        /\ "duplicate" \in Answers
    BY <1>2 DEF Create, SameJobs, InFlight, Answers
  <2>2. CASE user.status = "absent"
    <3>1. /\ WrittenLast(p)
          /\ \E asked \in {"", job[p].target}, marked \in BOOLEAN :
                user' = [Missing EXCEPT !.status = ResolveAuthUserStatus(asked), !.temp = marked]
      BY <1>2, <2>2 DEF Create, CreateUser
    <3>2. Turn(p) /\ \E what \in {"ok", "error"} : Ends(p, what)
      BY <3>1, WrittenTurn
    <3>3. \E status \in Lifecycle, marked \in BOOLEAN :
              user' = [status |-> status, temp |-> marked, password |-> {}]
      BY <3>1, CreatedUser
    <3> QED
      BY <2>1, <2>2, <3>2, <3>3 DEF Move, Creates
  <2>3. CASE user.status # "absent"
    <3>1. Reply(p, "duplicate") /\ Quiet
      BY <1>2, <2>1, <2>3 DEF Create, CreateUser, Quiet
    <3> QED
      BY <2>1, <3>1, RefusalMoves
  <2> QED
    BY <2>2, <2>3
<1>3. CASE Transition(p) \/ Update(p) \/ Change(p) \/ Bootstrap(p)
  BY <1>3, TransitionMoves, UpdateMoves, ChangeMoves, BootstrapMoves
<1>4. CASE Fail(p)
  <2>1. InFlight(p) /\ Reply(p, "error") /\ Quiet /\ SameJobs /\ "error" \in Answers
    BY <1>4 DEF Fail, Quiet, SameJobs, Answers
  <2> QED
    BY <2>1, ReplyTurn DEF Move, Stops
<1>5. CASE Crash(p)
  <2>1. InFlight(p) /\ Quiet /\ SameJobs /\ "crashed" \in Places
    BY <1>5 DEF Crash, Quiet, SameJobs, Places
  <2>2. Turn(p) /\ Goes(p, "crashed") /\ Forgets(p)
    BY <1>5, <2>1, OpTypes DEF Crash, Goto, Turn, Goes, Forgets
  <2> QED
    BY <2>1, <2>2 DEF Move, Stops
<1> QED
  BY <1>1, <1>2, <1>3, <1>4, <1>5 DEF Step

-----------------------------------------------------------------------------
(* What everything rests on: types, places, who is there *)

LEMMA HasClearKept ==
    ASSUME TypeOK, NEW p \in Op, Step(p)
    PROVE  hasClear' = hasClear
  BY DEF Step, Start, Create, Transition, Update, Change, Bootstrap, Fail, Crash,
     TransitionRead, ReadForm, EnforcePolicy, UpdateStatus, SmTransition, LogTransition,
     UpdateCheck, UpdateRead, AdapterRead, UpdateWrite, ChangeRead, ChangePassword,
     ChangeReset, Find, BootstrapCreate, BootstrapRead, MarkRead, MarkTemporary,
     BootstrapReset

\* Nothing a command missed is forgotten, and it misses what others change.
LEMMA Watched ==
    ASSUME TypeOK, NEW p \in Op, Watch(p)
    PROVE  /\ missed' \in [Op -> SUBSET Parts]
           /\ \A q \in Op : missed[q] \subseteq missed'[q]
           /\ \A q \in Op : q # p =>
                  /\ pc[q] \in {"u_write", "b_mark"} /\ "password" \notin missed'[q]
                         => user'.password = user.password
                  /\ pc[q] \in {"c_choose", "c_reset", "b_reset"} /\ "marks" \notin missed'[q]
                         => user'.temp = user.temp
                  /\ pc[q] \in {"t_write", "u_current", "u_write", "b_current", "b_mark"}
                     /\ "status" \notin missed'[q] => user'.status = user.status
                  /\ pc[q] \in {"t_check", "t_reread", "t_write"} /\ "first" \notin missed'[q]
                         => user'.status = user.status
<1>1. /\ Past("password") = {"u_write", "b_mark"}
      /\ Past("marks") = {"c_choose", "c_reset", "b_reset"}
      /\ Past("status") = {"t_write", "u_current", "u_write", "b_current", "b_mark"}
      /\ Past("first") = {"t_check", "t_reread", "t_write"}
  BY DEF Past
<1>2. /\ Changed \subseteq Parts
      /\ user'.password # user.password => "password" \in Changed
      /\ user'.temp # user.temp => "marks" \in Changed
      /\ user'.status # user.status => "status" \in Changed /\ "first" \in Changed
  BY DEF Changed, Parts
<1>3. missed' = [q \in Op |-> missed[q] \cup {part \in Changed : q # p /\ pc[q] \in Past(part)}]
  BY DEF Watch
<1>4. missed \in [Op -> SUBSET Parts]
  BY DEF TypeOK, Parts
<1>5. \A q \in Op : missed'[q] = missed[q] \cup {part \in Changed : q # p /\ pc[q] \in Past(part)}
  BY <1>3
<1>6. missed' \in [Op -> SUBSET Parts]
  BY <1>2, <1>3, <1>4
<1> QED
  BY <1>1, <1>2, <1>5, <1>6

\* Who put a password back, and who touched the markers last.
LEMMA Remembered ==
    ASSUME TypeOK, NEW p \in Op, Watch(p)
    PROVE  /\ putBack' \in SUBSET Op /\ marksBy' \in SUBSET Op
           /\ lastPassword' = lastPassword =>
                  putBack' = IF user'.password = user.password THEN putBack ELSE putBack \cup {p}
           /\ lastPassword' = lastPassword /\ user'.password # user.password => marksBy' = {p}
           /\ user'.temp # user.temp => marksBy' = {p}
           /\ user'.temp = user.temp /\ user'.password = user.password => marksBy' = marksBy
  BY DEF Watch, TypeOK

\* The fields after the two writes of single columns.
LEMMA ColumnMoves ==
    ASSUME TypeOK, NEW p \in Op
    PROVE  /\ Moves(p) => /\ user'.status = job[p].target /\ user'.temp = user.temp
                          /\ user'.password = user.password /\ user' \in User
           /\ Resets(p) => /\ user'.status = user.status /\ user'.password = {p} /\ user' \in User
                           /\ \/ user'.temp = FALSE /\ pc[p] = "c_choose"
                              \/ /\ user'.temp = user.temp
                                 /\ \/ pc[p] \in {"b_reset", "c_reset"}
                                    \/ pc[p] = "c_choose" /\ ~form[p].temp
<1>1. user \in User /\ job[p].target \in Lifecycle
  BY AccountAssumption DEF TypeOK, Lifecycle
<1>2. ASSUME Moves(p)
      PROVE  /\ user'.status = job[p].target /\ user'.temp = user.temp
             /\ user'.password = user.password /\ user' \in User
  <2>1. user' = [user EXCEPT !.status = job[p].target]
    BY <1>2 DEF Moves
  <2> QED
    BY <1>1, <2>1 DEF User
<1>3. ASSUME Resets(p)
      PROVE  /\ user'.status = user.status /\ user'.password = {p} /\ user' \in User
             /\ \/ user'.temp = FALSE /\ pc[p] = "c_choose"
                \/ /\ user'.temp = user.temp
                   /\ \/ pc[p] \in {"b_reset", "c_reset"}
                      \/ pc[p] = "c_choose" /\ ~form[p].temp
  <2>1. CASE /\ user' = [user EXCEPT !.password = {p}]
             /\ pc[p] \in {"b_reset", "c_reset"} \/ (pc[p] = "c_choose" /\ ~form[p].temp)
    BY <1>1, <2>1 DEF User
  <2>2. CASE pc[p] = "c_choose" /\ user' = [user EXCEPT !.password = {p}, !.temp = FALSE]
    BY <1>1, <2>2 DEF User
  <2> QED
    BY <1>3, <2>1, <2>2 DEF Resets
<1> QED
  BY <1>2, <1>3

\* The record that a step leaves is one, and a user that is there stays.
LEMMA UserMoves ==
    ASSUME TypeOK, Present, NEW p \in Op, Move(p)
    PROVE  /\ user' \in User /\ lastPassword' \in SUBSET Op
           /\ user.status # "absent" => user'.status # "absent"
<1>1. /\ user \in User /\ lastPassword \in SUBSET Op /\ form[p] \in Form /\ current[p] \in User
      /\ job[p].target \in Lifecycle
  BY OpTypes, AccountAssumption DEF TypeOK, Lifecycle
<1>2. CASE Quiet
  BY <1>1, <1>2 DEF Quiet
<1>3. CASE Creates(p)
  BY <1>1, <1>3, RecordTypes DEF Creates
<1>4. CASE Moves(p)
  BY <1>1, <1>4, RecordTypes, ColumnMoves DEF Moves
<1>5. CASE Replaces(p)
  <2>1. PICK marked \in BOOLEAN :
           user' = [status |-> IF form[p].status = "" THEN user.status ELSE form[p].status,
                    temp |-> marked, password |-> current[p].password]
    BY <1>5 DEF Replaces
  <2>2. lastPassword' = lastPassword /\ pc[p] = "u_write"
    BY <1>5 DEF Replaces
  <2>3. user.status # "absent" /\ form[p].status # "absent"
    BY <2>2 DEF Present
  <2>4. user.status \in Lifecycle /\ form[p].status \in Lifecycle \cup {""}
        /\ current[p].password \in SUBSET Op
    BY <1>1, <2>3 DEF User, Form
  <2> QED
    BY <1>1, <2>1, <2>2, <2>4, RecordTypes
<1>6. CASE Resets(p)
  BY <1>1, <1>6, ColumnMoves DEF Resets
<1>7. CASE Marks(p)
  <2>1. /\ user' = [status |-> form[p].status, temp |-> TRUE, password |-> current[p].password]
        /\ lastPassword' = lastPassword /\ pc[p] = "b_mark"
    BY <1>7 DEF Marks
  <2>2. form[p].status # "absent" /\ form[p] \in User
    BY <2>1 DEF Present
  <2>3. form[p].status \in Lifecycle /\ current[p].password \in SUBSET Op
    BY <1>1, <2>2 DEF User
  <2> QED
    BY <1>1, <2>1, <2>3, RecordTypes
<1> QED
  BY <1>2, <1>3, <1>4, <1>5, <1>6, <1>7
  DEF Move, Starts, Reads, Checks, Submits, Rereads, Logs, Stops

LEMMA TypeKept ==
    ASSUME TypeOK, Present, NEW p \in Op, Step(p), Watch(p)
    PROVE  TypeOK'
<1>1. /\ Turn(p) /\ Move(p) /\ hasClear' = hasClear /\ user' \in User /\ lastPassword' \in SUBSET Op
      /\ missed' \in [Op -> SUBSET Parts] /\ putBack' \in SUBSET Op /\ marksBy' \in SUBSET Op
  BY StepMoves, HasClearKept, UserMoves, Watched, Remembered
<1> DEFINE Jobs == [kind : Kinds \cup {"none"}, target : Targets \cup {"active"}]
           Edges == (Lifecycle \cup {"absent"}) \X (Lifecycle \cup {"absent"})
<1>2. /\ job \in [Op -> Jobs] /\ moved \in [Op -> Edges] /\ logged \in [Op -> Edges]
      /\ hasClear \in BOOLEAN /\ user.status \in Lifecycle \cup {"absent"}
      /\ job[p].target \in Lifecycle
  BY AccountAssumption DEF TypeOK, User, Lifecycle
<1>3. job' \in [Op -> Jobs]
  <2>1. CASE Starts(p)
    <3>1. PICK kind \in Kinds, target \in Targets \cup {"active"} :
             job' = [job EXCEPT ![p] = [kind |-> kind, target |-> target]]
      BY <2>1 DEF Starts
    <3>2. [kind |-> kind, target |-> target] \in Jobs
      OBVIOUS
    <3> HIDE DEF Jobs
    <3> QED
      BY <1>2, <3>1, <3>2
  <2>2. CASE ~Starts(p)
    BY <1>1, <1>2, <2>2 DEF Move, Reads, Checks, Submits, Rereads, Creates, Moves, Logs, Replaces,
       Resets, Marks, Stops, SameJobs
  <2> QED
    BY <2>1, <2>2
<1>4. moved' \in [Op -> Edges] /\ logged' \in [Op -> Edges]
  <2>1. <<user.status, job[p].target>> \in Edges
    BY <1>2
  <2>2. \/ moved' = moved
        \/ moved' = [moved EXCEPT ![p] = <<user.status, job[p].target>>]
    BY <1>1 DEF Move, Starts, Reads, Checks, Submits, Rereads, Creates, Moves, Logs, Replaces,
       Resets, Marks, Stops, SameJobs
  <2>3. CASE logged' = logged
    <3> HIDE DEF Edges
    <3> QED
      BY <1>2, <2>1, <2>2, <2>3
  <2>4. CASE logged' # logged
    <3>1. pc[p] = "t_log" /\ logged' = [logged EXCEPT ![p] = <<form[p].status, job[p].target>>]
      BY <1>1, <2>4 DEF Move, Starts, Reads, Checks, Submits, Rereads, Creates, Moves, Logs,
         Replaces, Resets, Marks, Stops, SameJobs
    <3>2. form[p].status \in Lifecycle \cup {"absent"}
      BY <3>1 DEF Present, User
    <3>3. <<form[p].status, job[p].target>> \in Edges
      BY <1>2, <3>2
    <3> HIDE DEF Edges
    <3> QED
      BY <1>2, <2>1, <2>2, <3>1, <3>3
  <2> QED
    BY <2>3, <2>4
<1> QED
  BY <1>1, <1>2, <1>3, <1>4 DEF TypeOK, Turn, Places, Answers, Parts, Form

\* Only a start changes the job, and only that of the command that starts.
LEMMA JobMoves ==
    ASSUME TypeOK, NEW p \in Op, Move(p)
    PROVE  /\ \A q \in Op : q # p => job'[q] = job[q]
           /\ ~Starts(p) => job' = job
<1>1. CASE Starts(p)
  <2>1. PICK kind \in Kinds, target \in Targets \cup {"active"} :
           job' = [job EXCEPT ![p] = [kind |-> kind, target |-> target]]
    BY <1>1 DEF Starts
  <2> QED
    BY <1>1, <2>1 DEF TypeOK
<1>2. CASE ~Starts(p)
  BY <1>2 DEF Move, Reads, Checks, Submits, Rereads, Creates, Moves, Logs, Replaces,
     Resets, Marks, Stops, SameJobs
<1> QED
  BY <1>1, <1>2

\* A command that steps is not at its end.
LEMMA NotEnded ==
    ASSUME NEW p \in Op, Move(p)
    PROVE  pc[p] \notin {"done", "crashed"}
  BY DEF Move, Starts, Reads, Checks, Submits, Rereads, Creates, Moves, Logs, Replaces, Resets,
     Marks, Stops, InFlight

\* The kind of a command that has one stays.
LEMMA KindStays ==
    ASSUME TypeOK, KindFits, NEW p \in Op, Move(p), NEW q \in Op, job[q].kind # "none"
    PROVE  job'[q] = job[q]
<1>1. ASSUME q = p, Starts(p) PROVE FALSE
  BY <1>1 DEF Starts, KindFits
<1> QED
  BY <1>1, JobMoves

LEMMA StartPlace ==
    ASSUME TypeOK, NEW p \in Op, Starts(p)
    PROVE  \/ job'[p].kind = "create" /\ pc'[p] = "create"
           \/ job'[p].kind = "transition" /\ pc'[p] = "t_read"
           \/ job'[p].kind = "update" /\ pc'[p] = "u_check"
           \/ job'[p].kind = "change" /\ pc'[p] = "c_read"
           \/ job'[p].kind = "bootstrap" /\ pc'[p] = "b_find"
<1>1. PICK kind \in Kinds, target \in Targets \cup {"active"} :
         /\ job' = [job EXCEPT ![p] = [kind |-> kind, target |-> target]]
         /\ pc'[p] = Entry(kind)
  BY DEF Starts, Goes
<1>2. job'[p].kind = kind
  BY <1>1 DEF TypeOK
<1>3. kind \in {"create", "transition", "update", "change", "bootstrap"}
  BY AccountAssumption
<1>4. Entry(kind) = IF kind = "create" THEN "create" ELSE IF kind = "transition" THEN "t_read"
                    ELSE IF kind = "update" THEN "u_check" ELSE IF kind = "change" THEN "c_read"
                    ELSE "b_find"
  <2>1. CASE kind = "create"
    BY <2>1 DEF Entry
  <2>2. CASE kind = "transition"
    BY <2>2 DEF Entry
  <2>3. CASE kind = "update"
    BY <2>3 DEF Entry
  <2>4. CASE kind = "change"
    BY <2>4 DEF Entry
  <2>5. CASE kind = "bootstrap"
    BY <2>5 DEF Entry
  <2> QED
    BY <1>3, <2>1, <2>2, <2>3, <2>4, <2>5
<1> QED
  BY <1>1, <1>2, <1>3, <1>4

LEMMA KindFitsKept ==
    ASSUME TypeOK, KindFits, NEW p \in Op, Step(p)
    PROVE  KindFits'
<1>1. Turn(p) /\ Move(p)
  BY StepMoves
<1> DEFINE Fits(place, kind) ==
        /\ place = "idle" <=> kind = "none"
        /\ place = "create" => kind = "create"
        /\ place \in TransitionPlaces => kind = "transition"
        /\ place \in UpdatePlaces => kind = "update"
        /\ place \in ChangePlaces => kind = "change"
        /\ place \in BootstrapPlaces => kind = "bootstrap"
<1>2. \A q \in Op : Fits(pc[q], job[q].kind)
  BY DEF KindFits
<1>3. SUFFICES ASSUME NEW q \in Op PROVE Fits(pc'[q], job'[q].kind)
  BY DEF KindFits
<1>4. CASE q # p
  BY <1>1, <1>2, <1>4, JobMoves DEF Turn
<1>5. CASE q = p /\ Starts(p)
  BY <1>5, StartPlace DEF TransitionPlaces, UpdatePlaces, ChangePlaces, BootstrapPlaces
<1>6. CASE q = p /\ ~Starts(p)
  <2>1. job' = job /\ Fits(pc[p], job[p].kind)
    BY <1>1, <1>2, <1>6, JobMoves
  <2>2. CASE pc'[p] \in {"done", "crashed"}
    <3>1. pc[p] # "idle"
      BY <1>1, <1>6 DEF Move, Reads, Checks, Submits, Rereads, Creates, Moves, Logs, Replaces,
         Resets, Marks, Stops, InFlight
    <3> QED
      BY <1>6, <2>1, <2>2, <3>1 DEF TransitionPlaces, UpdatePlaces, ChangePlaces, BootstrapPlaces
  <2>3. CASE pc'[p] \notin {"done", "crashed"}
    <3>1. \/ pc[p] \in TransitionPlaces /\ pc'[p] \in TransitionPlaces
          \/ pc[p] \in UpdatePlaces /\ pc'[p] \in UpdatePlaces
          \/ pc[p] \in ChangePlaces /\ pc'[p] \in ChangePlaces
          \/ pc[p] \in BootstrapPlaces /\ pc'[p] \in BootstrapPlaces
      BY <1>1, <1>6, <2>3 DEF Move, Reads, Checks, Submits, Rereads, Creates, Moves, Logs,
         Replaces, Resets, Marks, Stops, Goes, Ends, TransitionPlaces, UpdatePlaces, ChangePlaces,
         BootstrapPlaces
    <3> QED
      BY <1>6, <2>1, <3>1 DEF TransitionPlaces, UpdatePlaces, ChangePlaces, BootstrapPlaces
  <2> QED
    BY <2>2, <2>3
<1> QED
  BY <1>4, <1>5, <1>6

LEMMA PresentKept ==
    ASSUME TypeOK, Present, NEW p \in Op, Step(p)
    PROVE  Present'
<1>1. Turn(p) /\ Move(p) /\ (user.status # "absent" => user'.status # "absent")
  BY StepMoves, UserMoves
<1> DEFINE Later == {"t_check", "t_reread", "t_write", "t_log", "u_write", "c_choose", "c_reset",
                     "b_read", "b_current", "b_mark", "b_reset"}
           Holding == {"u_current", "u_write", "b_current", "b_mark"}
<1>2. SUFFICES ASSUME NEW q \in Op
               PROVE  /\ pc'[q] \in Later => user'.status # "absent"
                      /\ pc'[q] \in Holding => form'[q].status # "absent"
                      /\ pc'[q] \notin {"u_current", "u_write"} => form'[q] \in User
  BY DEF Present
<1>3. CASE q # p
  BY <1>1, <1>3 DEF Turn, Present
<1>4. CASE q = p /\ Starts(p)
  <2>1. pc[p] = "idle" /\ form'[p] = form[p]
    BY <1>4 DEF Starts, HoldsOn
  <2> QED
    BY <1>4, <2>1, StartPlace DEF Present
<1>5. CASE q = p /\ ~Starts(p)
  <2>1. user \in User /\ Missing \in User
    BY OpTypes
  <2>2. CASE Reads(p)
    BY <1>1, <1>5, <2>1, <2>2 DEF Reads, Goes
  <2>3. CASE Checks(p)
    BY <1>1, <1>5, <2>3 DEF Checks, Goes, HoldsOn, Present
  <2>4. CASE Submits(p)
    BY <1>1, <1>5, <2>4 DEF Submits, Goes
  <2>5. CASE Rereads(p)
    BY <1>1, <1>5, <2>5 DEF Rereads, Goes, Present
  <2>6. CASE Creates(p)
    <3>1. user'.status # "absent"
      BY <2>6, RecordTypes DEF Creates
    <3>2. \/ pc[p] = "b_create" /\ pc'[p] = "b_read" /\ form'[p] = form[p]
          \/ pc'[p] = "done" /\ form'[p] = Missing
      BY <2>6 DEF Creates, Goes, HoldsOn, Ends, Forgets
    <3> QED
      BY <1>5, <2>1, <3>1, <3>2 DEF Present
  <2>7. CASE Moves(p) \/ Marks(p)
    <3>1. /\ pc[p] \in {"t_write", "b_mark"} /\ pc'[p] \in {"t_log", "b_reset", "done"}
          /\ (form'[p] = form[p] \/ form'[p] = Missing)
      BY <2>7 DEF Moves, Marks, Goes, HoldsOn, Ends, Forgets
    <3> QED
      BY <1>1, <1>5, <2>1, <3>1 DEF Present
  <2>8. CASE Logs(p) \/ Replaces(p) \/ Resets(p) \/ Stops(p)
    <3>1. pc'[p] \in {"done", "crashed"} /\ form'[p] = Missing
      BY <2>8 DEF Logs, Replaces, Resets, Stops, Goes, Ends, Forgets
    <3> QED
      BY <1>5, <2>1, <3>1
  <2> QED
    BY <1>1, <1>5, <2>2, <2>3, <2>4, <2>5, <2>6, <2>7, <2>8 DEF Move
<1> QED
  BY <1>3, <1>4, <1>5

LEMMA BaseKept ==
    ASSUME BaseInv, NEW p \in Op, Step(p), Watch(p)
    PROVE  BaseInv'
  BY TypeKept, KindFitsKept, PresentKept DEF BaseInv

-----------------------------------------------------------------------------
(* The status *)

\* The status changes only by creation, by a transition, and with a whole record.
LEMMA StatusMoves ==
    ASSUME TypeOK, NEW p \in Op, Move(p)
    PROVE  \/ user'.status = user.status
           \/ user.status = "absent" /\ Creates(p)
           \/ Moves(p) /\ user'.status = job[p].target
           \/ (Replaces(p) \/ Marks(p)) /\ user'.status = form[p].status
<1>1. CASE Replaces(p)
  <2>1. PICK marked \in BOOLEAN :
           user' = [status |-> IF form[p].status = "" THEN user.status ELSE form[p].status,
                    temp |-> marked, password |-> current[p].password]
    BY <1>1 DEF Replaces
  <2> QED
    BY <1>1, <2>1
<1>2. CASE Marks(p)
  BY <1>2 DEF Marks
<1>3. CASE Moves(p) \/ Resets(p)
  BY <1>3, ColumnMoves
<1>4. CASE Creates(p)
  BY <1>4 DEF Creates
<1>5. CASE Quiet
  BY <1>5 DEF Quiet
<1> QED
  BY <1>1, <1>2, <1>3, <1>4, <1>5 DEF Move, Starts, Reads, Checks, Submits, Rereads, Logs, Stops

LEMMA StatusSeenKept ==
    ASSUME BaseInv, StatusSeen, NEW p \in Op, Step(p), Watch(p)
    PROVE  StatusSeen'
<1>1. TypeOK /\ Turn(p) /\ Move(p)
  BY StepMoves DEF BaseInv
<1>2. SUFFICES ASSUME NEW q \in Op, "status" \notin missed'[q]
               PROVE  /\ pc'[q] = "t_write" => job'[q].target \in Allowed(user'.status)
                      /\ pc'[q] \in {"u_current", "u_write"} =>
                             form'[q].status \in Allowed(user'.status) \cup {user'.status, ""}
                      /\ pc'[q] \in {"b_current", "b_mark"} => form'[q].status = user'.status
  <2>1. \A status : Allowed(status)' = Allowed(status)
    BY DEF Allowed
  <2> QED
    BY <2>1 DEF StatusSeen
<1>3. "status" \notin missed[q]
  BY <1>1, <1>2, Watched
<1>4. /\ pc[q] = "t_write" => job[q].target \in Allowed(user.status)
      /\ pc[q] \in {"u_current", "u_write"} =>
             form[q].status \in Allowed(user.status) \cup {user.status, ""}
      /\ pc[q] \in {"b_current", "b_mark"} => form[q].status = user.status
  BY <1>3 DEF StatusSeen
<1>5. CASE q # p
  <2>1. pc'[q] = pc[q] /\ form'[q] = form[q] /\ job'[q] = job[q]
    BY <1>1, <1>5, JobMoves DEF Turn
  <2>2. pc[q] \in {"t_write", "u_current", "u_write", "b_current", "b_mark"} => user'.status = user.status
    BY <1>1, <1>2, <1>5, Watched
  <2> QED
    BY <1>4, <2>1, <2>2
<1>6. CASE q = p
  <2>1. CASE Starts(p)
    BY <1>1, <1>6, <2>1, StartPlace
  <2>2. CASE Reads(p)
    BY <1>6, <2>2 DEF Reads, Goes, Quiet
  <2>3. CASE Checks(p)
    <3>1. user' = user /\ form'[p] = form[p] /\ job' = job
      BY <2>3 DEF Checks, Quiet, HoldsOn, SameJobs
    <3>2. \/ pc'[p] \in {"t_reread", "c_reset", "b_create", "b_read"}
          \/ pc'[p] = "t_write" /\ job[p].target \in Allowed(user.status)
      BY <2>3 DEF Checks, Goes
    <3> QED
      BY <1>6, <3>1, <3>2
  <2>4. CASE Submits(p)
    BY <1>6, <2>4 DEF Submits, Goes, Quiet
  <2>5. CASE Rereads(p)
    <3>1. user' = user /\ form'[p] = form[p]
      BY <2>5 DEF Rereads, Quiet
    <3>2. \/ pc[p] = "u_current" /\ pc'[p] = "u_write"
          \/ pc[p] = "b_current" /\ pc'[p] = "b_mark"
      BY <2>5 DEF Rereads, Goes
    <3> QED
      BY <1>4, <1>6, <3>1, <3>2
  <2>6. CASE Creates(p) \/ Moves(p) \/ Marks(p) \/ Logs(p) \/ Replaces(p) \/ Resets(p) \/ Stops(p)
    <3>1. pc'[p] \in {"done", "crashed", "b_read", "b_reset", "t_log"}
      BY <2>6 DEF Creates, Moves, Marks, Logs, Replaces, Resets, Stops, Goes, Ends
    <3> QED
      BY <1>6, <3>1
  <2> QED
    BY <1>1, <2>1, <2>2, <2>3, <2>4, <2>5, <2>6 DEF Move
<1> QED
  BY <1>5, <1>6

LEMMA FirstSeenKept ==
    ASSUME BaseInv, FirstSeen, NEW p \in Op, Step(p), Watch(p)
    PROVE  FirstSeen'
<1>1. TypeOK /\ Turn(p) /\ Move(p) /\ moved \in [Op -> (Lifecycle \cup {"absent"}) \X (Lifecycle \cup {"absent"})]
  BY StepMoves DEF BaseInv, TypeOK
<1>2. SUFFICES ASSUME NEW q \in Op, "first" \notin missed'[q]
               PROVE  /\ pc'[q] \in {"t_check", "t_reread", "t_write"} =>
                             form'[q].status = user'.status
                      /\ pc'[q] = "t_log" => moved'[q] = <<form'[q].status, job'[q].target>>
  BY DEF FirstSeen
<1>3. "first" \notin missed[q]
  BY <1>1, <1>2, Watched
<1>4. /\ pc[q] \in {"t_check", "t_reread", "t_write"} => form[q].status = user.status
      /\ pc[q] = "t_log" => moved[q] = <<form[q].status, job[q].target>>
  BY <1>3 DEF FirstSeen
<1>5. CASE q # p
  <2>1. pc'[q] = pc[q] /\ form'[q] = form[q] /\ job'[q] = job[q]
    BY <1>1, <1>5, JobMoves DEF Turn
  <2>2. pc[q] \in {"t_check", "t_reread", "t_write"} => user'.status = user.status
    BY <1>1, <1>2, <1>5, Watched
  <2>3. moved'[q] = moved[q]
    BY <1>1, <1>5 DEF Move, Starts, Reads, Checks, Submits, Rereads, Creates, Moves, Logs, Replaces,
       Resets, Marks, Stops, SameJobs
  <2> QED
    BY <1>4, <2>1, <2>2, <2>3
<1>6. CASE q = p
  <2>1. CASE Starts(p)
    BY <1>1, <1>6, <2>1, StartPlace
  <2>2. CASE Reads(p)
    BY <1>6, <2>2 DEF Reads, Goes, Quiet
  <2>3. CASE Checks(p)
    <3>1. user' = user /\ form'[p] = form[p]
      BY <2>3 DEF Checks, Quiet, HoldsOn
    <3>2. \/ pc'[p] \in {"c_reset", "b_create", "b_read"}
          \/ pc'[p] \in {"t_reread", "t_write"} /\ pc[p] \in {"t_check", "t_reread"}
      BY <2>3 DEF Checks, Goes
    <3> QED
      BY <1>4, <1>6, <3>1, <3>2
  <2>4. CASE Moves(p)
    <3>1. /\ pc[p] = "t_write" /\ moved' = [moved EXCEPT ![p] = <<user.status, job[p].target>>]
          /\ job' = job /\ ((pc'[p] = "t_log" /\ form'[p] = form[p]) \/ pc'[p] = "done")
      BY <2>4 DEF Moves, Goes, HoldsOn, Ends
    <3>2. moved'[p] = <<user.status, job[p].target>>
      BY <1>1, <3>1
    <3> QED
      BY <1>4, <1>6, <3>1, <3>2
  <2>5. CASE Submits(p) \/ Rereads(p) \/ Creates(p) \/ Marks(p) \/ Logs(p) \/ Replaces(p)
             \/ Resets(p) \/ Stops(p)
    <3>1. pc'[p] \in {"done", "crashed", "b_read", "b_reset", "u_current", "u_write", "b_mark"}
      BY <2>5 DEF Submits, Rereads, Creates, Marks, Logs, Replaces, Resets, Stops, Goes, Ends
    <3> QED
      BY <1>6, <3>1
  <2> QED
    BY <1>1, <2>1, <2>2, <2>3, <2>4, <2>5 DEF Move
<1> QED
  BY <1>5, <1>6

\* What is known of the event of a transition, until it is logged and after.
LEMMA ReportableKept ==
    ASSUME BaseInv, FirstSeen, Reportable, LogNamesRealChange, NEW p \in Op, Step(p), Watch(p)
    PROVE  Reportable' /\ LogNamesRealChange'
<1> DEFINE Edges == (Lifecycle \cup {"absent"}) \X (Lifecycle \cup {"absent"})
<1>1. /\ TypeOK /\ Turn(p) /\ Move(p) /\ pc[p] \notin {"done", "crashed"}
      /\ moved \in [Op -> Edges] /\ logged \in [Op -> Edges]
  BY StepMoves, NotEnded DEF BaseInv, TypeOK
<1>2. SUFFICES ASSUME NEW q \in Op
               PROVE  /\ pc'[q] \in {"t_reread", "t_write", "t_log"} =>
                             job'[q].target \in Allowed(form'[q].status)
                      /\ pc'[q] = "t_log" => moved'[q][2] = job'[q].target
                      /\ logged'[q] # Nothing =>
                             /\ pc'[q] = "done"
                             /\ logged'[q][2] \in Allowed(logged'[q][1])
                             /\ logged'[q][2] = moved'[q][2]
                             /\ logged'[q] = moved'[q] \/ "first" \in missed'[q]
  <2>1. \A status : Allowed(status)' = Allowed(status)
    BY DEF Allowed
  <2>2. Nothing' = Nothing
    BY DEF Nothing
  <2> QED
    BY <1>1, <2>1, <2>2 DEF Reportable, LogNamesRealChange
<1>3. /\ pc[q] \in {"t_reread", "t_write", "t_log"} => job[q].target \in Allowed(form[q].status)
      /\ pc[q] = "t_log" => moved[q][2] = job[q].target
      /\ logged[q] # Nothing =>
             /\ pc[q] = "done" /\ logged[q][2] \in Allowed(logged[q][1])
             /\ logged[q][2] = moved[q][2]
             /\ logged[q] = moved[q] \/ "first" \in missed[q]
      /\ missed[q] \subseteq missed'[q]
  BY <1>1, Watched DEF Reportable, LogNamesRealChange
<1>4. CASE q # p
  <2>1. pc'[q] = pc[q] /\ form'[q] = form[q] /\ job'[q] = job[q]
    BY <1>1, <1>4, JobMoves DEF Turn
  <2>2. moved'[q] = moved[q] /\ logged'[q] = logged[q]
    BY <1>1, <1>4 DEF Move, Starts, Reads, Checks, Submits, Rereads, Creates, Moves, Logs, Replaces,
       Resets, Marks, Stops, SameJobs
  <2> QED
    BY <1>3, <2>1, <2>2
<1>5. CASE q = p
  <2>1. logged[p] = Nothing
    BY <1>1, <1>3, <1>5
  <2>2. CASE Starts(p)
    BY <1>1, <1>5, <2>1, <2>2, StartPlace DEF Starts
  <2>3. CASE Checks(p)
    <3>1. logged' = logged /\ form'[p] = form[p] /\ job' = job
      BY <2>3 DEF Checks, HoldsOn, SameJobs
    <3>2. \/ pc'[p] \in {"c_reset", "b_create", "b_read"}
          \/ pc'[p] = "t_reread" /\ job[p].target \in Allowed(form[p].status)
          \/ pc'[p] = "t_write" /\ pc[p] = "t_reread"
      BY <2>3 DEF Checks, Goes
    <3> QED
      BY <1>3, <1>5, <2>1, <3>1, <3>2
  <2>4. CASE Moves(p)
    <3>1. /\ pc[p] = "t_write" /\ moved' = [moved EXCEPT ![p] = <<user.status, job[p].target>>]
          /\ job' = job /\ ((pc'[p] = "t_log" /\ form'[p] = form[p]) \/ pc'[p] = "done")
          /\ logged' = logged
      BY <2>4 DEF Moves, Goes, HoldsOn, Ends
    <3>2. moved'[p] = <<user.status, job[p].target>>
      BY <1>1, <3>1
    <3> QED
      BY <1>3, <1>5, <2>1, <3>1, <3>2
  <2>5. CASE Logs(p)
    <3>1. /\ pc[p] = "t_log" /\ pc'[p] = "done" /\ moved' = moved
          /\ logged' = [logged EXCEPT ![p] = <<form[p].status, job[p].target>>]
      BY <2>5 DEF Logs, Ends
    <3>2. logged'[p] = <<form[p].status, job[p].target>>
      BY <1>1, <3>1
    <3>3. moved[p] = <<form[p].status, job[p].target>> \/ "first" \in missed[p]
      BY <3>1 DEF FirstSeen
    <3> QED
      BY <1>3, <1>5, <3>1, <3>2, <3>3
  <2>6. CASE Reads(p) \/ Submits(p) \/ Rereads(p) \/ Creates(p) \/ Marks(p) \/ Replaces(p)
             \/ Resets(p) \/ Stops(p)
    <3>1. /\ pc'[p] \notin {"t_reread", "t_write", "t_log"} /\ logged' = logged
      BY <2>6 DEF Reads, Submits, Rereads, Creates, Marks, Replaces, Resets, Stops, Goes, Ends, SameJobs
    <3> QED
      BY <1>5, <2>1, <3>1
  <2> QED
    BY <1>1, <2>2, <2>3, <2>4, <2>5, <2>6 DEF Move
<1> QED
  BY <1>4, <1>5

-----------------------------------------------------------------------------
(* The password and its markers *)

\* Password and markers change only by these; a creation finds neither.
LEMMA SecretMoves ==
    ASSUME BaseInv, AbsentIsMissing, NEW p \in Op, Move(p)
    PROVE  \/ /\ Creates(p) /\ lastPassword' = lastPassword
              /\ user'.password = user.password /\ user'.password = {}
           \/ Resets(p) /\ lastPassword' = {p} /\ user'.password = {p}
           \/ Replaces(p) /\ lastPassword' = lastPassword /\ user'.password = current[p].password
           \/ /\ Marks(p) /\ lastPassword' = lastPassword /\ user'.temp = TRUE
              /\ user'.password = current[p].password
           \/ /\ ~Creates(p) /\ ~Resets(p) /\ ~Replaces(p) /\ ~Marks(p)
              /\ lastPassword' = lastPassword
              /\ user'.password = user.password /\ user'.temp = user.temp
<1>1. TypeOK
  BY DEF BaseInv
<1>2. CASE Creates(p)
  <2>1. user.password = {}
    BY <1>2 DEF Creates, AbsentIsMissing, Missing
  <2>2. user'.password = {} /\ lastPassword' = lastPassword
    BY <1>2 DEF Creates
  <2> QED
    BY <1>2, <2>1, <2>2
<1>3. CASE Resets(p)
  BY <1>1, <1>3, ColumnMoves DEF Resets
<1>4. CASE Replaces(p)
  <2>1. PICK marked \in BOOLEAN :
           user' = [status |-> IF form[p].status = "" THEN user.status ELSE form[p].status,
                    temp |-> marked, password |-> current[p].password]
    BY <1>4 DEF Replaces
  <2>2. lastPassword' = lastPassword
    BY <1>4 DEF Replaces
  <2> QED
    BY <1>4, <2>1, <2>2
<1>5. CASE Marks(p)
  BY <1>5 DEF Marks
<1>6. CASE ~Creates(p) /\ ~Resets(p) /\ ~Replaces(p) /\ ~Marks(p)
  <2>1. CASE Moves(p)
    BY <1>1, <1>6, <2>1, ColumnMoves DEF Moves
  <2>2. CASE Quiet
    BY <1>6, <2>2 DEF Quiet
  <2> QED
    BY <1>6, <2>1, <2>2 DEF Move, Starts, Reads, Checks, Submits, Rereads, Logs, Stops
<1> QED
  BY <1>2, <1>3, <1>4, <1>5, <1>6

LEMMA AbsentIsMissingKept ==
    ASSUME BaseInv, AbsentIsMissing, NEW p \in Op, Step(p)
    PROVE  AbsentIsMissing'
<1>1. TypeOK /\ Present /\ Move(p)
  BY StepMoves DEF BaseInv
<1>2. SUFFICES ASSUME user'.status = "absent" PROVE user' = Missing
  BY DEF AbsentIsMissing, Missing
<1>3. user.status = "absent" /\ user = Missing
  BY <1>1, <1>2, UserMoves DEF AbsentIsMissing
<1>4. ~Creates(p) /\ ~Moves(p) /\ ~Replaces(p) /\ ~Resets(p) /\ ~Marks(p)
  <2>1. ~Creates(p)
    BY <1>2, RecordTypes DEF Creates
  <2> QED
    BY <1>3, <2>1 DEF Present, BaseInv, Moves, Replaces, Resets, Marks
<1> QED
  BY <1>1, <1>3, <1>4 DEF Move, Starts, Reads, Checks, Submits, Rereads, Logs, Stops, Quiet

LEMMA SetByCommandKept ==
    ASSUME BaseInv, AbsentIsMissing, SetByCommand, NEW p \in Op, Step(p)
    PROVE  /\ SetByCommand'
           /\ \A x \in Op : x \in user.password => job'[x] = job[x]
<1>1. TypeOK /\ KindFits /\ Turn(p) /\ Move(p)
  BY StepMoves DEF BaseInv
<1>2. ASSUME NEW x \in Op, x \in user.password \/ \E q \in Op : x \in current[q].password
      PROVE  job'[x] = job[x] /\ job[x].kind \in {"change", "bootstrap"}
  BY <1>1, <1>2, KindStays DEF SetByCommand
<1>3. ASSUME NEW x \in Op, x \in user'.password PROVE job'[x].kind \in {"change", "bootstrap"}
  <2>1. CASE Resets(p)
    <3>1. x = p /\ job' = job /\ pc[p] \in {"c_choose", "c_reset", "b_reset"}
      BY <1>1, <1>3, <2>1, ColumnMoves DEF Resets, SameJobs
    <3> QED
      BY <1>1, <3>1 DEF KindFits, ChangePlaces, BootstrapPlaces
  <2>2. CASE ~Resets(p)
    <3>1. user'.password = user.password \/ user'.password = current[p].password
      BY <1>1, <2>2, SecretMoves
    <3> QED
      BY <1>2, <1>3, <3>1
  <2> QED
    BY <2>1, <2>2
<1>4. ASSUME NEW x \in Op, NEW q \in Op, x \in current'[q].password
      PROVE  job'[x].kind \in {"change", "bootstrap"}
  <2>1. CASE current'[q] = current[q]
    BY <1>2, <1>4, <2>1
  <2>2. CASE current'[q] # current[q]
    <3>1. q = p
      BY <1>1, <2>2 DEF Turn
    <3>2. current'[p] = Missing \/ current'[p] = user
      BY <1>1, <2>2, <3>1 DEF Move, Starts, Reads, Checks, Submits, Rereads, Creates, Moves, Logs,
         Replaces, Resets, Marks, Stops, HoldsOn, Ends, Forgets
    <3> QED
      BY <1>2, <1>4, <3>1, <3>2 DEF Missing
  <2> QED
    BY <2>1, <2>2
<1>5. SetByCommand'
  <2> SUFFICES ASSUME NEW x \in Op,
                      x \in user'.password \/ \E q \in Op : x \in current'[q].password
               PROVE  job'[x].kind \in {"change", "bootstrap"}
    BY DEF SetByCommand
  <2> QED
    BY <1>3, <1>4
<1> QED
  BY <1>2, <1>5

LEMMA PasswordSeenKept ==
    ASSUME BaseInv, PasswordSeen, NEW p \in Op, Step(p), Watch(p)
    PROVE  PasswordSeen'
<1>1. TypeOK /\ Turn(p) /\ Move(p)
  BY StepMoves DEF BaseInv
<1>2. SUFFICES ASSUME NEW q \in Op, "password" \notin missed'[q], pc'[q] \in {"u_write", "b_mark"}
               PROVE  current'[q].password = user'.password
  BY DEF PasswordSeen
<1>3. CASE q # p
  <2>1. pc'[q] = pc[q] /\ current'[q] = current[q]
    BY <1>1, <1>3 DEF Turn
  <2>2. user'.password = user.password /\ "password" \notin missed[q]
    BY <1>1, <1>2, <1>3, <2>1, Watched
  <2> QED
    BY <1>2, <2>1, <2>2 DEF PasswordSeen
<1>4. CASE q = p
  <2>1. CASE Rereads(p)
    BY <1>4, <2>1 DEF Rereads, Quiet
  <2>2. CASE Starts(p)
    BY <1>1, <1>2, <1>4, <2>2, StartPlace
  <2>3. CASE ~Rereads(p) /\ ~Starts(p)
    <3>1. pc'[p] \notin {"u_write", "b_mark"}
      BY <1>1, <2>3 DEF Move, Reads, Checks, Submits, Creates, Moves, Logs, Replaces, Resets,
         Marks, Stops, Goes, Ends
    <3> QED
      BY <1>2, <1>4, <3>1
  <2> QED
    BY <2>1, <2>2, <2>3
<1> QED
  BY <1>3, <1>4

LEMMA MarksSeenKept ==
    ASSUME BaseInv, MarksSeen, NEW p \in Op, Step(p), Watch(p)
    PROVE  MarksSeen'
<1>1. TypeOK /\ Turn(p) /\ Move(p)
  BY StepMoves DEF BaseInv
<1>2. SUFFICES ASSUME NEW q \in Op, "marks" \notin missed'[q]
               PROVE  /\ pc'[q] = "b_reset" => user'.temp
                      /\ pc'[q] = "c_reset" => ~user'.temp
                      /\ pc'[q] = "c_choose" /\ ~form'[q].temp => ~user'.temp
  BY DEF MarksSeen
<1>3. /\ "marks" \notin missed[q]
      /\ pc[q] = "b_reset" => user.temp
      /\ pc[q] = "c_reset" => ~user.temp
      /\ pc[q] = "c_choose" /\ ~form[q].temp => ~user.temp
  BY <1>1, <1>2, Watched DEF MarksSeen
<1>4. CASE q # p
  <2>1. pc'[q] = pc[q] /\ form'[q] = form[q]
    BY <1>1, <1>4 DEF Turn
  <2>2. pc[q] \in {"c_choose", "c_reset", "b_reset"} => user'.temp = user.temp
    BY <1>1, <1>2, <1>4, Watched
  <2> QED
    BY <1>3, <2>1, <2>2
<1>5. CASE q = p
  <2>1. CASE Starts(p)
    BY <1>1, <1>5, <2>1, StartPlace
  <2>2. CASE Reads(p)
    BY <1>5, <2>2 DEF Reads, Goes, Quiet
  <2>3. CASE Checks(p)
    <3>1. user' = user
      BY <2>3 DEF Checks, Quiet
    <3>2. \/ pc'[p] \in {"t_reread", "t_write", "b_create", "b_read"}
          \/ pc'[p] = "c_reset" /\ ~user.temp
      BY <2>3 DEF Checks, Goes
    <3> QED
      BY <1>5, <3>1, <3>2
  <2>4. CASE Marks(p)
    <3>1. user'.temp = TRUE /\ pc'[p] \in {"b_reset", "done"}
      BY <2>4 DEF Marks, Goes, Ends
    <3> QED
      BY <1>5, <3>1
  <2>5. CASE Submits(p) \/ Rereads(p) \/ Creates(p) \/ Moves(p) \/ Logs(p) \/ Replaces(p)
             \/ Resets(p) \/ Stops(p)
    <3>1. pc'[p] \in {"done", "crashed", "b_read", "t_log", "u_current", "u_write", "b_mark"}
      BY <2>5 DEF Submits, Rereads, Creates, Moves, Logs, Replaces, Resets, Stops, Goes, Ends
    <3> QED
      BY <1>5, <3>1
  <2> QED
    BY <1>1, <2>1, <2>2, <2>3, <2>4, <2>5 DEF Move
<1> QED
  BY <1>4, <1>5

LEMMA ErrorIsFinalKept ==
    ASSUME BaseInv, ErrorIsFinal, NEW p \in Op, Step(p)
    PROVE  ErrorIsFinal'
<1>1. Turn(p) /\ Move(p) /\ pc[p] # "done"
  BY StepMoves, NotEnded DEF BaseInv
<1>2. answer'[p] = answer[p] \/ pc'[p] = "done"
  BY <1>1 DEF Move, Starts, Reads, Checks, Submits, Rereads, Creates, Moves, Logs, Replaces, Resets,
     Marks, Stops, Goes, Ends
<1> QED
  BY <1>1, <1>2 DEF ErrorIsFinal, Turn

\* A password that comes back is in the record of a command that missed its change.
LEMMA PasswordIsLastWrittenKept ==
    ASSUME SecretsInv, NEW p \in Op, Step(p), Watch(p)
    PROVE  PasswordIsLastWritten'
<1>1. TypeOK /\ BaseInv /\ AbsentIsMissing /\ Move(p)
  BY StepMoves DEF SecretsInv, BaseInv
<1>2. SUFFICES ASSUME user'.password # lastPassword'
               PROVE  \E q \in putBack' : "password" \in missed'[q]
  BY DEF PasswordIsLastWritten
<1>3. lastPassword' = lastPassword
  BY <1>1, <1>2, SecretMoves
<1>4. putBack' = IF user'.password = user.password THEN putBack ELSE putBack \cup {p}
  BY <1>1, <1>3, Remembered
<1>5. CASE user'.password = user.password
  <2>1. PICK q \in putBack : "password" \in missed[q]
    BY <1>2, <1>3, <1>5 DEF SecretsInv, PasswordIsLastWritten
  <2>2. q \in Op
    BY <1>1 DEF TypeOK
  <2> QED
    BY <1>1, <1>4, <1>5, <2>1, <2>2, Watched
<1>6. CASE user'.password # user.password
  <2>1. pc[p] \in {"u_write", "b_mark"} /\ current[p].password # user.password
    BY <1>1, <1>2, <1>3, <1>6, SecretMoves DEF Replaces, Marks
  <2>2. "password" \in missed[p]
    BY <2>1 DEF SecretsInv, PasswordSeen
  <2> QED
    BY <1>1, <1>4, <1>6, <2>2, Watched
<1> QED
  BY <1>5, <1>6

\* An update that touches a secret is the one remembered to have.
LEMMA ReplacedBy ==
    ASSUME BaseInv, NEW p \in Op, Replaces(p), Watch(p),
           user'.password # user.password \/ user'.temp # user.temp
    PROVE  marksBy' = {p} /\ job' = job /\ job[p].kind = "update"
<1>1. TypeOK /\ pc[p] = "u_write" /\ job' = job /\ lastPassword' = lastPassword
  BY DEF BaseInv, Replaces, SameJobs
<1>2. job[p].kind = "update"
  BY <1>1 DEF BaseInv, KindFits, UpdatePlaces
<1> QED
  BY <1>1, <1>2, Remembered

\* Who is remembered is still of the same kind.
LEMMA UpdatesStay ==
    ASSUME BaseInv, NEW p \in Op, Move(p), marksBy \cap Updates # {}, marksBy' = marksBy
    PROVE  marksBy' \cap Updates' # {}
<1>1. PICK r \in Op : r \in marksBy /\ job[r].kind = "update"
  BY DEF Updates
<1>2. job'[r] = job[r]
  BY <1>1, KindStays DEF BaseInv
<1>3. r \in Updates'
  BY <1>1, <1>2 DEF Updates
<1> QED
  BY <1>1, <1>3

LEMMA TemporaryIsMarkedKept ==
    ASSUME SecretsInv, NEW p \in Op, Step(p), Watch(p)
    PROVE  TemporaryIsMarked'
<1>1. /\ BaseInv /\ AbsentIsMissing /\ SetByCommand /\ TypeOK /\ Turn(p) /\ Move(p)
      /\ \A q \in Op : missed[q] \subseteq missed'[q]
  BY StepMoves, Watched DEF SecretsInv, BaseInv
<1>2. SUFFICES ASSUME ~user'.temp, NEW x \in Op, x \in user'.password, job'[x].kind = "bootstrap"
               PROVE  "marks" \in missed'[x] \/ marksBy' \cap Updates' # {}
  BY DEF TemporaryIsMarked, Bootstraps
<1>3. CASE Resets(p)
  <2>1. x = p /\ job' = job /\ pc[p] \in {"c_choose", "c_reset", "b_reset"}
    BY <1>1, <1>2, <1>3, ColumnMoves DEF Resets, SameJobs
  <2>2. pc[p] = "b_reset"
    BY <1>1, <1>2, <2>1 DEF BaseInv, KindFits, ChangePlaces
  <2>3. ~user.temp
    BY <1>1, <1>2, <1>3, <2>2, ColumnMoves
  <2> QED
    BY <1>1, <2>1, <2>2, <2>3 DEF SecretsInv, MarksSeen
<1>4. CASE ~Resets(p) /\ user'.password = user.password /\ user'.temp = user.temp
  <2>1. x \in user.password /\ job[x].kind = "bootstrap" /\ ~user.temp
    BY <1>1, <1>2, <1>4, SetByCommandKept
  <2>2. "marks" \in missed[x] \/ marksBy \cap Updates # {}
    BY <2>1 DEF SecretsInv, TemporaryIsMarked, Bootstraps
  <2>3. marksBy' = marksBy
    BY <1>1, <1>4, Remembered
  <2> QED
    BY <1>1, <2>2, <2>3, UpdatesStay
<1>5. CASE ~Resets(p) /\ (user'.password # user.password \/ user'.temp # user.temp)
  <2>1. Replaces(p)
    BY <1>1, <1>2, <1>5, SecretMoves
  <2>2. marksBy' = {p} /\ job' = job /\ job[p].kind = "update"
    BY <1>1, <1>5, <2>1, ReplacedBy
  <2>3. p \in Updates'
    BY <2>2 DEF Updates
  <2> QED
    BY <2>2, <2>3
<1> QED
  BY <1>3, <1>4, <1>5

LEMMA PermanentIsUnmarkedKept ==
    ASSUME SecretsInv, NEW p \in Op, Step(p), Watch(p)
    PROVE  PermanentIsUnmarked'
<1>1. /\ BaseInv /\ AbsentIsMissing /\ SetByCommand /\ TypeOK /\ Turn(p) /\ Move(p)
      /\ pc[p] \notin {"done", "crashed"} /\ \A q \in Op : missed[q] \subseteq missed'[q]
  BY StepMoves, NotEnded, Watched DEF SecretsInv, BaseInv
<1> DEFINE Excuses(q) ==
        /\ q \in marksBy' /\ job'[q].kind = "bootstrap"
        /\ pc'[q] \in {"b_reset", "crashed"} \/ answer'[q] = "error"
<1>2. SUFFICES ASSUME user'.temp, NEW x \in Op, x \in user'.password, job'[x].kind = "change"
               PROVE  \/ "marks" \in missed'[x]
                      \/ marksBy' \cap Updates' # {}
                      \/ \E q \in Op : Excuses(q)
  BY DEF PermanentIsUnmarked, Changes, Bootstraps
<1>3. CASE Resets(p)
  <2>1. x = p /\ job' = job /\ pc[p] \in {"c_choose", "c_reset", "b_reset"}
    <3>1. user'.password = {p} /\ job' = job
      BY <1>1, <1>3, ColumnMoves DEF Resets, SameJobs
    <3>2. pc[p] \in {"c_choose", "c_reset", "b_reset"}
      BY <1>3 DEF Resets
    <3> QED
      BY <1>2, <3>1, <3>2
  <2>2. pc[p] # "b_reset"
    BY <1>1, <1>2, <2>1 DEF BaseInv, KindFits, BootstrapPlaces
  <2>3. user.temp /\ (pc[p] = "c_reset" \/ (pc[p] = "c_choose" /\ ~form[p].temp))
    BY <1>1, <1>2, <1>3, <2>2, ColumnMoves
  <2> QED
    BY <1>1, <2>1, <2>3 DEF SecretsInv, MarksSeen
<1>4. CASE ~Resets(p) /\ user'.password = user.password /\ user'.temp = user.temp
  <2>1. x \in user.password /\ job[x].kind = "change" /\ user.temp
    BY <1>1, <1>2, <1>4, SetByCommandKept
  <2>2. marksBy' = marksBy
    BY <1>1, <1>4, Remembered
  <2>3. \/ "marks" \in missed[x]
        \/ marksBy \cap Updates # {}
        \/ \E q \in Op : /\ q \in marksBy /\ job[q].kind = "bootstrap"
                         /\ pc[q] \in {"b_reset", "crashed"} \/ answer[q] = "error"
    BY <2>1 DEF SecretsInv, PermanentIsUnmarked, Changes, Bootstraps
  <2>4. ASSUME NEW q \in Op, q \in marksBy, job[q].kind = "bootstrap",
               pc[q] \in {"b_reset", "crashed"} \/ answer[q] = "error"
        PROVE  Excuses(q)
    <3>1. job'[q] = job[q]
      BY <1>1, <2>4, KindStays DEF BaseInv
    <3>2. CASE q # p
      BY <1>1, <2>2, <2>4, <3>1, <3>2 DEF Turn
    <3>3. CASE q = p
      <4>1. pc[p] = "b_reset"
        BY <1>1, <2>4, <3>3 DEF SecretsInv, ErrorIsFinal
      <4>2. Stops(p)
        BY <1>1, <1>4, <4>1 DEF Move, Starts, Reads, Checks, Submits, Rereads, Creates, Moves, Logs,
           Replaces, Marks
      <4>3. pc'[p] = "crashed" \/ answer'[p] = "error"
        BY <4>1, <4>2 DEF Stops, Goes, Ends
      <4> QED
        BY <2>2, <2>4, <3>1, <3>3, <4>3
    <3> QED
      BY <3>2, <3>3
  <2> QED
    BY <1>1, <2>2, <2>3, <2>4, UpdatesStay
<1>5. CASE ~Resets(p) /\ (user'.password # user.password \/ user'.temp # user.temp)
  <2>1. Replaces(p) \/ Marks(p)
    BY <1>1, <1>2, <1>5, SecretMoves
  <2>2. CASE Replaces(p)
    <3>1. marksBy' = {p} /\ job' = job /\ job[p].kind = "update"
      BY <1>1, <1>5, <2>2, ReplacedBy
    <3>2. p \in Updates'
      BY <3>1 DEF Updates
    <3> QED
      BY <3>1, <3>2
  <2>3. CASE Marks(p)
    <3>1. /\ pc[p] = "b_mark" /\ job' = job /\ lastPassword' = lastPassword
          /\ pc'[p] = "b_reset" \/ answer'[p] = "error"
      BY <2>3 DEF Marks, SameJobs, Goes, Ends
    <3>2. job[p].kind = "bootstrap"
      BY <1>1, <3>1 DEF BaseInv, KindFits, BootstrapPlaces
    <3>3. marksBy' = {p}
      BY <1>1, <1>5, <3>1, Remembered
    <3>4. Excuses(p)
      BY <3>1, <3>2, <3>3
    <3> QED
      BY <3>4
  <2> QED
    BY <2>1, <2>2, <2>3
<1> QED
  BY <1>3, <1>4, <1>5

-----------------------------------------------------------------------------
(* The invariants and what follows *)

LEMMA Initially == Init => StatusInv /\ SecretsInv
<1> SUFFICES ASSUME Init PROVE StatusInv /\ SecretsInv
  OBVIOUS
<1>1. /\ user \in User /\ user.password = {}
      /\ user.status = "absent" => user = Missing
  <2>1. CASE user = Missing
    BY <2>1, RecordTypes DEF Missing
  <2>2. CASE user \in {[status |-> s, temp |-> t, password |-> {}] :
                           s \in {"pending", "active"}, t \in BOOLEAN}
    <3>1. PICK s \in {"pending", "active"}, t \in BOOLEAN :
             user = [status |-> s, temp |-> t, password |-> {}]
      BY <2>2
    <3>2. s \in Lifecycle /\ s # "absent"
      BY DEF Lifecycle
    <3> QED
      BY <3>1, <3>2 DEF User
  <2> QED
    BY <2>1, <2>2 DEF Init
<1>2. Missing \in User /\ Missing.password = {} /\ Nothing \in (Lifecycle \cup {"absent"}) \X (Lifecycle \cup {"absent"})
  BY RecordTypes DEF Nothing, Missing
<1>3. \A p \in Op : /\ pc[p] = "idle" /\ job[p] = [kind |-> "none", target |-> "active"]
                    /\ answer[p] = "none" /\ logged[p] = Nothing
                    /\ form[p] = Missing /\ current[p] = Missing
  BY DEF Init
<1>4. TypeOK
  <2>1. /\ form \in [Op -> User \cup [status : {""}, temp : BOOLEAN, password : {{}}]]
        /\ current \in [Op -> User]
    BY <1>2 DEF Init
  <2>2. /\ moved \in [Op -> (Lifecycle \cup {"absent"}) \X (Lifecycle \cup {"absent"})]
        /\ logged \in [Op -> (Lifecycle \cup {"absent"}) \X (Lifecycle \cup {"absent"})]
    BY <1>2 DEF Init
  <2>3. missed \in [Op -> SUBSET {"password", "marks", "status", "first"}]
    BY DEF Init
  <2>4. job \in [Op -> [kind : Kinds \cup {"none"}, target : Targets \cup {"active"}]]
    BY DEF Init
  <2>5. pc \in [Op -> Places] /\ answer \in [Op -> Answers]
    BY DEF Init, Places, Answers
  <2>6. /\ hasClear \in BOOLEAN /\ lastPassword \in SUBSET Op
        /\ putBack \in SUBSET Op /\ marksBy \in SUBSET Op
    BY DEF Init
  <2> QED
    BY <1>1, <2>1, <2>2, <2>3, <2>4, <2>5, <2>6 DEF TypeOK, Places, Answers
<1>5. BaseInv
  BY <1>2, <1>3, <1>4 DEF BaseInv, KindFits, Present, TransitionPlaces, UpdatePlaces,
     ChangePlaces, BootstrapPlaces
<1>6. StatusSeen /\ FirstSeen /\ Reportable /\ LogNamesRealChange
  BY <1>3 DEF StatusSeen, FirstSeen, Reportable, LogNamesRealChange
<1>7. AbsentIsMissing /\ SetByCommand /\ PasswordSeen /\ MarksSeen /\ ErrorIsFinal
  BY <1>1, <1>2, <1>3 DEF AbsentIsMissing, SetByCommand, PasswordSeen, MarksSeen, ErrorIsFinal
<1>8. PasswordIsLastWritten /\ TemporaryIsMarked /\ PermanentIsUnmarked
  BY <1>1 DEF Init, PasswordIsLastWritten, TemporaryIsMarked, PermanentIsUnmarked
<1> QED
  BY <1>5, <1>6, <1>7, <1>8 DEF StatusInv, SecretsInv

LEMMA BaseStutters ==
    ASSUME BaseInv, UNCHANGED vars
    PROVE  BaseInv'
<1>1. TypeOK'
  BY DEF BaseInv, TypeOK, vars
<1>2. KindFits' /\ Present'
  BY DEF BaseInv, KindFits, Present, vars
<1> QED
  BY <1>1, <1>2 DEF BaseInv

LEMMA BaseInductive ==
    ASSUME BaseInv, [Next]_vars
    PROVE  BaseInv'
<1>1. CASE Next
  BY <1>1, BaseKept DEF Next
<1>2. CASE UNCHANGED vars
  BY <1>2, BaseStutters
<1> QED
  BY <1>1, <1>2

LEMMA StatusInductive ==
    ASSUME StatusInv, [Next]_vars
    PROVE  StatusInv'
<1>1. CASE Next
  <2>1. PICK p \in Op : Step(p) /\ Watch(p)
    BY <1>1 DEF Next
  <2> QED
    BY <2>1, BaseKept, StatusSeenKept, FirstSeenKept, ReportableKept DEF StatusInv
<1>2. CASE UNCHANGED vars
  <2>1. BaseInv' /\ (\A status : Allowed(status)' = Allowed(status)) /\ Nothing' = Nothing
    BY <1>2, BaseStutters DEF StatusInv, Allowed, Nothing
  <2>2. StatusSeen' /\ FirstSeen' /\ Reportable' /\ LogNamesRealChange'
    BY <1>2, <2>1 DEF StatusInv, StatusSeen, FirstSeen, Reportable, LogNamesRealChange, vars
  <2> QED
    BY <2>1, <2>2 DEF StatusInv
<1> QED
  BY <1>1, <1>2

LEMMA SecretsInductive ==
    ASSUME SecretsInv, [Next]_vars
    PROVE  SecretsInv'
<1>1. CASE Next
  <2>1. PICK p \in Op : Step(p) /\ Watch(p)
    BY <1>1 DEF Next
  <2>2. BaseInv' /\ AbsentIsMissing' /\ SetByCommand'
    BY <2>1, BaseKept, AbsentIsMissingKept, SetByCommandKept DEF SecretsInv
  <2>3. PasswordSeen' /\ MarksSeen' /\ ErrorIsFinal'
    BY <2>1, PasswordSeenKept, MarksSeenKept, ErrorIsFinalKept DEF SecretsInv
  <2>4. PasswordIsLastWritten' /\ TemporaryIsMarked' /\ PermanentIsUnmarked'
    BY <2>1, PasswordIsLastWrittenKept, TemporaryIsMarkedKept, PermanentIsUnmarkedKept
  <2> QED
    BY <2>2, <2>3, <2>4 DEF SecretsInv
<1>2. CASE UNCHANGED vars
  <2>1. BaseInv'
    BY <1>2, BaseStutters DEF SecretsInv
  <2>2. AbsentIsMissing' /\ SetByCommand' /\ PasswordSeen' /\ MarksSeen' /\ ErrorIsFinal'
    BY <1>2 DEF SecretsInv, AbsentIsMissing, SetByCommand, PasswordSeen, MarksSeen, ErrorIsFinal, vars
  <2>3. PasswordIsLastWritten' /\ TemporaryIsMarked' /\ PermanentIsUnmarked'
    BY <1>2 DEF SecretsInv, PasswordIsLastWritten, TemporaryIsMarked, PermanentIsUnmarked, Changes,
       Bootstraps, Updates, vars
  <2> QED
    BY <2>1, <2>2, <2>3 DEF SecretsInv
<1> QED
  BY <1>1, <1>2

\* Every variable keeps its shape, whatever commands overlap.
THEOREM TypeCorrect == Spec => []TypeOK
<1>1. Init => BaseInv
  BY Initially DEF StatusInv
<1>2. BaseInv /\ [Next]_vars => BaseInv'
  BY BaseInductive
<1>3. BaseInv => TypeOK
  BY DEF BaseInv
<1> QED
  BY <1>1, <1>2, <1>3, PTL DEF Spec

LEMMA StatusInvariant == Spec => []StatusInv
<1>1. Init => StatusInv
  BY Initially
<1>2. StatusInv /\ [Next]_vars => StatusInv'
  BY StatusInductive
<1> QED
  BY <1>1, <1>2, PTL DEF Spec

LEMMA SecretsInvariant == Spec => []SecretsInv
<1>1. Init => SecretsInv
  BY Initially
<1>2. SecretsInv /\ [Next]_vars => SecretsInv'
  BY SecretsInductive
<1> QED
  BY <1>1, <1>2, PTL DEF Spec

\* A lifecycle event names an allowed change to the status the transition wrote.  Its
\* from_state was read before the adapter and the state machine read again: it is the
\* real one unless another command changed the status in between.
THEOREM LogNamesRealChangeHolds == Spec => []LogNamesRealChange
<1>1. StatusInv => LogNamesRealChange
  BY DEF StatusInv
<1> QED
  BY <1>1, StatusInvariant, PTL

\* Transitions and updates ask the policy before they write the status, and a bootstrap
\* writes back the one it read: the stored status leaves the edges of the policy only
\* with a command that missed another one's change of the status.
THEOREM StatusFollowsPolicyHolds == Spec => StatusFollowsPolicy
<1> DEFINE Follows == user.status \notin {"absent", user'.status}
                         => \/ user'.status \in Allowed(user.status)
                            \/ \E p \in Op : pc'[p] # pc[p] /\ "status" \in missed[p]
<1>1. ASSUME StatusInv, [Next]_vars PROVE [Follows]_vars
  <2>1. CASE UNCHANGED vars
    BY <2>1
  <2>2. CASE Next
    <3>1. PICK p \in Op : Step(p) /\ Watch(p)
      BY <2>2 DEF Next
    <3>2. TypeOK /\ Move(p)
      BY <1>1, <3>1, StepMoves DEF StatusInv, BaseInv
    <3>3. SUFFICES ASSUME user.status # "absent", user'.status # user.status
                   PROVE  \/ user'.status \in Allowed(user.status)
                          \/ pc'[p] # pc[p] /\ "status" \in missed[p]
      OBVIOUS
    <3>4. CASE Moves(p) /\ user'.status = job[p].target
      <4>1. pc[p] = "t_write" /\ pc'[p] \in {"t_log", "done"}
        BY <3>4 DEF Moves, Goes, Ends
      <4> QED
        BY <1>1, <3>4, <4>1 DEF StatusInv, StatusSeen
    <3>5. CASE (Replaces(p) \/ Marks(p)) /\ user'.status = form[p].status
      <4>1. /\ pc[p] \in {"u_write", "b_mark"} /\ pc'[p] \in {"b_reset", "done"}
            /\ user'.status # ""
        <5>1. user' \in User
          BY <1>1, <3>2, UserMoves DEF StatusInv, BaseInv
        <5>2. user'.status # ""
          BY <5>1 DEF User, Lifecycle
        <5> QED
          BY <3>5, <5>2 DEF Replaces, Marks, Goes, Ends
      <4>2. \/ "status" \in missed[p]
            \/ form[p].status \in Allowed(user.status) \cup {user.status, ""}
        BY <1>1, <4>1 DEF StatusInv, StatusSeen
      <4> QED
        BY <3>3, <3>5, <4>1, <4>2
    <3> QED
      BY <3>2, <3>3, <3>4, <3>5, StatusMoves
  <2> QED
    BY <1>1, <2>1, <2>2
<1> QED
  BY <1>1, StatusInvariant, PTL DEF Spec, StatusFollowsPolicy

\* The adapter writes the whole record with the password it read just before: an older
\* password comes back only if one was set between this read and this write.
THEOREM PasswordIsLastWrittenHolds == Spec => []PasswordIsLastWritten
<1>1. SecretsInv => PasswordIsLastWritten
  BY DEF SecretsInv
<1> QED
  BY <1>1, SecretsInvariant, PTL

\* A bootstrap marks the record before it sets the password: a temporary password stands
\* unmarked only if the markers were taken away between the two, or by an update since,
\* even when bootstraps fail or die half way.
THEOREM TemporaryIsMarkedHolds == Spec => []TemporaryIsMarked
<1>1. SecretsInv => TemporaryIsMarked
  BY DEF SecretsInv
<1> QED
  BY <1>1, SecretsInvariant, PTL

\* A password change clears the markers it found: they stand beside its password only if
\* they came after its look, from an update, or from a bootstrap under way or cut short.
THEOREM PermanentIsUnmarkedHolds == Spec => []PermanentIsUnmarked
<1>1. SecretsInv => PermanentIsUnmarked
  BY DEF SecretsInv
<1> QED
  BY <1>1, SecretsInvariant, PTL
=============================================================================
