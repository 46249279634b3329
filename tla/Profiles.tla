------------------------------- MODULE Profiles -------------------------------
(* The profile row of one user (profile/bun_repository.go) under the patches  *)
(* of command/profile_upsert.go: read, patch, look the row up again, write the *)
(* whole row, fire the hook.  The row is looked up by user and scope, its key  *)
(* is the user alone (00005_profiles_preferences.up.sql).  Nothing orders the  *)
(* patches of one user.                                                         *)
EXTENDS Naturals, Sequences, FiniteSets

CONSTANTS
    Op,         \* patches and queries, each runs once and by an actor of its own
    Tenant, Org,
    Field,      \* display name, avatar, bio, contact, ...: patched alike
    Faults      \* which of "error", "lost_reply", "crash" may happen

ASSUME ProfileAssumption == Faults \subseteq {"error", "lost_reply", "crash"}

VARIABLES
    row,        \* the user's row in user_profiles
    job, pc,
    copy,       \* per op: the profile it read, then patched, then stored
    answer,
    writes,     \* history: the patches in the order they were stored
    effect,     \* history: per op, how its statement ran and what it made of the values
    base        \* history: per op, how many were stored when it first read

vars == <<row, job, pc, copy, answer, writes, effect, base>>

-----------------------------------------------------------------------------
\* {} is a nil id or an empty value; a value is named after the patch that set it.
Id(S) == {{}} \cup {{x} : x \in S}
Scope == [tenant : Id(Tenant), org : Id(Org)]
Profile == [exists : BOOLEAN, scope : Scope, value : [Field -> Id(Op)],
            createdBy : Id(Op), updatedBy : Id(Op)]
NoScope == [tenant |-> {}, org |-> {}]
NoProfile == [exists |-> FALSE, scope |-> NoScope, value |-> [f \in Field |-> {}],
              createdBy |-> {}, updatedBy |-> {}]
\* The guard has resolved the scope.  A patch sets some fields and clears others,
\* with an empty string or map; it may name none.  A query carries no patch.
Jobs == {j \in [action : {"patch", "query"}, scope : Scope,
               sets : SUBSET Field, clears : SUBSET Field] :
            /\ j.sets \cap j.clears = {}
            /\ j.action = "query" => j.sets = {} /\ j.clears = {}}
Named(p) == job[p].sets \cup job[p].clears
\* What patch p has a field it names become.
Meant(p, f) == IF f \in job[p].sets THEN {p} ELSE {}

\* kept: the store left a value alone where the record to be written had none.
Values == [Field -> Id(Op)]
Effect == [kept : BOOLEAN, before : Values, after : Values]
NoEffect == [kept |-> FALSE, before |-> NoProfile.value, after |-> NoProfile.value]

InFlight(p) == pc[p] \notin {"idle", "done", "crashed"}
Goto(p, place) == pc' = [pc EXCEPT ![p] = place]
Reply(p, what) ==
    /\ Goto(p, "done")
    /\ answer' = [answer EXCEPT ![p] = what]
    /\ copy' = [copy EXCEPT ![p] = NoProfile]

\* Bug: a row is found only under exactly the scope that is asked for.
ScopeCriteriaExact(scope) == row.exists /\ row.scope = scope

\* A nil tenant or organisation does not filter.
ScopeCriteria(scope) ==
    /\ row.exists
    /\ scope.tenant \in {{}, row.scope.tenant}
    /\ scope.org \in {{}, row.scope.org}

\* Bug: the fields that are not patched start out empty.
ApplyProfilePatchFresh(p, profile) ==
    [profile EXCEPT !.value = [f \in Field |-> IF f \in job[p].sets THEN {p} ELSE {}]]

\* Bug: an empty field of the patch is taken for one that is not there.
ApplyProfilePatchSetOnly(p, profile) ==
    [profile EXCEPT !.value = [f \in Field |-> IF f \in job[p].sets THEN {p} ELSE @[f]]]

ApplyProfilePatch(p, profile) ==
    [profile EXCEPT !.value = [f \in Field |-> IF f \in Named(p) THEN Meant(p, f) ELSE @[f]]]

NewProfile(p) ==
    [NoProfile EXCEPT !.exists = TRUE, !.scope = job[p].scope, !.createdBy = {p}]

Existing(p) == row

-----------------------------------------------------------------------------
Init ==
    /\ row = NoProfile
    /\ job \in [Op -> Jobs]
    /\ pc = [p \in Op |-> "idle"]
    /\ copy = [p \in Op |-> NoProfile]
    /\ answer = [p \in Op |-> "none"]
    /\ writes = <<>>
    /\ effect = [p \in Op |-> NoEffect]
    /\ base = [p \in Op |-> 0]

Start(p) ==
    /\ pc[p] = "idle"
    /\ Goto(p, IF job[p].action = "query" THEN "query" ELSE "read")
    /\ UNCHANGED <<row, job, copy, answer, writes, effect, base>>

\* The patched copy keeps the scope and the creator of a profile that was found.
GetProfile(p) ==
    /\ pc[p] = "read"
    /\ LET found == ScopeCriteria(job[p].scope)
           profile == IF found THEN Existing(p) ELSE NewProfile(p)
       IN copy' = [copy EXCEPT ![p] =
                      ApplyProfilePatch(p, [profile EXCEPT !.updatedBy = {p}])]
    /\ base' = [base EXCEPT ![p] = Len(writes)]
    /\ Goto(p, "find")
    /\ UNCHANGED <<row, job, answer, writes, effect>>

\* UpsertProfile looks again, now in the scope of the copy.
FindExisting(p) ==
    /\ pc[p] = "find"
    /\ Goto(p, IF ScopeCriteria(copy[p].scope) THEN "update" ELSE "create")
    /\ UNCHANGED <<row, job, copy, answer, writes, effect, base>>

\* The statement took effect; its reply may be lost.
Stored(p, new, keep) ==
    /\ row' = new
    /\ writes' = Append(writes, p)
    /\ effect' = [effect EXCEPT ![p] = [kept |-> keep, before |-> row.value, after |-> new.value]]
    /\ \/ Goto(p, "emit") /\ copy' = [copy EXCEPT ![p] = new] /\ UNCHANGED answer
       \/ "lost_reply" \in Faults /\ Reply(p, "error")

\* Whether an empty field of the copy is written over a stored value is the
\* store's choice.
Written(mine, keep) ==
    LET over(new, old) == IF keep /\ new = {} THEN old ELSE new IN
    [mine EXCEPT
        !.value = [f \in Field |-> over(@[f], row.value[f])],
        !.scope = [tenant |-> over(@.tenant, row.scope.tenant),
                   org |-> over(@.org, row.scope.org)]]

UpdateProfile(p) ==
    /\ pc[p] = "update"
    /\ \E keep \in BOOLEAN : Stored(p, Written(copy[p], keep), keep)
    /\ UNCHANGED <<job, base>>

CreateProfile(p) ==
    /\ pc[p] = "create"
    /\ \/ ~row.exists /\ Stored(p, copy[p], FALSE)
       \/ row.exists /\ Reply(p, "refused") /\ UNCHANGED <<row, writes, effect>>
    /\ UNCHANGED <<job, base>>

\* A listener may read, but keeps nothing of its own here.
EmitProfileHook(p) ==
    /\ pc[p] = "emit"
    /\ Reply(p, "ok")
    /\ UNCHANGED <<row, job, writes, effect, base>>

Query(p) ==
    /\ pc[p] = "query"
    /\ Reply(p, IF ScopeCriteria(job[p].scope) THEN "ok" ELSE "none")
    /\ UNCHANGED <<row, job, writes, effect, base>>

Fail(p) ==
    /\ pc[p] \in {"read", "find", "update", "create", "query"}
    /\ "error" \in Faults
    /\ Reply(p, "error")
    /\ UNCHANGED <<row, job, writes, effect, base>>

Crash(p) ==
    /\ InFlight(p)
    /\ "crash" \in Faults
    /\ Goto(p, "crashed")
    /\ UNCHANGED <<row, job, copy, answer, writes, effect, base>>

Next ==
    \E p \in Op :
        \/ Start(p) \/ GetProfile(p) \/ FindExisting(p) \/ UpdateProfile(p)
        \/ CreateProfile(p) \/ EmitProfileHook(p) \/ Query(p) \/ Fail(p) \/ Crash(p)

Spec == Init /\ [][Next]_vars

-----------------------------------------------------------------------------
(* Properties *)

\* Every variable keeps its shape; a stored profile names its creator and its
\* last writer.
TypeOK ==
    /\ row \in Profile
    /\ row.exists => row.createdBy # {} /\ row.updatedBy # {}
    /\ job \in [Op -> Jobs]
    /\ pc \in [Op -> {"idle", "read", "find", "update", "create", "emit", "query",
                      "done", "crashed"}]
    /\ copy \in [Op -> Profile]
    /\ answer \in [Op -> {"none", "ok", "error", "refused"}]
    /\ writes \in Seq(Op)
    /\ effect \in [Op -> Effect]
    /\ base \in [Op -> 0 .. Len(writes)]

\* A stored patch sets and clears what it names, unless the store keeps a value
\* that is to be cleared: then that one is as it was.  What it made of the fields it
\* names stays until a later patch names the field, or one that had read the profile
\* before it writes its copy back.
PatchLostOnlyToOverlap ==
    \A i \in DOMAIN writes : \A f \in Named(writes[i]) :
        LET did == effect[writes[i]] IN
        /\ did.after[f] = IF did.kept /\ f \in job[writes[i]].clears
                             THEN did.before[f] ELSE Meant(writes[i], f)
        /\ \/ row.value[f] = did.after[f]
           \/ \E j \in i + 1 .. Len(writes) :
                  f \in Named(writes[j]) \/ base[writes[j]] < i

\* A patch is refused by the key only for a profile of another tenant or
\* organisation than it asked for, or for one stored since it first looked.
RefusedMeansTaken ==
    [][\A p \in Op : answer[p] # "refused" /\ answer'[p] = "refused" =>
          /\ row.exists
          /\ \/ base[p] < Len(writes)
             \/ job[p].scope.tenant # {} /\ job[p].scope.tenant # row.scope.tenant
             \/ job[p].scope.org # {} /\ job[p].scope.org # row.scope.org]_vars
=============================================================================
