---------------------- MODULE ProfilesPreferencesProofs ----------------------
(* Proofs about Profiles and about Preferences, which do not interact, for     *)
(* every set of operations and calls, tenants, organisations, fields, levels   *)
(* and keys, and every combination of faults.                                  *)
EXTENDS Profiles, Preferences, FiniteSetTheorems, SequenceTheorems, TLAPS

-----------------------------------------------------------------------------
(* Profiles: types *)

Places == {"idle", "read", "find", "update", "create", "emit", "query", "done", "crashed"}
Answers == {"none", "ok", "error", "refused"}

\* A patch is under way: its copy is patched and not stored yet.
Holds(p) == pc[p] \in {"find", "update", "create"}

\* A profile that may be stored.
Signed(profile) == profile.exists /\ profile.createdBy # {} /\ profile.updatedBy # {}

TypeInv ==
    /\ TypeOK
    /\ \A p \in Op : Holds(p) => Signed(copy[p]) /\ \A f \in Named(p) : copy[p].value[f] = Meant(p, f)

LEMMA NoProfileType == NoProfile \in Profile /\ ~NoProfile.exists
  BY DEF NoProfile, Profile, NoScope, Scope, Id

LEMMA IdType ==
    ASSUME NEW S, NEW x \in S
    PROVE  {x} \in Id(S) /\ {x} # {} /\ {} \in Id(S)
  BY DEF Id

LEMMA JobType ==
    ASSUME TypeOK, NEW p \in Op
    PROVE  /\ job[p].scope \in Scope /\ Named(p) \subseteq Field
           /\ job[p].action \in {"patch", "query"}
  BY DEF TypeOK, Jobs, Named

\* One step of one operation.
Step(p) ==
    \/ Start(p) \/ GetProfile(p) \/ FindExisting(p) \/ UpdateProfile(p)
    \/ CreateProfile(p) \/ EmitProfileHook(p) \/ Query(p) \/ Fail(p) \/ Crash(p)

LEMMA NextIsStep == Next <=> \E p \in Op : Step(p)
  BY DEF Next, Step

-----------------------------------------------------------------------------
(* What a step is: it reads, looks again, stores, or keeps row and history *)

Reads(p) ==
    /\ pc[p] = "read" /\ pc' = [pc EXCEPT ![p] = "find"]
    /\ \E profile \in Profile :
          /\ profile = IF ScopeCriteria(job[p].scope) THEN row ELSE NewProfile(p)
          /\ copy' = [copy EXCEPT ![p] = ApplyProfilePatch(p, [profile EXCEPT !.updatedBy = {p}])]
    /\ base' = [base EXCEPT ![p] = Len(writes)]
    /\ UNCHANGED <<row, writes, effect, answer>>

Finds(p) ==
    /\ pc[p] = "find"
    /\ pc' = [pc EXCEPT ![p] = IF ScopeCriteria(copy[p].scope) THEN "update" ELSE "create"]
    /\ UNCHANGED <<row, copy, writes, effect, base, answer>>

\* The row that request p stores over the one that is there, if any.
Stores(p) ==
    /\ \E keep \in BOOLEAN :
          /\ \/ pc[p] = "update" /\ row' = Written(copy[p], keep)
             \/ pc[p] = "create" /\ ~row.exists /\ row' = copy[p] /\ ~keep
          /\ effect' = [effect EXCEPT ![p] =
                            [kept |-> keep, before |-> row.value, after |-> row'.value]]
    /\ writes' = Append(writes, p) /\ UNCHANGED base
    /\ \/ /\ pc' = [pc EXCEPT ![p] = "emit"]
          /\ copy' = [copy EXCEPT ![p] = row'] /\ UNCHANGED answer
       \/ /\ pc' = [pc EXCEPT ![p] = "done"]
          /\ copy' = [copy EXCEPT ![p] = NoProfile] /\ answer' = [answer EXCEPT ![p] = "error"]

Refuses(p) ==
    /\ pc[p] = "create" /\ row.exists
    /\ pc' = [pc EXCEPT ![p] = "done"] /\ answer' = [answer EXCEPT ![p] = "refused"]
    /\ copy' = [copy EXCEPT ![p] = NoProfile]
    /\ UNCHANGED <<row, writes, effect, base>>

Rests(p) ==
    /\ UNCHANGED <<row, writes, effect, base>>
    /\ \E place \in Places \ {"find", "update", "create", "emit"} : pc' = [pc EXCEPT ![p] = place]
    /\ pc'[p] = "read" => pc[p] = "idle"
    /\ pc[p] \in {"emit", "done", "crashed"} => pc'[p] \in {"emit", "done", "crashed"}
    /\ \/ UNCHANGED <<copy, answer>>
       \/ /\ copy' = [copy EXCEPT ![p] = NoProfile]
          /\ \E what \in {"ok", "error", "none"} : answer' = [answer EXCEPT ![p] = what]

LEMMA NewProfileType ==
    ASSUME TypeOK, NEW p \in Op
    PROVE  /\ NewProfile(p) \in Profile /\ NewProfile(p).exists
           /\ NewProfile(p).createdBy # {} /\ NewProfile(p).scope = job[p].scope
  BY JobType, IdType, NoProfileType DEF NewProfile, NoProfile, Profile

LEMMA StepMoves ==
    ASSUME TypeOK, NEW p \in Op, Step(p)
    PROVE  /\ UNCHANGED job
           /\ Reads(p) \/ Finds(p) \/ Stores(p) \/ Refuses(p) \/ Rests(p)
<1>1. /\ pc \in [Op -> Places] /\ row \in Profile
      /\ {"ok", "error", "none"} \subseteq Answers
  BY DEF TypeOK, Places, Answers
<1>2. UNCHANGED job
  BY DEF Step, Start, GetProfile, FindExisting, UpdateProfile, CreateProfile, EmitProfileHook,
     Query, Fail, Crash
<1>3. CASE Start(p)
  BY <1>1, <1>2, <1>3 DEF Start, Goto, Rests, Places
<1>4. CASE GetProfile(p)
  <2>1. (IF ScopeCriteria(job[p].scope) THEN row ELSE NewProfile(p)) \in Profile
    BY <1>1, NewProfileType
  <2> QED
    BY <1>2, <1>4, <2>1 DEF GetProfile, Goto, Reads, Existing
<1>5. CASE FindExisting(p)
  BY <1>2, <1>5 DEF FindExisting, Goto, Finds
<1>6. \A new : \A keep \in BOOLEAN : Stored(p, new, keep) =>
          /\ row' = new /\ writes' = Append(writes, p)
          /\ effect' = [effect EXCEPT ![p] =
                           [kept |-> keep, before |-> row.value, after |-> row'.value]]
          /\ \/ /\ pc' = [pc EXCEPT ![p] = "emit"]
                /\ copy' = [copy EXCEPT ![p] = row'] /\ UNCHANGED answer
             \/ /\ pc' = [pc EXCEPT ![p] = "done"]
                /\ copy' = [copy EXCEPT ![p] = NoProfile] /\ answer' = [answer EXCEPT ![p] = "error"]
  BY DEF Stored, Goto, Reply
<1>7. CASE UpdateProfile(p)
  <2>1. PICK keep \in BOOLEAN : Stored(p, Written(copy[p], keep), keep)
    BY <1>7 DEF UpdateProfile
  <2>2. pc[p] = "update" /\ UNCHANGED base
    BY <1>7 DEF UpdateProfile
  <2> QED
    BY <1>2, <1>6, <2>1, <2>2 DEF Stores
<1>8. CASE CreateProfile(p)
  <2>1. pc[p] = "create" /\ UNCHANGED base
    BY <1>8 DEF CreateProfile
  <2>2. CASE ~row.exists /\ Stored(p, copy[p], FALSE)
    <3>1. FALSE \in BOOLEAN
      OBVIOUS
    <3> QED
      BY <1>2, <1>6, <2>1, <2>2, <3>1 DEF Stores
  <2>3. CASE row.exists /\ Reply(p, "refused") /\ UNCHANGED <<row, writes, effect>>
    BY <1>2, <2>1, <2>3 DEF Refuses, Reply, Goto
  <2> QED
    BY <1>8, <2>2, <2>3 DEF CreateProfile
<1>9. "done" \in Places \ {"find", "update", "create", "emit"}
      /\ "crashed" \in Places \ {"find", "update", "create", "emit"}
  BY DEF Places
<1>10. \A what \in {"ok", "error", "none"} : 
          Reply(p, what) /\ UNCHANGED <<row, writes, effect, base>> => Rests(p)
  BY <1>1, <1>9 DEF Reply, Goto, Rests
<1>11. CASE EmitProfileHook(p) \/ Query(p) \/ Fail(p)
  BY <1>2, <1>10, <1>11 DEF EmitProfileHook, Query, Fail
<1>12. CASE Crash(p)
  BY <1>1, <1>2, <1>9, <1>12 DEF Crash, Goto, Rests
<1> QED
  BY <1>3, <1>4, <1>5, <1>7, <1>8, <1>11, <1>12 DEF Step

-----------------------------------------------------------------------------
(* Types are kept *)

\* A patched profile is one, it is signed, and it carries the patch.
LEMMA PatchType ==
    ASSUME TypeOK, NEW p \in Op, NEW profile \in Profile, profile.exists, profile.createdBy # {}
    PROVE  LET patched == ApplyProfilePatch(p, [profile EXCEPT !.updatedBy = {p}]) IN
           /\ patched \in Profile /\ Signed(patched) /\ patched.scope = profile.scope
           /\ \A f \in Field : patched.value[f] =
                  IF f \in Named(p) THEN Meant(p, f) ELSE profile.value[f]
<1> DEFINE value == [f \in Field |-> IF f \in Named(p) THEN Meant(p, f) ELSE profile.value[f]]
<1>1. value \in [Field -> Id(Op)]
  BY IdType DEF Profile, Meant, Id
<1>2. ApplyProfilePatch(p, [profile EXCEPT !.updatedBy = {p}])
        = [profile EXCEPT !.updatedBy = {p}, !.value = value]
  BY DEF ApplyProfilePatch, Profile
<1> HIDE DEF value
<1>3. [profile EXCEPT !.updatedBy = {p}, !.value = value] \in Profile
  BY <1>1, IdType DEF Profile
<1> DEFINE patched == [profile EXCEPT !.updatedBy = {p}, !.value = value]
<1>4. /\ patched.exists = profile.exists /\ patched.createdBy = profile.createdBy
      /\ patched.updatedBy = {p} /\ patched.scope = profile.scope /\ patched.value = value
  BY DEF Profile
<1>5. \A f \in Field : value[f] = IF f \in Named(p) THEN Meant(p, f) ELSE profile.value[f]
  BY DEF value
<1>6. {p} # {}
  BY IdType
<1> HIDE DEF patched
<1>7. Signed(patched)
  BY <1>4, <1>6 DEF Signed
<1>8. \A f \in Field : patched.value[f] = IF f \in Named(p) THEN Meant(p, f) ELSE profile.value[f]
  BY <1>4, <1>5
<1>9. ApplyProfilePatch(p, [profile EXCEPT !.updatedBy = {p}]) = patched
  BY <1>2 DEF patched
<1>10. patched \in Profile
  BY <1>3 DEF patched
<1> QED
  BY <1>4, <1>7, <1>8, <1>9, <1>10

\* Storing over a row keeps what the copy has: an empty field may keep the row's.
LEMMA WrittenType ==
    ASSUME TypeOK, NEW mine \in Profile, NEW keep \in BOOLEAN
    PROVE  LET new == Written(mine, keep) IN
           /\ new \in Profile
           /\ Signed(mine) => Signed(new)
           /\ \A f \in Field : new.value[f] =
                 IF keep /\ mine.value[f] = {} THEN row.value[f] ELSE mine.value[f]
           /\ mine.scope = row.scope => new.scope = row.scope
<1> DEFINE over(new, old) == IF keep /\ new = {} THEN old ELSE new
           value == [f \in Field |-> over(mine.value[f], row.value[f])]
           scope == [tenant |-> over(mine.scope.tenant, row.scope.tenant),
                     org |-> over(mine.scope.org, row.scope.org)]
<1>1. row \in Profile
  BY DEF TypeOK
<1>2. value \in [Field -> Id(Op)]
  BY <1>1 DEF Profile
<1>3. scope \in Scope /\ (mine.scope = row.scope => scope = row.scope)
  BY <1>1 DEF Profile, Scope
<1>4. Written(mine, keep) = [mine EXCEPT !.value = value, !.scope = scope]
  BY DEF Written, Profile
<1>5. \A f \in Field : value[f] =
          IF keep /\ mine.value[f] = {} THEN row.value[f] ELSE mine.value[f]
  OBVIOUS
<1> HIDE DEF value, scope
<1>6. [mine EXCEPT !.value = value, !.scope = scope] \in Profile
  BY <1>2, <1>3 DEF Profile
<1> QED
  BY <1>3, <1>4, <1>5, <1>6 DEF Signed, Profile

-----------------------------------------------------------------------------
(* The inductive invariant *)

\* The row is there once a patch is stored, and who stored one is past storing:
\* its reading does not change any more.
Stamped ==
    /\ row.exists <=> writes # <<>>
    /\ \A i \in DOMAIN writes : pc[writes[i]] \in {"emit", "done", "crashed"}

\* Every patch stored after the i-th had read the profile after it.
Settled(i) == \A j \in i + 1 .. Len(writes) : base[writes[j]] >= i

\* A later patch names the field.
Renamed(i, f) == \E j \in i + 1 .. Len(writes) : f \in Named(writes[j])

\* A stored patch did what it says, or the store kept what it was to clear.
AsMeant(p) ==
    \A f \in Named(p) : effect[p].after[f] =
        IF effect[p].kept /\ f \in job[p].clears THEN effect[p].before[f] ELSE Meant(p, f)

Told == \A i \in DOMAIN writes : AsMeant(writes[i])

\* What a settled patch made of its fields is in the row,
Kept ==
    \A i \in DOMAIN writes : Settled(i) =>
        \A f \in Named(writes[i]) :
            row.value[f] = effect[writes[i]].after[f] \/ Renamed(i, f)

\* and in every copy read after it, unless that patch looked in another scope:
\* it will not write then, since a row is there.
CarriesTo(i, p) ==
    \/ /\ copy[p].scope = row.scope
       /\ \A f \in Named(writes[i]) :
             copy[p].value[f] = effect[writes[i]].after[f] \/ Renamed(i, f) \/ f \in Named(p)
    \/ ~ScopeCriteria(copy[p].scope) /\ pc[p] # "update"

Carried ==
    \A i \in DOMAIN writes : \A p \in Op :
        Settled(i) /\ Holds(p) /\ base[p] >= i => CarriesTo(i, p)

\* While nothing was stored since a patch read, it has the row in its copy or
\* asked for a scope the row does not answer to.
FreshOf(p) ==
    \/ row.exists /\ copy[p].scope = row.scope /\ pc[p] # "create"
    \/ ~ScopeCriteria(job[p].scope) /\ copy[p].scope = job[p].scope

Fresh == \A p \in Op : Holds(p) /\ base[p] = Len(writes) => FreshOf(p)

IInv == TypeInv /\ Stamped /\ Told /\ Kept /\ Carried /\ Fresh

-----------------------------------------------------------------------------
(* Each conjunct is kept by every step *)

\* What is stored is a signed profile with what the copy says; what it leaves empty
\* may be as it was.
LEMMA StoredRow ==
    ASSUME TypeInv, NEW p \in Op, Stores(p), job' = job
    PROVE  /\ row' \in Profile /\ Signed(row') /\ effect' \in [Op -> Effect]
           /\ \A f \in Field : row'.value[f] = copy[p].value[f] \/ row'.value[f] = row.value[f]
           /\ effect'[p].after = row'.value /\ AsMeant(p)'
           /\ \A q \in Op : q # p => effect'[q] = effect[q]
           /\ copy[p].scope = row.scope => row'.scope = row.scope
<1>1. TypeOK /\ copy[p] \in Profile /\ row \in Profile /\ effect \in [Op -> Effect]
  BY DEF TypeInv, TypeOK
<1>2. /\ Signed(copy[p]) /\ Named(p) \subseteq Field /\ job' = job
      /\ \A f \in Named(p) : copy[p].value[f] = Meant(p, f)
  <2>1. pc[p] \in {"update", "create"}
    BY DEF Stores
  <2> QED
    BY <1>1, <2>1, JobType DEF TypeInv, Holds
<1>3. PICK keep \in BOOLEAN :
         /\ row' = Written(copy[p], keep) \/ (row' = copy[p] /\ ~keep)
         /\ effect' = [effect EXCEPT ![p] =
                           [kept |-> keep, before |-> row.value, after |-> row'.value]]
  BY DEF Stores
<1>4. /\ row' \in Profile /\ Signed(row')
      /\ \A f \in Field : row'.value[f] =
            IF keep /\ copy[p].value[f] = {} THEN row.value[f] ELSE copy[p].value[f]
      /\ copy[p].scope = row.scope => row'.scope = row.scope
  <2>1. CASE row' = Written(copy[p], keep)
    BY <1>1, <1>2, <2>1, WrittenType
  <2>2. CASE row' = copy[p] /\ ~keep
    BY <1>1, <1>2, <2>2
  <2> QED
    BY <1>3, <2>1, <2>2
<1>5. [kept |-> keep, before |-> row.value, after |-> row'.value] \in Effect
  BY <1>1, <1>4 DEF Effect, Values, Profile
<1>6. /\ effect' \in [Op -> Effect] /\ \A q \in Op : q # p => effect'[q] = effect[q]
      /\ effect'[p].kept = keep /\ effect'[p].before = row.value /\ effect'[p].after = row'.value
  BY <1>1, <1>3, <1>5
<1>7. \A f \in Named(p) : Meant(p, f) = {} <=> f \in job[p].clears
  <2>1. job[p].sets \cap job[p].clears = {}
    BY <1>1 DEF TypeOK, Jobs
  <2> QED
    BY <2>1, IdType DEF Named, Meant
<1>8. AsMeant(p)'
  <2>1. \A f \in Named(p) : row'.value[f] =
            IF keep /\ f \in job[p].clears THEN row.value[f] ELSE Meant(p, f)
    BY <1>2, <1>4, <1>7
  <2> QED
    BY <1>2, <1>6, <2>1 DEF AsMeant, Named, Meant
<1> QED
  BY <1>4, <1>6, <1>8

LEMMA TypeKept ==
    ASSUME TypeInv, NEW p \in Op, Step(p)
    PROVE  TypeInv'
<1>1. /\ row \in Profile /\ pc \in [Op -> Places] /\ copy \in [Op -> Profile]
      /\ answer \in [Op -> Answers] /\ writes \in Seq(Op) /\ base \in [Op -> 0 .. Len(writes)]
      /\ effect \in [Op -> Effect] /\ TypeOK /\ Len(writes) \in Nat
  BY DEF TypeInv, TypeOK, Places, Answers
<1>2. UNCHANGED job /\ (Reads(p) \/ Finds(p) \/ Stores(p) \/ Refuses(p) \/ Rests(p))
  BY <1>1, StepMoves
<1>3. /\ job' \in [Op -> Jobs]
      /\ {"find", "update", "create", "emit", "done"} \subseteq Places
      /\ {"ok", "error", "none", "refused"} \subseteq Answers /\ NoProfile \in Profile
  BY <1>1, <1>2, NoProfileType DEF TypeOK, Places, Answers
<1> DEFINE Patched(q, profile) ==
             Signed(profile) /\ \A f \in Named(q) : profile.value[f] = Meant(q, f)
           Signing(r) == r.exists => r.createdBy # {} /\ r.updatedBy # {}
<1>4. Signing(row) /\ \A q \in Op : Holds(q) => Patched(q, copy[q])
  BY DEF TypeInv, TypeOK
<1>5. SUFFICES /\ row' \in Profile /\ Signing(row') /\ pc' \in [Op -> Places]
               /\ copy' \in [Op -> Profile] /\ answer' \in [Op -> Answers]
               /\ writes' \in Seq(Op) /\ base' \in [Op -> 0 .. Len(writes')]
               /\ effect' \in [Op -> Effect]
               /\ \A q \in Op : pc'[q] \in {"find", "update", "create"} => Patched(q, copy'[q])
  BY <1>2, <1>3 DEF TypeInv, TypeOK, Places, Answers, Holds, Named, Meant
<1>6. CASE Reads(p)
  <2>1. PICK profile \in Profile :
           /\ profile = IF ScopeCriteria(job[p].scope) THEN row ELSE NewProfile(p)
           /\ copy' = [copy EXCEPT ![p] = ApplyProfilePatch(p, [profile EXCEPT !.updatedBy = {p}])]
    BY <1>6 DEF Reads
  <2>2. profile.exists /\ profile.createdBy # {}
    BY <1>1, <1>4, <2>1, NewProfileType DEF ScopeCriteria
  <2>3. copy'[p] \in Profile /\ Patched(p, copy'[p])
    BY <1>1, <2>1, <2>2, PatchType, JobType
  <2>4. copy' \in [Op -> Profile] /\ \A q \in Op : q # p => copy'[q] = copy[q]
    BY <1>1, <2>1, <2>3
  <2>5. /\ pc' \in [Op -> Places] /\ \A q \in Op : q # p => pc'[q] = pc[q]
        /\ base' \in [Op -> 0 .. Len(writes')] /\ writes' \in Seq(Op)
        /\ row' = row /\ answer' = answer /\ effect' = effect
    BY <1>1, <1>3, <1>6 DEF Reads
  <2>6. ASSUME NEW q \in Op, pc'[q] \in {"find", "update", "create"}
        PROVE  Patched(q, copy'[q])
    BY <1>4, <2>3, <2>4, <2>5, <2>6 DEF Holds
  <2> QED
    BY <1>1, <1>4, <2>4, <2>5, <2>6
<1>7. CASE Finds(p)
  BY <1>1, <1>3, <1>4, <1>7 DEF Finds, Holds
<1>8. CASE Stores(p)
  <2>1. row' \in Profile /\ Signing(row') /\ effect' \in [Op -> Effect]
    BY <1>2, <1>8, StoredRow DEF Signed
  <2>2. writes' \in Seq(Op) /\ Len(writes') = Len(writes) + 1
    BY <1>1, <1>8 DEF Stores
  <2>3. base' \in [Op -> 0 .. Len(writes')]
    BY <1>1, <1>8, <2>2 DEF Stores
  <2>4. /\ pc' \in [Op -> Places] /\ copy' \in [Op -> Profile] /\ answer' \in [Op -> Answers]
        /\ pc'[p] \in {"emit", "done"}
        /\ \A q \in Op : q # p => pc'[q] = pc[q] /\ copy'[q] = copy[q]
    <3>1. CASE /\ pc' = [pc EXCEPT ![p] = "emit"]
               /\ copy' = [copy EXCEPT ![p] = row'] /\ answer' = answer
      BY <1>1, <1>3, <2>1, <3>1
    <3>2. CASE /\ pc' = [pc EXCEPT ![p] = "done"] /\ copy' = [copy EXCEPT ![p] = NoProfile]
               /\ answer' = [answer EXCEPT ![p] = "error"]
      BY <1>1, <1>3, <3>2
    <3> QED
      BY <1>8, <3>1, <3>2 DEF Stores
  <2> QED
    BY <1>4, <2>1, <2>2, <2>3, <2>4 DEF Holds
<1>9. CASE Refuses(p)
  BY <1>1, <1>3, <1>4, <1>9 DEF Refuses, Holds
<1>10. CASE Rests(p)
  <2>1. PICK place \in Places \ {"find", "update", "create", "emit"} : pc' = [pc EXCEPT ![p] = place]
    BY <1>10 DEF Rests
  <2>2. copy' \in [Op -> Profile] /\ \A q \in Op : q # p => copy'[q] = copy[q]
    BY <1>1, <1>3, <1>10 DEF Rests
  <2>3. answer' \in [Op -> Answers]
    <3>1. CASE answer' = answer
      BY <1>1, <3>1
    <3>2. CASE \E what \in {"ok", "error", "none"} : answer' = [answer EXCEPT ![p] = what]
      BY <1>1, <1>3, <3>2
    <3> QED
      BY <1>10, <3>1, <3>2 DEF Rests
  <2>4. row' = row /\ writes' = writes /\ base' = base /\ effect' = effect
    BY <1>10 DEF Rests
  <2> QED
    BY <1>1, <1>4, <2>1, <2>2, <2>3, <2>4 DEF Holds
<1> QED
  BY <1>2, <1>6, <1>7, <1>8, <1>9, <1>10

\* How a step moves the history: it stays, but for one more patch stored.
LEMMA HistoryMoves ==
    ASSUME TypeInv, Stamped, NEW p \in Op, Step(p)
    PROVE  /\ UNCHANGED job
           /\ \A i \in DOMAIN writes : base'[writes[i]] = base[writes[i]]
           /\ \/ writes' = writes /\ row' = row /\ effect' = effect /\ ~Stores(p)
              \/ Stores(p) /\ base' = base /\ writes' = Append(writes, p)
<1>1. TypeOK /\ base \in [Op -> 0 .. Len(writes)] /\ writes \in Seq(Op) /\ pc \in [Op -> Places]
  BY DEF TypeInv, TypeOK, Places
<1>2. UNCHANGED job /\ (Reads(p) \/ Finds(p) \/ Stores(p) \/ Refuses(p) \/ Rests(p))
  BY <1>1, StepMoves
<1>3. CASE Reads(p)
  <2>1. pc[p] = "read"
    BY <1>3 DEF Reads
  <2>2. ASSUME NEW i \in DOMAIN writes PROVE writes[i] \in Op /\ writes[i] # p
    <3>1. writes[i] \in Op
      BY <1>1
    <3>2. pc[writes[i]] \in {"emit", "done", "crashed"}
      BY DEF Stamped
    <3> QED
      BY <2>1, <3>1, <3>2
  <2>3. base' = [base EXCEPT ![p] = Len(writes)] /\ writes' = writes /\ row' = row
        /\ effect' = effect
    BY <1>3 DEF Reads
  <2>4. ~Stores(p)
    BY <2>1 DEF Stores
  <2> QED
    BY <1>1, <1>2, <2>2, <2>3, <2>4
<1>4. CASE Finds(p)
  BY <1>2, <1>4 DEF Finds, Stores
<1>5. CASE Stores(p)
  BY <1>2, <1>5 DEF Stores
<1>6. CASE Refuses(p)
  BY <1>2, <1>6 DEF Refuses, Stores
<1>7. CASE Rests(p)
  <2>1. pc'[p] \notin {"find", "update", "create", "emit"} /\ writes' = writes
    BY <1>1, <1>7 DEF Rests
  <2>2. ~Stores(p)
    BY <1>1, <2>1 DEF Stores
  <2>3. UNCHANGED <<row, writes, effect, base>>
    BY <1>7 DEF Rests
  <2> QED
    BY <1>2, <2>2, <2>3
<1> QED
  BY <1>2, <1>3, <1>4, <1>5, <1>6, <1>7

LEMMA StampedKept ==
    ASSUME TypeInv, Stamped, NEW p \in Op, Step(p)
    PROVE  Stamped'
<1>1. TypeOK /\ writes \in Seq(Op) /\ pc \in [Op -> Places] /\ TypeInv'
  BY TypeKept DEF TypeInv, TypeOK, Places
<1>2. pc' \in [Op -> Places]
  BY <1>1 DEF TypeInv, TypeOK, Places
<1>3. Reads(p) \/ Finds(p) \/ Stores(p) \/ Refuses(p) \/ Rests(p)
  BY <1>1, StepMoves
<1>4. \A q \in Op : q # p => pc'[q] = pc[q]
  <2>1. \E place \in Places : pc' = [pc EXCEPT ![p] = place]
    BY <1>1, <1>3 DEF Reads, Finds, Stores, Refuses, Rests, Places
  <2> QED
    BY <1>1, <2>1
<1>5. \/ pc[p] \in {"emit", "done", "crashed"} => pc'[p] \in {"emit", "done", "crashed"}
      \/ Stores(p)
  BY <1>1, <1>3 DEF Reads, Finds, Refuses, Rests
<1>6. CASE ~Stores(p)
  <2>1. writes' = writes /\ row' = row
    BY <1>6, HistoryMoves
  <2>2. \A i \in DOMAIN writes : writes[i] \in Op
    BY <1>1
  <2> QED
    BY <1>4, <1>5, <1>6, <2>1, <2>2 DEF Stamped
<1>7. CASE Stores(p)
  <2>1. writes' = Append(writes, p) /\ pc'[p] \in {"emit", "done"}
    BY <1>1, <1>7 DEF Stores
  <2>2. row'.exists
    BY <1>1, <1>7, HistoryMoves, StoredRow DEF Signed
  <2>3. writes' # <<>>
    BY <1>1, <2>1
  <2>4. ASSUME NEW i \in DOMAIN writes'
        PROVE  pc'[writes'[i]] \in {"emit", "done", "crashed"}
    <3>1. CASE i \in DOMAIN writes
      <4>1. writes'[i] = writes[i] /\ writes[i] \in Op
        BY <1>1, <2>1, <3>1
      <4>2. pc[writes[i]] \in {"emit", "done", "crashed"}
        BY <3>1 DEF Stamped
      <4> QED
        BY <1>4, <2>1, <4>1, <4>2
    <3>2. CASE i \notin DOMAIN writes
      BY <1>1, <2>1, <3>2
    <3> QED
      BY <3>1, <3>2
  <2> QED
    BY <2>2, <2>3, <2>4 DEF Stamped
<1> QED
  BY <1>6, <1>7

\* Storing adds a last patch: what is settled or renamed among the others is told
\* by what it was before and by that one.
LEMMA OneMore ==
    ASSUME TypeInv, Stamped, NEW p \in Op, Step(p), Stores(p), NEW i \in DOMAIN writes
    PROVE  /\ Settled(i)' => Settled(i) /\ base[p] >= i
           /\ \A f : Renamed(i, f) \/ f \in Named(p) => Renamed(i, f)'
           /\ writes'[i] = writes[i] /\ writes[i] \in Op
           /\ effect'[writes[i]] = effect[writes[i]] /\ job' = job
<1>1. /\ writes \in Seq(Op) /\ job' = job /\ base' = base /\ writes' = Append(writes, p)
  BY HistoryMoves DEF TypeInv, TypeOK
<1>2. /\ Len(writes') = Len(writes) + 1 /\ Len(writes) \in Nat /\ i \in 1 .. Len(writes)
      /\ writes'[Len(writes) + 1] = p
      /\ \A j \in 1 .. Len(writes) : writes'[j] = writes[j] /\ writes[j] \in Op
  BY <1>1
<1>3. ASSUME Settled(i)' PROVE Settled(i) /\ base[p] >= i
  <2>1. \A j \in i + 1 .. Len(writes) + 1 : base[writes'[j]] >= i
    BY <1>1, <1>2, <1>3 DEF Settled
  <2>2. base[p] >= i
    BY <1>2, <2>1
  <2>3. \A j \in i + 1 .. Len(writes) : j \in i + 1 .. Len(writes) + 1 /\ j \in 1 .. Len(writes)
    BY <1>2
  <2>4. \A j \in i + 1 .. Len(writes) : base[writes[j]] >= i
    BY <1>2, <2>1, <2>3
  <2> QED
    BY <2>2, <2>4 DEF Settled
<1>4. ASSUME NEW f, Renamed(i, f) \/ f \in Named(p) PROVE Renamed(i, f)'
  <2>1. \A j \in i + 1 .. Len(writes) : j \in i + 1 .. Len(writes) + 1 /\ j \in 1 .. Len(writes)
    BY <1>2
  <2>2. Len(writes) + 1 \in i + 1 .. Len(writes) + 1
    BY <1>2
  <2>3. \E j \in i + 1 .. Len(writes) + 1 : f \in Named(writes'[j])
    BY <1>2, <1>4, <2>1, <2>2 DEF Renamed
  <2>4. \A q : Named(q)' = Named(q)
    BY <1>1 DEF Named
  <2> QED
    BY <1>1, <1>2, <2>3, <2>4 DEF Renamed
<1>5. effect'[writes[i]] = effect[writes[i]]
  <2>1. pc[writes[i]] \in {"emit", "done", "crashed"} /\ pc[p] \in {"update", "create"}
    BY DEF Stamped, Stores
  <2>2. writes[i] # p
    BY <2>1
  <2> QED
    BY <1>1, <1>2, <2>2, StoredRow
<1> QED
  BY <1>1, <1>2, <1>3, <1>4, <1>5

\* Without a patch stored, nothing changes about those that are.
LEMMA NoneMore ==
    ASSUME TypeInv, Stamped, NEW p \in Op, Step(p), ~Stores(p), NEW i \in DOMAIN writes
    PROVE  /\ Settled(i)' => Settled(i)
           /\ \A f : Renamed(i, f) => Renamed(i, f)'
           /\ writes' = writes /\ row' = row /\ effect' = effect /\ writes[i] \in Op
<1>1. /\ writes \in Seq(Op) /\ job' = job /\ writes' = writes /\ row' = row /\ effect' = effect
      /\ \A j \in DOMAIN writes : base'[writes[j]] = base[writes[j]]
  BY HistoryMoves DEF TypeInv, TypeOK
<1>2. Len(writes) \in Nat /\ i \in 1 .. Len(writes) /\ DOMAIN writes = 1 .. Len(writes)
  BY <1>1
<1>3. \A j \in i + 1 .. Len(writes) : j \in DOMAIN writes
  BY <1>2
<1> QED
  BY <1>1, <1>2, <1>3 DEF Settled, Renamed, Named

\* A patch about to be stored, which had read after the i-th, has it in its copy.
LEMMA StorerCarries ==
    ASSUME TypeInv, Stamped, Carried, NEW p \in Op, Stores(p),
           NEW i \in DOMAIN writes, Settled(i), base[p] >= i
    PROVE  /\ row.exists /\ copy[p].scope = row.scope
           /\ \A f \in Named(writes[i]) :
                 copy[p].value[f] = effect[writes[i]].after[f] \/ Renamed(i, f) \/ f \in Named(p)
<1>1. writes # <<>> /\ row.exists
  BY DEF Stamped
<1>2. Holds(p) /\ CarriesTo(i, p)
  BY DEF Carried, Stores, Holds
<1>3. pc[p] = "update"
  BY <1>1 DEF Stores
<1> QED
  BY <1>1, <1>2, <1>3 DEF CarriesTo

LEMMA ToldKept ==
    ASSUME TypeInv, Stamped, Told, NEW p \in Op, Step(p)
    PROVE  Told'
<1>1. writes \in Seq(Op) /\ job' = job /\ writes' \in Seq(Op)
  BY HistoryMoves, TypeKept DEF TypeInv, TypeOK
<1>2. ASSUME NEW q \in Op, effect'[q] = effect[q], AsMeant(q) PROVE AsMeant(q)'
  BY <1>1, <1>2 DEF AsMeant, Named, Meant
<1>3. SUFFICES ASSUME NEW i \in DOMAIN writes', NEW q \in Op, q = writes'[i]
               PROVE  AsMeant(q)'
  <2>1. \A i \in DOMAIN writes' : writes'[i] \in Op
    BY <1>1
  <2> QED
    BY <1>3, <2>1 DEF Told, AsMeant, Named, Meant
<1>4. CASE ~Stores(p)
  <2>1. writes' = writes /\ effect' = effect
    BY <1>4, HistoryMoves
  <2>2. AsMeant(q)
    BY <1>3, <2>1 DEF Told
  <2> QED
    BY <1>2, <2>1, <2>2
<1>5. CASE Stores(p) /\ i \in DOMAIN writes
  <2>1. writes'[i] = writes[i] /\ effect'[writes[i]] = effect[writes[i]]
    BY <1>5, OneMore
  <2>2. AsMeant(q)
    BY <1>3, <1>5, <2>1 DEF Told
  <2> QED
    BY <1>2, <1>3, <2>1, <2>2
<1>6. CASE Stores(p) /\ i \notin DOMAIN writes
  <2>1. q = p
    BY <1>1, <1>3, <1>6 DEF Stores
  <2> QED
    BY <1>1, <1>6, <2>1, StoredRow
<1> QED
  BY <1>4, <1>5, <1>6

LEMMA KeptKept ==
    ASSUME TypeInv, Stamped, Kept, Carried, NEW p \in Op, Step(p)
    PROVE  Kept'
<1>1. TypeOK /\ writes \in Seq(Op) /\ job' = job /\ \A q : Named(q)' = Named(q)
  BY HistoryMoves DEF TypeInv, TypeOK, Named
<1>2. SUFFICES ASSUME NEW i \in DOMAIN writes', Settled(i)',
                      NEW f \in Named(writes'[i])
               PROVE  row'.value[f] = effect'[writes'[i]].after[f] \/ Renamed(i, f)'
  BY <1>1 DEF Kept
<1>3. CASE ~Stores(p)
  <2>1. i \in DOMAIN writes
    BY <1>3, HistoryMoves
  <2> QED
    BY <1>2, <1>3, <2>1, NoneMore DEF Kept
<1>4. CASE Stores(p) /\ i \in DOMAIN writes
  <2> DEFINE after == effect[writes[i]].after[f]
  <2>1. /\ Settled(i) /\ base[p] >= i /\ writes'[i] = writes[i] /\ writes[i] \in Op
        /\ Renamed(i, f) \/ f \in Named(p) => Renamed(i, f)'
        /\ effect'[writes'[i]].after[f] = after
    BY <1>2, <1>4, OneMore
  <2>2. copy[p].value[f] = after \/ Renamed(i, f) \/ f \in Named(p)
    BY <1>2, <1>4, <2>1, StorerCarries
  <2>3. row.value[f] = after \/ Renamed(i, f)
    BY <1>2, <1>4, <2>1 DEF Kept
  <2>4. f \in Field
    BY <1>1, <1>2, <2>1, JobType
  <2>5. row'.value[f] = copy[p].value[f] \/ row'.value[f] = row.value[f]
    BY <1>1, <1>4, <2>4, StoredRow
  <2> HIDE DEF after
  <2>6. CASE Renamed(i, f)'
    BY <2>6
  <2>7. CASE row'.value[f] = after
    BY <2>1, <2>7
  <2> QED
    BY <2>1, <2>2, <2>3, <2>5, <2>6, <2>7
<1>5. CASE Stores(p) /\ i \notin DOMAIN writes
  <2>1. writes'[i] = p
    BY <1>1, <1>2, <1>5 DEF Stores
  <2> QED
    BY <1>1, <1>5, <2>1, StoredRow
<1> QED
  BY <1>3, <1>4, <1>5

\* What a read leaves in the copy.
LEMMA ReadCopy ==
    ASSUME TypeInv, NEW p \in Op, Reads(p)
    PROVE  /\ pc'[p] = "find" /\ base'[p] = Len(writes) /\ row' = row /\ writes' = writes
           /\ effect' = effect
           /\ \A q \in Op : q # p => /\ pc'[q] = pc[q] /\ copy'[q] = copy[q]
                                     /\ base'[q] = base[q]
           /\ \/ /\ ScopeCriteria(job[p].scope) /\ copy'[p].scope = row.scope
                 /\ \A f \in Field : copy'[p].value[f] =
                       IF f \in Named(p) THEN Meant(p, f) ELSE row.value[f]
              \/ ~ScopeCriteria(job[p].scope) /\ copy'[p].scope = job[p].scope
<1>1. /\ TypeOK /\ row \in Profile /\ pc \in [Op -> Places] /\ copy \in [Op -> Profile]
      /\ base \in [Op -> 0 .. Len(writes)]
      /\ row.exists => row.createdBy # {}
  BY DEF TypeInv, TypeOK, Places
<1>2. PICK profile \in Profile :
         /\ profile = IF ScopeCriteria(job[p].scope) THEN row ELSE NewProfile(p)
         /\ copy' = [copy EXCEPT ![p] = ApplyProfilePatch(p, [profile EXCEPT !.updatedBy = {p}])]
  BY DEF Reads
<1>3. profile.exists /\ profile.createdBy # {}
  BY <1>1, <1>2, NewProfileType DEF ScopeCriteria
<1>4. /\ copy'[p].scope = profile.scope
      /\ \A f \in Field : copy'[p].value[f] = IF f \in Named(p) THEN Meant(p, f) ELSE profile.value[f]
  <2>1. copy'[p] = ApplyProfilePatch(p, [profile EXCEPT !.updatedBy = {p}])
    BY <1>1, <1>2
  <2> DEFINE patched == ApplyProfilePatch(p, [profile EXCEPT !.updatedBy = {p}])
  <2>2. /\ patched.scope = profile.scope
        /\ \A f \in Field : patched.value[f] = IF f \in Named(p) THEN Meant(p, f) ELSE profile.value[f]
    BY <1>1, <1>3, PatchType
  <2> HIDE DEF patched
  <2>3. copy'[p] = patched
    BY <2>1 DEF patched
  <2> QED
    BY <2>2, <2>3
<1>5. /\ pc'[p] = "find" /\ base'[p] = Len(writes) /\ row' = row /\ writes' = writes
      /\ effect' = effect
      /\ \A q \in Op : q # p => pc'[q] = pc[q] /\ copy'[q] = copy[q] /\ base'[q] = base[q]
  BY <1>1, <1>2 DEF Reads
<1> QED
  BY <1>1, <1>2, <1>4, <1>5, NewProfileType

\* The steps that neither read nor store leave the copy of a patch under way, or
\* end it.
LEMMA OthersHold ==
    ASSUME TypeInv, NEW p \in Op, Step(p), ~Reads(p), NEW q \in Op, Holds(q)'
    PROVE  /\ base'[q] = base[q] /\ copy'[q] = copy[q] /\ Holds(q)
           /\ q = p => Finds(p)
           /\ q # p => pc'[q] = pc[q]
<1>1. TypeOK /\ pc \in [Op -> Places] /\ copy \in [Op -> Profile]
  BY DEF TypeInv, TypeOK, Places
<1>2. Finds(p) \/ Stores(p) \/ Refuses(p) \/ Rests(p)
  BY <1>1, StepMoves
<1>3. base' = base
  BY <1>2 DEF Finds, Stores, Refuses, Rests
<1>4. CASE q = p
  <2>1. pc'[p] \in {"find", "update", "create"}
    BY <1>4 DEF Holds
  <2>2. Finds(p)
    <3>1. ~Stores(p) /\ ~Refuses(p)
      BY <1>1, <2>1 DEF Stores, Refuses
    <3>2. ~Rests(p)
      BY <1>1, <2>1 DEF Rests
    <3> QED
      BY <1>2, <3>1, <3>2
  <2> QED
    BY <1>3, <1>4, <2>2 DEF Finds, Holds
<1>5. CASE q # p
  <2>1. copy'[q] = copy[q]
    BY <1>1, <1>2, <1>5 DEF Finds, Stores, Refuses, Rests
  <2>2. pc'[q] = pc[q]
    <3>1. \E place \in Places : pc' = [pc EXCEPT ![p] = place]
      BY <1>1, <1>2 DEF Finds, Stores, Refuses, Rests, Places
    <3> QED
      BY <1>1, <1>5, <3>1
  <2> QED
    BY <1>3, <1>5, <2>1, <2>2 DEF Holds
<1> QED
  BY <1>4, <1>5

LEMMA CarriedKept ==
    ASSUME TypeInv, Stamped, Kept, Carried, NEW p \in Op, Step(p)
    PROVE  Carried'
<1>1. /\ TypeOK /\ writes \in Seq(Op) /\ job' = job /\ pc \in [Op -> Places]
      /\ base \in [Op -> 0 .. Len(writes)] /\ Len(writes) \in Nat
  BY HistoryMoves DEF TypeInv, TypeOK, Places
<1>5. \A r : Named(r)' = Named(r)
  BY <1>1 DEF Named
<1>2. SUFFICES ASSUME NEW i \in DOMAIN writes', NEW q \in Op,
                      Settled(i)', Holds(q)', base'[q] >= i
               PROVE  CarriesTo(i, q)'
  BY DEF Carried
<1>3. CASE Reads(p)
  <2>1. ~Stores(p)
    BY <1>3 DEF Reads, Stores
  <2>2. /\ i \in DOMAIN writes /\ Settled(i) /\ writes' = writes /\ row' = row
        /\ effect' = effect
        /\ \A f : Renamed(i, f) => Renamed(i, f)'
    BY <1>2, <2>1, HistoryMoves, NoneMore
  <2>3. CASE q = p
    <3>1. CASE ScopeCriteria(job[p].scope)
      <4>1. copy'[p].scope = row.scope
        BY <1>3, <3>1, ReadCopy
      <4>2. \A f \in Named(writes[i]) :
               f \in Field /\ (row.value[f] = effect[writes[i]].after[f] \/ Renamed(i, f))
        BY <1>1, <2>2, JobType DEF Kept
      <4>3. \A f \in Field : f \notin Named(p) => copy'[p].value[f] = row.value[f]
        BY <1>3, <3>1, ReadCopy
      <4> QED
        BY <1>5, <1>1, <2>2, <2>3, <4>1, <4>2, <4>3 DEF CarriesTo
    <3>2. CASE ~ScopeCriteria(job[p].scope)
      <4>1. copy'[p].scope = job[p].scope /\ pc'[p] = "find"
        BY <1>3, <3>2, ReadCopy
      <4> QED
        BY <2>2, <2>3, <3>2, <4>1 DEF CarriesTo, ScopeCriteria
    <3> QED
      BY <3>1, <3>2
  <2>4. CASE q # p
    <3>1. pc'[q] = pc[q] /\ copy'[q] = copy[q] /\ base'[q] = base[q]
      BY <1>3, <2>4, ReadCopy
    <3>2. CarriesTo(i, q)
      BY <1>2, <2>2, <3>1 DEF Carried, Holds
    <3> QED
      BY <1>5, <1>1, <2>2, <3>1, <3>2 DEF CarriesTo, ScopeCriteria
  <2> QED
    BY <2>3, <2>4
<1>4. CASE ~Reads(p)
  <2>1. /\ base'[q] = base[q] /\ copy'[q] = copy[q] /\ Holds(q)
        /\ q = p => Finds(p)
        /\ q # p => pc'[q] = pc[q]
    BY <1>2, <1>4, OthersHold
  <2>2. CASE ~Stores(p)
    <3>1. /\ i \in DOMAIN writes /\ Settled(i) /\ writes' = writes /\ row' = row
        /\ effect' = effect
          /\ \A f : Renamed(i, f) => Renamed(i, f)'
      BY <1>2, <2>2, HistoryMoves, NoneMore
    <3>2. CarriesTo(i, q)
      BY <1>2, <2>1, <3>1 DEF Carried
    <3>3. CASE copy[q].scope = row.scope
      <4>1. \A f \in Named(writes[i]) :
               copy[q].value[f] = effect[writes[i]].after[f] \/ Renamed(i, f) \/ f \in Named(q)
        <5>1. writes # <<>>
          BY <1>1, <3>1
        <5>2. row \in Profile /\ row.exists
          BY <1>1, <5>1 DEF Stamped, TypeOK
        <5>3. ScopeCriteria(row.scope)
          BY <5>2 DEF ScopeCriteria
        <5> QED
          BY <3>2, <3>3, <5>3 DEF CarriesTo
      <4> QED
        BY <1>5, <1>1, <2>1, <3>1, <3>3, <4>1 DEF CarriesTo
    <3>4. CASE copy[q].scope # row.scope
      <4>1. ~ScopeCriteria(copy[q].scope) /\ pc[q] # "update"
        BY <3>2, <3>4 DEF CarriesTo
      <4>2. pc'[q] # "update"
        BY <1>1, <2>1, <4>1 DEF Finds
      <4> QED
        BY <2>1, <3>1, <4>1, <4>2 DEF CarriesTo, ScopeCriteria
    <3> QED
      BY <3>3, <3>4
  <2>3. CASE Stores(p)
    <3>1. q # p
      BY <2>1, <2>3 DEF Finds, Stores
    <3>2. i \in DOMAIN writes
      BY <1>1, <1>2, <2>1, <2>3 DEF Stores
    <3>3. /\ Settled(i) /\ base[p] >= i /\ writes'[i] = writes[i] /\ writes[i] \in Op
          /\ effect'[writes[i]] = effect[writes[i]]
          /\ \A f : Renamed(i, f) => Renamed(i, f)'
      BY <1>2, <2>3, <3>2, OneMore
    <3>4. row.exists /\ row'.exists /\ row'.scope = row.scope
      BY <1>1, <2>3, <3>2, <3>3, StorerCarries, StoredRow DEF Signed
    <3>5. CarriesTo(i, q)
      BY <1>2, <2>1, <3>2, <3>3 DEF Carried
    <3> QED
      BY <1>5, <1>1, <2>1, <3>1, <3>3, <3>4, <3>5 DEF CarriesTo, ScopeCriteria
  <2> QED
    BY <2>2, <2>3
<1> QED
  BY <1>3, <1>4

LEMMA FreshKept ==
    ASSUME TypeInv, Stamped, Fresh, NEW p \in Op, Step(p)
    PROVE  Fresh'
<1>1. /\ TypeOK /\ writes \in Seq(Op) /\ job' = job /\ pc \in [Op -> Places]
      /\ base \in [Op -> 0 .. Len(writes)] /\ Len(writes) \in Nat /\ row \in Profile
  BY HistoryMoves DEF TypeInv, TypeOK, Places
<1>2. SUFFICES ASSUME NEW q \in Op, Holds(q)', base'[q] = Len(writes')
               PROVE  FreshOf(q)'
  BY DEF Fresh
<1>3. CASE Reads(p)
  <2>1. row' = row /\ writes' = writes
    BY <1>3, ReadCopy
  <2>2. CASE q = p
    BY <1>1, <1>3, <2>1, <2>2, ReadCopy DEF FreshOf, ScopeCriteria
  <2>3. CASE q # p
    <3>1. pc'[q] = pc[q] /\ copy'[q] = copy[q] /\ base'[q] = base[q]
      BY <1>3, <2>3, ReadCopy
    <3> QED
      BY <1>1, <1>2, <2>1, <3>1 DEF Fresh, Holds, FreshOf, ScopeCriteria
  <2> QED
    BY <2>2, <2>3
<1>4. CASE Stores(p) /\ ~Reads(p)
  <2>1. base'[q] = base[q] /\ Len(writes') = Len(writes) + 1
    BY <1>1, <1>2, <1>4, OthersHold DEF Stores
  <2>2. base[q] \in 0 .. Len(writes) /\ Len(writes) \in Nat
    BY <1>1
  <2>3. base[q] # Len(writes) + 1
    BY <2>2
  <2> QED
    BY <1>2, <2>1, <2>3
<1>5. CASE ~Reads(p) /\ ~Stores(p)
  <2>1. /\ base'[q] = base[q] /\ copy'[q] = copy[q] /\ Holds(q)
        /\ q = p => Finds(p)
        /\ q # p => pc'[q] = pc[q]
    BY <1>2, <1>5, OthersHold
  <2>2. row' = row /\ writes' = writes
    BY <1>5, HistoryMoves
  <2>3. FreshOf(q)
    BY <1>2, <2>1, <2>2 DEF Fresh
  <2>4. CASE row.exists /\ copy[q].scope = row.scope /\ pc[q] # "create"
    <3>1. ScopeCriteria(copy[q].scope)
      BY <1>1, <2>4 DEF ScopeCriteria
    <3>2. pc'[q] # "create"
      BY <1>1, <2>1, <2>4, <3>1 DEF Finds
    <3> QED
      BY <2>1, <2>2, <2>4, <3>2 DEF FreshOf
  <2>5. CASE ~ScopeCriteria(job[q].scope) /\ copy[q].scope = job[q].scope
    BY <1>1, <2>1, <2>2, <2>5 DEF FreshOf, ScopeCriteria
  <2> QED
    BY <2>3, <2>4, <2>5 DEF FreshOf
<1> QED
  BY <1>3, <1>4, <1>5

-----------------------------------------------------------------------------
(* The invariant and what follows *)

LEMMA Initially == Init => IInv
<1> SUFFICES ASSUME Init PROVE IInv
  OBVIOUS
<1>1. NoProfile \in Profile /\ ~NoProfile.exists
  BY NoProfileType
<1>2. writes = <<>> /\ Len(writes) = 0 /\ DOMAIN writes = {}
  BY DEF Init
<1>3. \A p \in Op : ~Holds(p)
  BY DEF Init, Holds
<1>4. writes \in Seq(Op) /\ base \in [Op -> 0 .. Len(writes)]
  BY <1>2 DEF Init
<1>7. NoEffect \in Effect
  BY <1>1 DEF NoEffect, Effect, Values, Profile
<1>5. TypeInv
  BY <1>1, <1>3, <1>4, <1>7 DEF TypeInv, TypeOK, Init
<1>6. Stamped /\ Told /\ Kept /\ Carried /\ Fresh
  BY <1>1, <1>2, <1>3 DEF Stamped, Told, Kept, Carried, Fresh, Init
<1> QED
  BY <1>5, <1>6 DEF IInv

LEMMA Inductive == IInv /\ [Next]_vars => IInv'
<1> SUFFICES ASSUME IInv, [Next]_vars PROVE IInv'
  OBVIOUS
<1>1. CASE Next
  <2>1. PICK p \in Op : Step(p)
    BY <1>1, NextIsStep
  <2> QED
    BY <2>1, TypeKept, StampedKept, ToldKept, KeptKept, CarriedKept, FreshKept DEF IInv
<1>2. CASE UNCHANGED vars
  <2>1. TypeInv'
    BY <1>2 DEF IInv, TypeInv, TypeOK, vars, Holds, Signed, Named, Meant
  <2>2. Stamped' /\ Kept'
    BY <1>2 DEF IInv, Stamped, Kept, Settled, Renamed, Named, vars
  <2>5. Told'
    BY <1>2 DEF IInv, Told, AsMeant, Meant, Named, vars
  <2>3. Carried'
    BY <1>2 DEF IInv, Carried, Settled, Renamed, Named, CarriesTo, Holds, ScopeCriteria, vars
  <2>4. Fresh'
    BY <1>2 DEF IInv, Fresh, FreshOf, Holds, ScopeCriteria, vars
  <2> QED
    BY <2>1, <2>2, <2>3, <2>4, <2>5 DEF IInv
<1> QED
  BY <1>1, <1>2

LEMMA Invariant == Spec => []IInv
  BY Initially, Inductive, PTL DEF Spec

\* Every variable keeps its shape, whatever the patches and whichever fail.
THEOREM TypeCorrect == Spec => []TypeOK
<1>1. IInv => TypeOK
  BY DEF IInv, TypeInv
<1> QED
  BY <1>1, Invariant, PTL

\* UpsertProfile writes the whole row back: for every number of patches, what a
\* stored patch made of the fields it names -- set, cleared, or kept as it was by a
\* store that writes no empty value -- stays unless a later patch names the field or
\* one of those stored later had read the profile before it.
THEOREM PatchLostOnlyToOverlapHolds == Spec => []PatchLostOnlyToOverlap
<1>1. ASSUME IInv PROVE PatchLostOnlyToOverlap
  <2>1. ASSUME NEW i \in DOMAIN writes, NEW f \in Named(writes[i]),
               ~(\E j \in i + 1 .. Len(writes) :
                     f \in Named(writes[j]) \/ base[writes[j]] < i)
        PROVE  row.value[f] = effect[writes[i]].after[f]
    <3>1. writes \in Seq(Op) /\ base \in [Op -> 0 .. Len(writes)]
      BY <1>1 DEF IInv, TypeInv, TypeOK
    <3>2. \A j \in i + 1 .. Len(writes) : writes[j] \in Op /\ i \in Nat
      BY <3>1
    <3>3. \A j \in i + 1 .. Len(writes) : base[writes[j]] \in Nat
      BY <3>1, <3>2
    <3>4. Settled(i) /\ ~Renamed(i, f)
      BY <2>1, <3>2, <3>3 DEF Settled, Renamed
    <3> QED
      BY <1>1, <3>4 DEF IInv, Kept
  <2>2. Told
    BY <1>1 DEF IInv
  <2> QED
    BY <2>1, <2>2 DEF PatchLostOnlyToOverlap, Told, AsMeant
<1> QED
  BY <1>1, Invariant, PTL

\* CreateProfile is refused by the table's key only for a row of another tenant or
\* organisation than was asked for, or for one stored since the patch first read.
THEOREM RefusedMeansTakenHolds == Spec => RefusedMeansTaken
<1> DEFINE Refusal(p) ==
        answer[p] # "refused" /\ answer'[p] = "refused" =>
          /\ row.exists
          /\ \/ base[p] < Len(writes)
             \/ job[p].scope.tenant # {} /\ job[p].scope.tenant # row.scope.tenant
             \/ job[p].scope.org # {} /\ job[p].scope.org # row.scope.org
<1>1. ASSUME IInv, [Next]_vars PROVE [\A p \in Op : Refusal(p)]_vars
  <2>1. CASE UNCHANGED vars
    BY <2>1
  <2>2. CASE Next
    <3>1. PICK p \in Op : Step(p)
      BY <2>2, NextIsStep
    <3>2. /\ TypeOK /\ answer \in [Op -> Answers] /\ base[p] \in 0 .. Len(writes)
          /\ Len(writes) \in Nat /\ pc \in [Op -> Places]
      BY <1>1 DEF IInv, TypeInv, TypeOK, Answers, Places
    <3>3. ASSUME NEW q \in Op, answer[q] # "refused", answer'[q] = "refused"
          PROVE  q = p /\ Refuses(p)
      <4>1. ~Reads(p) /\ ~Finds(p)
        BY <3>2, <3>3 DEF Reads, Finds
      <4>2. ~Stores(p)
        BY <3>2, <3>3 DEF Stores
      <4>3. ~Rests(p)
        BY <3>2, <3>3 DEF Rests
      <4>4. Refuses(p)
        BY <3>1, <3>2, <4>1, <4>2, <4>3, StepMoves
      <4> QED
        BY <3>2, <3>3, <4>4 DEF Refuses
    <3>4. ASSUME Refuses(p), base[p] = Len(writes)
          PROVE  ~ScopeCriteria(job[p].scope) /\ row.exists
      BY <1>1, <3>4 DEF IInv, Fresh, FreshOf, Holds, Refuses
    <3>5. ASSUME Refuses(p) PROVE Refusal(p)
      <4>1. row.exists
        BY <3>5 DEF Refuses
      <4>2. CASE base[p] = Len(writes)
        BY <3>4, <3>5, <4>1, <4>2 DEF ScopeCriteria
      <4>3. CASE base[p] # Len(writes)
        BY <3>2, <4>1, <4>3
      <4> QED
        BY <4>2, <4>3
    <3> QED
      BY <3>3, <3>5
  <2> QED
    BY <1>1, <2>1, <2>2
<1> QED
  BY <1>1, Invariant, PTL DEF Spec, RefusedMeansTaken

-----------------------------------------------------------------------------
(* Preferences: types *)

Phases == {"idle", "find", "write", "emit", "list", "done", "crashed"}

\* A row as the table may hold it, or none.
GoodRow(r) ==
    /\ r \in Row
    /\ r = NoRow \/ (r.id # "none" /\ r.value \in Call \cup Old /\ r.version > 0)

\* What a call was asked to deal with, and what it has not come to the end of.
Asked(p) == {command[p].list[i] : i \in DOMAIN command[p].list}
Ahead(p) == {left[p][i] : i \in DOMAIN left[p]}

\* What a resolution tells of a key.
Verdict == [value : [Part -> Value], version : Nat]

TablesOK ==
    /\ rows \in [Level -> [Key -> Row]]
    /\ \A l \in Level, k \in Key : GoodRow(rows[l][k])
    /\ command \in [Call -> Commands]
    /\ step \in [Call -> Phases]
    /\ left \in [Call -> Seq(Nat)]
    /\ existing \in [Call -> Row] /\ \A p \in Call : GoodRow(existing[p])
    /\ outcome \in [Call -> [Key -> {"none", "ok", "failed"}]]
    /\ saved \in [Call -> [Key -> Row]] /\ \A p \in Call, k \in Key : GoodRow(saved[p][k])
    /\ layers \in [Call -> [Level -> [Key -> Row]]]
    /\ reply \in [Call -> {"none", "ok", "error", "unsupported"}]
    /\ stale \subseteq Key

Was == [Call -> [Key -> SUBSET Verdict]]
Moved == [Call -> [Key -> SUBSET ({"upsert", "delete"} \X Level \X SUBSET Part)]]
HistoryOK == history \in [was : Was, moved : Moved, overlapped : SUBSET (Level \X Key)]

\* A call works through its list from the front.
TasksOK ==
    \A p \in Call :
        /\ command[p].kind = "resolve" => left[p] \in Seq(Level)
        /\ command[p].kind # "resolve" => left[p] \in Seq(Key)
        /\ Len(left[p]) <= Len(command[p].list)
        /\ \A i \in 1..Len(left[p]) :
               left[p][i] = command[p].list[Len(command[p].list) - Len(left[p]) + i]
        /\ UnderWay(p) => left[p] # <<>>
        /\ step[p] = "idle" => left[p] = command[p].list
        /\ step[p] \in {"find", "write", "emit"} =>
               command[p].kind # "resolve" /\ ~command[p].transactional
        /\ step[p] = "list" => command[p].kind = "resolve"

ShapeInv == TablesOK /\ HistoryOK /\ TasksOK

\* What a bulk command has told so far, and what an answer of it means.
BulkInv ==
    \A p \in Call :
        /\ command[p].kind # "resolve" =>
               \A k \in Key : outcome[p][k] # "none" <=> k \in Asked(p) \ Ahead(p)
        /\ command[p].kind # "resolve" /\ ~command[p].transactional /\ Done(p) =>
               /\ left[p] = <<>>
               /\ reply[p] = "ok" <=> \A k \in Key : outcome[p][k] # "failed"
        /\ command[p].transactional => left[p] = command[p].list
        /\ \A l \in Level, k \in Key :
               rows[l][k].value = p => ~command[p].transactional

\* Call p may still create a row for key k.
MayCreate(p, k) ==
    \/ step[p] \in {"idle", "find", "write"} /\ k \in Ahead(p)
    \/ step[p] = "emit" /\ k \in Ahead(p) \ {Here(p)}

\* Rows named after a call are its own, and it creates one for each key at most.
IdsInv ==
    /\ \A l \in Level, k \in Key, p \in Call :
          rows[l][k].id = p => command[p].level = l /\ ~MayCreate(p, k)
    /\ \A q, p \in Call, k \in Key :
          saved[q][k].id = p /\ command[p].level = command[q].level => ~MayCreate(p, k)

\* An upsert between its two statements on the row of key k at level l.
Upserting(p, l, k) ==
    /\ step[p] = "write" /\ command[p].kind = "upsert"
    /\ command[p].level = l /\ Here(p) = k

\* Where upserts never overlapped, the row is as the upsert under way found it,
\* unless it was deleted, and no record returned so far is ahead of it.
AloneInv ==
    \A l \in Level, k \in Key : <<l, k>> \notin history.overlapped =>
        /\ \A p, q \in Call : Upserting(p, l, k) /\ Upserting(q, l, k) => p = q
        /\ \A p \in Call : Upserting(p, l, k) => rows[l][k] \in {existing[p], NoRow}
        /\ \A p \in Call :
              /\ saved[p][k] # NoRow /\ command[p].level = l /\ rows[l][k].id = saved[p][k].id
              => saved[p][k].version <= rows[l][k].version

\* A field as the highest of the levels that have it says,
Having(view, levels, k, f) == {l \in levels : f \in view[l][k].has}
Saying(view, levels, k, f) ==
    IF Having(view, levels, k, f) = {} THEN "none"
    ELSE view[Max(Having(view, levels, k, f))][k].value

\* the version of the highest level that holds the key,
Holders(view, levels, k) == {l \in levels : view[l][k].value # "none"}
Numbering(view, levels, k) ==
    IF Holders(view, levels, k) = {} THEN 0 ELSE view[Max(Holders(view, levels, k))][k].version

\* and both, for all fields.
Answer(view, levels, k) ==
    [value |-> [f \in Part |-> Saying(view, levels, k, f)], version |-> Numbering(view, levels, k)]

Shown(table) == [l \in Level |-> Layer(table, l)]

\* What resolution p would have read if it read the rest now.
Known(p) == [l \in Level |-> IF l \in Ahead(p) THEN Layer(rows, l) ELSE layers[p][l]]

Resolving(p) ==
    /\ command[p].kind = "resolve"
    /\ step[p] = "list" \/ (Done(p) /\ reply[p] = "ok")

MovedLevels(p, k) == {m[2] : m \in history.moved[p][k]}

Ordered(p) == Ascending(command[p].list)

\* An answer agrees with the past as far as the changes meanwhile allow: it is one
\* that was, its fields are, or its version is.
Agrees(p, k, told) ==
    /\ (\A l, m \in MovedLevels(p, k) : l = m) => told \in history.was[p][k]
    /\ Ordered(p) =>
          /\ \A f \in Part : (\A m \in history.moved[p][k] : f \in m[3]) =>
                \E was \in history.was[p][k] : was.value[f] = told.value[f]
          /\ (\A m \in history.moved[p][k] : m[1] = "upsert") =>
                \E was \in history.was[p][k] : was.version = told.version

ResolveInv ==
    \A p \in Call, k \in Key : Resolving(p) =>
        /\ Done(p) => left[p] = <<>>
        /\ step[p] = "list" => Answer(Shown(rows), Asked(p), k) \in history.was[p][k]
        /\ step[p] = "list" => \A l \in Asked(p) \ (Ahead(p) \cup MovedLevels(p, k)) :
              layers[p][l][k] = Layer(rows, l)[k]
        /\ Agrees(p, k, Answer(Known(p), Asked(p), k))

LEMMA EmptyRows ==
    /\ NoRow \in Row /\ NoRow.id = "none" /\ NoRow.value = "none" /\ NoRow.version = 0
    /\ NoRow.has = {}
    /\ GoodRow(NoRow)
    /\ Nothing \in [Key -> Row] /\ \A k \in Key : Nothing[k] = NoRow
  BY DEF NoRow, Row, Value, GoodRow, Nothing

\* What an arrangement is: a sequence of one or more distinct members.
LEMMA ArrangementIs ==
    ASSUME NEW S, NEW s \in Arrangements(S)
    PROVE  /\ s \in Seq(S) /\ Len(s) \in Nat \ {0} /\ DOMAIN s = 1..Len(s)
           /\ \A i, j \in 1..Len(s) : i # j => s[i] # s[j]
<1>1. PICK n \in 1..Cardinality(S) :
          /\ s \in [1..n -> S]
          /\ \A i, j \in 1..n : i # j => s[i] # s[j]
  BY DEF Arrangements
<1>2. n \in Nat \ {0}
  BY <1>1
<1>3. s \in Seq(S)
  BY <1>1, <1>2
<1> QED
  BY <1>1, <1>2, <1>3, LenProperties

LEMMA CommandIs ==
    ASSUME command \in [Call -> Commands], NEW p \in Call
    PROVE  /\ command[p].kind \in {"upsert", "delete", "resolve"}
           /\ command[p].level \in Level
           /\ command[p].transactional \in BOOLEAN
           /\ command[p].has \in SUBSET Part
           /\ command[p].kind = "resolve" =>
                  command[p].list \in Arrangements(Level) /\ ~command[p].transactional
           /\ command[p].kind # "resolve" => command[p].list \in Arrangements(Key)
<1>1. System \in Level
  BY PreferenceAssumption DEF Level, System
<1>2. command[p] \in Commands
  OBVIOUS
<1> QED
  BY <1>1, <1>2 DEF Commands

LEMMA ListIs ==
    ASSUME command \in [Call -> Commands], NEW p \in Call
    PROVE  /\ Len(command[p].list) \in Nat \ {0}
           /\ DOMAIN command[p].list = 1..Len(command[p].list)
           /\ \A i, j \in 1..Len(command[p].list) :
                  i # j => command[p].list[i] # command[p].list[j]
           /\ command[p].kind = "resolve" => command[p].list \in Seq(Level)
           /\ command[p].kind # "resolve" => command[p].list \in Seq(Key)
           /\ Asked(p) = {command[p].list[i] : i \in 1..Len(command[p].list)}
  BY CommandIs, ArrangementIs DEF Asked

LEMMA FirstAndRest ==
    ASSUME NEW S, NEW s \in Seq(S), s # <<>>
    PROVE  /\ Head(s) = s[1] /\ Head(s) \in S /\ Len(s) \in Nat \ {0}
           /\ Tail(s) \in Seq(S) /\ Len(Tail(s)) = Len(s) - 1
           /\ \A i \in 1..(Len(s) - 1) : Tail(s)[i] = s[i + 1]
           /\ Tail(s) = <<>> <=> Len(s) = 1
           /\ DOMAIN s = 1..Len(s) /\ DOMAIN Tail(s) = 1..(Len(s) - 1)
<1>1. Len(s) \in Nat \ {0} /\ Tail(s) \in Seq(S) /\ Len(Tail(s)) = Len(s) - 1
  BY HeadTailProperties, EmptySeq
<1>2. Tail(s) = <<>> <=> Len(Tail(s)) = 0
  BY <1>1, EmptySeq
<1> QED
  BY <1>1, <1>2, HeadTailProperties, LenProperties

\* What a call has left is distinct, and part of what it was asked.
LEMMA LeftIs ==
    ASSUME TablesOK, TasksOK, NEW p \in Call
    PROVE  /\ Len(left[p]) \in Nat /\ DOMAIN left[p] = 1..Len(left[p])
           /\ \A i, j \in 1..Len(left[p]) : i # j => left[p][i] # left[p][j]
           /\ Ahead(p) \subseteq Asked(p)
           /\ Asked(p) # {}
           /\ command[p].kind = "resolve" => Asked(p) \subseteq Level
           /\ command[p].kind # "resolve" => Asked(p) \subseteq Key
<1>1. command \in [Call -> Commands]
  BY DEF TablesOK
<1>2. \E S : left[p] \in Seq(S)
  BY DEF TasksOK
<1>3. Len(left[p]) \in Nat /\ DOMAIN left[p] = 1..Len(left[p])
  BY <1>2, LenProperties
<1> DEFINE all == command[p].list
           gone == Len(all) - Len(left[p])
<1>4. /\ Len(all) \in Nat \ {0} /\ Len(left[p]) <= Len(all)
      /\ \A i \in 1..Len(left[p]) : left[p][i] = all[gone + i]
      /\ \A i, j \in 1..Len(all) : i # j => all[i] # all[j]
      /\ Asked(p) = {all[i] : i \in 1..Len(all)}
  BY <1>1, ListIs DEF TasksOK
<1>5. \A i \in 1..Len(left[p]) : gone + i \in 1..Len(all)
  <2>1. \A m, n \in Nat : m <= n => \A i \in 1..m : (n - m) + i \in 1..n
    OBVIOUS
  <2>2. Len(all) \in Nat /\ Len(left[p]) \in Nat /\ Len(left[p]) <= Len(all)
    BY <1>3, <1>4
  <2> QED
    BY <2>1, <2>2
<1>6. \A i, j \in 1..Len(left[p]) : i # j => left[p][i] # left[p][j]
  <2> SUFFICES ASSUME NEW i \in 1..Len(left[p]), NEW j \in 1..Len(left[p]), i # j
               PROVE  left[p][i] # left[p][j]
    OBVIOUS
  <2>1. gone + i # gone + j
    BY <1>3, <1>4
  <2> QED
    BY <1>4, <1>5, <2>1
<1>7. Ahead(p) \subseteq Asked(p)
  BY <1>3, <1>4, <1>5 DEF Ahead
<1>8. all[1] \in Asked(p)
  BY <1>4
<1>9. /\ command[p].kind = "resolve" => \A i \in 1..Len(all) : all[i] \in Level
      /\ command[p].kind # "resolve" => \A i \in 1..Len(all) : all[i] \in Key
  BY <1>1, ListIs, ElementOfSeq
<1>10. /\ command[p].kind = "resolve" => Asked(p) \subseteq Level
       /\ command[p].kind # "resolve" => Asked(p) \subseteq Key
  BY <1>4, <1>9
<1> HIDE DEF all, gone
<1> QED
  BY <1>3, <1>6, <1>7, <1>8, <1>10

LEMMA NextInLeft ==
    ASSUME TablesOK, TasksOK, NEW p \in Call, left[p] # <<>>
    PROVE  /\ Len(left[p]) \in Nat \ {0} /\ Here(p) = left[p][1] /\ Here(p) \in Ahead(p)
           /\ command[p].kind = "resolve" => Here(p) \in Level /\ Tail(left[p]) \in Seq(Level)
           /\ command[p].kind # "resolve" => Here(p) \in Key /\ Tail(left[p]) \in Seq(Key)
           /\ Len(Tail(left[p])) = Len(left[p]) - 1
           /\ \A i \in 1..(Len(left[p]) - 1) : Tail(left[p])[i] = left[p][i + 1]
           /\ Tail(left[p]) = <<>> <=> Len(left[p]) = 1
           /\ {Tail(left[p])[i] : i \in DOMAIN Tail(left[p])} = Ahead(p) \ {Here(p)}
<1>1. /\ command[p].kind = "resolve" => left[p] \in Seq(Level)
      /\ command[p].kind # "resolve" => left[p] \in Seq(Key)
  BY DEF TasksOK
<1>2. PICK S : left[p] \in Seq(S)
  BY <1>1
<1>3. /\ Len(left[p]) \in Nat \ {0} /\ Here(p) = left[p][1]
      /\ Len(Tail(left[p])) = Len(left[p]) - 1
      /\ \A i \in 1..(Len(left[p]) - 1) : Tail(left[p])[i] = left[p][i + 1]
      /\ Tail(left[p]) = <<>> <=> Len(left[p]) = 1
      /\ DOMAIN left[p] = 1..Len(left[p]) /\ DOMAIN Tail(left[p]) = 1..(Len(left[p]) - 1)
  BY <1>2, FirstAndRest DEF Here
<1>4. /\ command[p].kind = "resolve" => Here(p) \in Level /\ Tail(left[p]) \in Seq(Level)
      /\ command[p].kind # "resolve" => Here(p) \in Key /\ Tail(left[p]) \in Seq(Key)
  BY <1>1, FirstAndRest DEF Here
<1>5. \A i, j \in 1..Len(left[p]) : i # j => left[p][i] # left[p][j]
  BY LeftIs
<1>6. \A x : (\E i \in 1..(Len(left[p]) - 1) : Tail(left[p])[i] = x)
             <=> x # left[p][1] /\ \E j \in 1..Len(left[p]) : left[p][j] = x
  <2> SUFFICES ASSUME NEW x
               PROVE  (\E i \in 1..(Len(left[p]) - 1) : Tail(left[p])[i] = x)
                      <=> x # left[p][1] /\ \E j \in 1..Len(left[p]) : left[p][j] = x
    OBVIOUS
  <2>1. ASSUME NEW i \in 1..(Len(left[p]) - 1), Tail(left[p])[i] = x
        PROVE  x # left[p][1] /\ \E j \in 1..Len(left[p]) : left[p][j] = x
    <3>1. i + 1 \in 1..Len(left[p]) /\ i + 1 # 1 /\ 1 \in 1..Len(left[p])
      BY <1>3
    <3> QED
      BY <1>3, <1>5, <2>1, <3>1
  <2>2. ASSUME NEW j \in 1..Len(left[p]), left[p][j] = x, x # left[p][1]
        PROVE  \E i \in 1..(Len(left[p]) - 1) : Tail(left[p])[i] = x
    <3>1. j - 1 \in 1..(Len(left[p]) - 1) /\ (j - 1) + 1 = j
      BY <1>3, <2>2
    <3> QED
      BY <1>3, <2>2, <3>1
  <2> QED
    BY <2>1, <2>2
<1>7. {Tail(left[p])[i] : i \in DOMAIN Tail(left[p])} = Ahead(p) \ {Here(p)}
  <2> DEFINE rest == Tail(left[p])
             n == Len(left[p])
             here == Here(p)
  <2>1. {rest[i] : i \in 1..(n - 1)} = {left[p][j] : j \in 1..n} \ {here}
    <3> HIDE DEF rest, n, here
    <3>1. \A x : (\E i \in 1..(n - 1) : rest[i] = x) <=> x # here /\ \E j \in 1..n : left[p][j] = x
      BY <1>3, <1>6 DEF rest, n, here
    <3> QED
      BY <3>1
  <2> QED
    BY <1>3, <2>1 DEF Ahead
<1>8. Here(p) \in Ahead(p)
  BY <1>3 DEF Ahead
<1> QED
  BY <1>3, <1>4, <1>7, <1>8

-----------------------------------------------------------------------------
(* Preferences: what a step is *)

Begins(p) ==
    /\ step[p] = "idle" /\ ~command[p].transactional
    /\ \/ /\ command[p].kind \in {"upsert", "delete"} /\ MoveTo(p, "find")
          /\ UNCHANGED history
       \/ /\ command[p].kind = "resolve" /\ MoveTo(p, "list")
          /\ history' = [history EXCEPT !.was[p] =
                             [k \in Key |-> {InOneState(rows, command[p].list, k)}]]
    /\ UNCHANGED <<rows, command, left, existing, outcome, saved, layers, reply, stale>>

Looks(p) ==
    /\ step[p] = "find"
    /\ existing' = [existing EXCEPT ![p] = Cell(p)] /\ MoveTo(p, "write")
    /\ history' =
           IF /\ command[p].kind = "upsert"
              /\ \E q \in Call \ {p} : Upserting(q, command[p].level, Here(p))
           THEN [history EXCEPT !.overlapped = @ \cup {<<command[p].level, Here(p)>>}]
           ELSE history
    /\ UNCHANGED <<rows, command, left, outcome, saved, layers, reply, stale>>

GivesUp(p) ==
    /\ step[p] \in {"find", "write"} /\ Settle(p, "failed")
    /\ UNCHANGED <<rows, command, saved, layers, stale, history>>

\* The row an upsert or a delete leaves.
NewRow(p) == IF command[p].kind = "upsert" THEN Upserted(p) ELSE NoRow

Writes(p) ==
    /\ step[p] = "write" /\ Cell(p).id = existing[p].id
    /\ Store(p, NewRow(p)) /\ Applied(p)
    /\ UNCHANGED <<command, layers>>

Skips(p) ==
    /\ step[p] = "write" /\ command[p].kind = "delete"
    /\ MoveTo(p, "emit") /\ NoSettle
    /\ UNCHANGED <<rows, command, saved, layers, stale, history>>

Aborts(p) ==
    /\ step[p] = "list" /\ Finish(p, "error")
    /\ UNCHANGED <<rows, command, left, existing, outcome, saved, layers, stale, history>>

PreferenceStep(p) ==
    \/ RefuseTransactional(p) \/ Begins(p) \/ Looks(p) \/ GivesUp(p) \/ Writes(p) \/ Skips(p)
    \/ EmitPreferenceHook(p) \/ ListPreferences(p) \/ Aborts(p) \/ Die(p)

LEMMA NextIsPreferenceStep ==
    ASSUME ShapeInv, PreferenceNext
    PROVE  \E p \in Call : PreferenceStep(p)
<1>1. PICK p \in Call :
        \/ RefuseTransactional(p) \/ StartUpsert(p) \/ StartDelete(p) \/ StartQuery(p)
        \/ FindPreference(p) \/ UpsertPreference(p) \/ DeletePreference(p)
        \/ EmitPreferenceHook(p) \/ ListPreferences(p) \/ FailStatement(p) \/ Die(p)
  BY DEF PreferenceNext
<1>2. step[p] \in {"find", "write", "emit"} => command[p].kind \in {"upsert", "delete"}
  BY CommandIs DEF ShapeInv, TablesOK, TasksOK
<1>3. CASE StartUpsert(p) \/ StartDelete(p) \/ StartQuery(p)
  BY <1>3 DEF StartUpsert, StartDelete, StartQuery, Begin, Begins, PreferenceStep
<1>4. CASE FindPreference(p)
  <2>1. CASE Settle(p, "failed") /\ command[p].kind = "delete"
    <3>1. UNCHANGED <<rows, command, saved, layers, stale, history>>
      BY <1>4, <2>1 DEF FindPreference
    <3> QED
      BY <1>4, <2>1, <3>1 DEF FindPreference, GivesUp, PreferenceStep
  <2>2. CASE /\ existing' = [existing EXCEPT ![p] = Cell(p)]
             /\ MoveTo(p, "write") /\ UNCHANGED <<outcome, left, reply>>
    <3>1. (\E q \in Call \ {p} :
              /\ step[q] = "write" /\ Here(q) = Here(p)
              /\ command[q].level = command[p].level
              /\ command[p].kind = "upsert" /\ command[q].kind = "upsert")
          <=> /\ command[p].kind = "upsert"
              /\ \E q \in Call \ {p} : Upserting(q, command[p].level, Here(p))
      BY DEF Upserting
    <3> QED
      BY <1>4, <2>2, <3>1 DEF FindPreference, Looks, PreferenceStep
  <2> QED
    BY <1>4, <2>1, <2>2 DEF FindPreference
<1>5. CASE UpsertPreference(p) \/ DeletePreference(p)
  <2>1. step[p] = "write" /\ UNCHANGED <<command, layers>>
    BY <1>5 DEF UpsertPreference, DeletePreference
  <2>2. \/ Cell(p).id = existing[p].id /\ Store(p, NewRow(p)) /\ Applied(p)
        \/ Settle(p, "failed") /\ UNCHANGED <<rows, saved, stale, history>>
        \/ /\ command[p].kind = "delete" /\ MoveTo(p, "emit") /\ NoSettle
           /\ UNCHANGED <<rows, saved, stale, history>>
    BY <1>5 DEF UpsertPreference, DeletePreference, NewRow
  <2> QED
    BY <2>1, <2>2 DEF Writes, GivesUp, Skips, PreferenceStep
<1>6. CASE FailStatement(p)
  BY <1>6 DEF FailStatement, GivesUp, Aborts, PreferenceStep
<1> QED
  BY <1>1, <1>3, <1>4, <1>5, <1>6 DEF PreferenceStep

\* How a step that is done with the key in hand moves the call.
LEMMA SettleMoves ==
    ASSUME ShapeInv, NEW p \in Call, NEW what \in {"ok", "failed"},
           step[p] \in {"find", "write", "emit"}, Settle(p, what)
    PROVE  /\ left[p] # <<>> /\ Here(p) \in Key
           /\ outcome' = [outcome EXCEPT ![p][Here(p)] = what]
           /\ left' = [left EXCEPT ![p] = Tail(left[p])]
           /\ existing' = [existing EXCEPT ![p] = NoRow]
           /\ \/ /\ Len(left[p]) > 1 /\ step' = [step EXCEPT ![p] = "find"]
                 /\ UNCHANGED reply
              \/ /\ Len(left[p]) = 1 /\ step' = [step EXCEPT ![p] = "done"]
                 /\ \E told \in {"ok", "error"} :
                       /\ reply' = [reply EXCEPT ![p] = told]
                       /\ told = "ok" <=> what = "ok" /\ \A k \in Key : outcome[p][k] # "failed"
<1>1. left[p] # <<>> /\ command[p].kind # "resolve"
  BY DEF ShapeInv, TasksOK, UnderWay
<1>2. Len(left[p]) \in Nat \ {0} /\ Here(p) \in Key
  BY <1>1, NextInLeft DEF ShapeInv
<1>3. Len(left[p]) > 1 \/ Len(left[p]) = 1
  <2>1. \A n \in Nat \ {0} : n > 1 \/ n = 1
    OBVIOUS
  <2> QED
    BY <1>2, <2>1
<1> DEFINE good == what = "ok" /\ \A k \in Key : outcome[p][k] # "failed"
<1>4. PICK told \in {"ok", "error"} : told = IF good THEN "ok" ELSE "error"
  OBVIOUS
<1> HIDE DEF good
<1>5. CASE Len(left[p]) > 1
  BY <1>1, <1>2, <1>5 DEF Settle, MoveTo
<1>6. CASE Len(left[p]) = 1
  <2>1. step' = [step EXCEPT ![p] = "done"] /\ reply' = [reply EXCEPT ![p] = told]
    BY <1>4, <1>6 DEF Settle, Finish, MoveTo, good
  <2>2. told = "ok" <=> good
    BY <1>4
  <2> QED
    BY <1>1, <1>2, <1>6, <2>1, <2>2 DEF Settle, good
<1> QED
  BY <1>3, <1>5, <1>6

-----------------------------------------------------------------------------
(* The greatest number of a set of numbers with a bound: what is at most as    *)
(* great as one of them is an interval, whose length is the greatest.          *)

LEMMA GreatestExists ==
    ASSUME NEW n \in Nat, NEW S \in SUBSET (1..n), S # {}
    PROVE  \E x \in S : \A y \in S : x >= y
<1> DEFINE D == {i \in 1..n : \E s \in S : i <= s}
           c == Cardinality(D)
<1>1. /\ IsFiniteSet(1..n) /\ Cardinality(1..n) = n
      /\ \A m \in Nat : IsFiniteSet(1..m) /\ Cardinality(1..m) = m
  BY FS_Interval
<1>2. \A i \in D, j \in 1..n : j <= i => j \in D
  OBVIOUS
<1>3. S \subseteq D /\ D \subseteq 1..n
  OBVIOUS
<1>4. \A i \in D : \E s \in S : i <= s
  OBVIOUS
<1> HIDE DEF D
<1>5. IsFiniteSet(D) /\ c \in Nat
  <2>1. IsFiniteSet(D)
    BY <1>1, <1>3, FS_Subset
  <2> QED
    BY <2>1, FS_CardinalityType
<1>6. ASSUME NEW m \in Nat, D \subseteq 1..m PROVE c <= m
  <2>1. IsFiniteSet(1..m) /\ Cardinality(1..m) = m
    BY <1>1
  <2>2. Cardinality(D) <= Cardinality(1..m)
    BY <1>6, <2>1, FS_Subset
  <2> QED
    BY <2>1, <2>2
<1>7. ASSUME NEW m \in Nat, 1..m \subseteq D PROVE m <= c
  <2>1. Cardinality(1..m) = m
    BY <1>1
  <2>2. Cardinality(1..m) <= Cardinality(D)
    BY <1>5, <1>7, FS_Subset
  <2> QED
    BY <2>1, <2>2
<1>8. D # {}
  BY <1>3
<1>9. c \in D
  <2> SUFFICES ASSUME c \notin D PROVE FALSE
    OBVIOUS
  <2>1. \A i \in D : i < c
    <3> SUFFICES ASSUME NEW i \in D, c <= i PROVE FALSE
      BY <1>5, <1>3
    <3>1. i \in D /\ i \in 1..n /\ c <= i
      BY <1>3
    <3>2. c = 0
      BY <1>5, <1>2, <3>1
    <3>3. \E d \in D : TRUE
      BY <1>8
    <3>4. D \subseteq 1..0
      <4>1. c <= 0 /\ Cardinality(D) = 0
        BY <3>2
      <4> QED
        BY <1>5, <4>1, FS_EmptySet
    <3> QED
      BY <1>3, <3>3, <3>4
  <2>2. PICK d \in D : TRUE
    BY <1>8
  <2>3. d \in 1..n /\ d < c
    BY <1>3, <2>1, <2>2
  <2>4. c - 1 \in Nat
    BY <1>5, <2>3
  <2>5. D \subseteq 1..(c - 1)
    <3> SUFFICES ASSUME NEW i \in D PROVE i \in 1..(c - 1)
      OBVIOUS
    <3>1. i \in 1..n /\ i < c
      BY <1>3, <2>1
    <3> QED
      BY <1>5, <3>1
  <2>6. c <= c - 1
    BY <1>6, <2>4, <2>5
  <2> QED
    BY <1>5, <2>6
<1>10. c + 1 \notin D
  <2> SUFFICES ASSUME c + 1 \in D PROVE FALSE
    OBVIOUS
  <2>1. 1..(c + 1) \subseteq D
    BY <1>5, <1>2, <1>3
  <2>2. c + 1 <= c
    BY <1>5, <1>7, <2>1
  <2> QED
    BY <1>5, <2>2
<1>11. PICK x \in S : c <= x
  BY <1>9, <1>4
<1>12. \A y \in S : y <= c
  <2> SUFFICES ASSUME NEW y \in S, y > c PROVE FALSE
    BY <1>5, <1>3
  <2>1. y \in 1..n /\ c + 1 <= y /\ c + 1 \in 1..n
    BY <1>5, <1>3
  <2> QED
    BY <1>2, <1>3, <1>10, <2>1
<1>13. x = c
  BY <1>5, <1>3, <1>12, <1>11
<1> QED
  BY <1>5, <1>3, <1>12, <1>13

LEMMA MaxIs ==
    ASSUME NEW n \in Nat, NEW S \in SUBSET (1..n), S # {}
    PROVE  Max(S) \in S /\ \A y \in S : y <= Max(S)
<1>1. \E x \in S : \A y \in S : x >= y
  BY GreatestExists
<1>2. Max(S) \in S /\ \A y \in S : Max(S) >= y
  BY <1>1 DEF Max
<1> QED
  BY <1>2

-----------------------------------------------------------------------------
(* Preferences: layers and answers *)

LEMMA LayerIs ==
    ASSUME NEW table \in [Level -> [Key -> Row]], NEW l \in Level
    PROVE  Layer(table, l) \in [Key -> Row]
<1> SUFFICES ASSUME NEW k \in Key
             PROVE  (IF table[l][k] # NoRow THEN table[l][k]
                     ELSE IF l = System THEN Default(k) ELSE NoRow) \in Row
  BY DEF Layer
<1>1. Default(k) \in Row
  <2> DEFINE parts == {f \in Part : <<k, f>> \in Defaults}
  <2>1. parts \in SUBSET Part
    OBVIOUS
  <2>2. Default(k) = IF parts = {} THEN NoRow ELSE [NoRow EXCEPT !.value = "default", !.has = parts]
    BY DEF Default
  <2> HIDE DEF parts
  <2>3. [NoRow EXCEPT !.value = "default", !.has = parts] \in Row
    BY <2>1 DEF NoRow, Row, Value
  <2> QED
    BY <2>2, <2>3, EmptyRows
<1> QED
  BY <1>1, EmptyRows

\* A row that is there has a value, and is what its level contributes.
LEMMA RowLayer ==
    ASSUME NEW table \in [Level -> [Key -> Row]], NEW l \in Level, NEW k \in Key,
           GoodRow(table[l][k]), table[l][k] # NoRow
    PROVE  Layer(table, l)[k] = table[l][k] /\ Layer(table, l)[k].value # "none"
<1>1. Layer(table, l)[k] = table[l][k]
  BY DEF Layer
<1>2. table[l][k].value \in Call \cup Old
  BY DEF GoodRow
<1> QED
  BY <1>1, <1>2, PreferenceAssumption

\* What a level contributes for a key depends on its row for the key only.
LEMMA SameLayer ==
    ASSUME NEW table, NEW other, NEW l, NEW k \in Key, table[l][k] = other[l][k]
    PROVE  Layer(table, l)[k] = Layer(other, l)[k]
  BY DEF Layer

LEMMA ShownIs ==
    ASSUME NEW table \in [Level -> [Key -> Row]]
    PROVE  /\ Shown(table) \in [Level -> [Key -> Row]]
           /\ \A l \in Level : Shown(table)[l] = Layer(table, l)
  BY LayerIs DEF Shown

LEMMA LevelMax ==
    ASSUME NEW S \in SUBSET Level, S # {}
    PROVE  Max(S) \in S /\ \A y \in S : y <= Max(S)
  BY MaxIs, PreferenceAssumption DEF Level

LEMMA AnswerType ==
    ASSUME NEW view \in [Level -> [Key -> Row]], NEW levels \in SUBSET Level, NEW k \in Key
    PROVE  Answer(view, levels, k) \in Verdict
<1>1. ASSUME NEW f \in Part PROVE Saying(view, levels, k, f) \in Value
  <2> DEFINE having == Having(view, levels, k, f)
  <2>1. CASE having = {}
    BY <2>1 DEF Saying, Value
  <2>2. CASE having # {}
    <3>1. having \in SUBSET Level
      BY DEF Having
    <3>2. Saying(view, levels, k, f) = view[Max(having)][k].value
      BY <2>2 DEF Saying
    <3> HIDE DEF having
    <3>3. Max(having) \in Level
      BY <2>2, <3>1, LevelMax
    <3>4. view[Max(having)][k] \in Row
      BY <3>3
    <3> QED
      BY <3>2, <3>4 DEF Row
  <2> QED
    BY <2>1, <2>2
<1>2. Numbering(view, levels, k) \in Nat
  <2> DEFINE holding == Holders(view, levels, k)
  <2>1. CASE holding = {}
    BY <2>1 DEF Numbering
  <2>2. CASE holding # {}
    <3>1. holding \in SUBSET Level
      BY DEF Holders
    <3>2. Numbering(view, levels, k) = view[Max(holding)][k].version
      BY <2>2 DEF Numbering
    <3> HIDE DEF holding
    <3>3. Max(holding) \in Level
      BY <2>2, <3>1, LevelMax
    <3>4. view[Max(holding)][k] \in Row
      BY <3>3
    <3> QED
      BY <3>2, <3>4 DEF Row
  <2> QED
    BY <2>1, <2>2
<1> QED
  BY <1>1, <1>2 DEF Answer, Verdict

\* An answer depends on what the levels hold for the key only.
LEMMA SameAnswer ==
    ASSUME NEW view, NEW other, NEW levels \in SUBSET Level, NEW k,
           \A l \in levels : view[l][k] = other[l][k]
    PROVE  Answer(view, levels, k) = Answer(other, levels, k)
<1>1. ASSUME NEW f PROVE Saying(view, levels, k, f) = Saying(other, levels, k, f)
  <2>1. Having(view, levels, k, f) = Having(other, levels, k, f)
    BY DEF Having
  <2>2. Having(view, levels, k, f) \in SUBSET levels /\ Having(view, levels, k, f) \in SUBSET Level
    BY DEF Having
  <2>3. Having(view, levels, k, f) # {} => Max(Having(view, levels, k, f)) \in levels
    BY <2>2, LevelMax
  <2> QED
    BY <2>1, <2>3 DEF Saying
<1>2. Numbering(view, levels, k) = Numbering(other, levels, k)
  <2>1. Holders(view, levels, k) = Holders(other, levels, k)
    BY DEF Holders
  <2>2. Holders(view, levels, k) \in SUBSET levels /\ Holders(view, levels, k) \in SUBSET Level
    BY DEF Holders
  <2>3. Holders(view, levels, k) # {} => Max(Holders(view, levels, k)) \in levels
    BY <2>2, LevelMax
  <2> QED
    BY <2>1, <2>3 DEF Numbering
<1> QED
  BY <1>1, <1>2 DEF Answer

LEMMA InOneStateIs ==
    ASSUME NEW table \in [Level -> [Key -> Row]], NEW list, NEW k,
           {list[i] : i \in DOMAIN list} \subseteq Level
    PROVE  InOneState(table, list, k) = Answer(Shown(table), {list[i] : i \in DOMAIN list}, k)
<1> DEFINE levels == {list[i] : i \in DOMAIN list}
           having(f) == {l \in levels : f \in Layer(table, l)[k].has}
           holding == {l \in levels : Layer(table, l)[k].value # "none"}
<1>1. \A l \in levels : Shown(table)[l] = Layer(table, l)
  BY ShownIs
<1>2. InOneState(table, list, k) =
         [value |-> [f \in Part |->
                        IF having(f) = {} THEN "none" ELSE Layer(table, Max(having(f)))[k].value],
          version |-> IF holding = {} THEN 0 ELSE Layer(table, Max(holding))[k].version]
  BY DEF InOneState
<1>3. ASSUME NEW f \in Part
      PROVE  Saying(Shown(table), levels, k, f) =
                IF having(f) = {} THEN "none" ELSE Layer(table, Max(having(f)))[k].value
  <2>1. Having(Shown(table), levels, k, f) = having(f) /\ having(f) \in SUBSET levels
    BY <1>1 DEF Having
  <2>2. having(f) # {} => Max(having(f)) \in levels
    BY <2>1, LevelMax
  <2> HIDE DEF having, levels
  <2> QED
    BY <1>1, <2>1, <2>2 DEF Saying
<1>4. Numbering(Shown(table), levels, k) =
         IF holding = {} THEN 0 ELSE Layer(table, Max(holding))[k].version
  <2>1. Holders(Shown(table), levels, k) = holding /\ holding \in SUBSET levels
    BY <1>1 DEF Holders
  <2>2. holding # {} => Max(holding) \in levels
    BY <2>1, LevelMax
  <2> HIDE DEF holding, levels
  <2> QED
    BY <1>1, <2>1, <2>2 DEF Numbering
<1> HIDE DEF having, holding, levels
<1> QED
  BY <1>2, <1>3, <1>4 DEF Answer, levels

-----------------------------------------------------------------------------
(* Preferences: every variable keeps its shape *)

LEMMA PreferenceInitShape == PreferenceInit => ShapeInv
<1> SUFFICES ASSUME PreferenceInit PROVE ShapeInv
  OBVIOUS
<1>1. \A first \in FirstRows : first \in Row /\ GoodRow(first)
  <2> SUFFICES ASSUME NEW v \in Old, NEW parts \in SUBSET Part
               PROVE  LET first == [id |-> v, value |-> v, has |-> parts, version |-> 1] IN
                      first \in Row /\ GoodRow(first)
    BY DEF FirstRows
  <2> QED
    BY PreferenceAssumption DEF Row, Value, GoodRow
<1>2. command \in [Call -> Commands]
  BY DEF PreferenceInit
<1>3. TablesOK
  <2>0. rows \in [Level -> [Key -> {NoRow} \cup FirstRows]]
    BY DEF PreferenceInit
  <2>1. rows \in [Level -> [Key -> Row]]
    BY <1>1, <2>0, EmptyRows
  <2>2. \A l \in Level, k \in Key : GoodRow(rows[l][k])
    BY <1>1, <2>0, EmptyRows
  <2>3. /\ saved \in [Call -> [Key -> Row]] /\ layers \in [Call -> [Level -> [Key -> Row]]]
        /\ \A p \in Call, k \in Key : saved[p][k] = NoRow
    BY EmptyRows DEF PreferenceInit
  <2>4. \A p \in Call : command[p].list \in Seq(Nat)
    <3>1. Key \subseteq Nat /\ Level \subseteq Nat
      BY PreferenceAssumption DEF Level
    <3> QED
      BY <1>2, <3>1, ListIs, SeqMonotonic
  <2> QED
    BY <1>2, <2>1, <2>2, <2>3, <2>4, EmptyRows DEF PreferenceInit, TablesOK, Phases
<1>4. HistoryOK
  BY DEF PreferenceInit, HistoryOK, Was, Moved
<1>5. TasksOK
  <2> SUFFICES ASSUME NEW p \in Call
               PROVE  /\ command[p].kind = "resolve" => left[p] \in Seq(Level)
                      /\ command[p].kind # "resolve" => left[p] \in Seq(Key)
                      /\ Len(left[p]) <= Len(command[p].list)
                      /\ \A i \in 1..Len(left[p]) :
                             left[p][i] = command[p].list[Len(command[p].list) - Len(left[p]) + i]
                      /\ left[p] = command[p].list
                      /\ step[p] = "idle"
    BY DEF TasksOK, UnderWay
  <2>1. left[p] = command[p].list /\ step[p] = "idle"
    BY DEF PreferenceInit
  <2>2. /\ Len(left[p]) \in Nat
        /\ command[p].kind = "resolve" => left[p] \in Seq(Level)
        /\ command[p].kind # "resolve" => left[p] \in Seq(Key)
    BY <1>2, <2>1, ListIs
  <2>3. \A i \in 1..Len(left[p]) : Len(left[p]) - Len(left[p]) + i = i
    BY <2>2
  <2> QED
    BY <2>1, <2>2, <2>3
<1> QED
  BY <1>3, <1>4, <1>5 DEF ShapeInv

\* What an upsert or a delete leaves in the table.
LEMMA NewRowIs ==
    ASSUME ShapeInv, NEW p \in Call
    PROVE  /\ GoodRow(NewRow(p))
           /\ command[p].kind = "upsert" =>
                 /\ NewRow(p) = Upserted(p) /\ NewRow(p) # NoRow
                 /\ existing[p] = NoRow => NewRow(p).id = p /\ NewRow(p).version = 1
                 /\ existing[p] # NoRow =>
                       /\ NewRow(p).id = existing[p].id
                       /\ NewRow(p).version = existing[p].version + 1
           /\ command[p].kind # "upsert" => NewRow(p) = NoRow
           /\ NewRow(p).value \in {p, "none"} /\ NewRow(p).has \in SUBSET Part
<1>1. GoodRow(existing[p]) /\ existing[p] \in Row
  BY DEF ShapeInv, TablesOK
<1>2. existing[p].version \in Nat /\ existing[p].id \in Call \cup Old \cup {"none"}
      /\ command[p].has \in SUBSET Part
  BY <1>1, CommandIs DEF Row, ShapeInv, TablesOK
<1>3. p # "none"
  BY PreferenceAssumption
<1>4. CASE command[p].kind # "upsert"
  BY <1>4, EmptyRows DEF NewRow
<1>5. CASE command[p].kind = "upsert" /\ existing[p] = NoRow
  <2>1. NewRow(p) = [id |-> p, value |-> p, has |-> command[p].has, version |-> 1]
    BY <1>5 DEF NewRow, Upserted
  <2>2. NewRow(p) \in Row
    BY <1>2, <2>1 DEF Row, Value
  <2>3. /\ NewRow(p).id = p /\ NewRow(p).value = p /\ NewRow(p).version = 1
        /\ NewRow(p).has \in SUBSET Part
    BY <1>2, <2>1
  <2> QED
    BY <1>3, <1>5, <2>2, <2>3, EmptyRows DEF GoodRow, NewRow
<1>6. CASE command[p].kind = "upsert" /\ existing[p] # NoRow
  <2>1. NewRow(p) = [id |-> existing[p].id, value |-> p, has |-> command[p].has,
                     version |-> existing[p].version + 1]
    BY <1>6 DEF NewRow, Upserted, NextVersion
  <2>2. NewRow(p) \in Row
    BY <1>2, <2>1 DEF Row, Value
  <2>3. /\ NewRow(p).id = existing[p].id /\ NewRow(p).value = p
        /\ NewRow(p).version = existing[p].version + 1
        /\ NewRow(p).has \in SUBSET Part
    BY <1>2, <2>1
  <2>4. existing[p].id # "none" /\ existing[p].version + 1 > 0
    BY <1>1, <1>2, <1>6 DEF GoodRow
  <2> QED
    BY <1>3, <1>6, <2>2, <2>3, <2>4, EmptyRows DEF GoodRow, NewRow
<1> QED
  BY <1>4, <1>5, <1>6

\* What a change of the table adds to the history.
LEMMA RememberIs ==
    ASSUME ShapeInv, NEW table \in [Level -> [Key -> Row]], NEW l \in Level, NEW k \in Key,
           NEW kind \in {"upsert", "delete"}, Remember(table, kind, l, k)
    PROVE  /\ HistoryOK' /\ history'.overlapped = history.overlapped
           /\ \A p \in Call, j \in Key :
                 IF Reading(p) /\ j = k
                 THEN /\ history'.was[p][j] =
                             history.was[p][k] \cup {Answer(Shown(table), Asked(p), k)}
                      /\ history'.moved[p][j] = history.moved[p][k] \cup {<<kind, l, table[l][k].has>>}
                 ELSE /\ history'.was[p][j] = history.was[p][j]
                      /\ history'.moved[p][j] = history.moved[p][j]
<1>1. /\ history.was \in Was /\ history.moved \in Moved
      /\ history.overlapped \in SUBSET (Level \X Key)
      /\ history \in [was : Was, moved : Moved, overlapped : SUBSET (Level \X Key)]
  BY DEF ShapeInv, HistoryOK
<1>2. \A p \in Call : Reading(p) =>
          /\ InOneState(table, command[p].list, k) = Answer(Shown(table), Asked(p), k)
          /\ InOneState(table, command[p].list, k) \in Verdict
  <2> SUFFICES ASSUME NEW p \in Call, Reading(p)
               PROVE  /\ InOneState(table, command[p].list, k) = Answer(Shown(table), Asked(p), k)
                      /\ Answer(Shown(table), Asked(p), k) \in Verdict
    OBVIOUS
  <2>1. Asked(p) \subseteq Level
    BY LeftIs DEF ShapeInv, Reading
  <2>2. Shown(table) \in [Level -> [Key -> Row]]
    BY ShownIs
  <2> QED
    BY <2>1, <2>2, InOneStateIs, AnswerType DEF Asked
<1> DEFINE was == [p \in Call |-> [j \in Key |->
                     IF Reading(p) /\ j = k
                     THEN history.was[p][k] \cup {InOneState(table, command[p].list, k)}
                     ELSE history.was[p][j]]]
           moved == [p \in Call |-> [j \in Key |->
                       IF Reading(p) /\ j = k THEN history.moved[p][k] \cup {<<kind, l, table[l][k].has>>}
                       ELSE history.moved[p][j]]]
<1>3. history' = [history EXCEPT !.was = was, !.moved = moved]
  BY DEF Remember
<1>4. was \in Was
  BY <1>1, <1>2 DEF Was
<1>5. moved \in Moved
  <2>1. table[l][k].has \in SUBSET Part
    BY DEF Row
  <2> QED
    BY <1>1, <2>1 DEF Moved
<1>6. \A p \in Call, j \in Key :
         was[p][j] = IF Reading(p) /\ j = k
                     THEN history.was[p][k] \cup {Answer(Shown(table), Asked(p), k)}
                     ELSE history.was[p][j]
  BY <1>1, <1>2 DEF Was
<1>7. \A p \in Call, j \in Key :
         moved[p][j] = IF Reading(p) /\ j = k THEN history.moved[p][k] \cup {<<kind, l, table[l][k].has>>}
                       ELSE history.moved[p][j]
  BY <1>1 DEF Moved
<1> HIDE DEF was, moved
<1>8. HistoryOK' /\ history'.was = was /\ history'.moved = moved
      /\ history'.overlapped = history.overlapped
  BY <1>1, <1>3, <1>4, <1>5 DEF HistoryOK
<1> QED
  BY <1>6, <1>7, <1>8

\* A call stays where it is in its list, or is through with the first item.
Stays(p) ==
    /\ UNCHANGED <<command, left>>
    /\ \E place \in Phases \ {"idle"} :
          /\ step' = [step EXCEPT ![p] = place]
          /\ place \in {"find", "write", "emit", "list"} => left[p] # <<>>
          /\ place \in {"find", "write", "emit"} =>
                 command[p].kind # "resolve" /\ ~command[p].transactional
          /\ place = "list" => command[p].kind = "resolve"

GoesOn(p) ==
    /\ UNCHANGED command /\ left[p] # <<>>
    /\ left' = [left EXCEPT ![p] = Tail(left[p])]
    /\ \E place \in {"find", "list", "done"} :
          /\ step' = [step EXCEPT ![p] = place]
          /\ place = IF Len(left[p]) > 1 THEN IF step[p] = "list" THEN "list" ELSE "find"
                     ELSE "done"
          /\ place = "find" => command[p].kind # "resolve" /\ ~command[p].transactional
          /\ place = "list" => command[p].kind = "resolve"

LEMMA StepStays ==
    ASSUME ShapeInv, NEW p \in Call, PreferenceStep(p)
    PROVE  Stays(p) \/ GoesOn(p)
<1>1. /\ step \in [Call -> Phases] /\ command \in [Call -> Commands]
      /\ step[p] \in {"find", "write", "emit"} =>
             command[p].kind # "resolve" /\ ~command[p].transactional
      /\ step[p] = "list" => command[p].kind = "resolve"
      /\ step[p] \in {"find", "write", "emit", "list"} => left[p] # <<>>
      /\ step[p] = "idle" => left[p] = command[p].list
  BY DEF ShapeInv, TablesOK, TasksOK, UnderWay
<1>2. step[p] = "idle" => left[p] # <<>>
  <2>1. Len(command[p].list) # 0
    BY <1>1, ListIs
  <2> QED
    BY <1>1, <2>1, EmptySeq
<1>3. \A what \in {"ok", "failed"} :
          step[p] \in {"find", "write", "emit"} /\ Settle(p, what) /\ UNCHANGED command => GoesOn(p)
  <2> SUFFICES ASSUME NEW what \in {"ok", "failed"}, step[p] \in {"find", "write", "emit"},
                      Settle(p, what), UNCHANGED command
               PROVE  GoesOn(p)
    OBVIOUS
  <2>1. left[p] # <<>> /\ left' = [left EXCEPT ![p] = Tail(left[p])]
    BY SettleMoves
  <2>2. \/ Len(left[p]) > 1 /\ step' = [step EXCEPT ![p] = "find"]
        \/ Len(left[p]) = 1 /\ step' = [step EXCEPT ![p] = "done"]
    BY SettleMoves
  <2>3. ~(1 > 1)
    OBVIOUS
  <2>4. step[p] # "list"
    OBVIOUS
  <2>5. CASE Len(left[p]) > 1 /\ step' = [step EXCEPT ![p] = "find"]
    BY <1>1, <2>1, <2>4, <2>5 DEF GoesOn
  <2>6. CASE Len(left[p]) = 1 /\ step' = [step EXCEPT ![p] = "done"]
    BY <2>1, <2>3, <2>6 DEF GoesOn
  <2> QED
    BY <2>2, <2>5, <2>6
<1>14. \A place \in {"write", "emit", "done", "crashed"} :
          /\ place \in {"write", "emit"} => step[p] \in {"find", "write"}
          /\ MoveTo(p, place) /\ UNCHANGED <<command, left>>
          => Stays(p)
  <2> SUFFICES ASSUME NEW place \in {"write", "emit", "done", "crashed"},
                      place \in {"write", "emit"} => step[p] \in {"find", "write"},
                      MoveTo(p, place), UNCHANGED <<command, left>>
               PROVE  Stays(p)
    OBVIOUS
  <2>1. place \in Phases \ {"idle"} /\ place \notin {"find", "list"}
    BY DEF Phases
  <2>2. place \in {"write", "emit"} =>
            left[p] # <<>> /\ command[p].kind # "resolve" /\ ~command[p].transactional
    BY <1>1
  <2> QED
    BY <2>1, <2>2 DEF Stays, MoveTo
<1>4. CASE RefuseTransactional(p)
  BY <1>4, <1>14 DEF RefuseTransactional, Finish
<1>5. CASE Begins(p)
  BY <1>1, <1>2, <1>5 DEF Begins, MoveTo, Stays, Phases
<1>6. CASE Looks(p)
  BY <1>6, <1>14 DEF Looks
<1>7. CASE GivesUp(p)
  BY <1>3, <1>7 DEF GivesUp
<1>8. CASE Writes(p)
  BY <1>3, <1>8, <1>14 DEF Writes, Applied, NoSettle
<1>9. CASE Skips(p)
  BY <1>9, <1>14 DEF Skips, NoSettle
<1>10. CASE EmitPreferenceHook(p)
  BY <1>3, <1>10 DEF EmitPreferenceHook
<1>11. CASE ListPreferences(p)
  <2>1. step = [step EXCEPT ![p] = step[p]]
    BY <1>1
  <2>2. step[p] = "list" /\ left[p] # <<>> /\ left' = [left EXCEPT ![p] = Tail(left[p])]
        /\ UNCHANGED command
    BY <1>1, <1>11 DEF ListPreferences
  <2>3. IF Len(left[p]) > 1 THEN step' = step ELSE step' = [step EXCEPT ![p] = "done"]
    BY <1>11 DEF ListPreferences, Finish, MoveTo
  <2>4. CASE Len(left[p]) > 1
    BY <1>1, <2>1, <2>2, <2>3, <2>4 DEF GoesOn
  <2>5. CASE ~(Len(left[p]) > 1)
    BY <2>2, <2>3, <2>5 DEF GoesOn
  <2> QED
    BY <2>4, <2>5
<1>12. CASE Aborts(p)
  BY <1>12, <1>14 DEF Aborts, Finish
<1>13. CASE Die(p)
  BY <1>13, <1>14 DEF Die
<1> QED
  BY <1>4, <1>5, <1>6, <1>7, <1>8, <1>9, <1>10, <1>11, <1>12, <1>13 DEF PreferenceStep

LEMMA TasksStep ==
    ASSUME ShapeInv, NEW p \in Call, PreferenceStep(p)
    PROVE  TasksOK'
<1>1. /\ step \in [Call -> Phases] /\ command \in [Call -> Commands] /\ TasksOK /\ TablesOK
  BY DEF ShapeInv, TablesOK
<1>2. UNCHANGED command
  BY StepStays DEF Stays, GoesOn
<1> DEFINE Fine(q) ==
       /\ command[q].kind = "resolve" => left'[q] \in Seq(Level)
       /\ command[q].kind # "resolve" => left'[q] \in Seq(Key)
       /\ Len(left'[q]) <= Len(command[q].list)
       /\ \A i \in 1..Len(left'[q]) :
              left'[q][i] = command[q].list[Len(command[q].list) - Len(left'[q]) + i]
       Placed(q) ==
       /\ step'[q] \notin {"idle", "done", "crashed"} => left'[q] # <<>>
       /\ step'[q] = "idle" => left'[q] = command[q].list
       /\ step'[q] \in {"find", "write", "emit"} =>
              command[q].kind # "resolve" /\ ~command[q].transactional
       /\ step'[q] = "list" => command[q].kind = "resolve"
<1>3. SUFFICES ASSUME NEW q \in Call PROVE Fine(q) /\ Placed(q)
  BY <1>2 DEF TasksOK, UnderWay
<1>4. CASE q # p
  <2>1. left'[q] = left[q] /\ step'[q] = step[q]
    <3>1. left \in [Call -> Seq(Nat)]
      BY <1>1 DEF TablesOK
    <3>2. CASE Stays(p)
      BY <1>1, <1>4, <3>2 DEF Stays
    <3>3. CASE GoesOn(p)
      BY <1>1, <1>4, <3>1, <3>3 DEF GoesOn
    <3> QED
      BY <3>2, <3>3, StepStays
  <2> QED
    BY <1>1, <2>1 DEF TasksOK, UnderWay
<1>5. CASE q = p /\ Stays(p)
  <2>1. left'[q] = left[q]
    BY <1>5 DEF Stays
  <2>2. Fine(q)
    BY <1>1, <2>1 DEF TasksOK
  <2>3. Placed(q)
    BY <1>1, <1>5, <2>1 DEF Stays, Phases
  <2> QED
    BY <2>2, <2>3
<1>6. CASE q = p /\ GoesOn(p)
  <2>1. left \in [Call -> Seq(Nat)] /\ left[p] # <<>>
    BY <1>1, <1>6 DEF TablesOK, GoesOn
  <2>2. left'[q] = Tail(left[p])
    BY <1>6, <2>1 DEF GoesOn
  <2> DEFINE all == command[p].list
             m == Len(left[p])
             n == Len(all)
  <2>3. /\ m \in Nat \ {0} /\ Len(Tail(left[p])) = m - 1
        /\ \A i \in 1..(m - 1) : Tail(left[p])[i] = left[p][i + 1]
        /\ Tail(left[p]) = <<>> <=> m = 1
        /\ command[p].kind = "resolve" => Tail(left[p]) \in Seq(Level)
        /\ command[p].kind # "resolve" => Tail(left[p]) \in Seq(Key)
    BY <1>1, <2>1, NextInLeft
  <2>4. /\ m <= n /\ n \in Nat
        /\ \A i \in 1..m : left[p][i] = all[n - m + i]
    BY <1>1, ListIs DEF TasksOK
  <2> HIDE DEF all, m, n
  <2>5. m - 1 <= n
    BY <2>3, <2>4
  <2>6. \A i \in 1..(m - 1) : Tail(left[p])[i] = all[n - (m - 1) + i]
    <3> SUFFICES ASSUME NEW i \in 1..(m - 1) PROVE Tail(left[p])[i] = all[n - (m - 1) + i]
      OBVIOUS
    <3>1. i + 1 \in 1..m /\ n - m + (i + 1) = n - (m - 1) + i
      BY <2>3, <2>4
    <3> QED
      BY <2>3, <2>4, <3>1
  <2>7. Fine(q)
    BY <1>6, <2>2, <2>3, <2>5, <2>6 DEF all, m, n
  <2>8. PICK place \in {"find", "list", "done"} :
          /\ step' = [step EXCEPT ![p] = place]
          /\ place # "done" => m > 1
          /\ place = "find" => command[p].kind # "resolve" /\ ~command[p].transactional
          /\ place = "list" => command[p].kind = "resolve"
    BY <1>6 DEF GoesOn, m
  <2>9. Placed(q)
    BY <1>1, <1>6, <2>2, <2>3, <2>8
  <2> QED
    BY <2>7, <2>9
<1> QED
  BY <1>4, <1>5, <1>6, StepStays

\* The row a call at work is about.
LEMMA HereIs ==
    ASSUME ShapeInv, NEW p \in Call, step[p] \in {"find", "write", "emit"}
    PROVE  /\ left[p] # <<>> /\ Here(p) \in Key /\ Here(p) \in Ahead(p)
           /\ command[p].level \in Level /\ command[p].kind \in {"upsert", "delete"}
           /\ ~command[p].transactional
           /\ Cell(p) \in Row /\ GoodRow(Cell(p))
<1>1. left[p] # <<>> /\ command[p].kind # "resolve" /\ ~command[p].transactional
  BY DEF ShapeInv, TasksOK, UnderWay
<1>2. Here(p) \in Key /\ Here(p) \in Ahead(p)
  BY <1>1, NextInLeft DEF ShapeInv
<1>3. command[p].level \in Level /\ command[p].kind \in {"upsert", "delete"}
  BY <1>1, CommandIs DEF ShapeInv, TablesOK
<1>4. Cell(p) \in Row /\ GoodRow(Cell(p))
  BY <1>2, <1>3 DEF Cell, ShapeInv, TablesOK
<1> QED
  BY <1>1, <1>2, <1>3, <1>4

\* What a write does to the table, the history and the call.
LEMMA WriteMoves ==
    ASSUME ShapeInv, NEW p \in Call, Writes(p)
    PROVE  /\ rows' \in [Level -> [Key -> Row]]
           /\ rows' = [rows EXCEPT ![command[p].level][Here(p)] = NewRow(p)]
           /\ \A l \in Level, k \in Key :
                 rows'[l][k] = IF l = command[p].level /\ k = Here(p) THEN NewRow(p) ELSE rows[l][k]
           /\ Remember(rows', command[p].kind, command[p].level, Here(p))
           /\ stale' = stale \cup {Here(p)}
           /\ UNCHANGED <<command, layers>>
           /\ \/ /\ step' = [step EXCEPT ![p] = "emit"]
                 /\ saved' = IF command[p].kind = "upsert"
                             THEN [saved EXCEPT ![p][Here(p)] = NewRow(p)] ELSE saved
                 /\ UNCHANGED <<outcome, left, existing, reply>>
              \/ Settle(p, "failed") /\ UNCHANGED saved
<1>1. step[p] = "write"
  BY DEF Writes
<1>2. /\ Here(p) \in Key /\ command[p].level \in Level
      /\ rows \in [Level -> [Key -> Row]] /\ NewRow(p) \in Row
  BY <1>1, HereIs, NewRowIs DEF ShapeInv, TablesOK, GoodRow
<1>3. rows' = [rows EXCEPT ![command[p].level][Here(p)] = NewRow(p)]
  BY DEF Writes, Store
<1>4. /\ rows' \in [Level -> [Key -> Row]]
      /\ \A l \in Level, k \in Key :
            rows'[l][k] = IF l = command[p].level /\ k = Here(p) THEN NewRow(p) ELSE rows[l][k]
  BY <1>2, <1>3
<1>5. /\ Remember(rows', command[p].kind, command[p].level, Here(p))
      /\ stale' = stale \cup {Here(p)} /\ UNCHANGED <<command, layers>>
  BY DEF Writes, Store
<1>6. command[p].kind = "upsert" => NewRow(p) = Upserted(p)
  BY DEF NewRow
<1>7. \/ /\ step' = [step EXCEPT ![p] = "emit"]
         /\ saved' = IF command[p].kind = "upsert"
                     THEN [saved EXCEPT ![p][Here(p)] = NewRow(p)] ELSE saved
         /\ UNCHANGED <<outcome, left, existing, reply>>
      \/ Settle(p, "failed") /\ UNCHANGED saved
  BY <1>6 DEF Writes, Applied, MoveTo, NoSettle
<1> QED
  BY <1>3, <1>4, <1>5, <1>7

LEMMA SettleTables ==
    ASSUME ShapeInv, NEW p \in Call, NEW what \in {"ok", "failed"},
           step[p] \in {"find", "write", "emit"}, Settle(p, what)
    PROVE  /\ step' \in [Call -> Phases] /\ left' \in [Call -> Seq(Nat)]
           /\ existing' \in [Call -> Row] /\ \A q \in Call : GoodRow(existing'[q])
           /\ outcome' \in [Call -> [Key -> {"none", "ok", "failed"}]]
           /\ reply' \in [Call -> {"none", "ok", "error", "unsupported"}]
<1>1. /\ step \in [Call -> Phases] /\ left \in [Call -> Seq(Nat)] /\ existing \in [Call -> Row]
      /\ outcome \in [Call -> [Key -> {"none", "ok", "failed"}]]
      /\ reply \in [Call -> {"none", "ok", "error", "unsupported"}]
      /\ \A q \in Call : GoodRow(existing[q])
  BY DEF ShapeInv, TablesOK
<1>2. /\ left[p] # <<>> /\ Here(p) \in Key
      /\ outcome' = [outcome EXCEPT ![p][Here(p)] = what]
      /\ left' = [left EXCEPT ![p] = Tail(left[p])]
      /\ existing' = [existing EXCEPT ![p] = NoRow]
  BY SettleMoves
<1>3. Tail(left[p]) \in Seq(Nat)
  BY <1>1, <1>2, HeadTailProperties
<1>4. step' \in [Call -> Phases]
  <2>1. step' = [step EXCEPT ![p] = "find"] \/ step' = [step EXCEPT ![p] = "done"]
    BY SettleMoves
  <2>2. "find" \in Phases /\ "done" \in Phases
    BY DEF Phases
  <2> QED
    BY <1>1, <2>1, <2>2
<1>5. reply' \in [Call -> {"none", "ok", "error", "unsupported"}]
  <2>1. reply' = reply \/ \E told \in {"ok", "error"} : reply' = [reply EXCEPT ![p] = told]
    BY SettleMoves
  <2> QED
    BY <1>1, <2>1
<1>6. existing' \in [Call -> Row] /\ \A q \in Call : GoodRow(existing'[q])
  BY <1>1, <1>2, EmptyRows
<1> QED
  BY <1>1, <1>2, <1>3, <1>4, <1>5, <1>6

LEMMA TablesStep ==
    ASSUME ShapeInv, NEW p \in Call, PreferenceStep(p)
    PROVE  TablesOK'
<1>1. TablesOK
  BY DEF ShapeInv
<1> DEFINE Mine ==
      /\ step' \in [Call -> Phases] /\ left' \in [Call -> Seq(Nat)]
      /\ existing' \in [Call -> Row] /\ \A q \in Call : GoodRow(existing'[q])
      /\ outcome' \in [Call -> [Key -> {"none", "ok", "failed"}]]
      /\ reply' \in [Call -> {"none", "ok", "error", "unsupported"}]
           Tables ==
      /\ rows' \in [Level -> [Key -> Row]] /\ \A l \in Level, k \in Key : GoodRow(rows'[l][k])
      /\ saved' \in [Call -> [Key -> Row]] /\ \A q \in Call, k \in Key : GoodRow(saved'[q][k])
      /\ layers' \in [Call -> [Level -> [Key -> Row]]]
      /\ stale' \subseteq Key /\ UNCHANGED command
<1>2. SUFFICES Mine /\ Tables
  BY <1>1 DEF TablesOK, GoodRow
<1>3. ASSUME UNCHANGED <<rows, command, saved, layers, stale>> PROVE Tables
  BY <1>1, <1>3 DEF TablesOK
<1>4. ASSUME NEW place \in Phases, MoveTo(p, place),
             UNCHANGED <<left, outcome, reply, existing>>
      PROVE  Mine
  BY <1>1, <1>4 DEF TablesOK, MoveTo
<1>5. ASSUME NEW told \in {"ok", "error", "unsupported"}, Finish(p, told),
             UNCHANGED <<left, outcome, existing>>
      PROVE  Mine
  <2>1. "done" \in Phases
    BY DEF Phases
  <2> QED
    BY <1>1, <1>5, <2>1 DEF TablesOK, Finish, MoveTo
<1>6. {"find", "write", "emit", "list", "crashed", "done"} \subseteq Phases
  BY DEF Phases
<1>7. CASE RefuseTransactional(p)
  BY <1>3, <1>5, <1>7 DEF RefuseTransactional
<1>8. CASE Begins(p)
  BY <1>3, <1>4, <1>6, <1>8 DEF Begins
<1>9. CASE Looks(p)
  <2>1. Cell(p) \in Row /\ GoodRow(Cell(p))
    BY <1>9, HereIs DEF Looks
  <2>2. Mine
    BY <1>1, <1>6, <1>9, <2>1 DEF Looks, TablesOK, MoveTo
  <2> QED
    BY <1>3, <1>9, <2>2 DEF Looks
<1>10. CASE GivesUp(p)
  BY <1>3, <1>10, SettleTables DEF GivesUp
<1>11. CASE Writes(p)
  <2>1. step[p] = "write"
    BY <1>11 DEF Writes
  <2>2. Here(p) \in Key /\ command[p].level \in Level /\ GoodRow(NewRow(p))
    BY <2>1, HereIs, NewRowIs
  <2>3. Mine
    <3>1. CASE Settle(p, "failed")
      BY <2>1, <3>1, SettleTables
    <3>2. CASE /\ step' = [step EXCEPT ![p] = "emit"]
               /\ UNCHANGED <<outcome, left, existing, reply>>
      BY <1>4, <1>6, <3>2 DEF MoveTo
    <3> QED
      BY <1>11, <3>1, <3>2, WriteMoves
  <2>4. rows' \in [Level -> [Key -> Row]] /\ \A l \in Level, k \in Key : GoodRow(rows'[l][k])
    <3>1. \A l \in Level, k \in Key :
             rows'[l][k] = IF l = command[p].level /\ k = Here(p) THEN NewRow(p) ELSE rows[l][k]
      BY <1>11, WriteMoves
    <3>2. \A l \in Level, k \in Key : GoodRow(rows'[l][k])
      BY <1>1, <2>2, <3>1 DEF TablesOK
    <3>3. rows' \in [Level -> [Key -> Row]]
      BY <1>11, WriteMoves
    <3> QED
      BY <3>2, <3>3
  <2>5. saved' = saved \/ saved' = [saved EXCEPT ![p][Here(p)] = NewRow(p)]
    BY <1>11, WriteMoves
  <2>6. saved' \in [Call -> [Key -> Row]] /\ \A q \in Call, k \in Key : GoodRow(saved'[q][k])
    <3>1. saved \in [Call -> [Key -> Row]] /\ \A q \in Call, k \in Key : GoodRow(saved[q][k])
      BY <1>1 DEF TablesOK
    <3>2. NewRow(p) \in Row
      BY <2>2 DEF GoodRow
    <3>3. Here(p) \in Key
      BY <2>2
    <3>4. CASE saved' = [saved EXCEPT ![p][Here(p)] = NewRow(p)]
      <4> DEFINE entry == NewRow(p)
                 here == Here(p)
      <4>1. saved' = [saved EXCEPT ![p][here] = entry] /\ entry \in Row /\ here \in Key
            /\ GoodRow(entry)
        BY <2>2, <3>2, <3>3, <3>4
      <4> HIDE DEF entry, here
      <4>2. saved' \in [Call -> [Key -> Row]]
        BY <3>1, <4>1
      <4>3. \A q \in Call, k \in Key : saved'[q][k] = entry \/ saved'[q][k] = saved[q][k]
        BY <3>1, <4>1
      <4> QED
        BY <3>1, <4>1, <4>2, <4>3
    <3> QED
      BY <2>5, <3>1, <3>4
  <2>7. stale' \subseteq Key /\ UNCHANGED <<command, layers>>
    <3>1. stale' = stale \cup {Here(p)} /\ UNCHANGED <<command, layers>>
      BY <1>11, WriteMoves
    <3>2. stale \subseteq Key
      BY <1>1 DEF TablesOK
    <3> QED
      BY <2>2, <3>1, <3>2
  <2> QED
    BY <1>1, <2>3, <2>4, <2>6, <2>7 DEF TablesOK
<1>12. CASE Skips(p)
  BY <1>3, <1>4, <1>6, <1>12 DEF Skips, NoSettle
<1>13. CASE EmitPreferenceHook(p)
  <2>1. Mine
    BY <1>13, SettleTables DEF EmitPreferenceHook
  <2> QED
    BY <1>1, <1>13, <2>1 DEF EmitPreferenceHook, Announce, TablesOK
<1>14. CASE ListPreferences(p)
  <2>1. left[p] # <<>> /\ command[p].kind = "resolve"
    BY <1>14 DEF ListPreferences, ShapeInv, TasksOK, UnderWay
  <2>2. Here(p) \in Level /\ Tail(left[p]) \in Seq(Nat)
    <3>1. left[p] \in Seq(Nat)
      BY <1>1 DEF TablesOK
    <3> QED
      BY <2>1, <3>1, NextInLeft, HeadTailProperties DEF ShapeInv
  <2>3. Layer(rows, Here(p)) \in [Key -> Row]
    BY <1>1, <2>2, LayerIs DEF TablesOK
  <2>4. layers' \in [Call -> [Level -> [Key -> Row]]]
    BY <1>1, <1>14, <2>2, <2>3 DEF ListPreferences, TablesOK
  <2>5. Tables
    BY <1>1, <1>14, <2>4 DEF ListPreferences, TablesOK
  <2>6. left' \in [Call -> Seq(Nat)]
    BY <1>1, <1>14, <2>2 DEF ListPreferences, TablesOK
  <2>7. step' \in [Call -> Phases] /\ reply' \in [Call -> {"none", "ok", "error", "unsupported"}]
    BY <1>1, <1>6, <1>14 DEF ListPreferences, TablesOK, Finish, MoveTo
  <2> QED
    BY <1>1, <1>14, <2>5, <2>6, <2>7 DEF ListPreferences, TablesOK
<1>15. CASE Aborts(p)
  BY <1>3, <1>5, <1>15 DEF Aborts
<1>16. CASE Die(p)
  BY <1>3, <1>4, <1>6, <1>16 DEF Die
<1> QED
  BY <1>7, <1>8, <1>9, <1>10, <1>11, <1>12, <1>13, <1>14, <1>15, <1>16 DEF PreferenceStep

\* Which steps touch the history, and how.
LEMMA HistorySteps ==
    ASSUME ShapeInv, NEW p \in Call, PreferenceStep(p)
    PROVE  \/ UNCHANGED history
           \/ /\ Begins(p) /\ command[p].kind = "resolve"
              /\ history' = [history EXCEPT !.was[p] =
                                [k \in Key |-> {Answer(Shown(rows), Asked(p), k)}]]
           \/ /\ Looks(p) /\ command[p].kind = "upsert"
              /\ \E q \in Call \ {p} : Upserting(q, command[p].level, Here(p))
              /\ history' = [history EXCEPT !.overlapped =
                                history.overlapped \cup {<<command[p].level, Here(p)>>}]
           \/ Writes(p)
<1>1. CASE Begins(p)
  <2>1. CASE command[p].kind = "resolve"
    <3>1. Asked(p) \subseteq Level
      BY <2>1, LeftIs DEF ShapeInv
    <3>2. rows \in [Level -> [Key -> Row]]
      BY DEF ShapeInv, TablesOK
    <3>3. \A k : InOneState(rows, command[p].list, k) = Answer(Shown(rows), Asked(p), k)
      BY <3>1, <3>2, InOneStateIs DEF Asked
    <3>4. history' = [history EXCEPT !.was[p] =
                          [k \in Key |-> {InOneState(rows, command[p].list, k)}]]
      BY <1>1, <2>1 DEF Begins
    <3>5. [k \in Key |-> {InOneState(rows, command[p].list, k)}]
          = [k \in Key |-> {Answer(Shown(rows), Asked(p), k)}]
      BY <3>3
    <3> QED
      BY <1>1, <2>1, <3>4, <3>5
  <2>2. CASE command[p].kind # "resolve"
    BY <1>1, <2>2 DEF Begins
  <2> QED
    BY <2>1, <2>2
<1>2. CASE Looks(p)
  BY <1>2 DEF Looks
<1>3. CASE Writes(p)
  BY <1>3
<1> QED
  BY <1>1, <1>2, <1>3
  DEF PreferenceStep, RefuseTransactional, GivesUp, Skips, EmitPreferenceHook, ListPreferences,
      Aborts, Die

LEMMA HistoryStep ==
    ASSUME ShapeInv, NEW p \in Call, PreferenceStep(p)
    PROVE  HistoryOK'
<1>1. /\ history.was \in Was /\ history.moved \in Moved
      /\ history.overlapped \in SUBSET (Level \X Key)
      /\ history \in [was : Was, moved : Moved, overlapped : SUBSET (Level \X Key)]
  BY DEF ShapeInv, HistoryOK
<1>2. CASE UNCHANGED history
  BY <1>2 DEF ShapeInv, HistoryOK
<1>3. CASE /\ command[p].kind = "resolve"
           /\ history' = [history EXCEPT !.was[p] =
                              [k \in Key |-> {Answer(Shown(rows), Asked(p), k)}]]
  <2> DEFINE first == [k \in Key |-> {Answer(Shown(rows), Asked(p), k)}]
             was == [history.was EXCEPT ![p] = first]
  <2>1. \A k \in Key : Answer(Shown(rows), Asked(p), k) \in Verdict
    <3>1. Asked(p) \in SUBSET Level
      BY <1>3, LeftIs DEF ShapeInv
    <3>2. Shown(rows) \in [Level -> [Key -> Row]]
      BY ShownIs DEF ShapeInv, TablesOK
    <3> QED
      BY <3>1, <3>2, AnswerType
  <2>2. first \in [Key -> SUBSET Verdict]
    BY <2>1
  <2>3. history' = [history EXCEPT !.was[p] = first]
    BY <1>3
  <2> HIDE DEF first
  <2>4. was \in Was
    BY <1>1, <2>2 DEF Was
  <2>5. history' = [history EXCEPT !.was = was]
    BY <2>3
  <2> HIDE DEF was
  <2> QED
    BY <1>1, <2>4, <2>5 DEF HistoryOK
<1>4. CASE /\ Looks(p)
           /\ history' = [history EXCEPT !.overlapped =
                              history.overlapped \cup {<<command[p].level, Here(p)>>}]
  <2>1. command[p].level \in Level /\ Here(p) \in Key
    BY <1>4, HereIs DEF Looks
  <2> QED
    BY <1>1, <1>4, <2>1 DEF HistoryOK
<1>5. CASE Writes(p)
  <2>1. Here(p) \in Key /\ command[p].level \in Level /\ command[p].kind \in {"upsert", "delete"}
    BY <1>5, HereIs DEF Writes
  <2>2. rows' \in [Level -> [Key -> Row]]
        /\ Remember(rows', command[p].kind, command[p].level, Here(p))
    BY <1>5, WriteMoves
  <2> DEFINE table == rows'
             kind == command[p].kind
             l == command[p].level
             k == Here(p)
  <2>3. /\ table \in [Level -> [Key -> Row]] /\ l \in Level /\ k \in Key
        /\ kind \in {"upsert", "delete"} /\ Remember(table, kind, l, k)
    BY <2>1, <2>2
  <2> HIDE DEF table, kind, l, k
  <2> QED
    BY <2>3, RememberIs
<1> QED
  BY <1>2, <1>3, <1>4, <1>5, HistorySteps

LEMMA ShapeStep ==
    ASSUME ShapeInv, [PreferenceNext]_preferenceVars
    PROVE  ShapeInv'
<1>1. CASE PreferenceNext
  BY <1>1, NextIsPreferenceStep, TablesStep, HistoryStep, TasksStep DEF ShapeInv
<1>2. CASE UNCHANGED preferenceVars
  <2>1. TablesOK'
    BY <1>2 DEF preferenceVars, ShapeInv, TablesOK
  <2>2. HistoryOK'
    BY <1>2 DEF preferenceVars, ShapeInv, HistoryOK
  <2>3. TasksOK'
    BY <1>2 DEF preferenceVars, ShapeInv, TasksOK, UnderWay
  <2> QED
    BY <2>1, <2>2, <2>3 DEF ShapeInv
<1> QED
  BY <1>1, <1>2

LEMMA ShapeHolds == PreferenceSpec => []ShapeInv
<1>1. PreferenceInit => ShapeInv
  BY PreferenceInitShape
<1>2. ShapeInv /\ [PreferenceNext]_preferenceVars => ShapeInv'
  BY ShapeStep
<1> QED
  BY <1>1, <1>2, PTL DEF PreferenceSpec

\* Every variable keeps its shape, and a stored row has an id, a value and a
\* version of at least 1, whatever the commands and whichever statement fails.
THEOREM PreferenceTypeCorrect == PreferenceSpec => []PreferenceTypeOK
<1>1. ShapeInv => PreferenceTypeOK
  BY DEF ShapeInv, TablesOK, TasksOK, GoodRow, Phases, PreferenceTypeOK
<1> QED
  BY <1>1, ShapeHolds, PTL

-----------------------------------------------------------------------------
(* Preferences: bulk commands *)

\* A step is one call's, which stays where it is in its list or goes on by one.
LEMMA AheadAfter ==
    ASSUME ShapeInv, NEW p \in Call, PreferenceStep(p)
    PROVE  /\ UNCHANGED command
           /\ \A q \in Call : Asked(q)' = Asked(q)
           /\ \A q \in Call \ {p} : /\ left'[q] = left[q] /\ step'[q] = step[q]
                                    /\ Ahead(q)' = Ahead(q) /\ Here(q)' = Here(q)
           /\ Stays(p) => left'[p] = left[p] /\ Ahead(p)' = Ahead(p) /\ Here(p)' = Here(p)
           /\ GoesOn(p) => /\ left'[p] = Tail(left[p])
                           /\ Ahead(p)' = Ahead(p) \ {Here(p)}
<1>1. Stays(p) \/ GoesOn(p)
  BY StepStays
<1>2. UNCHANGED command
  BY <1>1 DEF Stays, GoesOn
<1>3. left \in [Call -> Seq(Nat)] /\ step \in [Call -> Phases]
  BY DEF ShapeInv, TablesOK
<1>4. \A q \in Call \ {p} : left'[q] = left[q] /\ step'[q] = step[q]
  BY <1>1, <1>3 DEF Stays, GoesOn
<1>5. Stays(p) => left'[p] = left[p]
  BY DEF Stays
<1>6. ASSUME GoesOn(p)
      PROVE  left'[p] = Tail(left[p]) /\ Ahead(p)' = Ahead(p) \ {Here(p)}
  <2>1. left[p] # <<>> /\ left'[p] = Tail(left[p])
    BY <1>3, <1>6 DEF GoesOn
  <2>2. {Tail(left[p])[i] : i \in DOMAIN Tail(left[p])} = Ahead(p) \ {Here(p)}
    BY <2>1, NextInLeft DEF ShapeInv
  <2> QED
    BY <2>1, <2>2 DEF Ahead
<1>7. \A q \in Call : left'[q] = left[q] => Ahead(q)' = Ahead(q) /\ Here(q)' = Here(q)
  BY DEF Ahead, Here
<1>8. \A q \in Call : Asked(q)' = Asked(q)
  BY <1>2 DEF Asked
<1> QED
  BY <1>2, <1>4, <1>5, <1>6, <1>7, <1>8

\* A result is recorded as the call goes on; any other step of a command stays.
LEMMA OutcomeSteps ==
    ASSUME ShapeInv, NEW p \in Call, PreferenceStep(p)
    PROVE  \/ /\ step[p] \in {"find", "write", "emit"} /\ GoesOn(p)
              /\ \E what \in {"ok", "failed"} : Settle(p, what)
           \/ /\ UNCHANGED outcome
              /\ command[p].kind # "resolve" => Stays(p)
              /\ step'[p] = "done" => command[p].kind = "resolve" \/ command[p].transactional
<1>1. /\ step \in [Call -> Phases] /\ command \in [Call -> Commands]
      /\ step[p] = "list" => command[p].kind = "resolve"
      /\ step[p] \in {"find", "write", "emit"} => left[p] # <<>>
  BY DEF ShapeInv, TablesOK, TasksOK, UnderWay
<1>2. Stays(p) \/ GoesOn(p)
  BY StepStays
<1>3. \A what \in {"ok", "failed"} :
          step[p] \in {"find", "write", "emit"} /\ Settle(p, what) => GoesOn(p)
  <2> SUFFICES ASSUME NEW what \in {"ok", "failed"}, step[p] \in {"find", "write", "emit"},
                      Settle(p, what), Stays(p)
               PROVE  FALSE
    BY <1>2
  <2>1. left' = [left EXCEPT ![p] = Tail(left[p])] /\ left[p] # <<>>
    BY SettleMoves
  <2>2. left \in [Call -> Seq(Nat)]
    BY DEF ShapeInv, TablesOK
  <2>3. Tail(left[p]) = left[p]
    BY <2>1, <2>2 DEF Stays
  <2>4. Len(left[p]) \in Nat /\ Len(Tail(left[p])) = Len(left[p]) - 1
    BY <2>1, <2>2, FirstAndRest
  <2>5. \A n \in Nat : n # n - 1
    OBVIOUS
  <2> QED
    BY <2>3, <2>4, <2>5
<1>4. GoesOn(p) => step'[p] \in {"find", "list", "done"} /\ left' = [left EXCEPT ![p] = Tail(left[p])]
  BY <1>1 DEF GoesOn
<1>5. UNCHANGED left => ~GoesOn(p)
  <2> SUFFICES ASSUME UNCHANGED left, GoesOn(p) PROVE FALSE
    OBVIOUS
  <2>1. left' = [left EXCEPT ![p] = Tail(left[p])] /\ left[p] # <<>>
    BY DEF GoesOn
  <2>2. left \in [Call -> Seq(Nat)]
    BY DEF ShapeInv, TablesOK
  <2>3. Tail(left[p]) = left[p]
    BY <2>1, <2>2
  <2>4. Len(left[p]) \in Nat /\ Len(Tail(left[p])) = Len(left[p]) - 1
    BY <2>1, <2>2, FirstAndRest
  <2>5. \A n \in Nat : n # n - 1
    OBVIOUS
  <2> QED
    BY <2>3, <2>4, <2>5
<1>6. CASE RefuseTransactional(p)
  BY <1>2, <1>5, <1>6 DEF RefuseTransactional
<1>7. CASE Begins(p)
  BY <1>1, <1>2, <1>5, <1>7 DEF Begins, MoveTo
<1>8. CASE Looks(p)
  BY <1>1, <1>2, <1>5, <1>8 DEF Looks, MoveTo
<1>9. CASE GivesUp(p)
  BY <1>3, <1>9 DEF GivesUp
<1>10. CASE Writes(p)
  <2>1. step[p] = "write"
    BY <1>10 DEF Writes
  <2>2. CASE Settle(p, "failed")
    BY <1>3, <2>1, <2>2
  <2>3. CASE step' = [step EXCEPT ![p] = "emit"] /\ UNCHANGED <<outcome, left, existing, reply>>
    BY <1>1, <1>2, <1>5, <2>3
  <2> QED
    BY <1>10, <2>2, <2>3, WriteMoves
<1>11. CASE Skips(p)
  BY <1>1, <1>2, <1>5, <1>11 DEF Skips, NoSettle, MoveTo
<1>12. CASE EmitPreferenceHook(p)
  BY <1>3, <1>12 DEF EmitPreferenceHook
<1>13. CASE ListPreferences(p) \/ Aborts(p)
  BY <1>1, <1>13 DEF ListPreferences, Aborts
<1>14. CASE Die(p)
  BY <1>1, <1>2, <1>5, <1>14 DEF Die, MoveTo
<1> QED
  BY <1>6, <1>7, <1>8, <1>9, <1>10, <1>11, <1>12, <1>13, <1>14 DEF PreferenceStep

LEMMA PreferenceInitBulk == PreferenceInit => BulkInv
<1> SUFFICES ASSUME PreferenceInit PROVE BulkInv
  OBVIOUS
<1>1. \A p \in Call : /\ left[p] = command[p].list /\ step[p] = "idle"
                      /\ \A k \in Key : outcome[p][k] = "none"
  BY DEF PreferenceInit
<1>2. \A p \in Call : Ahead(p) = Asked(p)
  BY <1>1 DEF Ahead, Asked
<1>3. \A l \in Level, k \in Key : rows[l][k].value \in Old \cup {"none"}
  BY DEF PreferenceInit, NoRow, FirstRows
<1>4. \A l \in Level, k \in Key, p \in Call : rows[l][k].value # p
  BY <1>3, PreferenceAssumption
<1> QED
  BY <1>1, <1>2, <1>4 DEF BulkInv, Done

\* A value in the table is that of a call which was not refused.
LEMMA ValuesStep ==
    ASSUME ShapeInv, BulkInv, NEW p \in Call, PreferenceStep(p),
           NEW q \in Call, NEW l \in Level, NEW k \in Key, rows'[l][k].value = q
    PROVE  ~command[q].transactional
<1>1. CASE UNCHANGED rows
  BY <1>1 DEF BulkInv
<1>2. CASE Writes(p)
  <2>1. ~command[p].transactional
    BY <1>2, HereIs DEF Writes
  <2>2. rows'[l][k] = NewRow(p) \/ rows'[l][k] = rows[l][k]
    <3>1. \A m \in Level, j \in Key :
             rows'[m][j] = IF m = command[p].level /\ j = Here(p) THEN NewRow(p) ELSE rows[m][j]
      BY <1>2, WriteMoves
    <3> QED
      BY <3>1
  <2>3. NewRow(p).value \in {p, "none"} /\ q # "none"
    BY NewRowIs, PreferenceAssumption
  <2> QED
    BY <2>1, <2>2, <2>3 DEF BulkInv
<1> QED
  BY <1>1, <1>2
  DEF PreferenceStep, RefuseTransactional, Begins, Looks, GivesUp, Skips, EmitPreferenceHook,
      ListPreferences, Aborts, Die

\* A result is recorded for the key in hand, which is no longer ahead.
LEMMA RecordedStep ==
    ASSUME ShapeInv, BulkInv, NEW p \in Call, PreferenceStep(p), NEW q \in Call,
           command[q].kind # "resolve"
    PROVE  /\ \A k \in Key : outcome'[q][k] # "none" <=> k \in Asked(q) \ Ahead(q)'
           /\ ~command[q].transactional /\ step'[q] = "done" =>
                /\ left'[q] = <<>>
                /\ reply'[q] = "ok" <=> \A k \in Key : outcome'[q][k] # "failed"
           /\ command[q].transactional => left'[q] = command[q].list
<1>1. /\ outcome \in [Call -> [Key -> {"none", "ok", "failed"}]]
      /\ reply \in [Call -> {"none", "ok", "error", "unsupported"}]
      /\ step \in [Call -> Phases] /\ left \in [Call -> Seq(Nat)]
  BY DEF ShapeInv, TablesOK
<1>2. /\ \A k \in Key : outcome[q][k] # "none" <=> k \in Asked(q) \ Ahead(q)
      /\ ~command[q].transactional /\ step[q] = "done" =>
            /\ left[q] = <<>>
            /\ reply[q] = "ok" <=> \A k \in Key : outcome[q][k] # "failed"
      /\ command[q].transactional => left[q] = command[q].list
  BY DEF BulkInv, Done
<1>3. CASE q # p
  <2>1. left'[q] = left[q] /\ step'[q] = step[q] /\ Ahead(q)' = Ahead(q)
    BY <1>3, AheadAfter
  <2>2. outcome'[q] = outcome[q]
    <3>1. CASE UNCHANGED outcome
      BY <3>1
    <3>2. CASE /\ step[p] \in {"find", "write", "emit"}
               /\ \E what \in {"ok", "failed"} : Settle(p, what)
      BY <1>1, <1>3, <3>2 DEF Settle
    <3> QED
      BY <3>1, <3>2, OutcomeSteps
  <2>3. reply'[q] = reply[q]
    <3>1. UNCHANGED reply \/ \E told : reply' = [reply EXCEPT ![p] = told]
      <4>1. CASE /\ step[p] \in {"find", "write", "emit"}
                 /\ \E what \in {"ok", "failed"} : Settle(p, what)
        BY <4>1 DEF Settle, Finish
      <4>2. CASE UNCHANGED reply \/ \E told : Finish(p, told)
        BY <4>2 DEF Finish
      <4>3. CASE RefuseTransactional(p) \/ Aborts(p) \/ ListPreferences(p)
        BY <4>2, <4>3 DEF RefuseTransactional, Aborts, ListPreferences
      <4>4. CASE Begins(p) \/ Looks(p) \/ Skips(p) \/ Die(p)
        BY <4>2, <4>4 DEF Begins, Looks, Skips, NoSettle, Die
      <4>5. CASE GivesUp(p) \/ EmitPreferenceHook(p)
        BY <4>1, <4>5 DEF GivesUp, EmitPreferenceHook
      <4>6. CASE Writes(p)
        BY <4>1, <4>2, <4>6, WriteMoves DEF Writes
      <4> QED
        BY <4>3, <4>4, <4>5, <4>6 DEF PreferenceStep
    <3> QED
      BY <1>1, <1>3, <3>1
  <2> QED
    BY <1>2, <2>1, <2>2, <2>3
<1>4. CASE /\ q = p /\ UNCHANGED outcome /\ Stays(p)
           /\ step'[p] = "done" => command[p].kind = "resolve" \/ command[p].transactional
  <2>1. left'[q] = left[q] /\ Ahead(q)' = Ahead(q)
    BY <1>4, AheadAfter
  <2> QED
    BY <1>2, <1>4, <2>1
<1>5. ASSUME q = p, step[p] \in {"find", "write", "emit"}, GoesOn(p),
             NEW what \in {"ok", "failed"}, Settle(p, what)
      PROVE  /\ \A k \in Key : outcome'[q][k] # "none" <=> k \in Asked(q) \ Ahead(q)'
             /\ ~command[q].transactional /\ step'[q] = "done" =>
                  /\ left'[q] = <<>>
                  /\ reply'[q] = "ok" <=> \A k \in Key : outcome'[q][k] # "failed"
             /\ ~command[q].transactional
  <2>1. /\ left[p] # <<>> /\ Here(p) \in Key /\ Here(p) \in Ahead(p) /\ Here(p) \in Asked(p)
        /\ ~command[p].transactional
    BY <1>5, HereIs, LeftIs DEF ShapeInv
  <2>2. Ahead(q)' = Ahead(p) \ {Here(p)} /\ left'[p] = Tail(left[p])
    BY <1>5, AheadAfter
  <2>3. outcome' = [outcome EXCEPT ![p][Here(p)] = what]
    BY <1>5, SettleMoves
  <2>4. \A k \in Key : outcome'[p][k] = IF k = Here(p) THEN what ELSE outcome[p][k]
    BY <1>1, <2>1, <2>3
  <2>5. \A k \in Key : outcome'[q][k] # "none" <=> k \in Asked(q) \ Ahead(q)'
    BY <1>2, <1>5, <2>1, <2>2, <2>4
  <2>6. ASSUME step'[q] = "done"
        PROVE  /\ left'[q] = <<>>
               /\ reply'[q] = "ok" <=> \A k \in Key : outcome'[q][k] # "failed"
    <3>1. /\ Len(left[p]) = 1
          /\ \E told \in {"ok", "error"} :
                /\ reply' = [reply EXCEPT ![p] = told]
                /\ told = "ok" <=> what = "ok" /\ \A k \in Key : outcome[p][k] # "failed"
      <4>1. ~(step' = [step EXCEPT ![p] = "find"])
        BY <1>1, <1>5, <2>6
      <4> QED
        BY <1>5, <4>1, SettleMoves
    <3>2. left'[q] = <<>>
      BY <1>1, <1>5, <2>1, <2>2, <3>1, FirstAndRest
    <3>3. outcome[p][Here(p)] # "failed"
      BY <1>1, <1>2, <1>5, <2>1
    <3>4. reply'[p] = "ok" <=> what = "ok" /\ \A k \in Key : outcome[p][k] # "failed"
      BY <1>1, <3>1
    <3>5. (what = "ok" /\ \A k \in Key : outcome[p][k] # "failed")
          <=> \A k \in Key : outcome'[p][k] # "failed"
      BY <2>1, <2>4, <3>3
    <3> QED
      BY <1>5, <3>2, <3>4, <3>5
  <2> QED
    BY <1>5, <2>1, <2>5, <2>6
<1> QED
  BY <1>3, <1>4, <1>5, OutcomeSteps

LEMMA BulkStep ==
    ASSUME ShapeInv, BulkInv, [PreferenceNext]_preferenceVars
    PROVE  BulkInv'
<1>1. CASE PreferenceNext
  <2>1. PICK p \in Call : PreferenceStep(p)
    BY <1>1, NextIsPreferenceStep
  <2>2. UNCHANGED command /\ \A q \in Call : Asked(q)' = Asked(q)
    BY <2>1, AheadAfter
  <2>3. \A q \in Call : command[q].kind = "resolve" => ~command[q].transactional
    BY CommandIs DEF ShapeInv, TablesOK
  <2> QED
    BY <2>1, <2>2, <2>3, ValuesStep, RecordedStep DEF BulkInv, Done
<1>2. CASE UNCHANGED preferenceVars
  BY <1>2 DEF preferenceVars, BulkInv, Ahead, Asked, Done
<1> QED
  BY <1>1, <1>2

LEMMA BulkHolds == PreferenceSpec => [](ShapeInv /\ BulkInv)
<1>1. PreferenceInit => ShapeInv /\ BulkInv
  BY PreferenceInitShape, PreferenceInitBulk
<1>2. ShapeInv /\ BulkInv /\ [PreferenceNext]_preferenceVars => (ShapeInv /\ BulkInv)'
  BY ShapeStep, BulkStep
<1> QED
  BY <1>1, <1>2, PTL DEF PreferenceSpec

\* The bulk upsert and the bulk delete report on every key they were given: what
\* failed for one key has neither ended the command nor been lost from its
\* answer, and a transactional command that was refused has written nothing.
THEOREM BulkCommandsTellEachKey == PreferenceSpec => []BulkTellsEachKey
<1>1. ShapeInv /\ BulkInv => BulkTellsEachKey
  <2> SUFFICES ASSUME ShapeInv, BulkInv, NEW p \in Call, Done(p), command[p].kind # "resolve"
               PROVE  IF command[p].transactional
                      THEN /\ \A k \in Key : outcome[p][k] = "none"
                           /\ \A l \in Level, k \in Key : rows[l][k].value # p
                      ELSE /\ \A k \in Asked(p) : outcome[p][k] # "none"
                           /\ reply[p] = "ok" <=> \A k \in Asked(p) : outcome[p][k] = "ok"
    BY DEF BulkTellsEachKey, Asked
  <2>1. /\ outcome \in [Call -> [Key -> {"none", "ok", "failed"}]]
        /\ Asked(p) \subseteq Key
    BY LeftIs DEF ShapeInv, TablesOK
  <2>2. \A k \in Key : outcome[p][k] # "none" <=> k \in Asked(p) \ Ahead(p)
    BY DEF BulkInv
  <2>3. CASE command[p].transactional
    <3>1. Ahead(p) = Asked(p)
      BY <2>3 DEF BulkInv, Ahead, Asked
    <3> QED
      BY <2>2, <2>3, <3>1 DEF BulkInv
  <2>4. CASE ~command[p].transactional
    <3>1. left[p] = <<>> /\ (reply[p] = "ok" <=> \A k \in Key : outcome[p][k] # "failed")
      BY <2>4 DEF BulkInv
    <3>2. Ahead(p) = {}
      BY <3>1 DEF Ahead
    <3>3. (\A k \in Key : outcome[p][k] # "failed") <=> \A k \in Asked(p) : outcome[p][k] = "ok"
      BY <2>1, <2>2, <3>2
    <3> QED
      BY <2>1, <2>2, <2>4, <3>1, <3>2, <3>3
  <2> QED
    BY <2>3, <2>4
<1> QED
  BY <1>1, BulkHolds, PTL

-----------------------------------------------------------------------------
(* Preferences: a change is announced, or its writer was told of a failure     *)

\* Call p answers for the event of key k: it will send it, was told that its
\* change failed, or died.
AnswersFor(p, k) ==
    \/ step[p] = "emit" /\ Here(p) = k
    \/ outcome[p][k] = "failed"
    \/ step[p] = "crashed"

\* A call goes on to answer for a key, unless it has just sent its event.
LEMMA StillAnswers ==
    ASSUME ShapeInv, BulkInv, NEW p \in Call, PreferenceStep(p), NEW q \in Call,
           NEW k \in stale', AnswersFor(q, k)
    PROVE  AnswersFor(q, k)'
<1>1. /\ outcome \in [Call -> [Key -> {"none", "ok", "failed"}]]
      /\ step \in [Call -> Phases]
      /\ stale' \subseteq Key
  BY TablesStep DEF ShapeInv, TablesOK
<1>2. k \in Key
  BY <1>1
<1>3. \A j \in Key : outcome[q][j] = "failed" => outcome'[q][j] = "failed"
  <2> SUFFICES ASSUME NEW j \in Key, outcome[q][j] = "failed" PROVE outcome'[q][j] = "failed"
    OBVIOUS
  <2>1. CASE UNCHANGED outcome
    BY <2>1
  <2>2. ASSUME step[p] \in {"find", "write", "emit"},
               NEW what \in {"ok", "failed"}, Settle(p, what)
        PROVE  outcome'[q][j] = "failed"
    <3>1. Here(p) \in Key /\ Here(p) \in Ahead(p) /\ command[p].kind # "resolve"
      BY <2>2, HereIs
    <3>2. outcome[p][Here(p)] = "none"
      BY <3>1 DEF BulkInv
    <3>3. outcome' = [outcome EXCEPT ![p][Here(p)] = what]
      BY <2>2, SettleMoves
    <3> QED
      BY <1>1, <3>1, <3>2, <3>3
  <2> QED
    BY <2>1, <2>2, OutcomeSteps
<1>4. CASE q # p
  BY <1>2, <1>3, <1>4, AheadAfter DEF AnswersFor
<1>5. CASE q = p /\ outcome[q][k] = "failed"
  BY <1>2, <1>3, <1>5 DEF AnswersFor
<1>6. step[p] # "crashed"
  BY DEF PreferenceStep, RefuseTransactional, Begins, Looks, GivesUp, Writes, Skips,
         EmitPreferenceHook, ListPreferences, Aborts, Die, UnderWay
<1>7. CASE q = p /\ step[p] = "emit" /\ Here(p) = k
  <2>1. EmitPreferenceHook(p) \/ Die(p)
    BY <1>7 DEF PreferenceStep, RefuseTransactional, Begins, Looks, GivesUp, Writes, Skips,
         ListPreferences, Aborts
  <2>2. ~EmitPreferenceHook(p)
    BY <1>7 DEF EmitPreferenceHook, Announce
  <2>3. step'[p] = "crashed"
    BY <1>1, <2>1, <2>2 DEF Die, MoveTo
  <2> QED
    BY <1>7, <2>3 DEF AnswersFor
<1> QED
  BY <1>4, <1>5, <1>6, <1>7 DEF AnswersFor

LEMMA WriterAnswers ==
    ASSUME ShapeInv, BulkInv, NEW p \in Call, Writes(p)
    PROVE  \/ step'[p] = "emit" /\ Here(p)' = Here(p)
           \/ outcome'[p][Here(p)] = "failed"
<1>1. step \in [Call -> Phases] /\ outcome \in [Call -> [Key -> {"none", "ok", "failed"}]]
  BY DEF ShapeInv, TablesOK
<1>2. step[p] = "write" /\ Here(p) \in Key
  BY HereIs DEF Writes
<1>3. CASE Settle(p, "failed")
  <2>1. outcome' = [outcome EXCEPT ![p][Here(p)] = "failed"]
    BY <1>2, <1>3, SettleMoves
  <2> QED
    BY <1>1, <1>2, <2>1
<1>4. CASE step' = [step EXCEPT ![p] = "emit"] /\ UNCHANGED <<outcome, left, existing, reply>>
  <2>1. step'[p] = "emit" /\ Here(p)' = Here(p)
    BY <1>1, <1>4 DEF Here
  <2> QED
    BY <2>1
<1> QED
  BY <1>3, <1>4, WriteMoves

LEMMA AnnouncedStep ==
    ASSUME ShapeInv, BulkInv, ChangesAreAnnounced, [PreferenceNext]_preferenceVars
    PROVE  ChangesAreAnnounced'
<1>1. \A k \in stale : \E q \in Call : AnswersFor(q, k)
  BY DEF ChangesAreAnnounced, AnswersFor
<1>2. SUFFICES ASSUME NEW k \in stale' PROVE \E q \in Call : AnswersFor(q, k)'
  BY DEF ChangesAreAnnounced, AnswersFor
<1>3. CASE PreferenceNext
  <2>1. PICK p \in Call : PreferenceStep(p)
    BY <1>3, NextIsPreferenceStep
  <2>2. CASE k \in stale
    BY <1>1, <2>1, <2>2, StillAnswers
  <2>3. CASE k \notin stale
    <3>1. Writes(p) /\ k = Here(p)
      <4>1. Writes(p)
        BY <2>1, <2>3
        DEF PreferenceStep, RefuseTransactional, Begins, Looks, GivesUp, Skips,
            EmitPreferenceHook, Announce, ListPreferences, Aborts, Die
      <4>2. stale' = stale \cup {Here(p)}
        BY <4>1, WriteMoves
      <4> QED
        BY <2>3, <4>1, <4>2
    <3> QED
      BY <3>1, WriterAnswers DEF AnswersFor
  <2> QED
    BY <2>2, <2>3
<1>4. CASE UNCHANGED preferenceVars
  BY <1>1, <1>4 DEF preferenceVars, AnswersFor, Here
<1> QED
  BY <1>3, <1>4

\* A change of a preference whose event (EmitPreferenceHook) no listener has
\* heard is still to be announced, or its writer was told of a failure, or died.
THEOREM ChangesAnnounced == PreferenceSpec => []ChangesAreAnnounced
<1>1. PreferenceInit => ShapeInv /\ BulkInv /\ ChangesAreAnnounced
  BY PreferenceInitShape, PreferenceInitBulk DEF PreferenceInit, ChangesAreAnnounced
<1>2. /\ ShapeInv /\ BulkInv /\ ChangesAreAnnounced
      /\ [PreferenceNext]_preferenceVars
      => (ShapeInv /\ BulkInv /\ ChangesAreAnnounced)'
  BY ShapeStep, BulkStep, AnnouncedStep
<1> QED
  BY <1>1, <1>2, PTL DEF PreferenceSpec

-----------------------------------------------------------------------------
(* Preferences: versions                                                       *)

\* The steps that touch the rows and the records returned.
LEMMA OnlyWrites ==
    ASSUME NEW p, PreferenceStep(p)
    PROVE  Writes(p) \/ UNCHANGED <<rows, saved>>
  BY DEF PreferenceStep, RefuseTransactional, Begins, Looks, GivesUp, Skips,
         EmitPreferenceHook, ListPreferences, Aborts, Die

LEMMA SettleGoes ==
    ASSUME ShapeInv, NEW p \in Call, NEW what \in {"ok", "failed"},
           step[p] \in {"find", "write", "emit"}, Settle(p, what)
    PROVE  left'[p] # left[p]
<1>1. left' = [left EXCEPT ![p] = Tail(left[p])] /\ left[p] # <<>>
  BY SettleMoves
<1>2. left \in [Call -> Seq(Nat)]
  BY DEF ShapeInv, TablesOK
<1>3. left'[p] = Tail(left[p])
  BY <1>1, <1>2
<1>4. Len(Tail(left[p])) = Len(left[p]) - 1 /\ Len(left[p]) \in Nat
  BY <1>1, <1>2, FirstAndRest
<1>5. \A n \in Nat : n # n - 1
  OBVIOUS
<1> QED
  BY <1>3, <1>4, <1>5

\* A step takes from a call the chance to create a row, and never gives it.
LEMMA CreatesLess ==
    ASSUME ShapeInv, NEW p \in Call, PreferenceStep(p), NEW q \in Call, NEW k,
           MayCreate(q, k)'
    PROVE  MayCreate(q, k)
<1>1. /\ step \in [Call -> Phases] /\ TasksOK
      /\ step'[p] \in {"find", "write", "emit"} => command[p].kind # "resolve"
  BY TasksStep, AheadAfter DEF ShapeInv, TablesOK, TasksOK
<1>2. CASE q # p
  BY <1>2, AheadAfter DEF MayCreate
<1>3. CASE q = p /\ GoesOn(p)
  <2>1. k \in Ahead(p) /\ k # Here(p) /\ step'[p] \in {"idle", "find", "write", "emit"}
    BY <1>3, AheadAfter DEF MayCreate
  <2>2. step'[p] = "find" /\ ~(UNCHANGED outcome /\ Stays(p))
    <3>1. step'[p] \in {"find", "list", "done"}
      BY <1>1, <1>3 DEF GoesOn
    <3>2. ~Stays(p)
      <4> SUFFICES ASSUME Stays(p) PROVE FALSE
        OBVIOUS
      <4>1. Ahead(p) = Ahead(p) \ {Here(p)}
        BY <1>3, AheadAfter
      <4>2. Here(p) \in Ahead(p)
        BY <1>3, NextInLeft DEF GoesOn, ShapeInv
      <4> QED
        BY <4>1, <4>2
    <3> QED
      BY <2>1, <3>1, <3>2
  <2>3. step[p] \in {"find", "write", "emit"}
    BY <1>1, <2>2, OutcomeSteps
  <2> QED
    BY <1>3, <2>1, <2>3 DEF MayCreate
<1>4. CASE q = p /\ Stays(p)
  <2>1. Ahead(p)' = Ahead(p) /\ Here(p)' = Here(p)
    BY <1>4, AheadAfter
  <2>2. k \in Ahead(p) /\ step'[p] \in {"idle", "find", "write", "emit"}
    BY <1>4, <2>1 DEF MayCreate
  <2>3. step[p] \in {"idle", "find", "write"}
    <3>1. CASE RefuseTransactional(p) \/ Begins(p) \/ Looks(p) \/ GivesUp(p) \/ Writes(p) \/ Skips(p)
      BY <3>1 DEF RefuseTransactional, Begins, Looks, GivesUp, Writes, Skips
    <3>2. CASE EmitPreferenceHook(p)
      <4>1. step[p] = "emit" /\ Settle(p, "ok")
        BY <3>2 DEF EmitPreferenceHook
      <4>2. left'[p] = left[p]
        BY <1>4, AheadAfter
      <4> QED
        BY <4>1, <4>2, SettleGoes
    <3>3. CASE ListPreferences(p) \/ Aborts(p)
      <4>1. step'[p] \in {"list", "done"}
        BY <1>1, <3>3 DEF ListPreferences, Aborts, Finish, MoveTo
      <4> QED
        BY <2>2, <4>1
    <3>4. CASE Die(p)
      BY <1>1, <2>2, <3>4 DEF Die, MoveTo
    <3> QED
      BY <3>1, <3>2, <3>3, <3>4 DEF PreferenceStep
  <2> QED
    BY <1>4, <2>2, <2>3 DEF MayCreate
<1> QED
  BY <1>2, <1>3, <1>4, StepStays

\* The row of a write is a call's own only if it is of its level, and the call
\* has then created it for good.
LEMMA NewIdIs ==
    ASSUME ShapeInv, IdsInv, NEW p \in Call, Writes(p), NEW q \in Call, NewRow(p).id = q,
           NEW k, k = Here(p)
    PROVE  command[q].level = command[p].level /\ ~MayCreate(q, k)'
<1>1. /\ step[p] = "write" /\ Here(p) \in Key /\ command[p].level \in Level
      /\ Cell(p).id = existing[p].id /\ Here(p) \in Ahead(p)
  BY HereIs DEF Writes
<1>2. PreferenceStep(p)
  BY DEF PreferenceStep
<1>3. q # "none"
  BY PreferenceAssumption
<1>4. CASE command[p].kind # "upsert"
  BY <1>3, <1>4, NewRowIs, EmptyRows
<1>5. CASE command[p].kind = "upsert" /\ existing[p] = NoRow
  <2>1. q = p
    BY <1>5, NewRowIs
  <2>2. CASE GoesOn(p)
    <3>1. Ahead(p)' = Ahead(p) \ {Here(p)}
      BY <1>2, <2>2, AheadAfter
    <3> QED
      BY <2>1, <3>1 DEF MayCreate
  <2>3. CASE Stays(p)
    <3>1. Here(p)' = Here(p)
      BY <1>2, <2>3, AheadAfter
    <3>2. step'[p] \notin {"idle", "find", "write"}
      <4>1. step \in [Call -> Phases]
        BY DEF ShapeInv, TablesOK
      <4>2. step'[p] = "emit" \/ Settle(p, "failed")
        BY <4>1, WriteMoves
      <4>3. left'[p] = left[p]
        BY <1>2, <2>3, AheadAfter
      <4>4. ~Settle(p, "failed")
        BY <1>1, <4>3, SettleGoes
      <4> QED
        BY <4>2, <4>4
    <3> QED
      BY <2>1, <3>1, <3>2 DEF MayCreate
  <2> QED
    BY <1>2, <2>1, <2>2, <2>3, StepStays
<1>6. CASE command[p].kind = "upsert" /\ existing[p] # NoRow
  <2>1. rows[command[p].level][Here(p)].id = q
    BY <1>1, <1>6, NewRowIs DEF Cell
  <2>2. command[q].level = command[p].level /\ ~MayCreate(q, k)
    BY <1>1, <2>1 DEF IdsInv
  <2> QED
    BY <1>2, <2>2, CreatesLess
<1> QED
  BY <1>4, <1>5, <1>6

\* The records an update returns: the new one for the key in hand, or the old.
LEMMA SavedAfter ==
    ASSUME ShapeInv, NEW p \in Call, Writes(p), NEW q \in Call, NEW k \in Key
    PROVE  \/ saved'[q][k] = saved[q][k]
           \/ /\ q = p /\ k = Here(p) /\ command[p].kind = "upsert"
              /\ saved'[q][k] = NewRow(p)
<1>1. saved \in [Call -> [Key -> Row]]
  BY DEF ShapeInv, TablesOK
<1>2. \/ UNCHANGED saved
      \/ command[p].kind = "upsert" /\ saved' = [saved EXCEPT ![p][Here(p)] = NewRow(p)]
  BY WriteMoves
<1>3. CASE command[p].kind = "upsert" /\ saved' = [saved EXCEPT ![p][Here(p)] = NewRow(p)]
  <2> DEFINE here == Here(p)
             entry == NewRow(p)
  <2>1. saved' = [saved EXCEPT ![p][here] = entry]
    BY <1>3
  <2> HIDE DEF here, entry
  <2>2. saved'[q][k] = saved[q][k] \/ (q = p /\ k = here /\ saved'[q][k] = entry)
    BY <1>1, <2>1
  <2> QED
    BY <1>3, <2>2 DEF here, entry
<1> QED
  BY <1>2, <1>3

LEMMA IdsStep ==
    ASSUME ShapeInv, IdsInv, [PreferenceNext]_preferenceVars
    PROVE  IdsInv'
<1>1. CASE PreferenceNext
  <2>1. PICK p \in Call : PreferenceStep(p)
    BY <1>1, NextIsPreferenceStep
  <2>2. UNCHANGED command
    BY <2>1, AheadAfter
  <2>3. ASSUME NEW l \in Level, NEW k \in Key, NEW q \in Call, rows'[l][k].id = q
        PROVE  command[q].level = l /\ ~MayCreate(q, k)'
    <3>1. CASE rows'[l][k] = rows[l][k]
      <4>1. command[q].level = l /\ ~MayCreate(q, k)
        BY <2>3, <3>1 DEF IdsInv
      <4> QED
        BY <2>1, <4>1, CreatesLess
    <3>2. CASE Writes(p)
      <4>1. \A m \in Level, j \in Key :
               rows'[m][j] = IF m = command[p].level /\ j = Here(p) THEN NewRow(p) ELSE rows[m][j]
        BY <3>2, WriteMoves
      <4>2. CASE l = command[p].level /\ k = Here(p)
        <5>1. NewRow(p).id = q
          BY <2>3, <4>1, <4>2
        <5> QED
          BY <3>2, <4>2, <5>1, NewIdIs
      <4>3. CASE ~(l = command[p].level /\ k = Here(p))
        BY <3>1, <4>1, <4>3
      <4> QED
        BY <4>2, <4>3
    <3> QED
      BY <2>1, <3>1, <3>2, OnlyWrites
  <2>4. ASSUME NEW r \in Call, NEW q \in Call, NEW k \in Key,
               saved'[r][k].id = q, command[q].level = command[r].level
        PROVE  ~MayCreate(q, k)'
    <3>1. CASE saved'[r][k] = saved[r][k]
      <4>1. ~MayCreate(q, k)
        BY <2>4, <3>1 DEF IdsInv
      <4> QED
        BY <2>1, <4>1, CreatesLess
    <3>2. CASE Writes(p) /\ k = Here(p) /\ saved'[r][k] = NewRow(p)
      <4>1. NewRow(p).id = q
        BY <2>4, <3>2
      <4> QED
        BY <3>2, <4>1, NewIdIs
    <3>3. CASE UNCHANGED <<rows, saved>>
      BY <3>1, <3>3
    <3> QED
      BY <2>1, <3>1, <3>2, <3>3, OnlyWrites, SavedAfter
  <2> QED
    BY <2>2, <2>3, <2>4 DEF IdsInv
<1>2. CASE UNCHANGED preferenceVars
  BY <1>2 DEF preferenceVars, IdsInv, MayCreate, Ahead, Here
<1> QED
  BY <1>1, <1>2

\* Without an overlap, an upsert that is about to write is ahead of every
\* record returned of the row it writes.
LEMMA WritesAhead ==
    ASSUME ShapeInv, IdsInv, AloneInv, NEW p \in Call, Writes(p), command[p].kind = "upsert",
           <<command[p].level, Here(p)>> \notin history.overlapped,
           NEW q \in Call, command[q].level = command[p].level,
           saved[q][Here(p)] # NoRow, saved[q][Here(p)].id = NewRow(p).id
    PROVE  saved[q][Here(p)].version < NewRow(p).version
<1> DEFINE l == command[p].level
           k == Here(p)
<1>1. /\ step[p] = "write" /\ k \in Key /\ l \in Level /\ k \in Ahead(p)
      /\ rows[l][k] \in Row /\ rows[l][k].id = existing[p].id
  BY HereIs DEF Writes, Cell
<1>2. saved[q][k] \in Row /\ existing[p] \in Row /\ GoodRow(existing[p])
  BY <1>1 DEF ShapeInv, TablesOK
<1>3. existing[p] # NoRow
  <2> SUFFICES ASSUME existing[p] = NoRow PROVE FALSE
    OBVIOUS
  <2>1. saved[q][k].id = p
    BY NewRowIs
  <2>2. ~MayCreate(p, k)
    BY <1>1, <2>1 DEF IdsInv
  <2> QED
    BY <1>1, <2>2 DEF MayCreate
<1>4. NewRow(p).id = existing[p].id /\ NewRow(p).version = existing[p].version + 1
  BY <1>3, NewRowIs
<1>5. Upserting(p, l, k)
  BY <1>1 DEF Upserting
<1>6. rows[l][k] \in {existing[p], NoRow}
  BY <1>1, <1>5 DEF AloneInv
<1>7. existing[p].id # "none"
  BY <1>2, <1>3 DEF GoodRow
<1>8. rows[l][k] = existing[p]
  BY <1>1, <1>6, <1>7, EmptyRows
<1>9. saved[q][k].version <= rows[l][k].version
  <2>1. saved[q][k] # NoRow /\ command[q].level = l /\ rows[l][k].id = saved[q][k].id
    BY <1>4, <1>8
  <2>2. <<l, k>> \notin history.overlapped
    OBVIOUS
  <2> QED
    BY <1>1, <2>1, <2>2 DEF AloneInv
<1>10. saved[q][k].version \in Nat /\ existing[p].version \in Nat
  BY <1>2 DEF Row
<1>11. saved[q][k].version < NewRow(p).version
  <2>1. \A m, n \in Nat : m <= n => m < n + 1
    OBVIOUS
  <2> QED
    BY <1>4, <1>8, <1>9, <1>10, <2>1
<1> QED
  BY <1>11

\* Overlaps are remembered.
LEMMA OverlapsGrow ==
    ASSUME ShapeInv, NEW p \in Call, PreferenceStep(p)
    PROVE  history.overlapped \subseteq history'.overlapped
<1>1. history \in [was : Was, moved : Moved, overlapped : SUBSET (Level \X Key)]
  BY DEF ShapeInv, HistoryOK
<1>2. CASE UNCHANGED history
  BY <1>2
<1>3. CASE history' = [history EXCEPT !.was[p] =
                          [k \in Key |-> {Answer(Shown(rows), Asked(p), k)}]]
  BY <1>1, <1>3
<1>4. CASE history' = [history EXCEPT !.overlapped =
                          history.overlapped \cup {<<command[p].level, Here(p)>>}]
  BY <1>1, <1>4
<1>5. CASE Writes(p)
  <2>1. Here(p) \in Key /\ command[p].level \in Level /\ command[p].kind \in {"upsert", "delete"}
    BY <1>5, HereIs DEF Writes
  <2>2. rows' \in [Level -> [Key -> Row]]
        /\ Remember(rows', command[p].kind, command[p].level, Here(p))
    BY <1>5, WriteMoves
  <2>3. history'.overlapped = history.overlapped
    BY <2>1, <2>2 DEF Remember
  <2> QED
    BY <2>3
<1> QED
  BY <1>2, <1>3, <1>4, <1>5, HistorySteps

\* Only a call that has just looked is newly between its two statements.
LEMMA UpsertingAfter ==
    ASSUME ShapeInv, NEW p \in Call, PreferenceStep(p), NEW q \in Call, NEW l, NEW k,
           Upserting(q, l, k)'
    PROVE  IF q = p THEN /\ Looks(p) /\ command[p].kind = "upsert"
                         /\ command[p].level = l /\ Here(p) = k
           ELSE Upserting(q, l, k)
<1>1. UNCHANGED command /\ step \in [Call -> Phases] /\ (Stays(p) \/ GoesOn(p))
  BY AheadAfter, StepStays DEF ShapeInv, TablesOK
<1>2. CASE q # p
  BY <1>1, <1>2, AheadAfter DEF Upserting
<1>3. CASE q = p
  <2>1. step'[p] = "write" /\ command[p].kind = "upsert" /\ command[p].level = l
    BY <1>1, <1>3 DEF Upserting
  <2>2. Stays(p)
    BY <1>1, <2>1 DEF GoesOn
  <2>3. Here(p) = k
    BY <1>3, <2>2, AheadAfter DEF Upserting
  <2>4. left'[p] = left[p]
    BY <2>2, AheadAfter
  <2>5. \A what \in {"ok", "failed"} :
            ~(step[p] \in {"find", "write", "emit"} /\ Settle(p, what))
    BY <2>4, SettleGoes
  <2>6. ~GivesUp(p) /\ ~EmitPreferenceHook(p)
    BY <2>5 DEF GivesUp, EmitPreferenceHook
  <2>7. ~Writes(p)
    <3> SUFFICES ASSUME Writes(p) PROVE FALSE
      OBVIOUS
    <3>1. step[p] = "write"
      BY DEF Writes
    <3>2. step' = [step EXCEPT ![p] = "emit"]
      BY <2>5, <3>1, WriteMoves
    <3> QED
      BY <1>1, <2>1, <3>2
  <2>8. ~RefuseTransactional(p) /\ ~Begins(p) /\ ~Skips(p) /\ ~Aborts(p) /\ ~Die(p)
    BY <1>1, <2>1 DEF RefuseTransactional, Begins, Skips, Aborts, Die, Finish, MoveTo
  <2>9. ~ListPreferences(p)
    BY <1>1, <2>1 DEF ListPreferences, Finish, MoveTo
  <2> QED
    BY <1>3, <2>1, <2>3, <2>6, <2>7, <2>8, <2>9 DEF PreferenceStep
<1> QED
  BY <1>2, <1>3

LEMMA AloneStep ==
    ASSUME ShapeInv, IdsInv, AloneInv, [PreferenceNext]_preferenceVars
    PROVE  AloneInv'
<1>1. CASE PreferenceNext
  <2>1. PICK p \in Call : PreferenceStep(p)
    BY <1>1, NextIsPreferenceStep
  <2>2. UNCHANGED command
    BY <2>1, AheadAfter
  <2>3. SUFFICES ASSUME NEW l \in Level, NEW k \in Key, <<l, k>> \notin history'.overlapped
                 PROVE  /\ \A r, q \in Call : Upserting(r, l, k)' /\ Upserting(q, l, k)' => r = q
                        /\ \A q \in Call : Upserting(q, l, k)' => rows'[l][k] \in {existing'[q], NoRow}
                        /\ \A q \in Call :
                              /\ saved'[q][k] # NoRow /\ command[q].level = l
                              /\ rows'[l][k].id = saved'[q][k].id
                              => saved'[q][k].version <= rows'[l][k].version
    BY <2>2 DEF AloneInv
  <2>4. <<l, k>> \notin history.overlapped
    BY <2>1, <2>3, OverlapsGrow
  <2>5. /\ \A r, q \in Call : Upserting(r, l, k) /\ Upserting(q, l, k) => r = q
        /\ \A q \in Call : Upserting(q, l, k) => rows[l][k] \in {existing[q], NoRow}
        /\ \A q \in Call :
              /\ saved[q][k] # NoRow /\ command[q].level = l /\ rows[l][k].id = saved[q][k].id
              => saved[q][k].version <= rows[l][k].version
    BY <2>4 DEF AloneInv
  <2>6. /\ history \in [was : Was, moved : Moved, overlapped : SUBSET (Level \X Key)]
        /\ existing \in [Call -> Row] /\ step \in [Call -> Phases]
    BY DEF ShapeInv, HistoryOK, TablesOK
  <2>7. ASSUME Looks(p), command[p].kind = "upsert", command[p].level = l, Here(p) = k,
               NEW q \in Call \ {p}, Upserting(q, l, k)
        PROVE  FALSE
    <3>1. history' = [history EXCEPT !.overlapped = history.overlapped \cup {<<l, k>>}]
      BY <2>7 DEF Looks
    <3> QED
      BY <2>3, <2>6, <3>1
  <2>8. ASSUME NEW r \in Call, NEW q \in Call, Upserting(r, l, k)', Upserting(q, l, k)'
        PROVE  r = q
    <3>1. CASE r # p /\ q # p
      BY <2>1, <2>5, <2>8, <3>1, UpsertingAfter
    <3>2. CASE r = p /\ q # p
      BY <2>1, <2>7, <2>8, <3>2, UpsertingAfter
    <3>3. CASE q = p /\ r # p
      BY <2>1, <2>7, <2>8, <3>3, UpsertingAfter
    <3> QED
      BY <3>1, <3>2, <3>3
  <2>9. Writes(p) => \A m \in Level, j \in Key :
           rows'[m][j] = IF m = command[p].level /\ j = Here(p) THEN NewRow(p) ELSE rows[m][j]
    BY WriteMoves
  <2>10. ASSUME NEW q \in Call, Upserting(q, l, k)'
         PROVE  rows'[l][k] \in {existing'[q], NoRow}
    <3>1. CASE q = p
      <4>1. Looks(p) /\ command[p].level = l /\ Here(p) = k
        BY <2>1, <2>10, <3>1, UpsertingAfter
      <4> QED
        BY <2>6, <3>1, <4>1 DEF Looks, Cell
    <3>2. CASE q # p
      <4>1. Upserting(q, l, k)
        BY <2>1, <2>10, <3>2, UpsertingAfter
      <4>2. existing'[q] = existing[q]
        <5>1. UNCHANGED existing \/ \E entry : existing' = [existing EXCEPT ![p] = entry]
          <6>1. CASE Writes(p)
            BY <6>1, WriteMoves DEF Settle
          <6> QED
            BY <2>1, <6>1 DEF PreferenceStep, RefuseTransactional, Begins, Looks, GivesUp, Skips,
               NoSettle, Settle, EmitPreferenceHook, ListPreferences, Aborts, Die
        <5> QED
          BY <2>6, <3>2, <5>1
      <4>3. rows[l][k] \in {existing[q], NoRow}
        BY <2>5, <4>1
      <4>4. CASE UNCHANGED rows
        BY <4>2, <4>3, <4>4
      <4>5. CASE Writes(p) /\ l = command[p].level /\ k = Here(p)
        <5>1. command[p].kind # "upsert"
          BY <2>5, <3>2, <4>1, <4>5 DEF Upserting, Writes
        <5> QED
          BY <2>9, <4>5, <5>1, NewRowIs
      <4>6. CASE Writes(p) /\ ~(l = command[p].level /\ k = Here(p))
        BY <2>9, <4>2, <4>3, <4>6
      <4> QED
        BY <2>1, <4>4, <4>5, <4>6, OnlyWrites
    <3> QED
      BY <3>1, <3>2
  <2>11. ASSUME NEW q \in Call, saved'[q][k] # NoRow, command[q].level = l,
                rows'[l][k].id = saved'[q][k].id
         PROVE  saved'[q][k].version <= rows'[l][k].version
    <3>1. CASE UNCHANGED <<rows, saved>>
      BY <2>5, <2>11, <3>1
    <3>2. CASE Writes(p) /\ l = command[p].level /\ k = Here(p)
      <4>1. rows'[l][k] = NewRow(p) /\ GoodRow(NewRow(p)) /\ NewRow(p) \in Row
        BY <2>9, <3>2, NewRowIs DEF GoodRow
      <4>2. NewRow(p).version \in Nat
        BY <4>1 DEF Row
      <4>3. CASE saved'[q][k] = NewRow(p)
        BY <4>1, <4>2, <4>3
      <4>4. CASE saved'[q][k] = saved[q][k]
        <5>1. saved[q][k] \in Row /\ GoodRow(saved[q][k])
          BY DEF ShapeInv, TablesOK
        <5>2. saved[q][k].id # "none" /\ saved[q][k].version \in Nat
          BY <2>11, <4>4, <5>1 DEF GoodRow, Row
        <5>3. command[p].kind = "upsert"
          BY <2>11, <4>1, <4>4, <5>2, NewRowIs, EmptyRows
        <5>4. saved[q][k].version < NewRow(p).version
          BY <2>4, <2>11, <3>2, <4>1, <4>4, <5>3, WritesAhead
        <5>5. saved[q][k].version <= NewRow(p).version
          BY <4>2, <5>2, <5>4
        <5> QED
          BY <4>1, <4>4, <5>5
      <4> QED
        BY <3>2, <4>3, <4>4, SavedAfter
    <3>3. CASE Writes(p) /\ ~(l = command[p].level /\ k = Here(p))
      <4>1. rows'[l][k] = rows[l][k]
        BY <2>9, <3>3
      <4>2. saved'[q][k] = saved[q][k]
        BY <2>11, <3>3, SavedAfter
      <4> QED
        BY <2>5, <2>11, <4>1, <4>2
    <3> QED
      BY <2>1, <3>1, <3>2, <3>3, OnlyWrites
  <2> QED
    BY <2>8, <2>10, <2>11
<1>2. CASE UNCHANGED preferenceVars
  BY <1>2 DEF preferenceVars, AloneInv, Upserting, Here
<1> QED
  BY <1>1, <1>2

LEMMA VersionsStep ==
    ASSUME ShapeInv, IdsInv, AloneInv, VersionsTellWritesApart,
           [PreferenceNext]_preferenceVars
    PROVE  VersionsTellWritesApart'
<1>1. CASE PreferenceNext
  <2>1. PICK p \in Call : PreferenceStep(p)
    BY <1>1, NextIsPreferenceStep
  <2>2. UNCHANGED command
    BY <2>1, AheadAfter
  <2>3. SUFFICES ASSUME NEW q \in Call, NEW r \in Call, NEW k \in Key, q # r,
                        saved'[q][k] # NoRow, saved'[r][k] # NoRow,
                        command[q].level = command[r].level,
                        <<command[q].level, k>> \notin history'.overlapped,
                        saved'[q][k].id = saved'[r][k].id
                 PROVE  saved'[q][k].version # saved'[r][k].version
    BY <2>2 DEF VersionsTellWritesApart
  <2>4. <<command[q].level, k>> \notin history.overlapped
    BY <2>1, <2>3, OverlapsGrow
  <2>5. /\ saved \in [Call -> [Key -> Row]]
        /\ saved[q][k].version \in Nat /\ saved[r][k].version \in Nat
    BY DEF ShapeInv, TablesOK, Row
  <2>6. ASSUME NEW x \in Call, NEW y \in Call, Writes(p), x = p, k = Here(p), x # y,
               command[p].kind = "upsert", saved'[x][k] = NewRow(p),
               saved'[y][k] = saved[y][k], saved'[y][k] # NoRow,
               command[x].level = command[y].level,
               <<command[x].level, k>> \notin history.overlapped,
               saved'[x][k].id = saved'[y][k].id
        PROVE  saved'[x][k].version # saved'[y][k].version
    <3>1. saved[y][k].version < NewRow(p).version
      BY <2>6, WritesAhead
    <3>2. saved[y][k].version \in Nat /\ NewRow(p).version \in Nat
      BY NewRowIs DEF ShapeInv, TablesOK, GoodRow, Row
    <3> QED
      BY <2>6, <3>1, <3>2
  <2>7. CASE saved'[q][k] = saved[q][k] /\ saved'[r][k] = saved[r][k]
    BY <2>3, <2>4, <2>7 DEF VersionsTellWritesApart
  <2>8. CASE Writes(p) /\ ~(saved'[q][k] = saved[q][k] /\ saved'[r][k] = saved[r][k])
    <3>1. /\ \/ saved'[q][k] = saved[q][k]
             \/ q = p /\ k = Here(p) /\ command[p].kind = "upsert" /\ saved'[q][k] = NewRow(p)
          /\ \/ saved'[r][k] = saved[r][k]
             \/ r = p /\ k = Here(p) /\ command[p].kind = "upsert" /\ saved'[r][k] = NewRow(p)
      BY <2>8, SavedAfter
    <3> QED
      BY <2>3, <2>4, <2>6, <2>8, <3>1
  <2> QED
    BY <2>1, <2>7, <2>8, OnlyWrites
<1>2. CASE UNCHANGED preferenceVars
  BY <1>2 DEF preferenceVars, VersionsTellWritesApart
<1> QED
  BY <1>1, <1>2

LEMMA PreferenceInitIds == PreferenceInit => IdsInv /\ AloneInv /\ VersionsTellWritesApart
<1> SUFFICES ASSUME PreferenceInit PROVE IdsInv /\ AloneInv /\ VersionsTellWritesApart
  OBVIOUS
<1>1. \A p \in Call : step[p] = "idle" /\ \A k \in Key : saved[p][k] = NoRow
  BY EmptyRows DEF PreferenceInit
<1>2. \A l \in Level, k \in Key : rows[l][k].id \in Old \cup {"none"}
  BY DEF PreferenceInit, NoRow, FirstRows
<1>3. \A l \in Level, k \in Key, p \in Call : rows[l][k].id # p
  BY <1>2, PreferenceAssumption
<1>4. \A q, p \in Call, k \in Key : saved[q][k].id # p
  BY <1>1, EmptyRows, PreferenceAssumption
<1> QED
  BY <1>1, <1>3, <1>4 DEF IdsInv, AloneInv, VersionsTellWritesApart, Upserting

\* UpsertPreference numbers a row's versions by the row it found: two upserts are
\* given the same one of the same row only if one found it while the other was
\* between its two statements.
THEOREM VersionsDiffer == PreferenceSpec => []VersionsTellWritesApart
<1> DEFINE Inv == ShapeInv /\ IdsInv /\ AloneInv /\ VersionsTellWritesApart
<1>1. PreferenceInit => Inv
  BY PreferenceInitShape, PreferenceInitIds
<1>2. Inv /\ [PreferenceNext]_preferenceVars => Inv'
  BY ShapeStep, IdsStep, AloneStep, VersionsStep
<1>3. Inv => VersionsTellWritesApart
  OBVIOUS
<1> QED
  BY <1>1, <1>2, <1>3, PTL DEF PreferenceSpec

-----------------------------------------------------------------------------
(* Preferences: resolution                                                     *)

\* Sets of levels that agree from one of their members up have the same maximum.
LEMMA SameTop ==
    ASSUME NEW S \in SUBSET Level, NEW T \in SUBSET Level, NEW l \in S,
           \A m \in Level : m >= l => (m \in S <=> m \in T)
    PROVE  /\ S # {} /\ T # {} /\ Max(S) = Max(T) /\ Max(S) >= l
           /\ Max(S) \in S
<1>1. Level \subseteq Nat
  BY DEF Level
<1>2. l \in T
  <2>1. l \in Nat
    BY <1>1
  <2>2. l >= l
    BY <2>1
  <2> QED
    BY <2>2
<1>3. /\ Max(S) \in S /\ \A y \in S : y <= Max(S)
      /\ Max(T) \in T /\ \A y \in T : y <= Max(T)
  BY <1>2, LevelMax
<1>4. Max(S) >= l /\ Max(T) >= l /\ Max(S) \in Nat /\ Max(T) \in Nat
  BY <1>1, <1>2, <1>3
<1>5. Max(S) \in T /\ Max(T) \in S
  BY <1>3, <1>4
<1>6. Max(S) = Max(T)
  BY <1>3, <1>4, <1>5
<1> QED
  BY <1>2, <1>3, <1>4, <1>6

\* What is above the highest level that has a field decides: views that agree on a
\* level that has it and on all above say the same of it.
LEMMA TopSaying ==
    ASSUME NEW view, NEW other, NEW levels \in SUBSET Level, NEW k, NEW f, NEW l \in levels,
           f \in view[l][k].has,
           \A m \in levels : m >= l => view[m][k] = other[m][k]
    PROVE  Saying(view, levels, k, f) = Saying(other, levels, k, f)
<1> DEFINE S == Having(view, levels, k, f)
           T == Having(other, levels, k, f)
<1>1. /\ S \in SUBSET Level /\ T \in SUBSET Level /\ l \in S
      /\ \A m \in Level : m >= l => (m \in S <=> m \in T)
      /\ S \subseteq levels
  BY DEF Having
<1>2. /\ Saying(view, levels, k, f) = IF S = {} THEN "none" ELSE view[Max(S)][k].value
      /\ Saying(other, levels, k, f) = IF T = {} THEN "none" ELSE other[Max(T)][k].value
  BY DEF Saying
<1> HIDE DEF S, T
<1>3. S # {} /\ T # {} /\ Max(S) = Max(T) /\ Max(S) >= l /\ Max(S) \in S
  BY <1>1, SameTop
<1>4. view[Max(S)][k] = other[Max(S)][k]
  BY <1>1, <1>3
<1> QED
  BY <1>2, <1>3, <1>4

\* The same for the version of a key.
LEMMA TopNumbering ==
    ASSUME NEW view, NEW other, NEW levels \in SUBSET Level, NEW k, NEW l \in levels,
           view[l][k].value # "none",
           \A m \in levels : m >= l => view[m][k] = other[m][k]
    PROVE  Numbering(view, levels, k) = Numbering(other, levels, k)
<1> DEFINE S == Holders(view, levels, k)
           T == Holders(other, levels, k)
<1>1. /\ S \in SUBSET Level /\ T \in SUBSET Level /\ l \in S
      /\ \A m \in Level : m >= l => (m \in S <=> m \in T)
      /\ S \subseteq levels
  BY DEF Holders
<1>2. /\ Numbering(view, levels, k) = IF S = {} THEN 0 ELSE view[Max(S)][k].version
      /\ Numbering(other, levels, k) = IF T = {} THEN 0 ELSE other[Max(T)][k].version
  BY DEF Numbering
<1> HIDE DEF S, T
<1>3. S # {} /\ T # {} /\ Max(S) = Max(T) /\ Max(S) >= l /\ Max(S) \in S
  BY <1>1, SameTop
<1>4. view[Max(S)][k] = other[Max(S)][k]
  BY <1>1, <1>3
<1> QED
  BY <1>2, <1>3, <1>4

\* What a resolution knows of the levels of the user.
LEMMA KnownIs ==
    ASSUME ShapeInv, NEW p \in Call
    PROVE  /\ \A l \in Level :
                 Known(p)[l] = IF l \in Ahead(p) THEN Layer(rows, l) ELSE layers[p][l]
           /\ \A l \in Level : Shown(rows)[l] = Layer(rows, l)
           /\ command[p].kind = "resolve" => Asked(p) \in SUBSET Level
  BY ShownIs, LeftIs DEF Known, ShapeInv, TablesOK

\* Levels read by their priority: those above one still ahead are ahead too.
LEMMA HigherAhead ==
    ASSUME ShapeInv, NEW p \in Call, command[p].kind = "resolve",
           Ascending(command[p].list), NEW l \in Ahead(p), NEW m \in Asked(p), m >= l
    PROVE  m \in Ahead(p)
<1> DEFINE all == command[p].list
           gone == Len(all) - Len(left[p])
<1>1. command \in [Call -> Commands] /\ TasksOK /\ TablesOK
  BY DEF ShapeInv, TablesOK
<1>2. /\ Len(all) \in Nat \ {0} /\ DOMAIN all = 1..Len(all)
      /\ \A i \in 1..Len(all) : all[i] \in Level
  BY <1>1, ListIs, ElementOfSeq
<1>3. /\ Len(left[p]) \in Nat /\ DOMAIN left[p] = 1..Len(left[p]) /\ Len(left[p]) <= Len(all)
      /\ \A i \in 1..Len(left[p]) : left[p][i] = all[gone + i]
  BY <1>1, LeftIs DEF TasksOK
<1>4. PICK i \in 1..Len(left[p]) : l = all[gone + i]
  BY <1>3 DEF Ahead
<1>5. PICK j \in 1..Len(all) : m = all[j]
  BY <1>2 DEF Asked
<1> DEFINE n == Len(all)
           d == Len(left[p])
           here == n - d + i
<1>6. here \in 1..n /\ l = all[here]
  <2>1. \A x, y \in Nat : x <= y => \A z \in 1..x : y - x + z \in 1..y
    OBVIOUS
  <2> QED
    BY <1>2, <1>3, <1>4, <2>1
<1>7. \A x, y \in 1..n : x < y => all[x] < all[y]
  BY <1>2 DEF Ascending
<1>8. j >= here
  <2>1. j \in 1..n /\ n \in Nat /\ m = all[j] /\ all[j] \in Level /\ all[here] \in Level
    BY <1>2, <1>5, <1>6
  <2>4. Level \subseteq Nat
    BY DEF Level
  <2> HIDE DEF n, d, all, here
  <2>2. m \in Nat /\ l \in Nat
    BY <1>6, <2>1, <2>4
  <2>3. ~(j < here)
    <3> SUFFICES ASSUME j < here PROVE FALSE
      OBVIOUS
    <3>1. m < l
      BY <1>6, <1>7, <2>1
    <3> QED
      BY <2>2, <3>1
  <2> QED
    BY <1>6, <2>1, <2>3
<1>9. j - (n - d) \in 1..d /\ (n - d) + (j - (n - d)) = j
  <2>1. \A x, y \in Nat : x <= y =>
            \A z \in 1..x, w \in 1..y : w >= y - x + z =>
                w - (y - x) \in 1..x /\ (y - x) + (w - (y - x)) = w
    OBVIOUS
  <2> QED
    BY <1>2, <1>3, <1>4, <1>5, <1>8, <2>1
<1>10. left[p][j - (n - d)] = m
  BY <1>3, <1>5, <1>9
<1> QED
  BY <1>3, <1>9, <1>10 DEF Ahead

\* What has been remembered for a resolution never gets less.
LEMMA MovedIs ==
    ASSUME ShapeInv, NEW p \in Call, NEW k \in Key
    PROVE  /\ history.moved[p][k] \subseteq {"upsert", "delete"} \X Level \X SUBSET Part
           /\ MovedLevels(p, k) \subseteq Level
  BY DEF ShapeInv, HistoryOK, Moved, MovedLevels

LEMMA PreferenceInitResolve == PreferenceInit => ResolveInv
  BY DEF PreferenceInit, ResolveInv, Resolving, Done

\* A step that is no write leaves what another resolution knows as it was.
LEMMA HistoryOfOthers ==
    ASSUME ShapeInv, NEW p \in Call, PreferenceStep(p), ~Writes(p), NEW q \in Call,
           q # p \/ ~(Begins(p) /\ command[p].kind = "resolve"), NEW k \in Key
    PROVE  /\ history'.was[q][k] = history.was[q][k]
           /\ history'.moved[q][k] = history.moved[q][k]
           /\ UNCHANGED rows
<1>1. /\ history \in [was : Was, moved : Moved, overlapped : SUBSET (Level \X Key)]
      /\ history.was \in [Call -> [Key -> SUBSET Verdict]]
  BY DEF ShapeInv, HistoryOK, Was
<1>2. UNCHANGED rows
  BY OnlyWrites
<1>3. CASE UNCHANGED history
  BY <1>2, <1>3
<1>4. CASE /\ Begins(p) /\ command[p].kind = "resolve"
           /\ history' = [history EXCEPT !.was[p] =
                             [j \in Key |-> {Answer(Shown(rows), Asked(p), j)}]]
  <2> DEFINE first == [j \in Key |-> {Answer(Shown(rows), Asked(p), j)}]
  <2>1. q # p /\ history' = [history EXCEPT !.was[p] = first]
    BY <1>4
  <2> HIDE DEF first
  <2> QED
    BY <1>1, <1>2, <2>1
<1>5. CASE history' = [history EXCEPT !.overlapped =
                          history.overlapped \cup {<<command[p].level, Here(p)>>}]
  BY <1>1, <1>2, <1>5
<1> QED
  BY <1>3, <1>4, <1>5, HistorySteps

\* What ResolveInv says of one resolution and one key.
Resolves(q, k) ==
    /\ Done(q) => left[q] = <<>>
    /\ step[q] = "list" => Answer(Shown(rows), Asked(q), k) \in history.was[q][k]
    /\ step[q] = "list" => \A l \in Asked(q) \ (Ahead(q) \cup MovedLevels(q, k)) :
          layers[q][l][k] = Layer(rows, l)[k]
    /\ Agrees(q, k, Answer(Known(q), Asked(q), k))

\* A write of another call while q resolves: on another key, or on this one.
LEMMA WriteSeen ==
    ASSUME ShapeInv, ResolveInv, NEW p \in Call, Writes(p), NEW q \in Call, NEW k \in Key,
           q # p, Resolving(q)
    PROVE  Resolves(q, k)'
<1> DEFINE w == command[p].level
           kind == command[p].kind
<1>1. /\ PreferenceStep(p) /\ step[p] = "write"
      /\ Here(p) \in Key /\ w \in Level /\ kind \in {"upsert", "delete"}
  BY HereIs DEF Writes, PreferenceStep
<1>2. /\ UNCHANGED <<command, layers>> /\ left'[q] = left[q] /\ step'[q] = step[q]
      /\ Ahead(q)' = Ahead(q) /\ Asked(q)' = Asked(q)
  <2>1. UNCHANGED <<command, layers>>
    BY WriteMoves
  <2> QED
    BY <1>1, <2>1, AheadAfter
<1>3. /\ rows \in [Level -> [Key -> Row]] /\ rows' \in [Level -> [Key -> Row]]
      /\ Remember(rows', kind, w, Here(p))
  BY WriteMoves DEF ShapeInv, TablesOK
<1>4. \A l \in Level, j \in Key :
         rows'[l][j] = IF l = w /\ j = Here(p) THEN NewRow(p) ELSE rows[l][j]
  BY WriteMoves
<1>5. ShapeInv'
  BY <1>1, TablesStep, HistoryStep, TasksStep DEF ShapeInv
<1>6. /\ Asked(q) \in SUBSET Level
      /\ \A l \in Level :
            /\ Known(q)[l] = (IF l \in Ahead(q) THEN Layer(rows, l) ELSE layers[q][l])
            /\ Shown(rows)[l] = Layer(rows, l)
  BY KnownIs DEF Resolving
<1>7. \A l \in Level :
         /\ Known(q)'[l] = (IF l \in Ahead(q) THEN Layer(rows', l) ELSE layers[q][l])
         /\ Shown(rows')[l] = Layer(rows', l)
  BY <1>2, <1>3, ShownIs DEF Known
<1>8. \A l \in Level, j \in Key : ~(l = w /\ j = Here(p)) => Layer(rows', l)[j] = Layer(rows, l)[j]
  BY <1>4, SameLayer
<1>9. Resolves(q, k)
  BY DEF ResolveInv, Resolves
<1>10. IF Reading(q) /\ k = Here(p)
       THEN /\ history'.was[q][k] = history.was[q][k] \cup {Answer(Shown(rows'), Asked(q), k)}
            /\ history'.moved[q][k] = history.moved[q][k] \cup {<<kind, w, NewRow(p).has>>}
       ELSE history'.was[q][k] = history.was[q][k] /\ history'.moved[q][k] = history.moved[q][k]
  <2>1. PICK table, l, j, what : table = rows' /\ l = w /\ j = Here(p) /\ what = kind
    OBVIOUS
  <2>2. /\ table \in [Level -> [Key -> Row]] /\ l \in Level /\ j \in Key
        /\ what \in {"upsert", "delete"} /\ Remember(table, what, l, j)
    BY <1>1, <1>3, <2>1
  <2>3. IF Reading(q) /\ k = j
        THEN /\ history'.was[q][k] = history.was[q][j] \cup {Answer(Shown(table), Asked(q), j)}
             /\ history'.moved[q][k] = history.moved[q][j] \cup {<<what, l, table[l][j].has>>}
        ELSE history'.was[q][k] = history.was[q][k] /\ history'.moved[q][k] = history.moved[q][k]
    BY <2>2, RememberIs
  <2>4. k = Here(p) => table[l][j].has = NewRow(p).has
    BY <1>1, <1>4, <2>1
  <2> QED
    BY <2>1, <2>3, <2>4
<1>11. CASE ~(Reading(q) /\ k = Here(p))
  <2>1. history'.was[q][k] = history.was[q][k] /\ history'.moved[q][k] = history.moved[q][k]
    BY <1>10, <1>11
  <2>2. /\ MovedLevels(q, k)' = MovedLevels(q, k)
        /\ \A told : Agrees(q, k, told) => Agrees(q, k, told)'
    BY <1>2, <2>1 DEF MovedLevels, Agrees, Ordered
  <2>3. k # Here(p) \/ (Done(q) /\ left[q] = <<>>)
    BY <1>9, <1>11 DEF Reading, Resolving, UnderWay, Resolves
  <2>4. Answer(Known(q)', Asked(q), k) = Answer(Known(q), Asked(q), k)
    <3>1. \A l \in Asked(q) : Known(q)'[l][k] = Known(q)[l][k]
      <4>1. CASE k # Here(p)
        BY <1>6, <1>7, <1>8, <4>1
      <4>2. CASE left[q] = <<>>
        <5>1. Ahead(q) = {}
          BY <4>2 DEF Ahead
        <5> QED
          BY <1>6, <1>7, <5>1
      <4> QED
        BY <2>3, <4>1, <4>2
    <3> QED
      BY <1>6, <3>1, SameAnswer
  <2>5. CASE step[q] = "list"
    <3>1. k # Here(p)
      BY <2>3, <2>5 DEF Done
    <3>2. \A l \in Asked(q) : Layer(rows', l)[k] = Layer(rows, l)[k]
      BY <1>6, <1>8, <3>1
    <3>3. Answer(Shown(rows'), Asked(q), k) = Answer(Shown(rows), Asked(q), k)
      <4>1. \A l \in Asked(q) : Shown(rows')[l][k] = Shown(rows)[l][k]
        BY <1>6, <1>7, <3>2
      <4> QED
        BY <1>6, <4>1, SameAnswer
    <3> QED
      BY <1>2, <1>9, <2>1, <2>2, <2>4, <2>5, <3>2, <3>3 DEF Resolves, Done
  <2>6. CASE step[q] # "list"
    BY <1>2, <1>9, <2>1, <2>2, <2>4, <2>6 DEF Resolves, Done
  <2> QED
    BY <2>5, <2>6
<1>12. CASE Reading(q) /\ k = Here(p)
  <2>0. PICK now, seen : /\ now = Answer(Shown(rows'), Asked(q), k)
                         /\ seen = Answer(Known(q)', Asked(q), k)
    OBVIOUS
  <2>1. /\ history'.was[q][k] = history.was[q][k] \cup {now}
        /\ history'.moved[q][k] = history.moved[q][k] \cup {<<kind, w, NewRow(p).has>>}
        /\ step[q] = "list"
    <3>1. step[q] = "list"
      BY <1>12 DEF Reading, Resolving, UnderWay, Done
    <3> QED
      BY <1>10, <1>12, <2>0, <3>1
  <2>2. MovedLevels(q, k)' = MovedLevels(q, k) \cup {w}
    <3>1. /\ MovedLevels(q, k) = {m[2] : m \in history.moved[q][k]}
          /\ MovedLevels(q, k)' = {m[2] : m \in history'.moved[q][k]}
      BY DEF MovedLevels
    <3>2. <<kind, w, NewRow(p).has>>[2] = w
      OBVIOUS
    <3> HIDE DEF kind, w
    <3> QED
      BY <2>1, <3>1, <3>2
  <2>3. \A l \in Asked(q) \ (Ahead(q) \cup MovedLevels(q, k)') :
           layers[q][l][k] = Layer(rows', l)[k]
    <3> SUFFICES ASSUME NEW l \in Asked(q), l \notin Ahead(q), l \notin MovedLevels(q, k), l # w
                 PROVE  layers[q][l][k] = Layer(rows', l)[k]
      BY <2>2
    <3>1. layers[q][l][k] = Layer(rows, l)[k]
      BY <1>9, <2>1 DEF Resolves
    <3> QED
      BY <1>6, <1>8, <3>1
  <2>4. ASSUME w \notin Ahead(q) PROVE Agrees(q, k, seen)'
    <3>1. \A l \in Asked(q) : Known(q)'[l][k] = Known(q)[l][k]
      BY <1>6, <1>7, <1>8, <2>4
    <3>2. seen = Answer(Known(q), Asked(q), k)
      BY <1>6, <2>0, <3>1, SameAnswer
    <3>3. Agrees(q, k, seen)
      BY <1>9, <3>2 DEF Resolves
    <3>4. Agrees(q, k, seen)'
      BY <1>2, <2>1, <2>2, <3>3 DEF Agrees, Ordered
    <3> QED
      BY <3>4
  <2>5. ASSUME w \in Ahead(q) PROVE Agrees(q, k, seen)'
    <3>1. w \in Asked(q)
      BY <2>5, LeftIs DEF ShapeInv
    <3>2. Known(q)'[w][k] = Shown(rows')[w][k]
      BY <1>1, <1>7, <2>5
    <3>3. ASSUME \A l, m \in MovedLevels(q, k)' : l = m
          PROVE  seen = now
      <4>1. \A l \in MovedLevels(q, k) : l = w
        BY <2>2, <3>3
      <4>2. \A l \in Asked(q) : Known(q)'[l][k] = Shown(rows')[l][k]
        <5> SUFFICES ASSUME NEW l \in Asked(q) PROVE Known(q)'[l][k] = Shown(rows')[l][k]
          OBVIOUS
        <5>1. CASE l \in Ahead(q)
          BY <1>6, <1>7, <5>1
        <5>2. CASE l \notin Ahead(q)
          <6>1. l \notin MovedLevels(q, k)'
            BY <2>2, <2>5, <4>1, <5>2
          <6>2. layers[q][l][k] = Layer(rows', l)[k]
            BY <2>3, <5>2, <6>1
          <6> QED
            BY <1>6, <1>7, <5>2, <6>2
        <5> QED
          BY <5>1, <5>2
      <4> QED
        BY <1>6, <2>0, <4>2, SameAnswer
    <3>4. ASSUME Ordered(q), NEW m \in Asked(q), m >= w
          PROVE  Known(q)'[m][k] = Shown(rows')[m][k]
      <4>1. m \in Ahead(q)
        BY <2>5, <3>4, HigherAhead DEF Resolving, Ordered
      <4> QED
        BY <1>6, <1>7, <4>1
    <3>5. ASSUME NewRow(p) # NoRow
          PROVE  Layer(rows', w)[k] = NewRow(p) /\ NewRow(p).value # "none"
      <4>1. rows'[w][k] = NewRow(p) /\ GoodRow(NewRow(p)) /\ k \in Key
        BY <1>1, <1>4, <1>12, NewRowIs
      <4>2. PICK table : table = rows'
        OBVIOUS
      <4>3. /\ table \in [Level -> [Key -> Row]] /\ GoodRow(table[w][k]) /\ table[w][k] # NoRow
            /\ table[w][k] = NewRow(p)
        BY <1>3, <3>5, <4>1, <4>2
      <4>4. Layer(table, w)[k] = table[w][k] /\ Layer(table, w)[k].value # "none"
        BY <1>1, <4>1, <4>3, RowLayer
      <4> QED
        BY <4>2, <4>3, <4>4
    <3>6. ASSUME Ordered(q), NEW f \in Part, \A m \in history'.moved[q][k] : f \in m[3]
          PROVE  seen.value[f] = now.value[f]
      <4>1. f \in NewRow(p).has
        <5>1. <<kind, w, NewRow(p).has>> \in history'.moved[q][k]
          BY <2>1
        <5> HIDE DEF kind, w
        <5>2. f \in <<kind, w, NewRow(p).has>>[3]
          BY <3>6, <5>1
        <5> QED
          BY <5>2
      <4>2. NewRow(p) # NoRow
        BY <4>1, EmptyRows
      <4>3. Known(q)'[w][k] = NewRow(p)
        BY <1>1, <1>7, <2>5, <3>5, <3>6, <4>2
      <4>4. Saying(Known(q)', Asked(q), k, f) = Saying(Shown(rows'), Asked(q), k, f)
        <5>1. \A m \in Asked(q) : m >= w => Known(q)'[m][k] = Shown(rows')[m][k]
          BY <3>4, <3>6
        <5>2. f \in Known(q)'[w][k].has
          BY <4>1, <4>3
        <5> HIDE DEF w
        <5> QED
          BY <1>6, <3>1, <5>1, <5>2, TopSaying
      <4> QED
        BY <2>0, <3>6, <4>4 DEF Answer
    <3>7. ASSUME Ordered(q), \A m \in history'.moved[q][k] : m[1] = "upsert"
          PROVE  seen.version = now.version
      <4>1. kind = "upsert"
        <5>1. <<kind, w, NewRow(p).has>> \in history'.moved[q][k]
          BY <2>1
        <5> HIDE DEF kind, w
        <5>2. <<kind, w, NewRow(p).has>>[1] = "upsert"
          BY <3>7, <5>1
        <5> QED
          BY <5>2
      <4>2. NewRow(p) # NoRow
        BY <4>1, NewRowIs
      <4>3. Known(q)'[w][k] = NewRow(p) /\ NewRow(p).value # "none"
        BY <1>1, <1>7, <2>5, <3>5, <3>7, <4>2
      <4>4. Numbering(Known(q)', Asked(q), k) = Numbering(Shown(rows'), Asked(q), k)
        <5>1. \A m \in Asked(q) : m >= w => Known(q)'[m][k] = Shown(rows')[m][k]
          BY <3>4, <3>7
        <5>2. Known(q)'[w][k].value # "none"
          BY <4>3
        <5> HIDE DEF w
        <5> QED
          BY <1>6, <3>1, <5>1, <5>2, TopNumbering
      <4> QED
        BY <2>0, <4>4 DEF Answer
    <3>8. now \in history'.was[q][k]
      BY <2>1
    <3> QED
      BY <1>2, <3>3, <3>6, <3>7, <3>8 DEF Agrees, Ordered
  <2>6. Agrees(q, k, Answer(Known(q), Asked(q), k))'
    <3>1. Agrees(q, k, seen)'
      BY <2>4, <2>5
    <3>2. seen = Answer(Known(q)', Asked(q)', k)
      BY <1>2, <2>0
    <3> QED
      BY <3>1, <3>2 DEF Agrees
  <2>7. Answer(Shown(rows), Asked(q), k)' = now
    BY <1>2, <2>0
  <2>8. now \in history'.was[q][k]
    BY <2>1
  <2> QED
    BY <1>2, <1>9, <2>1, <2>3, <2>6, <2>7, <2>8 DEF Resolves, Done
<1> QED
  BY <1>11, <1>12

\* A step of another call that is no write.
LEMMA OtherSeen ==
    ASSUME ShapeInv, ResolveInv, NEW p \in Call, PreferenceStep(p), ~Writes(p),
           NEW q \in Call, NEW k \in Key, q # p, Resolving(q)
    PROVE  Resolves(q, k)'
<1>1. /\ left'[q] = left[q] /\ step'[q] = step[q] /\ UNCHANGED command
      /\ Ahead(q)' = Ahead(q) /\ Asked(q)' = Asked(q)
  BY AheadAfter
<1>2. /\ history'.was[q][k] = history.was[q][k] /\ history'.moved[q][k] = history.moved[q][k]
      /\ UNCHANGED rows
  BY HistoryOfOthers
<1>3. layers'[q] = layers[q]
  <2>1. layers \in [Call -> [Level -> [Key -> Row]]]
    BY DEF ShapeInv, TablesOK
  <2>2. UNCHANGED layers \/ \E what : layers' = [layers EXCEPT ![p] = what]
    <3>1. CASE ListPreferences(p)
      <4>1. layers' = [layers EXCEPT ![p] = [layers[p] EXCEPT ![Here(p)] = Layer(rows, Here(p))]]
        BY <3>1 DEF ListPreferences
      <4> QED
        BY <4>1
    <3> QED
      BY <3>1 DEF PreferenceStep, RefuseTransactional, Begins, Looks, GivesUp, Skips,
         EmitPreferenceHook, Aborts, Die
  <2> QED
    BY <2>1, <2>2
<1>4. Resolves(q, k)
  BY DEF ResolveInv, Resolves
<1>5. /\ MovedLevels(q, k)' = MovedLevels(q, k)
      /\ \A told : Agrees(q, k, told) => Agrees(q, k, told)'
  BY <1>1, <1>2 DEF MovedLevels, Agrees, Ordered
<1>6. Known(q)' = Known(q)
  BY <1>1, <1>2, <1>3 DEF Known
<1> QED
  BY <1>1, <1>2, <1>3, <1>4, <1>5, <1>6 DEF Resolves, Done

\* A resolution that begins: everything is ahead.
LEMMA BeginSeen ==
    ASSUME ShapeInv, NEW q \in Call, Begins(q), command[q].kind = "resolve", NEW k \in Key
    PROVE  Resolves(q, k)'
<1>1. /\ PreferenceStep(q) /\ UNCHANGED <<rows, command, left, layers>>
      /\ step[q] = "idle" /\ step' = [step EXCEPT ![q] = "list"]
  BY DEF Begins, PreferenceStep, MoveTo
<1>2. /\ step \in [Call -> Phases] /\ left[q] = command[q].list
      /\ history \in [was : Was, moved : Moved, overlapped : SUBSET (Level \X Key)]
  BY <1>1 DEF ShapeInv, TablesOK, TasksOK, HistoryOK
<1>3. /\ step'[q] = "list" /\ Ahead(q)' = Asked(q) /\ Asked(q)' = Asked(q)
      /\ Ahead(q) = Asked(q)
  BY <1>1, <1>2 DEF Ahead, Asked
<1>4. history'.was[q][k] = {Answer(Shown(rows), Asked(q), k)}
  <2> DEFINE first == [j \in Key |-> {Answer(Shown(rows), Asked(q), j)}]
  <2>1. history' = [history EXCEPT !.was[q] = first]
    <3>1. UNCHANGED history \/ history' = [history EXCEPT !.was[q] = first]
          \/ Looks(q) \/ Writes(q)
      BY <1>1, HistorySteps
    <3>2. ~Looks(q) /\ ~Writes(q)
      BY <1>1 DEF Looks, Writes
    <3>3. \A j : InOneState(rows, command[q].list, j) = Answer(Shown(rows), Asked(q), j)
      <4>1. rows \in [Level -> [Key -> Row]] /\ Asked(q) \subseteq Level
        BY KnownIs DEF ShapeInv, TablesOK
      <4> QED
        BY <4>1, InOneStateIs DEF Asked
    <3>4. history' = [history EXCEPT !.was[q] =
                          [j \in Key |-> {InOneState(rows, command[q].list, j)}]]
      BY DEF Begins
    <3> QED
      BY <3>3, <3>4
  <2>2. first[k] = {Answer(Shown(rows), Asked(q), k)}
    OBVIOUS
  <2>3. history.was \in [Call -> [Key -> SUBSET Verdict]]
    BY <1>2 DEF Was
  <2> HIDE DEF first
  <2> QED
    BY <1>2, <2>1, <2>2, <2>3
<1>5. Answer(Known(q), Asked(q), k) = Answer(Shown(rows), Asked(q), k)
  <2>1. /\ Asked(q) \in SUBSET Level
        /\ \A l \in Asked(q) : Known(q)[l] = Shown(rows)[l]
    BY <1>3, KnownIs
  <2> QED
    BY <2>1, SameAnswer
<1>6. Known(q)' = Known(q)
  BY <1>1, <1>3 DEF Known
<1>7. Shown(rows)' = Shown(rows)
  BY <1>1
<1>8. Agrees(q, k, Answer(Known(q), Asked(q), k))'
  BY <1>3, <1>4, <1>5, <1>6 DEF Agrees
<1> QED
  BY <1>1, <1>3, <1>4, <1>5, <1>6, <1>7, <1>8 DEF Resolves, Done

\* A level is read: what the resolution knows stays.
LEMMA ReadSeen ==
    ASSUME ShapeInv, ResolveInv, NEW q \in Call, ListPreferences(q), NEW k \in Key
    PROVE  Resolves(q, k)'
<1>1. /\ PreferenceStep(q) /\ ~Writes(q) /\ ~Begins(q)
      /\ UNCHANGED <<rows, command, history>> /\ step[q] = "list"
  BY DEF ListPreferences, PreferenceStep, Writes, Begins
<1>2. /\ command[q].kind = "resolve" /\ left[q] # <<>> /\ left[q] \in Seq(Nat)
      /\ step \in [Call -> Phases] /\ left \in [Call -> Seq(Nat)]
      /\ layers \in [Call -> [Level -> [Key -> Row]]]
  BY <1>1 DEF ShapeInv, TablesOK, TasksOK, UnderWay
<1>3. /\ Here(q) \in Level /\ Here(q) \in Ahead(q) /\ Len(left[q]) \in Nat \ {0}
      /\ Tail(left[q]) = <<>> <=> Len(left[q]) = 1
      /\ {Tail(left[q])[i] : i \in DOMAIN Tail(left[q])} = Ahead(q) \ {Here(q)}
  BY <1>2, NextInLeft DEF ShapeInv
<1>4. left'[q] = Tail(left[q]) /\ Ahead(q)' = Ahead(q) \ {Here(q)} /\ Asked(q)' = Asked(q)
  <2>1. left'[q] = Tail(left[q])
    BY <1>2 DEF ListPreferences
  <2> QED
    BY <1>1, <1>3, <2>1 DEF Ahead, Asked
<1>5. step'[q] = "done" => left'[q] = <<>>
  <2>1. Len(left[q]) > 1 => step'[q] = "list"
    BY <1>1 DEF ListPreferences
  <2>2. \A n \in Nat \ {0} : n > 1 \/ n = 1
    OBVIOUS
  <2> QED
    BY <1>3, <1>4, <2>1, <2>2
<1>6. \A l \in Level : layers'[q][l] = IF l = Here(q) THEN Layer(rows, l) ELSE layers[q][l]
  BY <1>2, <1>3 DEF ListPreferences
<1>7. /\ Asked(q) \in SUBSET Level
      /\ \A l \in Level :
            Known(q)[l] = (IF l \in Ahead(q) THEN Layer(rows, l) ELSE layers[q][l])
  BY <1>2, KnownIs
<1>8. \A l \in Level : Known(q)'[l] = Known(q)[l]
  <2>1. \A l \in Level :
            Known(q)'[l] = (IF l \in Ahead(q)' THEN Layer(rows, l) ELSE layers'[q][l])
    BY <1>1 DEF Known
  <2> QED
    BY <1>3, <1>4, <1>6, <1>7, <2>1
<1>9. Answer(Known(q)', Asked(q), k) = Answer(Known(q), Asked(q), k)
  BY <1>7, <1>8, SameAnswer
<1>10. Resolves(q, k)
  BY <1>1, <1>2 DEF ResolveInv, Resolves, Resolving
<1>11. /\ MovedLevels(q, k)' = MovedLevels(q, k)
       /\ \A told : Agrees(q, k, told) => Agrees(q, k, told)'
  BY <1>1 DEF MovedLevels, Agrees, Ordered
<1>12. \A l \in Asked(q) \ (Ahead(q)' \cup MovedLevels(q, k)) : layers'[q][l][k] = Layer(rows, l)[k]
  BY <1>1, <1>4, <1>6, <1>7, <1>10 DEF Resolves
<1>13. Shown(rows)' = Shown(rows)
  BY <1>1
<1> QED
  BY <1>1, <1>4, <1>5, <1>9, <1>10, <1>11, <1>12, <1>13 DEF Resolves, Done

LEMMA ResolveStep ==
    ASSUME ShapeInv, ResolveInv, [PreferenceNext]_preferenceVars
    PROVE  ResolveInv'
<1>1. CASE PreferenceNext
  <2>1. PICK p \in Call : PreferenceStep(p)
    BY <1>1, NextIsPreferenceStep
  <2>2. SUFFICES ASSUME NEW q \in Call, NEW k \in Key, Resolving(q)' PROVE Resolves(q, k)'
    BY DEF ResolveInv, Resolves
  <2>3. /\ UNCHANGED command /\ command[q].kind = "resolve" /\ ~command[q].transactional
        /\ step \in [Call -> Phases] /\ reply \in [Call -> {"none", "ok", "error", "unsupported"}]
    <3>1. UNCHANGED command /\ command \in [Call -> Commands]
      BY <2>1, AheadAfter DEF ShapeInv, TablesOK
    <3>2. command[q].kind = "resolve"
      BY <2>2, <3>1 DEF Resolving
    <3> QED
      BY <3>1, <3>2, CommandIs DEF ShapeInv, TablesOK
  <2>4. CASE q # p
    <3>1. step'[q] = step[q]
      BY <2>1, <2>4, AheadAfter
    <3>2. reply'[q] = reply[q]
      <4>1. UNCHANGED reply \/ \E told : reply' = [reply EXCEPT ![p] = told]
        <5>1. CASE Writes(p)
          BY <5>1, WriteMoves DEF Settle, Finish
        <5> QED
          BY <2>1, <5>1 DEF PreferenceStep, RefuseTransactional, Begins, Looks, GivesUp, Skips,
             NoSettle, Settle, Finish, EmitPreferenceHook, ListPreferences, Aborts, Die
      <4> QED
        BY <2>3, <2>4, <4>1
    <3>3. Resolving(q)
      BY <2>2, <2>3, <3>1, <3>2 DEF Resolving, Done
    <3> QED
      BY <2>1, <2>4, <3>3, WriteSeen, OtherSeen
  <2>5. CASE q = p
    <3>1. step[q] \notin {"find", "write", "emit"}
      BY <2>3 DEF ShapeInv, TasksOK
    <3>2. ~RefuseTransactional(q) /\ ~Looks(q) /\ ~GivesUp(q) /\ ~Writes(q) /\ ~Skips(q)
          /\ ~EmitPreferenceHook(q)
      BY <2>3, <3>1 DEF RefuseTransactional, Looks, GivesUp, Writes, Skips, EmitPreferenceHook
    <3>3. ~Aborts(q) /\ ~Die(q)
      BY <2>2, <2>3 DEF Aborts, Die, Finish, MoveTo, Resolving, Done
    <3> QED
      BY <2>1, <2>3, <2>5, <3>2, <3>3, BeginSeen, ReadSeen DEF PreferenceStep
  <2> QED
    BY <2>4, <2>5
<1>2. CASE UNCHANGED preferenceVars
  <2>1. UNCHANGED <<rows, command, step, left, layers, reply, history>>
    BY <1>2 DEF preferenceVars
  <2>2. SUFFICES ASSUME NEW q \in Call, NEW k \in Key, Resolving(q)' PROVE Resolves(q, k)'
    BY DEF ResolveInv, Resolves
  <2>3. Resolves(q, k)
    BY <2>1, <2>2 DEF Resolving, Done, ResolveInv, Resolves
  <2>4. /\ Asked(q)' = Asked(q) /\ Ahead(q)' = Ahead(q) /\ Known(q)' = Known(q)
        /\ MovedLevels(q, k)' = MovedLevels(q, k)
        /\ \A told : Agrees(q, k, told) => Agrees(q, k, told)'
        /\ Shown(rows)' = Shown(rows)
    BY <2>1 DEF Asked, Ahead, Known, MovedLevels, Agrees, Ordered
  <2> QED
    BY <2>1, <2>3, <2>4 DEF Resolves, Done
<1> QED
  BY <1>1, <1>2

\* A set of one member at most, as a count and as a statement of its members.
LEMMA OneAtMost ==
    ASSUME NEW S, IsFiniteSet(S), Cardinality(S) <= 1, NEW x \in S, NEW y \in S
    PROVE  x = y
<1> SUFFICES ASSUME x # y PROVE FALSE
  OBVIOUS
<1>1. IsFiniteSet({x}) /\ Cardinality({x}) = 1
  BY FS_Singleton
<1>2. Cardinality({x} \cup {y}) = 2 /\ IsFiniteSet({x} \cup {y})
  BY <1>1, FS_AddElement
<1>3. {x} \cup {y} \in SUBSET S
  OBVIOUS
<1>4. Cardinality({x} \cup {y}) <= Cardinality(S) /\ Cardinality(S) \in Nat
  BY <1>3, FS_Subset, FS_CardinalityType
<1> QED
  BY <1>2, <1>4

\* The resolver's result from its layers is the answer they give.
LEMMA ResolvedIs ==
    ASSUME ShapeInv, NEW p \in Call, command[p].kind = "resolve", NEW k \in Key
    PROVE  /\ Resolved(layers[p], command[p].list, k).value = Answer(layers[p], Asked(p), k).value
           /\ Ordered(p) =>
                 Resolved(layers[p], command[p].list, k) = Answer(layers[p], Asked(p), k)
<1> DEFINE list == command[p].list
           view == layers[p]
           n == Len(list)
           levels == Asked(p)
           found == Holding(view, list, k)
           holding == Holders(view, levels, k)
<1>1. /\ n \in Nat /\ DOMAIN list = 1..n /\ \A i \in 1..n : list[i] \in Level
      /\ levels \in SUBSET Level /\ levels = {list[i] : i \in 1..n}
  BY ListIs, LeftIs, ElementOfSeq DEF ShapeInv, TablesOK
<1>2. found = {i \in 1..n : view[list[i]][k].value # "none"}
  BY <1>1 DEF Holding
<1>3. {list[i] : i \in found} = holding
  BY <1>1, <1>2 DEF Holders
<1>4. EffectiveVersion(view, list, k) =
         IF found = {} THEN 0 ELSE view[list[Max(found)]][k].version
  BY DEF EffectiveVersion
<1>5. Numbering(view, levels, k) = IF holding = {} THEN 0 ELSE view[Max(holding)][k].version
  BY DEF Numbering
<1>6. ASSUME NEW f \in Part
      PROVE  Effective(view, list, k)[f] = Saying(view, levels, k, f)
  <2> DEFINE having(g) == {i \in DOMAIN list : g \in view[list[i]][k].has}
             chosen(g) == {list[i] : i \in having(g)}
             said(g) == IF having(g) = {} THEN "none" ELSE view[Max(chosen(g))][k].value
  <2>2. Effective(view, list, k) = [g \in Part |-> said(g)]
    BY DEF Effective
  <2>5. Having(view, levels, k, f) = {l \in levels : f \in view[l][k].has}
    BY DEF Having
  <2> HIDE DEF view, list, levels, n
  <2>6. levels = {list[i] : i \in 1..n} /\ DOMAIN list = 1..n
    BY <1>1
  <2>1. chosen(f) = Having(view, levels, k, f) /\ (having(f) = {} <=> chosen(f) = {})
    <3>1. \A i : i \in having(f) <=> i \in 1..n /\ f \in view[list[i]][k].has
      BY <2>6
    <3>2. \A l : l \in chosen(f) <=> \E i \in having(f) : l = list[i]
      OBVIOUS
    <3> HIDE DEF having, chosen
    <3>3. \A l : l \in Having(view, levels, k, f)
                   <=> \E i \in 1..n : l = list[i] /\ f \in view[l][k].has
      BY <2>5, <2>6
    <3>4. \A l : l \in chosen(f) <=> l \in Having(view, levels, k, f)
      BY <3>1, <3>2, <3>3
    <3>5. chosen(f) = Having(view, levels, k, f)
      BY <3>4
    <3>6. having(f) = {} <=> chosen(f) = {}
      BY <3>2
    <3> QED
      BY <3>5, <3>6
  <2>7. said(f) = IF having(f) = {} THEN "none" ELSE view[Max(chosen(f))][k].value
    OBVIOUS
  <2> HIDE DEF said, chosen, having
  <2>4. Effective(view, list, k)[f] = said(f)
    BY <1>6, <2>2
  <2>3. CASE having(f) = {}
    BY <2>1, <2>3, <2>4, <2>7 DEF Saying
  <2>8. CASE having(f) # {}
    BY <2>1, <2>4, <2>7, <2>8 DEF Saying
  <2> QED
    BY <2>3, <2>8
<1>7. Effective(view, list, k) = [f \in Part |-> Saying(view, levels, k, f)]
  <2>1. Effective(view, list, k) = [f \in Part |-> Effective(view, list, k)[f]]
    BY DEF Effective
  <2> HIDE DEF view, list, levels
  <2> QED
    BY <1>6, <2>1
<1> HIDE DEF n, list, view, found, levels
<1>8. found = {} <=> holding = {}
  BY <1>3
<1>9. ASSUME Ascending(list), holding # {} PROVE list[Max(found)] = Max(holding)
  <2>1. /\ found \in SUBSET (1..n) /\ found # {} /\ holding \in SUBSET Level
    BY <1>1, <1>2, <1>8, <1>9 DEF Holders
  <2>2. Max(found) \in found /\ \A i \in found : i <= Max(found)
    BY <1>1, <2>1, MaxIs
  <2>3. Max(holding) \in holding /\ \A l \in holding : l <= Max(holding)
    BY <1>9, <2>1, LevelMax
  <2>4. PICK i \in found : list[i] = Max(holding)
    BY <1>3, <2>3
  <2>5. list[Max(found)] <= list[i]
    BY <1>3, <2>2, <2>3, <2>4
  <2>6. i <= Max(found) /\ i \in 1..n /\ Max(found) \in 1..n
    BY <2>1, <2>2, <2>4
  <2>7. \A x, y \in 1..n : x < y => list[x] < list[y]
    BY <1>1, <1>9 DEF Ascending
  <2>8. list[i] \in Nat /\ list[Max(found)] \in Nat
    BY <1>1, <2>6 DEF Level
  <2>9. i = Max(found)
    <3>1. i < Max(found) \/ i = Max(found)
      BY <1>1, <2>6
    <3>2. ~(i < Max(found))
      BY <2>5, <2>6, <2>7, <2>8
    <3> QED
      BY <3>1, <3>2
  <2> QED
    BY <2>4, <2>9
<1> HIDE DEF holding
<1>10. Resolved(view, list, k).value = Answer(view, levels, k).value
  BY <1>7 DEF Resolved, Answer
<1>11. ASSUME Ascending(list) PROVE Resolved(view, list, k) = Answer(view, levels, k)
  <2>1. EffectiveVersion(view, list, k) = Numbering(view, levels, k)
    BY <1>4, <1>5, <1>8, <1>9, <1>11
  <2> QED
    BY <1>7, <2>1 DEF Resolved, Answer
<1> QED
  BY <1>10, <1>11 DEF view, list, levels, Ordered

\* The resolver reads its levels one by one and merges them field by field: for any
\* number of them, in any order, and any changes meanwhile, its answer was effective
\* at some moment if one level changed at most; read by their priority, every field
\* that no change removed, and the version if none deleted the key, once was.
THEOREM ResolvedEffective == PreferenceSpec => []ResolvedWasEffective
<1>1. ShapeInv /\ ResolveInv => ResolvedWasEffective
  <2> SUFFICES ASSUME ShapeInv, ResolveInv, NEW p \in Call, Done(p), reply[p] = "ok",
                      command[p].kind = "resolve", NEW k \in Key
               PROVE  LET moved == history.moved[p][k]
                          once == history.was[p][k]
                          told == Resolved(layers[p], command[p].list, k)
                      IN /\ Cardinality(MovedLevels(p, k)) <= 1 =>
                                /\ told.value \in {was.value : was \in once}
                                /\ Ordered(p) => told \in once
                         /\ Ordered(p) =>
                                /\ \A f \in Part : (\A m \in moved : f \in m[3]) =>
                                       told.value[f] \in {was.value[f] : was \in once}
                                /\ (\A m \in moved : m[1] = "upsert") =>
                                       told.version \in {was.version : was \in once}
    BY DEF ResolvedWasEffective, MovedLevels, Ordered
  <2> DEFINE told == Resolved(layers[p], command[p].list, k)
             known == Answer(layers[p], Asked(p), k)
  <2>1. Cardinality(MovedLevels(p, k)) <= 1 => \A l, m \in MovedLevels(p, k) : l = m
    <3>1. MovedLevels(p, k) \in SUBSET Level
      BY MovedIs
    <3>2. IsFiniteSet(Level)
      BY PreferenceAssumption, FS_Interval DEF Level
    <3>3. IsFiniteSet(MovedLevels(p, k))
      BY <3>1, <3>2, FS_Subset
    <3> QED
      BY <3>3, OneAtMost
  <2>2. Resolving(p)
    BY DEF Resolving
  <2>3. left[p] = <<>> /\ Agrees(p, k, Answer(Known(p), Asked(p), k))
    BY <2>2 DEF ResolveInv
  <2>4. Answer(Known(p), Asked(p), k) = known
    <3>1. Ahead(p) = {}
      BY <2>3 DEF Ahead
    <3>2. Asked(p) \in SUBSET Level /\ \A l \in Asked(p) : Known(p)[l] = layers[p][l]
      BY <3>1, KnownIs
    <3> QED
      BY <3>2, SameAnswer
  <2>5. told.value = known.value /\ (Ordered(p) => told = known)
    BY ResolvedIs
  <2>6. Agrees(p, k, known)
    BY <2>3, <2>4
  <2> HIDE DEF told, known
  <2> QED
    BY <2>1, <2>5, <2>6 DEF Agrees, told
<1>2. PreferenceInit => ShapeInv /\ ResolveInv
  BY PreferenceInitShape, PreferenceInitResolve
<1>3. ShapeInv /\ ResolveInv /\ [PreferenceNext]_preferenceVars => (ShapeInv /\ ResolveInv)'
  BY ShapeStep, ResolveStep
<1> QED
  BY <1>1, <1>2, <1>3, PTL DEF PreferenceSpec
=============================================================================
