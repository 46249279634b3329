---------------------------- MODULE MCActivityFeed ----------------------------
(* Instances of ActivityFeed for TLC.  Either a request of any kind, under any      *)
(* policy, meets a single record of any kind (Views), or a client pages through a    *)
(* growing log in which it may see every record of the first kind (Pages), or a      *)
(* client logs a record, the last for which there is room (Logs).                     *)
EXTENDS ActivityFeed, TLC

CONSTANTS Me, Other, T1, T2, C1, C2, K1, K2

Open == [attached |-> TRUE, pins |-> FALSE, allow |-> {}, deny |-> {}, machines |-> TRUE,
         widen |-> FALSE, selfStats |-> FALSE, redactIP |-> TRUE, exposure |-> "none"]
Roles == {"superadmin", "admin", "support", "member"}
Asks == {Blank, [Blank EXCEPT !.tenant = {T2}], [Blank EXCEPT !.channels = {C1}],
         [Blank EXCEPT !.channels = {C1, C2}, !.deny = {C1}], [Blank EXCEPT !.user = {Other}],
         [Blank EXCEPT !.actor = {Other}], [Blank EXCEPT !.user = {Me}, !.actor = {Other}],
         [Blank EXCEPT !.kinds = {K1}], [Blank EXCEPT !.machines = FALSE]}
Plain == [user |-> {Me}, actor |-> {Me}, tenant |-> {T1}, channel |-> C1, kind |-> K1,
          mark |-> "plain", at |-> 1]

MCElsewhere == {Plain, [Plain EXCEPT !.kind = K2]}

\* Channel rules with one of the others at a time.
Policies ==
    {[Open EXCEPT !.allow = allow, !.deny = deny] :
        allow \in {{}, {C1}, {C1, C2}}, deny \in {{}, {C1}}}
    \cup {[Open EXCEPT !.machines = m, !.widen = w, !.attached = a, !.pins = s, !.selfStats = o] :
            m \in BOOLEAN, w \in BOOLEAN, a \in BOOLEAN, s \in BOOLEAN, o \in BOOLEAN}
    \cup {[Open EXCEPT !.attached = a, !.redactIP = i, !.exposure = e] :
            a \in BOOLEAN, i \in BOOLEAN, e \in {"none", "sanitized", "all"}}

Views ==
    /\ policy \in Policies
    /\ dialect \in IF policy.machines THEN {"other"} ELSE {"pg", "other"}
    /\ \E role \in Roles, tenant \in {{}, {T1}}, op \in {"index", "feed", "stats"}, ask \in Asks :
           /\ op = "index" => ask.tenant = {} /\ ask.machines
           /\ op = "stats" => ask.channels = {}
           /\ job = [p \in Req |-> [op |-> op, as |-> [id |-> Me, role |-> role, tenant |-> tenant],
                                    ask |-> ask, limit |-> MaxLimit + 2]]
    /\ \E user, actor \in {{Me}, {Other}}, tenant \in {{T1}, {T2}}, channel \in Channel,
          kind \in Kind, mark \in Mark :
           /\ user # {Me} \/ actor # {Me}
           /\ \E p \in Req : LET ask == job[p].ask IN
                  /\ channel = C2 => policy.allow \cup policy.deny \cup ask.channels # {}
                  /\ kind = K2 => ask.kinds # {}
           /\ mark # "plain" => ~policy.machines \/ \E p \in Req : ~job[p].ask.machines
           /\ log = <<[Plain EXCEPT !.user = user, !.actor = actor, !.tenant = tenant,
                                   !.channel = channel, !.kind = kind, !.mark = mark]>>

Pages ==
    /\ policy = Open /\ dialect = "other"
    /\ \E op \in {"index", "feed"}, n \in {0, 1, MaxLimit + 1} :
       LET role == IF op = "index" THEN "member" ELSE "admin" IN
           job = [p \in Req |-> [op |-> op, as |-> [id |-> Me, role |-> role, tenant |-> {T1}],
                                ask |-> [Blank EXCEPT !.kinds = {K1}], limit |-> n]]
    /\ log \in UNION {[1 .. n -> {[Plain EXCEPT !.at = t] : t \in 1 .. MaxTime}] : n \in 0 .. MaxLog}

Logs ==
    /\ policy \in {[Open EXCEPT !.pins = s] : s \in BOOLEAN} /\ dialect = "other"
    /\ log \in [1 .. MaxLog - 1 -> {Plain}]
    /\ \E role \in Roles, tenant \in {{}, {T1}}, user \in Id(Actor), actor \in Id(Actor),
          where \in Id(Tenant), at \in 1 .. MaxTime :
           job = [p \in Req |-> [op |-> "create", as |-> [id |-> Me, role |-> role, tenant |-> tenant],
                                record |-> [Plain EXCEPT !.user = user, !.actor = actor,
                                                         !.tenant = where, !.at = at]]]

MCInit == (Views \/ Pages \/ Logs) /\ Init

\* Where a single record is viewed nothing else happens.
Alone == \A p \in Req : job[p].op # "create" /\ job[p].limit > MaxLimit + 1

MCSpec == MCInit /\ [][Next /\ (Alone => UNCHANGED <<log, now>>)]_vars
=============================================================================
