--------------------------- MODULE ActivityEnrichment ---------------------------
(* The backfill of activity records (command/activity_enrichment.go) over the   *)
(* activity table (activity/enrichment_repository.go).  A run pages backwards    *)
(* through the records that miss a display name or are stale, asks the           *)
(* resolvers once per page and tenant, and merges what is missing.  Runs may     *)
(* overlap, with each other and with records being logged.  A record is its      *)
(* place in the order of created_at and id, the largest is the newest.           *)
EXTENDS Naturals, FiniteSets, FiniteSetsExt

CONSTANTS
    Run,        \* runs of the command
    NRecord,    \* how many records there may be
    NTenant,    \* how many tenants they belong to, in turn
    BatchSize,  \* the batch size
    Display,    \* the display names the resolvers provide
    Cutoffs,    \* ages at which runs may take an enrichment for stale
    MaxClock,   \* bound of the clock
    Dialects,   \* subset of {"pg", "other"}
    Failures    \* subset of {"error", "crash"}

ASSUME EnrichmentAssumption ==
    /\ NRecord \in Nat /\ NTenant \in Nat \ {0} /\ BatchSize \in Nat \ {0}
    /\ MaxClock \in Nat \ {0} /\ Cutoffs \subseteq Nat
    /\ {"ids", "fresh"} \cap Display = {} /\ {"log", "none"} \cap Run = {}
    /\ Dialects \subseteq {"pg", "other"}
    /\ Failures \subseteq {"error", "crash"}

VARIABLES
    data,       \* per record: its data column, or Absent
    database, clock,
    place,      \* per run: where it is
    before,     \* per run: enrichments before this are stale, 0 for never
    cursor,     \* per run: records from here on are dealt with
    listed,     \* per run: the records of the page still to do, as they were read
    short,      \* per run: the page is the last one
    answers,    \* per run: what the resolvers told of the tenant in hand
    stamp,      \* per run: the enriched_at it will give the record in hand
    copy,       \* per run: the data GetByID returned for it
    overlapped, \* records two runs were ever dealing with at once
    owed        \* per run, for the properties: what it has to see to, and where

batch == <<listed, short, answers>>
enrichmentVars == <<data, database, clock, place, before, cursor, batch, stamp, copy,
          overlapped, owed>>

-----------------------------------------------------------------------------
Entry == 1..NRecord
TenantOf(r) == r % NTenant
\* Keys of the data column; "ids" stands for those that come from the record itself.
Keys == Display \cup {"ids"}
Writer == Run \cup {"log", "none"}
Data == [keys : [Keys -> Writer], at : 0..MaxClock]
Absent == [keys |-> [k \in Keys |-> "none"], at |-> MaxClock + 1]

Exists(r) == data[r] # Absent
Stale(d, threshold) == threshold > 0 /\ d.at < threshold

\* Bug: the listing asks for missing names only.
MatchesMissing(d, threshold) == \E k \in Display : d.keys[k] = "none"

\* The filter of the listing: a display name is missing, or the stamp is old.
MatchesFilter(d, threshold) == (\E k \in Display : d.keys[k] = "none") \/ Stale(d, threshold)

InFlight(p) == place[p] \notin {"idle", "over"}
MoveTo(p, where) == place' = [place EXCEPT ![p] = where]

\* The newest n members of S.
Newest(S, n) == {r \in S : Cardinality({s \in S : s > r}) < n}

Nobody == [tenant |-> 0, told |-> {}]

\* The record in hand: the newest left of the tenant in hand.
Tenants(p) == {TenantOf(r) : r \in DOMAIN listed[p]}
InHand(p) == Max({r \in DOMAIN listed[p] : TenantOf(r) = answers[p].tenant})

Without(f, r) == [s \in DOMAIN f \ {r} |-> f[s]]

\* On to the next record, tenant, page or the end.
Advance(p) ==
    LET rest == Without(listed[p], InHand(p))
        more == \E r \in DOMAIN rest : TenantOf(r) = answers[p].tenant
    IN /\ listed' = [listed EXCEPT ![p] = rest]
       /\ answers' = IF more THEN answers ELSE [answers EXCEPT ![p] = Nobody]
       /\ stamp' = [stamp EXCEPT ![p] = 0]
       /\ MoveTo(p, IF more THEN "record" ELSE IF DOMAIN rest # {} THEN "tenant"
                  ELSE IF short[p] THEN "summary" ELSE "list")
       /\ UNCHANGED short

\* A record that fails is reported and passed over.
PassOver(p) ==
    /\ owed' = [owed EXCEPT ![p] = {o \in @ : o[1] # InHand(p)}]
    /\ Advance(p)

-----------------------------------------------------------------------------
\* What a record may be logged with: the caller's keys, or a write-time
\* enricher's; only the job stamps.
Logged ==
    {[keys |-> [k \in Keys |-> IF k \in own THEN "log" ELSE "none"], at |-> 0] :
        own \in SUBSET Display}

EnrichmentInit ==
    /\ data \in [Entry -> Logged \cup {Absent}]
    /\ database \in Dialects
    /\ clock = 1
    /\ place = [p \in Run |-> "idle"]
    /\ before = [p \in Run |-> 0]
    /\ cursor = [p \in Run |-> NRecord + 1]
    /\ listed = [p \in Run |-> <<>>]
    /\ short = [p \in Run |-> FALSE]
    /\ answers = [p \in Run |-> Nobody]
    /\ stamp = [p \in Run |-> 0]
    /\ copy = [p \in Run |-> Absent]
    /\ overlapped = {}
    /\ owed = [p \in Run |-> {}]

\* created_at comes from the caller: a record may be logged behind others.
Log(r) ==
    /\ ~Exists(r)
    /\ \E d \in Logged : data' = [data EXCEPT ![r] = d]
    /\ UNCHANGED <<database, clock, place, before, cursor, batch, stamp, copy,
                   overlapped, owed>>

PassTime ==
    /\ clock < MaxClock
    /\ clock' = clock + 1
    /\ UNCHANGED <<data, database, place, before, cursor, batch, stamp, copy,
                   overlapped, owed>>

\* The threshold is the clock less the run's cutoff; there may be none.
StartRun(p) ==
    /\ place[p] = "idle"
    /\ MoveTo(p, "list")
    /\ \E threshold \in {0} \cup {clock - age : age \in {a \in Cutoffs : a < clock}} :
          before' = [before EXCEPT ![p] = threshold]
    /\ owed' = [owed EXCEPT ![p] = {r \in Entry : Exists(r)} \X (Display \cup {"fresh"})]
    /\ UNCHANGED <<data, database, clock, cursor, batch, stamp, copy, overlapped>>

\* A full page is followed by another, a short or an empty one ends the run.
TakePage(p, chosen, full) ==
    /\ listed' = [listed EXCEPT ![p] = [r \in chosen |-> data[r]]]
    /\ short' = [short EXCEPT ![p] = ~full]
    /\ MoveTo(p, IF chosen = {} THEN "summary" ELSE "tenant")
    /\ UNCHANGED answers

\* Bug: the next page begins where this one did.
NextCursorNone(scanned) == NRecord + 1

\* The last record of a page, in descending order.
NextCursor(scanned) == Min(scanned)

\* On PostgreSQL the filter is part of the statement.
ListByQuery(p) ==
    /\ place[p] = "list" /\ database = "pg"
    /\ LET found == {r \in Entry : /\ Exists(r) /\ r < cursor[p]
                                 /\ MatchesFilter(data[r], before[p])}
           chosen == Newest(found, BatchSize)
       IN /\ TakePage(p, chosen, Cardinality(chosen) = BatchSize)
          /\ cursor' = IF chosen = {} THEN cursor
                       ELSE [cursor EXCEPT ![p] = NextCursor(chosen)]
    /\ UNCHANGED <<data, database, clock, before, stamp, copy, overlapped, owed>>

\* Elsewhere rows are scanned, a statement for every batch of them, until the
\* page is full or the rows run out.
ListByScan(p) ==
    /\ place[p] = "list" /\ database = "other"
    /\ LET rows == Newest({r \in Entry : Exists(r) /\ r < cursor[p]}, BatchSize)
           room == BatchSize - Cardinality(DOMAIN listed[p])
           chosen == Newest({r \in rows : MatchesFilter(data[r], before[p])}, room)
           full == Cardinality(chosen) = room
           scanned == IF full THEN {r \in rows : r >= Min(chosen)} ELSE rows
           all == [r \in chosen \cup DOMAIN listed[p] |->
                      IF r \in chosen THEN data[r] ELSE listed[p][r]]
       IN /\ listed' = [listed EXCEPT ![p] = all]
          /\ cursor' = IF scanned = {} THEN cursor
                       ELSE [cursor EXCEPT ![p] = NextCursor(scanned)]
          /\ short' = [short EXCEPT ![p] = ~full]
          /\ UNCHANGED answers
          /\ MoveTo(p, IF full THEN "tenant"
                     ELSE IF Cardinality(rows) = BatchSize THEN "list"
                     ELSE IF DOMAIN all = {} THEN "summary" ELSE "tenant")
    /\ UNCHANGED <<data, database, clock, before, stamp, copy, overlapped, owed>>

\* Tenants come in any order.  A resolver that fails, or does not know, tells
\* nothing: neither stops the batch.
ResolveTenant(p) ==
    /\ place[p] = "tenant"
    /\ \E t \in Tenants(p), told \in SUBSET Display :
          answers' = [answers EXCEPT ![p] = [tenant |-> t, told |-> told]]
    /\ MoveTo(p, "record")
    /\ UNCHANGED <<data, database, clock, before, cursor, listed, short, stamp, copy,
                   overlapped, owed>>

\* What the run would add to the record as it was listed.
Missing(p, d) == {k \in answers[p].told \cup {"ids"} : d.keys[k] = "none"}

Busy(r) == {q \in Run : place[q] \in {"fetch", "write"} /\ InHand(q) = r}

EnrichRecord(p) ==
    /\ place[p] = "record"
    /\ LET r == InHand(p)
           d == listed[p][r]
           due == Missing(p, d) # {} \/ Stale(d, before[p])
           unknown == {<<r, k>> : k \in Display \ answers[p].told}
       IN \/ /\ due
             /\ stamp' = [stamp EXCEPT ![p] = clock]
             /\ owed' = [owed EXCEPT ![p] = @ \ unknown]
             /\ overlapped' = overlapped \cup {s \in {r} : Busy(r) # {}}
             /\ MoveTo(p, "fetch")
             /\ UNCHANGED batch
          \/ /\ ~due
             /\ owed' = [owed EXCEPT ![p] = @ \ unknown]
             /\ Advance(p)
             /\ UNCHANGED overlapped
          \/ "error" \in Failures /\ PassOver(p) /\ UNCHANGED overlapped
    /\ UNCHANGED <<data, database, clock, before, cursor, copy>>

GetByID(p) ==
    /\ place[p] = "fetch"
    /\ \/ /\ copy' = [copy EXCEPT ![p] = data[InHand(p)]]
          /\ MoveTo(p, "write")
          /\ UNCHANGED <<batch, stamp, owed>>
       \/ "error" \in Failures /\ PassOver(p) /\ UNCHANGED copy
    /\ UNCHANGED <<data, database, clock, before, cursor, overlapped>>

\* The record as the run wants it; its ids are the same whoever adds them.
Enriched(p, d) ==
    [k \in Keys |-> IF k \notin Missing(p, d) THEN d.keys[k]
                    ELSE IF k = "ids" THEN "log" ELSE p]

\* Bug: the update takes every key of the enriched record.
MergeKeysAll(base, mine, read) ==
    [k \in Keys |-> IF mine[k] # "none" THEN mine[k] ELSE base[k]]

\* Over the base, the keys of the enriched record that the row read did not have.
MergeKeys(base, mine, read) ==
    [k \in Keys |-> IF read[k] = "none" /\ mine[k] # "none" THEN mine[k] ELSE base[k]]

\* PostgreSQL merges into the row as it is, elsewhere the row read is written
\* back; the stamp is forced in both.
Merged(p) ==
    LET r == InHand(p)
        base == IF database = "pg" THEN data[r] ELSE copy[p]
    IN [keys |-> MergeKeys(base.keys, Enriched(p, listed[p][r]), copy[p].keys),
        at |-> stamp[p]]

UpdateActivityData(p) ==
    /\ place[p] = "write"
    /\ \/ /\ data' = [data EXCEPT ![InHand(p)] = Merged(p)]
          /\ Advance(p)
          /\ UNCHANGED owed
       \/ /\ "error" \in Failures
          /\ data' \in {data, [data EXCEPT ![InHand(p)] = Merged(p)]}
          /\ PassOver(p)
    /\ copy' = [copy EXCEPT ![p] = Absent]
    /\ UNCHANGED <<database, clock, before, cursor, overlapped>>

\* The run is over, and with it all it knew.
End(p) ==
    /\ MoveTo(p, "over")
    /\ before' = [before EXCEPT ![p] = 0]
    /\ cursor' = [cursor EXCEPT ![p] = NRecord + 1]
    /\ listed' = [listed EXCEPT ![p] = <<>>]
    /\ short' = [short EXCEPT ![p] = FALSE]
    /\ answers' = [answers EXCEPT ![p] = Nobody]
    /\ stamp' = [stamp EXCEPT ![p] = 0]
    /\ copy' = [copy EXCEPT ![p] = Absent]
    /\ owed' = [owed EXCEPT ![p] = {}]
    /\ UNCHANGED <<data, database, clock, overlapped>>

LogSummary(p) == place[p] = "summary" /\ End(p)

\* The listing fails, the context is cancelled, or the process dies.
Stop(p) == InFlight(p) /\ "crash" \in Failures /\ End(p)

Work(p) ==
    \/ ListByQuery(p) \/ ListByScan(p) \/ ResolveTenant(p) \/ EnrichRecord(p)
    \/ GetByID(p) \/ UpdateActivityData(p) \/ LogSummary(p)

EnrichmentNext ==
    \/ \E p \in Run : StartRun(p) \/ Work(p) \/ Stop(p)
    \/ \E r \in Entry : Log(r)
    \/ PassTime

\* A run that was started goes on by itself.
EnrichmentSpec ==
    /\ EnrichmentInit
    /\ [][EnrichmentNext]_enrichmentVars
    /\ \A p \in Run : WF_enrichmentVars(Work(p))

-----------------------------------------------------------------------------
(* Properties *)

\* Every variable keeps the shape the code gives it.
EnrichmentTypeOK ==
    /\ \A r \in Entry : Exists(r) => data[r] \in Data
    /\ database \in Dialects /\ clock \in 0..MaxClock
    /\ place \in [Run -> {"idle", "list", "tenant", "record", "fetch", "write",
                          "summary", "over"}]
    /\ before \in [Run -> 0..MaxClock]
    /\ cursor \in [Run -> 1..(NRecord + 1)]
    /\ \A p \in Run : DOMAIN listed[p] \subseteq Entry
                      /\ Cardinality(DOMAIN listed[p]) <= BatchSize
                      /\ \A r \in DOMAIN listed[p] : listed[p][r] \in Data
    /\ short \in [Run -> BOOLEAN]
    /\ answers \in [Run -> [tenant : 0..(NTenant - 1), told : SUBSET Display]]
    /\ stamp \in [Run -> 0..MaxClock]
    /\ \A p \in Run : copy[p] \in Data \cup {Absent}
    /\ overlapped \subseteq Entry
    /\ \A p \in Run : owed[p] \subseteq Entry \X (Display \cup {"fresh"})

\* "Missing-key only": a record never loses or changes what it was logged with,
\* in any schedule.  What a run added stays as it is too, and enriched_at never
\* goes back, unless two runs were dealing with the record at once; on
\* PostgreSQL the key is then still there.
RecordsOnlyGain ==
    [][\A r \in Entry : Exists(r) =>
          /\ \A k \in Keys :
                \/ data'[r].keys[k] = data[r].keys[k]
                \/ data[r].keys[k] = "none"
                \/ /\ data[r].keys[k] # "log" /\ r \in overlapped
                   /\ database = "pg" => data'[r].keys[k] # "none"
          /\ data'[r].at >= data[r].at \/ r \in overlapped]_enrichmentVars

\* A run that came to its end left nothing behind: of the records that were
\* there when it began, each was passed over as failed, or is not stale and has the
\* display names the resolvers knew, whatever was logged meanwhile and however
\* the pages fell.
RunCompletes ==
    \A p \in Run : place[p] = "summary" =>
        \A o \in owed[p] : \/ o[1] \in overlapped
                           \/ o[2] \in Display /\ data[o[1]].keys[o[2]] # "none"
                           \/ o[2] = "fresh" /\ ~Stale(data[o[1]], before[p])

\* A run comes to an end, also when records stay incomplete for good.
RunEnds == \A p \in Run : InFlight(p) ~> ~InFlight(p)
=============================================================================
