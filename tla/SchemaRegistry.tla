---------------------------- MODULE SchemaRegistry ----------------------------
(* The schema registry and its notifier (pkg/schema/), under goroutines that   *)
(* register controllers, subscribe, attach to the notifier, or validate a token *)
(* (pkg/telemetry/validation/listener.go).  The registry delivers snapshots     *)
(* outside its lock, the notifier calls its watchers under the read lock.       *)
(* Every subscriber keeps a feed as examples/web/schema_feed.go does.            *)
EXTENDS Naturals, Sequences, FiniteSets

CONSTANTS
    Call,       \* goroutines, each makes one call
    Resource,   \* names of controllers
    History,    \* how many snapshots a feed keeps
    Publishes   \* whether the registry has the notifier as its publisher

ASSUME SchemaAssumption == History \in Nat \ {0} /\ Publishes \in BOOLEAN

VARIABLES
    providers,  \* the registry: per resource the call that registered it last
    listeners,  \* the registry's listeners; each is named after the call that brought it
    watchers,   \* the notifier's listeners, likewise
    readers,    \* calls that hold the notifier's read lock
    writers,    \* calls that wait for the notifier's write lock
    job, pc,
    snap,       \* per call: the snapshot it delivers
    todo,       \* per call: the listeners or watchers it has still to call
    feed,       \* per listener: what it keeps of the snapshots it heard, newest first
    heard,      \* history: numbers of the snapshots each listener heard
    owed,       \* history: numbers of the snapshots each listener should hear
    open        \* history: per snapshot, those still being delivered when it was taken

vars == <<providers, listeners, watchers, readers, writers, job, pc, snap, todo,
          feed, heard, owed, open>>

-----------------------------------------------------------------------------
Document == providers
Snapshot == [no : Nat, document : [Resource -> SUBSET Call]]
NoSnapshot == [no |-> 0, document |-> [r \in Resource |-> {}]]
Jobs == {j \in [action : {"register", "subscribe", "attach", "validate"},
                resource : {{}} \cup {{r} : r \in Resource}, attaches : BOOLEAN] :
            /\ j.action # "register" => j.resource = {}
            /\ j.attaches => j.action = "attach"}

InFlight(p) == pc[p] \notin {"idle", "done"}
Goto(p, place) == pc' = [pc EXCEPT ![p] = place]
KeepRegistry == UNCHANGED <<providers, listeners, job, snap, feed, heard, owed, open>>
KeepNotifier == UNCHANGED <<watchers, readers, writers, job>>

-----------------------------------------------------------------------------
Init ==
    /\ providers = [r \in Resource |-> {}]
    /\ listeners = <<>> /\ watchers = <<>>
    /\ readers = {} /\ writers = {}
    /\ job \in [Call -> Jobs]
    /\ pc = [p \in Call |-> "idle"]
    /\ snap = [p \in Call |-> NoSnapshot]
    /\ todo = [p \in Call |-> <<>>]
    /\ feed = [p \in Call |-> <<>>]
    /\ heard = [p \in Call |-> {}]
    /\ owed = [p \in Call |-> {}]
    /\ open = <<>>

\* A token without an actor notifies nobody; whether its audit record could be
\* logged makes no difference.
Start(p) ==
    /\ pc[p] = "idle"
    /\ CASE job[p].action = "register" -> Goto(p, "store")
         [] job[p].action = "subscribe" -> Goto(p, "subscribe")
         [] job[p].action = "attach" -> Goto(p, "attach")
         [] job[p].action = "validate" -> Goto(p, "notify") \/ Goto(p, "done")
    /\ UNCHANGED todo /\ KeepRegistry /\ KeepNotifier

Subscribe(p) ==
    /\ pc[p] = "subscribe"
    /\ listeners' = Append(listeners, p)
    /\ Goto(p, "done")
    /\ UNCHANGED <<providers, snap, todo, feed, heard, owed, open>>
    /\ KeepNotifier

\* The snapshot of a registration.
Stored(p) ==
    [no |-> Len(open) + 1,
     document |-> [r \in Resource |-> IF r \in job[p].resource THEN {p} ELSE providers[r]]]

\* A provider without a name is ignored.  Storing it, the snapshot and the copy
\* of the listeners are one critical section.
StoreProvider(p) ==
    /\ pc[p] = "store"
    /\ \/ /\ job[p].resource = {}
          /\ Goto(p, "done")
          /\ UNCHANGED <<providers, snap, todo, owed, open>>
       \/ /\ job[p].resource # {}
          /\ providers' = [r \in Resource |->
                              IF r \in job[p].resource THEN {p} ELSE providers[r]]
          /\ snap' = [snap EXCEPT ![p] = Stored(p)]
          /\ todo' = [todo EXCEPT ![p] = listeners]
          /\ owed' = [l \in Call |-> owed[l] \cup
                         {n \in {Len(open) + 1} : \E i \in DOMAIN listeners : listeners[i] = l}]
          /\ open' = Append(open, {snap[q].no : q \in {q \in Call : pc[q] = "dispatch"}})
          /\ Goto(p, "dispatch")
    /\ UNCHANGED <<listeners, feed, heard>> /\ KeepNotifier

Newest(s) == SubSeq(s, 1, IF Len(s) < History THEN Len(s) ELSE History)

\* Bug: the newest snapshot goes to the end of the feed.
FeedWithLast(l, s) == Newest(Append(feed[l], s))

\* What listener l keeps when it hears of snapshot s.
FeedWith(l, s) == Newest(<<s>> \o feed[l])

\* Bug: only the first listener is called.
RestNone(p) == <<>>

Rest(p) == Tail(todo[p])

CallListener(p) ==
    /\ pc[p] = "dispatch" /\ todo[p] # <<>>
    /\ LET l == Head(todo[p]) IN
       /\ feed' = [feed EXCEPT ![l] = FeedWith(l, snap[p])]
       /\ heard' = [heard EXCEPT ![l] = @ \cup {snap[p].no}]
    /\ todo' = [todo EXCEPT ![p] = Rest(p)]
    /\ UNCHANGED <<providers, listeners, pc, snap, owed, open>> /\ KeepNotifier

Publish(p) ==
    /\ pc[p] = "dispatch" /\ todo[p] = <<>>
    /\ Goto(p, IF Publishes THEN "notify" ELSE "done")
    /\ UNCHANGED todo /\ KeepRegistry /\ KeepNotifier

\* Readers wait behind a writer that waits; a writer waits for every reader.
Notify(p) ==
    /\ pc[p] = "notify" /\ writers = {}
    /\ readers' = readers \cup {p}
    /\ todo' = [todo EXCEPT ![p] = watchers]
    /\ Goto(p, "notifying")
    /\ UNCHANGED <<watchers, writers>> /\ KeepRegistry

\* A watcher that attaches another one asks for the write lock from inside Notify.
CallWatcher(p) ==
    /\ pc[p] = "notifying" /\ todo[p] # <<>>
    /\ IF job[Head(todo[p])].attaches
       THEN Goto(p, "lock") /\ writers' = writers \cup {p}
       ELSE UNCHANGED <<pc, writers>>
    /\ todo' = [todo EXCEPT ![p] = Rest(p)]
    /\ UNCHANGED <<watchers, readers>> /\ KeepRegistry

\* Bug: the read lock is given up only when there was somebody to call.
UnlockedIfCalled(p) == IF watchers = <<>> THEN readers ELSE readers \ {p}

Unlocked(p) == readers \ {p}

NotifyReturns(p) ==
    /\ pc[p] = "notifying" /\ todo[p] = <<>>
    /\ readers' = Unlocked(p)
    /\ Goto(p, "done")
    /\ UNCHANGED <<watchers, writers, todo>> /\ KeepRegistry

AskToAttach(p) ==
    /\ pc[p] = "attach"
    /\ writers' = writers \cup {p}
    /\ Goto(p, "lock")
    /\ UNCHANGED <<watchers, readers, todo>> /\ KeepRegistry

Attach(p) ==
    /\ pc[p] = "lock" /\ readers = {}
    /\ watchers' = Append(watchers, p)
    /\ writers' = writers \ {p}
    /\ Goto(p, "done")
    /\ UNCHANGED <<readers, todo>> /\ KeepRegistry

Work(p) ==
    \/ Subscribe(p) \/ StoreProvider(p) \/ CallListener(p) \/ Publish(p) \/ Notify(p)
    \/ CallWatcher(p) \/ NotifyReturns(p) \/ AskToAttach(p) \/ Attach(p)

Next == \E p \in Call : Start(p) \/ Work(p)

\* A goroutine that has started is scheduled, and listeners return.
Spec == Init /\ [][Next]_vars /\ \A p \in Call : WF_vars(Work(p))

-----------------------------------------------------------------------------
(* Properties *)

\* Every variable keeps its shape.
TypeOK ==
    /\ providers \in [Resource -> SUBSET Call]
    /\ listeners \in Seq(Call) /\ watchers \in Seq(Call)
    /\ readers \subseteq Call /\ writers \subseteq Call
    /\ job \in [Call -> Jobs]
    /\ pc \in [Call -> {"idle", "store", "subscribe", "attach", "lock", "dispatch",
                        "notify", "notifying", "done"}]
    /\ snap \in [Call -> Snapshot]
    /\ todo \in [Call -> Seq(Call)]
    /\ feed \in [Call -> Seq(Snapshot)]

Delivered == \A p \in Call : pc[p] # "dispatch"

\* Once deliveries are over, every listener has heard exactly the snapshots taken
\* while it was subscribed, also those of registrations that raced with it.
EveryChangeHeard == Delivered => heard = owed

\* Once deliveries are over, the newest entry of a feed is the document that the
\* registry serves, or stems from a registration that was still being delivered
\* when the newest one was stored, and arrived after it.
FeedAgrees ==
    Delivered => \A l \in Call :
        feed[l] # <<>> =>
            \/ Head(feed[l]).document = Document
            \/ Head(feed[l]).no \in open[Len(open)]

\* Every call returns, however calls and deliveries interleave, unless a watcher
\* attached another one from inside Notify: that one waits for itself for ever,
\* and so does whoever needs the notifier after it.
CallsReturn ==
    \A p \in Call :
        InFlight(p) ~> (pc[p] = "done" \/ \E q \in readers : pc[q] = "lock")
=============================================================================
