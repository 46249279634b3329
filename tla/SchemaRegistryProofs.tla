------------------------- MODULE SchemaRegistryProofs -------------------------
(* Proofs about SchemaRegistry, for every set of calls and resources, every    *)
(* length of the feeds, with and without a notifier.                           *)
EXTENDS SchemaRegistry, SequenceTheorems, TLAPS

-----------------------------------------------------------------------------
(* The inductive invariant *)

Places == {"idle", "store", "subscribe", "attach", "lock", "dispatch", "notify",
           "notifying", "done"}

In(l, s) == \E i \in DOMAIN s : s[i] = l

TypeInv ==
    /\ TypeOK
    /\ heard \in [Call -> SUBSET Nat] /\ owed \in [Call -> SUBSET Nat]
    /\ open \in Seq(SUBSET Nat)

\* A snapshot that a listener should hear was heard, or somebody is to deliver it.
Owing ==
    \A l \in Call :
        owed[l] = heard[l] \cup {snap[p].no : p \in {q \in Call : pc[q] = "dispatch" /\ In(l, todo[q])}}

\* Only snapshots that were taken are owed.
Numbered == \A l \in Call : owed[l] \subseteq 1 .. Len(open)

\* Whoever is called, or was, is still subscribed.
Listed ==
    /\ \A p \in Call : pc[p] = "dispatch" => \A l \in Call : In(l, todo[p]) => In(l, listeners)
    /\ \A l \in Call : feed[l] # <<>> => In(l, listeners)

\* A snapshot is the document that is served, or was being delivered when the
\* newest one was taken.
Agrees(s) == s.document = Document \/ s.no \in open[Len(open)]

DeliversAgreeing == \A p \in Call : pc[p] = "dispatch" => Agrees(snap[p])

\* A feed begins with such a snapshot, or its listener has yet to hear the newest.
FeedsAgree ==
    \A l \in Call :
        feed[l] # <<>> => Agrees(Head(feed[l])) \/ Len(open) \in owed[l] \ heard[l]

IInv == TypeInv /\ Owing /\ Numbered /\ Listed /\ DeliversAgreeing /\ FeedsAgree

-----------------------------------------------------------------------------
(* Sequences *)

LEMMA InAppend ==
    ASSUME NEW S, NEW s \in Seq(S), NEW x \in S, NEW l
    PROVE  In(l, Append(s, x)) <=> In(l, s) \/ l = x
<1>1. /\ DOMAIN s = 1 .. Len(s) /\ Len(s) \in Nat
      /\ DOMAIN Append(s, x) = 1 .. Len(s) + 1
      /\ Append(s, x)[Len(s) + 1] = x
      /\ \A i \in 1 .. Len(s) : Append(s, x)[i] = s[i]
  OBVIOUS
<1> QED
  BY <1>1 DEF In

LEMMA InTail ==
    ASSUME NEW S, NEW s \in Seq(S), s # <<>>, NEW l
    PROVE  /\ Head(s) \in S /\ Tail(s) \in Seq(S)
           /\ In(l, s) <=> l = Head(s) \/ In(l, Tail(s))
<1>1. /\ DOMAIN s = 1 .. Len(s) /\ Len(s) \in Nat \ {0} /\ Head(s) = s[1]
      /\ Head(s) \in S /\ Tail(s) \in Seq(S)
      /\ DOMAIN Tail(s) = 1 .. Len(s) - 1
      /\ \A i \in 1 .. Len(s) - 1 : Tail(s)[i] = s[i + 1]
  BY HeadTailProperties, EmptySeq
<1>2. ASSUME In(l, s) PROVE l = Head(s) \/ In(l, Tail(s))
  <2>1. PICK i \in 1 .. Len(s) : s[i] = l
    BY <1>1, <1>2 DEF In
  <2>2. CASE i = 1
    BY <1>1, <2>1, <2>2
  <2>3. CASE i # 1
    <3>1. i - 1 \in 1 .. Len(s) - 1 /\ Tail(s)[i - 1] = s[i]
      BY <1>1, <2>3
    <3> QED
      BY <1>1, <2>1, <3>1 DEF In
  <2> QED
    BY <2>2, <2>3
<1>3. ASSUME l = Head(s) \/ In(l, Tail(s)) PROVE In(l, s)
  <2>1. CASE l = Head(s)
    BY <1>1, <2>1 DEF In
  <2>2. CASE In(l, Tail(s))
    <3>1. PICK i \in 1 .. Len(s) - 1 : Tail(s)[i] = l
      BY <1>1, <2>2 DEF In
    <3>2. i + 1 \in 1 .. Len(s) /\ s[i + 1] = l
      BY <1>1, <3>1
    <3> QED
      BY <1>1, <3>2 DEF In
  <2> QED
    BY <1>3, <2>1, <2>2
<1> QED
  BY <1>1, <1>2, <1>3

\* A feed begins with the snapshot heard last.
LEMMA FeedBegins ==
    ASSUME NEW S, NEW s \in Seq(S), NEW x \in S
    PROVE  LET kept == Newest(<<x>> \o s) IN
           kept \in Seq(S) /\ kept # <<>> /\ Head(kept) = x
<1> DEFINE all == <<x>> \o s
           n == IF Len(all) < History THEN Len(all) ELSE History
<1>1. <<x>> \in Seq(S) /\ Len(<<x>>) = 1 /\ <<x>>[1] = x
  OBVIOUS
<1>2. all \in Seq(S) /\ Len(all) = 1 + Len(s) /\ all[1] = x /\ Len(s) \in Nat
  BY <1>1, ConcatProperties, LenProperties
<1> HIDE DEF all
<1>3. n \in 1 .. Len(all)
  BY <1>2, SchemaAssumption
<1>4. Newest(all) = SubSeq(all, 1, n)
  BY DEF Newest
<1> HIDE DEF n
<1>5. \A i \in 1 .. n : all[i] \in S
  BY <1>2, <1>3, ElementOfSeq
<1>6. SubSeq(all, 1, n) \in Seq(S) /\ Len(SubSeq(all, 1, n)) = n /\ SubSeq(all, 1, n)[1] = x
  <2>1. n \in Int /\ 1 \in Int /\ 1 <= n /\ n - 1 + 1 = n /\ 1 \in 1 .. n - 1 + 1
    BY <1>2, <1>3
  <2> QED
    BY <1>2, <1>5, <2>1, SubSeqProperties
<1>7. SubSeq(all, 1, n) # <<>>
  BY <1>2, <1>3, <1>6, EmptySeq
<1>8. Head(SubSeq(all, 1, n)) = SubSeq(all, 1, n)[1]
  BY <1>6, <1>7
<1> QED
  BY <1>4, <1>6, <1>7, <1>8 DEF all

-----------------------------------------------------------------------------
(* What a step is for the registry: it subscribes, stores, calls a listener, or *)
(* leaves the registry and what its listeners have alone                         *)

Step(p) == Start(p) \/ Work(p)

Subscribes(p) ==
    /\ pc[p] = "subscribe" /\ pc' = [pc EXCEPT ![p] = "done"]
    /\ listeners' = Append(listeners, p)
    /\ UNCHANGED <<providers, snap, todo, feed, heard, owed, open>>

Stores(p) ==
    /\ pc[p] = "store" /\ pc' = [pc EXCEPT ![p] = "dispatch"]
    /\ providers' = Stored(p).document
    /\ snap' = [snap EXCEPT ![p] = Stored(p)]
    /\ todo' = [todo EXCEPT ![p] = listeners]
    /\ owed' = [l \in Call |-> owed[l] \cup {n \in {Len(open) + 1} : In(l, listeners)}]
    /\ open' = Append(open, {snap[q].no : q \in {q \in Call : pc[q] = "dispatch"}})
    /\ UNCHANGED <<listeners, feed, heard>>

Calls(p) ==
    /\ pc[p] = "dispatch" /\ todo[p] # <<>> /\ UNCHANGED pc
    /\ feed' = [feed EXCEPT ![Head(todo[p])] = FeedWith(Head(todo[p]), snap[p])]
    /\ heard' = [heard EXCEPT ![Head(todo[p])] = @ \cup {snap[p].no}]
    /\ todo' = [todo EXCEPT ![p] = Tail(todo[p])]
    /\ UNCHANGED <<providers, listeners, snap, owed, open>>

Rests(p) ==
    /\ pc[p] = "dispatch" => todo[p] = <<>>
    /\ \E place \in Places \ {"dispatch"} : pc' = [pc EXCEPT ![p] = place]
    /\ \E calls \in Seq(Call) : todo' = [todo EXCEPT ![p] = calls]
    /\ UNCHANGED <<providers, listeners, snap, feed, heard, owed, open>>

LEMMA StepMoves ==
    ASSUME TypeOK, NEW p \in Call, Step(p)
    PROVE  UNCHANGED job /\ (Subscribes(p) \/ Stores(p) \/ Calls(p) \/ Rests(p))
<1>1. /\ pc \in [Call -> Places] /\ todo \in [Call -> Seq(Call)] /\ watchers \in Seq(Call)
      /\ todo = [todo EXCEPT ![p] = todo[p]] /\ pc = [pc EXCEPT ![p] = pc[p]]
  BY DEF TypeOK, Places
<1>2. /\ Places \ {"dispatch"} = {"idle", "store", "subscribe", "attach", "lock", "notify",
                                    "notifying", "done"}
  BY DEF Places
<1>3. CASE Start(p)
  <2>1. pc[p] = "idle" /\ UNCHANGED <<todo, job>> /\ KeepRegistry
    BY <1>3 DEF Start, KeepNotifier
  <2>2. job[p] \in Jobs
    BY DEF TypeOK
  <2>3. job[p].action \in {"register", "subscribe", "attach", "validate"}
    BY <2>2 DEF Jobs
  <2>4. \E place \in Places \ {"dispatch"} : pc' = [pc EXCEPT ![p] = place]
    <3>1. CASE job[p].action = "register"
      BY <1>2, <1>3, <3>1 DEF Start, Goto
    <3>2. CASE job[p].action = "subscribe"
      BY <1>2, <1>3, <3>2 DEF Start, Goto
    <3>3. CASE job[p].action = "attach"
      BY <1>2, <1>3, <3>3 DEF Start, Goto
    <3>4. CASE job[p].action = "validate"
      BY <1>2, <1>3, <3>4 DEF Start, Goto
    <3> QED
      BY <2>3, <3>1, <3>2, <3>3, <3>4
  <2> QED
    BY <1>1, <2>1, <2>4 DEF Rests, KeepRegistry
<1>4. CASE Subscribe(p)
  BY <1>4 DEF Subscribe, Goto, KeepNotifier, Subscribes
<1>5. CASE StoreProvider(p)
  <2>1. CASE job[p].resource = {}
    BY <1>1, <1>2, <1>5, <2>1 DEF StoreProvider, Goto, KeepNotifier, Rests
  <2>2. CASE job[p].resource # {}
    <3>1. providers' = Stored(p).document
      BY <1>5, <2>2 DEF StoreProvider, Stored
    <3>2. owed' = [l \in Call |-> owed[l] \cup {n \in {Len(open) + 1} : In(l, listeners)}]
      BY <1>5, <2>2 DEF StoreProvider, In
    <3> QED
      BY <1>5, <2>2, <3>1, <3>2 DEF StoreProvider, Goto, KeepNotifier, Stores
  <2> QED
    BY <2>1, <2>2
<1>6. CASE CallListener(p)
  BY <1>6 DEF CallListener, Rest, KeepNotifier, Calls
<1>7. CASE Publish(p)
  BY <1>1, <1>2, <1>7 DEF Publish, Goto, KeepRegistry, KeepNotifier, Rests
<1>8. CASE Notify(p)
  BY <1>1, <1>2, <1>8 DEF Notify, Goto, KeepRegistry, Rests
<1>9. CASE CallWatcher(p)
  <2>1. Tail(todo[p]) \in Seq(Call)
    BY <1>1, <1>9, InTail DEF CallWatcher
  <2>2. \E place \in Places \ {"dispatch"} : pc' = [pc EXCEPT ![p] = place]
    BY <1>1, <1>2, <1>9 DEF CallWatcher, Goto
  <2> QED
    BY <1>9, <2>1, <2>2 DEF CallWatcher, Rest, KeepRegistry, Rests
<1>10. CASE NotifyReturns(p)
  BY <1>1, <1>2, <1>10 DEF NotifyReturns, Goto, KeepRegistry, Rests
<1>11. CASE AskToAttach(p)
  BY <1>1, <1>2, <1>11 DEF AskToAttach, Goto, KeepRegistry, Rests
<1>12. CASE Attach(p)
  BY <1>1, <1>2, <1>12 DEF Attach, Goto, KeepRegistry, Rests
<1> QED
  BY <1>3, <1>4, <1>5, <1>6, <1>7, <1>8, <1>9, <1>10, <1>11, <1>12 DEF Step, Work

-----------------------------------------------------------------------------
(* Each conjunct is kept by every step *)

LEMMA StoredType ==
    ASSUME TypeInv, NEW p \in Call
    PROVE  /\ Stored(p) \in Snapshot /\ Stored(p).no = Len(open) + 1
           /\ Stored(p).document \in [Resource -> SUBSET Call]
<1>1. Len(open) + 1 \in Nat
  BY LenProperties DEF TypeInv
<1>2. providers \in [Resource -> SUBSET Call]
  BY DEF TypeInv, TypeOK
<1>3. [r \in Resource |-> IF r \in job[p].resource THEN {p} ELSE providers[r]]
        \in [Resource -> SUBSET Call]
  BY <1>2
<1> QED
  BY <1>1, <1>3 DEF Stored, Snapshot

LEMMA NotifierTypes ==
    ASSUME TypeOK, NEW p \in Call, Step(p)
    PROVE  watchers' \in Seq(Call) /\ readers' \subseteq Call /\ writers' \subseteq Call
<1>1. watchers \in Seq(Call) /\ readers \subseteq Call /\ writers \subseteq Call
  BY DEF TypeOK
<1>2. Append(watchers, p) \in Seq(Call)
  BY <1>1
<1>3. CASE Start(p) \/ Subscribe(p) \/ StoreProvider(p) \/ CallListener(p) \/ Publish(p)
  BY <1>1, <1>3 DEF Start, Subscribe, StoreProvider, CallListener, Publish, KeepNotifier
<1>4. CASE Notify(p) \/ CallWatcher(p) \/ NotifyReturns(p) \/ AskToAttach(p) \/ Attach(p)
  BY <1>1, <1>2, <1>4 DEF Notify, CallWatcher, NotifyReturns, AskToAttach, Attach, Unlocked
<1> QED
  BY <1>3, <1>4 DEF Step, Work

LEMMA TypeKept ==
    ASSUME TypeInv, NEW p \in Call, Step(p)
    PROVE  TypeInv'
<1>1. /\ providers \in [Resource -> SUBSET Call] /\ listeners \in Seq(Call)
      /\ job \in [Call -> Jobs] /\ pc \in [Call -> Places] /\ snap \in [Call -> Snapshot]
      /\ todo \in [Call -> Seq(Call)] /\ feed \in [Call -> Seq(Snapshot)]
      /\ heard \in [Call -> SUBSET Nat] /\ owed \in [Call -> SUBSET Nat]
      /\ open \in Seq(SUBSET Nat) /\ TypeOK
  BY DEF TypeInv, TypeOK, Places
<1>2. job' = job /\ (Subscribes(p) \/ Stores(p) \/ Calls(p) \/ Rests(p))
  BY <1>1, StepMoves
<1>3. \A q \in Call : snap[q].no \in Nat
  BY <1>1 DEF Snapshot
<1>4. SUFFICES
      /\ providers' \in [Resource -> SUBSET Call] /\ listeners' \in Seq(Call)
      /\ pc' \in [Call -> Places] /\ snap' \in [Call -> Snapshot]
      /\ todo' \in [Call -> Seq(Call)] /\ feed' \in [Call -> Seq(Snapshot)]
      /\ heard' \in [Call -> SUBSET Nat] /\ owed' \in [Call -> SUBSET Nat]
      /\ open' \in Seq(SUBSET Nat)
  BY <1>1, <1>2, NotifierTypes DEF TypeInv, TypeOK, Places
<1>5. CASE Subscribes(p)
  BY <1>1, <1>5 DEF Subscribes, Places
<1>6. CASE Stores(p)
  <2>1. Stored(p) \in Snapshot /\ Stored(p).document \in [Resource -> SUBSET Call]
    BY StoredType
  <2>2. snap' \in [Call -> Snapshot] /\ providers' \in [Resource -> SUBSET Call]
    BY <1>1, <1>6, <2>1 DEF Stores
  <2>3. Len(open) + 1 \in Nat
    BY <1>1, LenProperties
  <2>4. owed' \in [Call -> SUBSET Nat]
    BY <1>1, <1>6, <2>3 DEF Stores
  <2>5. {snap[q].no : q \in {q \in Call : pc[q] = "dispatch"}} \in SUBSET Nat
    BY <1>3
  <2>6. open' \in Seq(SUBSET Nat)
    BY <1>1, <1>6, <2>5 DEF Stores
  <2> QED
    BY <1>1, <1>6, <2>2, <2>4, <2>6 DEF Stores, Places
<1>7. CASE Calls(p)
  <2>1. Head(todo[p]) \in Call /\ Tail(todo[p]) \in Seq(Call)
    BY <1>1, <1>7, InTail DEF Calls
  <2>2. FeedWith(Head(todo[p]), snap[p]) \in Seq(Snapshot)
    BY <1>1, <2>1, FeedBegins DEF FeedWith
  <2>3. feed' \in [Call -> Seq(Snapshot)]
    BY <1>1, <1>7, <2>2 DEF Calls
  <2>4. heard' \in [Call -> SUBSET Nat]
    BY <1>1, <1>3, <1>7 DEF Calls
  <2> QED
    BY <1>1, <1>7, <2>1, <2>3, <2>4 DEF Calls
<1>8. CASE Rests(p)
  BY <1>1, <1>8 DEF Rests
<1> QED
  BY <1>2, <1>5, <1>6, <1>7, <1>8

LEMMA OwingKept ==
    ASSUME TypeInv, Owing, NEW p \in Call, Step(p)
    PROVE  Owing'
<1>1. /\ pc \in [Call -> Places] /\ snap \in [Call -> Snapshot] /\ todo \in [Call -> Seq(Call)]
      /\ heard \in [Call -> SUBSET Nat] /\ owed \in [Call -> SUBSET Nat] /\ TypeOK
      /\ listeners \in Seq(Call)
  BY DEF TypeInv, TypeOK, Places
<1>2. Subscribes(p) \/ Stores(p) \/ Calls(p) \/ Rests(p)
  BY <1>1, StepMoves
<1> DEFINE Coming(l, n) == \E q \in Call : pc[q] = "dispatch" /\ In(l, todo[q]) /\ snap[q].no = n
           ComingNext(l, n) ==
               \E q \in Call : pc'[q] = "dispatch" /\ In(l, todo'[q]) /\ snap'[q].no = n
<1>3. \A l \in Call : \A n : n \in owed[l] <=> n \in heard[l] \/ Coming(l, n)
  BY DEF Owing
<1>4. SUFFICES ASSUME NEW l \in Call, NEW n
               PROVE  n \in owed'[l] <=> n \in heard'[l] \/ ComingNext(l, n)
  <2>1. \A l \in Call : owed'[l] = heard'[l] \cup
            {snap'[q].no : q \in {q \in Call : pc'[q] = "dispatch" /\ In(l, todo'[q])}}
    BY <1>4
  <2> QED
    BY <2>1 DEF Owing, In
<1>5. CASE Subscribes(p)
  <2>1. \A q \in Call : pc'[q] = "dispatch" <=> pc[q] = "dispatch"
    BY <1>1, <1>5 DEF Subscribes
  <2>2. owed' = owed /\ heard' = heard /\ todo' = todo /\ snap' = snap
    BY <1>5 DEF Subscribes
  <2> QED
    BY <1>3, <2>1, <2>2
<1>6. CASE Stores(p)
  <2>1. /\ heard' = heard /\ snap'[p].no = Len(open) + 1 /\ todo'[p] = listeners
        /\ pc'[p] = "dispatch" /\ pc[p] # "dispatch"
        /\ \A q \in Call : q # p => pc'[q] = pc[q] /\ snap'[q] = snap[q] /\ todo'[q] = todo[q]
    BY <1>1, <1>6, StoredType DEF Stores
  <2>2. n \in owed'[l] <=> n \in owed[l] \/ (n = Len(open) + 1 /\ In(l, listeners))
    BY <1>1, <1>6 DEF Stores
  <2>3. ComingNext(l, n) <=> Coming(l, n) \/ (n = Len(open) + 1 /\ In(l, listeners))
    BY <2>1
  <2> QED
    BY <1>3, <2>1, <2>2, <2>3
<1>7. CASE Calls(p)
  <2>1. /\ owed' = owed /\ pc' = pc /\ snap' = snap /\ todo'[p] = Tail(todo[p])
        /\ \A q \in Call : q # p => todo'[q] = todo[q]
        /\ pc[p] = "dispatch"
    BY <1>1, <1>7 DEF Calls
  <2>2. /\ Head(todo[p]) \in Call
        /\ In(l, todo[p]) <=> l = Head(todo[p]) \/ In(l, Tail(todo[p]))
    BY <1>1, <1>7, InTail DEF Calls
  <2>3. n \in heard'[l] <=> n \in heard[l] \/ (l = Head(todo[p]) /\ n = snap[p].no)
    BY <1>1, <1>7, <2>2 DEF Calls
  <2>4. Coming(l, n) <=> ComingNext(l, n) \/ (l = Head(todo[p]) /\ n = snap[p].no)
    BY <2>1, <2>2
  <2> QED
    BY <1>3, <2>1, <2>3, <2>4
<1>8. CASE Rests(p)
  <2>1. owed' = owed /\ heard' = heard /\ snap' = snap
    BY <1>8 DEF Rests
  <2>2. /\ pc'[p] # "dispatch"
        /\ \A q \in Call : q # p => pc'[q] = pc[q] /\ todo'[q] = todo[q]
    BY <1>1, <1>8 DEF Rests
  <2>3. pc[p] = "dispatch" => ~In(l, todo[p])
    BY <1>8 DEF Rests, In
  <2> QED
    BY <1>3, <2>1, <2>2, <2>3
<1> QED
  BY <1>2, <1>5, <1>6, <1>7, <1>8

LEMMA NumberedKept ==
    ASSUME TypeInv, Numbered, NEW p \in Call, Step(p)
    PROVE  Numbered'
<1>1. open \in Seq(SUBSET Nat) /\ Len(open) \in Nat /\ owed \in [Call -> SUBSET Nat] /\ TypeOK
  BY LenProperties DEF TypeInv
<1>2. Subscribes(p) \/ Stores(p) \/ Calls(p) \/ Rests(p)
  BY <1>1, StepMoves
<1>3. CASE Stores(p)
  <2>1. {snap[q].no : q \in {q \in Call : pc[q] = "dispatch"}} \in SUBSET Nat
    BY DEF TypeInv, TypeOK, Snapshot
  <2>2. Len(open') = Len(open) + 1
    BY <1>1, <1>3, <2>1 DEF Stores
  <2>3. \A l \in Call : owed'[l] \subseteq owed[l] \cup {Len(open) + 1}
    BY <1>1, <1>3 DEF Stores
  <2>4. 1 .. Len(open) \subseteq 1 .. Len(open') /\ Len(open) + 1 \in 1 .. Len(open')
    BY <1>1, <2>2
  <2> QED
    BY <2>3, <2>4 DEF Numbered
<1>4. CASE Subscribes(p) \/ Calls(p) \/ Rests(p)
  BY <1>4 DEF Subscribes, Calls, Rests, Numbered
<1> QED
  BY <1>2, <1>3, <1>4

LEMMA ListedKept ==
    ASSUME TypeInv, Listed, NEW p \in Call, Step(p)
    PROVE  Listed'
<1>1. /\ pc \in [Call -> Places] /\ todo \in [Call -> Seq(Call)]
      /\ feed \in [Call -> Seq(Snapshot)] /\ listeners \in Seq(Call) /\ TypeOK
  BY DEF TypeInv, TypeOK, Places
<1>2. Subscribes(p) \/ Stores(p) \/ Calls(p) \/ Rests(p)
  BY <1>1, StepMoves
<1>3. \A l : In(l, listeners) => In(l, listeners')
  <2>1. CASE Subscribes(p)
    BY <1>1, <2>1, InAppend DEF Subscribes
  <2>2. CASE ~Subscribes(p)
    BY <1>2, <2>2 DEF Stores, Calls, Rests
  <2> QED
    BY <2>1, <2>2
<1>4. SUFFICES /\ \A q \in Call : pc'[q] = "dispatch" =>
                      \A l \in Call : In(l, todo'[q]) => In(l, listeners')
               /\ \A l \in Call : feed'[l] # <<>> => In(l, listeners')
  BY DEF Listed, In
<1>5. CASE Subscribes(p)
  <2>1. feed' = feed /\ todo' = todo /\ \A q \in Call : pc'[q] = "dispatch" => pc[q] = "dispatch"
    BY <1>1, <1>5 DEF Subscribes
  <2> QED
    BY <1>3, <2>1 DEF Listed
<1>6. CASE Stores(p)
  <2>1. /\ feed' = feed /\ todo'[p] = listeners
        /\ \A q \in Call : q # p => todo'[q] = todo[q] /\ pc'[q] = pc[q]
    BY <1>1, <1>6 DEF Stores
  <2> QED
    BY <1>3, <2>1 DEF Listed
<1>7. CASE Calls(p)
  <2>1. /\ pc' = pc /\ todo'[p] = Tail(todo[p]) /\ pc[p] = "dispatch"
        /\ \A q \in Call : q # p => todo'[q] = todo[q]
        /\ \A l \in Call : l # Head(todo[p]) => feed'[l] = feed[l]
    BY <1>1, <1>7 DEF Calls
  <2>2. /\ Head(todo[p]) \in Call
        /\ \A l : In(l, todo[p]) <=> l = Head(todo[p]) \/ In(l, Tail(todo[p]))
    BY <1>1, <1>7, InTail DEF Calls
  <2>3. In(Head(todo[p]), listeners)
    BY <2>1, <2>2 DEF Listed
  <2> QED
    BY <1>3, <2>1, <2>2, <2>3 DEF Listed
<1>8. CASE Rests(p)
  <2>1. /\ feed' = feed /\ pc'[p] # "dispatch"
        /\ \A q \in Call : q # p => todo'[q] = todo[q] /\ pc'[q] = pc[q]
    BY <1>1, <1>8 DEF Rests
  <2> QED
    BY <1>3, <2>1 DEF Listed
<1> QED
  BY <1>2, <1>5, <1>6, <1>7, <1>8

\* Storing makes every other delivery under way one that was open at the time;
\* no other step changes the document or what was open.
LEMMA AgreesMoves ==
    ASSUME TypeInv, NEW p \in Call, Step(p)
    PROVE  /\ ~Stores(p) => providers' = providers /\ open' = open /\ owed' = owed
           /\ Stores(p) => /\ Len(open') = Len(open) + 1 /\ Len(open) \in Nat
                          /\ \A q \in Call : pc[q] = "dispatch" => snap[q].no \in open'[Len(open')]
<1>1. open \in Seq(SUBSET Nat) /\ Len(open) \in Nat /\ TypeOK
  BY LenProperties DEF TypeInv
<1>2. Subscribes(p) \/ Stores(p) \/ Calls(p) \/ Rests(p)
  BY <1>1, StepMoves
<1>3. CASE Stores(p)
  <2> DEFINE now == {snap[q].no : q \in {q \in Call : pc[q] = "dispatch"}}
  <2>1. now \in SUBSET Nat /\ open' = Append(open, now)
    BY <1>3 DEF Stores, TypeInv, TypeOK, Snapshot
  <2>2. \A q \in Call : pc[q] = "dispatch" => snap[q].no \in now
    OBVIOUS
  <2> HIDE DEF now
  <2>3. Len(open') = Len(open) + 1 /\ open'[Len(open) + 1] = now
    BY <1>1, <2>1
  <2> QED
    BY <1>1, <1>3, <2>2, <2>3
<1>4. CASE ~Stores(p)
  BY <1>2, <1>4 DEF Subscribes, Calls, Rests
<1> QED
  BY <1>3, <1>4

LEMMA DeliversAgreeingKept ==
    ASSUME TypeInv, DeliversAgreeing, NEW p \in Call, Step(p)
    PROVE  DeliversAgreeing'
<1>1. pc \in [Call -> Places] /\ snap \in [Call -> Snapshot] /\ TypeOK
  BY DEF TypeInv, TypeOK, Places
<1>2. Subscribes(p) \/ Stores(p) \/ Calls(p) \/ Rests(p)
  BY <1>1, StepMoves
<1>3. SUFFICES ASSUME NEW q \in Call, pc'[q] = "dispatch"
               PROVE  snap'[q].document = providers' \/ snap'[q].no \in open'[Len(open')]
  BY DEF DeliversAgreeing, Agrees, Document
<1>4. CASE Stores(p)
  <2>1. CASE q = p
    BY <1>1, <1>4, <2>1 DEF Stores
  <2>2. CASE q # p
    BY <1>1, <1>3, <1>4, <2>2, AgreesMoves DEF Stores
  <2> QED
    BY <2>1, <2>2
<1>5. CASE ~Stores(p)
  <2>1. pc[q] = "dispatch" /\ snap' = snap
    BY <1>1, <1>2, <1>3, <1>5 DEF Subscribes, Calls, Rests
  <2> QED
    BY <1>5, <2>1, AgreesMoves DEF DeliversAgreeing, Agrees, Document
<1> QED
  BY <1>4, <1>5

LEMMA FeedsAgreeKept ==
    ASSUME TypeInv, Owing, Numbered, Listed, DeliversAgreeing, FeedsAgree,
           NEW p \in Call, Step(p)
    PROVE  FeedsAgree'
<1>1. /\ pc \in [Call -> Places] /\ snap \in [Call -> Snapshot] /\ TypeOK
      /\ todo \in [Call -> Seq(Call)] /\ feed \in [Call -> Seq(Snapshot)]
      /\ heard \in [Call -> SUBSET Nat] /\ owed \in [Call -> SUBSET Nat]
  BY DEF TypeInv, TypeOK, Places
<1>2. Subscribes(p) \/ Stores(p) \/ Calls(p) \/ Rests(p)
  BY <1>1, StepMoves
<1>3. SUFFICES ASSUME NEW l \in Call, feed'[l] # <<>>
               PROVE  \/ Head(feed'[l]).document = providers'
                      \/ Head(feed'[l]).no \in open'[Len(open')]
                      \/ Len(open') \in owed'[l] /\ Len(open') \notin heard'[l]
  BY DEF FeedsAgree, Agrees, Document
<1>4. CASE Stores(p)
  <2>1. feed' = feed /\ heard' = heard /\ Len(open') = Len(open) + 1 /\ Len(open) \in Nat
    BY <1>4, AgreesMoves DEF Stores
  <2>2. In(l, listeners)
    BY <1>3, <2>1 DEF Listed
  <2>3. Len(open') \in owed'[l]
    BY <1>1, <1>4, <2>1, <2>2 DEF Stores
  <2>4. heard[l] \subseteq owed[l] /\ owed[l] \subseteq 1 .. Len(open)
    BY DEF Owing, Numbered
  <2>5. Len(open) + 1 \notin 1 .. Len(open)
    BY <2>1
  <2> QED
    BY <2>1, <2>3, <2>4, <2>5
<1>5. CASE Calls(p)
  <2>1. providers' = providers /\ open' = open /\ owed' = owed
    BY <1>5 DEF Calls
  <2>2. Head(todo[p]) \in Call
    BY <1>1, <1>5, InTail DEF Calls
  <2>3. CASE l = Head(todo[p])
    <3>1. Head(feed'[l]) = snap[p]
      BY <1>1, <1>5, <2>2, <2>3, FeedBegins DEF Calls, FeedWith
    <3>2. Agrees(snap[p])
      BY <1>5 DEF Calls, DeliversAgreeing
    <3> QED
      BY <2>1, <3>1, <3>2 DEF Agrees, Document
  <2>4. CASE l # Head(todo[p])
    <3>1. feed'[l] = feed[l] /\ heard'[l] = heard[l]
      BY <1>1, <1>5, <2>2, <2>4 DEF Calls
    <3> QED
      BY <1>3, <2>1, <3>1 DEF FeedsAgree, Agrees, Document
  <2> QED
    BY <2>3, <2>4
<1>6. CASE Subscribes(p) \/ Rests(p)
  <2>1. UNCHANGED <<providers, open, owed, heard, feed>>
    BY <1>6 DEF Subscribes, Rests
  <2> QED
    BY <1>3, <2>1 DEF FeedsAgree, Agrees, Document
<1> QED
  BY <1>2, <1>4, <1>5, <1>6

-----------------------------------------------------------------------------
(* The invariant and what follows *)

LEMMA Initially == Init => IInv
<1> SUFFICES ASSUME Init PROVE IInv
  OBVIOUS
<1>1. /\ \A p \in Call : pc[p] # "dispatch" /\ feed[p] = <<>> /\ heard[p] = {} /\ owed[p] = {}
  BY DEF Init
<1>2. NoSnapshot \in Snapshot
  BY DEF NoSnapshot, Snapshot
<1>3. TypeInv
  BY <1>2 DEF Init, TypeInv, TypeOK
<1>4. Owing /\ Numbered /\ Listed /\ DeliversAgreeing /\ FeedsAgree
  BY <1>1 DEF Owing, Numbered, Listed, DeliversAgreeing, FeedsAgree
<1> QED
  BY <1>3, <1>4 DEF IInv

LEMMA Inductive == IInv /\ [Next]_vars => IInv'
<1> SUFFICES ASSUME IInv, [Next]_vars PROVE IInv'
  OBVIOUS
<1>1. CASE Next
  <2>1. PICK p \in Call : Step(p)
    BY <1>1 DEF Next, Step
  <2> QED
    BY <2>1, TypeKept, OwingKept, NumberedKept, ListedKept, DeliversAgreeingKept, FeedsAgreeKept
    DEF IInv
<1>2. CASE UNCHANGED vars
  <2>1. TypeInv' /\ Owing' /\ Numbered'
    BY <1>2 DEF IInv, TypeInv, TypeOK, Owing, Numbered, In, vars
  <2>2. Listed' /\ DeliversAgreeing' /\ FeedsAgree'
    BY <1>2 DEF IInv, Listed, DeliversAgreeing, FeedsAgree, Agrees, Document, In, vars
  <2> QED
    BY <2>1, <2>2 DEF IInv
<1> QED
  BY <1>1, <1>2

LEMMA Invariant == Spec => []IInv
  BY Initially, Inductive, PTL DEF Spec

\* Every variable of the registry, the notifier and the feeds keeps its shape.
THEOREM TypeCorrect == Spec => []TypeOK
<1>1. IInv => TypeOK
  BY DEF IInv, TypeInv
<1> QED
  BY <1>1, Invariant, PTL

\* Register and Subscribe under their lock: whenever no delivery is under way, each
\* listener has heard exactly the snapshots taken while it was subscribed, however
\* many registrations and subscriptions raced.
THEOREM EveryChangeHeardHolds == Spec => []EveryChangeHeard
<1>1. ASSUME IInv PROVE EveryChangeHeard
  <2>1. SUFFICES ASSUME Delivered PROVE heard = owed
    BY DEF EveryChangeHeard
  <2>2. \A l \in Call : owed[l] = heard[l]
    BY <1>1, <2>1 DEF IInv, Owing, Delivered
  <2>3. heard \in [Call -> SUBSET Nat] /\ owed \in [Call -> SUBSET Nat]
    BY <1>1 DEF IInv, TypeInv
  <2> QED
    BY <2>2, <2>3
<1> QED
  BY <1>1, Invariant, PTL

\* Snapshots are delivered outside the lock: whenever no delivery is under way, a
\* feed begins with the document served, or with one that was still being delivered
\* when the newest was stored, for feeds of every length.
THEOREM FeedAgreesHolds == Spec => []FeedAgrees
<1>1. ASSUME IInv PROVE FeedAgrees
  <2>1. SUFFICES ASSUME Delivered, NEW l \in Call, feed[l] # <<>>
                 PROVE  Agrees(Head(feed[l]))
    BY DEF FeedAgrees, Agrees
  <2>2. owed[l] = heard[l]
    BY <1>1, <2>1 DEF IInv, Owing, Delivered
  <2> QED
    BY <1>1, <2>1, <2>2 DEF IInv, FeedsAgree
<1> QED
  BY <1>1, Invariant, PTL
=============================================================================
