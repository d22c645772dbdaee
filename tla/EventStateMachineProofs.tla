----------------------- MODULE EventStateMachineProofs -----------------------
(***************************************************************************)
(* Theorems about EventStateMachine: what replicas that apply one log in   *)
(* their own groups, crash, and pass snapshots on have in common, for any  *)
(* number of replicas, log length, snapshots and crashes.                  *)
(***************************************************************************)
EXTENDS EventStateMachine, WellFoundedInduction, TLAPS

(* A non-empty set of naturals has a least element: what stands in for     *)
(* induction below.                                                        *)
LEMMA Least ==
  ASSUME NEW T \in SUBSET Nat, T # {}
  PROVE  \E x \in T : \A y \in T : x <= y
  <1>1. PICK x \in T : \A y \in T : ~(<<y, x>> \in OpToRel(<, Nat))
    BY WFMin, NatLessThanWellFounded, Zenon
  <1>2. ASSUME NEW y \in Nat, NEW z \in Nat, y < z
        PROVE  <<y, z>> \in OpToRel(<, Nat)
    BY <1>2 DEF OpToRel
  <1>3. \A y \in T : ~(y < x)
    BY <1>1, <1>2, Zenon
  <1> QED
    BY <1>3
-----------------------------------------------------------------------------
(* A batch in progress: the counter value it will leave is the one in      *)
(* memory, and no key has a higher ID.                                     *)
IsBatch(b) ==
    /\ b = [events |-> b.events, savedID |-> b.lastID, lastID |-> b.lastID]
    /\ b.lastID \in Nat
    /\ \A k \in DOMAIN b.events : k[3] \in Nat /\ k[3] <= b.lastID

IsCommand(cmd) == cmd.type = "store" => cmd.items \in Seq(Slots)

(* A record is determined by its fields. *)
LEMMA BatchFields ==
  ASSUME NEW c, NEW e, NEW n, c \in [events : {e}, savedID : {n}, lastID : {n}]
  PROVE  c = [events |-> e, savedID |-> n, lastID |-> n]
  <1>1. [events |-> e, savedID |-> n, lastID |-> n]
           \in [events : {e}, savedID : {n}, lastID : {n}]
    OBVIOUS
  <1> QED
    BY <1>1

(* The three fields make a batch, if the counter covers the keys. *)
LEMMA BatchShape ==
  ASSUME NEW c, NEW e, NEW n \in Nat, c \in [events : {e}, savedID : {n}, lastID : {n}],
         \A k \in DOMAIN e : k[3] \in Nat /\ k[3] <= n
  PROVE  IsBatch(c)
  <1>1. c = [events |-> e, savedID |-> n, lastID |-> n]
    BY BatchFields
  <1>2. c.events = e /\ c.lastID = n
    BY <1>1
  <1>3. c = [events |-> c.events, savedID |-> c.lastID, lastID |-> c.lastID]
    BY <1>1, <1>2, Zenon
  <1> QED
    BY <1>2, <1>3, Zenon DEF IsBatch

(* StoreRawWithBatch keeps the counter above the keys it files. *)
LEMMA StoreRawType ==
  ASSUME NEW b, IsBatch(b), NEW slot, NEW message
  PROVE  IsBatch(StoreRawWithBatch(b, slot, message))
  <1> DEFINE n   == b.lastID + 1
             key == EventKey(slot[2], slot[1], n)
             e   == [k \in DOMAIN b.events \cup {key} |->
                        IF k = key THEN message ELSE b.events[k]]
  <1>1. n \in Nat /\ \A k \in DOMAIN b.events : k[3] \in Nat /\ k[3] <= n
    BY DEF IsBatch
  <1>2. key[3] = n
    BY DEF EventKey
  <1>3. StoreRawWithBatch(b, slot, message)
          = [b EXCEPT !.events = e, !.savedID = n, !.lastID = n]
    BY DEF StoreRawWithBatch
  <1> HIDE DEF n, key
  <1>4. \A k \in DOMAIN e : k[3] \in Nat /\ k[3] <= n
    BY <1>1, <1>2
  <1> HIDE DEF e
  <1>5. b \in [events : {b.events}, savedID : {b.lastID}, lastID : {b.lastID}]
    BY DEF IsBatch
  <1>6. [b EXCEPT !.events = e, !.savedID = n, !.lastID = n]
           \in [events : {e}, savedID : {n}, lastID : {n}]
    BY <1>5
  <1> QED
    BY <1>1, <1>3, <1>4, <1>6, BatchShape

(* Deleting keys keeps the counter above the others. *)
LEMMA DeleteKeysType ==
  ASSUME NEW b, IsBatch(b), NEW keys
  PROVE  IsBatch(DeleteKeys(b, keys))
  <1> DEFINE e == Restrict(b.events, DOMAIN b.events \ keys)
             n == b.lastID
  <1>1. b \in [events : {b.events}, savedID : {n}, lastID : {n}]
    BY DEF IsBatch
  <1>2. n \in Nat /\ \A k \in DOMAIN e : k[3] \in Nat /\ k[3] <= n
    BY DEF IsBatch, Restrict
  <1>3. DeleteKeys(b, keys) = [b EXCEPT !.events = e]
    BY DEF DeleteKeys
  <1> HIDE DEF e, n
  <1>4. [b EXCEPT !.events = e] \in [events : {e}, savedID : {n}, lastID : {n}]
    BY <1>1
  <1> QED
    BY <1>2, <1>3, <1>4, BatchShape

(* The items of a store command, one after the other. *)
Items(g, batch, its, index, n) ==
    g = [i \in 0 .. n |->
            IF i = 0 THEN batch ELSE StoreRawWithBatch(g[i - 1], its[i], <<index, i>>)]

(* The recursion over the items of a command defines a function: by the    *)
(* least number of items for which it would not.                           *)
LEMMA ItemsExist ==
  ASSUME NEW batch, NEW its, NEW index, NEW n \in Nat
  PROVE  \E g : Items(g, batch, its, index, n)
  <1> DEFINE bad == {m \in 0 .. n : ~\E g : Items(g, batch, its, index, m)}
  <1>1. SUFFICES ASSUME bad # {} PROVE FALSE
    OBVIOUS
  <1>2. PICK m \in bad : \A y \in bad : m <= y
    <2>1. bad \in SUBSET Nat
      OBVIOUS
    <2> HIDE DEF bad
    <2> QED
      BY <1>1, <2>1, Least
  <1>3. m \in 0 .. n /\ ~\E g : Items(g, batch, its, index, m)
    OBVIOUS
  <1>4. CASE m = 0
    <2> DEFINE g == [i \in 0 .. 0 |-> batch]
    <2>1. Items(g, batch, its, index, 0)
      BY DEF Items
    <2> QED
      BY <1>3, <1>4, <2>1
  <1>5. CASE m # 0
    <2>1. m - 1 \in 0 .. n /\ ~(m <= m - 1)
      BY <1>3, <1>5
    <2>2. m - 1 \notin bad
      BY <1>2, <2>1
    <2>3. PICK g : Items(g, batch, its, index, m - 1)
      BY <2>1, <2>2
    <2> DEFINE h == [i \in 0 .. m |->
                        IF i < m THEN g[i]
                        ELSE StoreRawWithBatch(g[m - 1], its[m], <<index, m>>)]
    <2>4. \A i \in 0 .. m - 1 :
             g[i] = IF i = 0 THEN batch ELSE StoreRawWithBatch(g[i - 1], its[i], <<index, i>>)
      BY <1>3, <2>3 DEF Items
    <2>5. \A i \in 0 .. m :
             h[i] = IF i = 0 THEN batch ELSE StoreRawWithBatch(h[i - 1], its[i], <<index, i>>)
      BY <1>3, <1>5, <2>4
    <2>6. Items(h, batch, its, index, m)
      BY <2>5 DEF Items
    <2> QED
      BY <1>3, <2>6
  <1> QED
    BY <1>4, <1>5

(* All batches on the way through the items are batches. *)
LEMMA ItemsType ==
  ASSUME NEW batch, IsBatch(batch), NEW its, NEW index, NEW n \in Nat,
         NEW g, Items(g, batch, its, index, n)
  PROVE  \A i \in 0 .. n : IsBatch(g[i])
  <1> DEFINE bad == {m \in 0 .. n : ~IsBatch(g[m])}
  <1>1. SUFFICES ASSUME bad # {} PROVE FALSE
    OBVIOUS
  <1>2. PICK m \in bad : \A y \in bad : m <= y
    <2>1. bad \in SUBSET Nat
      OBVIOUS
    <2> HIDE DEF bad
    <2> QED
      BY <1>1, <2>1, Least
  <1>3. m \in 0 .. n /\ ~IsBatch(g[m])
    OBVIOUS
  <1>4. \A i \in 0 .. n :
           g[i] = IF i = 0 THEN batch ELSE StoreRawWithBatch(g[i - 1], its[i], <<index, i>>)
    BY DEF Items
  <1>5. m # 0
    BY <1>3, <1>4
  <1>6. m - 1 \in 0 .. n /\ ~(m <= m - 1)
    BY <1>3, <1>5
  <1>7. IsBatch(g[m - 1])
    BY <1>2, <1>6
  <1> QED
    BY <1>3, <1>4, <1>5, <1>7, StoreRawType

(* Applying a command to a batch leaves a batch. *)
LEMMA ApplyEntryType ==
  ASSUME NEW batch, IsBatch(batch), NEW cmd, IsCommand(cmd), NEW index
  PROVE  IsBatch(ApplyEntry(batch, cmd, index))
  <1>1. CASE cmd.type = "store"
    <2> DEFINE its == cmd.items
               n   == Len(its)
               items == CHOOSE g : Items(g, batch, its, index, n)
    <2>1. n \in Nat
      BY <1>1 DEF IsCommand
    <2>2. ApplyEntry(batch, cmd, index) = items[n]
      BY <1>1 DEF ApplyEntry, Items
    <2> HIDE DEF its, n
    <2>3. Items(items, batch, its, index, n)
      BY <2>1, ItemsExist
    <2> HIDE DEF items
    <2>4. IsBatch(items[n])
      BY <2>1, <2>3, ItemsType
    <2> QED
      BY <2>2, <2>4
  <1>2. CASE cmd.type # "store"
    BY <1>2, DeleteKeysType DEF ApplyEntry
  <1> QED
    BY <1>1, <1>2
-----------------------------------------------------------------------------
(* The batches on the way through the entries first .. last. *)
Trace(f, entries, base, first, last) ==
    f = [i \in first - 1 .. last |->
            IF i < first THEN base ELSE ApplyEntry(f[i - 1], entries[i], i)]

(* The recursion over the entries of the log defines a function. *)
LEMMA TraceExists ==
  ASSUME NEW entries, NEW base, NEW first \in Nat \ {0}, NEW last \in Nat, first - 1 <= last
  PROVE  \E f : Trace(f, entries, base, first, last)
  <1> DEFINE bad == {m \in first - 1 .. last : ~\E f : Trace(f, entries, base, first, m)}
  <1>1. SUFFICES ASSUME bad # {} PROVE FALSE
    OBVIOUS
  <1>2. PICK m \in bad : \A y \in bad : m <= y
    <2>1. bad \in SUBSET Nat
      OBVIOUS
    <2> HIDE DEF bad
    <2> QED
      BY <1>1, <2>1, Least
  <1>3. m \in first - 1 .. last /\ ~\E f : Trace(f, entries, base, first, m)
    OBVIOUS
  <1>4. CASE m = first - 1
    <2> DEFINE f == [i \in first - 1 .. m |-> base]
    <2>1. Trace(f, entries, base, first, m)
      BY <1>4 DEF Trace
    <2> QED
      BY <1>3, <2>1
  <1>5. CASE m # first - 1
    <2>1. m - 1 \in first - 1 .. last /\ ~(m <= m - 1)
      BY <1>3, <1>5
    <2>2. m - 1 \notin bad
      BY <1>2, <2>1
    <2>3. PICK f : Trace(f, entries, base, first, m - 1)
      BY <2>1, <2>2
    <2> DEFINE h == [i \in first - 1 .. m |->
                        IF i < m THEN f[i] ELSE ApplyEntry(f[m - 1], entries[m], m)]
    <2>4. \A i \in first - 1 .. m - 1 :
             f[i] = IF i < first THEN base ELSE ApplyEntry(f[i - 1], entries[i], i)
      BY <1>3, <2>3 DEF Trace
    <2>a. h = [i \in first - 1 .. m |-> h[i]]
      OBVIOUS
    <2>b. \A i \in first - 1 .. m - 1 : h[i] = f[i]
      BY <1>3, <1>5
    <2>c. h[m] = ApplyEntry(f[m - 1], entries[m], m)
      BY <1>3, <1>5
    <2> HIDE DEF h
    <2>d. ASSUME NEW i \in first - 1 .. m
          PROVE  h[i] = IF i < first THEN base ELSE ApplyEntry(h[i - 1], entries[i], i)
      <3>1. CASE i = m
        BY <1>3, <1>5, <2>b, <2>c, <3>1
      <3>2. CASE i # m /\ i < first
        BY <1>3, <1>5, <2>b, <2>4, <3>2
      <3>3. CASE i # m /\ ~(i < first)
        <4>1. i \in first - 1 .. m - 1 /\ i - 1 \in first - 1 .. m - 1
          BY <1>3, <3>3
        <4>2. h[i] = f[i] /\ h[i - 1] = f[i - 1]
          BY <2>b, <4>1
        <4>3. f[i] = ApplyEntry(f[i - 1], entries[i], i)
          BY <2>4, <3>3, <4>1
        <4> QED
          BY <3>3, <4>2, <4>3
      <3> QED
        BY <3>1, <3>2, <3>3
    <2>5. h = [i \in first - 1 .. m |->
                  IF i < first THEN base ELSE ApplyEntry(h[i - 1], entries[i], i)]
      BY <2>a, <2>d, SMTT(30)
    <2>6. Trace(h, entries, base, first, m)
      BY <2>5, Zenon DEF Trace
    <2> QED
      BY <1>3, <2>6
  <1> QED
    BY <1>4, <1>5

(* Two traces that meet at a stay together while their entries agree. *)
LEMMA TracesAgree ==
  ASSUME NEW e1, NEW base1, NEW first1 \in Nat \ {0}, NEW last1 \in Nat,
         NEW e2, NEW base2, NEW first2 \in Nat \ {0}, NEW last2 \in Nat,
         NEW f1, Trace(f1, e1, base1, first1, last1),
         NEW f2, Trace(f2, e2, base2, first2, last2),
         NEW a \in Nat, first1 - 1 <= a, first2 - 1 <= a, f1[a] = f2[a],
         NEW n \in Nat, a <= n, n <= last1, n <= last2,
         \A i \in a + 1 .. n : e1[i] = e2[i]
  PROVE  f1[n] = f2[n]
  <1> DEFINE bad == {m \in a .. n : f1[m] # f2[m]}
  <1>1. SUFFICES ASSUME bad # {} PROVE FALSE
    OBVIOUS
  <1>2. PICK m \in bad : \A y \in bad : m <= y
    <2>1. bad \in SUBSET Nat
      OBVIOUS
    <2> HIDE DEF bad
    <2> QED
      BY <1>1, <2>1, Least
  <1>3. m \in a .. n /\ f1[m] # f2[m] /\ m # a
    OBVIOUS
  <1>4. m - 1 \in a .. n /\ ~(m <= m - 1) /\ m \in a + 1 .. n
    BY <1>3
  <1>5. f1[m - 1] = f2[m - 1]
    BY <1>2, <1>4
  <1>6. f1[m] = ApplyEntry(f1[m - 1], e1[m], m)
    BY <1>4 DEF Trace
  <1>7. f2[m] = ApplyEntry(f2[m - 1], e2[m], m)
    BY <1>4 DEF Trace
  <1>8. e1[m] = e2[m]
    BY <1>4
  <1> QED
    BY <1>3, <1>5, <1>6, <1>7, <1>8

(* Every batch on the way is one. *)
LEMMA TraceType ==
  ASSUME NEW entries, NEW base, IsBatch(base), NEW last \in Nat,
         \A i \in 1 .. last : IsCommand(entries[i]),
         NEW f, Trace(f, entries, base, 1, last)
  PROVE  \A i \in 0 .. last : IsBatch(f[i])
  <1> DEFINE bad == {m \in 0 .. last : ~IsBatch(f[m])}
  <1>1. SUFFICES ASSUME bad # {} PROVE FALSE
    OBVIOUS
  <1>2. PICK m \in bad : \A y \in bad : m <= y
    <2>1. bad \in SUBSET Nat
      OBVIOUS
    <2> HIDE DEF bad
    <2> QED
      BY <1>1, <2>1, Least
  <1>3. m \in 0 .. last /\ ~IsBatch(f[m])
    OBVIOUS
  <1>4. \A i \in 0 .. last :
           f[i] = IF i < 1 THEN base ELSE ApplyEntry(f[i - 1], entries[i], i)
    BY DEF Trace
  <1>5. m # 0
    BY <1>3, <1>4
  <1>6. m - 1 \in 0 .. last /\ ~(m <= m - 1) /\ m \in 1 .. last
    BY <1>3, <1>5
  <1>7. IsBatch(f[m - 1])
    BY <1>2, <1>6
  <1>8. f[m] = ApplyEntry(f[m - 1], entries[m], m)
    BY <1>4, <1>6
  <1> QED
    BY <1>3, <1>6, <1>7, <1>8, ApplyEntryType

(* The batch in which Update starts from a store. *)
BaseOf(store, counter) ==
    [events |-> store.events, savedID |-> store.lastID, lastID |-> counter]

(* Update's batch is the end of the trace from there. *)
LEMMA ApplyIsTrace ==
  ASSUME NEW entries, NEW store, NEW counter, NEW first \in Nat \ {0}, NEW last \in Nat,
         first - 1 <= last
  PROVE  \E f : /\ Trace(f, entries, BaseOf(store, counter), first, last)
                /\ f[first - 1] = BaseOf(store, counter)
                /\ ApplyEntries(entries, store, counter, first, last) = f[last]
  <1> DEFINE upTo == CHOOSE f : Trace(f, entries, BaseOf(store, counter), first, last)
  <1>1. ApplyEntries(entries, store, counter, first, last) = upTo[last]
    BY DEF ApplyEntries, Trace, BaseOf
  <1>2. Trace(upTo, entries, BaseOf(store, counter), first, last)
    BY TraceExists
  <1> HIDE DEF upTo
  <1>3. upTo[first - 1] = BaseOf(store, counter)
    BY <1>2 DEF Trace
  <1> QED
    BY <1>1, <1>2, <1>3
-----------------------------------------------------------------------------
(* Replay, of the entries of any log. *)
ReplayOf(entries, n) == CommitNoSync(ApplyEntries(entries, EmptyDB, 0, 1, n), n)

EmptyBatch == BaseOf(EmptyDB, 0)

(* Replay starts from a batch. *)
LEMMA EmptyIsBatch == IsBatch(EmptyBatch)
  <1>1. EmptyBatch = [events |-> <<>>, savedID |-> 0, lastID |-> 0]
    BY DEF EmptyBatch, BaseOf, EmptyDB
  <1>2. EmptyBatch.events = <<>> /\ EmptyBatch.lastID = 0
    BY <1>1
  <1>3. DOMAIN <<>> = {}
    OBVIOUS
  <1>4. EmptyBatch = [events |-> EmptyBatch.events, savedID |-> EmptyBatch.lastID,
                      lastID |-> EmptyBatch.lastID]
    BY <1>1, <1>2, Zenon
  <1>5. EmptyBatch.lastID \in Nat
    BY <1>2
  <1>6. \A k \in DOMAIN EmptyBatch.events : k[3] \in Nat /\ k[3] <= EmptyBatch.lastID
    BY <1>2, <1>3
  <1> QED
    BY <1>4, <1>5, <1>6 DEF IsBatch

(* Replay is the end of a trace from the empty batch. *)
LEMMA ReplayIsTrace ==
  ASSUME NEW entries, NEW n \in Nat
  PROVE  \E f : /\ Trace(f, entries, EmptyBatch, 1, n)
                /\ f[0] = EmptyBatch
                /\ ReplayOf(entries, n) = CommitNoSync(f[n], n)
  <1>1. 1 \in Nat \ {0} /\ 1 - 1 <= n /\ 1 - 1 = 0
    OBVIOUS
  <1>2. PICK f : /\ Trace(f, entries, BaseOf(EmptyDB, 0), 1, n)
                 /\ f[1 - 1] = BaseOf(EmptyDB, 0)
                 /\ ApplyEntries(entries, EmptyDB, 0, 1, n) = f[n]
    BY <1>1, ApplyIsTrace
  <1> QED
    BY <1>1, <1>2, Zenon DEF ReplayOf, EmptyBatch

(* Traces over equal entries from the empty batch agree. *)
LEMMA TracesFromEmpty ==
  ASSUME NEW e1, NEW last1 \in Nat, NEW e2, NEW last2 \in Nat,
         NEW f1, Trace(f1, e1, EmptyBatch, 1, last1), f1[0] = EmptyBatch,
         NEW f2, Trace(f2, e2, EmptyBatch, 1, last2), f2[0] = EmptyBatch,
         NEW n \in Nat, n <= last1, n <= last2,
         \A i \in 1 .. n : e1[i] = e2[i]
  PROVE  f1[n] = f2[n]
  <1>1. PICK a \in Nat : a = 0
    OBVIOUS
  <1>2. PICK first \in Nat \ {0} : first = 1
    OBVIOUS
  <1>3. Trace(f1, e1, EmptyBatch, first, last1) /\ Trace(f2, e2, EmptyBatch, first, last2)
    BY <1>2
  <1>4. f1[a] = f2[a] /\ \A i \in a + 1 .. n : e1[i] = e2[i]
    BY <1>1
  <1>5. first - 1 <= a /\ a <= n
    BY <1>1, <1>2
  <1> QED
    BY <1>3, <1>4, <1>5, TracesAgree

(* No entry, no content. *)
LEMMA ReplayZero ==
  ASSUME NEW entries
  PROVE  ReplayOf(entries, 0) = EmptyDB
  <1>1. PICK f : f[0] = EmptyBatch /\ ReplayOf(entries, 0) = CommitNoSync(f[0], 0)
    BY ReplayIsTrace
  <1> QED
    BY <1>1 DEF CommitNoSync, EmptyBatch, BaseOf, EmptyDB

(* What is replayed depends on the entries replayed and no others. *)
LEMMA ReplayStable ==
  ASSUME NEW e1, NEW e2, NEW n \in Nat, \A i \in 1 .. n : e1[i] = e2[i]
  PROVE  ReplayOf(e1, n) = ReplayOf(e2, n)
  <1>1. PICK f : /\ Trace(f, e1, EmptyBatch, 1, n)
                 /\ f[0] = EmptyBatch
                 /\ ReplayOf(e1, n) = CommitNoSync(f[n], n)
    BY ReplayIsTrace
  <1>2. PICK g : /\ Trace(g, e2, EmptyBatch, 1, n)
                 /\ g[0] = EmptyBatch
                 /\ ReplayOf(e2, n) = CommitNoSync(g[n], n)
    BY ReplayIsTrace
  <1>6. f[n] = g[n]
    BY <1>1, <1>2, TracesFromEmpty
  <1> QED
    BY <1>1, <1>2, <1>6

(* No key of a replayed store has an ID above the replayed counter. *)
LEMMA ReplayType ==
  ASSUME NEW entries, NEW n \in Nat, \A i \in 1 .. n : IsCommand(entries[i])
  PROVE  /\ ReplayOf(entries, n).lastID \in Nat
         /\ ReplayOf(entries, n).applied = n
         /\ \A k \in DOMAIN ReplayOf(entries, n).events :
               k[3] <= ReplayOf(entries, n).lastID
  <1>1. PICK f : /\ Trace(f, entries, EmptyBatch, 1, n)
                 /\ ReplayOf(entries, n) = CommitNoSync(f[n], n)
    BY ReplayIsTrace
  <1>2. IsBatch(f[n])
    BY <1>1, TraceType, EmptyIsBatch
  <1>3. f[n].savedID = f[n].lastID
    BY <1>2 DEF IsBatch
  <1>4. /\ f[n].lastID \in Nat
        /\ \A k \in DOMAIN f[n].events : k[3] <= f[n].lastID
    BY <1>2 DEF IsBatch
  <1>5. /\ ReplayOf(entries, n).lastID = f[n].lastID
        /\ ReplayOf(entries, n).events = f[n].events
        /\ ReplayOf(entries, n).applied = n
    BY <1>1, <1>3 DEF CommitNoSync
  <1> QED
    BY <1>4, <1>5

(* Update goes on from a replayed store as the replay itself would. *)
LEMMA ReplayExtends ==
  ASSUME NEW entries, NEW a \in Nat, NEW last \in Nat, a <= last,
         \A i \in 1 .. last : IsCommand(entries[i]),
         NEW store, store = ReplayOf(entries, a), NEW batch,
         batch = ApplyEntries(entries, store, store.lastID, a + 1, last)
  PROVE  /\ CommitNoSync(batch, last) = ReplayOf(entries, last)
         /\ batch.lastID = ReplayOf(entries, last).lastID
  <1>1. PICK f : /\ Trace(f, entries, EmptyBatch, 1, a)
                 /\ f[0] = EmptyBatch
                 /\ ReplayOf(entries, a) = CommitNoSync(f[a], a)
    BY ReplayIsTrace
  <1>2. PICK g : /\ Trace(g, entries, EmptyBatch, 1, last)
                 /\ g[0] = EmptyBatch
                 /\ ReplayOf(entries, last) = CommitNoSync(g[last], last)
    BY ReplayIsTrace
  <1>3. f[a] = g[a]
    BY <1>1, <1>2, TracesFromEmpty
  <1>4. IsBatch(g[a]) /\ IsBatch(g[last])
    <2>1. a \in 0 .. last /\ last \in 0 .. last
      OBVIOUS
    <2> QED
      BY <1>2, <2>1, TraceType, EmptyIsBatch
  <1>5. a + 1 \in Nat \ {0} /\ (a + 1) - 1 <= last /\ (a + 1) - 1 = a
    OBVIOUS
  <1>6. PICK h : /\ Trace(h, entries, BaseOf(store, store.lastID), a + 1, last)
                 /\ h[a] = BaseOf(store, store.lastID)
                 /\ batch = h[last]
    BY <1>5, ApplyIsTrace
  <1>7. h[a] = g[a]
    <2>1. store.events = g[a].events /\ store.lastID = g[a].savedID
      BY <1>1, <1>3 DEF CommitNoSync
    <2>2. g[a].savedID = g[a].lastID
      BY <1>4 DEF IsBatch
    <2>3. g[a] = [events |-> g[a].events, savedID |-> g[a].lastID, lastID |-> g[a].lastID]
      BY <1>4 DEF IsBatch
    <2> QED
      BY <1>6, <2>1, <2>2, <2>3, Zenon DEF BaseOf
  <1>8. h[last] = g[last]
    <2>1. 1 - 1 <= a /\ last <= last /\ 1 \in Nat \ {0}
      OBVIOUS
    <2>2. \A i \in a + 1 .. last : entries[i] = entries[i]
      OBVIOUS
    <2> QED
      BY <1>2, <1>5, <1>6, <1>7, <2>1, <2>2, TracesAgree
  <1>9. CommitNoSync(batch, last) = ReplayOf(entries, last)
    BY <1>2, <1>6, <1>8
  <1>10. batch.lastID = batch.savedID
    BY <1>4, <1>6, <1>8 DEF IsBatch
  <1>11. CommitNoSync(batch, last).lastID = batch.savedID
    BY DEF CommitNoSync
  <1> QED
    BY <1>9, <1>10, <1>11
-----------------------------------------------------------------------------
(* The inductive invariant. *)
IsLog(entries) ==
    /\ entries \in Seq(Range(entries))
    /\ \A i \in 1 .. Len(entries) : IsCommand(entries[i])

(* A store, or a snapshot, is never ahead of a log of n entries, and a     *)
(* snapshot holds at least the entries that its index stands for.          *)
IsStore(s, n) == s.applied \in 0 .. n

IsSnapshot(s, n) ==
    /\ s.index \in 0 .. n
    /\ IsStore(s.content, n)
    /\ s.index <= s.content.applied

TypeOK ==
    /\ IsLog(log)
    /\ DOMAIN db = Replicas /\ DOMAIN disk = Replicas
    /\ DOMAIN lastID = Replicas /\ DOMAIN raftApplied = Replicas
    /\ DOMAIN saving = Replicas /\ DOMAIN recovering = Replicas
    /\ \A r \in Replicas :
          /\ IsStore(db[r], Len(log)) /\ IsStore(disk[r], Len(log))
          /\ raftApplied[r] \in 0 .. Len(log)
          /\ IsSnapshot(recovering[r], Len(log))
    /\ \A s \in snapshots : IsSnapshot(s, Len(log))

(* A snapshot is taken of a replica that is not itself installing one, and *)
(* what Dragonboat takes to be applied is in the store.                    *)
Stamped ==
    \A r \in Replicas :
        /\ saving[r] # NotSaving => recovering[r] = NoSnapshot /\ saving[r] \in 0 .. raftApplied[r]
        /\ recovering[r] = NoSnapshot => raftApplied[r] <= db[r].applied

(* The store in memory and the one on disk, the counter and Dragonboat's   *)
(* index all stand at the end of a replayed prefix.                        *)
Replayed(r) ==
    /\ db[r] = ReplayOf(log, db[r].applied)
    /\ disk[r] = ReplayOf(log, disk[r].applied)
    /\ recovering[r] = NoSnapshot => /\ lastID[r] = db[r].lastID
                                     /\ raftApplied[r] = db[r].applied

PrefixOK == \A r \in Replicas \ installed : Replayed(r)

Inv == TypeOK /\ Stamped /\ PrefixOK

(* Empty replicas satisfy the invariant. *)
LEMMA InitInv == Init => Inv
  <1> SUFFICES ASSUME Init PROVE Inv
    OBVIOUS
  <1>1. Len(log) = 0 /\ IsLog(log)
    BY DEF Init, IsLog, Range
  <1>2. IsStore(EmptyDB, 0) /\ IsSnapshot(NoSnapshot, 0)
    BY DEF IsStore, IsSnapshot, NoSnapshot, EmptyDB
  <1>3. TypeOK
    BY <1>1, <1>2 DEF Init, TypeOK
  <1>4. EmptyDB.applied = 0 /\ EmptyDB.lastID = 0
    BY DEF EmptyDB
  <1>5. Stamped
    BY <1>4 DEF Init, Stamped
  <1>6. ReplayOf(log, 0) = EmptyDB
    BY ReplayZero
  <1>7. PrefixOK
    BY <1>4, <1>6 DEF Init, PrefixOK, Replayed
  <1> QED
    BY <1>3, <1>5, <1>7 DEF Inv

(* A proposal leaves the entries before it alone. *)
LEMMA LogGrows ==
  ASSUME NEW entries, IsLog(entries), NEW cmd, IsCommand(cmd),
         NEW longer, longer = Append(entries, cmd)
  PROVE  /\ IsLog(longer)
         /\ Len(entries) \in Nat
         /\ Len(longer) = Len(entries) + 1
         /\ \A i \in 1 .. Len(entries) : longer[i] = entries[i]
  <1> DEFINE S == Range(entries) \cup {cmd}
  <1>1. entries \in Seq(S) /\ cmd \in S
    BY DEF IsLog
  <1> HIDE DEF S
  <1>2. /\ longer \in Seq(S)
        /\ Len(entries) \in Nat
        /\ Len(longer) = Len(entries) + 1
        /\ \A i \in 1 .. Len(entries) : longer[i] = entries[i]
        /\ longer[Len(entries) + 1] = cmd
    BY <1>1
  <1>3. \A i \in 1 .. Len(longer) : longer[i] \in Range(longer)
    BY <1>2 DEF Range
  <1>4. longer \in Seq(Range(longer))
    BY <1>2, <1>3
  <1>5. \A i \in 1 .. Len(longer) : IsCommand(longer[i])
    BY <1>2 DEF IsLog
  <1> QED
    BY <1>2, <1>4, <1>5 DEF IsLog

(* A longer log leaves stores and snapshots behind its end. *)
LEMMA StoreGrows ==
  ASSUME NEW n \in Nat, NEW m \in Nat, n <= m
  PROVE  /\ \A s : IsStore(s, n) => IsStore(s, m)
         /\ \A s : IsSnapshot(s, n) => IsSnapshot(s, m)
  BY DEF IsStore, IsSnapshot

(* What an entry of the log is. *)
LEMMA StoreCmdType ==
  ASSUME NEW cmd \in StoreBatchCmd
  PROVE  IsCommand(cmd)
  BY DEF StoreBatchCmd, IsCommand

(* A delete command has no items. *)
LEMMA DeleteCmdType ==
  ASSUME NEW keys
  PROVE  IsCommand(DeleteBatchCmd(keys))
  BY DEF DeleteBatchCmd, IsCommand

(* A step appends one command to the log, or leaves the log alone and is   *)
(* one of the other actions.                                               *)
Proposal ==
    /\ \E cmd : IsCommand(cmd) /\ log' = Append(log, cmd)
    /\ UNCHANGED <<db, disk, lastID, raftApplied, saving, snapshots, recovering, installed>>

(* The two kinds of proposal, and the steps of a replica. *)
LEMMA NextCases ==
  ASSUME Next
  PROVE  \/ Proposal
         \/ \E r \in Replicas, last \in 1 .. MaxLog : Update(r, last)
         \/ \E r \in Replicas : Sync(r)
         \/ \E r \in Replicas : PrepareSnapshot(r)
         \/ \E r \in Replicas : SaveSnapshot(r)
         \/ \E r \in Replicas : \E s \in snapshots : ClearDB(r, s)
         \/ \E r \in Replicas : RecoverFromSnapshot(r)
         \/ \E r \in Replicas : Restart(r)
  <1>1. ASSUME NEW cmd \in StoreBatchCmd, ProposeStore(cmd) PROVE Proposal
    BY <1>1, StoreCmdType DEF ProposeStore, Proposal
  <1>2. ASSUME NEW r \in Replicas, NEW key, ProposeDelete(r, key) PROVE Proposal
    BY <1>2, DeleteCmdType DEF ProposeDelete, Proposal
  <1> QED
    BY <1>1, <1>2, Zenon DEF Next

(* No step takes a store or a snapshot past the end of the log. *)
LEMMA TypeStep ==
  ASSUME Inv, Next
  PROVE  TypeOK'
  <1> USE DEF Inv
  <1>0. Len(log) \in Nat
    BY DEF TypeOK, IsLog
  <1>1. CASE Proposal
    <2>1. PICK cmd : IsCommand(cmd) /\ log' = Append(log, cmd)
      BY <1>1 DEF Proposal
    <2>2. IsLog(log') /\ Len(log') \in Nat /\ Len(log) <= Len(log')
      <3>1. IsLog(log)
        BY DEF TypeOK
      <3>2. IsLog(log') /\ Len(log') = Len(log) + 1
        BY <2>1, <3>1, LogGrows, Zenon
      <3> QED
        BY <1>0, <3>2
    <2>3. UNCHANGED <<db, disk, lastID, raftApplied, saving, snapshots, recovering>>
      BY <1>1 DEF Proposal
    <2>4. \A s : /\ IsStore(s, Len(log)) => IsStore(s, Len(log)')
                 /\ IsSnapshot(s, Len(log)) => IsSnapshot(s, Len(log)')
      BY <1>0, <2>2, StoreGrows
    <2>5. \A x \in 0 .. Len(log) : x \in 0 .. Len(log)'
      BY <1>0, <2>2
    <2> QED
      BY <2>2, <2>3, <2>4, <2>5 DEF TypeOK
  <1>2. ASSUME NEW r \in Replicas, NEW last \in 1 .. MaxLog, Update(r, last) PROVE TypeOK'
    <2>1. PICK batch : db' = [db EXCEPT ![r] = CommitNoSync(batch, last)]
      BY <1>2 DEF Update
    <2>2. last \in 0 .. Len(log)
      BY <1>0, <1>2 DEF Update, TypeOK
    <2>3. IsStore(CommitNoSync(batch, last), Len(log))
      BY <2>2 DEF IsStore, CommitNoSync
    <2>4. /\ UNCHANGED <<log, disk, saving, snapshots, recovering>>
          /\ raftApplied' = [raftApplied EXCEPT ![r] = last]
          /\ DOMAIN lastID' = DOMAIN lastID
      BY <1>2 DEF Update
    <2> QED
      BY <2>1, <2>2, <2>3, <2>4 DEF TypeOK
  <1>3. ASSUME NEW r \in Replicas, Sync(r) PROVE TypeOK'
    BY <1>3 DEF Sync, TypeOK
  <1>4. ASSUME NEW r \in Replicas, PrepareSnapshot(r) PROVE TypeOK'
    BY <1>4 DEF PrepareSnapshot, TypeOK
  <1>5. ASSUME NEW r \in Replicas, SaveSnapshot(r) PROVE TypeOK'
    <2> DEFINE s == [index |-> saving[r], content |-> db[r]]
    <2>1. saving[r] \in 0 .. raftApplied[r] /\ raftApplied[r] <= db[r].applied
      BY <1>5 DEF SaveSnapshot, Stamped
    <2>2. IsStore(db[r], Len(log)) /\ raftApplied[r] \in 0 .. Len(log)
      BY DEF TypeOK
    <2>3. IsSnapshot(s, Len(log))
      BY <1>0, <2>1, <2>2 DEF IsSnapshot, IsStore
    <2>4. /\ snapshots' = snapshots \cup {s}
          /\ UNCHANGED <<log, db, disk, lastID, raftApplied, recovering>>
          /\ DOMAIN saving' = DOMAIN saving
      BY <1>5 DEF SaveSnapshot
    <2> HIDE DEF s
    <2> QED
      BY <2>3, <2>4 DEF TypeOK
  <1>6. ASSUME NEW r \in Replicas, NEW s \in snapshots, ClearDB(r, s) PROVE TypeOK'
    <2>1. IsStore(EmptyDB, Len(log))
      BY <1>0 DEF IsStore, EmptyDB
    <2> QED
      BY <1>6, <2>1 DEF ClearDB, TypeOK
  <1>7. ASSUME NEW r \in Replicas, RecoverFromSnapshot(r) PROVE TypeOK'
    <2>1. IsSnapshot(NoSnapshot, Len(log))
      BY <1>0 DEF IsSnapshot, IsStore, NoSnapshot, EmptyDB
    <2>2. /\ IsStore(recovering[r].content, Len(log))
          /\ recovering[r].index \in 0 .. Len(log)
      BY DEF TypeOK, IsSnapshot
    <2> QED
      BY <1>7, <2>1, <2>2 DEF RecoverFromSnapshot, TypeOK
  <1>8. ASSUME NEW r \in Replicas, Restart(r) PROVE TypeOK'
    <2>1. IsSnapshot(NoSnapshot, Len(log))
      BY <1>0 DEF IsSnapshot, IsStore, NoSnapshot, EmptyDB
    <2>2. disk[r].applied \in 0 .. Len(log)
      BY DEF TypeOK, IsStore
    <2> QED
      BY <1>8, <2>1, <2>2 DEF Restart, TypeOK
  <1> QED
    BY <1>1, <1>2, <1>3, <1>4, <1>5, <1>6, <1>7, <1>8, NextCases

(* The index of a snapshot is taken before its content. *)
LEMMA StampedStep ==
  ASSUME Inv, Next
  PROVE  Stamped'
  <1> USE DEF Inv
  <1>0. /\ DOMAIN db = Replicas /\ DOMAIN raftApplied = Replicas
        /\ DOMAIN saving = Replicas /\ DOMAIN recovering = Replicas
        /\ \A q \in Replicas : raftApplied[q] \in Nat
    BY DEF TypeOK, IsLog
  <1>1. CASE Proposal
    BY <1>1 DEF Proposal, Stamped
  <1>2. ASSUME NEW r \in Replicas, NEW last \in 1 .. MaxLog, Update(r, last) PROVE Stamped'
    <2>1. PICK batch : db' = [db EXCEPT ![r] = CommitNoSync(batch, last)]
      BY <1>2 DEF Update
    <2>2. CommitNoSync(batch, last).applied = last
      BY DEF CommitNoSync
    <2>3. /\ UNCHANGED <<saving, recovering>>
          /\ raftApplied' = [raftApplied EXCEPT ![r] = last]
          /\ last \in Nat /\ raftApplied[r] <= last
      BY <1>0, <1>2 DEF Update
    <2> QED
      BY <1>0, <2>1, <2>2, <2>3 DEF Stamped
  <1>3. ASSUME NEW r \in Replicas, Sync(r) PROVE Stamped'
    BY <1>3 DEF Sync, Stamped
  <1>4. ASSUME NEW r \in Replicas, PrepareSnapshot(r) PROVE Stamped'
    BY <1>0, <1>4 DEF PrepareSnapshot, Stamped
  <1>5. ASSUME NEW r \in Replicas, SaveSnapshot(r) PROVE Stamped'
    BY <1>0, <1>5 DEF SaveSnapshot, Stamped
  <1>6. ASSUME NEW r \in Replicas, NEW s \in snapshots, ClearDB(r, s) PROVE Stamped'
    <2>1. s.index > 0
      BY <1>0, <1>6 DEF ClearDB, TypeOK, IsSnapshot
    <2>2. s # NoSnapshot
      BY <2>1 DEF NoSnapshot
    <2> QED
      BY <1>0, <1>6, <2>2 DEF ClearDB, Stamped
  <1>7. ASSUME NEW r \in Replicas, RecoverFromSnapshot(r) PROVE Stamped'
    <2>1. recovering[r].index <= recovering[r].content.applied
      BY DEF TypeOK, IsSnapshot
    <2> QED
      BY <1>0, <1>7, <2>1 DEF RecoverFromSnapshot, Stamped
  <1>8. ASSUME NEW r \in Replicas, Restart(r) PROVE Stamped'
    <2>1. disk[r].applied \in Nat
      BY DEF TypeOK, IsStore
    <2> QED
      BY <1>0, <1>8, <2>1 DEF Restart, Stamped
  <1> QED
    BY <1>1, <1>2, <1>3, <1>4, <1>5, <1>6, <1>7, <1>8, NextCases

(* A replica without a snapshot stays on the replay of the log: Update     *)
(* goes on where the store ends, a restart goes back to where the flushed  *)
(* store ended.                                                            *)
LEMMA PrefixStep ==
  ASSUME Inv, Next
  PROVE  PrefixOK'
  <1> USE DEF Inv
  <1>0. /\ DOMAIN db = Replicas /\ DOMAIN disk = Replicas /\ DOMAIN lastID = Replicas
        /\ DOMAIN raftApplied = Replicas /\ DOMAIN recovering = Replicas
        /\ Len(log) \in Nat
        /\ \A q \in Replicas : /\ db[q].applied \in 0 .. Len(log)
                               /\ disk[q].applied \in 0 .. Len(log)
    BY DEF TypeOK, IsStore, IsLog
  <1>a. ReplayOf(log, 0) = EmptyDB /\ EmptyDB.applied = 0
    BY ReplayZero DEF EmptyDB
  <1>1. CASE Proposal
    <2>1. PICK cmd : IsCommand(cmd) /\ log' = Append(log, cmd)
      BY <1>1 DEF Proposal
    <2>2. \A i \in 1 .. Len(log) : log'[i] = log[i]
      <3>1. IsLog(log)
        BY DEF TypeOK
      <3> QED
        BY <2>1, <3>1, LogGrows, Zenon
    <2>3. ASSUME NEW n \in 0 .. Len(log) PROVE ReplayOf(log', n) = ReplayOf(log, n)
      <3>1. n \in Nat /\ \A i \in 1 .. n : log'[i] = log[i]
        BY <1>0, <2>2
      <3> QED
        BY <3>1, ReplayStable
    <2>4. UNCHANGED <<db, disk, lastID, raftApplied, recovering, installed>>
      BY <1>1 DEF Proposal
    <2> QED
      BY <1>0, <2>3, <2>4 DEF PrefixOK, Replayed
  <1>2. ASSUME NEW r \in Replicas, NEW last \in 1 .. MaxLog, Update(r, last) PROVE PrefixOK'
    <2> DEFINE batch == ApplyEntries(log, db[r], lastID[r], raftApplied[r] + 1, last)
    <2>1. /\ UNCHANGED <<log, disk, recovering, installed>>
          /\ db' = [db EXCEPT ![r] = CommitNoSync(batch, last)]
          /\ lastID' = [lastID EXCEPT ![r] = batch.lastID]
          /\ raftApplied' = [raftApplied EXCEPT ![r] = last]
          /\ recovering[r] = NoSnapshot
          /\ last \in raftApplied[r] + 1 .. Len(log)
      BY <1>2 DEF Update
    <2>2. ASSUME r \notin installed
          PROVE  /\ CommitNoSync(batch, last) = ReplayOf(log, last)
                 /\ batch.lastID = ReplayOf(log, last).lastID
      <3>1. /\ db[r] = ReplayOf(log, db[r].applied)
            /\ lastID[r] = db[r].lastID /\ raftApplied[r] = db[r].applied
        BY <2>1, <2>2 DEF PrefixOK, Replayed
      <3>2. /\ raftApplied[r] \in Nat /\ last \in Nat /\ raftApplied[r] <= last
            /\ \A i \in 1 .. last : IsCommand(log[i])
        BY <1>0, <2>1, <3>1 DEF TypeOK, IsLog
      <3>3. /\ db[r] = ReplayOf(log, raftApplied[r])
            /\ batch = ApplyEntries(log, db[r], db[r].lastID, raftApplied[r] + 1, last)
        BY <3>1
      <3> HIDE DEF batch, Inv
      <3> QED
        BY <3>2, <3>3, ReplayExtends
    <2>3. CommitNoSync(batch, last).applied = last
      BY DEF CommitNoSync
    <2> HIDE DEF batch
    <2>4. r \notin installed => Replayed(r)'
      BY <1>0, <2>1, <2>2, <2>3 DEF PrefixOK, Replayed
    <2>5. \A q \in Replicas \ installed : q # r => Replayed(q)'
      BY <1>0, <2>1 DEF PrefixOK, Replayed
    <2> QED
      BY <2>1, <2>4, <2>5 DEF PrefixOK
  <1>3. ASSUME NEW r \in Replicas, Sync(r) PROVE PrefixOK'
    BY <1>0, <1>3 DEF Sync, PrefixOK, Replayed
  <1>4. ASSUME NEW r \in Replicas, PrepareSnapshot(r) PROVE PrefixOK'
    BY <1>4 DEF PrepareSnapshot, PrefixOK, Replayed
  <1>5. ASSUME NEW r \in Replicas, SaveSnapshot(r) PROVE PrefixOK'
    BY <1>5 DEF SaveSnapshot, PrefixOK, Replayed
  <1>6. ASSUME NEW r \in Replicas, NEW s \in snapshots, ClearDB(r, s) PROVE PrefixOK'
    <2>1. s.index > 0
      BY <1>0, <1>6 DEF ClearDB, TypeOK, IsSnapshot
    <2>2. s # NoSnapshot
      BY <2>1 DEF NoSnapshot
    <2> QED
      BY <1>0, <1>a, <1>6, <2>2 DEF ClearDB, PrefixOK, Replayed
  <1>7. ASSUME NEW r \in Replicas, RecoverFromSnapshot(r) PROVE PrefixOK'
    BY <1>0, <1>7 DEF RecoverFromSnapshot, PrefixOK, Replayed
  <1>8. ASSUME NEW r \in Replicas, Restart(r) PROVE PrefixOK'
    BY <1>0, <1>8 DEF Restart, PrefixOK, Replayed
  <1> QED
    BY <1>1, <1>2, <1>3, <1>4, <1>5, <1>6, <1>7, <1>8, NextCases

(* The invariant speaks of the variables only. *)
LEMMA Stutter ==
  ASSUME Inv, UNCHANGED vars
  PROVE  Inv'
  BY DEF Inv, TypeOK, Stamped, PrefixOK, Replayed, vars

(* Everything below follows from this: the invariant of the shard. *)
THEOREM InvCorrect == Spec => []Inv
  <1>1. Inv /\ [Next]_vars => Inv'
    BY TypeStep, StampedStep, PrefixStep, Stutter DEF Inv
  <1> QED
    BY InitInv, <1>1, PTL DEF Spec

(* A replica's store is the replay of the prefix of the log it has         *)
(* applied, however Update grouped the entries, wherever a crash cut off   *)
(* what was not flushed, for every replica that never installed a snapshot.*)
THEOREM LogDeterminesStore == Spec => []StoreIsLogPrefix
  <1>1. Inv => StoreIsLogPrefix
    BY DEF Inv, PrefixOK, Replayed, StoreIsLogPrefix, Replay, ReplayOf
  <1> QED
    BY <1>1, InvCorrect, PTL

(* What Dragonboat takes to be applied is in the store, also on a replica  *)
(* that installed a snapshot taken beside updates.                         *)
THEOREM NoSkip == Spec => []NoEntrySkipped
  <1>1. Inv => NoEntrySkipped
    BY DEF Inv, Stamped, NoEntrySkipped
  <1> QED
    BY <1>1, InvCorrect, PTL

(* Replicas that have applied equally much of the log hold the same events *)
(* and the same counter: they give the next message the same key.          *)
SameIndexSameStore ==
    \A r, q \in Replicas \ installed :
        db[r].applied = db[q].applied => db[r] = db[q]

(* Update, grouped in any way, and Restart keep replicas with one applied  *)
(* index equal: SameIndexSameStore.                                        *)
THEOREM ReplicasAgree == Spec => []SameIndexSameStore
  <1>1. Inv => SameIndexSameStore
    BY DEF Inv, PrefixOK, Replayed, SameIndexSameStore
  <1> QED
    BY <1>1, InvCorrect, PTL

(* Until a replica installs a snapshot, the ID that StoreRawWithBatch gives *)
(* next is above every ID in its store, through any crash.                 *)
LogIDsMonotonic ==
    \A r \in Replicas \ installed : recovering[r] = NoSnapshot =>
        \A k \in DOMAIN db[r].events : k[3] <= lastID[r]

(* Update and Restart keep the counter above the store: LogIDsMonotonic.   *)
THEOREM LogKeepsIDsMonotonic == Spec => []LogIDsMonotonic
  <1>1. ASSUME Inv, NEW r \in Replicas \ installed, recovering[r] = NoSnapshot
        PROVE  \A k \in DOMAIN db[r].events : k[3] <= lastID[r]
    <2>1. db[r] = ReplayOf(log, db[r].applied) /\ lastID[r] = db[r].lastID
      BY <1>1 DEF Inv, PrefixOK, Replayed
    <2>2. /\ db[r].applied \in Nat
          /\ \A i \in 1 .. db[r].applied : IsCommand(log[i])
      BY <1>1 DEF Inv, TypeOK, IsStore, IsLog
    <2>3. \A k \in DOMAIN ReplayOf(log, db[r].applied).events :
             k[3] <= ReplayOf(log, db[r].applied).lastID
      BY <2>2, ReplayType
    <2> QED
      BY <2>1, <2>3, Zenon
  <1>2. Inv => LogIDsMonotonic
    BY <1>1 DEF LogIDsMonotonic
  <1> QED
    BY <1>2, InvCorrect, PTL

(* "Consistent monotonic IDs" holds of the shard for as long as no replica *)
(* has installed a snapshot: RecoverFromSnapshot, which does not tell the  *)
(* repository, is the only step that ends it.                              *)
THEOREM OnlySnapshotsBreakIDs == Spec => [](installed = {} => IDsMonotonic)
  <1>1. LogIDsMonotonic => (installed = {} => IDsMonotonic)
    BY DEF LogIDsMonotonic, IDsMonotonic
  <1> QED
    BY <1>1, LogKeepsIDsMonotonic, PTL
-----------------------------------------------------------------------------
(* Entry d deletes message <<i, j>>: it names the key the message has then. *)
DeletedAt(entries, d, i, j) ==
    /\ entries[d].type # "store"
    /\ \E k \in entries[d].keys \cap DOMAIN ReplayOf(entries, d - 1).events :
          ReplayOf(entries, d - 1).events[k] = <<i, j>>

(* A message of an applied entry is in the store until a delete command    *)
(* names its key: no other message is ever filed in its place.             *)
NoMessageLost ==
    \A r \in Replicas \ installed : \A i \in 1 .. db[r].applied :
        log[i].type = "store" => \A j \in 1 .. Len(log[i].items) :
            \/ \E k \in DOMAIN db[r].events : db[r].events[k] = <<i, j>>
            \/ \E d \in i + 1 .. db[r].applied : DeletedAt(log, d, i, j)

Holds(b, message) == \E k \in DOMAIN b.events : b.events[k] = message

Keeps(b, c) == \A k \in DOMAIN b.events : k \in DOMAIN c.events /\ c.events[k] = b.events[k]

(* The key of a new message is free: its ID is above every ID in use. *)
LEMMA StoreRawKeeps ==
  ASSUME NEW b, IsBatch(b), NEW slot, NEW message
  PROVE  /\ Keeps(b, StoreRawWithBatch(b, slot, message))
         /\ Holds(StoreRawWithBatch(b, slot, message), message)
  <1> DEFINE key == EventKey(slot[2], slot[1], b.lastID + 1)
             c   == StoreRawWithBatch(b, slot, message)
             e   == [k \in DOMAIN b.events \cup {key} |->
                        IF k = key THEN message ELSE b.events[k]]
  <1>1. key \notin DOMAIN b.events
    BY DEF IsBatch, EventKey
  <1>2. "events" \in DOMAIN b /\ c.events = e
    BY DEF IsBatch, StoreRawWithBatch
  <1> HIDE DEF key, c
  <1>3. \A k \in DOMAIN b.events : k \in DOMAIN e /\ e[k] = b.events[k]
    BY <1>1
  <1>4. key \in DOMAIN e /\ e[key] = message
    OBVIOUS
  <1> HIDE DEF e
  <1>5. Keeps(b, c) /\ Holds(c, message)
    BY <1>2, <1>3, <1>4 DEF Keeps, Holds
  <1> QED
    BY <1>5 DEF c

(* What is kept twice is kept. *)
LEMMA KeepsTrans ==
  ASSUME NEW a, NEW b, NEW c, Keeps(a, b), Keeps(b, c)
  PROVE  Keeps(a, c) /\ \A message : Holds(b, message) => Holds(c, message)
  BY DEF Keeps, Holds

(* A store command files all of its items and overwrites nothing, since    *)
(* every ID is above the counter.                                          *)
LEMMA ItemsKeep ==
  ASSUME NEW batch, IsBatch(batch), NEW its, NEW index, NEW n \in Nat,
         NEW g, Items(g, batch, its, index, n)
  PROVE  Keeps(batch, g[n]) /\ \A j \in 1 .. n : Holds(g[n], <<index, j>>)
  <1> DEFINE Good(m) == Keeps(batch, g[m]) /\ \A j \in 1 .. m : Holds(g[m], <<index, j>>)
             bad == {m \in 0 .. n : ~Good(m)}
  <1>1. SUFFICES ASSUME bad # {} PROVE FALSE
    OBVIOUS
  <1>2. PICK m \in bad : \A y \in bad : m <= y
    <2>1. bad \in SUBSET Nat
      OBVIOUS
    <2> HIDE DEF bad
    <2> QED
      BY <1>1, <2>1, Least
  <1>3. m \in 0 .. n /\ ~Good(m)
    OBVIOUS
  <1>4. \A i \in 0 .. n :
           g[i] = IF i = 0 THEN batch ELSE StoreRawWithBatch(g[i - 1], its[i], <<index, i>>)
    BY DEF Items
  <1>5. Good(0)
    <2>0. 0 \in 0 .. n
      OBVIOUS
    <2>1. g[0] = batch
      BY <1>4, <2>0, Zenon
    <2>2. Keeps(batch, batch)
      BY DEF Keeps
    <2> QED
      BY <2>1, <2>2
  <1>6. m # 0
    BY <1>3, <1>5
  <1>7. m - 1 \in 0 .. n /\ ~(m <= m - 1)
    BY <1>3, <1>6
  <1>8. Good(m - 1)
    <2> HIDE DEF Good
    <2> QED
      BY <1>2, <1>7
  <1>9. IsBatch(g[m - 1])
    BY <1>7, ItemsType
  <1>10. g[m] = StoreRawWithBatch(g[m - 1], its[m], <<index, m>>)
    BY <1>3, <1>4, <1>6
  <1>11. Keeps(g[m - 1], g[m]) /\ Holds(g[m], <<index, m>>)
    BY <1>9, <1>10, StoreRawKeeps
  <1>12. Keeps(batch, g[m])
    BY <1>8, <1>11, KeepsTrans
  <1>13. \A j \in 1 .. m - 1 : Holds(g[m], <<index, j>>)
    BY <1>8, <1>11, KeepsTrans
  <1>14. \A j \in 1 .. m : j = m \/ j \in 1 .. m - 1
    BY <1>3
  <1>15. \A j \in 1 .. m : Holds(g[m], <<index, j>>)
    BY <1>11, <1>13, <1>14
  <1> QED
    BY <1>3, <1>12, <1>15

(* A store command files each of its messages beside what is there. *)
LEMMA StoreEntryKeeps ==
  ASSUME NEW batch, IsBatch(batch), NEW cmd, IsCommand(cmd), cmd.type = "store", NEW index
  PROVE  /\ Keeps(batch, ApplyEntry(batch, cmd, index))
         /\ \A j \in 1 .. Len(cmd.items) : Holds(ApplyEntry(batch, cmd, index), <<index, j>>)
  <1> DEFINE its == cmd.items
             n   == Len(its)
             items == CHOOSE g : Items(g, batch, its, index, n)
  <1>1. n \in Nat
    BY DEF IsCommand
  <1>2. ApplyEntry(batch, cmd, index) = items[n]
    BY DEF ApplyEntry, Items
  <1> HIDE DEF its, n
  <1>3. Items(items, batch, its, index, n)
    BY <1>1, ItemsExist
  <1> HIDE DEF items
  <1>4. Keeps(batch, items[n]) /\ \A j \in 1 .. n : Holds(items[n], <<index, j>>)
    BY <1>1, <1>3, ItemsKeep
  <1> QED
    BY <1>2, <1>4 DEF n, its

(* A delete command removes the keys it names and nothing else. *)
LEMMA DeleteEntryKeeps ==
  ASSUME NEW batch, IsBatch(batch), NEW cmd, cmd.type # "store", NEW index,
         NEW k \in DOMAIN batch.events, k \notin cmd.keys
  PROVE  Holds(ApplyEntry(batch, cmd, index), batch.events[k])
  <1>1. ApplyEntry(batch, cmd, index) = DeleteKeys(batch, cmd.keys)
    BY DEF ApplyEntry
  <1>2. DeleteKeys(batch, cmd.keys).events = Restrict(batch.events, DOMAIN batch.events \ cmd.keys)
    BY DEF DeleteKeys, IsBatch
  <1>3. /\ k \in DOMAIN Restrict(batch.events, DOMAIN batch.events \ cmd.keys)
        /\ Restrict(batch.events, DOMAIN batch.events \ cmd.keys)[k] = batch.events[k]
    BY DEF Restrict
  <1> QED
    BY <1>1, <1>2, <1>3 DEF Holds

(* In the replay of a log a message stays until an entry deletes it. *)
LEMMA MessageStays ==
  ASSUME NEW entries, NEW n \in Nat, \A x \in 1 .. n : IsCommand(entries[x]),
         NEW i \in 1 .. n, entries[i].type = "store", NEW j \in 1 .. Len(entries[i].items)
  PROVE  \/ \E k \in DOMAIN ReplayOf(entries, n).events : ReplayOf(entries, n).events[k] = <<i, j>>
         \/ \E d \in i + 1 .. n : DeletedAt(entries, d, i, j)
  <1>1. PICK f : /\ Trace(f, entries, EmptyBatch, 1, n)
                 /\ f[0] = EmptyBatch
                 /\ ReplayOf(entries, n) = CommitNoSync(f[n], n)
    BY ReplayIsTrace
  <1>2. \A x \in 0 .. n : IsBatch(f[x])
    BY <1>1, TraceType, EmptyIsBatch
  <1>3. ASSUME NEW x \in 0 .. n PROVE ReplayOf(entries, x).events = f[x].events
    <2>0. x \in Nat
      OBVIOUS
    <2>1. PICK g : /\ Trace(g, entries, EmptyBatch, 1, x)
                   /\ g[0] = EmptyBatch
                   /\ ReplayOf(entries, x) = CommitNoSync(g[x], x)
      BY <2>0, ReplayIsTrace
    <2>2. g[x] = f[x]
      BY <1>1, <2>0, <2>1, TracesFromEmpty
    <2> QED
      BY <2>1, <2>2 DEF CommitNoSync
  <1>4. \A x \in 1 .. n : f[x] = ApplyEntry(f[x - 1], entries[x], x)
    BY <1>1 DEF Trace
  <1> DEFINE Gone(m) == \E d \in i + 1 .. m : DeletedAt(entries, d, i, j)
             bad == {m \in i .. n : ~(Holds(f[m], <<i, j>>) \/ Gone(m))}
  <1>5. bad = {}
    <2>1. SUFFICES ASSUME bad # {} PROVE FALSE
      OBVIOUS
    <2>2. PICK m \in bad : \A y \in bad : m <= y
      <3>1. bad \in SUBSET Nat
        OBVIOUS
      <3> HIDE DEF bad
      <3> QED
        BY <2>1, <3>1, Least
    <2>3. m \in i .. n /\ ~Holds(f[m], <<i, j>>) /\ ~Gone(m)
      OBVIOUS
    <2>4. IsBatch(f[m - 1]) /\ f[m] = ApplyEntry(f[m - 1], entries[m], m) /\ IsCommand(entries[m])
      BY <1>2, <1>4, <2>3
    <2>5. m # i
      BY <2>3, <2>4, StoreEntryKeeps
    <2>6. m - 1 \in i .. n /\ ~(m <= m - 1) /\ m \in i + 1 .. m
      BY <2>3, <2>5
    <2>7. Holds(f[m - 1], <<i, j>>) \/ Gone(m - 1)
      <3> HIDE DEF Gone
      <3> QED
        BY <2>2, <2>6
    <2>8. ~Gone(m - 1)
      BY <2>3, <2>6
    <2>9. PICK k \in DOMAIN f[m - 1].events : f[m - 1].events[k] = <<i, j>>
      BY <2>7, <2>8 DEF Holds
    <2>10. CASE entries[m].type = "store"
      <3>1. Keeps(f[m - 1], f[m])
        BY <2>4, <2>10, StoreEntryKeeps
      <3> QED
        BY <2>3, <2>9, <3>1 DEF Keeps, Holds
    <2>11. CASE entries[m].type # "store" /\ k \notin entries[m].keys
      <3>1. Holds(ApplyEntry(f[m - 1], entries[m], m), f[m - 1].events[k])
        BY <2>4, <2>11, DeleteEntryKeeps
      <3> QED
        BY <2>3, <2>4, <2>9, <3>1
    <2>12. CASE entries[m].type # "store" /\ k \in entries[m].keys
      <3>1. ReplayOf(entries, m - 1).events = f[m - 1].events
        BY <1>3, <2>6
      <3>2. DeletedAt(entries, m, i, j)
        BY <2>9, <2>12, <3>1, Zenon DEF DeletedAt
      <3> QED
        BY <2>3, <2>6, <3>2
    <2> QED
      BY <2>10, <2>11, <2>12
  <1>6. n \in i .. n /\ n \in 0 .. n
    OBVIOUS
  <1>7. Holds(f[n], <<i, j>>) \/ Gone(n)
    <2> HIDE DEF Gone
    <2> QED
      BY <1>5, <1>6
  <1>8. ReplayOf(entries, n).events = f[n].events
    BY <1>3, <1>6
  <1> QED
    BY <1>7, <1>8, Zenon DEF Holds

(* No message of the shard is overwritten: NoMessageLost, for every log.   *)
THEOREM LogKeepsMessages == Spec => []NoMessageLost
  <1>1. ASSUME Inv, NEW r \in Replicas \ installed, NEW i \in 1 .. db[r].applied,
               log[i].type = "store", NEW j \in 1 .. Len(log[i].items)
        PROVE  \/ \E k \in DOMAIN db[r].events : db[r].events[k] = <<i, j>>
               \/ \E d \in i + 1 .. db[r].applied : DeletedAt(log, d, i, j)
    <2> DEFINE n == db[r].applied
    <2>1. db[r] = ReplayOf(log, n)
      BY <1>1 DEF Inv, PrefixOK, Replayed
    <2>2. n \in Nat /\ \A x \in 1 .. n : IsCommand(log[x])
      BY <1>1 DEF Inv, TypeOK, IsStore, IsLog
    <2>3. i \in 1 .. n
      OBVIOUS
    <2> HIDE DEF n
    <2>4. \/ \E k \in DOMAIN ReplayOf(log, n).events : ReplayOf(log, n).events[k] = <<i, j>>
          \/ \E d \in i + 1 .. n : DeletedAt(log, d, i, j)
      BY <1>1, <2>2, <2>3, MessageStays
    <2>5. \/ \E k \in DOMAIN db[r].events : db[r].events[k] = <<i, j>>
          \/ \E d \in i + 1 .. n : DeletedAt(log, d, i, j)
      BY <2>1, <2>4, Zenon
    <2> QED
      BY <2>5 DEF n
  <1>2. Inv => NoMessageLost
    BY <1>1 DEF NoMessageLost
  <1> QED
    BY <1>2, InvCorrect, PTL
=============================================================================
