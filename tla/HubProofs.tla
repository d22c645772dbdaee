------------------------------ MODULE HubProofs ------------------------------
(***************************************************************************)
(* Theorems about Hub: the two indexes of the hub agree, round robin is    *)
(* fair and nothing a connected consumer owes an answer for is forgotten,  *)
(* for any number of consumers, topics, groups and dispatch calls.         *)
(***************************************************************************)
EXTENDS Hub, FiniteSetTheorems, SequenceTheorems, WellFoundedInduction, TLAPS

(* A non-empty set of naturals has a least element. *)
LEMMA Least ==
  ASSUME NEW T \in SUBSET Nat, T # {}
  PROVE  \E x \in T : \A y \in T : x <= y
  <1>1. PICK x \in T : \A y \in T : ~(<<y, x>> \in OpToRel(<, Nat))
    BY WFMin, NatLessThanWellFounded, Zenon
  <1>2. ASSUME NEW y \in Nat, NEW z \in Nat, y < z
        PROVE  <<y, z>> \in OpToRel(<, Nat)
    BY <1>2 DEF OpToRel
  <1>3. \A y \in T : ~(y < x)
    BY <1>1, <1>2, Zenon
  <1> QED
    BY <1>3

(* The sequence t is s with the element at i cut out. *)
IsCut(s, i, t) ==
    /\ Len(t) = Len(s) - 1
    /\ \A j \in 1 .. Len(t) : t[j] = IF j < i THEN s[j] ELSE s[j + 1]

(* Two pieces around a position make a cut. *)
LEMMA Glue ==
  ASSUME NEW S, NEW s \in Seq(S), NEW i \in 1 .. Len(s),
         NEW a \in Seq(S), Len(a) = i - 1, \A j \in 1 .. i - 1 : a[j] = s[j],
         NEW b \in Seq(S), Len(b) = Len(s) - i, \A j \in 1 .. Len(s) - i : b[j] = s[i + j]
  PROVE  a \o b \in Seq(S) /\ IsCut(s, i, a \o b)
  <1>1. /\ a \o b \in Seq(S)
        /\ Len(a \o b) = Len(a) + Len(b)
        /\ \A j \in 1 .. Len(a) + Len(b) :
              (a \o b)[j] = IF j <= Len(a) THEN a[j] ELSE b[j - Len(a)]
    BY ConcatProperties
  <1>2. Len(s) \in Nat /\ Len(a) + Len(b) = Len(s) - 1
    OBVIOUS
  <1>3. PICK t : t = a \o b
    OBVIOUS
  <1>4. /\ t \in Seq(S) /\ Len(t) = Len(s) - 1
        /\ \A j \in 1 .. Len(s) - 1 : t[j] = IF j <= i - 1 THEN a[j] ELSE b[j - (i - 1)]
    BY <1>1, <1>2, <1>3
  <1>5. ASSUME NEW j \in 1 .. Len(s) - 1 PROVE t[j] = IF j < i THEN s[j] ELSE s[j + 1]
    <2>1. CASE j < i
      BY <1>2, <1>4, <2>1
    <2>2. CASE ~(j < i)
      <3>1. j - (i - 1) \in 1 .. Len(s) - i /\ i + (j - (i - 1)) = j + 1
        BY <1>2, <2>2
      <3>2. t[j] = b[j - (i - 1)]
        BY <1>2, <1>4, <2>2
      <3>3. b[j - (i - 1)] = s[j + 1]
        BY <3>1
      <3> QED
        BY <2>2, <3>2, <3>3
    <2> QED
      BY <2>1, <2>2
  <1>6. t \in Seq(S) /\ IsCut(s, i, t)
    BY <1>4, <1>5 DEF IsCut
  <1> QED
    BY <1>3, <1>6

(* The two slices that remove appends to each other are a cut. *)
LEMMA CutIs ==
  ASSUME NEW S, NEW s \in Seq(S), NEW i \in 1 .. Len(s)
  PROVE  /\ SubSeq(s, 1, i - 1) \o SubSeq(s, i + 1, Len(s)) \in Seq(S)
         /\ IsCut(s, i, SubSeq(s, 1, i - 1) \o SubSeq(s, i + 1, Len(s)))
  <1> DEFINE a == SubSeq(s, 1, i - 1)
             b == SubSeq(s, i + 1, Len(s))
  <1>1. /\ a \in Seq(S) /\ Len(a) = i - 1
        /\ \A j \in 1 .. i - 1 : a[j] = s[j]
    <2>1. \A j \in 1 .. i - 1 : s[j] \in S
      OBVIOUS
    <2> QED
      BY <2>1, SubSeqProperties
  <1>2. /\ b \in Seq(S) /\ Len(b) = Len(s) - i
        /\ \A j \in 1 .. Len(s) - i : b[j] = s[i + j]
    <2>1. \A j \in i + 1 .. Len(s) : s[j] \in S
      OBVIOUS
    <2> QED
      BY <2>1, SubSeqProperties
  <1> HIDE DEF a, b
  <1>3. a \o b \in Seq(S) /\ IsCut(s, i, a \o b)
    BY <1>1, <1>2, Glue
  <1> QED
    BY <1>3 DEF a, b

(* So is the tail of a sequence. *)
LEMMA CutTail ==
  ASSUME NEW S, NEW s \in Seq(S), s # <<>>
  PROVE  Tail(s) \in Seq(S) /\ Head(s) = s[1] /\ IsCut(s, 1, Tail(s))
  BY DEF IsCut

(* Removing the first occurrence cuts out one occurrence. *)
LEMMA CutFirst ==
  ASSUME NEW S, NEW s \in Seq(S), NEW e, e \in Range(s)
  PROVE  \E i \in 1 .. Len(s) : s[i] = e /\ RemoveFirst(s, e) \in Seq(S)
                                /\ IsCut(s, i, RemoveFirst(s, e))
  <1>1. DOMAIN s = 1 .. Len(s) /\ Len(s) \in Nat
    OBVIOUS
  <1> DEFINE First(i) == s[i] = e /\ \A j \in 1 .. i - 1 : s[j] # e
             I == {i \in 1 .. Len(s) : s[i] = e}
             n == CHOOSE i \in DOMAIN s : First(i)
  <1>2. \E i \in DOMAIN s : First(i)
    <2>1. I # {} /\ I \in SUBSET Nat
      BY <1>1 DEF Range
    <2>2. \E x \in I : \A y \in I : x <= y
      <3> HIDE DEF I
      <3> QED
        BY <2>1, Least
    <2>3. PICK x \in I : \A y \in I : x <= y
      BY <2>2
    <2> QED
      BY <1>1, <2>3
  <1>3. n \in 1 .. Len(s) /\ s[n] = e
    BY <1>1, <1>2
  <1>4. RemoveFirst(s, e) = SubSeq(s, 1, n - 1) \o SubSeq(s, n + 1, Len(s))
    BY DEF RemoveFirst
  <1> HIDE DEF n
  <1>5. RemoveFirst(s, e) \in Seq(S) /\ IsCut(s, n, RemoveFirst(s, e))
    BY <1>3, <1>4, CutIs
  <1> QED
    BY <1>3, <1>5
-----------------------------------------------------------------------------
(* Counting the occurrences of a key. *)
Occurrences(k, s) == {i \in DOMAIN s : s[i] = k}

(* Occurrences are finitely many. *)
LEMMA CountType ==
  ASSUME NEW S, NEW s \in Seq(S), NEW k
  PROVE  IsFiniteSet(Occurrences(k, s)) /\ Count(k, s) = Cardinality(Occurrences(k, s))
         /\ Count(k, s) \in Nat
  <1>1. IsFiniteSet(1 .. Len(s))
    BY FS_Interval
  <1>2. Occurrences(k, s) \in SUBSET (1 .. Len(s))
    BY DEF Occurrences
  <1>3. IsFiniteSet(Occurrences(k, s))
    BY <1>1, <1>2, FS_Subset
  <1>4. Count(k, s) = Cardinality(Occurrences(k, s))
    BY DEF Count, Occurrences
  <1> QED
    BY <1>3, <1>4, FS_CardinalityType

(* Nothing occurs in an empty list. *)
LEMMA CountEmpty ==
  ASSUME NEW k
  PROVE  Count(k, <<>>) = 0
  <1>1. {i \in DOMAIN <<>> : <<>>[i] = k} = {}
    OBVIOUS
  <1> QED
    BY <1>1, FS_EmptySet DEF Count

(* An element appended is counted once more. *)
LEMMA CountAppend ==
  ASSUME NEW S, NEW s \in Seq(S), NEW e \in S, NEW k
  PROVE  Count(k, Append(s, e)) = Count(k, s) + (IF e = k THEN 1 ELSE 0)
  <1> DEFINE t == Append(s, e)
             n == Len(s) + 1
  <1>1. /\ t \in Seq(S) /\ DOMAIN t = 1 .. n /\ n \notin 1 .. Len(s) /\ n \in Nat
        /\ DOMAIN s = 1 .. Len(s) /\ t[n] = e
        /\ \A i \in 1 .. Len(s) : t[i] = s[i]
    OBVIOUS
  <1>2. \A i \in 1 .. n : i = n \/ i \in 1 .. Len(s)
    OBVIOUS
  <1>3. 1 .. Len(s) \subseteq 1 .. n /\ n \in 1 .. n
    OBVIOUS
  <1> HIDE DEF t, n
  <1>4. n \notin Occurrences(k, s)
    BY <1>1 DEF Occurrences
  <1>5. IsFiniteSet(Occurrences(k, s)) /\ Count(k, s) = Cardinality(Occurrences(k, s))
        /\ Count(k, s) \in Nat
    BY CountType
  <1>6. Count(k, t) = Cardinality(Occurrences(k, t))
    BY <1>1, CountType
  <1>7. CASE e = k
    <2>1. Occurrences(k, t) = Occurrences(k, s) \cup {n}
      BY <1>1, <1>2, <1>3, <1>7 DEF Occurrences
    <2>2. Cardinality(Occurrences(k, s) \cup {n}) = Cardinality(Occurrences(k, s)) + 1
      BY <1>4, <1>5, FS_AddElement
    <2> QED
      BY <1>5, <1>6, <1>7, <2>1, <2>2, SMTT(30) DEF t
  <1>8. CASE e # k
    <2>1. Occurrences(k, t) = Occurrences(k, s)
      BY <1>1, <1>2, <1>3, <1>8 DEF Occurrences
    <2> QED
      BY <1>5, <1>6, <1>8, <2>1 DEF t
  <1> QED
    BY <1>7, <1>8

(* Cutting out an element lowers the count of that key by one. *)
LEMMA CountCut ==
  ASSUME NEW S, NEW s \in Seq(S), NEW i \in 1 .. Len(s), NEW t \in Seq(S), IsCut(s, i, t), NEW k
  PROVE  Count(k, s) = Count(k, t) + (IF s[i] = k THEN 1 ELSE 0)
  <1> DEFINE T == Occurrences(k, t)
             R == Occurrences(k, s) \ {i}
             Up(j) == IF j < i THEN j ELSE j + 1
             up == [j \in T |-> Up(j)]
  <1>1. /\ Len(s) \in Nat /\ DOMAIN s = 1 .. Len(s) /\ DOMAIN t = 1 .. Len(s) - 1
        /\ \A j \in 1 .. Len(s) - 1 : t[j] = s[Up(j)]
    BY DEF IsCut
  <1>2. ASSUME NEW j \in T PROVE Up(j) \in R
    BY <1>1 DEF Occurrences
  <1>3. ASSUME NEW j \in T, NEW l \in T, Up(j) = Up(l) PROVE j = l
    BY <1>1, <1>3 DEF Occurrences
  <1>4. ASSUME NEW m \in R PROVE \E j \in T : Up(j) = m
    <2>1. CASE m < i
      BY <1>1, <2>1 DEF Occurrences
    <2>2. CASE ~(m < i)
      <3>1. m - 1 \in 1 .. Len(s) - 1 /\ Up(m - 1) = m
        BY <1>1, <2>2 DEF Occurrences
      <3>2. m - 1 \in T
        BY <1>1, <3>1 DEF Occurrences
      <3> QED
        BY <3>1, <3>2
    <2> QED
      BY <2>1, <2>2
  <1>5. ExistsBijection(T, R)
    <2> HIDE DEF T, R, Up
    <2>1. up \in [T -> R] /\ IsInjective(up)
      BY <1>2, <1>3 DEF IsInjective
    <2>2. \A m \in R : \E j \in T : up[j] = m
      BY <1>4
    <2> HIDE DEF up
    <2>3. up \in Bijection(T, R)
      BY <2>1, <2>2 DEF Bijection, Injection, Surjection
    <2> QED
      BY <2>3 DEF ExistsBijection
  <1>6. /\ IsFiniteSet(T) /\ Count(k, t) = Cardinality(T) /\ Count(k, t) \in Nat
        /\ IsFiniteSet(Occurrences(k, s)) /\ Count(k, s) = Cardinality(Occurrences(k, s))
        /\ Count(k, s) \in Nat
    BY CountType
  <1>7. Cardinality(R) = Cardinality(T)
    <2> HIDE DEF T, R
    <2> QED
      BY <1>5, <1>6, FS_Bijection
  <1>8. Cardinality(R) = IF i \in Occurrences(k, s) THEN Cardinality(Occurrences(k, s)) - 1
                                                     ELSE Cardinality(Occurrences(k, s))
    BY <1>6, FS_RemoveElement
  <1>9. i \in Occurrences(k, s) <=> s[i] = k
    BY <1>1 DEF Occurrences
  <1> HIDE DEF T, R
  <1> QED
    BY <1>6, <1>7, <1>8, <1>9
-----------------------------------------------------------------------------
(* What registering and unregistering do to a subscription: who is listed  *)
(* where.  A tidy subscription names everyone once per group.              *)
SubHas(sub, c, g) ==
    IF g = NoGroup THEN c \in sub.universal
    ELSE g \in DOMAIN sub.groups /\ c \in Range(sub.groups[g])

SubTidy(sub) ==
    IsSubscription(sub) /\ \A g \in DOMAIN sub.groups : IsInjective(sub.groups[g])

(* A consumer that joins a group is in its list once. *)
LEMMA AppendEffect ==
  ASSUME NEW members \in Seq(Consumers), IsInjective(members), NEW c \in Consumers,
         c \notin Range(members)
  PROVE  /\ Append(members, c) \in Seq(Consumers) /\ Append(members, c) # <<>>
         /\ IsInjective(Append(members, c))
         /\ Range(Append(members, c)) = Range(members) \cup {c}
  <1> DEFINE n == Len(members) + 1
  <1>0. PICK t : t = Append(members, c)
    OBVIOUS
  <1>1. /\ t \in Seq(Consumers) /\ t # <<>> /\ DOMAIN t = 1 .. n
        /\ DOMAIN members = 1 .. Len(members) /\ t[n] = c
        /\ \A i \in 1 .. Len(members) : t[i] = members[i]
    BY <1>0
  <1>2. \A i \in 1 .. n : i = n \/ i \in 1 .. Len(members)
    OBVIOUS
  <1>3. 1 .. Len(members) \subseteq 1 .. n /\ n \in 1 .. n
    OBVIOUS
  <1> HIDE DEF n
  <1>4. IsInjective(t)
    BY <1>1, <1>2 DEF IsInjective, Range
  <1>5. Range(t) = Range(members) \cup {c}
    BY <1>1, <1>2, <1>3 DEF Range
  <1> QED
    BY <1>0, <1>1, <1>4, <1>5

(* A consumer that leaves a group is no longer in its list. *)
LEMMA WithoutEffect ==
  ASSUME NEW members \in Seq(Consumers), IsInjective(members), NEW c \in Range(members)
  PROVE  /\ Without(members, c) \in Seq(Consumers)
         /\ IsInjective(Without(members, c))
         /\ Range(Without(members, c)) = Range(members) \ {c}
  <1> DEFINE i == CHOOSE i \in DOMAIN members : members[i] = c
  <1>1. i \in 1 .. Len(members) /\ members[i] = c
    BY DEF Range
  <1>2. Without(members, c) = SubSeq(members, 1, i - 1) \o SubSeq(members, i + 1, Len(members))
    BY DEF Without
  <1> HIDE DEF i
  <1>3. PICK t : t = Without(members, c)
    OBVIOUS
  <1>4. t \in Seq(Consumers) /\ IsCut(members, i, t)
    BY <1>1, <1>2, <1>3, CutIs
  <1>5. /\ Len(members) \in Nat /\ DOMAIN members = 1 .. Len(members)
        /\ DOMAIN t = 1 .. Len(members) - 1
        /\ \A j \in 1 .. Len(members) - 1 : t[j] = members[IF j < i THEN j ELSE j + 1]
    BY <1>4 DEF IsCut
  <1>6. IsInjective(t)
    <2> SUFFICES ASSUME NEW a \in DOMAIN t, NEW b \in DOMAIN t, t[a] = t[b] PROVE a = b
      BY DEF IsInjective
    <2>1. /\ (IF a < i THEN a ELSE a + 1) \in DOMAIN members
          /\ (IF b < i THEN b ELSE b + 1) \in DOMAIN members
      BY <1>1, <1>5
    <2>2. (IF a < i THEN a ELSE a + 1) = (IF b < i THEN b ELSE b + 1)
      BY <1>5, <2>1 DEF IsInjective
    <2> QED
      BY <1>1, <1>5, <2>2
  <1>7. ASSUME NEW x \in Range(t) PROVE x \in Range(members) /\ x # c
    <2>1. PICK j \in 1 .. Len(members) - 1 : t[j] = x
      BY <1>5 DEF Range
    <2>2. PICK l \in 1 .. Len(members) : l # i /\ members[l] = x
      BY <1>1, <1>5, <2>1
    <2> QED
      BY <1>1, <1>5, <2>2 DEF Range, IsInjective
  <1>8. ASSUME NEW x \in Range(members), x # c PROVE x \in Range(t)
    <2>1. PICK l \in 1 .. Len(members) : l # i /\ members[l] = x
      BY <1>1, <1>5, <1>8 DEF Range
    <2>2. CASE l < i
      BY <1>1, <1>5, <2>1, <2>2 DEF Range
    <2>3. CASE ~(l < i)
      <3>1. l - 1 \in DOMAIN t /\ t[l - 1] = x
        BY <1>1, <1>5, <2>1, <2>3
      <3> QED
        BY <3>1 DEF Range
    <2> QED
      BY <2>2, <2>3
  <1> QED
    BY <1>3, <1>4, <1>6, <1>7, <1>8

(* Adding a consumer changes where that consumer is, and nothing else. *)
LEMMA SubAddEffect ==
  ASSUME NEW sub, SubTidy(sub), NEW c \in Consumers, NEW g \in Groups \cup {NoGroup},
         ~SubHas(sub, c, g)
  PROVE  /\ SubTidy(SubAdd(sub, c, g))
         /\ ~SubIsEmpty(SubAdd(sub, c, g))
         /\ \A d \in Consumers, h \in Groups \cup {NoGroup} :
               SubHas(SubAdd(sub, c, g), d, h) <=> SubHas(sub, d, h) \/ (d = c /\ h = g)
  <1>0. PICK new : new = SubAdd(sub, c, g)
    OBVIOUS
  <1>a. /\ DOMAIN sub = {"groups", "universal"} /\ IsGroupMap(sub.groups)
        /\ sub.universal \subseteq Consumers
        /\ \A h \in DOMAIN sub.groups : IsInjective(sub.groups[h])
    BY DEF SubTidy, IsSubscription
  <1>1. CASE g = NoGroup
    <2>1. new = [sub EXCEPT !.universal = @ \cup {c}]
      BY <1>0, <1>1 DEF SubAdd
    <2>2. /\ DOMAIN new = {"groups", "universal"}
          /\ new.groups = sub.groups /\ new.universal = sub.universal \cup {c}
      BY <1>a, <2>1
    <2>3. SubTidy(new) /\ ~SubIsEmpty(new)
      BY <1>a, <2>2 DEF SubTidy, IsSubscription, SubIsEmpty
    <2>4. \A d \in Consumers, h \in Groups \cup {NoGroup} :
             SubHas(new, d, h) <=> SubHas(sub, d, h) \/ (d = c /\ h = g)
      BY <1>1, <2>2 DEF SubHas
    <2> QED
      BY <1>0, <2>3, <2>4
  <1>2. CASE g # NoGroup
    <2> DEFINE members == IF g \in DOMAIN sub.groups THEN sub.groups[g] ELSE <<>>
    <2>1. members \in Seq(Consumers) /\ IsInjective(members) /\ c \notin Range(members)
      <3>1. CASE g \in DOMAIN sub.groups
        BY <1>a, <1>2, <3>1 DEF IsGroupMap, SubHas
      <3>2. CASE g \notin DOMAIN sub.groups
        BY <3>2 DEF IsInjective, Range
      <3> QED
        BY <3>1, <3>2
    <2>2. new = [sub EXCEPT !.groups = MapPut(@, g, Append(members, c))]
      BY <1>0, <1>2 DEF SubAdd
    <2>a. \A d : d \in Range(members) <=> g \in DOMAIN sub.groups /\ d \in Range(sub.groups[g])
      BY DEF Range
    <2> HIDE DEF members
    <2>3. PICK longer : longer = Append(members, c)
      OBVIOUS
    <2>4. /\ longer \in Seq(Consumers) /\ longer # <<>> /\ IsInjective(longer)
          /\ Range(longer) = Range(members) \cup {c}
      BY <2>1, <2>3, AppendEffect
    <2>5. PICK groups : groups = MapPut(sub.groups, g, longer)
      OBVIOUS
    <2>6. /\ DOMAIN new = {"groups", "universal"}
          /\ new.groups = groups /\ new.universal = sub.universal
      BY <1>a, <2>2, <2>3, <2>5
    <2>7. /\ DOMAIN groups = DOMAIN sub.groups \cup {g} /\ groups[g] = longer
          /\ \A h \in DOMAIN sub.groups : h # g => groups[h] = sub.groups[h]
      BY <2>5 DEF MapPut
    <2>8. g \in Groups
      BY <1>2
    <2>9. IsGroupMap(groups) /\ \A h \in DOMAIN groups : IsInjective(groups[h])
      BY <1>a, <2>4, <2>7, <2>8 DEF IsGroupMap
    <2>10. SubTidy(new) /\ ~SubIsEmpty(new)
      BY <1>a, <2>6, <2>7, <2>9 DEF SubTidy, IsSubscription, SubIsEmpty
    <2>11. ASSUME NEW d \in Consumers, NEW h \in Groups \cup {NoGroup}
           PROVE  SubHas(new, d, h) <=> SubHas(sub, d, h) \/ (d = c /\ h = g)
      <3>1. CASE h = g
        BY <1>2, <2>a, <2>4, <2>6, <2>7, <3>1, SMTT(30) DEF SubHas
      <3>2. CASE h # g
        BY <2>6, <2>7, <3>2 DEF SubHas
      <3> QED
        BY <3>1, <3>2
    <2> QED
      BY <1>0, <2>10, <2>11
  <1> QED
    BY <1>1, <1>2

(* Removing one does the same. *)
LEMMA SubRemoveEffect ==
  ASSUME NEW sub, SubTidy(sub), NEW c \in Consumers, NEW g \in Groups \cup {NoGroup},
         SubHas(sub, c, g)
  PROVE  /\ SubTidy(SubRemove(sub, c, g))
         /\ \A d \in Consumers, h \in Groups \cup {NoGroup} :
               SubHas(SubRemove(sub, c, g), d, h) <=> SubHas(sub, d, h) /\ ~(d = c /\ h = g)
  <1>0. PICK new : new = SubRemove(sub, c, g)
    OBVIOUS
  <1>a. /\ DOMAIN sub = {"groups", "universal"} /\ IsGroupMap(sub.groups)
        /\ sub.universal \subseteq Consumers
        /\ \A h \in DOMAIN sub.groups : IsInjective(sub.groups[h])
    BY DEF SubTidy, IsSubscription
  <1>1. CASE g = NoGroup
    <2>1. new = [sub EXCEPT !.universal = @ \ {c}]
      BY <1>0, <1>1 DEF SubRemove
    <2>2. /\ DOMAIN new = {"groups", "universal"}
          /\ new.groups = sub.groups /\ new.universal = sub.universal \ {c}
      BY <1>a, <2>1
    <2>3. SubTidy(new)
      BY <1>a, <2>2 DEF SubTidy, IsSubscription
    <2>4. \A d \in Consumers, h \in Groups \cup {NoGroup} :
             SubHas(new, d, h) <=> SubHas(sub, d, h) /\ ~(d = c /\ h = g)
      BY <1>1, <2>2 DEF SubHas
    <2> QED
      BY <1>0, <2>3, <2>4
  <1>2. CASE g # NoGroup
    <2>1. g \in DOMAIN sub.groups /\ c \in Range(sub.groups[g])
      BY <1>2 DEF SubHas
    <2>2. sub.groups[g] \in Seq(Consumers) /\ IsInjective(sub.groups[g])
      BY <1>a, <2>1 DEF IsGroupMap
    <2>3. PICK members : members = Without(sub.groups[g], c)
      OBVIOUS
    <2>4. /\ members \in Seq(Consumers) /\ IsInjective(members)
          /\ Range(members) = Range(sub.groups[g]) \ {c}
      BY <2>1, <2>2, <2>3, WithoutEffect
    <2>5. CASE members = <<>>
      <3>1. new = [sub EXCEPT !.groups = MapDelete(@, {g})]
        BY <1>0, <1>2, <2>3, <2>5 DEF SubRemove
      <3>2. PICK groups : groups = MapDelete(sub.groups, {g})
        OBVIOUS
      <3>3. /\ DOMAIN new = {"groups", "universal"}
            /\ new.groups = groups /\ new.universal = sub.universal
        BY <1>a, <3>1, <3>2
      <3>4. /\ DOMAIN groups = DOMAIN sub.groups \ {g}
            /\ \A h \in DOMAIN groups : groups[h] = sub.groups[h]
        BY <3>2 DEF MapDelete, Restrict
      <3>5. SubTidy(new)
        BY <1>a, <3>3, <3>4 DEF SubTidy, IsSubscription, IsGroupMap
      <3>6. Range(members) = {}
        BY <2>5 DEF Range
      <3>7. \A d \in Consumers, h \in Groups \cup {NoGroup} :
               SubHas(new, d, h) <=> SubHas(sub, d, h) /\ ~(d = c /\ h = g)
        BY <1>2, <2>1, <2>4, <3>3, <3>4, <3>6, SMTT(30) DEF SubHas
      <3> QED
        BY <1>0, <3>5, <3>7
    <2>6. CASE members # <<>>
      <3>1. new = [sub EXCEPT !.groups[g] = members]
        BY <1>0, <1>2, <2>3, <2>6 DEF SubRemove
      <3>2. PICK groups : groups = [sub.groups EXCEPT ![g] = members]
        OBVIOUS
      <3>3. /\ DOMAIN new = {"groups", "universal"}
            /\ new.groups = groups /\ new.universal = sub.universal
        BY <1>a, <3>1, <3>2
      <3>4. /\ DOMAIN groups = DOMAIN sub.groups /\ groups[g] = members
            /\ \A h \in DOMAIN groups : h # g => groups[h] = sub.groups[h]
        BY <2>1, <3>2
      <3>5. SubTidy(new)
        BY <1>a, <2>4, <2>6, <3>3, <3>4 DEF SubTidy, IsSubscription, IsGroupMap
      <3>6. \A d \in Consumers, h \in Groups \cup {NoGroup} :
               SubHas(new, d, h) <=> SubHas(sub, d, h) /\ ~(d = c /\ h = g)
        BY <1>2, <2>1, <2>4, <3>3, <3>4 DEF SubHas
      <3> QED
        BY <1>0, <3>5, <3>6
    <2> QED
      BY <2>5, <2>6
  <1> QED
    BY <1>1, <1>2

(* The same for the topic map: tidy subscriptions, none of them empty. *)
TopicsTidy(f) ==
    /\ DOMAIN f \subseteq Topics
    /\ \A t \in DOMAIN f : SubTidy(f[t]) /\ ~SubIsEmpty(f[t])

Has(f, c, t, g) == t \in DOMAIN f /\ SubHas(f[t], c, g)

(* Register lists the consumer in one place and moves nobody. *)
LEMMA RegisterEffect ==
  ASSUME NEW f, TopicsTidy(f),
         NEW c \in Consumers, NEW t \in Topics, NEW g \in Groups \cup {NoGroup},
         ~Has(f, c, t, g)
  PROVE  /\ TopicsTidy(RegisterIn(f, c, t, g))
         /\ \A d \in Consumers, u \in Topics, h \in Groups \cup {NoGroup} :
               Has(RegisterIn(f, c, t, g), d, u, h)
                 <=> Has(f, d, u, h) \/ (d = c /\ u = t /\ h = g)
  <1> DEFINE sub == IF t \in DOMAIN f THEN f[t] ELSE NewTopicSubscription
  <1>1. SubTidy(sub)
    <2>1. SubTidy(NewTopicSubscription)
      BY DEF NewTopicSubscription, SubTidy, IsSubscription, IsGroupMap
    <2> QED
      BY <2>1 DEF TopicsTidy
  <1>2. \A d, h : SubHas(sub, d, h) <=> Has(f, d, t, h)
    BY DEF SubHas, Has, NewTopicSubscription
  <1>3. PICK new : new = RegisterIn(f, c, t, g)
    OBVIOUS
  <1>4. new = MapPut(f, t, SubAdd(sub, c, g))
    BY <1>3 DEF RegisterIn
  <1> HIDE DEF sub
  <1>5. /\ SubTidy(SubAdd(sub, c, g))
        /\ ~SubIsEmpty(SubAdd(sub, c, g))
        /\ \A d \in Consumers, h \in Groups \cup {NoGroup} :
              SubHas(SubAdd(sub, c, g), d, h) <=> SubHas(sub, d, h) \/ (d = c /\ h = g)
    BY <1>1, <1>2, SubAddEffect
  <1>6. /\ DOMAIN new = DOMAIN f \cup {t} /\ new[t] = SubAdd(sub, c, g)
        /\ \A u \in DOMAIN f : u # t => new[u] = f[u]
    BY <1>4 DEF MapPut
  <1>7. TopicsTidy(new)
    BY <1>5, <1>6 DEF TopicsTidy
  <1>8. ASSUME NEW d \in Consumers, NEW u \in Topics, NEW h \in Groups \cup {NoGroup}
        PROVE  Has(new, d, u, h) <=> Has(f, d, u, h) \/ (d = c /\ u = t /\ h = g)
    <2>1. CASE u = t
      BY <1>2, <1>5, <1>6, <2>1 DEF Has
    <2>2. CASE u # t
      BY <1>6, <2>2 DEF Has
    <2> QED
      BY <2>1, <2>2
  <1> QED
    BY <1>3, <1>7, <1>8

(* Unregister takes it out of that place, drops the topic with its last    *)
(* consumer and moves nobody.                                              *)
LEMMA UnregisterEffect ==
  ASSUME NEW f, TopicsTidy(f),
         NEW c \in Consumers, NEW t \in Topics, NEW g \in Groups \cup {NoGroup},
         Has(f, c, t, g)
  PROVE  /\ TopicsTidy(UnregisterFrom(f, c, t, g))
         /\ \A d \in Consumers, u \in Topics, h \in Groups \cup {NoGroup} :
               Has(UnregisterFrom(f, c, t, g), d, u, h)
                 <=> Has(f, d, u, h) /\ ~(d = c /\ u = t /\ h = g)
  <1>1. t \in DOMAIN f /\ SubTidy(f[t]) /\ SubHas(f[t], c, g)
    BY DEF Has, TopicsTidy
  <1>2. PICK sub : sub = SubRemove(f[t], c, g)
    OBVIOUS
  <1>3. /\ SubTidy(sub)
        /\ \A d \in Consumers, h \in Groups \cup {NoGroup} :
              SubHas(sub, d, h) <=> SubHas(f[t], d, h) /\ ~(d = c /\ h = g)
    BY <1>1, <1>2, SubRemoveEffect
  <1>4. PICK new : new = UnregisterFrom(f, c, t, g)
    OBVIOUS
  <1>5. new = IF SubIsEmpty(sub) THEN MapDelete(f, {t}) ELSE [f EXCEPT ![t] = sub]
    BY <1>1, <1>2, <1>4 DEF UnregisterFrom
  <1>6. CASE SubIsEmpty(sub)
    <2>1. DOMAIN new = DOMAIN f \ {t} /\ \A u \in DOMAIN new : new[u] = f[u]
      BY <1>5, <1>6 DEF MapDelete, Restrict
    <2>2. TopicsTidy(new)
      BY <2>1 DEF TopicsTidy
    <2>3. \A d, h : ~SubHas(sub, d, h)
      BY <1>6 DEF SubIsEmpty, SubHas
    <2>4. \A d \in Consumers, u \in Topics, h \in Groups \cup {NoGroup} :
             Has(new, d, u, h) <=> Has(f, d, u, h) /\ ~(d = c /\ u = t /\ h = g)
      BY <1>3, <2>1, <2>3 DEF Has
    <2> QED
      BY <1>4, <2>2, <2>4
  <1>7. CASE ~SubIsEmpty(sub)
    <2>1. DOMAIN new = DOMAIN f /\ new[t] = sub /\ \A u \in DOMAIN f : u # t => new[u] = f[u]
      BY <1>1, <1>5, <1>7
    <2>2. TopicsTidy(new)
      BY <1>3, <1>7, <2>1 DEF TopicsTidy
    <2>3. \A d \in Consumers, u \in Topics, h \in Groups \cup {NoGroup} :
             Has(new, d, u, h) <=> Has(f, d, u, h) /\ ~(d = c /\ u = t /\ h = g)
      BY <1>1, <1>3, <2>1 DEF Has
    <2> QED
      BY <1>4, <2>2, <2>3
  <1> QED
    BY <1>6, <1>7
-----------------------------------------------------------------------------
(* Round robin. *)
(* A place in a list of n, counted from its start or back from its end. *)
Wrapped(q, n) == IF q >= 1 THEN q ELSE q + n

(* The latest picks of a group are the members before the counter, going   *)
(* round, the last pick right before it.                                   *)
TurnOK(turn, next) ==
    turn.picks # <<>> =>
        LET n == Len(turn.candidates)
            p == Len(turn.picks)
        IN  /\ turn.candidates \in Seq(Consumers) /\ IsInjective(turn.candidates)
            /\ next \in 0 .. n - 1
            /\ turn.picks \in Seq(Consumers) /\ p <= n
            /\ \A j \in 1 .. p : turn.picks[j] = turn.candidates[Wrapped(next - p + j, n)]

(* Counting on by one goes round. *)
LEMMA ModSucc ==
  ASSUME NEW x \in Nat, NEW n \in Nat \ {0}
  PROVE  /\ x % n \in 0 .. n - 1
         /\ (x + 1) % n = IF x % n = n - 1 THEN 0 ELSE (x % n) + 1
  <1>1. PICK q \in Nat : q = x \div n
    OBVIOUS
  <1>2. PICK r \in 0 .. n - 1 : r = x % n
    OBVIOUS
  <1>3. x = n * q + r
    BY <1>1, <1>2
  <1>4. PICK q1 \in Nat : q1 = (x + 1) \div n
    OBVIOUS
  <1>5. PICK r1 \in 0 .. n - 1 : r1 = (x + 1) % n
    OBVIOUS
  <1>6. x + 1 = n * q1 + r1
    BY <1>4, <1>5
  <1>7. n * (q1 - q) = r + 1 - r1
    BY <1>3, <1>6
  <1>8. PICK d \in Int : d = q1 - q
    OBVIOUS
  <1>9. n * d = r + 1 - r1
    BY <1>7, <1>8
  <1>10. d = 0 \/ d = 1
    <2>1. CASE d >= 2
      <3>1. n * d >= n * 2
        BY <2>1
      <3> QED
        BY <1>9, <3>1
    <2>2. CASE d <= -1
      <3>1. n * d <= n * (-1)
        BY <2>2
      <3> QED
        BY <1>9, <3>1
    <2> QED
      BY <2>1, <2>2
  <1>11. r1 = IF r = n - 1 THEN 0 ELSE r + 1
    <2>1. CASE d = 0
      BY <1>9, <2>1
    <2>2. CASE d = 1
      BY <1>9, <2>2
    <2> QED
      BY <1>10, <2>1, <2>2
  <1> QED
    BY <1>2, <1>5, <1>11

(* A counter below the length is an index as it is. *)
LEMMA ModSmall ==
  ASSUME NEW n \in Nat \ {0}, NEW x \in 0 .. n - 1
  PROVE  x % n = x
  OBVIOUS

(* Picks that are consecutive members, at most all of them, are different. *)
LEMMA TurnFair ==
  ASSUME NEW turn, NEW next, TurnOK(turn, next)
  PROVE  IsInjective(turn.picks)
  <1>1. CASE turn.picks = <<>>
    BY <1>1 DEF IsInjective
  <1>2. CASE turn.picks # <<>>
    <2> DEFINE n == Len(turn.candidates)
               p == Len(turn.picks)
    <2>1. /\ turn.candidates \in Seq(Consumers) /\ IsInjective(turn.candidates)
          /\ next \in 0 .. n - 1
          /\ turn.picks \in Seq(Consumers) /\ p <= n
          /\ \A j \in 1 .. p : turn.picks[j] = turn.candidates[Wrapped(next - p + j, n)]
      BY <1>2 DEF TurnOK
    <2>2. n \in Nat /\ p \in Nat /\ DOMAIN turn.picks = 1 .. p /\ DOMAIN turn.candidates = 1 .. n
      BY <2>1
    <2> HIDE DEF n, p
    <2> SUFFICES ASSUME NEW a \in 1 .. p, NEW b \in 1 .. p, turn.picks[a] = turn.picks[b]
                 PROVE  a = b
      BY <2>2 DEF IsInjective
    <2>3. Wrapped(next - p + a, n) \in 1 .. n /\ Wrapped(next - p + b, n) \in 1 .. n
      BY <2>1, <2>2 DEF Wrapped
    <2>4. Wrapped(next - p + a, n) = Wrapped(next - p + b, n)
      <3>1. turn.candidates[Wrapped(next - p + a, n)] = turn.candidates[Wrapped(next - p + b, n)]
        BY <2>1
      <3> QED
        BY <2>1, <2>2, <2>3, <3>1 DEF IsInjective
    <2> QED
      BY <2>1, <2>2, <2>4 DEF Wrapped
  <1> QED
    BY <1>1, <1>2

(* Select leaves a group that was fair so far fair, also when its members  *)
(* have changed and the counter stands anywhere.                           *)
LEMMA TurnStep ==
  ASSUME NEW turn, NEW next \in Nat, TurnOK(turn, next),
         NEW cand \in Seq(Consumers), cand # <<>>, IsInjective(cand)
  PROVE  TurnOK(Picked(turn, cand, SelectConsumer(next, cand)), SelectNext(next, cand))
  <1> DEFINE n   == Len(cand)
             i   == next % n
             c   == cand[i + 1]
             nx  == IF i = n - 1 THEN 0 ELSE i + 1
             old == turn.picks
             p   == Len(old)
             new == Picked(turn, cand, c)
  <1>1. n \in Nat \ {0} /\ DOMAIN cand = 1 .. n
    OBVIOUS
  <1>2. i \in 0 .. n - 1 /\ SelectNext(next, cand) = nx /\ SelectConsumer(next, cand) = c
    <2> HIDE DEF n
    <2>1. i \in 0 .. n - 1 /\ (next + 1) % n = nx
      BY <1>1, ModSucc
    <2> QED
      BY <2>1 DEF SelectNext, SelectConsumer, n
  <1>3. c \in Consumers
    BY <1>1, <1>2
  <1>4. nx \in 0 .. n - 1 /\ Wrapped(nx, n) = i + 1
    <2> HIDE DEF n, i
    <2> QED
      BY <1>1, <1>2 DEF Wrapped
  <1>5. new.candidates = cand
    BY DEF Picked
  <1>6. CASE turn.candidates # cand \/ old = <<>>
    <2>1. Append(old, c) = <<c>> \/ turn.candidates # cand
      <3>1. Append(<<>>, c) = <<c>>
        OBVIOUS
      <3> HIDE DEF old, c
      <3> QED
        BY <1>6, <3>1
    <2>2. Len(<<c>>) = 1 /\ ~(1 > n)
      BY <1>1
    <2>3. new.picks = <<c>>
      BY <2>1, <2>2 DEF Picked
    <2>4. \A j \in 1 .. 1 : nx - 1 + j = nx
      <3> HIDE DEF n, i
      <3> QED
        BY <1>1, <1>2
    <2> HIDE DEF c, new, nx, i
    <2>5. <<c>> \in Seq(Consumers) /\ Len(<<c>>) = 1 /\ <<c>>[1] = c
      BY <1>3
    <2>6. \A j \in 1 .. 1 : <<c>>[j] = cand[Wrapped(nx - 1 + j, n)]
      BY <1>4, <2>4, <2>5 DEF c
    <2>7. TurnOK(new, nx)
      BY <1>1, <1>4, <1>5, <2>3, <2>5, <2>6, SMTT(30) DEF TurnOK
    <2> QED
      BY <1>2, <2>7 DEF new
  <1>7. CASE turn.candidates = cand /\ old # <<>>
    <2>1. /\ next \in 0 .. n - 1 /\ old \in Seq(Consumers) /\ p <= n
          /\ \A j \in 1 .. p : old[j] = cand[Wrapped(next - p + j, n)]
      BY <1>7 DEF TurnOK
    <2>2. i = next
      <3> HIDE DEF n
      <3> QED
        BY <1>1, <2>1, ModSmall
    <2>3. p \in Nat \ {0}
      BY <1>7, <2>1
    <2>4. PICK longer : longer = Append(old, c)
      OBVIOUS
    <2>5. new.picks = IF Len(longer) > n THEN Tail(longer) ELSE longer
      BY <1>7, <2>4 DEF Picked
    <2> HIDE DEF new, n, i, p, nx, old
    <2>6. /\ longer \in Seq(Consumers) /\ Len(longer) = p + 1 /\ longer[p + 1] = c
          /\ \A j \in 1 .. p : longer[j] = old[j]
      BY <1>3, <2>1, <2>4 DEF p
    <2> HIDE DEF c
    <2>7. ASSUME NEW j \in 1 .. p + 1, j + n > p + 1 PROVE longer[j] = cand[Wrapped(nx - (p + 1) + j, n)]
      <3>1. CASE j = p + 1
        <4>1. nx - (p + 1) + j = nx
          BY <1>1, <1>4, <2>3, <3>1
        <4> QED
          BY <1>4, <2>6, <3>1, <4>1, SMTT(30) DEF c
      <3>2. CASE j \in 1 .. p
        <4>1. Wrapped(nx - (p + 1) + j, n) = Wrapped(next - p + j, n)
          BY <1>1, <2>1, <2>2, <2>3, <2>7, <3>2, SMTT(30) DEF Wrapped, nx
        <4> QED
          BY <2>1, <2>6, <3>2, <4>1
      <3> QED
        BY <2>3, <3>1, <3>2
    <2>8. CASE ~(Len(longer) > n)
      <3>1. new.picks = longer /\ p + 1 <= n
        BY <1>1, <2>3, <2>5, <2>6, <2>8
      <3>2. \A j \in 1 .. p + 1 : longer[j] = cand[Wrapped(nx - (p + 1) + j, n)]
        BY <1>1, <2>3, <2>7, <3>1
      <3>3. TurnOK(new, nx)
        BY <1>1, <1>4, <1>5, <2>6, <3>1, <3>2, SMTT(30) DEF TurnOK, n
      <3> QED
        BY <1>2, <3>3 DEF new
    <2>9. CASE Len(longer) > n
      <3>1. p = n
        BY <1>1, <2>1, <2>3, <2>6, <2>9
      <3>2. PICK last : last = Tail(longer)
        OBVIOUS
      <3>3. /\ last \in Seq(Consumers) /\ Len(last) = p
            /\ \A j \in 1 .. p : last[j] = longer[j + 1]
        BY <2>3, <2>6, <3>2
      <3>4. ASSUME NEW j \in 1 .. p PROVE last[j] = cand[Wrapped(nx - p + j, n)]
        <4>1. j + 1 \in 1 .. p + 1 /\ (j + 1) + n > p + 1 /\ nx - (p + 1) + (j + 1) = nx - p + j
          BY <1>1, <1>4, <2>3, <3>1
        <4> QED
          BY <2>7, <3>3, <4>1
      <3>5. new.picks = last /\ p <= n
        BY <2>1, <2>5, <2>9, <3>2, SMTT(30)
      <3>6. TurnOK(new, nx)
        BY <1>1, <1>4, <1>5, <3>3, <3>4, <3>5 DEF TurnOK, n
      <3> QED
        BY <1>2, <3>6 DEF new
    <2> QED
      BY <2>8, <2>9
  <1> QED
    BY <1>6, <1>7
-----------------------------------------------------------------------------
(* The inductive invariant. *)
(* The registrations. *)
HubOK ==
    /\ TopicsTidy(topics)
    /\ phase \in [Consumers -> {"new", "registered", "leaving", "gone"}]
    /\ DOMAIN byID = {c \in Consumers : phase[c] = "registered"}
    /\ \A c \in DOMAIN byID : byID[c].topic \in Topics /\ byID[c].group \in Groups \cup {NoGroup}
    /\ \A c \in Consumers, t \in Topics, g \in Groups \cup {NoGroup} :
          Has(topics, c, t, g) <=> c \in DOMAIN byID /\ byID[c].topic = t /\ byID[c].group = g

(* The channels and lists of keys. *)
ListsOK ==
    /\ ch \in [Consumers -> Seq(Keys)] /\ got \in [Consumers -> Seq(Keys)]
    /\ DOMAIN inFlightByConsumer \subseteq Consumers
    /\ \A c \in DOMAIN inFlightByConsumer : inFlightByConsumer[c] \in Seq(Keys)

(* The dispatch call. *)
CallOK ==
    /\ pc \in {"idle", "send", "track"}
    /\ pc # "idle" => topic \in Topics /\ key \in Keys
    /\ pc = "track" => target \in Consumers
    /\ IsGroupMap(groupsLeft) /\ univLeft \subseteq Consumers
    /\ \A g \in DOMAIN groupsLeft : IsInjective(groupsLeft[g])

(* Nothing has been sent, or is about to be, to a consumer that has not    *)
(* registered.                                                             *)
NewOK ==
    /\ \A c \in Consumers : phase[c] = "new" => ch[c] = <<>> /\ got[c] = <<>>
    /\ \A g \in DOMAIN groupsLeft : \A c \in Range(groupsLeft[g]) : phase[c] # "new"
    /\ \A c \in univLeft : phase[c] # "new"

TurnsOK ==
    /\ rrNext \in [Topics \X Groups -> Nat]
    /\ DOMAIN turns = Topics \X Groups
    /\ \A tg \in Topics \X Groups : TurnOK(turns[tg], rrNext[tg])

Inv == HubOK /\ ListsOK /\ CallOK /\ NewOK /\ TurnsOK /\ OutstandingIsTracked

(* An empty hub satisfies the invariant. *)
LEMMA InitInv == Init => Inv
  <1> SUFFICES ASSUME Init PROVE Inv
    OBVIOUS
  <1>1. HubOK
    BY DEF Init, HubOK, TopicsTidy, Has
  <1>2. ListsOK
    BY DEF Init, ListsOK
  <1>3. CallOK
    BY DEF Init, CallOK, IsGroupMap
  <1>4. NewOK
    BY DEF Init, NewOK
  <1>5. TurnsOK
    BY DEF Init, TurnsOK, TurnOK
  <1>6. OutstandingIsTracked
    BY DEF Init, OutstandingIsTracked
  <1> QED
    BY <1>1, <1>2, <1>3, <1>4, <1>5, <1>6, SMTT(30) DEF Inv

(* Registrations keep the two indexes together; nobody else changes them. *)
LEMMA HubStep ==
  ASSUME HubOK, Next
  PROVE  HubOK'
  <1>1. ASSUME NEW c \in Consumers, NEW t \in Topics, NEW g \in Groups \cup {NoGroup},
               Register(c, t, g)
        PROVE  HubOK'
    <2>1. /\ phase[c] = "new" /\ phase' = [phase EXCEPT ![c] = "registered"]
          /\ topics' = RegisterIn(topics, c, t, g)
          /\ byID' = MapPut(byID, c, [topic |-> t, group |-> g])
      BY <1>1 DEF Register
    <2>2. c \notin DOMAIN byID
      BY <2>1 DEF HubOK
    <2>3. /\ TopicsTidy(topics')
          /\ \A d \in Consumers, u \in Topics, h \in Groups \cup {NoGroup} :
                Has(topics', d, u, h) <=> Has(topics, d, u, h) \/ (d = c /\ u = t /\ h = g)
      BY <2>1, <2>2, RegisterEffect DEF HubOK
    <2>4. /\ DOMAIN byID' = DOMAIN byID \cup {c}
          /\ byID'[c].topic = t /\ byID'[c].group = g
          /\ \A d \in DOMAIN byID : byID'[d] = byID[d]
      BY <2>1, <2>2 DEF MapPut
    <2>5. /\ phase' \in [Consumers -> {"new", "registered", "leaving", "gone"}]
          /\ DOMAIN byID' = {d \in Consumers : phase'[d] = "registered"}
      <3>1. /\ phase \in [Consumers -> {"new", "registered", "leaving", "gone"}]
            /\ DOMAIN byID = {d \in Consumers : phase[d] = "registered"}
        BY DEF HubOK
      <3>2. phase' \in [Consumers -> {"new", "registered", "leaving", "gone"}]
        BY <2>1, <3>1
      <3>3. \A d \in Consumers : phase'[d] = "registered" <=> d = c \/ phase[d] = "registered"
        BY <2>1, <3>1
      <3> QED
        BY <2>4, <3>1, <3>2, <3>3
    <2>6. \A d \in DOMAIN byID' : byID'[d].topic \in Topics
                                  /\ byID'[d].group \in Groups \cup {NoGroup}
      BY <2>4 DEF HubOK
    <2>7. ASSUME NEW d \in Consumers, NEW u \in Topics, NEW h \in Groups \cup {NoGroup}
          PROVE  Has(topics', d, u, h) <=>
                   d \in DOMAIN byID' /\ byID'[d].topic = u /\ byID'[d].group = h
      BY <2>2, <2>3, <2>4 DEF HubOK
    <2> QED
      BY <2>3, <2>5, <2>6, <2>7, SMTT(30) DEF HubOK
  <1>2. ASSUME NEW c \in Consumers, Unregister(c) PROVE HubOK'
    <2> DEFINE t == byID[c].topic
               g == byID[c].group
    <2>1. /\ phase[c] = "registered" /\ phase' = [phase EXCEPT ![c] = "leaving"]
          /\ topics' = UnregisterFrom(topics, c, t, g)
          /\ byID' = MapDelete(byID, {c})
      BY <1>2 DEF Unregister
    <2>2. c \in DOMAIN byID /\ t \in Topics /\ g \in Groups \cup {NoGroup}
          /\ Has(topics, c, t, g)
      BY <2>1 DEF HubOK
    <2> HIDE DEF t, g
    <2>3. /\ TopicsTidy(topics')
          /\ \A d \in Consumers, u \in Topics, h \in Groups \cup {NoGroup} :
                Has(topics', d, u, h) <=> Has(topics, d, u, h) /\ ~(d = c /\ u = t /\ h = g)
      BY <2>1, <2>2, UnregisterEffect DEF HubOK
    <2>4. /\ DOMAIN byID' = DOMAIN byID \ {c}
          /\ \A d \in DOMAIN byID' : byID'[d] = byID[d]
      BY <2>1 DEF MapDelete, Restrict
    <2>5. /\ phase' \in [Consumers -> {"new", "registered", "leaving", "gone"}]
          /\ DOMAIN byID' = {d \in Consumers : phase'[d] = "registered"}
      BY <2>1, <2>4 DEF HubOK
    <2>6. \A d \in DOMAIN byID' : byID'[d].topic \in Topics
                                  /\ byID'[d].group \in Groups \cup {NoGroup}
      BY <2>4 DEF HubOK
    <2>7. ASSUME NEW d \in Consumers, NEW u \in Topics, NEW h \in Groups \cup {NoGroup}
          PROVE  Has(topics', d, u, h) <=>
                   d \in DOMAIN byID' /\ byID'[d].topic = u /\ byID'[d].group = h
      BY <2>2, <2>3, <2>4 DEF HubOK, t, g
    <2> QED
      BY <2>3, <2>5, <2>6, <2>7, SMTT(30) DEF HubOK
  <1>3. ASSUME NEW c \in Consumers, UnregisterInFlight(c) PROVE HubOK'
    <2>1. /\ UNCHANGED <<topics, byID>>
          /\ phase[c] = "leaving" /\ phase' = [phase EXCEPT ![c] = "gone"]
      BY <1>3 DEF UnregisterInFlight
    <2>2. /\ phase' \in [Consumers -> {"new", "registered", "leaving", "gone"}]
          /\ DOMAIN byID = {d \in Consumers : phase'[d] = "registered"}
      BY <2>1 DEF HubOK
    <2> QED
      BY <2>1, <2>2 DEF HubOK
  <1>4. CASE UNCHANGED <<topics, byID, phase>>
    BY <1>4 DEF HubOK
  <1> QED
    BY <1>1, <1>2, <1>3, <1>4
    DEF Next, SenderSend, ReceiverHandle, DispatchToTopic, SendToGroup, SendToUniversal,
        Track, Return

(* The consumer that Select takes is one of the copied group. *)
LEMMA Selected ==
  ASSUME CallOK, TurnsOK, pc = "send", NEW g \in Groups, g \in DOMAIN groupsLeft
  PROVE  /\ groupsLeft[g] \in Seq(Consumers) /\ groupsLeft[g] # <<>>
         /\ rrNext[<<topic, g>>] \in Nat /\ <<topic, g>> \in Topics \X Groups
         /\ SelectConsumer(rrNext[<<topic, g>>], groupsLeft[g]) \in Consumers
         /\ SelectConsumer(rrNext[<<topic, g>>], groupsLeft[g]) \in Range(groupsLeft[g])
  <1>1. groupsLeft[g] \in Seq(Consumers) /\ groupsLeft[g] # <<>> /\ topic \in Topics
    BY DEF CallOK, IsGroupMap
  <1>2. rrNext[<<topic, g>>] \in Nat /\ <<topic, g>> \in Topics \X Groups
    BY <1>1 DEF TurnsOK
  <1>3. PICK s \in Seq(Consumers) : s = groupsLeft[g] /\ s # <<>>
    BY <1>1
  <1>4. PICK x \in Nat : x = rrNext[<<topic, g>>]
    BY <1>2
  <1>5. Len(s) \in Nat \ {0}
    BY <1>3
  <1>6. x % Len(s) \in 0 .. Len(s) - 1
    BY <1>5, ModSucc
  <1>7. (x % Len(s)) + 1 \in DOMAIN s
    BY <1>5, <1>6
  <1>8. SelectConsumer(x, s) \in Consumers /\ SelectConsumer(x, s) \in Range(s)
    BY <1>7 DEF SelectConsumer, Range
  <1> QED
    BY <1>1, <1>2, <1>3, <1>4, <1>8

(* The list of c, in any state. *)
LEMMA InFlightType ==
  ASSUME ListsOK, NEW c
  PROVE  InFlightOf(c) \in Seq(Keys)
  BY DEF ListsOK, InFlightOf

(* A list of keys without one of them is a list of keys. *)
LEMMA RemoveFirstType ==
  ASSUME NEW s \in Seq(Keys), NEW k \in Range(s)
  PROVE  RemoveFirst(s, k) \in Seq(Keys)
  BY CutFirst

(* Writing the list of one consumer leaves the others' alone. *)
LEMMA PutList ==
  ASSUME ListsOK, NEW c \in Consumers, NEW list \in Seq(Keys),
         inFlightByConsumer' = MapPut(inFlightByConsumer, c, list)
  PROVE  /\ DOMAIN inFlightByConsumer' \subseteq Consumers
         /\ \A d \in DOMAIN inFlightByConsumer' : inFlightByConsumer'[d] \in Seq(Keys)
         /\ InFlightOf(c)' = list
         /\ \A d \in Consumers : d # c => InFlightOf(d)' = InFlightOf(d)
  BY DEF ListsOK, MapPut, InFlightOf

(* Channels and lists hold keys. *)
LEMMA ListsStep ==
  ASSUME ListsOK, CallOK, TurnsOK, Next
  PROVE  ListsOK'
  <1>a. ch \in [Consumers -> Seq(Keys)] /\ got \in [Consumers -> Seq(Keys)]
    BY DEF ListsOK
  <1>1. CASE UNCHANGED <<ch, got, inFlightByConsumer>>
    BY <1>1 DEF ListsOK
  <1>2. ASSUME NEW c \in Consumers, UnregisterInFlight(c) PROVE ListsOK'
    BY <1>2 DEF UnregisterInFlight, ListsOK, MapDelete, Restrict
  <1>3. ASSUME NEW c \in Consumers, SenderSend(c) PROVE ListsOK'
    <2>1. ch[c] \in Seq(Keys) /\ ch[c] # <<>> /\ got[c] \in Seq(Keys)
      BY <1>a, <1>3 DEF SenderSend
    <2>2. Tail(ch[c]) \in Seq(Keys) /\ Head(ch[c]) \in Keys
      BY <2>1
    <2>3. Append(got[c], Head(ch[c])) \in Seq(Keys)
      BY <2>1, <2>2
    <2>4. ch' \in [Consumers -> Seq(Keys)] /\ got' \in [Consumers -> Seq(Keys)]
      BY <1>a, <1>3, <2>2, <2>3, SMTT(30) DEF SenderSend
    <2> QED
      BY <1>3, <2>4 DEF SenderSend, ListsOK
  <1>4. ASSUME NEW c \in Consumers, NEW k \in Keys, ReceiverHandle(c, k) PROVE ListsOK'
    <2>1. k \in Range(got[c]) /\ got' = [got EXCEPT ![c] = RemoveFirst(@, k)] /\ ch' = ch
          /\ inFlightByConsumer' = RemoveInFlightForConsumer(c, k)
      BY <1>4 DEF ReceiverHandle
    <2>2. RemoveFirst(got[c], k) \in Seq(Keys)
      BY <1>a, <2>1, RemoveFirstType
    <2>3. got' \in [Consumers -> Seq(Keys)]
      BY <1>a, <2>1, <2>2
    <2>4. CASE k \in Range(InFlightOf(c))
      <3>1. RemoveFirst(InFlightOf(c), k) \in Seq(Keys)
        BY <2>4, InFlightType, RemoveFirstType
      <3>2. inFlightByConsumer' = MapPut(inFlightByConsumer, c, RemoveFirst(InFlightOf(c), k))
        BY <2>1, <2>4 DEF RemoveInFlightForConsumer
      <3>3. /\ DOMAIN inFlightByConsumer' \subseteq Consumers
            /\ \A d \in DOMAIN inFlightByConsumer' : inFlightByConsumer'[d] \in Seq(Keys)
        BY <3>1, <3>2, PutList
      <3> QED
        BY <1>a, <2>1, <2>3, <3>3, SMTT(30) DEF ListsOK
    <2>5. CASE k \notin Range(InFlightOf(c))
      BY <1>a, <2>1, <2>3, <2>5 DEF RemoveInFlightForConsumer, ListsOK
    <2> QED
      BY <2>4, <2>5
  <1>5. ASSUME NEW c \in Consumers, TrySend(c), pc = "send",
               UNCHANGED <<got, inFlightByConsumer>>
        PROVE  ListsOK'
    <2>1. key \in Keys
      BY <1>5 DEF CallOK
    <2>2. Append(ch[c], key) \in Seq(Keys)
      BY <1>a, <2>1
    <2>3. ch' \in [Consumers -> Seq(Keys)]
      BY <1>a, <1>5, <2>2 DEF TrySend
    <2> QED
      BY <1>5, <2>3 DEF ListsOK
  <1>6. ASSUME NEW g \in Groups, SendToGroup(g) PROVE ListsOK'
    <2>1. PICK c : c = SelectConsumer(rrNext[<<topic, g>>], groupsLeft[g])
      OBVIOUS
    <2>2. TrySend(c) /\ pc = "send" /\ UNCHANGED <<got, inFlightByConsumer>>
      BY <1>6, <2>1 DEF SendToGroup
    <2>3. c \in Consumers
      BY <1>6, <2>1, <2>2, Selected, SMTT(30) DEF SendToGroup
    <2> QED
      BY <1>5, <2>2, <2>3
  <1>7. ASSUME NEW c \in Consumers, SendToUniversal(c) PROVE ListsOK'
    BY <1>5, <1>7 DEF SendToUniversal
  <1>8. ASSUME Track PROVE ListsOK'
    <2>1. target \in Consumers /\ key \in Keys
      BY <1>8 DEF Track, CallOK
    <2>2. Append(InFlightOf(target), key) \in Seq(Keys)
      BY <2>1, InFlightType
    <2>3. inFlightByConsumer' = MapPut(inFlightByConsumer, target, Append(InFlightOf(target), key))
      BY <1>8 DEF Track
    <2>4. /\ DOMAIN inFlightByConsumer' \subseteq Consumers
          /\ \A d \in DOMAIN inFlightByConsumer' : inFlightByConsumer'[d] \in Seq(Keys)
      BY <2>1, <2>2, <2>3, PutList
    <2> QED
      BY <1>8, <2>4 DEF Track, ListsOK
  <1> QED
    BY <1>1, <1>2, <1>3, <1>4, <1>6, <1>7, <1>8
    DEF Next, Register, Unregister, DispatchToTopic, Return

(* The copy that a dispatch call works on stays a subscription. *)
LEMMA CallStep ==
  ASSUME HubOK, CallOK, TurnsOK, Next
  PROVE  CallOK'
  <1>a. IsGroupMap(groupsLeft) /\ \A g \in DOMAIN groupsLeft : IsInjective(groupsLeft[g])
    BY DEF CallOK
  <1>1. CASE UNCHANGED <<pc, callVars>>
    BY <1>1 DEF CallOK, callVars
  <1>2. ASSUME NEW t \in Topics, NEW k \in Keys, DispatchToTopic(t, k) PROVE CallOK'
    <2>1. /\ t \in DOMAIN topics /\ pc' = "send" /\ topic' = t /\ key' = k
          /\ groupsLeft' = topics[t].groups /\ univLeft' = topics[t].universal
      BY <1>2 DEF DispatchToTopic, SubSnapshot
    <2>2. /\ IsGroupMap(topics[t].groups) /\ topics[t].universal \subseteq Consumers
          /\ \A g \in DOMAIN topics[t].groups : IsInjective(topics[t].groups[g])
      BY <2>1 DEF HubOK, TopicsTidy, SubTidy, IsSubscription
    <2> QED
      BY <2>1, <2>2 DEF CallOK
  <1>3. ASSUME NEW g \in Groups, SendToGroup(g) PROVE CallOK'
    <2>1. PICK c : c = SelectConsumer(rrNext[<<topic, g>>], groupsLeft[g])
      OBVIOUS
    <2>2. /\ TrySend(c) /\ pc = "send" /\ g \in DOMAIN groupsLeft
          /\ groupsLeft' = MapDelete(groupsLeft, {g}) /\ UNCHANGED <<topic, key, univLeft>>
      BY <1>3, <2>1 DEF SendToGroup
    <2>3. c \in Consumers
      BY <2>1, <2>2, Selected
    <2>4. IsGroupMap(groupsLeft') /\ \A h \in DOMAIN groupsLeft' : IsInjective(groupsLeft'[h])
      BY <1>a, <2>2 DEF MapDelete, Restrict, IsGroupMap
    <2>5. (pc' = "track" /\ target' = c) \/ (pc' = "send" /\ target' = target)
      BY <2>2 DEF TrySend
    <2> QED
      BY <2>2, <2>3, <2>4, <2>5, SMTT(30) DEF CallOK
  <1>4. ASSUME NEW c \in Consumers, SendToUniversal(c) PROVE CallOK'
    <2>1. (pc' = "track" /\ target' = c) \/ (pc' = "send" /\ target' = target)
      BY <1>4 DEF SendToUniversal, TrySend
    <2> QED
      BY <1>4, <2>1 DEF SendToUniversal, CallOK
  <1>5. CASE Track
    BY <1>5 DEF Track, CallOK
  <1>6. CASE Return
    BY <1>6 DEF Return, CallOK
  <1> QED
    BY <1>1, <1>2, <1>3, <1>4, <1>5, <1>6
    DEF Next, Register, Unregister, UnregisterInFlight, SenderSend, ReceiverHandle

(* Only consumers that have registered are sent to. *)
LEMMA NewStep ==
  ASSUME HubOK, ListsOK, CallOK, NewOK, TurnsOK, Next
  PROVE  NewOK'
  <1>a. /\ ch \in [Consumers -> Seq(Keys)] /\ got \in [Consumers -> Seq(Keys)]
        /\ phase \in [Consumers -> {"new", "registered", "leaving", "gone"}]
    BY DEF ListsOK, HubOK
  <1>b. /\ IsGroupMap(groupsLeft) /\ univLeft \subseteq Consumers
        /\ \A g \in DOMAIN groupsLeft : \A c \in Range(groupsLeft[g]) : c \in Consumers
    BY DEF CallOK, IsGroupMap, Range
  <1>1. ASSUME NEW c \in Consumers, NEW v, v # "new", phase' = [phase EXCEPT ![c] = v],
               UNCHANGED <<ch, got, groupsLeft, univLeft>>
        PROVE  NewOK'
    <2>1. \A d \in Consumers : phase'[d] = "new" => phase[d] = "new"
      BY <1>a, <1>1
    <2> QED
      BY <1>b, <1>1, <2>1 DEF NewOK
  <1>2. ASSUME NEW c \in Consumers, SenderSend(c) PROVE NewOK'
    <2>1. phase[c] # "new" /\ \A d \in Consumers : d # c => ch'[d] = ch[d] /\ got'[d] = got[d]
      BY <1>a, <1>2 DEF SenderSend, NewOK
    <2> QED
      BY <1>2, <2>1 DEF SenderSend, NewOK, callVars
  <1>3. ASSUME NEW c \in Consumers, NEW k \in Keys, ReceiverHandle(c, k) PROVE NewOK'
    <2>1. got[c] # <<>> /\ \A d \in Consumers : d # c => got'[d] = got[d]
      BY <1>a, <1>3 DEF ReceiverHandle, Range
    <2> QED
      BY <1>3, <2>1 DEF ReceiverHandle, NewOK, callVars
  <1>4. ASSUME NEW t \in Topics, NEW k \in Keys, DispatchToTopic(t, k) PROVE NewOK'
    <2>1. /\ t \in DOMAIN topics /\ UNCHANGED <<ch, got, phase>>
          /\ groupsLeft' = topics[t].groups /\ univLeft' = topics[t].universal
      BY <1>4 DEF DispatchToTopic, SubSnapshot
    <2>2. /\ IsGroupMap(topics[t].groups) /\ topics[t].universal \subseteq Consumers
      BY <2>1 DEF HubOK, TopicsTidy, SubTidy, IsSubscription
    <2>3. ASSUME NEW c \in Consumers, NEW g \in Groups \cup {NoGroup}, SubHas(topics[t], c, g)
          PROVE  phase[c] # "new"
      <3>1. Has(topics, c, t, g)
        BY <2>1, <2>3 DEF Has
      <3> QED
        BY <3>1 DEF HubOK
    <2>4. ASSUME NEW g \in DOMAIN topics[t].groups, NEW c \in Range(topics[t].groups[g])
          PROVE  phase[c] # "new"
      <3>1. g \in Groups /\ c \in Consumers /\ g # NoGroup
        BY <2>2, SubscriptionsAssumption DEF IsGroupMap, Range
      <3> QED
        BY <2>3, <3>1 DEF SubHas
    <2>5. ASSUME NEW c \in topics[t].universal PROVE phase[c] # "new"
      BY <2>2, <2>3 DEF SubHas
    <2> QED
      BY <2>1, <2>4, <2>5 DEF NewOK
  <1>5. ASSUME NEW c \in Consumers, phase[c] # "new", TrySend(c), UNCHANGED <<got, phase>>
        PROVE  \A d \in Consumers : phase'[d] = "new" => ch'[d] = <<>> /\ got'[d] = <<>>
    BY <1>a, <1>5 DEF TrySend, NewOK
  <1>6. ASSUME NEW g \in Groups, SendToGroup(g) PROVE NewOK'
    <2>1. PICK c : c = SelectConsumer(rrNext[<<topic, g>>], groupsLeft[g])
      OBVIOUS
    <2>2. /\ TrySend(c) /\ pc = "send" /\ g \in DOMAIN groupsLeft
          /\ groupsLeft' = MapDelete(groupsLeft, {g}) /\ UNCHANGED <<got, phase, univLeft>>
      BY <1>6, <2>1 DEF SendToGroup
    <2>3. c \in Consumers /\ c \in Range(groupsLeft[g])
      BY <2>1, <2>2, Selected
    <2>4. phase[c] # "new"
      BY <2>2, <2>3 DEF NewOK
    <2>5. \A d \in Consumers : phase'[d] = "new" => ch'[d] = <<>> /\ got'[d] = <<>>
      BY <1>5, <2>2, <2>3, <2>4, SMTT(30)
    <2>6. DOMAIN groupsLeft' \subseteq DOMAIN groupsLeft
          /\ \A h \in DOMAIN groupsLeft' : groupsLeft'[h] = groupsLeft[h]
      BY <2>2 DEF MapDelete, Restrict
    <2> QED
      BY <2>2, <2>5, <2>6 DEF NewOK
  <1>7. ASSUME NEW c \in Consumers, SendToUniversal(c) PROVE NewOK'
    <2>1. /\ TrySend(c) /\ c \in univLeft /\ univLeft' = univLeft \ {c}
          /\ UNCHANGED <<got, phase, groupsLeft>>
      BY <1>7 DEF SendToUniversal
    <2>2. \A d \in Consumers : phase'[d] = "new" => ch'[d] = <<>> /\ got'[d] = <<>>
      BY <1>5, <2>1 DEF NewOK
    <2> QED
      BY <2>1, <2>2 DEF NewOK
  <1>8. CASE UNCHANGED <<ch, got, phase, groupsLeft, univLeft>>
    BY <1>8 DEF NewOK
  <1>9. ASSUME NEW c \in Consumers, NEW t \in Topics, NEW g \in Groups \cup {NoGroup},
               Register(c, t, g)
        PROVE  NewOK'
    <2>1. phase' = [phase EXCEPT ![c] = "registered"] /\ UNCHANGED <<ch, got, groupsLeft, univLeft>>
      BY <1>9 DEF Register, callVars
    <2> QED
      BY <1>1, <2>1
  <1>10. ASSUME NEW c \in Consumers, Unregister(c) PROVE NewOK'
    <2>1. phase' = [phase EXCEPT ![c] = "leaving"] /\ UNCHANGED <<ch, got, groupsLeft, univLeft>>
      BY <1>10 DEF Unregister, callVars
    <2> QED
      BY <1>1, <2>1
  <1>11. ASSUME NEW c \in Consumers, UnregisterInFlight(c) PROVE NewOK'
    <2>1. phase' = [phase EXCEPT ![c] = "gone"] /\ UNCHANGED <<ch, got, groupsLeft, univLeft>>
      BY <1>11 DEF UnregisterInFlight, callVars
    <2> QED
      BY <1>1, <2>1
  <1> QED
    BY <1>2, <1>3, <1>4, <1>6, <1>7, <1>8, <1>9, <1>10, <1>11, SMTT(30)
    DEF Next, Track, Return

(* A pick follows the one before it, also after the list has changed. *)
LEMMA TurnsStep ==
  ASSUME CallOK, TurnsOK, Next
  PROVE  TurnsOK'
  <1>1. CASE UNCHANGED <<rrNext, turns>>
    BY <1>1 DEF TurnsOK
  <1>2. ASSUME NEW g \in Groups, SendToGroup(g) PROVE TurnsOK'
    <2>1. PICK tg : tg = <<topic, g>>
      OBVIOUS
    <2>2. PICK cand : cand = groupsLeft[g]
      OBVIOUS
    <2>3. /\ pc = "send" /\ g \in DOMAIN groupsLeft
          /\ rrNext' = [rrNext EXCEPT ![tg] = SelectNext(@, cand)]
          /\ turns' = [turns EXCEPT ![tg] = Picked(@, cand, SelectConsumer(rrNext[tg], cand))]
      BY <1>2, <2>1, <2>2 DEF SendToGroup
    <2>4. /\ cand \in Seq(Consumers) /\ cand # <<>>
          /\ rrNext[tg] \in Nat /\ tg \in Topics \X Groups
      BY <2>1, <2>2, <2>3, Selected
    <2>5. IsInjective(cand)
      BY <2>2, <2>3 DEF CallOK
    <2>6. TurnOK(turns[tg], rrNext[tg])
      BY <2>4 DEF TurnsOK
    <2>7. TurnOK(Picked(turns[tg], cand, SelectConsumer(rrNext[tg], cand)),
                 SelectNext(rrNext[tg], cand))
      BY <2>4, <2>5, <2>6, TurnStep
    <2>8. SelectNext(rrNext[tg], cand) \in Nat
      <3>1. Len(cand) \in Nat \ {0} /\ rrNext[tg] + 1 \in Nat
        BY <2>4
      <3>2. (rrNext[tg] + 1) % Len(cand) \in 0 .. Len(cand) - 1
        BY <3>1, ModSucc
      <3> QED
        BY <3>1, <3>2 DEF SelectNext
    <2>9. /\ rrNext \in [Topics \X Groups -> Nat] /\ DOMAIN turns = Topics \X Groups
          /\ \A x \in Topics \X Groups : TurnOK(turns[x], rrNext[x])
      BY DEF TurnsOK
    <2>10. rrNext' \in [Topics \X Groups -> Nat] /\ DOMAIN turns' = Topics \X Groups
      BY <2>3, <2>4, <2>8, <2>9
    <2>11. ASSUME NEW x \in Topics \X Groups PROVE TurnOK(turns'[x], rrNext'[x])
      <3>1. CASE x = tg
        BY <2>3, <2>4, <2>7, <2>9, <3>1, SMTT(30)
      <3>2. CASE x # tg
        BY <2>3, <2>9, <3>2
      <3> QED
        BY <3>1, <3>2
    <2> QED
      BY <2>10, <2>11 DEF TurnsOK
  <1> QED
    BY <1>1, <1>2
    DEF Next, Register, Unregister, UnregisterInFlight, SenderSend, ReceiverHandle,
        DispatchToTopic, SendToUniversal, Track, Return

(* OutstandingIsTracked, for one consumer and one key. *)
Pending(c, k) == IF pc = "track" /\ target = c /\ key = k THEN 1 ELSE 0

Tracked(c, k) ==
    Count(k, ch[c]) + Count(k, got[c]) <= Count(k, InFlightOf(c)) + Pending(c, k)

(* What OutstandingIsTracked counts are numbers. *)
LEMMA CountTypes ==
  ASSUME ListsOK, NEW c \in Consumers, NEW k
  PROVE  /\ ch[c] \in Seq(Keys) /\ got[c] \in Seq(Keys) /\ InFlightOf(c) \in Seq(Keys)
         /\ Count(k, ch[c]) \in Nat /\ Count(k, got[c]) \in Nat
         /\ Count(k, InFlightOf(c)) \in Nat
         /\ Pending(c, k) \in {0, 1}
  <1>1. ch[c] \in Seq(Keys) /\ got[c] \in Seq(Keys) /\ InFlightOf(c) \in Seq(Keys)
    BY InFlightType DEF ListsOK
  <1> QED
    BY <1>1, CountType DEF Pending

(* An answer takes one off both sides. *)
LEMMA CountRemoved ==
  ASSUME NEW s \in Seq(Keys), NEW e \in Range(s), NEW k
  PROVE  Count(k, RemoveFirst(s, e)) = Count(k, s) - (IF e = k THEN 1 ELSE 0)
  <1>1. PICK i \in 1 .. Len(s) : s[i] = e /\ RemoveFirst(s, e) \in Seq(Keys)
                                 /\ IsCut(s, i, RemoveFirst(s, e))
    BY CutFirst
  <1>2. Count(k, s) = Count(k, RemoveFirst(s, e)) + (IF s[i] = k THEN 1 ELSE 0)
    BY <1>1, CountCut
  <1>3. Count(k, s) \in Nat /\ Count(k, RemoveFirst(s, e)) \in Nat
    BY <1>1, CountType
  <1> QED
    BY <1>1, <1>2, <1>3

(* Taking the head of a channel counts one occurrence less. *)
LEMMA CountTail ==
  ASSUME NEW s \in Seq(Keys), s # <<>>, NEW k
  PROVE  Count(k, s) = Count(k, Tail(s)) + (IF Head(s) = k THEN 1 ELSE 0)
  <1>1. PICK i \in 1 .. Len(s) : i = 1
    OBVIOUS
  <1>2. PICK t \in Seq(Keys) : t = Tail(s)
    BY CutTail
  <1>3. Head(s) = s[i] /\ IsCut(s, i, t)
    BY <1>1, <1>2, CutTail
  <1>4. Count(k, s) = Count(k, t) + (IF s[i] = k THEN 1 ELSE 0)
    BY <1>3, CountCut
  <1> QED
    BY <1>2, <1>3, <1>4

(* A send is about to be recorded; a key moves from the channel to the     *)
(* client; an answer takes one occurrence from the client and at most one  *)
(* from the list.                                                          *)
LEMMA TrackedStep ==
  ASSUME Inv, Next, ListsOK'
  PROVE  OutstandingIsTracked'
  <1> SUFFICES ASSUME NEW c \in Consumers, NEW k \in Keys, phase'[c] = "registered"
               PROVE  Tracked(c, k)'
    BY DEF OutstandingIsTracked, Tracked, Pending
  <1>a. ListsOK /\ CallOK /\ TurnsOK /\ phase \in [Consumers -> {"new", "registered", "leaving", "gone"}]
    BY DEF Inv, HubOK
  <1>b. phase[c] = "registered" => Tracked(c, k)
    BY DEF Inv, OutstandingIsTracked, Tracked, Pending
  <1>c. /\ ch[c] \in Seq(Keys) /\ got[c] \in Seq(Keys) /\ InFlightOf(c) \in Seq(Keys)
        /\ Count(k, ch[c]) \in Nat /\ Count(k, got[c]) \in Nat
        /\ Count(k, InFlightOf(c)) \in Nat
        /\ Pending(c, k) \in {0, 1}
    BY <1>a, CountTypes
  <1>d. DOMAIN ch = Consumers /\ DOMAIN got = Consumers
    BY <1>a DEF ListsOK
  <1>1. ASSUME NEW d \in Consumers, NEW t \in Topics, NEW g \in Groups \cup {NoGroup},
               Register(d, t, g)
        PROVE  Tracked(c, k)'
    <2>1. /\ phase[d] = "new" /\ phase' = [phase EXCEPT ![d] = "registered"]
          /\ UNCHANGED <<ch, got, inFlightByConsumer, pc, target, key>>
      BY <1>1 DEF Register, callVars
    <2>2. CASE d = c
      <3>1. ch[c] = <<>> /\ got[c] = <<>>
        BY <2>1, <2>2 DEF Inv, NewOK
      <3>2. Count(k, ch[c]) = 0 /\ Count(k, got[c]) = 0
        BY <3>1, CountEmpty
      <3>3. Tracked(c, k)
        BY <1>c, <3>2 DEF Tracked
      <3> QED
        BY <2>1, <3>3 DEF Tracked, Pending, InFlightOf
    <2>3. CASE d # c
      BY <1>a, <1>b, <2>1, <2>3 DEF Tracked, Pending, InFlightOf
    <2> QED
      BY <2>2, <2>3
  <1>2. ASSUME NEW d \in Consumers, Unregister(d) PROVE Tracked(c, k)'
    <2>1. /\ phase' = [phase EXCEPT ![d] = "leaving"]
          /\ UNCHANGED <<ch, got, inFlightByConsumer, pc, target, key>>
      BY <1>2 DEF Unregister, callVars
    <2>2. phase[c] = "registered"
      BY <1>a, <2>1
    <2> QED
      BY <1>b, <2>1, <2>2 DEF Tracked, Pending, InFlightOf
  <1>3. ASSUME NEW d \in Consumers, UnregisterInFlight(d) PROVE Tracked(c, k)'
    <2>1. /\ phase' = [phase EXCEPT ![d] = "gone"]
          /\ inFlightByConsumer' = MapDelete(inFlightByConsumer, {d})
          /\ UNCHANGED <<ch, got, pc, target, key>>
      BY <1>3 DEF UnregisterInFlight, callVars
    <2>2. phase[c] = "registered" /\ c # d
      BY <1>a, <2>1
    <2>3. InFlightOf(c)' = InFlightOf(c)
      BY <2>1, <2>2 DEF InFlightOf, MapDelete, Restrict
    <2> QED
      BY <1>b, <2>1, <2>2, <2>3, SMTT(30) DEF Tracked, Pending
  <1>4. ASSUME NEW d \in Consumers, SenderSend(d) PROVE Tracked(c, k)'
    <2>1. /\ ch[d] # <<>> /\ ch' = [ch EXCEPT ![d] = Tail(@)]
          /\ got' = [got EXCEPT ![d] = Append(@, Head(ch[d]))]
          /\ UNCHANGED <<phase, inFlightByConsumer, pc, target, key>>
      BY <1>4 DEF SenderSend, callVars
    <2>2. Tracked(c, k) /\ InFlightOf(c)' = InFlightOf(c) /\ Pending(c, k)' = Pending(c, k)
      BY <1>b, <2>1 DEF InFlightOf, Pending
    <2>3. CASE d = c
      <3>1. ch[c] # <<>> /\ Tail(ch[c]) \in Seq(Keys) /\ Head(ch[c]) \in Keys
        BY <1>c, <2>1, <2>3
      <3>2. Count(k, ch[c]) = Count(k, Tail(ch[c])) + (IF Head(ch[c]) = k THEN 1 ELSE 0)
        BY <1>c, <3>1, CountTail
      <3>3. Count(k, Append(got[c], Head(ch[c]))) =
              Count(k, got[c]) + (IF Head(ch[c]) = k THEN 1 ELSE 0)
        BY <1>c, <3>1, CountAppend
      <3>4. Count(k, Tail(ch[c])) \in Nat
        BY <3>1, CountType
      <3>5. ch'[c] = Tail(ch[c]) /\ got'[c] = Append(got[c], Head(ch[c]))
        BY <1>d, <2>1, <2>3
      <3>6. Count(k, ch'[c]) + Count(k, got'[c]) = Count(k, ch[c]) + Count(k, got[c])
        BY <1>c, <3>2, <3>3, <3>4, <3>5, SMTT(30)
      <3> QED
        BY <2>2, <3>6 DEF Tracked
    <2>4. CASE d # c
      <3>1. ch'[c] = ch[c] /\ got'[c] = got[c]
        BY <1>d, <2>1, <2>4
      <3> QED
        BY <2>2, <3>1 DEF Tracked
    <2> QED
      BY <2>3, <2>4
  <1>5. ASSUME NEW d \in Consumers, NEW e \in Keys, ReceiverHandle(d, e) PROVE Tracked(c, k)'
    <2>1. /\ e \in Range(got[d]) /\ got' = [got EXCEPT ![d] = RemoveFirst(@, e)]
          /\ inFlightByConsumer' = RemoveInFlightForConsumer(d, e)
          /\ UNCHANGED <<phase, ch, pc, target, key>>
      BY <1>5 DEF ReceiverHandle, callVars
    <2>2. Tracked(c, k) /\ Pending(c, k)' = Pending(c, k)
      BY <1>b, <2>1 DEF Pending
    <2>3. CASE e \in Range(InFlightOf(d))
      <3>1. PICK list : list = RemoveFirst(InFlightOf(d), e)
        OBVIOUS
      <3>2. InFlightOf(d) \in Seq(Keys) /\ list \in Seq(Keys)
        BY <1>a, <2>3, <3>1, InFlightType, RemoveFirstType, SMTT(30)
      <3>3. inFlightByConsumer' = MapPut(inFlightByConsumer, d, list)
        BY <2>1, <2>3, <3>1 DEF RemoveInFlightForConsumer
      <3>4. InFlightOf(d)' = list /\ (d # c => InFlightOf(c)' = InFlightOf(c))
        BY <1>a, <3>2, <3>3, PutList, SMTT(30)
      <3>5. CASE d = c
        <4>1. Count(k, list) = Count(k, InFlightOf(c)) - (IF e = k THEN 1 ELSE 0)
          BY <2>3, <3>1, <3>2, <3>5, CountRemoved, SMTT(30)
        <4>2. Count(k, RemoveFirst(got[c], e)) = Count(k, got[c]) - (IF e = k THEN 1 ELSE 0)
          BY <1>c, <2>1, <3>5, CountRemoved, SMTT(30)
        <4>3. got'[c] = RemoveFirst(got[c], e)
          BY <1>d, <2>1, <3>5
        <4>4. Count(k, got'[c]) = Count(k, got[c]) - (IF e = k THEN 1 ELSE 0)
          BY <4>2, <4>3
        <4>5. Count(k, InFlightOf(c)') = Count(k, InFlightOf(c)) - (IF e = k THEN 1 ELSE 0)
          BY <3>4, <3>5, <4>1
        <4> QED
          BY <1>c, <2>1, <2>2, <4>4, <4>5, SMTT(30) DEF Tracked
      <3>6. CASE d # c
        <4>1. got'[c] = got[c]
          BY <1>d, <2>1, <3>6
        <4> QED
          BY <2>1, <2>2, <3>4, <3>6, <4>1, SMTT(30) DEF Tracked
      <3> QED
        BY <3>5, <3>6
    <2>4. CASE e \notin Range(InFlightOf(d))
      <3>1. InFlightOf(c)' = InFlightOf(c)
        BY <2>1, <2>4 DEF RemoveInFlightForConsumer, InFlightOf
      <3>2. Count(k, got'[c]) <= Count(k, got[c]) /\ Count(k, got'[c]) \in Nat
        <4>1. CASE d = c
          <5>1. Count(k, RemoveFirst(got[c], e)) = Count(k, got[c]) - (IF e = k THEN 1 ELSE 0)
            BY <1>c, <2>1, <4>1, CountRemoved, SMTT(30)
          <5>2. got'[c] = RemoveFirst(got[c], e) /\ got'[c] \in Seq(Keys)
            BY <1>c, <1>d, <2>1, <4>1, RemoveFirstType, SMTT(30)
          <5>3. Count(k, got'[c]) \in Nat
            BY <5>2, CountType
          <5> QED
            BY <1>c, <5>1, <5>2, <5>3, SMTT(30)
        <4>2. CASE d # c
          BY <1>c, <1>d, <2>1, <4>2, SMTT(30)
        <4> QED
          BY <4>1, <4>2
      <3>3. Count(k, ch'[c]) = Count(k, ch[c])
        BY <2>1
      <3> QED
        BY <1>c, <2>2, <3>1, <3>2, <3>3, SMTT(30) DEF Tracked
    <2> QED
      BY <2>3, <2>4
  <1>6. ASSUME NEW t \in Topics, NEW e \in Keys, DispatchToTopic(t, e) PROVE Tracked(c, k)'
    <2>1. /\ pc = "idle" /\ pc' = "send" /\ UNCHANGED <<phase, ch, got, inFlightByConsumer>>
      BY <1>6 DEF DispatchToTopic
    <2> QED
      BY <1>b, <2>1 DEF Tracked, Pending, InFlightOf
  <1>7. ASSUME NEW d \in Consumers, pc = "send", TrySend(d),
               UNCHANGED <<phase, got, inFlightByConsumer, key>>
        PROVE  Tracked(c, k)'
    <2>1. Tracked(c, k) /\ InFlightOf(c)' = InFlightOf(c) /\ Pending(c, k) = 0 /\ key \in Keys
      BY <1>a, <1>b, <1>7 DEF InFlightOf, Pending, CallOK
    <2>2. CASE Len(ch[d]) < ChanCap
      <3>1. ch' = [ch EXCEPT ![d] = Append(@, key)] /\ pc' = "track" /\ target' = d
        BY <1>7, <2>2 DEF TrySend
      <3>2. CASE d = c
        <4>1. Count(k, Append(ch[c], key)) = Count(k, ch[c]) + (IF key = k THEN 1 ELSE 0)
          BY <1>c, <2>1, CountAppend
        <4>2. ch'[c] = Append(ch[c], key)
          BY <1>d, <3>1, <3>2
        <4>3. Pending(c, k)' = IF key = k THEN 1 ELSE 0
          BY <1>7, <3>1, <3>2 DEF Pending
        <4> QED
          BY <1>c, <1>7, <2>1, <4>1, <4>2, <4>3, SMTT(30) DEF Tracked
      <3>3. CASE d # c
        <4>1. ch'[c] = ch[c] /\ Pending(c, k)' = 0
          BY <1>d, <3>1, <3>3 DEF Pending
        <4> QED
          BY <1>7, <2>1, <4>1 DEF Tracked
      <3> QED
        BY <3>2, <3>3
    <2>3. CASE ~(Len(ch[d]) < ChanCap)
      <3>1. UNCHANGED <<ch, pc, target>>
        BY <1>7, <2>3 DEF TrySend
      <3> QED
        BY <1>7, <2>1, <3>1 DEF Tracked, Pending
    <2> QED
      BY <2>2, <2>3
  <1>8. ASSUME NEW g \in Groups, SendToGroup(g) PROVE Tracked(c, k)'
    <2>1. PICK d : d = SelectConsumer(rrNext[<<topic, g>>], groupsLeft[g])
      OBVIOUS
    <2>2. /\ TrySend(d) /\ pc = "send" /\ g \in DOMAIN groupsLeft
          /\ UNCHANGED <<phase, got, inFlightByConsumer, key>>
      BY <1>8, <2>1 DEF SendToGroup
    <2>3. d \in Consumers
      BY <1>a, <2>1, <2>2, Selected
    <2> QED
      BY <1>7, <2>2, <2>3
  <1>9. ASSUME NEW d \in Consumers, SendToUniversal(d) PROVE Tracked(c, k)'
    BY <1>7, <1>9 DEF SendToUniversal
  <1>10. ASSUME Track PROVE Tracked(c, k)'
    <2>1. /\ pc = "track" /\ pc' = "send" /\ UNCHANGED <<phase, ch, got>>
          /\ inFlightByConsumer' =
                MapPut(inFlightByConsumer, target, Append(InFlightOf(target), key))
      BY <1>10 DEF Track
    <2>2. target \in Consumers /\ key \in Keys /\ Tracked(c, k) /\ Pending(c, k)' = 0
      BY <1>a, <1>b, <2>1 DEF CallOK, Pending
    <2>3. PICK list : list = Append(InFlightOf(target), key)
      OBVIOUS
    <2>4. InFlightOf(target) \in Seq(Keys) /\ list \in Seq(Keys)
      BY <1>a, <2>2, <2>3, InFlightType
    <2>5. \A x \in Consumers : x # target => InFlightOf(x)' = InFlightOf(x)
      BY <2>1 DEF MapPut, InFlightOf
    <2>6. CASE target = c
      <3>1. Count(k, list) = Count(k, InFlightOf(c)) + (IF key = k THEN 1 ELSE 0)
        BY <1>c, <2>2, <2>3, <2>6, CountAppend, SMTT(30)
      <3>2. Pending(c, k) = IF key = k THEN 1 ELSE 0
        BY <2>1, <2>6 DEF Pending
      <3>3. InFlightOf(c)' = list
        BY <2>1, <2>4, <2>6, <2>2, <2>3, SMTT(30) DEF InFlightOf, MapPut
      <3> QED
        BY <1>c, <2>1, <2>2, <3>1, <3>2, <3>3, SMTT(30) DEF Tracked
    <2>7. CASE target # c
      <3>1. Pending(c, k) = 0 /\ InFlightOf(c)' = InFlightOf(c)
        BY <2>5, <2>7 DEF Pending
      <3> QED
        BY <2>1, <2>2, <3>1 DEF Tracked
    <2> QED
      BY <2>6, <2>7
  <1>11. ASSUME Return PROVE Tracked(c, k)'
    <2>1. pc = "send" /\ pc' = "idle" /\ UNCHANGED <<phase, ch, got, inFlightByConsumer>>
      BY <1>11 DEF Return
    <2> QED
      BY <1>b, <2>1 DEF Tracked, Pending, InFlightOf
  <1> QED
    BY <1>1, <1>2, <1>3, <1>4, <1>5, <1>6, <1>8, <1>9, <1>10, <1>11, SMTT(30) DEF Next

(* The invariant speaks of the variables only. *)
LEMMA Stutter ==
  ASSUME Inv, UNCHANGED vars
  PROVE  Inv'
  <1> USE DEF vars, callVars
  <1>1. HubOK'
    BY DEF Inv, HubOK
  <1>2. ListsOK' /\ CallOK' /\ NewOK'
    BY DEF Inv, ListsOK, CallOK, NewOK
  <1>3. TurnsOK'
    BY DEF Inv, TurnsOK
  <1>4. OutstandingIsTracked'
    BY DEF Inv, OutstandingIsTracked, InFlightOf
  <1> QED
    BY <1>1, <1>2, <1>3, <1>4 DEF Inv

(* The invariant of the hub, from which the rest follows. *)
THEOREM InvCorrect == Spec => []Inv
  <1>1. ASSUME Inv, Next PROVE Inv'
    <2>1. HubOK /\ ListsOK /\ CallOK /\ NewOK /\ TurnsOK
      BY <1>1 DEF Inv
    <2>2. ListsOK'
      BY <1>1, <2>1, ListsStep
    <2> QED
      BY <1>1, <2>1, <2>2, HubStep, CallStep, NewStep, TurnsStep, TrackedStep, SMTT(30) DEF Inv
  <1>2. Inv /\ [Next]_vars => Inv'
    BY <1>1, Stutter
  <1> QED
    BY InitInv, <1>2, PTL DEF Spec

(* Hub.topics and Hub.byID list the same consumers in the same places,     *)
(* each once, whatever the order of Register and Unregister: HasConsumers, *)
(* ActiveTopics and DispatchToTopic answer from one truth.                 *)
THEOREM HubIndexesAgree == Spec => []IndexesAgree
  <1>1. Inv => IndexesAgree
    BY DEF Inv, HubOK, IndexesAgree, Listed, Has, SubHas, TopicsTidy, SubTidy
  <1> QED
    BY <1>1, InvCorrect, PTL

(* Select never takes a member of a group again before it has taken all    *)
(* the others, for groups of any size and a counter that members joining   *)
(* and leaving put anywhere.                                               *)
THEOREM SelectIsFair == Spec => []RoundRobinFair
  <1>1. Inv => RoundRobinFair
    BY TurnFair DEF Inv, TurnsOK, RoundRobinFair
  <1> QED
    BY <1>1, InvCorrect, PTL

(* What a connected consumer was sent and has not answered is in its       *)
(* in-flight list, though trySend records a key only after sending it and  *)
(* the answer may come in between.                                         *)
THEOREM NothingForgotten == Spec => []OutstandingIsTracked
  <1>1. Inv => OutstandingIsTracked
    BY DEF Inv
  <1> QED
    BY <1>1, InvCorrect, PTL
=============================================================================
