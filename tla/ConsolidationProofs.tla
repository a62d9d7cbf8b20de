------------------------ MODULE ConsolidationProofs ------------------------
(***************************************************************************)
(* Theorems about Consolidation, for any users, groups and topics, any     *)
(* number of passes at once, any budget, and any number of writes and      *)
(* failures; and about the clusters a pass asks the model to merge         *)
(* (Nightly), for any memories linked in any order.                        *)
(***************************************************************************)
EXTENDS PassRules, FiniteSetTheorems, SequenceTheorems, WellFoundedInduction, TLAPS

-----------------------------------------------------------------------------
(* Clusters.                                                               *)

\* A set of numbers that has each number all of whose predecessors it has.
LEMMA CountingAll ==
  ASSUME NEW S, \A n \in Nat : (\A m \in Nat : m < n => m \in S) => n \in S
  PROVE  \A n \in Nat : n \in S
<1> DEFINE R == {ss \in Nat \X Nat : ss[1] < ss[2]}
           T == Nat \ S
<1>1. IsWellFoundedOn(R, Nat)
  BY NatLessThanWellFounded DEF OpToRel
<1> SUFFICES ASSUME T # {} PROVE FALSE
  OBVIOUS
<1>2. PICK x \in T : \A y \in T : ~(<<y, x>> \in R)
  <2> HIDE DEF R, T
  <2>1. T \subseteq Nat
    BY DEF T
  <2> QED BY <1>1, <2>1, WFMin
<1>3. \A m \in Nat : m < x => m \in S
  BY <1>2
<1> QED BY <1>2, <1>3

\* Slots 1..n, each attached to an earlier one or itself, and g the roots.
Forest(parent, g, n) ==
  /\ DOMAIN parent = 1..n /\ g = [p \in 1..n |-> g[p]]
  /\ \A p \in 1..n : parent[p] \in 1..p
  /\ \A p \in 1..n : g[p] = IF parent[p] = p THEN p ELSE g[parent[p]]

\* Going up ends at an earlier slot, which is its own root.
LEMMA RootsAreEarliest ==
  ASSUME NEW n \in Nat, NEW parent, NEW g, Forest(parent, g, n)
  PROVE  \A p \in 1..n : g[p] \in 1..p /\ parent[g[p]] = g[p] /\ g[g[p]] = g[p]
<1> DEFINE S == {p \in Nat : p \in 1..n => g[p] \in 1..p /\ parent[g[p]] = g[p]}
<1>1. ASSUME NEW p \in Nat, \A m \in Nat : m < p => m \in S PROVE p \in S
  <2> SUFFICES ASSUME p \in 1..n PROVE g[p] \in 1..p /\ parent[g[p]] = g[p]
    OBVIOUS
  <2>1. parent[p] \in 1..p /\ g[p] = IF parent[p] = p THEN p ELSE g[parent[p]]
    BY DEF Forest
  <2>2. CASE parent[p] = p
    BY <2>1, <2>2
  <2>3. CASE parent[p] # p
    <3>1. PICK q \in Nat : q = parent[p] /\ q < p /\ q \in 1..n
      BY <2>1, <2>3
    <3>2. g[q] \in 1..q /\ parent[g[q]] = g[q]
      BY <1>1, <3>1
    <3> QED BY <2>1, <2>3, <3>1, <3>2
  <2> QED BY <2>2, <2>3
<1>2. \A p \in Nat : p \in S
  <2> HIDE DEF S
  <2> QED BY <1>1, CountingAll
<1> SUFFICES ASSUME NEW p \in 1..n PROVE g[p] \in 1..p /\ parent[g[p]] = g[p] /\ g[g[p]] = g[p]
  OBVIOUS
<1>3. g[p] \in 1..p /\ parent[g[p]] = g[p]
  BY <1>2
<1>4. g[p] \in 1..n
  BY <1>3
<1> QED BY <1>3, <1>4 DEF Forest

\* There is one way to go up.
LEMMA RootsAreUnique ==
  ASSUME NEW n \in Nat, NEW parent, NEW g, NEW h, Forest(parent, g, n), Forest(parent, h, n)
  PROVE  h = g
<1> DEFINE S == {p \in Nat : p \in 1..n => h[p] = g[p]}
<1>1. ASSUME NEW p \in Nat, \A m \in Nat : m < p => m \in S PROVE p \in S
  <2> SUFFICES ASSUME p \in 1..n PROVE h[p] = g[p]
    OBVIOUS
  <2>1. /\ parent[p] \in 1..p /\ g[p] = IF parent[p] = p THEN p ELSE g[parent[p]]
        /\ h[p] = IF parent[p] = p THEN p ELSE h[parent[p]]
    BY DEF Forest
  <2>2. CASE parent[p] = p
    BY <2>1, <2>2
  <2>3. CASE parent[p] # p
    <3>1. PICK q \in Nat : q = parent[p] /\ q < p /\ q \in 1..n
      BY <2>1, <2>3
    <3>2. h[q] = g[q]
      BY <1>1, <3>1
    <3> QED BY <2>1, <2>3, <3>1, <3>2
  <2> QED BY <2>2, <2>3
<1>2. \A p \in Nat : p \in S
  <2> HIDE DEF S
  <2> QED BY <1>1, CountingAll
<1>3. \A p \in 1..n : h[p] = g[p]
  BY <1>2
<1>4. g = [p \in 1..n |-> g[p]] /\ h = [p \in 1..n |-> h[p]]
  BY DEF Forest
<1>5. [p \in 1..n |-> h[p]] = [p \in 1..n |-> g[p]]
  BY <1>3
<1> QED BY <1>4, <1>5

\* Such slots have roots, and Roots says which.
LEMMA RootsOfForest ==
  ASSUME NEW n \in Nat, NEW parent, NEW g, Forest(parent, g, n)
  PROVE  Roots(parent) = g
<1> DEFINE Is(f) == f = [p \in DOMAIN parent |-> IF parent[p] = p THEN p ELSE f[parent[p]]]
           h == CHOOSE f : Is(f)
<1>1. Is(g)
  BY DEF Forest
<1>2. Is(h)
  <2> HIDE DEF Is
  <2> QED BY <1>1
<1>3. Roots(parent) = h
  BY DEF Roots
<1> HIDE DEF h
<1>4. DOMAIN parent = 1..n
  BY DEF Forest
<1>5. h = [p \in 1..n |-> IF parent[p] = p THEN p ELSE h[parent[p]]]
  BY <1>2, <1>4
<1>6. \A p \in 1..n : h[p] = IF parent[p] = p THEN p ELSE h[parent[p]]
  BY <1>5
<1>7. h = [p \in 1..n |-> h[p]]
  BY <1>5, <1>6
<1>8. Forest(parent, h, n)
  BY <1>6, <1>7 DEF Forest
<1> QED BY <1>3, <1>8, RootsAreUnique

\* A slot of its own.
LEMMA ForestGrows ==
  ASSUME NEW n \in Nat, NEW parent \in Seq(Nat), Len(parent) = n, NEW g, Forest(parent, g, n)
  PROVE  /\ Append(parent, n + 1) \in Seq(Nat) /\ Len(Append(parent, n + 1)) = n + 1
         /\ Forest(Append(parent, n + 1), [p \in 1..n + 1 |-> IF p <= n THEN g[p] ELSE p], n + 1)
<1> DEFINE longer == Append(parent, n + 1)
           h == [p \in 1..n + 1 |-> IF p <= n THEN g[p] ELSE p]
<1>1. /\ longer \in Seq(Nat) /\ Len(longer) = n + 1 /\ longer[n + 1] = n + 1
      /\ \A p \in 1..n : longer[p] = parent[p]
  BY AppendProperties
<1>2. DOMAIN longer = 1..n + 1
  BY <1>1
<1>3. \A p \in 1..n + 1 : p \in 1..n \/ p = n + 1
  OBVIOUS
<1> HIDE DEF longer
<1>4. /\ \A p \in 1..n : h[p] = g[p]
      /\ h[n + 1] = n + 1 /\ h = [p \in 1..n + 1 |-> h[p]]
  OBVIOUS
<1> HIDE DEF h
<1>5. \A p \in 1..n + 1 : longer[p] \in 1..p
  BY <1>1, <1>3 DEF Forest
<1>6. ASSUME NEW p \in 1..n + 1 PROVE h[p] = IF longer[p] = p THEN p ELSE h[longer[p]]
  <2>1. CASE p = n + 1
    BY <1>1, <1>4, <2>1
  <2>2. CASE p \in 1..n
    <3>1. longer[p] = parent[p] /\ parent[p] \in 1..p /\ g[p] = IF parent[p] = p THEN p ELSE g[parent[p]]
      BY <1>1, <2>2 DEF Forest
    <3>2. parent[p] \in 1..n
      BY <2>2, <3>1
    <3> QED BY <1>4, <2>2, <3>1, <3>2
  <2> QED BY <1>3, <2>1, <2>2
<1>7. Forest(longer, h, n + 1)
  BY <1>2, <1>4, <1>5, <1>6 DEF Forest
<1> QED BY <1>1, <1>7 DEF longer, h

\* A slot nobody is above.
IsRoot(parent, p) == parent[p] = p

\* One root attached to an earlier one: its slots go up to that one.
LEMMA ForestJoins ==
  ASSUME NEW n \in Nat, NEW parent, NEW g, Forest(parent, g, n),
         NEW lo \in 1..n, NEW hi \in 1..n, lo <= hi, IsRoot(parent, lo), IsRoot(parent, hi)
  PROVE  Forest([parent EXCEPT ![hi] = lo], [p \in 1..n |-> IF g[p] = hi THEN lo ELSE g[p]], n)
<1> DEFINE joined == [parent EXCEPT ![hi] = lo]
           h == [p \in 1..n |-> IF g[p] = hi THEN lo ELSE g[p]]
<1>1. DOMAIN parent = 1..n /\ parent[lo] = lo /\ parent[hi] = hi
  BY DEF Forest, IsRoot
<1>2. joined[hi] = lo /\ DOMAIN joined = 1..n /\ \A p \in 1..n : p # hi => joined[p] = parent[p]
  BY <1>1
<1> HIDE DEF joined
<1>4. h = [p \in 1..n |-> h[p]] /\ \A p \in 1..n : h[p] = IF g[p] = hi THEN lo ELSE g[p]
  OBVIOUS
<1> HIDE DEF h
<1>5. \A p \in 1..n : joined[p] \in 1..p
  BY <1>2 DEF Forest
<1>6. ASSUME NEW p \in 1..n PROVE h[p] = IF joined[p] = p THEN p ELSE h[joined[p]]
  <2>1. g[lo] = lo /\ g[hi] = hi
    BY <1>1 DEF Forest
  <2>2. CASE p = hi
    <3>1. h[p] = lo /\ h[lo] = lo /\ joined[p] = lo
      BY <1>2, <1>4, <2>1, <2>2
    <3> QED BY <2>2, <3>1
  <2>3. CASE p # hi
    <3>1. joined[p] = parent[p] /\ parent[p] \in 1..p /\ g[p] = IF parent[p] = p THEN p ELSE g[parent[p]]
      BY <1>2, <2>3 DEF Forest
    <3>2. parent[p] \in 1..n
      BY <3>1
    <3> QED BY <1>4, <2>3, <3>1, <3>2
  <2> QED BY <2>2, <2>3
<1>7. Forest(joined, h, n)
  BY <1>2, <1>4, <1>5, <1>6 DEF Forest
<1> QED BY <1>7 DEF joined, h

\* Linked, however indirectly, by the first k links: whatever a link does not
\* lead out of has both or neither.
Together(Ids, links, k, a, b) ==
  \A S \in SUBSET Ids :
    (\A i \in 1..k : links[i][1] \in S <=> links[i][2] \in S) => (a \in S <=> b \in S)

\* A builder whose slots have the roots g.
Slots(Ids, builder, g, n) ==
  /\ builder = [order |-> builder.order, parent |-> builder.parent]
  /\ builder.order \in Seq(Ids) /\ Len(builder.order) = n
  /\ builder.parent \in Seq(Nat) /\ Len(builder.parent) = n
  /\ \A p, q \in 1..n : builder.order[p] = builder.order[q] => p = q
  /\ Forest(builder.parent, g, n)

\* Slots are those of the ids linked so far, and have one root exactly if they
\* are linked.
Holds(Ids, links, k, builder, g, n) ==
  /\ Slots(Ids, builder, g, n)
  /\ \A p \in 1..n : \E i \in 1..k :
       links[i][1] # links[i][2] /\ builder.order[p] \in {links[i][1], links[i][2]}
  /\ \A i \in 1..k : links[i][1] # links[i][2] =>
       \E p, q \in 1..n :
         builder.order[p] = links[i][1] /\ builder.order[q] = links[i][2] /\ g[p] = g[q]
  /\ \A p, q \in 1..n : g[p] = g[q] => Together(Ids, links, k, builder.order[p], builder.order[q])

\* A slot is where its id was first seen, and no other.
LEMMA SlotIsThePlace ==
  ASSUME NEW Ids, NEW builder, NEW g, NEW n \in Nat, Slots(Ids, builder, g, n), NEW p \in 1..n
  PROVE  SlotOf(builder, builder.order[p]) = p /\ Root(builder, builder.order[p]) = g[p]
<1>1. DOMAIN builder.order = 1..n
  BY DEF Slots
<1>2. SlotOf(builder, builder.order[p]) = p
  BY <1>1 DEF Slots, SlotOf
<1>3. Roots(builder.parent) = g
  BY RootsOfForest DEF Slots
<1> QED BY <1>2, <1>3 DEF Root

\* What a builder is once some ids were given slots: a new slot is its own root.
Slotting(Ids, builder, g, n, later, h, m, ids) ==
  /\ Slots(Ids, later, h, m)
  /\ 1..n \subseteq 1..m
  /\ \A p \in 1..n : later.order[p] = builder.order[p] /\ h[p] = g[p]
  /\ \A id \in ids : \E p \in 1..m : later.order[p] = id
  /\ \A p \in 1..m : p \notin 1..n =>
       later.order[p] \in ids /\ \A q \in 1..m : h[q] = h[p] => q = p

\* An id given a slot has one, and no other id loses its own.
LEMMA SlottedHasASlot ==
  ASSUME NEW Ids, NEW builder, NEW g, NEW n \in Nat, Slots(Ids, builder, g, n), NEW id \in Ids
  PROVE  \E m \in Nat : \E h : Slotting(Ids, builder, g, n, Slotted(builder, id), h, m, {id})
<1>1. DOMAIN builder.order = 1..n
  BY DEF Slots
<1>2. CASE \E p \in 1..n : builder.order[p] = id
  <2>1. Slotted(builder, id) = builder
    BY <1>1, <1>2 DEF Slotted
  <2>2. Slotting(Ids, builder, g, n, builder, g, n, {id})
    BY <1>2 DEF Slotting
  <2> QED BY <2>1, <2>2
<1>3. CASE ~ \E p \in 1..n : builder.order[p] = id
  <2> DEFINE order == Append(builder.order, id)
             parent == Append(builder.parent, n + 1)
             h == [p \in 1..n + 1 |-> IF p <= n THEN g[p] ELSE p]
  <2>1. Slotted(builder, id) = [order |-> order, parent |-> parent]
    BY <1>1, <1>3 DEF Slotted, Slots
  <2>2. parent \in Seq(Nat) /\ Len(parent) = n + 1 /\ Forest(parent, h, n + 1)
    BY ForestGrows DEF Slots
  <2>3. /\ order \in Seq(Ids) /\ Len(order) = n + 1 /\ order[n + 1] = id
        /\ \A p \in 1..n : order[p] = builder.order[p]
    BY AppendProperties DEF Slots
  <2>4. \A p \in 1..n : h[p] = g[p] /\ g[p] \in 1..n
    <3>1. \A p \in 1..n : h[p] = g[p]
      OBVIOUS
    <3>2. \A p \in 1..n : g[p] \in 1..p
      BY RootsAreEarliest DEF Slots
    <3> QED BY <3>1, <3>2
  <2>5. h[n + 1] = n + 1
    OBVIOUS
  <2> HIDE DEF order, parent, h
  <2>6. \A p \in 1..n + 1 : p \in 1..n \/ p = n + 1
    OBVIOUS
  <2>7. \A p, q \in 1..n + 1 : order[p] = order[q] => p = q
    BY <1>3, <2>3, <2>6 DEF Slots
  <2>8. PICK later : later = Slotted(builder, id)
    OBVIOUS
  <2>9. later.order = order /\ Slots(Ids, later, h, n + 1)
    BY <2>1, <2>2, <2>3, <2>7, <2>8 DEF Slots
  <2>10. \A q \in 1..n + 1 : h[q] = h[n + 1] => q = n + 1
    BY <2>4, <2>5, <2>6
  <2>11. /\ n + 1 \in Nat /\ 1..n \subseteq 1..n + 1 /\ n + 1 \in 1..n + 1
         /\ \A p \in 1..n + 1 : p \notin 1..n => p = n + 1
    BY <2>6
  <2>12. Slotting(Ids, builder, g, n, later, h, n + 1, {id})
    BY <2>3, <2>4, <2>9, <2>10, <2>11 DEF Slotting
  <2> QED BY <2>8, <2>11, <2>12
<1> QED BY <1>2, <1>3

\* Both ends of a link are given slots, in the order they are met.
LEMMA BothHaveSlots ==
  ASSUME NEW Ids, NEW builder, NEW g, NEW n \in Nat, Slots(Ids, builder, g, n),
         NEW a \in Ids, NEW b \in Ids
  PROVE  \E m \in Nat : \E h :
           Slotting(Ids, builder, g, n, Slotted(Slotted(builder, a), b), h, m, {a, b})
<1>1. PICK one : one = Slotted(builder, a)
  OBVIOUS
<1>2. PICK l \in Nat : \E f : Slotting(Ids, builder, g, n, one, f, l, {a})
  BY <1>1, SlottedHasASlot
<1>3. PICK f : Slotting(Ids, builder, g, n, one, f, l, {a})
  BY <1>2
<1>4. PICK both : both = Slotted(one, b)
  OBVIOUS
<1>5. Slots(Ids, one, f, l)
  BY <1>3 DEF Slotting
<1>6. PICK m \in Nat : \E h : Slotting(Ids, one, f, l, both, h, m, {b})
  BY <1>4, <1>5, SlottedHasASlot
<1>7. PICK h : Slotting(Ids, one, f, l, both, h, m, {b})
  BY <1>6
<1>8. ASSUME NEW p \in 1..m, p \notin 1..n
      PROVE  both.order[p] \in {a, b} /\ \A q \in 1..m : h[q] = h[p] => q = p
  <2>1. CASE p \in 1..l
    <3>1. both.order[p] = a /\ h[p] = f[p] /\ \A q \in 1..l : f[q] = f[p] => q = p
      BY <1>3, <1>7, <1>8, <2>1 DEF Slotting
    <3>2. ASSUME NEW q \in 1..m, h[q] = h[p] PROVE q = p
      BY <1>7, <2>1, <3>1, <3>2 DEF Slotting
    <3> QED BY <3>1, <3>2
  <2>2. CASE p \notin 1..l
    BY <1>7, <2>2 DEF Slotting
  <2> QED BY <2>1, <2>2
<1>9. Slots(Ids, both, h, m) /\ 1..n \subseteq 1..m
  BY <1>3, <1>7 DEF Slotting
<1>10. \A p \in 1..n : both.order[p] = builder.order[p] /\ h[p] = g[p]
  BY <1>3, <1>7 DEF Slotting
<1>11. \A id \in {a, b} : \E p \in 1..m : both.order[p] = id
  BY <1>3, <1>7 DEF Slotting
<1>12. Slotting(Ids, builder, g, n, both, h, m, {a, b})
  BY <1>8, <1>9, <1>10, <1>11 DEF Slotting
<1> QED BY <1>1, <1>4, <1>12

\* What is linked stays linked by more links.
LEMMA TogetherStays ==
  ASSUME NEW Ids, NEW links, NEW k \in Nat, NEW a, NEW b, Together(Ids, links, k, a, b)
  PROVE  Together(Ids, links, k + 1, a, b)
<1>1. \A i \in 1..k : i \in 1..k + 1
  OBVIOUS
<1> QED BY <1>1 DEF Together

\* One more link: the two groups become one, under the earlier root.
LEMMA LinkingHolds ==
  ASSUME NEW Ids, NEW links \in Seq(Ids \X Ids), NEW k \in Nat, k < Len(links),
         NEW builder, NEW g, NEW n \in Nat, Holds(Ids, links, k, builder, g, n)
  PROVE  \E m \in Nat : \E f :
           Holds(Ids, links, k + 1, Link(builder, links[k + 1][1], links[k + 1][2]), f, m)
<1>1. PICK a \in Ids, b \in Ids : a = links[k + 1][1] /\ b = links[k + 1][2]
  BY ElementOfSeq
<1>2. /\ \A i \in 1..k + 1 : i \in 1..k \/ i = k + 1
      /\ 1..k \subseteq 1..k + 1 /\ k + 1 \in 1..k + 1
  OBVIOUS
<1>3. CASE a = b
  <2>1. Link(builder, a, b) = builder
    BY <1>3 DEF Link
  <2>2. Holds(Ids, links, k + 1, builder, g, n)
    <3>1. \A p, q \in 1..n : g[p] = g[q] => Together(Ids, links, k + 1, builder.order[p], builder.order[q])
      BY TogetherStays DEF Holds
    <3> QED BY <1>1, <1>2, <1>3, <3>1 DEF Holds
  <2> QED BY <1>1, <2>1, <2>2
<1>4. CASE a # b
  <2>1. PICK both : both = Slotted(Slotted(builder, a), b)
    OBVIOUS
  <2>2. PICK m \in Nat : \E h : Slotting(Ids, builder, g, n, both, h, m, {a, b})
    BY <2>1, BothHaveSlots DEF Holds
  <2>3. PICK h : Slotting(Ids, builder, g, n, both, h, m, {a, b})
    BY <2>2
  <2>4. Slots(Ids, both, h, m)
    BY <2>3 DEF Slotting
  <2>5. PICK s \in 1..m, t \in 1..m : both.order[s] = a /\ both.order[t] = b
    BY <2>3 DEF Slotting
  <2>6. Root(both, a) = h[s] /\ Root(both, b) = h[t]
    BY <2>4, <2>5, SlotIsThePlace
  <2>7. \A p \in 1..m : h[p] \in 1..m /\ both.parent[h[p]] = h[p] /\ h[h[p]] = h[p]
    <3>1. \A p \in 1..m : h[p] \in 1..p /\ both.parent[h[p]] = h[p] /\ h[h[p]] = h[p]
      BY <2>4, RootsAreEarliest DEF Slots
    <3> QED BY <3>1
  <2>8. PICK lo \in 1..m, hi \in 1..m : /\ lo = (IF h[s] < h[t] THEN h[s] ELSE h[t])
                                        /\ hi = (IF h[s] < h[t] THEN h[t] ELSE h[s])
    BY <2>7
  <2>9. lo <= hi /\ both.parent[lo] = lo /\ both.parent[hi] = hi /\ {lo, hi} = {h[s], h[t]}
    BY <2>7, <2>8
  <2>10. PICK parent : parent = [both.parent EXCEPT ![hi] = lo]
    OBVIOUS
  <2>11. PICK f : f = [p \in 1..m |-> IF h[p] = hi THEN lo ELSE h[p]]
    OBVIOUS
  <2>12. Len(parent) = m /\ parent \in Seq(Nat) /\ Forest(parent, f, m)
    <3>1. PICK old \in Seq(Nat) : old = both.parent /\ Len(old) = m /\ Forest(old, h, m)
      BY <2>4 DEF Slots
    <3>2. lo <= hi /\ IsRoot(old, lo) /\ IsRoot(old, hi)
      BY <2>9, <3>1 DEF IsRoot
    <3>3. Forest([old EXCEPT ![hi] = lo], [p \in 1..m |-> IF h[p] = hi THEN lo ELSE h[p]], m)
      BY <3>1, <3>2, ForestJoins
    <3>4. parent \in Seq(Nat) /\ Len(parent) = m
      BY <2>10, <3>1
    <3> QED BY <2>10, <2>11, <3>1, <3>3, <3>4
  <2>13. PICK later : later = [order |-> both.order, parent |-> parent]
    OBVIOUS
  <2>14. Link(builder, a, b) = later
    <3>1. Link(builder, a, b) = [both EXCEPT !.parent[hi] = lo]
      BY <1>4, <2>1, <2>6, <2>8 DEF Link
    <3>2. PICK o, q : both = [order |-> o, parent |-> q] /\ o = both.order /\ q = both.parent
      BY <2>4 DEF Slots
    <3>3. [[order |-> o, parent |-> q] EXCEPT !.parent[hi] = lo]
            = [order |-> o, parent |-> [q EXCEPT ![hi] = lo]]
      OBVIOUS
    <3>4. [both EXCEPT !.parent[hi] = lo] = [order |-> both.order, parent |-> parent]
      BY <2>10, <3>2, <3>3
    <3> QED BY <2>13, <3>1, <3>4
  <2>15. Slots(Ids, later, f, m)
    BY <2>4, <2>12, <2>13 DEF Slots
  <2>16. \A p, q \in 1..m : h[p] = h[q] => Together(Ids, links, k + 1, both.order[p], both.order[q])
    <3> SUFFICES ASSUME NEW p \in 1..m, NEW q \in 1..m, h[p] = h[q]
                 PROVE  Together(Ids, links, k + 1, both.order[p], both.order[q])
      OBVIOUS
    <3>1. CASE p \in 1..n /\ q \in 1..n
      <4>1. Together(Ids, links, k, builder.order[p], builder.order[q])
        BY <2>3, <3>1 DEF Holds, Slotting
      <4>2. Together(Ids, links, k + 1, builder.order[p], builder.order[q])
        BY <4>1, TogetherStays
      <4> QED BY <2>3, <3>1, <4>2 DEF Slotting
    <3>2. CASE p \notin 1..n \/ q \notin 1..n
      <4>1. p = q
        BY <2>3, <3>2 DEF Slotting
      <4> QED BY <4>1 DEF Together
    <3> QED BY <3>1, <3>2
  <2>17. Together(Ids, links, k + 1, a, b)
    BY <1>1, <1>2 DEF Together
  <2>18. \A p \in 1..m : h[p] \in {lo, hi} => Together(Ids, links, k + 1, both.order[p], a)
    <3> SUFFICES ASSUME NEW p \in 1..m, h[p] \in {lo, hi}
                 PROVE  Together(Ids, links, k + 1, both.order[p], a)
      OBVIOUS
    <3>1. CASE h[p] = h[s]
      BY <2>5, <2>16, <3>1
    <3>2. CASE h[p] = h[t]
      <4>1. Together(Ids, links, k + 1, both.order[p], b)
        BY <2>5, <2>16, <3>2
      <4> QED BY <2>17, <4>1 DEF Together
    <3> QED BY <2>9, <3>1, <3>2
  <2>19. \A p \in 1..m : f[p] = IF h[p] = hi THEN lo ELSE h[p]
    BY <2>11
  <2>20. \A p, q \in 1..m : f[p] = f[q] => Together(Ids, links, k + 1, later.order[p], later.order[q])
    <3> SUFFICES ASSUME NEW p \in 1..m, NEW q \in 1..m, f[p] = f[q]
                 PROVE  Together(Ids, links, k + 1, both.order[p], both.order[q])
      BY <2>13
    <3>1. CASE h[p] = h[q]
      BY <2>16, <3>1
    <3>2. CASE h[p] # h[q]
      <4>1. h[p] \in {lo, hi} /\ h[q] \in {lo, hi}
        BY <2>19, <3>2
      <4>2. Together(Ids, links, k + 1, both.order[p], a) /\ Together(Ids, links, k + 1, both.order[q], a)
        BY <2>18, <4>1
      <4> QED BY <4>2 DEF Together
    <3> QED BY <3>1, <3>2
  <2>21. \A p \in 1..m : \E i \in 1..k + 1 :
           links[i][1] # links[i][2] /\ later.order[p] \in {links[i][1], links[i][2]}
    <3> SUFFICES ASSUME NEW p \in 1..m
                 PROVE  \E i \in 1..k + 1 :
                          links[i][1] # links[i][2] /\ both.order[p] \in {links[i][1], links[i][2]}
      BY <2>13
    <3>1. CASE p \in 1..n
      BY <1>2, <2>3, <3>1 DEF Holds, Slotting
    <3>2. CASE p \notin 1..n
      BY <1>1, <1>2, <1>4, <2>3, <3>2 DEF Slotting
    <3> QED BY <3>1, <3>2
  <2>22. \A i \in 1..k + 1 : links[i][1] # links[i][2] =>
           \E p, q \in 1..m :
             later.order[p] = links[i][1] /\ later.order[q] = links[i][2] /\ f[p] = f[q]
    <3> SUFFICES ASSUME NEW i \in 1..k + 1, links[i][1] # links[i][2]
                 PROVE  \E p, q \in 1..m :
                          both.order[p] = links[i][1] /\ both.order[q] = links[i][2] /\ f[p] = f[q]
      BY <2>13
    <3>1. CASE i \in 1..k
      <4>1. PICK p \in 1..n, q \in 1..n :
              builder.order[p] = links[i][1] /\ builder.order[q] = links[i][2] /\ g[p] = g[q]
        BY <3>1 DEF Holds
      <4>2. /\ p \in 1..m /\ q \in 1..m /\ h[p] = h[q]
            /\ both.order[p] = links[i][1] /\ both.order[q] = links[i][2]
        BY <2>3, <4>1 DEF Slotting
      <4> QED BY <2>19, <4>2
    <3>2. CASE i = k + 1
      <4>1. f[s] = lo /\ f[t] = lo
        BY <2>8, <2>19
      <4> QED BY <1>1, <2>5, <3>2, <4>1
    <3> QED BY <1>2, <3>1, <3>2
  <2>23. Holds(Ids, links, k + 1, later, f, m)
    BY <2>15, <2>20, <2>21, <2>22 DEF Holds
  <2> QED BY <1>1, <2>14, <2>23
<1> QED BY <1>3, <1>4

\* All the links, one after the other: some such function there is.
LEMMA BuiltIsBuilt ==
  ASSUME NEW links, Len(links) \in Nat
  PROVE  \E built : /\ Linked(links) = built[Len(links)]
                    /\ \A i \in 0..Len(links) :
                         built[i] = IF i = 0 THEN NoLinks
                                    ELSE Link(built[i - 1], links[i][1], links[i][2])
<1> DEFINE Next1(b, i) == Link(b, links[i][1], links[i][2])
           Is(f, k) == f = [i \in 0..k |-> IF i = 0 THEN NoLinks ELSE Next1(f[i - 1], i)]
           Possible == {k \in Nat : \E f : Is(f, k)}
           top == Len(links)
           built == CHOOSE f : Is(f, top)
<1> HIDE DEF Next1
<1>1. 0 \in Possible
  <2> DEFINE f == [i \in 0..0 |-> NoLinks]
  <2>1. Is(f, 0)
    OBVIOUS
  <2> QED BY <2>1
<1>2. ASSUME NEW k \in Nat, k \in Possible PROVE k + 1 \in Possible
  <2>0. PICK f : Is(f, k)
    BY <1>2
  <2>1. \A i \in 0..k : f[i] = IF i = 0 THEN NoLinks ELSE Next1(f[i - 1], i)
    BY <2>0, Zenon
  <2> DEFINE g == [i \in 0..k + 1 |-> IF i <= k THEN f[i] ELSE Next1(f[k], k + 1)]
  <2>2. ASSUME NEW i \in 0..k + 1
        PROVE  g[i] = IF i = 0 THEN NoLinks ELSE Next1(g[i - 1], i)
    <3>1. CASE i = 0
      BY <2>1, <3>1
    <3>2. CASE i \in 1..k
      <4>1. f[i] = Next1(f[i - 1], i)
        <5>1. i \in 0..k /\ i # 0
          BY <3>2
        <5> QED BY <2>1, <5>1
      <4>2. g[i] = f[i] /\ g[i - 1] = f[i - 1]
        BY <3>2
      <4> HIDE DEF g
      <4> QED BY <3>2, <4>1, <4>2
    <3>3. CASE i = k + 1
      <4>1. g[i] = Next1(f[k], k + 1) /\ g[k] = f[k]
        BY <3>3
      <4> HIDE DEF g
      <4> QED BY <3>3, <4>1
    <3> QED BY <3>1, <3>2, <3>3
  <2>3. Is(g, k + 1)
    <3>1. g = [i \in 0..k + 1 |-> g[i]]
      OBVIOUS
    <3> HIDE DEF g
    <3>2. [i \in 0..k + 1 |-> g[i]]
            = [i \in 0..k + 1 |-> IF i = 0 THEN NoLinks ELSE Next1(g[i - 1], i)]
      BY <2>2
    <3> QED BY <3>1, <3>2
  <2> HIDE DEF Is, g
  <2> QED BY <2>3
<1>3. Is(built, top)
  <2>1. \A k \in Nat : k \in Possible
    <3>1. ASSUME NEW n \in Nat, \A m \in Nat : m < n => m \in Possible PROVE n \in Possible
      <4> HIDE DEF Possible
      <4>1. CASE n = 0
        BY <1>1, <4>1
      <4>2. CASE n # 0
        <5>1. PICK k \in Nat : n = k + 1 /\ k < n
          BY <4>2
        <5> QED BY <1>2, <3>1, <5>1
      <4> QED BY <4>1, <4>2
    <3> HIDE DEF Possible
    <3> QED BY <3>1, CountingAll
  <2>2. \E f : Is(f, top)
    <3> HIDE DEF Is
    <3> QED BY <2>1
  <2> HIDE DEF Is
  <2> QED BY <2>2
<1>4. Linked(links) = built[top]
  BY DEF Linked, Next1
<1> HIDE DEF built
<1>5. \A i \in 0..top : built[i] = IF i = 0 THEN NoLinks ELSE Next1(built[i - 1], i)
  BY <1>3, Zenon
<1> QED BY <1>4, <1>5 DEF Next1

\* What some link leads to from another memory.
LinkedIds(links) ==
  UNION {{links[i][1], links[i][2]} : i \in {i \in DOMAIN links : links[i][1] # links[i][2]}}

\* Every linked memory has one slot, two are under one root exactly if they are
\* linked, however indirectly, and the root is the earliest slot of them.
ShareRoots(Ids, links, builder) ==
  LET slots == DOMAIN builder.order IN
  /\ builder.order \in Seq(Ids)
  /\ {builder.order[p] : p \in slots} = LinkedIds(links)
  /\ \A p, q \in slots : builder.order[p] = builder.order[q] => p = q
  /\ \A a, b \in LinkedIds(links) :
       Root(builder, a) = Root(builder, b) <=> Together(Ids, links, Len(links), a, b)
  /\ \A p \in slots :
       LET first == Root(builder, builder.order[p]) IN
       first \in slots /\ first <= p
         /\ Together(Ids, links, Len(links), builder.order[first], builder.order[p])

\* For any ids and any links, in any order, twice, reversed or to itself: what
\* is connected, however indirectly, and nothing else, shares a root, the earliest
\* slot of them (cluster_builder.rs, link and root).
THEOREM ConnectedShareARoot ==
  ASSUME NEW Ids, NEW links \in Seq(Ids \X Ids)
  PROVE  ShareRoots(Ids, links, Linked(links))
<1>1. PICK top \in Nat : top = Len(links)
  OBVIOUS
<1>2. PICK built : /\ Linked(links) = built[top]
                   /\ \A i \in 0..top : built[i] = IF i = 0 THEN NoLinks
                                                   ELSE Link(built[i - 1], links[i][1], links[i][2])
  BY <1>1, BuiltIsBuilt
<1> DEFINE Right == {k \in Nat : k <= top =>
                       \E n \in Nat : \E g : Holds(Ids, links, k, built[k], g, n)}
<1>3. ASSUME NEW k \in Nat, \A l \in Nat : l < k => l \in Right PROVE k \in Right
  <2> SUFFICES ASSUME k <= top PROVE \E n \in Nat : \E g : Holds(Ids, links, k, built[k], g, n)
    OBVIOUS
  <2>1. CASE k = 0
    <3>1. built[k] = NoLinks
      BY <1>2, <2>1
    <3>2. Holds(Ids, links, 0, NoLinks, <<>>, 0)
      BY DEF Holds, Slots, Forest, NoLinks
    <3> QED BY <2>1, <3>1, <3>2
  <2>2. CASE k # 0
    <3>1. PICK l \in Nat : k = l + 1 /\ l < k /\ l < top /\ l <= top /\ k - 1 = l /\ k \in 0..top
      BY <2>2
    <3>2. PICK n \in Nat : \E g : Holds(Ids, links, l, built[l], g, n)
      BY <1>3, <3>1
    <3>3. PICK g : Holds(Ids, links, l, built[l], g, n)
      BY <3>2
    <3>4. built[k] = Link(built[l], links[l + 1][1], links[l + 1][2])
      BY <1>2, <2>2, <3>1
    <3> QED BY <1>1, <3>1, <3>3, <3>4, LinkingHolds
  <2> QED BY <2>1, <2>2
<1>4. top \in Right
  <2> HIDE DEF Right
  <2> QED BY <1>3, CountingAll
<1>5. PICK builder : builder = Linked(links)
  OBVIOUS
<1>6. PICK n \in Nat : \E g : Holds(Ids, links, top, builder, g, n)
  BY <1>2, <1>4, <1>5
<1>7. PICK g : Holds(Ids, links, top, builder, g, n)
  BY <1>6
<1>8. Slots(Ids, builder, g, n) /\ DOMAIN builder.order = 1..n /\ DOMAIN links = 1..top
  BY <1>1, <1>7 DEF Holds, Slots
<1>9. \A p \in 1..n : Root(builder, builder.order[p]) = g[p]
  BY <1>8, SlotIsThePlace
<1>10. {builder.order[p] : p \in 1..n} = LinkedIds(links)
  <2>1. \A p \in 1..n : builder.order[p] \in LinkedIds(links)
    BY <1>7, <1>8 DEF Holds, LinkedIds
  <2>2. ASSUME NEW a \in LinkedIds(links) PROVE \E p \in 1..n : builder.order[p] = a
    <3>1. PICK i \in 1..top : links[i][1] # links[i][2] /\ a \in {links[i][1], links[i][2]}
      BY <1>8, <2>2 DEF LinkedIds
    <3>2. PICK p \in 1..n, q \in 1..n : builder.order[p] = links[i][1] /\ builder.order[q] = links[i][2]
      BY <1>7, <3>1 DEF Holds
    <3> QED BY <3>1, <3>2
  <2> QED BY <2>1, <2>2
<1>11. ASSUME NEW p \in 1..n, NEW q \in 1..n,
              Together(Ids, links, top, builder.order[p], builder.order[q])
       PROVE  g[p] = g[q]
  <2> DEFINE S == {builder.order[r] : r \in {r \in 1..n : g[r] = g[p]}}
  <2>1. \A r \in 1..n : builder.order[r] \in S <=> g[r] = g[p]
    BY <1>8 DEF Slots
  <2>2. S \in SUBSET Ids
    BY <1>8, ElementOfSeq DEF Slots
  <2>3. ASSUME NEW i \in 1..top PROVE links[i][1] \in S <=> links[i][2] \in S
    <3>1. CASE links[i][1] = links[i][2]
      BY <3>1
    <3>2. CASE links[i][1] # links[i][2]
      <4>1. PICK r \in 1..n, s \in 1..n :
              builder.order[r] = links[i][1] /\ builder.order[s] = links[i][2] /\ g[r] = g[s]
        BY <1>7, <3>2 DEF Holds
      <4> HIDE DEF S
      <4> QED BY <2>1, <4>1
    <3> QED BY <3>1, <3>2
  <2> HIDE DEF S
  <2> QED BY <1>11, <2>1, <2>2, <2>3 DEF Together
<1>12. ASSUME NEW a \in LinkedIds(links), NEW b \in LinkedIds(links)
       PROVE  Root(builder, a) = Root(builder, b) <=> Together(Ids, links, top, a, b)
  <2>1. PICK p \in 1..n, q \in 1..n : builder.order[p] = a /\ builder.order[q] = b
    BY <1>10
  <2>2. g[p] = g[q] <=> Together(Ids, links, top, a, b)
    BY <1>7, <1>11, <2>1 DEF Holds
  <2> QED BY <1>9, <2>1, <2>2
<1>13. ASSUME NEW p \in 1..n
       PROVE  /\ g[p] \in 1..n /\ g[p] <= p
              /\ Together(Ids, links, top, builder.order[g[p]], builder.order[p])
  <2>1. g[p] \in 1..p /\ g[g[p]] = g[p]
    BY <1>8, RootsAreEarliest DEF Slots
  <2>2. g[p] \in 1..n /\ g[p] <= p
    BY <2>1
  <2> QED BY <1>7, <2>1, <2>2 DEF Holds
<1>14. \A p, q \in 1..n : builder.order[p] = builder.order[q] => p = q
  BY <1>8 DEF Slots
<1>15. \A a, b \in LinkedIds(links) :
         Root(builder, a) = Root(builder, b) <=> Together(Ids, links, Len(links), a, b)
  BY <1>1, <1>12
<1>16. \A p \in 1..n :
         /\ Root(builder, builder.order[p]) \in 1..n /\ Root(builder, builder.order[p]) <= p
         /\ Together(Ids, links, Len(links),
                     builder.order[Root(builder, builder.order[p])], builder.order[p])
  BY <1>1, <1>9, <1>13
<1>17. ShareRoots(Ids, links, builder)
  <2>1. builder.order \in Seq(Ids)
    BY <1>8 DEF Slots
  <2> QED BY <1>8, <1>10, <1>14, <1>15, <1>16, <2>1 DEF ShareRoots
<1> QED BY <1>5, <1>17

\* Picking from a list: some such function there is.
LEMMA KeptIsKept ==
  ASSUME NEW list, Len(list) \in Nat, NEW wanted
  PROVE  \E kept : /\ Among(list, wanted) = kept[Len(list)]
                   /\ \A i \in 0..Len(list) :
                        kept[i] = IF i = 0 THEN <<>>
                                  ELSE IF list[i] \in wanted THEN Append(kept[i - 1], list[i])
                                  ELSE kept[i - 1]
<1> DEFINE Next1(r, i) == IF list[i] \in wanted THEN Append(r, list[i]) ELSE r
           Is(f, k) == f = [i \in 0..k |-> IF i = 0 THEN <<>> ELSE Next1(f[i - 1], i)]
           Possible == {k \in Nat : \E f : Is(f, k)}
           top == Len(list)
           kept == CHOOSE f : Is(f, top)
<1> HIDE DEF Next1
<1>1. 0 \in Possible
  <2> DEFINE f == [i \in 0..0 |-> <<>>]
  <2>1. Is(f, 0)
    OBVIOUS
  <2> QED BY <2>1
<1>2. ASSUME NEW k \in Nat, k \in Possible PROVE k + 1 \in Possible
  <2>0. PICK f : Is(f, k)
    BY <1>2
  <2>1. \A i \in 0..k : f[i] = IF i = 0 THEN <<>> ELSE Next1(f[i - 1], i)
    BY <2>0, Zenon
  <2> DEFINE g == [i \in 0..k + 1 |-> IF i <= k THEN f[i] ELSE Next1(f[k], k + 1)]
  <2>2. ASSUME NEW i \in 0..k + 1
        PROVE  g[i] = IF i = 0 THEN <<>> ELSE Next1(g[i - 1], i)
    <3>1. CASE i = 0
      BY <2>1, <3>1
    <3>2. CASE i \in 1..k
      <4>1. f[i] = Next1(f[i - 1], i)
        <5>1. i \in 0..k /\ i # 0
          BY <3>2
        <5> QED BY <2>1, <5>1
      <4>2. g[i] = f[i] /\ g[i - 1] = f[i - 1]
        BY <3>2
      <4> HIDE DEF g
      <4> QED BY <3>2, <4>1, <4>2
    <3>3. CASE i = k + 1
      <4>1. g[i] = Next1(f[k], k + 1) /\ g[k] = f[k]
        BY <3>3
      <4> HIDE DEF g
      <4> QED BY <3>3, <4>1
    <3> QED BY <3>1, <3>2, <3>3
  <2>3. Is(g, k + 1)
    <3>1. g = [i \in 0..k + 1 |-> g[i]]
      OBVIOUS
    <3> HIDE DEF g
    <3>2. [i \in 0..k + 1 |-> g[i]]
            = [i \in 0..k + 1 |-> IF i = 0 THEN <<>> ELSE Next1(g[i - 1], i)]
      BY <2>2
    <3> QED BY <3>1, <3>2
  <2> HIDE DEF Is, g
  <2> QED BY <2>3
<1>3. Is(kept, top)
  <2>1. \A k \in Nat : k \in Possible
    <3>1. ASSUME NEW n \in Nat, \A m \in Nat : m < n => m \in Possible PROVE n \in Possible
      <4> HIDE DEF Possible
      <4>1. CASE n = 0
        BY <1>1, <4>1
      <4>2. CASE n # 0
        <5>1. PICK k \in Nat : n = k + 1 /\ k < n
          BY <4>2
        <5> QED BY <1>2, <3>1, <5>1
      <4> QED BY <4>1, <4>2
    <3> HIDE DEF Possible
    <3> QED BY <3>1, CountingAll
  <2>2. \E f : Is(f, top)
    <3> HIDE DEF Is
    <3> QED BY <2>1
  <2> HIDE DEF Is
  <2> QED BY <2>2
<1>4. Among(list, wanted) = kept[top]
  BY DEF Among, Next1
<1> HIDE DEF kept
<1>5. \A i \in 0..top : kept[i] = IF i = 0 THEN <<>> ELSE Next1(kept[i - 1], i)
  BY <1>3, Zenon
<1> QED BY <1>4, <1>5 DEF Next1


\* What was picked of the first k of a list: those wanted, in their order.
Picked(list, wanted, k, r) ==
  /\ \A j \in 1..Len(r) : \E i \in 1..k : list[i] = r[j] /\ list[i] \in wanted
  /\ \A i \in 1..k : list[i] \in wanted => \E j \in 1..Len(r) : r[j] = list[i]
  /\ \A j, l \in 1..Len(r) : j < l =>
       \E h, i \in 1..k : h < i /\ list[h] = r[j] /\ list[i] = r[l]

\* One more element looked at.
LEMMA OneMoreIsPicked ==
  ASSUME NEW S, NEW list \in Seq(S), NEW wanted, NEW k \in Nat, k < Len(list),
         NEW r \in Seq(S), Picked(list, wanted, k, r)
  PROVE  /\ list[k + 1] \in wanted =>
              Append(r, list[k + 1]) \in Seq(S) /\ Picked(list, wanted, k + 1, Append(r, list[k + 1]))
         /\ list[k + 1] \notin wanted => Picked(list, wanted, k + 1, r)
<1>1. PICK x \in S : x = list[k + 1]
  BY ElementOfSeq
<1>2. /\ \A i \in 1..k + 1 : i \in 1..k \/ i = k + 1
      /\ 1..k \subseteq 1..k + 1 /\ k + 1 \in 1..k + 1 /\ \A i \in 1..k : i < k + 1
  OBVIOUS
<1>3. ASSUME x \notin wanted PROVE Picked(list, wanted, k + 1, r)
  BY <1>1, <1>2, <1>3 DEF Picked
<1>4. ASSUME x \in wanted
      PROVE  Append(r, x) \in Seq(S) /\ Picked(list, wanted, k + 1, Append(r, x))
  <2>1. PICK longer \in Seq(S) : longer = Append(r, x)
    BY AppendProperties
  <2>2. PICK len \in Nat : len = Len(r)
    OBVIOUS
  <2>3. Len(longer) = len + 1 /\ longer[len + 1] = x /\ \A j \in 1..len : longer[j] = r[j]
    BY <2>1, <2>2, AppendProperties
  <2>4. \A j \in 1..len + 1 : j \in 1..len \/ j = len + 1
    OBVIOUS
  <2>5. \A j \in 1..len + 1 : \E i \in 1..k + 1 : list[i] = longer[j] /\ list[i] \in wanted
    <3> SUFFICES ASSUME NEW j \in 1..len + 1
                 PROVE  \E i \in 1..k + 1 : list[i] = longer[j] /\ list[i] \in wanted
      OBVIOUS
    <3>1. CASE j \in 1..len
      <4>1. PICK i \in 1..k : list[i] = r[j] /\ list[i] \in wanted
        BY <2>2, <3>1 DEF Picked
      <4> QED BY <1>2, <2>3, <3>1, <4>1
    <3>2. CASE j = len + 1
      BY <1>1, <1>2, <1>4, <2>3, <3>2
    <3> QED BY <2>4, <3>1, <3>2
  <2>6. \A i \in 1..k + 1 : list[i] \in wanted => \E j \in 1..len + 1 : longer[j] = list[i]
    <3> SUFFICES ASSUME NEW i \in 1..k + 1, list[i] \in wanted
                 PROVE  \E j \in 1..len + 1 : longer[j] = list[i]
      OBVIOUS
    <3>1. CASE i \in 1..k
      <4>1. PICK j \in 1..len : r[j] = list[i]
        BY <2>2, <3>1 DEF Picked
      <4>2. j \in 1..len + 1
        OBVIOUS
      <4> QED BY <2>3, <4>1, <4>2
    <3>2. CASE i = k + 1
      <4>1. len + 1 \in 1..len + 1
        OBVIOUS
      <4> QED BY <1>1, <2>3, <3>2, <4>1
    <3> QED BY <1>2, <3>1, <3>2
  <2>7. \A j, l \in 1..len + 1 : j < l =>
          \E h, i \in 1..k + 1 : h < i /\ list[h] = longer[j] /\ list[i] = longer[l]
    <3> SUFFICES ASSUME NEW j \in 1..len + 1, NEW l \in 1..len + 1, j < l
                 PROVE  \E h, i \in 1..k + 1 : h < i /\ list[h] = longer[j] /\ list[i] = longer[l]
      OBVIOUS
    <3>1. j \in 1..len /\ longer[j] = r[j]
      BY <2>3
    <3>2. CASE l \in 1..len
      <4>1. PICK h \in 1..k, i \in 1..k : h < i /\ list[h] = r[j] /\ list[i] = r[l]
        BY <2>2, <3>1, <3>2 DEF Picked
      <4> QED BY <1>2, <2>3, <3>1, <3>2, <4>1
    <3>3. CASE l = len + 1
      <4>1. PICK h \in 1..k : list[h] = r[j]
        BY <2>2, <3>1 DEF Picked
      <4> QED BY <1>1, <1>2, <2>3, <3>1, <3>3, <4>1
    <3> QED BY <2>4, <3>2, <3>3
  <2>8. Picked(list, wanted, k + 1, longer)
    BY <2>3, <2>5, <2>6, <2>7 DEF Picked
  <2> QED BY <2>1, <2>8
<1> QED BY <1>1, <1>3, <1>4

\* Among picks those wanted of a whole list, in their order.
LEMMA AmongIsPicked ==
  ASSUME NEW S, NEW list \in Seq(S), NEW wanted
  PROVE  Among(list, wanted) \in Seq(S) /\ Picked(list, wanted, Len(list), Among(list, wanted))
<1>1. PICK top \in Nat : top = Len(list)
  OBVIOUS
<1>2. PICK kept : /\ Among(list, wanted) = kept[top]
                  /\ \A i \in 0..top :
                       kept[i] = IF i = 0 THEN <<>>
                                 ELSE IF list[i] \in wanted THEN Append(kept[i - 1], list[i])
                                 ELSE kept[i - 1]
  BY <1>1, KeptIsKept
<1> DEFINE Right == {k \in Nat : k <= top => kept[k] \in Seq(S) /\ Picked(list, wanted, k, kept[k])}
<1>3. ASSUME NEW k \in Nat, \A l \in Nat : l < k => l \in Right PROVE k \in Right
  <2> SUFFICES ASSUME k <= top PROVE kept[k] \in Seq(S) /\ Picked(list, wanted, k, kept[k])
    OBVIOUS
  <2>1. CASE k = 0
    <3>1. kept[k] = <<>>
      BY <1>2, <2>1
    <3>2. <<>> \in Seq(S) /\ Picked(list, wanted, 0, <<>>)
      BY DEF Picked
    <3> QED BY <2>1, <3>1, <3>2
  <2>2. CASE k # 0
    <3>1. PICK l \in Nat : k = l + 1 /\ l < k /\ l < top /\ l <= top /\ k - 1 = l /\ k \in 0..top
      BY <2>2
    <3>2. PICK r \in Seq(S) : r = kept[l] /\ Picked(list, wanted, l, r)
      BY <1>3, <3>1
    <3>3. kept[k] = IF list[l + 1] \in wanted THEN Append(r, list[l + 1]) ELSE r
      BY <1>2, <2>2, <3>1, <3>2
    <3> QED BY <1>1, <3>1, <3>2, <3>3, OneMoreIsPicked
  <2> QED BY <2>1, <2>2
<1>4. top \in Right
  <2> HIDE DEF Right
  <2> QED BY <1>3, CountingAll
<1> QED BY <1>1, <1>2, <1>4

\* What is picked of a list without repetitions, by its elements.
LEMMA AmongIsASubset ==
  ASSUME NEW S, NEW list \in Seq(S), \A p, q \in DOMAIN list : list[p] = list[q] => p = q,
         NEW wanted \in SUBSET Range(list)
  PROVE  /\ Among(list, wanted) \in Seq(S) /\ Range(Among(list, wanted)) = wanted
         /\ \A j, l \in DOMAIN Among(list, wanted) :
              Among(list, wanted)[j] = Among(list, wanted)[l] => j = l
<1>1. PICK r \in Seq(S) : r = Among(list, wanted) /\ Picked(list, wanted, Len(list), r)
  BY AmongIsPicked
<1>2. DOMAIN r = 1..Len(r) /\ DOMAIN list = 1..Len(list) /\ Len(r) \in Nat /\ Len(list) \in Nat
  OBVIOUS
<1>3. Range(r) = wanted
  <2>1. \A x \in Range(r) : x \in wanted
    BY <1>1, <1>2 DEF Range, Picked
  <2>2. ASSUME NEW x \in wanted PROVE x \in Range(r)
    <3>1. PICK i \in 1..Len(list) : list[i] = x
      BY <1>2 DEF Range
    <3>2. PICK j \in 1..Len(r) : r[j] = x
      BY <1>1, <3>1 DEF Picked
    <3> QED BY <1>2, <3>2 DEF Range
  <2> QED BY <2>1, <2>2
<1>4. ASSUME NEW j \in 1..Len(r), NEW l \in 1..Len(r), j < l PROVE r[j] # r[l]
  <2>1. PICK h \in 1..Len(list), i \in 1..Len(list) : h < i /\ list[h] = r[j] /\ list[i] = r[l]
    BY <1>1, <1>4 DEF Picked
  <2> QED BY <1>2, <2>1
<1>5. \A j, l \in DOMAIN r : r[j] = r[l] => j = l
  <2> SUFFICES ASSUME NEW j \in 1..Len(r), NEW l \in 1..Len(r), r[j] = r[l] PROVE j = l
    BY <1>2
  <2>1. ~ (j < l) /\ ~ (l < j)
    BY <1>4
  <2> QED BY <1>2, <2>1
<1> QED BY <1>1, <1>3, <1>5

\* What a memory is linked to, however indirectly, itself included.
LinkedTo(Ids, links, a) ==
  {b \in LinkedIds(links) : Together(Ids, links, Len(links), a, b)}

\* Each of these is one cluster, and there is no other; no memory is twice in
\* one, or in two.
AreClusters(Ids, links, made) ==
  /\ {Range(made[i]) : i \in DOMAIN made} = {LinkedTo(Ids, links, a) : a \in LinkedIds(links)}
  /\ \A i, j \in DOMAIN made : i # j => Range(made[i]) \cap Range(made[j]) = {}
  /\ \A i \in DOMAIN made : \A j, l \in DOMAIN made[i] : made[i][j] = made[i][l] => j = l

\* For any ids and any links, in any order, twice, reversed or to itself: the
\* clusters are the connected components, each once (cluster_builder.rs,
\* clusters: "whatever is connected, however indirectly, is one cluster and
\* gets one merge").
THEOREM ClustersAreComponents ==
  ASSUME NEW Ids, NEW links \in Seq(Ids \X Ids)
  PROVE  AreClusters(Ids, links, ClustersOf(Linked(links)))
<1>1. PICK builder : builder = Linked(links)
  OBVIOUS
<1>2. ShareRoots(Ids, links, builder)
  BY <1>1, ConnectedShareARoot
<1>3. PICK order \in Seq(Ids) : order = builder.order
  BY <1>2 DEF ShareRoots
<1>4. PICK n \in Nat : n = Len(order) /\ DOMAIN order = 1..n
  OBVIOUS
<1>5. PICK L : L = LinkedIds(links)
  OBVIOUS
<1>6. /\ Range(order) = L
      /\ \A p, q \in DOMAIN order : order[p] = order[q] => p = q
      /\ \A a, b \in L : Root(builder, a) = Root(builder, b) <=> Together(Ids, links, Len(links), a, b)
  BY <1>2, <1>3, <1>5 DEF ShareRoots, Range
<1>7. \A a \in L : Root(builder, a) \in 1..n
  BY <1>2, <1>3, <1>4, <1>6 DEF ShareRoots, Range
<1> DEFINE Under(p) == {id \in Range(order) : Root(builder, id) = p}
           of(p) == Among(order, Under(p))
           all == [p \in 1..n |-> of(p)]
           large == {ids \in Range(all) : Len(ids) > 1}
<1>8. ASSUME NEW p \in 1..n
      PROVE  /\ of(p) \in Seq(Ids) /\ Range(of(p)) = Under(p)
             /\ \A j, l \in DOMAIN of(p) : of(p)[j] = of(p)[l] => j = l
  <2>1. Under(p) \in SUBSET Range(order)
    OBVIOUS
  <2> HIDE DEF Under
  <2> QED BY <1>6, <2>1, AmongIsASubset
<1>9. all \in Seq(Seq(Ids)) /\ Len(all) = n /\ DOMAIN all = 1..n
  <2>1. \A p \in 1..n : of(p) \in Seq(Ids)
    BY <1>8
  <2> HIDE DEF of
  <2> QED BY <2>1
<1>10. \A p \in 1..n : all[p] = of(p)
  OBVIOUS
<1>11. PICK made : made = Among(all, large)
  OBVIOUS
<1>12. ClustersOf(builder) = made
  BY <1>3, <1>4, <1>11 DEF ClustersOf
<1>13. \A p \in 1..n : all[p] \in Range(all)
  BY <1>9 DEF Range
<1>14. \A ids : ids \in large <=> ids \in Range(all) /\ Len(ids) > 1
  OBVIOUS
<1>15. \A p \in 1..n, a \in L : a \in Under(p) <=> Root(builder, a) = p
  BY <1>6
<1>16. \A p \in 1..n : Under(p) \subseteq L
  BY <1>6
<1> HIDE DEF all, large, of, Under
<1>17. made \in Seq(Seq(Ids)) /\ Picked(all, large, n, made)
  BY <1>9, <1>11, AmongIsPicked
<1>18. DOMAIN made = 1..Len(made) /\ Len(made) \in Nat
  BY <1>17
<1>19. ASSUME NEW i \in DOMAIN made
       PROVE  \E p \in 1..n : made[i] = of(p) /\ Len(of(p)) > 1
  <2>1. PICK p \in 1..n : all[p] = made[i] /\ all[p] \in large
    BY <1>17, <1>18 DEF Picked
  <2> QED BY <1>10, <1>14, <2>1
<1>20. ASSUME NEW a \in L
       PROVE  Under(Root(builder, a)) = LinkedTo(Ids, links, a)
  BY <1>5, <1>6, <1>7, <1>15, <1>16 DEF LinkedTo
<1>21. ASSUME NEW i \in DOMAIN made
       PROVE  \E a \in L : Range(made[i]) = LinkedTo(Ids, links, a)
  <2>1. PICK p \in 1..n : made[i] = of(p) /\ Len(of(p)) > 1
    BY <1>19
  <2>2. PICK ids \in Seq(Ids) : ids = of(p) /\ Range(ids) = Under(p)
    BY <1>8
  <2>3. 1 \in DOMAIN ids
    BY <2>1, <2>2
  <2>4. PICK a : a \in Under(p)
    BY <2>2, <2>3 DEF Range
  <2>5. a \in L /\ Root(builder, a) = p
    BY <1>15, <1>16, <2>4
  <2> QED BY <1>20, <2>1, <2>2, <2>5
<1>22. ASSUME NEW a \in L
       PROVE  \E i \in DOMAIN made : Range(made[i]) = LinkedTo(Ids, links, a)
  <2>1. PICK p \in 1..n : p = Root(builder, a)
    BY <1>7
  <2>2. PICK c \in L : c # a /\ Together(Ids, links, Len(links), a, c)
    <3>1. DOMAIN links = 1..Len(links)
      OBVIOUS
    <3>2. PICK k \in 1..Len(links) : links[k][1] # links[k][2] /\ a \in {links[k][1], links[k][2]}
      BY <1>5, <3>1 DEF LinkedIds
    <3>3. links[k][1] \in L /\ links[k][2] \in L
      BY <1>5, <3>1, <3>2 DEF LinkedIds
    <3>4. Together(Ids, links, Len(links), links[k][1], links[k][2])
      BY DEF Together
    <3>5. Together(Ids, links, Len(links), links[k][2], links[k][1])
      BY DEF Together
    <3> QED BY <3>2, <3>3, <3>4, <3>5
  <2>3. a \in Under(p) /\ c \in Under(p)
    BY <1>6, <1>15, <2>1, <2>2
  <2>4. PICK ids \in Seq(Ids) : ids = of(p) /\ Range(ids) = Under(p)
    BY <1>8
  <2>5. Len(ids) > 1
    <3>1. PICK j \in 1..Len(ids), l \in 1..Len(ids) : ids[j] = a /\ ids[l] = c
      BY <2>3, <2>4 DEF Range
    <3> QED BY <2>2, <3>1
  <2>6. all[p] \in large
    BY <1>10, <1>13, <1>14, <2>4, <2>5
  <2>7. PICK i \in 1..Len(made) : made[i] = all[p]
    BY <1>17, <2>6 DEF Picked
  <2>8. Range(made[i]) = LinkedTo(Ids, links, a)
    BY <1>10, <1>20, <2>1, <2>4, <2>7
  <2> QED BY <1>18, <2>8
<1>23. ASSUME NEW i \in DOMAIN made, NEW j \in DOMAIN made, i < j
       PROVE  Range(made[i]) \cap Range(made[j]) = {}
  <2> DEFINE first == made[i]
             second == made[j]
  <2>0. \A a, b \in 1..Len(made) : a < b =>
          \E p, q \in 1..n : p < q /\ all[p] = made[a] /\ all[q] = made[b]
    BY <1>17 DEF Picked
  <2>0a. i \in 1..Len(made) /\ j \in 1..Len(made)
    BY <1>18
  <2>0b. \E p, q \in 1..n : p < q /\ all[p] = first /\ all[q] = second
    BY <1>23, <2>0, <2>0a
  <2>1. PICK p \in 1..n, q \in 1..n : p < q /\ all[p] = made[i] /\ all[q] = made[j]
    BY <2>0b
  <2>2. Range(made[i]) = Under(p) /\ Range(made[j]) = Under(q)
    BY <1>8, <1>10, <2>1
  <2>3. p # q
    BY <2>1
  <2> QED BY <1>15, <1>16, <2>2, <2>3
<1>24. \A i, j \in DOMAIN made : i # j => Range(made[i]) \cap Range(made[j]) = {}
  <2> SUFFICES ASSUME NEW i \in DOMAIN made, NEW j \in DOMAIN made, i # j
               PROVE  Range(made[i]) \cap Range(made[j]) = {}
    OBVIOUS
  <2>1. i < j \/ j < i
    BY <1>18
  <2> QED BY <1>23, <2>1
<1>25. \A i \in DOMAIN made : \A j, l \in DOMAIN made[i] : made[i][j] = made[i][l] => j = l
  BY <1>8, <1>19
<1>26. {Range(made[i]) : i \in DOMAIN made} = {LinkedTo(Ids, links, a) : a \in L}
  BY <1>21, <1>22
<1> QED BY <1>1, <1>5, <1>12, <1>24, <1>25, <1>26 DEF AreClusters

-----------------------------------------------------------------------------
(* Passes.                                                                 *)

USE ConsolidationAssumption

-----------------------------------------------------------------------------
(* The operators.                                                          *)

\* The newest stamp of a set of versions is one of theirs, and none exceeds it.
LEMMA NewestIsOneOf ==
  ASSUME NEW V \in SUBSET Versions, V # {}
  PROVE  /\ Newest(V) \in Stamps
         /\ \E v \in V : v.stamp = Newest(V)
         /\ \A v \in V : v.stamp <= Newest(V)
<1> DEFINE R == OpToRel(<, Nat)
           T == {MaxStamps - v.stamp : v \in V}
<1>1. \A v \in V : v.stamp \in Stamps
  BY DEF Versions
<1>2. T \subseteq Nat /\ T # {}
  BY <1>1 DEF Stamps
<1>3. PICK x \in T : \A y \in T : ~(<<y, x>> \in R)
  <2> HIDE DEF T, R
  <2>1. IsWellFoundedOn(R, Nat)
    BY NatLessThanWellFounded DEF R
  <2> QED BY <1>2, <2>1, WFMin
<1>4. PICK b \in V : x = MaxStamps - b.stamp
  BY <1>3
<1>5. \A v \in V : v.stamp <= b.stamp
  <2> SUFFICES ASSUME NEW v \in V PROVE v.stamp <= b.stamp
    OBVIOUS
  <2>1. ~(MaxStamps - v.stamp < x)
    BY <1>2, <1>3 DEF OpToRel
  <2> QED BY <1>1, <1>4, <2>1 DEF Stamps
<1>6. \E s \in Stamps : (\E v \in V : v.stamp = s) /\ (\A v \in V : v.stamp <= s)
  BY <1>1, <1>5
<1> QED BY <1>6 DEF Newest

\* Two members make a cluster.
LEMMA TwoAreACluster ==
  ASSUME NEW C, IsFiniteSet(C), NEW v \in C, NEW w \in C, v # w
  PROVE  Cardinality(C) >= 2
<1>1. IsFiniteSet(C \ {v}) /\ Cardinality(C \ {v}) = Cardinality(C) - 1
  BY FS_RemoveElement
<1>2. Cardinality(C \ {v}) # 0
  BY <1>1, FS_EmptySet
<1>3. Cardinality(C) \in Nat /\ Cardinality(C \ {v}) \in Nat
  BY <1>1, FS_CardinalityType
<1> QED BY <1>1, <1>2, <1>3

LEMMA GroupIsStored == \A g \in Groups : Group(g) \subseteq rows
BY DEF Group

\* A cluster is not empty, and is of one group.
LEMMA ClustersOfAGroup ==
  ASSUME NEW g \in Groups, NEW C \in Clusters(Slice(Group(g)))
  PROVE  C # {} /\ C \subseteq Group(g) /\ \A v \in C : v.group = g
<1>1. C \subseteq Group(g) /\ Cardinality(C) >= 2
  BY DEF Clusters, Slice
<1>2. C # {}
  BY <1>1, FS_EmptySet
<1> QED BY <1>1, <1>2 DEF Group

LEMMA GroupOfMember ==
  ASSUME NEW C, C # {}, \A v, w \in C : v.group = w.group, NEW v \in C
  PROVE  GroupOf(C) = v.group
BY DEF GroupOf

LEMMA GroupOfIsAGroup ==
  ASSUME NEW C \in SUBSET Versions, C # {}
  PROVE  GroupOf(C) \in Groups
BY DEF GroupOf, Versions

\* What a charge leaves of the budget.
LEMMA Charged ==
  ASSUME TypeOK, NEW r \in Runners, NEW n \in Nat, Charge(r, n)
  PROVE  /\ calls' \in [Runners -> Nat] /\ retired' \in [Runners -> Nat]
         /\ exhausted' \in [Runners -> BOOLEAN]
         /\ ~exhausted'[r] =>
              /\ MaxCalls > 0 => calls'[r] < MaxCalls
              /\ MaxRetired > 0 => retired'[r] < MaxRetired
         /\ \A q \in Runners \ {r} :
              /\ exhausted'[q] = exhausted[q]
              /\ calls'[q] = calls[q] /\ retired'[q] = retired[q]
<1>1. PICK late \in BOOLEAN : exhausted' = [exhausted EXCEPT ![r] =
         \/ late
         \/ MaxCalls > 0 /\ calls[r] + 1 >= MaxCalls
         \/ MaxRetired > 0 /\ retired[r] + n >= MaxRetired]
  BY DEF Charge
<1>2. calls' = [calls EXCEPT ![r] = @ + 1] /\ retired' = [retired EXCEPT ![r] = @ + n]
  BY DEF Charge
<1>3. calls \in [Runners -> Nat] /\ retired \in [Runners -> Nat]
      /\ exhausted \in [Runners -> BOOLEAN]
  BY DEF TypeOK
<1>4. exhausted' \in [Runners -> BOOLEAN]
  BY <1>1, <1>3
<1>5. calls'[r] = calls[r] + 1 /\ retired'[r] = retired[r] + n
  BY <1>2, <1>3
<1>6. ~exhausted'[r] => /\ ~(MaxCalls > 0 /\ calls[r] + 1 >= MaxCalls)
                        /\ ~(MaxRetired > 0 /\ retired[r] + n >= MaxRetired)
  BY <1>1, <1>3
<1>7. \A q \in Runners \ {r} : exhausted'[q] = exhausted[q]
  BY <1>1, <1>3
<1>8. \A q \in Runners \ {r} : calls'[q] = calls[q] /\ retired'[q] = retired[q]
  BY <1>2, <1>3
<1>9. calls' \in [Runners -> Nat] /\ retired' \in [Runners -> Nat]
  BY <1>2, <1>3
<1>10. ~exhausted'[r] => /\ MaxCalls > 0 => calls'[r] < MaxCalls
                         /\ MaxRetired > 0 => retired'[r] < MaxRetired
  BY <1>3, <1>5, <1>6
<1> QED BY <1>4, <1>7, <1>8, <1>9, <1>10

-----------------------------------------------------------------------------
(* Types, with what ties a pass's stage to the clusters it holds.          *)

\* A pass is at a cluster between asking about it and being done with it; the
\* clusters it holds are of one group each; it records once none is left.
ClustersInHand ==
  \A r \in Runners :
    /\ asking[r] # {} <=> stage[r] \in {"awaiting", "saving", "retiring"}
    /\ \A C \in todo[r] : C # {}
    /\ \A C \in todo[r] \cup {asking[r]} : \A v, w \in C : v.group = w.group
    /\ stage[r] = "recording" => todo[r] = {}

TypeInv ==
  /\ TypeOK
  /\ IsFiniteSet(rows)
  /\ ClustersInHand

USE DEF table, budget, plan

LEMMA TypeInit == Init => TypeInv
BY FS_EmptySet DEF Init, TypeInv, TypeOK, ClustersInHand, Stages, Nothing, None

LEMMA WriteRowTypes ==
  ASSUME TypeInv, NEW v \in Versions, WriteRow(v)
  PROVE  /\ rows' \subseteq Versions
         /\ \A x, y \in rows' : x.memory = y.memory => x = y
         /\ status' \in [Stamps -> {"absent", "active", "superseded", "deleted"}]
         /\ missed' \subseteq Versions
         /\ IsFiniteSet(rows')
<1>1. rows' = {w \in rows : w.memory # v.memory} \cup {v}
  BY DEF WriteRow
<1>2. IsFiniteSet({w \in rows : w.memory # v.memory})
  BY FS_Subset DEF TypeInv
<1>3. IsFiniteSet(rows')
  BY <1>1, <1>2, FS_AddElement
<1>4. \A x, y \in rows' : x.memory = y.memory => x = y
  BY <1>1 DEF TypeInv, TypeOK
<1>5. v.memory \in Stamps
  BY DEF Versions
<1> QED BY <1>1, <1>3, <1>4, <1>5 DEF WriteRow, TypeInv, TypeOK

LEMMA NextUserTypes ==
  ASSUME TypeInv, NEW r \in Runners, NextUser(r)
  PROVE  /\ stage' \in [Runners -> Stages]
         /\ left' \in [Runners -> SUBSET Users]
         /\ ageing' \in [Runners -> SUBSET Stamps]
         /\ examined' \in [Runners -> [Groups -> SUBSET Versions]]
         /\ todo' \in [Runners -> SUBSET SUBSET Versions]
         /\ asking' \in [Runners -> SUBSET Versions]
         /\ merged' \in [Runners -> SUBSET Versions]
         /\ failed' \in [Runners -> SUBSET Groups]
         /\ ClustersInHand'
BY ZenonT(30) DEF NextUser, GoTo, Nothing, TypeInv, TypeOK, ClustersInHand, Stages

LEMMA NextClusterTypes ==
  ASSUME TypeInv, NEW r \in Runners, NextCluster(r), stage[r] # "recording"
  PROVE  /\ stage' \in [Runners -> Stages]
         /\ left' \in [Runners -> SUBSET Users]
         /\ ageing' \in [Runners -> SUBSET Stamps]
         /\ examined' \in [Runners -> [Groups -> SUBSET Versions]]
         /\ todo' \in [Runners -> SUBSET SUBSET Versions]
         /\ asking' \in [Runners -> SUBSET Versions]
         /\ merged' \in [Runners -> SUBSET Versions]
         /\ failed' \in [Runners -> SUBSET Groups]
         /\ ClustersInHand'
<1>1. CASE exhausted'[r]
  BY <1>1, NextUserTypes DEF NextCluster
<1>2. CASE ~exhausted'[r]
  <2>1. /\ GoTo(r, "merging")
        /\ asking' = [asking EXCEPT ![r] = {}] /\ merged' = [merged EXCEPT ![r] = {}]
        /\ UNCHANGED <<left, ageing, examined, todo, failed>>
    BY <1>2 DEF NextCluster
  <2> QED BY ZenonT(30), <2>1 DEF GoTo, TypeInv, TypeOK, ClustersInHand, Stages
<1> QED BY <1>1, <1>2

LEMMA PlanTypes ==
  ASSUME TypeInv, NEW r \in Runners, PlanUser(r)
  PROVE  TypeInv'
<1> DEFINE G == Changed(Here(r))
           X == [g \in Groups |-> IF g \in G THEN Group(g) ELSE {}]
           K == UNION {Clusters(Slice(Group(g))) : g \in G}
           M == UNION {Group(g) \ Slice(Group(g)) : g \in G}
<1>1. stage[r] = "planning" /\ stage' = [stage EXCEPT ![r] = "merging"]
      /\ examined' = [examined EXCEPT ![r] = X] /\ todo' = [todo EXCEPT ![r] = K]
      /\ missed' = missed \cup M
      /\ UNCHANGED <<table, pending, watermark, left, ageing, asking, merged, failed,
                     budget, faults, judged>>
  BY DEF PlanUser, GoTo
<1>2. G \subseteq Groups
  BY DEF Changed
<1>3. \A g \in Groups : Group(g) \subseteq Versions
  BY GroupIsStored DEF TypeInv, TypeOK
<1>4. X \in [Groups -> SUBSET Versions] /\ M \subseteq Versions
  BY <1>2, <1>3
<1>5. \A C \in K : C # {} /\ C \subseteq Versions /\ \A v, w \in C : v.group = w.group
  BY <1>2, <1>3, ClustersOfAGroup
<1> HIDE DEF G, X, K, M
<1>6. TypeOK'
  <2>1. K \subseteq SUBSET Versions
    BY <1>5
  <2> QED BY <1>1, <1>4, <2>1 DEF TypeInv, TypeOK, Stages
<1>7. ClustersInHand'
  <2>1. todo'[r] = K /\ \A q \in Runners \ {r} : todo'[q] = todo[q]
    BY <1>1 DEF TypeInv, TypeOK
  <2>2. stage'[r] = "merging" /\ \A q \in Runners \ {r} : stage'[q] = stage[q]
    BY <1>1 DEF TypeInv, TypeOK
  <2> QED BY <1>1, <1>5, <2>1, <2>2 DEF TypeInv, ClustersInHand
<1> QED BY <1>1, <1>6, <1>7 DEF TypeInv

LEMMA TypeStep == TypeInv /\ [Next]_vars => TypeInv'
<1> SUFFICES ASSUME TypeInv, [Next]_vars PROVE TypeInv'
  OBVIOUS
<1>1. CASE StartSave
  <2>1. clock' \in 0..MaxStamps /\ pending' \subseteq Versions
    BY <1>1 DEF StartSave, Stamp, TypeInv, TypeOK
  <2> QED BY <1>1, <2>1 DEF StartSave, TypeInv, TypeOK, ClustersInHand
<1>2. CASE StartEdit
  <2>1. clock' \in 0..MaxStamps /\ pending' \subseteq Versions
    BY <1>2 DEF StartEdit, Stamp, TypeInv, TypeOK
  <2> QED BY <1>2, <2>1 DEF StartEdit, TypeInv, TypeOK, ClustersInHand
<1>3. CASE Write
  <2>1. PICK v \in pending : /\ pending' = pending \ {v} /\ expired' = expired \ {v.memory}
                             /\ WriteRow(v) \/ UNCHANGED <<rows, status, missed>>
    BY <1>3 DEF Write
  <2>2. v \in Versions
    BY DEF TypeInv, TypeOK
  <2>3. CASE WriteRow(v)
    BY <1>3, <2>1, <2>2, <2>3, WriteRowTypes DEF Write, TypeInv, TypeOK, ClustersInHand
  <2>4. CASE UNCHANGED <<rows, status, missed>>
    BY <1>3, <2>1, <2>4 DEF Write, TypeInv, TypeOK, ClustersInHand
  <2> QED BY <2>1, <2>3, <2>4
<1>4. CASE Abandon
  BY <1>4 DEF Abandon, TypeInv, TypeOK, ClustersInHand
<1>5. CASE Remove
  BY <1>5 DEF Remove, TypeInv, TypeOK, ClustersInHand
<1>6. CASE Expire
  <2>1. expired' \subseteq Stamps
    BY <1>6 DEF Expire, TypeInv, TypeOK, Versions
  <2> QED BY <1>6, <2>1 DEF Expire, TypeInv, TypeOK, ClustersInHand
<1>7. ASSUME NEW r \in Runners, StartPass(r) PROVE TypeInv'
  BY <1>7 DEF StartPass, GoTo, TypeInv, TypeOK, ClustersInHand, Stages
<1>8. ASSUME NEW r \in Runners, Visit(r) PROVE TypeInv'
  BY <1>8 DEF Visit, GoTo, TypeInv, TypeOK, ClustersInHand, Stages, Versions
<1>9. ASSUME NEW r \in Runners, EndPass(r) PROVE TypeInv'
  BY <1>9 DEF EndPass, DropBudget, GoTo, TypeInv, TypeOK, ClustersInHand, Stages
<1>10. ASSUME NEW r \in Runners, RetireExpired(r) PROVE TypeInv'
  BY <1>10 DEF RetireExpired, Fault, TypeInv, TypeOK, ClustersInHand
<1>11. ASSUME NEW r \in Runners, Rescore(r) PROVE TypeInv'
  BY <1>11 DEF Rescore, GoTo, TypeInv, TypeOK, ClustersInHand, Stages
<1>12. ASSUME NEW r \in Runners, PlanUser(r) PROVE TypeInv'
  BY <1>12, PlanTypes
<1>13. ASSUME NEW r \in Runners, UserFails(r) PROVE TypeInv'
  BY <1>13, NextUserTypes DEF UserFails, Fault, TypeInv, TypeOK
<1>14. ASSUME NEW r \in Runners, Ask(r) PROVE TypeInv'
  <2>1. PICK C \in todo[r] : /\ asking' = [asking EXCEPT ![r] = C]
                              /\ todo' = [todo EXCEPT ![r] = @ \ {C}]
    BY <1>14 DEF Ask
  <2>2. stage[r] = "merging" /\ stage' = [stage EXCEPT ![r] = "awaiting"]
        /\ UNCHANGED <<table, pending, watermark, left, ageing, examined, merged, failed,
                       budget, faults, judged, missed>>
    BY <1>14 DEF Ask, GoTo
  <2>3. TypeOK'
    BY <2>1, <2>2 DEF TypeInv, TypeOK, Stages
  <2>4. ClustersInHand'
    BY <2>1, <2>2 DEF TypeInv, TypeOK, ClustersInHand
  <2> QED BY <2>2, <2>3, <2>4 DEF TypeInv
<1>15. ASSUME NEW r \in Runners, Decline(r) PROVE TypeInv'
  BY <1>15, Charged, NextClusterTypes DEF Decline, TypeInv, TypeOK
<1>16. ASSUME NEW r \in Runners, Compose(r) PROVE TypeInv'
  <2>1. clock' \in 0..MaxStamps /\ merged' \in [Runners -> SUBSET Versions]
    BY <1>16 DEF Compose, Stamp, TypeInv, TypeOK
  <2>2. stage[r] = "awaiting" /\ stage' = [stage EXCEPT ![r] = "saving"]
        /\ UNCHANGED <<rows, status, expired, pending, watermark, left, ageing, examined,
                       todo, asking, failed, budget, faults, judged, missed>>
    BY <1>16 DEF Compose, GoTo
  <2> QED BY <2>1, <2>2 DEF TypeInv, TypeOK, ClustersInHand, Stages
<1>17. ASSUME NEW r \in Runners, SaveMerged(r) PROVE TypeInv'
  <2>1. PICK v \in merged[r] : WriteRow(v)
    BY <1>17 DEF SaveMerged
  <2>2. v \in Versions
    BY DEF TypeInv, TypeOK
  <2> QED BY <1>17, <2>1, <2>2, WriteRowTypes
          DEF SaveMerged, GoTo, TypeInv, TypeOK, ClustersInHand, Stages
<1>18. ASSUME NEW r \in Runners, Retire(r) PROVE TypeInv'
  <2> DEFINE members == {m \in Stamps : /\ \E v \in asking[r] : v.memory = m
                                        /\ status[m] = "active"}
  <2>1. IsFiniteSet(1..MaxStamps)
    BY FS_Interval
  <2>2. Cardinality(members) \in Nat
    BY <2>1, FS_Subset, FS_CardinalityType DEF Stamps
  <2>3. Charge(r, Cardinality(members))
        /\ status' = [m \in Stamps |-> IF m \in members THEN "superseded" ELSE status[m]]
    BY <1>18 DEF Retire
  <2> HIDE DEF members
  <2>4. status' \in [Stamps -> {"absent", "active", "superseded", "deleted"}]
    BY <2>3 DEF TypeInv, TypeOK
  <2> QED BY <1>18, <2>2, <2>3, <2>4, Charged, NextClusterTypes DEF Retire, TypeInv, TypeOK
<1>19. ASSUME NEW r \in Runners, ClusterFails(r) PROVE TypeInv'
  <2>1. GroupOf(asking[r]) \in Groups
    BY <1>19, GroupOfIsAGroup DEF ClusterFails, TypeInv, TypeOK, ClustersInHand
  <2> QED BY <1>19, <2>1 DEF ClusterFails, Fault, GoTo, TypeInv, TypeOK, ClustersInHand, Stages
<1>20. ASSUME NEW r \in Runners, EndClusters(r) PROVE TypeInv'
  BY <1>20 DEF EndClusters, GoTo, TypeInv, TypeOK, ClustersInHand, Stages
<1>21. ASSUME NEW r \in Runners, Record(r) PROVE TypeInv'
  <2>1. PICK g \in ToRecord(r) :
          /\ watermark' = [watermark EXCEPT ![g] = Newest(examined[r][g])]
          /\ examined' = [examined EXCEPT ![r][g] = {}]
    BY <1>21 DEF Record
  <2>2. Newest(examined[r][g]) \in Stamps
    <3>1. g \in Groups /\ examined[r][g] # {}
      BY DEF ToRecord
    <3>2. examined[r][g] \in SUBSET Versions
      BY <3>1 DEF TypeInv, TypeOK
    <3> QED BY <3>1, <3>2, NewestIsOneOf
  <2>3. watermark' \in [Groups -> 0..MaxStamps]
    <3> DEFINE n == Newest(examined[r][g])
    <3>1. n \in 0..MaxStamps
      BY <2>2 DEF Stamps
    <3>2. watermark' = [watermark EXCEPT ![g] = n]
      BY <2>1
    <3> HIDE DEF n
    <3> QED BY <3>1, <3>2 DEF TypeInv, TypeOK
  <2>4. examined' \in [Runners -> [Groups -> SUBSET Versions]]
    BY <2>1 DEF TypeInv, TypeOK
  <2> QED BY <1>21, <2>3, <2>4 DEF Record, TypeInv, TypeOK, ClustersInHand
<1>22. ASSUME NEW r \in Runners, EndRecording(r) PROVE TypeInv'
  BY <1>22, NextUserTypes DEF EndRecording, Fault, TypeInv, TypeOK
<1>23. ASSUME NEW r \in Runners, Crash(r) PROVE TypeInv'
  BY <1>23 DEF Crash, DropBudget, Fault, GoTo, Nothing, TypeInv, TypeOK, ClustersInHand, Stages
<1>24. CASE UNCHANGED vars
  BY <1>24 DEF vars, TypeInv, TypeOK, ClustersInHand
<1> QED
  BY <1>1, <1>2, <1>3, <1>4, <1>5, <1>6, <1>7, <1>8, <1>9, <1>10, <1>11, <1>12,
     <1>13, <1>14, <1>15, <1>16, <1>17, <1>18, <1>19, <1>20, <1>21, <1>22, <1>23,
     <1>24 DEF Next, Clients, Run

\* Every variable keeps its type, and no pass loses track of its cluster.
THEOREM TypeCorrect == Spec => []TypeOK
<1>1. TypeInv => TypeOK
  BY DEF TypeInv
<1> QED BY <1>1, TypeInit, TypeStep, PTL DEF Spec

-----------------------------------------------------------------------------
(* The budget.                                                             *)

\* What ends a pass is looked at where it is charged: a pass beyond "visiting"
\* has budget left, and what is left is below every limit.
BudgetLeft ==
  \A r \in Runners :
    /\ exhausted[r] => stage[r] = "visiting"
    /\ ~exhausted[r] => /\ MaxCalls > 0 => calls[r] < MaxCalls
                        /\ MaxRetired > 0 => retired[r] < MaxRetired

LEMMA BudgetInit == Init => BudgetLeft
BY DEF Init, BudgetLeft

\* Deciding about a cluster charges the budget, then goes on or ends the user.
LEMMA BudgetAtCharge ==
  ASSUME TypeInv, BudgetLeft, NEW r \in Runners, NEW n \in Nat, Charge(r, n), NextCluster(r)
  PROVE  BudgetLeft'
<1>1. \A q \in Runners \ {r} : stage'[q] = stage[q]
  BY DEF NextCluster, NextUser, GoTo, TypeInv, TypeOK
<1>2. exhausted'[r] => stage'[r] = "visiting"
  BY DEF NextCluster, NextUser, GoTo, TypeInv, TypeOK
<1> QED BY <1>1, <1>2, Charged DEF BudgetLeft, TypeInv

LEMMA BudgetDropped ==
  ASSUME TypeInv, BudgetLeft, NEW r \in Runners, DropBudget(r), GoTo(r, "idle")
  PROVE  BudgetLeft'
<1>1. calls'[r] = 0 /\ retired'[r] = 0 /\ exhausted'[r] = FALSE /\ stage'[r] = "idle"
  BY DEF DropBudget, GoTo, TypeInv, TypeOK
<1>2. \A q \in Runners \ {r} : /\ calls'[q] = calls[q] /\ retired'[q] = retired[q]
                               /\ exhausted'[q] = exhausted[q] /\ stage'[q] = stage[q]
  BY DEF DropBudget, GoTo, TypeInv, TypeOK
<1> QED BY <1>1, <1>2, ConsolidationAssumption DEF BudgetLeft

LEMMA BudgetStep == TypeInv /\ BudgetLeft /\ [Next]_vars => BudgetLeft'
<1> SUFFICES ASSUME TypeInv, BudgetLeft, [Next]_vars PROVE BudgetLeft'
  OBVIOUS
<1>1. CASE Clients \/ UNCHANGED vars
  BY <1>1 DEF Clients, StartSave, StartEdit, Write, Abandon, Remove, Expire, vars, BudgetLeft
<1>2. ASSUME NEW r \in Runners, StartPass(r) PROVE BudgetLeft'
  BY <1>2 DEF StartPass, GoTo, TypeInv, TypeOK, BudgetLeft
<1>3. ASSUME NEW r \in Runners, Visit(r) PROVE BudgetLeft'
  BY <1>3 DEF Visit, GoTo, TypeInv, TypeOK, BudgetLeft
<1>7. ASSUME NEW r \in Runners, EndPass(r) \/ Crash(r) PROVE BudgetLeft'
  <2>1. DropBudget(r) /\ GoTo(r, "idle")
    BY <1>7 DEF EndPass, Crash
  <2> QED BY <2>1, BudgetDropped
<1>4. ASSUME NEW r \in Runners, Decline(r) PROVE BudgetLeft'
  BY <1>4, BudgetAtCharge DEF Decline
<1>5. ASSUME NEW r \in Runners, Retire(r) PROVE BudgetLeft'
  <2>1. PICK S \in SUBSET Stamps : Charge(r, Cardinality(S)) /\ NextCluster(r)
    BY <1>5 DEF Retire
  <2>2. IsFiniteSet(1..MaxStamps)
    BY FS_Interval
  <2>3. Cardinality(S) \in Nat
    BY <2>2, FS_Subset, FS_CardinalityType DEF Stamps
  <2> QED BY <2>1, <2>3, BudgetAtCharge
\* Every other step leaves the budget alone; only one of a pass with budget left
\* goes on to another stage.
<1>6. ASSUME NEW r \in Runners,
             \/ RetireExpired(r) \/ Rescore(r) \/ PlanUser(r) \/ UserFails(r)
             \/ Ask(r) \/ Compose(r) \/ SaveMerged(r) \/ ClusterFails(r)
             \/ EndClusters(r) \/ Record(r) \/ EndRecording(r)
      PROVE BudgetLeft'
  <2>1. /\ UNCHANGED budget /\ \A q \in Runners \ {r} : stage'[q] = stage[q]
        /\ stage[r] # "visiting"
    BY <1>6 DEF RetireExpired, Rescore, PlanUser, UserFails, Ask, Compose, SaveMerged,
                ClusterFails, EndClusters, Record, EndRecording, NextUser, NextCluster,
                GoTo, TypeInv, TypeOK
  <2> QED BY <2>1 DEF BudgetLeft
<1> QED BY <1>1, <1>2, <1>3, <1>4, <1>5, <1>6, <1>7 DEF Next, Run

\* However many users and clusters a pass meets, it makes no call once its
\* budget is used up.
THEOREM BudgetIsKept == Spec => []NoCallBeyondBudget
<1>1. BudgetLeft => NoCallBeyondBudget
  BY DEF BudgetLeft, NoCallBeyondBudget
<1>2. Init => TypeInv /\ BudgetLeft
  BY TypeInit, BudgetInit
<1>3. TypeInv /\ BudgetLeft /\ [Next]_vars => (TypeInv /\ BudgetLeft)'
  BY TypeStep, BudgetStep
<1> QED BY <1>1, <1>2, <1>3, PTL DEF Spec

-----------------------------------------------------------------------------
(* Stamps.  A version that is stamped and not written yet has a stamp of   *)
(* its own: no row, no watermark and nothing a pass examines has it.       *)

Unused(s) ==
  /\ \A x \in rows : x.stamp # s
  /\ \A g \in Groups : watermark[g] # s
  /\ \A r \in Runners, g \in Groups : \A x \in examined[r][g] : x.stamp # s

StampsPassed ==
  /\ \A v \in rows \cup pending : v.stamp <= clock
  /\ \A g \in Groups : watermark[g] <= clock
  /\ \A r \in Runners : /\ \A v \in merged[r] : v.stamp <= clock
                        /\ \A g \in Groups : \A x \in examined[r][g] : x.stamp <= clock

StampsApart ==
  /\ \A v \in pending : Unused(v.stamp)
  /\ \A v, w \in pending : v.stamp = w.stamp => v = w
  /\ \A r \in Runners : stage[r] = "saving" => \A v \in merged[r] :
       /\ Unused(v.stamp)
       /\ \A w \in merged[r] : w = v
       /\ \A w \in pending : w.stamp # v.stamp
       /\ \A q \in Runners \ {r} : stage[q] = "saving" =>
            \A w \in merged[q] : w.stamp # v.stamp

StampInv == StampsPassed /\ StampsApart

LEMMA StampInit == Init => StampInv
BY DEF Init, StampInv, StampsPassed, StampsApart, Unused, Nothing, None

\* A step that stamps nothing and writes nothing new keeps stamps apart.
LEMMA StampsStay ==
  ASSUME StampInv, clock' = clock, rows' \subseteq rows, pending' \subseteq pending,
         watermark' = watermark,
         \A r \in Runners : /\ merged'[r] \subseteq merged[r]
                            /\ stage'[r] = "saving" => stage[r] = "saving"
                            /\ \A g \in Groups : examined'[r][g] \subseteq examined[r][g]
  PROVE  StampInv'
<1>1. StampsPassed'
  BY DEF StampInv, StampsPassed
<1>2. \A s : Unused(s) => Unused(s)'
  BY DEF Unused
<1>3. StampsApart'
  BY <1>2 DEF StampInv, StampsApart
<1> QED BY <1>1, <1>3 DEF StampInv

LEMMA UserIsLeft ==
  ASSUME TypeInv, NEW r \in Runners, NextUser(r)
  PROVE  \A q \in Runners :
           /\ merged'[q] \subseteq merged[q]
           /\ stage'[q] = "saving" => stage[q] = "saving"
           /\ \A g \in Groups : examined'[q][g] \subseteq examined[q][g]
BY DEF NextUser, GoTo, Nothing, TypeInv, TypeOK

LEMMA ClusterIsLeft ==
  ASSUME TypeInv, NEW r \in Runners, NextCluster(r)
  PROVE  \A q \in Runners :
           /\ merged'[q] \subseteq merged[q]
           /\ stage'[q] = "saving" => stage[q] = "saving"
           /\ \A g \in Groups : examined'[q][g] \subseteq examined[q][g]
<1>1. CASE exhausted'[r]
  BY <1>1, UserIsLeft DEF NextCluster
<1>2. CASE ~exhausted'[r]
  <2>1. /\ GoTo(r, "merging") /\ merged' = [merged EXCEPT ![r] = {}]
        /\ examined' = examined
    BY <1>2 DEF NextCluster
  <2> QED BY <2>1 DEF GoTo, TypeInv, TypeOK
<1> QED BY <1>1, <1>2

\* The stamp of a version that is written is its own by then.
LEMMA StampsAtWrite ==
  ASSUME TypeInv, StampInv, NEW v \in Versions, v.stamp <= clock, WriteRow(v),
         UNCHANGED <<clock, watermark, examined, merged>>,
         pending' \subseteq pending,
         \A w \in pending' : w.stamp # v.stamp,
         \A r \in Runners : stage'[r] = "saving" =>
           stage[r] = "saving" /\ \A w \in merged[r] : w.stamp # v.stamp
  PROVE  StampInv'
<1>1. rows' \subseteq rows \cup {v}
  BY DEF WriteRow
<1>2. StampsPassed'
  BY <1>1 DEF StampInv, StampsPassed
<1>3. \A s : Unused(s) /\ s # v.stamp => Unused(s)'
  BY <1>1 DEF Unused
<1>4. StampsApart'
  BY <1>3 DEF StampInv, StampsApart
<1> QED BY <1>2, <1>4 DEF StampInv

\* The next stamp is unused.
LEMMA NextStampIsUnused ==
  ASSUME TypeInv, StampInv
  PROVE  /\ Unused(clock + 1)
         /\ \A w \in pending : w.stamp < clock + 1
         /\ \A q \in Runners : \A w \in merged[q] : w.stamp < clock + 1
<1>1. \A w \in Versions : w.stamp \in Nat
  BY DEF Versions, Stamps
<1>2. clock \in Nat /\ \A g \in Groups : watermark[g] \in Nat
  BY DEF TypeInv, TypeOK
<1>3. /\ \A x \in rows \cup pending : x.stamp \in Nat /\ x.stamp <= clock
      /\ \A q \in Runners : \A w \in merged[q] : w.stamp \in Nat /\ w.stamp <= clock
      /\ \A q \in Runners, g \in Groups : \A x \in examined[q][g] :
           x.stamp \in Nat /\ x.stamp <= clock
  BY <1>1 DEF TypeInv, TypeOK, StampInv, StampsPassed
<1>4. \A g \in Groups : watermark[g] < clock + 1
  BY <1>2 DEF StampInv, StampsPassed
<1>5. Unused(clock + 1)
  BY <1>2, <1>3, <1>4 DEF Unused
<1> QED BY <1>2, <1>3, <1>5

\* A client stamps a version.
LEMMA StampsAtStart ==
  ASSUME TypeInv, StampInv, NEW v \in Versions, Stamp(v), pending' = pending \cup {v},
         UNCHANGED <<rows, watermark, stage, examined, merged>>
  PROVE  StampInv'
<1>1. clock' = clock + 1 /\ v.stamp = clock + 1 /\ clock \in Nat
  BY DEF Stamp, TypeInv, TypeOK
<1>2. \A w \in Versions : w.stamp \in Nat
  BY DEF Versions, Stamps
<1>3. StampsPassed'
  <2>1. \A x \in rows \cup pending : x.stamp <= clock + 1
    BY <1>1, <1>2 DEF StampInv, StampsPassed, TypeInv, TypeOK
  <2>2. \A g \in Groups : watermark[g] <= clock + 1
    BY <1>1 DEF StampInv, StampsPassed, TypeInv, TypeOK
  <2>3. \A r \in Runners : \A w \in merged[r] : w.stamp <= clock + 1
    BY <1>1, <1>2 DEF StampInv, StampsPassed, TypeInv, TypeOK
  <2>4. \A r \in Runners, g \in Groups : \A x \in examined[r][g] : x.stamp <= clock + 1
    BY <1>1, <1>2 DEF StampInv, StampsPassed, TypeInv, TypeOK
  <2> QED BY <1>1, <2>1, <2>2, <2>3, <2>4 DEF StampsPassed
<1>4. \A s : Unused(s) => Unused(s)'
  BY DEF Unused
<1>5. /\ Unused(v.stamp)
      /\ \A w \in pending : w.stamp # v.stamp
      /\ \A q \in Runners : \A w \in merged[q] : w.stamp # v.stamp
  <2>1. \A w \in pending : w.stamp \in Nat
    BY <1>2 DEF TypeInv, TypeOK
  <2>2. \A q \in Runners : \A w \in merged[q] : w.stamp \in Nat
    BY <1>2 DEF TypeInv, TypeOK
  <2> QED BY <1>1, <2>1, <2>2, NextStampIsUnused
<1>6. StampsApart'
  BY <1>4, <1>5 DEF StampInv, StampsApart
<1> QED BY <1>3, <1>6 DEF StampInv

\* A pass stamps a replacement.
LEMMA StampsAtCompose ==
  ASSUME TypeInv, StampInv, NEW r \in Runners, Compose(r)
  PROVE  StampInv'
<1>1. PICK v \in Versions : Stamp(v) /\ merged' = [merged EXCEPT ![r] = {v}]
  BY DEF Compose
<1>2. /\ stage[r] = "awaiting" /\ stage' = [stage EXCEPT ![r] = "saving"]
      /\ UNCHANGED <<rows, pending, watermark, examined>>
  BY DEF Compose, GoTo
<1>3. clock' = clock + 1 /\ v.stamp = clock + 1 /\ clock \in Nat
  BY <1>1 DEF Stamp, TypeInv, TypeOK
<1>4. \A w \in Versions : w.stamp \in Nat
  BY DEF Versions, Stamps
<1>5. merged'[r] = {v} /\ \A q \in Runners \ {r} : merged'[q] = merged[q]
  BY <1>1 DEF TypeInv, TypeOK
<1>6. stage'[r] = "saving" /\ \A q \in Runners \ {r} : stage'[q] = stage[q]
  BY <1>2 DEF TypeInv, TypeOK
<1>7. StampsPassed'
  <2>1. \A x \in rows \cup pending : x.stamp <= clock + 1
    BY <1>3, <1>4 DEF StampInv, StampsPassed, TypeInv, TypeOK
  <2>2. \A g \in Groups : watermark[g] <= clock + 1
    BY <1>3 DEF StampInv, StampsPassed, TypeInv, TypeOK
  <2>3. ASSUME NEW q \in Runners, NEW w \in merged'[q] PROVE w.stamp <= clock + 1
    <3>1. CASE q = r
      BY <1>3, <1>5, <2>3, <3>1
    <3>2. CASE q # r
      <4>1. w \in merged[q] /\ w.stamp <= clock
        BY <1>5, <2>3, <3>2 DEF StampInv, StampsPassed
      <4>2. w.stamp \in Nat
        BY <1>4, <4>1 DEF TypeInv, TypeOK
      <4> QED BY <1>3, <4>1, <4>2
    <3> QED BY <3>1, <3>2
  <2>4. \A q \in Runners, g \in Groups : \A x \in examined[q][g] : x.stamp <= clock + 1
    BY <1>3, <1>4 DEF StampInv, StampsPassed, TypeInv, TypeOK
  <2> QED BY <1>2, <1>3, <2>1, <2>2, <2>3, <2>4 DEF StampsPassed
<1>8. \A s : Unused(s) => Unused(s)'
  BY <1>2 DEF Unused
<1>9. /\ Unused(v.stamp)
      /\ \A w \in pending : w.stamp # v.stamp
      /\ \A q \in Runners : \A w \in merged[q] : w.stamp # v.stamp
  <2>1. \A w \in pending : w.stamp \in Nat
    BY <1>4 DEF TypeInv, TypeOK
  <2>2. \A q \in Runners : \A w \in merged[q] : w.stamp \in Nat
    BY <1>4 DEF TypeInv, TypeOK
  <2> QED BY <1>3, <2>1, <2>2, NextStampIsUnused
<1>10. StampsApart'
  BY <1>2, <1>5, <1>6, <1>8, <1>9 DEF StampInv, StampsApart
<1> QED BY <1>7, <1>10 DEF StampInv

LEMMA StampStep == TypeInv /\ StampInv /\ [Next]_vars => StampInv'
<1> SUFFICES ASSUME TypeInv, StampInv, [Next]_vars PROVE StampInv'
  OBVIOUS
<1>1. CASE StartSave \/ StartEdit
  <2>1. PICK v \in Versions : Stamp(v) /\ pending' = pending \cup {v}
    BY <1>1 DEF StartSave, StartEdit
  <2> QED BY <1>1, <2>1, StampsAtStart DEF StartSave, StartEdit
<1>2. CASE Write
  <2>1. PICK v \in pending : /\ pending' = pending \ {v}
                             /\ WriteRow(v) \/ rows' = rows
    BY <1>2 DEF Write
  <2>2. v \in Versions /\ v.stamp <= clock
    BY DEF TypeInv, TypeOK, StampInv, StampsPassed
  <2>3. UNCHANGED <<clock, watermark, stage, examined, merged>>
    BY <1>2 DEF Write
  <2>4. CASE WriteRow(v)
    <3>1. \A w \in pending' : w.stamp # v.stamp
      BY <2>1 DEF StampInv, StampsApart
    <3>2. \A r \in Runners : stage'[r] = "saving" =>
            stage[r] = "saving" /\ \A w \in merged[r] : w.stamp # v.stamp
      BY <2>3 DEF StampInv, StampsApart
    <3> QED BY <2>1, <2>2, <2>3, <2>4, <3>1, <3>2, StampsAtWrite
  <2>5. CASE rows' = rows
    BY <2>1, <2>3, <2>5, StampsStay
  <2> QED BY <2>1, <2>4, <2>5
<1>3. CASE Abandon \/ Remove \/ Expire \/ UNCHANGED vars
  BY <1>3, StampsStay DEF Abandon, Remove, Expire, vars
<1>4. ASSUME NEW r \in Runners, UserFails(r) \/ EndRecording(r) PROVE StampInv'
  BY <1>4, UserIsLeft, StampsStay DEF UserFails, EndRecording
<1>5. ASSUME NEW r \in Runners, Decline(r) \/ Retire(r) PROVE StampInv'
  BY <1>5, ClusterIsLeft, StampsStay DEF Decline, Retire
<1>6. ASSUME NEW r \in Runners, Compose(r) PROVE StampInv'
  BY <1>6, StampsAtCompose
<1>7. ASSUME NEW r \in Runners, SaveMerged(r) PROVE StampInv'
  <2>1. PICK v \in merged[r] : WriteRow(v)
    BY <1>7 DEF SaveMerged
  <2>2. /\ stage[r] = "saving" /\ stage' = [stage EXCEPT ![r] = "retiring"]
        /\ UNCHANGED <<clock, watermark, examined, merged, pending>>
    BY <1>7 DEF SaveMerged, GoTo
  <2>3. v \in Versions /\ v.stamp <= clock
    BY DEF TypeInv, TypeOK, StampInv, StampsPassed
  <2>4. \A w \in pending' : w.stamp # v.stamp
    BY <2>2 DEF StampInv, StampsApart
  <2>5. \A q \in Runners : stage'[q] = "saving" => q # r /\ stage[q] = "saving"
    BY <2>2 DEF TypeInv, TypeOK
  <2>6. \A q \in Runners : stage'[q] = "saving" =>
          stage[q] = "saving" /\ \A w \in merged[q] : w.stamp # v.stamp
    BY <2>2, <2>5 DEF StampInv, StampsApart
  <2> QED BY <2>1, <2>2, <2>3, <2>4, <2>6, StampsAtWrite
<1>8. ASSUME NEW r \in Runners, PlanUser(r) PROVE StampInv'
  <2>1. /\ stage' = [stage EXCEPT ![r] = "merging"]
        /\ UNCHANGED <<clock, rows, pending, watermark, merged>>
    BY <1>8 DEF PlanUser, GoTo
  <2>2. \A q \in Runners, g \in Groups : examined'[q][g] \subseteq examined[q][g] \cup rows
    <3>1. PICK G : examined' = [examined EXCEPT ![r] =
                     [g \in Groups |-> IF g \in G THEN Group(g) ELSE {}]]
      BY <1>8 DEF PlanUser
    <3> QED BY <3>1, GroupIsStored DEF TypeInv, TypeOK
  <2>3. StampsPassed'
    BY <2>1, <2>2 DEF StampInv, StampsPassed
  <2>4. \A s : Unused(s) => Unused(s)'
    BY <2>1, <2>2 DEF Unused
  <2>5. \A q \in Runners : stage'[q] = "saving" => stage[q] = "saving"
    BY <2>1 DEF TypeInv, TypeOK
  <2>6. StampsApart'
    BY <2>1, <2>4, <2>5 DEF StampInv, StampsApart
  <2> QED BY <2>3, <2>6 DEF StampInv
<1>9. ASSUME NEW r \in Runners, Record(r) PROVE StampInv'
  <2>1. PICK g \in ToRecord(r) :
          /\ watermark' = [watermark EXCEPT ![g] = Newest(examined[r][g])]
          /\ examined' = [examined EXCEPT ![r][g] = {}]
    BY <1>9 DEF Record
  <2>2. UNCHANGED <<clock, rows, pending, stage, merged>>
    BY <1>9 DEF Record
  <2>3. g \in Groups /\ examined[r][g] # {}
    BY DEF ToRecord
  <2>4. examined[r][g] \in SUBSET Versions
    BY <2>3 DEF TypeInv, TypeOK
  <2>5. PICK b \in examined[r][g] : b.stamp = Newest(examined[r][g])
    BY <2>3, <2>4, NewestIsOneOf
  <2>6. \A h \in Groups : watermark'[h] = watermark[h] \/ watermark'[h] = b.stamp
    BY <2>1, <2>5 DEF TypeInv, TypeOK
  <2>7. \A q \in Runners, h \in Groups : examined'[q][h] \subseteq examined[q][h]
    BY <2>1 DEF TypeInv, TypeOK
  <2>8. StampsPassed'
    BY <2>2, <2>3, <2>6, <2>7 DEF StampInv, StampsPassed
  <2>9. \A s : Unused(s) => Unused(s)'
    BY <2>2, <2>3, <2>6, <2>7 DEF Unused
  <2>10. StampsApart'
    BY <2>2, <2>9 DEF StampInv, StampsApart
  <2> QED BY <2>8, <2>10 DEF StampInv
<1>10. ASSUME NEW r \in Runners, Crash(r) PROVE StampInv'
  <2>1. \A q \in Runners : /\ merged'[q] \subseteq merged[q]
                           /\ stage'[q] = "saving" => stage[q] = "saving"
                           /\ \A g \in Groups : examined'[q][g] \subseteq examined[q][g]
    BY <1>10 DEF Crash, GoTo, Nothing, TypeInv, TypeOK
  <2> QED BY <1>10, <2>1, StampsStay DEF Crash
<1>11. ASSUME NEW r \in Runners,
              \/ StartPass(r) \/ Visit(r) \/ EndPass(r) \/ RetireExpired(r)
              \/ Rescore(r) \/ Ask(r) \/ ClusterFails(r) \/ EndClusters(r)
       PROVE StampInv'
  <2>1. \A q \in Runners : /\ merged'[q] \subseteq merged[q]
                           /\ stage'[q] = "saving" => stage[q] = "saving"
    BY <1>11 DEF StartPass, Visit, EndPass, RetireExpired, Rescore, Ask, ClusterFails,
                 EndClusters, GoTo, TypeInv, TypeOK
  <2>2. UNCHANGED <<clock, rows, pending, watermark, examined>>
    BY <1>11 DEF StartPass, Visit, EndPass, RetireExpired, Rescore, Ask, ClusterFails,
                 EndClusters
  <2> QED BY <2>1, <2>2, StampsStay
<1> QED
  BY <1>1, <1>2, <1>3, <1>4, <1>5, <1>6, <1>7, <1>8, <1>9, <1>10, <1>11
     DEF Next, Clients, Run

-----------------------------------------------------------------------------
(* What a watermark stands for.  Once a group's maximum is n, each pair of *)
(* near-duplicates up to n is decided, or in a cluster of D.  The maximum  *)
(* is n only while the version that had it is in the group.                *)

DoneUpTo(g, n, D) ==
  (\E b \in Group(g) : b.stamp = n) =>
    \A v, w \in Group(g) :
      v # w /\ v.topic = w.topic /\ v.stamp <= n /\ w.stamp <= n =>
        Decided(v, w) \/ \E C \in D : {v, w} \subseteq C

\* A pass still has the pairs of what it examines in a cluster, unless one of
\* the group's clusters failed.
Covered(r, g) ==
  \A n \in Stamps : examined[r][g] # {} /\ g \notin failed[r] /\ n = Newest(examined[r][g])
                     => DoneUpTo(g, n, todo[r] \cup {asking[r]})

Marked(g) == \A n \in Stamps : watermark[g] = n => DoneUpTo(g, n, {})

DoneInv == \A g \in Groups : Marked(g) /\ \A r \in Runners : Covered(r, g)

\* What joins a group is not the version that has the maximum n, and is behind
\* or no older than everything there.
JoinsApart(g, n) ==
  \A x \in Group(g)' \ Group(g) :
    x.stamp # n /\ (x \in missed' \/ \A b \in Group(g) : b.stamp <= x.stamp)

LEMMA DoneInit == Init => DoneInv
BY DEF Init, DoneInv, Marked, Covered, Nothing, None, Stamps

\* The heart of the argument: what was done up to n stays done up to n.
LEMMA DoneStays ==
  ASSUME TypeInv, TypeInv', NEW g \in Groups, NEW n \in Stamps, NEW D, NEW E,
         DoneUpTo(g, n, D), JoinsApart(g, n),
         judged \subseteq judged', missed \subseteq missed',
         \A v, w \in Group(g)' : \A C \in D : v # w /\ {v, w} \subseteq C =>
           Decided(v, w)' \/ \E F \in E : {v, w} \subseteq F
  PROVE  DoneUpTo(g, n, E)'
<1> SUFFICES ASSUME NEW b \in Group(g)', b.stamp = n,
                    NEW v \in Group(g)', NEW w \in Group(g)',
                    v # w, v.topic = w.topic, v.stamp <= n, w.stamp <= n,
                    ~Decided(v, w)'
             PROVE  \E F \in E : {v, w} \subseteq F
  BY DEF DoneUpTo
<1>1. b \in Group(g)
  BY DEF JoinsApart
<1>2. v \notin missed' /\ w \notin missed' /\ ~Decided(v, w)
  BY DEF Decided
<1>3. \A x \in Group(g)' : x.stamp \in Nat
  <2>1. Group(g)' \subseteq Versions
    BY DEF Group, TypeInv, TypeOK
  <2> QED BY <2>1 DEF Versions, Stamps
<1>4. ASSUME NEW x \in Group(g)', x.stamp <= n, x \notin missed'
      PROVE  x \in Group(g)
  <2> SUFFICES ASSUME x \notin Group(g) PROVE FALSE
    OBVIOUS
  <2>1. x.stamp # n /\ n <= x.stamp
    BY <1>1, <1>4 DEF JoinsApart
  <2> QED BY <1>3, <1>4, <2>1 DEF Stamps
<1>5. v \in Group(g) /\ w \in Group(g)
  BY <1>2, <1>4
<1>6. PICK C \in D : {v, w} \subseteq C
  BY <1>1, <1>2, <1>5 DEF DoneUpTo
<1> QED BY <1>6

\* A write joins its group so: its stamp is unused, and if it is behind a
\* newer version it counts as missed.
LEMMA WriteJoinsApart ==
  ASSUME TypeInv, NEW v \in Versions, WriteRow(v), expired \ {v.memory} \subseteq expired',
         NEW g \in Groups, NEW n \in Stamps, n # v.stamp
  PROVE  JoinsApart(g, n)
<1> SUFFICES ASSUME NEW x \in Group(g)', x \notin Group(g)
             PROVE  x.stamp # n /\ (x \in missed' \/ \A b \in Group(g) : b.stamp <= x.stamp)
  BY DEF JoinsApart
<1>1. x \in rows' /\ x.group = g /\ status'[x.memory] = "active" /\ x.memory \notin expired'
  BY DEF Group
<1>2. x = v
  <2> SUFFICES ASSUME x # v PROVE FALSE
    OBVIOUS
  <2>1. x \in rows /\ x.memory # v.memory
    BY <1>1 DEF WriteRow
  <2>2. status[x.memory] = "active"
    BY <1>1, <2>1 DEF WriteRow, TypeInv, TypeOK, Versions
  <2> QED BY <1>1, <2>1, <2>2 DEF Group
<1>3. \A b \in Group(g) : b.stamp \in Nat
  BY GroupIsStored DEF TypeInv, TypeOK, Versions, Stamps
<1>4. v.stamp \in Nat
  BY DEF Versions, Stamps
<1>5. CASE Behind(v)
  BY <1>2, <1>5 DEF WriteRow
<1>6. CASE ~Behind(v)
  BY <1>1, <1>2, <1>3, <1>4, <1>6 DEF Behind
<1> QED BY <1>2, <1>5, <1>6

\* Every other step lets groups shrink at most.
LEMMA GroupShrinks ==
  ASSUME TypeInv, NEW g \in Groups, rows' = rows, expired \subseteq expired',
         \A m \in Stamps : status'[m] = "active" => status[m] = "active"
  PROVE  Group(g)' \subseteq Group(g)
BY DEF Group, TypeInv, TypeOK, Versions

LEMMA MarkedStays ==
  ASSUME TypeInv, TypeInv', NEW g \in Groups, Marked(g), watermark'[g] = watermark[g],
         judged \subseteq judged', missed \subseteq missed',
         \A n \in Stamps : watermark[g] = n => JoinsApart(g, n)
  PROVE  Marked(g)'
<1> SUFFICES ASSUME NEW n \in Stamps, watermark[g] = n PROVE DoneUpTo(g, n, {})'
  BY DEF Marked
<1>1. DoneUpTo(g, n, {}) /\ JoinsApart(g, n)
  BY DEF Marked
<1> QED BY <1>1, DoneStays

LEMMA CoveredStays ==
  ASSUME TypeInv, TypeInv', NEW r \in Runners, NEW g \in Groups, Covered(r, g),
         judged \subseteq judged', missed \subseteq missed',
         examined'[r][g] = examined[r][g], failed[r] \subseteq failed'[r],
         examined[r][g] # {} => JoinsApart(g, Newest(examined[r][g])),
         g \notin failed'[r] =>
           \A v, w \in Group(g)' : \A C \in todo[r] \cup {asking[r]} :
             v # w /\ {v, w} \subseteq C =>
               Decided(v, w)' \/ \E F \in todo'[r] \cup {asking'[r]} : {v, w} \subseteq F
  PROVE  Covered(r, g)'
<1> DEFINE N == Newest(examined[r][g])
<1> SUFFICES ASSUME examined[r][g] # {}, g \notin failed'[r], NEW n \in Stamps, n = N
             PROVE  DoneUpTo(g, n, todo[r] \cup {asking[r]})'
  BY DEF Covered
<1>1. DoneUpTo(g, n, todo[r] \cup {asking[r]})
  BY DEF Covered
<1>2. JoinsApart(g, n)
  OBVIOUS
<1> HIDE DEF N
<1> QED BY <1>1, <1>2, DoneStays

\* A step that adds nothing to a group and marks no group.  Of what a pass
\* examines it drops a group, has one fail, or leaves the clusters to cover it.
LEMMA DoneInvStays ==
  ASSUME TypeInv, TypeInv', DoneInv, watermark' = watermark,
         judged \subseteq judged', missed \subseteq missed',
         \A g \in Groups : Group(g)' \subseteq Group(g),
         \A r \in Runners, g \in Groups :
           \/ examined'[r][g] = {}
           \/ /\ examined'[r][g] = examined[r][g] /\ failed[r] \subseteq failed'[r]
              /\ g \notin failed'[r] =>
                   \A v, w \in Group(g)' : \A C \in todo[r] \cup {asking[r]} :
                     v # w /\ {v, w} \subseteq C =>
                       Decided(v, w)' \/ \E F \in todo'[r] \cup {asking'[r]} : {v, w} \subseteq F
  PROVE  DoneInv'
<1>1. \A g \in Groups, n \in Stamps : JoinsApart(g, n)
  BY DEF JoinsApart
<1>2. ASSUME NEW g \in Groups PROVE Marked(g)'
  <2>1. Marked(g) /\ \A n \in Stamps : JoinsApart(g, n)
    BY <1>1 DEF DoneInv
  <2> QED BY <2>1, MarkedStays
<1>3. ASSUME NEW g \in Groups, NEW r \in Runners PROVE Covered(r, g)'
  <2>1. CASE examined'[r][g] = {}
    BY <2>1 DEF Covered
  <2>2. CASE examined'[r][g] # {}
    <3>1. Covered(r, g)
      BY DEF DoneInv
    <3>2. examined[r][g] # {} => JoinsApart(g, Newest(examined[r][g]))
      <4>1. examined[r][g] \in SUBSET Versions
        BY DEF TypeInv, TypeOK
      <4> QED BY <1>1, <4>1, NewestIsOneOf
    <3> QED BY <2>2, <3>1, <3>2, CoveredStays
  <2> QED BY <2>1, <2>2
<1> QED BY <1>2, <1>3 DEF DoneInv

\* A client's or a pass's write, of a version whose stamp is unused.
LEMMA DoneAtWrite ==
  ASSUME TypeInv, TypeInv', DoneInv, NEW v \in Versions, WriteRow(v), Unused(v.stamp),
         expired \ {v.memory} \subseteq expired',
         UNCHANGED <<watermark, judged, examined, todo, asking, failed>>
  PROVE  DoneInv'
<1>1. missed \subseteq missed'
  BY DEF WriteRow
<1>2. ASSUME NEW g \in Groups PROVE Marked(g)'
  <2>1. Marked(g)
    BY DEF DoneInv
  <2>2. \A n \in Stamps : watermark[g] = n => JoinsApart(g, n)
    BY WriteJoinsApart DEF Unused
  <2> QED BY <1>1, <2>1, <2>2, MarkedStays
<1>3. ASSUME NEW g \in Groups, NEW r \in Runners PROVE Covered(r, g)'
  <2>1. Covered(r, g)
    BY DEF DoneInv
  <2>2. examined[r][g] # {} => JoinsApart(g, Newest(examined[r][g]))
    <3> SUFFICES ASSUME examined[r][g] # {} PROVE JoinsApart(g, Newest(examined[r][g]))
      OBVIOUS
    <3>1. examined[r][g] \in SUBSET Versions
      BY DEF TypeInv, TypeOK
    <3>2. PICK b \in examined[r][g] : b.stamp = Newest(examined[r][g])
      BY <3>1, NewestIsOneOf
    <3>3. b.stamp # v.stamp /\ b.stamp \in Stamps
      BY <3>1 DEF Unused, Versions
    <3>4. JoinsApart(g, b.stamp)
      BY <3>3, WriteJoinsApart
    <3> QED BY <3>2, <3>4
  <2>3. \A C \in todo[r] \cup {asking[r]} : C \in todo'[r] \cup {asking'[r]}
    OBVIOUS
  <2> QED BY <1>1, <2>1, <2>2, <2>3, CoveredStays
<1> QED BY <1>2, <1>3 DEF DoneInv

\* The plan covers what it examines, but for what the slice cuts off.
LEMMA DoneAtPlan ==
  ASSUME TypeInv, TypeInv', DoneInv, NEW r \in Runners, PlanUser(r)
  PROVE  DoneInv'
<1>1. PICK G \in SUBSET Groups :
        /\ examined' = [examined EXCEPT ![r] =
             [g \in Groups |-> IF g \in G THEN Group(g) ELSE {}]]
        /\ todo' = [todo EXCEPT ![r] = UNION {Clusters(Slice(Group(g))) : g \in G}]
        /\ missed' = missed \cup UNION {Group(g) \ Slice(Group(g)) : g \in G}
  BY DEF PlanUser, Changed
<1>2. UNCHANGED <<rows, status, expired, watermark, judged, asking, failed>>
  BY DEF PlanUser
<1>3. \A g \in Groups : Group(g)' = Group(g)
  BY <1>2 DEF Group
<1>4. \A g \in Groups, n \in Stamps : JoinsApart(g, n)
  BY <1>3 DEF JoinsApart
<1>5. missed \subseteq missed'
  BY <1>1
<1>6. ASSUME NEW g \in Groups PROVE Marked(g)'
  <2>1. Marked(g)
    BY DEF DoneInv
  <2> QED BY <1>2, <1>4, <1>5, <2>1, MarkedStays
<1>7. ASSUME NEW q \in Runners \ {r}, NEW g \in Groups PROVE Covered(q, g)'
  <2>1. Covered(q, g) /\ examined[q][g] \in SUBSET Versions
    BY DEF DoneInv, TypeInv, TypeOK
  <2>2. examined'[q] = examined[q] /\ todo'[q] = todo[q]
    BY <1>1 DEF TypeInv, TypeOK
  <2>3. examined[q][g] # {} => JoinsApart(g, Newest(examined[q][g]))
    BY <1>4, <2>1, NewestIsOneOf
  <2>4. \A C \in todo[q] \cup {asking[q]} : C \in todo'[q] \cup {asking'[q]}
    BY <1>2, <2>2
  <2> QED BY <1>2, <1>5, <2>1, <2>2, <2>3, <2>4, CoveredStays
<1>8. ASSUME NEW g \in Groups PROVE Covered(r, g)'
  <2> SUFFICES ASSUME examined'[r][g] # {},
                      NEW v \in Group(g)', NEW w \in Group(g)',
                      v # w, v.topic = w.topic, ~Decided(v, w)'
               PROVE  \E C \in todo'[r] \cup {asking'[r]} : {v, w} \subseteq C
    BY DEF Covered, DoneUpTo
  <2>1. g \in G
    BY <1>1 DEF TypeInv, TypeOK
  <2>2. v \in Group(g) /\ w \in Group(g)
    BY <1>3
  <2>3. v \in Slice(Group(g)) /\ w \in Slice(Group(g))
    BY <1>1, <2>1, <2>2 DEF Decided
  <2> DEFINE V == Slice(Group(g))
             C == {x \in V : x.topic = v.topic}
  <2>4. v \in C /\ w \in C /\ C \subseteq rows /\ v.topic \in Topics
    BY <2>3, GroupIsStored DEF Slice, TypeInv, TypeOK, Versions
  <2>5. Cardinality(C) >= 2
    <3>1. IsFiniteSet(C)
      BY <2>4, FS_Subset DEF TypeInv
    <3> HIDE DEF C
    <3> QED BY <2>4, <3>1, TwoAreACluster
  <2>6. C \in Clusters(V)
    BY <2>4, <2>5 DEF Clusters
  <2>7. todo'[r] = UNION {Clusters(Slice(Group(h))) : h \in G}
    BY <1>1 DEF TypeInv, TypeOK
  <2>8. C \in todo'[r]
    BY <2>1, <2>6, <2>7
  <2> HIDE DEF C
  <2> QED BY <2>4, <2>8
<1> QED BY <1>6, <1>7, <1>8 DEF DoneInv

\* A watermark is the maximum of what was examined, once no cluster is left.
LEMMA DoneAtRecord ==
  ASSUME TypeInv, TypeInv', DoneInv, NEW r \in Runners, Record(r)
  PROVE  DoneInv'
<1>1. PICK h \in ToRecord(r) :
        /\ watermark' = [watermark EXCEPT ![h] = Newest(examined[r][h])]
        /\ examined' = [examined EXCEPT ![r][h] = {}]
  BY DEF Record
<1>2. UNCHANGED <<rows, status, expired, judged, missed, todo, asking, failed>>
      /\ stage[r] = "recording"
  BY DEF Record
<1>3. \A g \in Groups : Group(g)' = Group(g)
  BY <1>2 DEF Group
<1>4. \A g \in Groups, n \in Stamps : JoinsApart(g, n)
  BY <1>3 DEF JoinsApart
<1>5. h \in Groups /\ examined[r][h] # {} /\ h \notin failed[r]
  BY DEF ToRecord
<1>6. Marked(h)'
  <2> SUFFICES ASSUME NEW n \in Stamps, watermark'[h] = n PROVE DoneUpTo(h, n, {})'
    BY DEF Marked
  <2>1. n = Newest(examined[r][h])
    BY <1>1, <1>5 DEF TypeInv, TypeOK
  <2>2. todo[r] = {} /\ asking[r] = {}
    BY <1>2 DEF TypeInv, ClustersInHand
  <2>3. DoneUpTo(h, n, todo[r] \cup {asking[r]})
    BY <1>5, <2>1 DEF DoneInv, Covered
  <2>4. DoneUpTo(h, n, {})
    BY <2>2, <2>3 DEF DoneUpTo
  <2>5. JoinsApart(h, n)
    BY <1>4, <1>5
  <2>6. judged \subseteq judged' /\ missed \subseteq missed'
    BY <1>2
  <2> QED BY <1>5, <2>4, <2>5, <2>6, DoneStays
<1>7. ASSUME NEW g \in Groups \ {h} PROVE Marked(g)'
  <2>1. Marked(g) /\ watermark'[g] = watermark[g]
    BY <1>1, <1>5 DEF DoneInv, TypeInv, TypeOK
  <2> QED BY <1>2, <1>4, <2>1, MarkedStays
<1>8. ASSUME NEW q \in Runners, NEW g \in Groups PROVE Covered(q, g)'
  <2>1. examined'[q][g] = {} \/ examined'[q][g] = examined[q][g]
    BY <1>1, <1>5 DEF TypeInv, TypeOK
  <2>2. CASE examined'[q][g] = {}
    BY <2>2 DEF Covered
  <2>3. CASE examined'[q][g] = examined[q][g]
    <3>1. Covered(q, g) /\ examined[q][g] \in SUBSET Versions
      BY DEF DoneInv, TypeInv, TypeOK
    <3>2. examined[q][g] # {} => JoinsApart(g, Newest(examined[q][g]))
      BY <1>4, <3>1, NewestIsOneOf
    <3>3. \A C \in todo[q] \cup {asking[q]} : C \in todo'[q] \cup {asking'[q]}
      BY <1>2
    <3> QED BY <1>2, <2>3, <3>1, <3>2, <3>3, CoveredStays
  <2> QED BY <2>1, <2>2, <2>3
<1> QED BY <1>6, <1>7, <1>8 DEF DoneInv

\* Done with a user, or with a cluster whose pairs are decided or retired.
LEMMA DoneAtNextUser ==
  ASSUME TypeInv, NEW r \in Runners, NextUser(r)
  PROVE  \A q \in Runners, g \in Groups :
           \/ examined'[q][g] = {}
           \/ /\ q # r /\ examined'[q][g] = examined[q][g] /\ failed'[q] = failed[q]
              /\ todo'[q] = todo[q] /\ asking'[q] = asking[q]
BY DEF NextUser, Nothing, TypeInv, TypeOK

LEMMA DoneAtCluster ==
  ASSUME TypeInv, TypeInv', DoneInv, NEW r \in Runners, NextCluster(r), UNCHANGED watermark,
         judged \subseteq judged', missed \subseteq missed',
         \A g \in Groups : Group(g)' \subseteq Group(g),
         \A g \in Groups : \A v, w \in Group(g)' :
           v # w /\ {v, w} \subseteq asking[r] => Decided(v, w)'
  PROVE  DoneInv'
<1>1. CASE exhausted'[r]
  <2>1. NextUser(r)
    BY <1>1 DEF NextCluster
  <2> QED BY <2>1, DoneAtNextUser, DoneInvStays
<1>2. CASE ~exhausted'[r]
  <2>1. asking' = [asking EXCEPT ![r] = {}] /\ UNCHANGED <<examined, todo, failed>>
    BY <1>2 DEF NextCluster
  <2>2. \A q \in Runners \ {r} : asking'[q] = asking[q]
    BY <2>1 DEF TypeInv, TypeOK
  <2>3. \A q \in Runners, g \in Groups : \A v, w \in Group(g)' :
          \A C \in todo[q] \cup {asking[q]} : v # w /\ {v, w} \subseteq C =>
            Decided(v, w)' \/ \E F \in todo'[q] \cup {asking'[q]} : {v, w} \subseteq F
    BY <2>1, <2>2
  <2> QED BY <2>1, <2>3, DoneInvStays
<1> QED BY <1>1, <1>2

LEMMA DoneStep == TypeInv /\ TypeInv' /\ StampInv /\ DoneInv /\ [Next]_vars => DoneInv'
<1> SUFFICES ASSUME TypeInv, TypeInv', StampInv, DoneInv, [Next]_vars PROVE DoneInv'
  OBVIOUS
<1>1. CASE StartSave \/ StartEdit \/ Abandon \/ UNCHANGED vars
  <2>1. UNCHANGED <<rows, status, expired, watermark, judged, missed, examined, todo,
                    asking, failed>>
    BY <1>1 DEF StartSave, StartEdit, Abandon, vars
  <2>2. \A g \in Groups : Group(g)' \subseteq Group(g)
    BY <2>1 DEF Group
  <2> QED BY <2>1, <2>2, DoneInvStays
<1>2. CASE Write
  <2>1. PICK v \in pending : /\ expired' = expired \ {v.memory}
                             /\ \/ WriteRow(v)
                                \/ status[v.memory] = "deleted" /\ UNCHANGED <<rows, status, missed>>
    BY <1>2 DEF Write
  <2>2. UNCHANGED <<watermark, judged, examined, todo, asking, failed>>
    BY <1>2 DEF Write
  <2>3. CASE WriteRow(v)
    <3>1. v \in Versions /\ Unused(v.stamp)
      BY DEF TypeInv, TypeOK, StampInv, StampsApart
    <3> QED BY <2>1, <2>2, <2>3, <3>1, DoneAtWrite
  <2>4. CASE status[v.memory] = "deleted" /\ UNCHANGED <<rows, status, missed>>
    <3>1. \A g \in Groups : Group(g)' \subseteq Group(g)
      BY <2>1, <2>4 DEF Group
    <3> QED BY <2>2, <2>4, <3>1, DoneInvStays
  <2> QED BY <2>1, <2>3, <2>4
<1>3. CASE Remove \/ Expire
  <2>1. /\ rows' = rows /\ expired \subseteq expired'
        /\ \A m \in Stamps : status'[m] = "active" => status[m] = "active"
    BY <1>3 DEF Remove, Expire, TypeInv, TypeOK
  <2>2. \A g \in Groups : Group(g)' \subseteq Group(g)
    BY <2>1, GroupShrinks
  <2> QED BY <1>3, <2>2, DoneInvStays DEF Remove, Expire
<1>4. ASSUME NEW r \in Runners, RetireExpired(r) PROVE DoneInv'
  <2>1. /\ rows' = rows /\ expired' = expired
        /\ \A m \in Stamps : status'[m] = "active" => status[m] = "active"
    BY <1>4 DEF RetireExpired, TypeInv, TypeOK
  <2>2. \A g \in Groups : Group(g)' \subseteq Group(g)
    BY <2>1, GroupShrinks
  <2> QED BY <1>4, <2>2, DoneInvStays DEF RetireExpired
<1>5. ASSUME NEW r \in Runners,
             \/ StartPass(r) \/ Visit(r) \/ EndPass(r) \/ Rescore(r) \/ Compose(r)
             \/ EndClusters(r)
      PROVE DoneInv'
  <2>1. UNCHANGED <<rows, status, expired, watermark, judged, missed, examined, todo,
                    asking, failed>>
    BY <1>5 DEF StartPass, Visit, EndPass, Rescore, Compose, EndClusters
  <2>2. \A g \in Groups : Group(g)' \subseteq Group(g)
    BY <2>1 DEF Group
  <2> QED BY <2>1, <2>2, DoneInvStays
<1>6. ASSUME NEW r \in Runners, UserFails(r) \/ EndRecording(r) PROVE DoneInv'
  <2>1. NextUser(r) /\ UNCHANGED <<rows, status, expired, watermark, judged, missed>>
    BY <1>6 DEF UserFails, EndRecording
  <2>2. \A g \in Groups : Group(g)' \subseteq Group(g)
    BY <2>1 DEF Group
  <2> QED BY <2>1, <2>2, DoneAtNextUser, DoneInvStays
<1>7. ASSUME NEW r \in Runners, PlanUser(r) PROVE DoneInv'
  BY <1>7, DoneAtPlan
<1>8. ASSUME NEW r \in Runners, Ask(r) PROVE DoneInv'
  <2>1. PICK C \in todo[r] : /\ asking' = [asking EXCEPT ![r] = C]
                              /\ todo' = [todo EXCEPT ![r] = @ \ {C}]
    BY <1>8 DEF Ask
  <2>2. /\ stage[r] = "merging"
        /\ UNCHANGED <<rows, status, expired, watermark, judged, missed, examined, failed>>
    BY <1>8 DEF Ask
  <2>3. \A g \in Groups : Group(g)' \subseteq Group(g)
    BY <2>2 DEF Group
  <2>4. asking[r] = {}
    BY <2>2 DEF TypeInv, ClustersInHand
  <2>5. \A q \in Runners : \A D \in todo[q] \cup {asking[q]} :
          D \in todo'[q] \cup {asking'[q]} \/ D = {}
    BY <2>1, <2>4 DEF TypeInv, TypeOK
  <2>6. \A q \in Runners, g \in Groups : \A v, w \in Group(g)' :
          \A D \in todo[q] \cup {asking[q]} : v # w /\ {v, w} \subseteq D =>
            Decided(v, w)' \/ \E F \in todo'[q] \cup {asking'[q]} : {v, w} \subseteq F
    BY <2>5
  <2> QED BY <2>2, <2>3, <2>6, DoneInvStays
<1>9. ASSUME NEW r \in Runners, Decline(r) PROVE DoneInv'
  <2>1. /\ NextCluster(r) /\ judged' = judged \cup {asking[r]}
        /\ UNCHANGED <<rows, status, expired, watermark, missed>>
    BY <1>9 DEF Decline
  <2>2. \A g \in Groups : Group(g)' \subseteq Group(g)
    BY <2>1 DEF Group
  <2>3. \A v, w : {v, w} \subseteq asking[r] => Decided(v, w)'
    BY <2>1 DEF Decided
  <2> QED BY <2>1, <2>2, <2>3, DoneAtCluster
<1>10. ASSUME NEW r \in Runners, Retire(r) PROVE DoneInv'
  <2> DEFINE members == {m \in Stamps : /\ \E v \in asking[r] : v.memory = m
                                        /\ status[m] = "active"}
  <2>1. /\ status' = [m \in Stamps |-> IF m \in members THEN "superseded" ELSE status[m]]
        /\ NextCluster(r)
        /\ UNCHANGED <<rows, expired, watermark, judged, missed>>
    BY <1>10 DEF Retire
  <2>2. \A m \in Stamps : status'[m] = "active" => status[m] = "active" /\ m \notin members
    BY <2>1
  <2>3. \A g \in Groups : Group(g)' \subseteq Group(g)
    BY <2>1, <2>2, GroupShrinks
  <2>4. \A g \in Groups : \A v \in Group(g)' : v \notin asking[r]
    <3> SUFFICES ASSUME NEW g \in Groups, NEW v \in Group(g)', v \in asking[r] PROVE FALSE
      OBVIOUS
    <3>1. v.memory \in Stamps /\ status'[v.memory] = "active"
      BY <2>3, GroupIsStored DEF Group, TypeInv, TypeOK, Versions
    <3> QED BY <2>2, <3>1
  <2>5. \A g \in Groups : \A v, w \in Group(g)' :
          v # w /\ {v, w} \subseteq asking[r] => Decided(v, w)'
    BY <2>4
  <2> HIDE DEF members
  <2> QED BY <2>1, <2>3, <2>5, DoneAtCluster
<1>11. ASSUME NEW r \in Runners, SaveMerged(r) PROVE DoneInv'
  <2>1. PICK v \in merged[r] : WriteRow(v)
    BY <1>11 DEF SaveMerged
  <2>2. /\ stage[r] = "saving"
        /\ UNCHANGED <<expired, watermark, judged, examined, todo, asking, failed>>
    BY <1>11 DEF SaveMerged
  <2>3. v \in Versions /\ Unused(v.stamp)
    BY <2>2 DEF TypeInv, TypeOK, StampInv, StampsApart
  <2> QED BY <2>1, <2>2, <2>3, DoneAtWrite
<1>12. ASSUME NEW r \in Runners, ClusterFails(r) PROVE DoneInv'
  <2>1. /\ failed' = [failed EXCEPT ![r] = @ \cup {GroupOf(asking[r])}]
        /\ asking' = [asking EXCEPT ![r] = {}]
        /\ UNCHANGED <<rows, status, expired, watermark, judged, missed, examined, todo>>
    BY <1>12 DEF ClusterFails
  <2>2. \A g \in Groups : Group(g)' \subseteq Group(g)
    BY <2>1 DEF Group
  <2>3. \A q \in Runners \ {r} : asking'[q] = asking[q] /\ failed'[q] = failed[q]
    BY <2>1 DEF TypeInv, TypeOK
  <2>4. failed'[r] = failed[r] \cup {GroupOf(asking[r])}
    BY <2>1 DEF TypeInv, TypeOK
  <2>5. ASSUME NEW g \in Groups, g \notin failed'[r], NEW v \in Group(g)'
        PROVE  v \notin asking[r]
    <3> SUFFICES ASSUME v \in asking[r] PROVE FALSE
      OBVIOUS
    <3>1. v.group = g
      BY <2>2 DEF Group
    <3>2. \A x, y \in asking[r] : x.group = y.group
      BY DEF TypeInv, ClustersInHand
    <3>3. GroupOf(asking[r]) = g
      BY <3>1, <3>2, GroupOfMember
    <3> QED BY <2>4, <2>5, <3>3
  <2>6. \A q \in Runners : failed[q] \subseteq failed'[q]
    BY <2>3, <2>4
  <2>7. \A q \in Runners, g \in Groups : g \notin failed'[q] => \A v, w \in Group(g)' :
          \A D \in todo[q] \cup {asking[q]} : v # w /\ {v, w} \subseteq D =>
            Decided(v, w)' \/ \E F \in todo'[q] \cup {asking'[q]} : {v, w} \subseteq F
    BY <2>1, <2>3, <2>5
  <2> QED BY SMTT(20), <2>1, <2>2, <2>6, <2>7, DoneInvStays
<1>13. ASSUME NEW r \in Runners, Record(r) PROVE DoneInv'
  BY <1>13, DoneAtRecord
<1>14. ASSUME NEW r \in Runners, Crash(r) PROVE DoneInv'
  <2>1. UNCHANGED <<rows, status, expired, watermark, judged, missed>>
    BY <1>14 DEF Crash
  <2>2. \A g \in Groups : Group(g)' \subseteq Group(g)
    BY <2>1 DEF Group
  <2>3. \A q \in Runners, g \in Groups :
           \/ examined'[q][g] = {}
           \/ /\ examined'[q][g] = examined[q][g] /\ failed'[q] = failed[q]
              /\ todo'[q] = todo[q] /\ asking'[q] = asking[q]
    BY <1>14 DEF Crash, Nothing, TypeInv, TypeOK
  <2> QED BY <2>1, <2>2, <2>3, DoneInvStays
<1> QED
  BY <1>1, <1>2, <1>3, <1>4, <1>5, <1>6, <1>7, <1>8, <1>9, <1>10, <1>11, <1>12,
     <1>13, <1>14 DEF Next, Clients, Run

\* A group that is skipped as unchanged holds no two near-duplicates that the
\* model was not asked about, but for versions written behind a newer one:
\* whatever failed, died, was declined, merged, edited or saved meanwhile.
THEOREM SkippedAreDone == Spec => []SkippedGroupsAreDone
<1>1. TypeInv /\ DoneInv => SkippedGroupsAreDone
  <2> SUFFICES ASSUME TypeInv, DoneInv, NEW g \in Groups, Skipped(g) PROVE ~Undecided(g)
    BY DEF SkippedGroupsAreDone
  <2>1. Group(g) \in SUBSET Versions /\ Group(g) # {} /\ watermark[g] = Newest(Group(g))
    BY GroupIsStored DEF Skipped, TypeInv, TypeOK
  <2> DEFINE n == Newest(Group(g))
  <2>2. n \in Stamps /\ (\E b \in Group(g) : b.stamp = n) /\ \A v \in Group(g) : v.stamp <= n
    BY <2>1, NewestIsOneOf
  <2>3. watermark[g] = n
    BY <2>1
  <2> HIDE DEF n
  <2>4. DoneUpTo(g, n, {})
    BY <2>2, <2>3 DEF DoneInv, Marked
  <2> QED BY <2>2, <2>4 DEF DoneUpTo, Undecided
<1> DEFINE Inv == TypeInv /\ StampInv /\ DoneInv
<1>2. Init => Inv
  BY TypeInit, StampInit, DoneInit
<1>3. Inv /\ [Next]_vars => Inv'
  BY TypeStep, StampStep, DoneStep
<1>4. Inv => SkippedGroupsAreDone
  BY <1>1
<1> QED BY <1>2, <1>3, <1>4, PTL DEF Spec

=============================================================================
