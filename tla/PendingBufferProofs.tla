------------------------- MODULE PendingBufferProofs -------------------------
(***************************************************************************)
(* Proofs about PendingBuffer for any limits, codigos and types.  What     *)
(* Kept leaves of a map is worked out first, then what a pass leaves of    *)
(* the entries it visits, then that every step keeps the buffer a map and  *)
(* a suspended pass at its entry, and what a step can lose of the requests.*)
(***************************************************************************)
EXTENDS PendingBuffer, FiniteSetTheorems, FunctionTheorems,
        SequenceTheorems, TLAPS

-----------------------------------------------------------------------------
(***************************************************************************)
(* Passes do not overlap                                                   *)
(***************************************************************************)

\* addPending() may change the entry a pass is at, and where it is, but neither
\* starts nor ends a pass.
LEMMA AddKeepsPasses ==
    ASSUME PassesDoNotOverlap, NEW c \in Codigos, NEW t \in PayloadTypes,
           AddPending(c, t)
    PROVE  PassesDoNotOverlap'
<1>1. retrying' = retrying
  BY DEF AddPending
<1>2. (passes' = {} <=> passes = {}) /\ \A p, q \in passes' : p = q
  <2>1. CASE c \in Keys
    BY <2>1 DEF AddPending, Merge, PassesWith, PassesDoNotOverlap
  <2>2. CASE c \notin Keys /\ MustEvict
    <3> DEFINE Moved(p) == [p EXCEPT !.visited = IF p.visited = 0 THEN 0 ELSE @ - 1,
                                     !.detached = @ \/ p.visited = 1]
    <3>1. passes' = {Moved(p) : p \in passes}
      BY <2>2 DEF AddPending, Insert
    <3> HIDE DEF Moved
    <3> QED
      BY <3>1 DEF PassesDoNotOverlap
  <2>3. CASE c \notin Keys /\ ~MustEvict
    BY <2>3 DEF AddPending, Insert, PassesDoNotOverlap
  <2> QED
    BY <2>1, <2>2, <2>3
<1> QED
  BY <1>1, <1>2 DEF PassesDoNotOverlap

\* Visiting on, with no other pass about, ends in one suspended pass and the flag
\* set, or in none and the flag cleared.
LEMMA VisitLeavesOne ==
    ASSUME NEW s, NEW v, VisitNext(s, v, {})
    PROVE  PassesDoNotOverlap'
<1>1. CASE PassEnds(s, v, {})
  BY <1>1 DEF PassEnds, PassesDoNotOverlap
<1>2. CASE PassDispatches(s, v, {})
  <2>1. retrying' = TRUE /\ \E p : passes' = {p}
    BY <1>2 DEF PassDispatches
  <2> QED
    BY <2>1 DEF PassesDoNotOverlap
<1> QED
  BY <1>1, <1>2 DEF VisitNext

\* The interval does nothing while the flag is set, so the pass it starts is alone.
LEMMA TickKeepsPasses ==
    ASSUME PassesDoNotOverlap, Tick
    PROVE  PassesDoNotOverlap'
<1>1. passes = {}
  BY DEF PassesDoNotOverlap, Tick
<1>2. VisitNext(pending, 0, {})
  BY <1>1 DEF Tick
<1> QED
  BY <1>2, VisitLeavesOne

\* The pass whose dispatch has ended was the only one.
LEMMA DispatchKeepsPasses ==
    ASSUME PassesDoNotOverlap, NEW p \in passes, NEW ok \in BOOLEAN,
           DispatchEnds(p, ok)
    PROVE  PassesDoNotOverlap'
<1> DEFINE q == AfterDispatch(p, ok)
<1>1. passes \ {p} = {} /\ retrying
  BY DEF PassesDoNotOverlap
<1>2. NextType(pending, q, {}) \/ EntryEnds(pending, q, {})
  BY <1>1 DEF DispatchEnds
<1>3. CASE NextType(pending, q, {})
  <2>1. retrying' = retrying /\ \E r : passes' = {r}
    BY <1>3 DEF NextType
  <2> QED
    BY <1>1, <2>1 DEF PassesDoNotOverlap
<1>4. CASE EntryEnds(pending, q, {})
  <2>1. \E s, v : VisitNext(s, v, {})
    BY <1>4 DEF EntryEnds
  <2> QED
    BY <2>1, VisitLeavesOne
<1> QED
  BY <1>2, <1>3, <1>4

\* An entry that gets older is the same entry to its pass.
LEMMA AgeKeepsPasses ==
    ASSUME PassesDoNotOverlap, NEW i \in DOMAIN pending, Ages(i)
    PROVE  PassesDoNotOverlap'
<1>1. retrying' = retrying
  BY DEF Ages
<1>2. (passes' = {} <=> passes = {}) /\ \A p, q \in passes' : p = q
  <2> DEFINE Aged(p) == IF p.visited = i /\ ~p.detached
                        THEN [p EXCEPT !.entry.aged = TRUE] ELSE p
  <2>1. passes' = {Aged(p) : p \in passes}
    BY Zenon DEF Ages
  <2> HIDE DEF Aged
  <2> QED
    BY <2>1 DEF PassesDoNotOverlap
<1> QED
  BY <1>1, <1>2 DEF PassesDoNotOverlap

-----------------------------------------------------------------------------
(***************************************************************************)
(* What deleting entries leaves of the map                                 *)
(***************************************************************************)

\* Places of which the i-th and those before it make a set of k: each place is
\* counted once, and every number up to the size of the set is reached.
LEMMA EveryRankIsTaken ==
    ASSUME NEW n \in Nat, NEW kept \in SUBSET (1..n)
    PROVE  /\ Cardinality(kept) \in 0..n
           /\ \A i \in kept : Cardinality(kept \cap 1..i) \in 1..Cardinality(kept)
           /\ \A i, j \in kept :
                  i < j => Cardinality(kept \cap 1..i) < Cardinality(kept \cap 1..j)
           /\ \A k \in 1..Cardinality(kept) :
                  \E i \in kept : Cardinality(kept \cap 1..i) = k
<1> DEFINE size    == Cardinality(kept)
           upTo(i) == kept \cap 1..i
           rank    == [i \in kept |-> Cardinality(upTo(i))]
<1>1. IsFiniteSet(kept) /\ size \in 0..n
  <2>1. IsFiniteSet(1..n) /\ Cardinality(1..n) = n
    BY FS_Interval
  <2>2. IsFiniteSet(kept) /\ size <= n
    BY <2>1, FS_Subset
  <2> QED
    BY <2>2, FS_CardinalityType
<1>2. \A i : IsFiniteSet(upTo(i)) /\ Cardinality(upTo(i)) \in 0..size
  <2> SUFFICES ASSUME NEW i
               PROVE  IsFiniteSet(upTo(i)) /\ Cardinality(upTo(i)) \in 0..size
    OBVIOUS
  <2>1. upTo(i) \in SUBSET kept
    OBVIOUS
  <2>2. IsFiniteSet(upTo(i)) /\ Cardinality(upTo(i)) <= size
    BY <1>1, <2>1, FS_Subset
  <2> QED
    BY <2>2, FS_CardinalityType
<1>3. ASSUME NEW i \in kept
      PROVE  Cardinality(upTo(i)) \in 1..size
  <2>1. i \in upTo(i)
    OBVIOUS
  <2>2. Cardinality(upTo(i)) # 0
    BY <1>2, <2>1, FS_EmptySet
  <2> QED
    BY <1>2, <2>2
<1>4. ASSUME NEW i \in kept, NEW j \in kept, i < j
      PROVE  Cardinality(upTo(i)) < Cardinality(upTo(j))
  <2>1. upTo(i) \in SUBSET upTo(j) /\ j \in upTo(j) /\ j \notin upTo(i)
    BY <1>4
  <2>2. /\ Cardinality(upTo(i)) <= Cardinality(upTo(j))
        /\ Cardinality(upTo(i)) # Cardinality(upTo(j))
    BY <1>2, <2>1, FS_Subset
  <2> QED
    BY <1>2, <2>2
<1>5. rank \in Surjection(kept, 1..size)
  <2>1. rank \in [kept -> 1..size]
    BY <1>3
  <2>2. \A i, j \in kept : rank[i] = rank[j] => i = j
    <3> SUFFICES ASSUME NEW i \in kept, NEW j \in kept, rank[i] = rank[j], i # j
                 PROVE  FALSE
      OBVIOUS
    <3>1. i < j \/ j < i
      OBVIOUS
    <3>2. rank[i] < rank[j] \/ rank[j] < rank[i]
      BY <1>4, <3>1
    <3> QED
      BY <1>3, <3>2
  <2>3. rank \in Injection(kept, 1..size)
    BY <2>1, <2>2, Fun_IsInj
  <2>4. IsFiniteSet(1..size) /\ Cardinality(1..size) = size
    BY <1>1, FS_Interval
  <2> HIDE DEF rank
  <2> QED
    BY <2>3, <2>4, FS_Injection
<1>6. \A k \in 1..size : \E i \in kept : rank[i] = k
  <2> HIDE DEF rank, size
  <2> QED
    BY <1>5, Fun_SurjectionProperties
<1> QED
  BY <1>1, <1>3, <1>4, <1>6

\* Places that are kept, in their order: the k-th of the new map was the f[k]-th.
Picks(f, kept) ==
    /\ f \in [1..Cardinality(kept) -> kept]
    /\ \A j, k \in 1..Cardinality(kept) : j < k => f[j] < f[k]
    /\ \A i \in kept : \E k \in 1..Cardinality(kept) : f[k] = i
    /\ \A k \in 1..Cardinality(kept) : Cardinality(kept \cap 1..f[k]) = k

\* Kept returns what is at the places kept, all of it and in its order.
LEMMA KeptInOrder ==
    ASSUME NEW n \in Nat, NEW kept \in SUBSET (1..n)
    PROVE  /\ Cardinality(kept) \in 0..n
           /\ \E f : /\ Picks(f, kept)
                     /\ \A s : Kept(s, kept) = [k \in 1..Cardinality(kept) |-> s[f[k]]]
<1> DEFINE size    == Cardinality(kept)
           rank(i) == Cardinality(kept \cap 1..i)
           nth(k)  == CHOOSE i \in kept : rank(i) = k
           f       == [k \in 1..size |-> nth(k)]
<1>1. size \in 0..n
  BY EveryRankIsTaken
<1>2. \A k \in 1..size : nth(k) \in kept /\ rank(nth(k)) = k
  BY EveryRankIsTaken
<1>3. \A i, j \in kept : /\ i < j => rank(i) < rank(j)
                         /\ rank(i) \in 1..size
  BY EveryRankIsTaken
<1>4. /\ f \in [1..size -> kept]
      /\ \A k \in 1..size : f[k] \in kept /\ f[k] \in Int /\ rank(f[k]) = k
  <2> HIDE DEF nth, rank, size
  <2>1. f \in [1..size -> kept] /\ \A k \in 1..size : f[k] = nth(k)
    BY <1>2
  <2> HIDE DEF f
  <2>2. \A k \in 1..size : f[k] \in kept /\ rank(f[k]) = k
    BY <1>2, <2>1, Zenon
  <2>3. \A k \in 1..size : f[k] \in Int
    <3>1. \A i \in kept : i \in Int
      OBVIOUS
    <3> QED
      BY <2>2, <3>1, Zenon
  <2> QED
    BY <2>1, <2>2, <2>3
<1>5. \A s : Kept(s, kept) = [k \in 1..size |-> s[f[k]]]
  BY DEF Kept
<1> HIDE DEF nth, rank, f, size
<1>6. ASSUME NEW j \in 1..size, NEW k \in 1..size, j < k
      PROVE  f[j] < f[k]
  <2>1. /\ f[j] \in kept /\ f[j] \in Int /\ rank(f[j]) = j
        /\ f[k] \in kept /\ f[k] \in Int /\ rank(f[k]) = k
    BY <1>4
  <2>2. ASSUME f[k] < f[j] PROVE FALSE
    <3>1. rank(f[k]) < rank(f[j])
      BY <1>3, <2>1, <2>2
    <3> QED
      BY <1>6, <2>1, <3>1
  <2>3. f[k] # f[j]
    BY <1>6, <2>1
  <2> QED
    BY <2>1, <2>2, <2>3
<1>7. ASSUME NEW i \in kept
      PROVE  \E k \in 1..size : f[k] = i
  <2>1. rank(i) \in 1..size /\ i \in Int
    BY <1>3
  <2>2. PICK k \in 1..size : k = rank(i)
    BY <2>1
  <2>3. f[k] \in kept /\ f[k] \in Int /\ rank(f[k]) = rank(i)
    BY <1>4, <2>2
  <2>4. rank(f[k]) < rank(i) \/ rank(i) < rank(f[k]) \/ f[k] = i
    BY <1>3, <2>1, <2>3
  <2> QED
    BY <2>1, <2>2, <2>3, <2>4
<1>8. Picks(f, kept)
  <2>1. \A k \in 1..size : Cardinality(kept \cap 1..f[k]) = k
    BY <1>4 DEF rank
  <2> QED
    BY <1>4, <1>6, <1>7, <2>1 DEF Picks, size
<1> QED
  BY <1>1, <1>5, <1>8 DEF size

\* Deleting the entries that are not at the places `kept` leaves a map of the others.
LEMMA KeptIsPart ==
    ASSUME NEW S, NEW s \in Seq(S), NEW kept \in SUBSET DOMAIN s
    PROVE  /\ Kept(s, kept) \in Seq(S)
           /\ Len(Kept(s, kept)) = Cardinality(kept)
           /\ Cardinality(kept) \in 0..Len(s)
           /\ \E f : /\ Picks(f, kept)
                     /\ \A k \in 1..Cardinality(kept) : Kept(s, kept)[k] = s[f[k]]
<1> DEFINE n    == Len(s)
           size == Cardinality(kept)
<1>1. n \in Nat /\ kept \in SUBSET (1..n) /\ DOMAIN s = 1..n
  OBVIOUS
<1> HIDE DEF n
<1>2. size \in 0..n
  BY <1>1, KeptInOrder
<1>3. PICK f : /\ Picks(f, kept)
               /\ \A t : Kept(t, kept) = [k \in 1..size |-> t[f[k]]]
  BY <1>1, KeptInOrder
<1>4. Kept(s, kept) = [k \in 1..size |-> s[f[k]]]
  BY <1>3
<1>5. \A k \in 1..size : s[f[k]] \in S
  BY <1>3 DEF Picks
<1>6. Kept(s, kept) \in Seq(S) /\ Len(Kept(s, kept)) = size
  <2> HIDE DEF size
  <2> QED
    BY <1>2, <1>4, <1>5
<1> QED
  BY <1>2, <1>3, <1>4, <1>6 DEF n

-----------------------------------------------------------------------------
(***************************************************************************)
(* What a pass leaves of the entries that it visits                        *)
(***************************************************************************)

\* A visit counts a retry and changes nothing else.
LEMMA VisitedIsEntry ==
    ASSUME NEW e \in PendingEntries
    PROVE  /\ Visited(e) \in PendingEntries
           /\ Visited(e).codigo = e.codigo
           /\ Visited(e).types = e.types
           /\ Visited(e).aged = e.aged
           /\ Visited(e).retries = e.retries + 1
BY DEF PendingEntries, Visited

\* Of the first n entries of s, m has those that a pass need not give up, in their
\* order; those after the first v and up to the w-th have been visited.
Left(m, s, v, w, n, f) ==
    /\ f \in [1..Len(m) -> 1..n]
    /\ \A j, k \in 1..Len(m) : j < k => f[j] < f[k]
    /\ \A k \in 1..Len(m) : IF v < f[k] /\ f[k] <= w
                            THEN m[k] = Visited(s[f[k]]) /\ ~GivenUp(m[k])
                            ELSE m[k] = s[f[k]]
    /\ \A i \in 1..n : GivenUp(Visited(s[i])) \/ \E k \in 1..Len(m) : f[k] = i

Leaves(m, s, v, w, n) ==
    /\ m \in Seq(PendingEntries)
    /\ Len(m) <= n
    /\ \E f : Left(m, s, v, w, n, f)

\* Passing over n entries leaves those that need not be given up, visited, in order.
LEMMA PassedOverLeaves ==
    ASSUME NEW s \in Seq(PendingEntries), NEW v \in Nat, NEW n \in Nat,
           v + n <= Len(s)
    PROVE  LET m == PassedOver(s, v, n)
           IN  /\ m \in Seq(PendingEntries)
               /\ Len(m) <= n
               /\ \E f : /\ f \in [1..Len(m) -> 1..n]
                         /\ \A j, k \in 1..Len(m) : j < k => f[j] < f[k]
                         /\ \A k \in 1..Len(m) : /\ m[k] = Visited(s[v + f[k]])
                                                 /\ ~GivenUp(m[k])
                         /\ \A i \in 1..n : \/ GivenUp(Visited(s[v + i]))
                                            \/ \E k \in 1..Len(m) : f[k] = i
<1> DEFINE visited == [i \in 1..n |-> Visited(s[v + i])]
           kept    == {i \in 1..n : ~GivenUp(visited[i])}
           size    == Cardinality(kept)
           m       == PassedOver(s, v, n)
<1>1. visited \in Seq(PendingEntries) /\ Len(visited) = n /\ DOMAIN visited = 1..n
  <2>1. \A i \in 1..n : v + i \in DOMAIN s
    OBVIOUS
  <2>2. \A i \in 1..n : Visited(s[v + i]) \in PendingEntries
    BY <2>1, VisitedIsEntry
  <2> QED
    BY <2>2
<1>2. m = Kept(visited, kept)
  BY DEF PassedOver
<1>3. kept \in SUBSET DOMAIN visited /\ \A i \in 1..n : i \notin kept => GivenUp(visited[i])
  OBVIOUS
<1>4. \A i \in kept : ~GivenUp(visited[i])
  OBVIOUS
<1>5. \A i \in 1..n : visited[i] = Visited(s[v + i])
  OBVIOUS
<1> HIDE DEF visited, kept, m
<1>6. /\ m \in Seq(PendingEntries) /\ Len(m) = size /\ size \in 0..Len(visited)
      /\ \E f : Picks(f, kept) /\ \A k \in 1..size : m[k] = visited[f[k]]
  <2>1. visited \in Seq(PendingEntries) /\ kept \in SUBSET DOMAIN visited
    BY <1>1, <1>3
  <2>2. /\ Kept(visited, kept) \in Seq(PendingEntries)
        /\ Len(Kept(visited, kept)) = Cardinality(kept)
        /\ Cardinality(kept) \in 0..Len(visited)
        /\ \E f : /\ Picks(f, kept)
                  /\ \A k \in 1..Cardinality(kept) : Kept(visited, kept)[k] = visited[f[k]]
    BY <2>1, KeptIsPart, Zenon
  <2> QED
    BY <1>2, <2>2, Zenon
<1> HIDE DEF size
<1>7. PICK f : Picks(f, kept) /\ \A k \in 1..size : m[k] = visited[f[k]]
  BY <1>6
<1>8. f \in [1..size -> 1..n] /\ \A k \in 1..size : f[k] \in kept
  BY <1>1, <1>3, <1>7 DEF Picks, size
<1>9. \A j, k \in 1..size : j < k => f[j] < f[k]
  BY <1>7 DEF Picks, size
<1>10. \A k \in 1..size : m[k] = Visited(s[v + f[k]]) /\ ~GivenUp(m[k])
  BY <1>3, <1>4, <1>5, <1>7, <1>8
<1>11. \A i \in 1..n : GivenUp(Visited(s[v + i])) \/ \E k \in 1..size : f[k] = i
  BY <1>3, <1>5, <1>7 DEF Picks, size
<1>12. m \in Seq(PendingEntries) /\ Len(m) <= n
  BY <1>1, <1>6
<1>13. /\ f \in [1..Len(m) -> 1..n]
       /\ \A j, k \in 1..Len(m) : j < k => f[j] < f[k]
       /\ \A k \in 1..Len(m) : m[k] = Visited(s[v + f[k]]) /\ ~GivenUp(m[k])
       /\ \A i \in 1..n : GivenUp(Visited(s[v + i])) \/ \E k \in 1..Len(m) : f[k] = i
  <2>1. Len(m) = size
    BY <1>6
  <2> QED
    BY <1>8, <1>9, <1>10, <1>11, <2>1
<1> QED
  BY <1>12, <1>13, Zenon DEF m

\* The entries visited before and those passed over now.
LEMMA FrontLeaves ==
    ASSUME NEW s \in Seq(PendingEntries), NEW v \in Nat, NEW n \in Nat,
           v + n <= Len(s)
    PROVE  Leaves(SubSeq(s, 1, v) \o PassedOver(s, v, n), s, v, v + n, v + n)
<1> DEFINE old   == SubSeq(s, 1, v)
           over  == PassedOver(s, v, n)
           m     == old \o over
<1>1. old \in Seq(PendingEntries) /\ Len(old) = v /\ \A k \in 1..v : old[k] = s[k]
  OBVIOUS
<1>2. over \in Seq(PendingEntries) /\ Len(over) <= n
  BY PassedOverLeaves
<1>3. PICK g : /\ g \in [1..Len(over) -> 1..n]
               /\ \A j, k \in 1..Len(over) : j < k => g[j] < g[k]
               /\ \A k \in 1..Len(over) : /\ over[k] = Visited(s[v + g[k]])
                                          /\ ~GivenUp(over[k])
               /\ \A i \in 1..n : \/ GivenUp(Visited(s[v + i]))
                                  \/ \E k \in 1..Len(over) : g[k] = i
  BY PassedOverLeaves
<1> HIDE DEF old, over
<1> DEFINE len  == v + Len(over)
           f    == [k \in 1..len |-> IF k <= v THEN k ELSE v + g[k - v]]
<1>4. /\ m \in Seq(PendingEntries) /\ Len(m) = len /\ len \in Nat /\ len <= v + n
      /\ \A k \in 1..len : m[k] = IF k <= v THEN s[k] ELSE over[k - v]
  <2>1. /\ m \in Seq(PendingEntries) /\ Len(m) = len
        /\ \A k \in 1..len : m[k] = IF k <= v THEN old[k] ELSE over[k - v]
    BY <1>1, <1>2, ConcatProperties
  <2>2. len \in Nat /\ len <= v + n
    BY <1>2
  <2> HIDE DEF m
  <2>3. \A k \in 1..len : k <= v => old[k] = s[k]
    BY <1>1
  <2> QED
    BY <2>1, <2>2, <2>3
<1> HIDE DEF m
<1>5. \A k \in 1..len : ~(k <= v) => k - v \in 1..Len(over) /\ g[k - v] \in 1..n
  <2> SUFFICES ASSUME NEW k \in 1..len, ~(k <= v)
               PROVE  k - v \in 1..Len(over) /\ g[k - v] \in 1..n
    OBVIOUS
  <2>1. Len(over) \in Nat
    BY <1>2
  <2>2. k - v \in 1..Len(over)
    BY <2>1
  <2> QED
    BY <1>3, <2>2
<1>6. f \in [1..len -> 1..(v + n)]
  BY <1>5
<1>7. \A j, k \in 1..len : j < k => f[j] < f[k]
  <2> SUFFICES ASSUME NEW j \in 1..len, NEW k \in 1..len, j < k
               PROVE  f[j] < f[k]
    OBVIOUS
  <2>1. CASE j <= v
    BY <1>5, <2>1
  <2>2. CASE ~(j <= v)
    <3>1. ~(k <= v) /\ j - v < k - v
      BY <2>2
    <3>2. g[j - v] < g[k - v]
      BY <1>3, <1>5, <2>2, <3>1
    <3> QED
      BY <1>5, <2>2, <3>1, <3>2
  <2> QED
    BY <2>1, <2>2
<1>8. \A k \in 1..len : IF v < f[k] /\ f[k] <= v + n
                        THEN m[k] = Visited(s[f[k]]) /\ ~GivenUp(m[k])
                        ELSE m[k] = s[f[k]]
  <2> SUFFICES ASSUME NEW k \in 1..len
               PROVE  IF v < f[k] /\ f[k] <= v + n
                      THEN m[k] = Visited(s[f[k]]) /\ ~GivenUp(m[k])
                      ELSE m[k] = s[f[k]]
    OBVIOUS
  <2>1. CASE k <= v
    <3>1. f[k] = k /\ m[k] = s[f[k]]
      BY <1>4, <2>1
    <3> QED
      BY <2>1, <3>1
  <2>2. CASE ~(k <= v)
    <3>1. m[k] = over[k - v] /\ f[k] = v + g[k - v] /\ k - v \in 1..Len(over)
      BY <1>4, <1>5, <2>2
    <3>2. m[k] = Visited(s[f[k]]) /\ ~GivenUp(m[k])
      BY <1>3, <3>1
    <3>3. g[k - v] \in 1..n
      BY <1>5, <2>2
    <3>4. v < f[k] /\ f[k] <= v + n
      BY <3>1, <3>3
    <3> QED
      BY <3>2, <3>4
  <2> QED
    BY <2>1, <2>2
<1>9. \A i \in 1..(v + n) : GivenUp(Visited(s[i])) \/ \E k \in 1..len : f[k] = i
  <2> SUFFICES ASSUME NEW i \in 1..(v + n), ~GivenUp(Visited(s[i]))
               PROVE  \E k \in 1..len : f[k] = i
    OBVIOUS
  <2>1. CASE i <= v
    BY <1>4, <2>1
  <2>2. CASE ~(i <= v)
    <3>1. i - v \in 1..n /\ v + (i - v) = i
      BY <2>2
    <3>2. PICK k \in 1..Len(over) : g[k] = i - v
      BY <1>3, <3>1
    <3>3. v + k \in 1..len /\ f[v + k] = i
      BY <1>2, <3>1, <3>2
    <3> QED
      BY <3>3
  <2> QED
    BY <2>1, <2>2
<1> HIDE DEF len, f
<1>10. Left(m, s, v, v + n, v + n, f)
  BY <1>4, <1>6, <1>7, <1>8, <1>9 DEF Left
<1> QED
  BY <1>4, <1>10 DEF Leaves, m, old, over

\* The next entry, which the pass need not give up either.
LEMMA NextLeaves ==
    ASSUME NEW s \in Seq(PendingEntries), NEW n \in Nat, n < Len(s), NEW v \in 0..n,
           NEW m, Leaves(m, s, v, n, n), ~GivenUp(Visited(s[n + 1]))
    PROVE  Leaves(Append(m, Visited(s[n + 1])), s, v, n + 1, n + 1)
<1> DEFINE e == Visited(s[n + 1])
           m2 == Append(m, e)
           len == Len(m)
<1>1. PICK g : Left(m, s, v, n, n, g)
  BY DEF Leaves
<1> DEFINE f == [k \in 1..(len + 1) |-> IF k <= len THEN g[k] ELSE n + 1]
<1>2. m \in Seq(PendingEntries) /\ len \in Nat /\ len <= n
  BY DEF Leaves
<1>3. e \in PendingEntries /\ ~GivenUp(e)
  <2>1. n + 1 \in DOMAIN s
    OBVIOUS
  <2> QED
    BY <2>1, VisitedIsEntry
<1> HIDE DEF e
<1>4. /\ m2 \in Seq(PendingEntries) /\ Len(m2) = len + 1
      /\ m2[len + 1] = e /\ \A k \in 1..len : m2[k] = m[k]
  BY <1>2, <1>3
<1> HIDE DEF m2, len
<1>5. /\ \A k \in 1..len : g[k] \in 1..n
      /\ \A j, k \in 1..len : j < k => g[j] < g[k]
      /\ \A k \in 1..len : IF v < g[k] /\ g[k] <= n
                           THEN m[k] = Visited(s[g[k]]) /\ ~GivenUp(m[k])
                           ELSE m[k] = s[g[k]]
      /\ \A i \in 1..n : GivenUp(Visited(s[i])) \/ \E k \in 1..len : g[k] = i
  BY <1>1 DEF Left, len
<1>6. f \in [1..(len + 1) -> 1..(n + 1)]
  BY <1>2, <1>5
<1>7. \A j, k \in 1..(len + 1) : j < k => f[j] < f[k]
  BY <1>2, <1>5
<1>8. \A k \in 1..(len + 1) : IF v < f[k] /\ f[k] <= n + 1
                              THEN m2[k] = Visited(s[f[k]]) /\ ~GivenUp(m2[k])
                              ELSE m2[k] = s[f[k]]
  <2> SUFFICES ASSUME NEW k \in 1..(len + 1)
               PROVE  IF v < f[k] /\ f[k] <= n + 1
                      THEN m2[k] = Visited(s[f[k]]) /\ ~GivenUp(m2[k])
                      ELSE m2[k] = s[f[k]]
    OBVIOUS
  <2>1. CASE k \in 1..len
    <3>1. f[k] = g[k] /\ m2[k] = m[k] /\ g[k] \in 1..n
      BY <1>2, <1>4, <1>5, <2>1
    <3>2. f[k] <= n /\ f[k] <= n + 1
      BY <3>1
    <3> QED
      BY <1>5, <2>1, <3>1, <3>2
  <2>2. CASE k = len + 1
    <3>1. f[k] = n + 1 /\ v < n + 1
      BY <1>2, <2>2
    <3> QED
      BY <1>3, <1>4, <2>2, <3>1 DEF e
  <2> QED
    BY <1>2, <2>1, <2>2
<1>9. \A i \in 1..(n + 1) : GivenUp(Visited(s[i])) \/ \E k \in 1..(len + 1) : f[k] = i
  <2> SUFFICES ASSUME NEW i \in 1..(n + 1), ~GivenUp(Visited(s[i]))
               PROVE  \E k \in 1..(len + 1) : f[k] = i
    OBVIOUS
  <2>1. CASE i = n + 1
    <3>1. f[len + 1] = i
      BY <1>2, <2>1
    <3> QED
      BY <1>2, <3>1
  <2>2. CASE i \in 1..n
    <3>1. PICK k \in 1..len : g[k] = i
      BY <1>5, <2>2
    <3>2. k \in 1..(len + 1) /\ f[k] = i
      BY <1>2, <3>1
    <3> QED
      BY <3>2
  <2> QED
    BY <2>1, <2>2
<1> HIDE DEF f
<1>10. Left(m2, s, v, n + 1, n + 1, f)
  BY <1>4, <1>6, <1>7, <1>8, <1>9 DEF Left
<1> QED
  BY <1>2, <1>4, <1>10 DEF Leaves, m2, e

\* The entries that the pass has not reached.
LEMMA RestLeaves ==
    ASSUME NEW s \in Seq(PendingEntries), NEW n \in 0..Len(s), NEW v \in 0..n,
           NEW m, Leaves(m, s, v, n, n)
    PROVE  Leaves(m \o SubSeq(s, n + 1, Len(s)), s, v, n, Len(s))
<1> DEFINE rest == SubSeq(s, n + 1, Len(s))
           m2   == m \o rest
           len  == Len(m)
           all  == Len(s)
<1>1. PICK g : Left(m, s, v, n, n, g)
  BY DEF Leaves
<1> DEFINE f == [k \in 1..(len + (all - n)) |-> IF k <= len THEN g[k] ELSE k - len + n]
<1>2. m \in Seq(PendingEntries) /\ len \in Nat /\ len <= n /\ all \in Nat
  BY DEF Leaves
<1>3. /\ rest \in Seq(PendingEntries) /\ Len(rest) = all - n
      /\ \A k \in 1..(all - n) : rest[k] = s[n + k]
  OBVIOUS
<1> HIDE DEF rest
<1>4. /\ m2 \in Seq(PendingEntries) /\ Len(m2) = len + (all - n)
      /\ \A k \in 1..Len(m2) : m2[k] = IF k <= len THEN m[k] ELSE rest[k - len]
  <2>1. m \in Seq(PendingEntries) /\ rest \in Seq(PendingEntries)
    BY <1>2, <1>3
  <2>2. /\ m2 \in Seq(PendingEntries)
        /\ Len(m2) = len + Len(rest)
        /\ \A k \in 1..(len + Len(rest)) : m2[k] = IF k <= len THEN m[k] ELSE rest[k - len]
    BY <2>1, ConcatProperties, Zenon DEF m2, len
  <2> QED
    BY <1>3, <2>2, Zenon
<1> HIDE DEF m2, len, all
<1>5. /\ \A k \in 1..len : g[k] \in 1..n
      /\ \A j, k \in 1..len : j < k => g[j] < g[k]
      /\ \A k \in 1..len : IF v < g[k] /\ g[k] <= n
                           THEN m[k] = Visited(s[g[k]]) /\ ~GivenUp(m[k])
                           ELSE m[k] = s[g[k]]
      /\ \A i \in 1..n : GivenUp(Visited(s[i])) \/ \E k \in 1..len : g[k] = i
  BY <1>1 DEF Left, len
<1>6. n \in 0..all
  BY DEF all
<1>7. f \in [1..Len(m2) -> 1..all]
  BY <1>2, <1>4, <1>5, <1>6
<1>8. \A j, k \in 1..Len(m2) : j < k => f[j] < f[k]
  BY <1>2, <1>4, <1>5, <1>6
<1>9. \A k \in 1..Len(m2) : IF v < f[k] /\ f[k] <= n
                            THEN m2[k] = Visited(s[f[k]]) /\ ~GivenUp(m2[k])
                            ELSE m2[k] = s[f[k]]
  <2> SUFFICES ASSUME NEW k \in 1..Len(m2)
               PROVE  IF v < f[k] /\ f[k] <= n
                      THEN m2[k] = Visited(s[f[k]]) /\ ~GivenUp(m2[k])
                      ELSE m2[k] = s[f[k]]
    OBVIOUS
  <2>1. CASE k <= len
    <3>1. k \in 1..len /\ f[k] = g[k] /\ m2[k] = m[k]
      BY <1>2, <1>4, <1>6, <2>1
    <3> QED
      BY <1>5, <3>1
  <2>2. CASE ~(k <= len)
    <3>1. k - len \in 1..(all - n) /\ n + (k - len) = f[k]
      BY <1>2, <1>4, <1>6, <2>2
    <3>2. m2[k] = rest[k - len]
      BY <1>4, <2>2
    <3>3. m2[k] = s[f[k]]
      BY <1>3, <3>1, <3>2 DEF all
    <3>4. ~(f[k] <= n)
      BY <1>2, <1>4, <1>6, <3>1
    <3> QED
      BY <3>3, <3>4
  <2> QED
    BY <2>1, <2>2
<1>10. \A i \in 1..all : GivenUp(Visited(s[i])) \/ \E k \in 1..Len(m2) : f[k] = i
  <2> SUFFICES ASSUME NEW i \in 1..all, ~GivenUp(Visited(s[i]))
               PROVE  \E k \in 1..Len(m2) : f[k] = i
    OBVIOUS
  <2>1. CASE i > n
    <3>1. len + (i - n) \in 1..Len(m2) /\ f[len + (i - n)] = i
      BY <1>2, <1>4, <1>6, <2>1
    <3> QED
      BY <3>1
  <2>2. CASE ~(i > n)
    <3>1. PICK k \in 1..len : g[k] = i
      BY <1>5, <1>6, <2>2
    <3>2. k \in 1..Len(m2) /\ f[k] = i
      BY <1>2, <1>4, <1>6, <3>1
    <3> QED
      BY <3>2
  <2> QED
    BY <2>1, <2>2
<1> HIDE DEF f
<1>11. Left(m2, s, v, n, all, f)
  BY <1>7, <1>8, <1>9, <1>10 DEF Left
<1>12. Len(m2) <= all
  BY <1>2, <1>4, <1>6
<1> QED
  BY <1>4, <1>11, <1>12 DEF Leaves, m2, rest, all

-----------------------------------------------------------------------------
(***************************************************************************)
(* The inductive invariant                                                 *)
(***************************************************************************)

\* One entry per codigo; each asks for something and may be retried once more.
IsMap(s) ==
    /\ s \in Seq(PendingEntries)
    /\ \A i, j \in DOMAIN s : s[i].codigo = s[j].codigo => i = j
    /\ \A i \in DOMAIN s : s[i].types # {} /\ s[i].retries <= MAX_RETRIES

\* Pass p is at an entry of map s, or its entry was evicted, which can only happen
\* to the first.
AtPlace(p, s) ==
    /\ p \in Passes
    /\ p.detached <=> p.visited = 0
    /\ ~p.detached => p.visited \in DOMAIN s /\ s[p.visited] = p.entry

IInv ==
    /\ ticking \in BOOLEAN
    /\ retrying \in BOOLEAN
    /\ delivered \in BOOLEAN
    /\ IsMap(pending)
    /\ WithinCapacity
    /\ PassesDoNotOverlap
    /\ \A p \in passes : AtPlace(p, pending)

\* A request is a type that an entry asks for its codigo.
LEMMA RequestsOf ==
    ASSUME NEW s, NEW r
    PROVE  r \in Requests(s) <=>
               \E i \in DOMAIN s : \E t \in s[i].types : r = <<s[i].codigo, t>>
BY DEF Requests

\* The entries of a map one by one.
LEMMA MapEntries ==
    ASSUME NEW s, IsMap(s)
    PROVE  /\ s \in Seq(PendingEntries) /\ Len(s) \in Nat /\ DOMAIN s = 1..Len(s)
           /\ \A i \in DOMAIN s : /\ s[i] \in PendingEntries
                                  /\ s[i].codigo \in Codigos
                                  /\ s[i].types \in SUBSET PayloadTypes
                                  /\ s[i].retries \in Nat
                                  /\ s[i].aged \in BOOLEAN
                                  /\ s[i].types # {}
                                  /\ s[i].retries <= MAX_RETRIES
<1>1. s \in Seq(PendingEntries) /\ Len(s) \in Nat /\ DOMAIN s = 1..Len(s)
  BY DEF IsMap
<1>2. \A i \in DOMAIN s : s[i] \in PendingEntries
  BY <1>1
<1>3. \A i \in DOMAIN s : s[i].types # {} /\ s[i].retries <= MAX_RETRIES
  BY DEF IsMap
<1> QED
  BY <1>1, <1>2, <1>3 DEF PendingEntries

\* What EntriesKeepTheirTurn says of a step from map s to map m in which no pass
\* goes by an entry.
TurnsKept(s, m) ==
    \A i, j \in DOMAIN s, k, l \in DOMAIN m :
        /\ m[k].codigo = s[i].codigo
        /\ m[l].codigo = s[j].codigo
        => /\ i < j => k < l
           /\ m[k].retries = s[i].retries

\* The same when a pass goes by the entries after the v-th, up to the w-th.
TurnsCounted(s, v, w, m) ==
    \A i, j \in DOMAIN s, k, l \in DOMAIN m :
        /\ m[k].codigo = s[i].codigo
        /\ m[l].codigo = s[j].codigo
        => /\ i < j => k < l
           /\ m[k].retries = s[i].retries + IF v < i /\ i <= w THEN 1 ELSE 0

\* The same when it goes from the v-th to the last, or to where the passes ps are.
TurnsVisited(s, v, m, ps) ==
    \A i, j \in DOMAIN s, k, l \in DOMAIN m :
        /\ m[k].codigo = s[i].codigo
        /\ m[l].codigo = s[j].codigo
        => /\ i < j => k < l
           /\ m[k].retries = s[i].retries +
                  IF i > v /\ \A p \in ps : k <= p.visited THEN 1 ELSE 0

\* What is after the v-th entry of s is what is after the w-th entry of m.
Aligned(s, v, m, w) ==
    \A i \in DOMAIN s, k \in DOMAIN m : m[k].codigo = s[i].codigo => (i > v <=> k > w)

Codes(s) == {s[i].codigo : i \in DOMAIN s}

\* It is so when entry k of m is what entry f[k] of s has become.
LEMMA PickedInTurn ==
    ASSUME NEW s, IsMap(s), NEW m, IsMap(m), NEW f \in [DOMAIN m -> DOMAIN s],
           \A k, l \in DOMAIN m : k < l => f[k] < f[l],
           \A k \in DOMAIN m : /\ m[k].codigo = s[f[k]].codigo
                               /\ m[k].retries = s[f[k]].retries
    PROVE  TurnsKept(s, m) /\ Codes(m) \subseteq Codes(s)
<1>1. ASSUME NEW i \in DOMAIN s, NEW k \in DOMAIN m, m[k].codigo = s[i].codigo
      PROVE  f[k] = i
  BY <1>1 DEF IsMap
<1>2. \A i \in DOMAIN s : i \in Nat
  BY DEF IsMap
<1>3. \A k \in DOMAIN m : k \in Nat
  BY DEF IsMap
<1>4. ASSUME NEW i \in DOMAIN s, NEW j \in DOMAIN s, NEW k \in DOMAIN m, NEW l \in DOMAIN m,
             m[k].codigo = s[i].codigo, m[l].codigo = s[j].codigo
      PROVE  /\ i < j => k < l
             /\ m[k].retries = s[i].retries
  <2>1. f[k] = i /\ f[l] = j
    BY <1>1, <1>4
  <2>2. i < j => k # l /\ ~(l < k)
    BY <1>2, <2>1
  <2> QED
    BY <1>3, <2>1, <2>2
<1>5. TurnsKept(s, m)
  BY <1>4 DEF TurnsKept
<1> QED
  BY <1>5 DEF Codes

\* Turns kept from s to t and from t to m are kept from s to m.
LEMMA TurnsCompose ==
    ASSUME NEW s, IsMap(s), NEW t, IsMap(t), NEW m, IsMap(m),
           TurnsKept(s, t), TurnsKept(t, m),
           Codes(s) \cap Codes(m) \subseteq Codes(t)
    PROVE  TurnsKept(s, m)
<1>1. ASSUME NEW i \in DOMAIN s, NEW k \in DOMAIN m, m[k].codigo = s[i].codigo
      PROVE  \E a \in DOMAIN t : t[a].codigo = s[i].codigo
  BY <1>1 DEF Codes
<1>2. /\ \A i \in DOMAIN s : s[i].retries \in Nat
      /\ \A i \in DOMAIN t : t[i].retries \in Nat
      /\ \A i \in DOMAIN m : m[i].retries \in Nat
  BY MapEntries
<1>3. ASSUME NEW i \in DOMAIN s, NEW j \in DOMAIN s, NEW k \in DOMAIN m, NEW l \in DOMAIN m,
             m[k].codigo = s[i].codigo, m[l].codigo = s[j].codigo
      PROVE  /\ i < j => k < l
             /\ m[k].retries = s[i].retries
  <2>1. PICK a \in DOMAIN t : t[a].codigo = s[i].codigo
    BY <1>1, <1>3
  <2>2. PICK b \in DOMAIN t : t[b].codigo = s[j].codigo
    BY <1>1, <1>3
  <2>3. (i < j => a < b) /\ t[a].retries = s[i].retries
    BY <2>1, <2>2 DEF TurnsKept
  <2>4. (a < b => k < l) /\ m[k].retries = t[a].retries
    BY <1>3, <2>1, <2>2 DEF TurnsKept
  <2> QED
    BY <1>2, <2>3, <2>4
<1> QED
  BY <1>3 DEF TurnsKept

\* A pass goes on in a map that keeps the turns of the map before.
LEMMA VisitComposes ==
    ASSUME NEW s, NEW t, NEW m, NEW v, NEW w, NEW ps,
           TurnsKept(s, t), Aligned(s, v, t, w), TurnsVisited(t, w, m, ps),
           Codes(m) \subseteq Codes(t)
    PROVE  TurnsVisited(s, v, m, ps)
<1>1. ASSUME NEW i \in DOMAIN s, NEW k \in DOMAIN m, m[k].codigo = s[i].codigo
      PROVE  \E a \in DOMAIN t : t[a].codigo = s[i].codigo
  BY <1>1 DEF Codes
<1>2. ASSUME NEW i \in DOMAIN s, NEW j \in DOMAIN s, NEW k \in DOMAIN m, NEW l \in DOMAIN m,
             m[k].codigo = s[i].codigo, m[l].codigo = s[j].codigo
      PROVE  /\ i < j => k < l
             /\ m[k].retries = s[i].retries +
                    IF i > v /\ \A p \in ps : k <= p.visited THEN 1 ELSE 0
  <2>1. PICK a \in DOMAIN t : t[a].codigo = s[i].codigo
    BY <1>1, <1>2
  <2>2. PICK b \in DOMAIN t : t[b].codigo = s[j].codigo
    BY <1>1, <1>2
  <2>3. (i < j => a < b) /\ t[a].retries = s[i].retries
    BY <2>1, <2>2 DEF TurnsKept
  <2>4. i > v <=> a > w
    BY <2>1 DEF Aligned
  <2>5. /\ a < b => k < l
        /\ m[k].retries = t[a].retries +
               IF a > w /\ \A p \in ps : k <= p.visited THEN 1 ELSE 0
    BY <1>2, <2>1, <2>2 DEF TurnsVisited
  <2> QED
    BY <2>3, <2>4, <2>5
<1> QED
  BY <1>2 DEF TurnsVisited

\* A pass that has not moved has gone by no entry.
LEMMA NoneVisited ==
    ASSUME NEW s, NEW m, NEW p, IsMap(s), IsMap(m), p.visited \in Nat,
           TurnsKept(s, m), Aligned(s, p.visited, m, p.visited)
    PROVE  TurnsVisited(s, p.visited, m, {p})
<1> SUFFICES ASSUME NEW i \in DOMAIN s, NEW j \in DOMAIN s,
                    NEW k \in DOMAIN m, NEW l \in DOMAIN m,
                    m[k].codigo = s[i].codigo, m[l].codigo = s[j].codigo
             PROVE  /\ i < j => k < l
                    /\ m[k].retries = s[i].retries +
                           IF i > p.visited /\ \A q \in {p} : k <= q.visited THEN 1 ELSE 0
  BY DEF TurnsVisited
<1>1. (i < j => k < l) /\ m[k].retries = s[i].retries
  BY DEF TurnsKept
<1>2. i > p.visited <=> k > p.visited
  BY DEF Aligned
<1>3. k \in Nat /\ s[i].retries \in Nat
  BY MapEntries
<1>4. ~(i > p.visited /\ \A q \in {p} : k <= q.visited)
  BY <1>2, <1>3
<1> QED
  BY <1>1, <1>3, <1>4

\* What a pass leaves of a map is a map, and whatever it does not leave is spent.
LEMMA LeavesMap ==
    ASSUME NEW s, IsMap(s), NEW v, NEW w, NEW m, Leaves(m, s, v, w, Len(s))
    PROVE  /\ IsMap(m)
           /\ TurnsCounted(s, v, w, m) /\ Codes(m) \subseteq Codes(s)
           /\ \A i \in DOMAIN s :
                  \/ s[i].retries >= MAX_RETRIES \/ s[i].aged
                  \/ \E k \in DOMAIN m : /\ m[k].codigo = s[i].codigo
                                         /\ m[k].types = s[i].types
<1>1. PICK f : Left(m, s, v, w, Len(s), f)
  BY DEF Leaves
<1>2. /\ s \in Seq(PendingEntries) /\ m \in Seq(PendingEntries)
      /\ DOMAIN s = 1..Len(s) /\ DOMAIN m = 1..Len(m) /\ Len(m) \in Nat
      /\ \A i \in DOMAIN s : s[i] \in PendingEntries
  BY DEF IsMap, Leaves
<1>3. /\ f \in [DOMAIN m -> DOMAIN s]
      /\ \A j, k \in DOMAIN m : j < k => f[j] < f[k]
      /\ \A i \in DOMAIN s : GivenUp(Visited(s[i])) \/ \E k \in DOMAIN m : f[k] = i
  BY <1>1, <1>2 DEF Left
<1>4. \A k \in DOMAIN m : IF v < f[k] /\ f[k] <= w
                         THEN m[k] = Visited(s[f[k]]) /\ ~GivenUp(m[k])
                         ELSE m[k] = s[f[k]]
  BY <1>1, <1>2 DEF Left
<1>5. \A k \in DOMAIN m : /\ m[k].codigo = s[f[k]].codigo
                          /\ m[k].types = s[f[k]].types
  BY <1>2, <1>3, <1>4, VisitedIsEntry
<1>6. IsMap(m)
  <2>1. ASSUME NEW j \in DOMAIN m, NEW k \in DOMAIN m, m[j].codigo = m[k].codigo
        PROVE  j = k
    <3>1. s[f[j]].codigo = s[f[k]].codigo
      BY <1>5, <2>1
    <3>2. f[j] = f[k]
      BY <1>3, <3>1 DEF IsMap
    <3>3. f[j] \in Nat /\ ~(j < k) /\ ~(k < j)
      BY <1>2, <1>3, <3>2
    <3> QED
      BY <1>2, <3>3
  <2>2. ASSUME NEW k \in DOMAIN m
        PROVE  m[k].types # {} /\ m[k].retries <= MAX_RETRIES
    <3>1. f[k] \in DOMAIN s
      BY <1>3
    <3>2. s[f[k]].types # {} /\ s[f[k]].retries <= MAX_RETRIES
      BY <3>1 DEF IsMap
    <3>3. m[k].types # {}
      BY <1>5, <3>2
    <3>4. CASE m[k] = s[f[k]]
      BY <3>2, <3>3, <3>4
    <3>5. CASE ~GivenUp(m[k])
      <4>1. m[k] \in PendingEntries
        BY <1>2
      <4>2. m[k].retries \in Nat
        BY <4>1 DEF PendingEntries
      <4> QED
        BY <3>3, <3>5, <4>2, PendingAssumption DEF GivenUp
    <3> QED
      BY <1>4, <3>4, <3>5
  <2> QED
    BY <1>2, <2>1, <2>2 DEF IsMap
<1>7. ASSUME NEW i \in DOMAIN s, GivenUp(Visited(s[i]))
      PROVE  s[i].retries >= MAX_RETRIES \/ s[i].aged
  <2>1. s[i] \in PendingEntries /\ s[i].retries \in Nat
    BY <1>2 DEF PendingEntries
  <2>2. s[i].retries + 1 > MAX_RETRIES \/ s[i].aged
    BY <1>7, <2>1, VisitedIsEntry DEF GivenUp
  <2> QED
    BY <2>1, <2>2, PendingAssumption
<1>8. ASSUME NEW i \in DOMAIN s, NEW k \in DOMAIN m, m[k].codigo = s[i].codigo
      PROVE  f[k] = i
  <2>1. f[k] \in DOMAIN s /\ s[f[k]].codigo = s[i].codigo
    BY <1>3, <1>5, <1>8
  <2> QED
    BY <2>1 DEF IsMap
<1>9. ASSUME NEW i \in DOMAIN s, NEW k \in DOMAIN m, m[k].codigo = s[i].codigo
      PROVE  m[k].retries = s[i].retries + IF v < i /\ i <= w THEN 1 ELSE 0
  <2>1. f[k] = i /\ s[i] \in PendingEntries /\ s[i].retries \in Nat
    BY <1>2, <1>8, <1>9 DEF PendingEntries
  <2>2. CASE v < i /\ i <= w
    BY <1>4, <2>1, <2>2, VisitedIsEntry
  <2>3. CASE ~(v < i /\ i <= w)
    BY <1>4, <2>1, <2>3
  <2> QED
    BY <2>2, <2>3
<1>10. ASSUME NEW i \in DOMAIN s, NEW j \in DOMAIN s, NEW k \in DOMAIN m, NEW l \in DOMAIN m,
              m[k].codigo = s[i].codigo, m[l].codigo = s[j].codigo, i < j
       PROVE  k < l
  <2>1. f[k] = i /\ f[l] = j
    BY <1>8, <1>10
  <2>2. i \in Nat /\ j \in Nat /\ k \in Nat /\ l \in Nat
    BY <1>2
  <2>3. k # l /\ ~(l < k)
    BY <1>3, <1>10, <2>1, <2>2
  <2> QED
    BY <2>2, <2>3
<1>11. TurnsCounted(s, v, w, m)
  BY <1>9, <1>10 DEF TurnsCounted
<1>12. Codes(m) \subseteq Codes(s)
  BY <1>3, <1>5 DEF Codes
<1> QED
  BY <1>3, <1>5, <1>6, <1>7, <1>11, <1>12

\* Visiting on leaves a map of what there was, and the pass that is suspended is at
\* its entry.
LEMMA VisitKeepsMap ==
    ASSUME NEW s, IsMap(s), NEW v \in 0..Len(s), VisitNext(s, v, {})
    PROVE  /\ retrying' \in BOOLEAN
           /\ \A p \in passes' : AtPlace(p, pending')
           /\ \E w \in Nat :
                  /\ Leaves(pending', s, v, w, Len(s))
                  /\ \/ passes' = {} /\ w = Len(s)
                     \/ /\ passes' # {} /\ w \in DOMAIN s
                        /\ \A p \in passes' : /\ p.visited \in DOMAIN pending'
                                              /\ pending'[p.visited].codigo = s[w].codigo
<1>1. s \in Seq(PendingEntries) /\ Len(s) \in Nat /\ v \in Nat
  BY DEF IsMap
<1>2. CASE PassEnds(s, v, {})
  <2>1. Leaves(SubSeq(s, 1, v) \o PassedOver(s, v, Len(s) - v), s, v,
              v + (Len(s) - v), v + (Len(s) - v))
    BY <1>1, FrontLeaves
  <2>2. v + (Len(s) - v) = Len(s)
    BY <1>1
  <2>3. pending' = SubSeq(s, 1, v) \o PassedOver(s, v, Len(s) - v)
    BY <1>2 DEF PassEnds
  <2>4. passes' = {} /\ retrying' = FALSE
    BY <1>2 DEF PassEnds
  <2>5. Leaves(pending', s, v, Len(s), Len(s))
    BY <2>1, <2>2, <2>3
  <2> QED
    BY <1>1, <2>4, <2>5, Zenon
<1>3. CASE PassDispatches(s, v, {})
  <2>1. PICK n \in 0..(Len(s) - v - 1) :
            LET entry  == Visited(s[v + n + 1])
                before == SubSeq(s, 1, v) \o PassedOver(s, v, n)
            IN  /\ ~GivenUp(entry)
                /\ \E tried \in SUBSET entry.types : \E t \in tried :
                      /\ pending' = Append(before, entry)
                                        \o SubSeq(s, v + n + 2, Len(s))
                      /\ passes' = {} \cup
                             {[visited |-> Len(before) + 1, type |-> t, tried |-> tried,
                               entry |-> entry, detached |-> FALSE]}
                      /\ retrying' = TRUE
    BY <1>3 DEF PassDispatches
  <2> DEFINE w      == v + n
             entry  == Visited(s[w + 1])
             before == SubSeq(s, 1, v) \o PassedOver(s, v, n)
             front  == Append(before, entry)
             rest   == SubSeq(s, (w + 1) + 1, Len(s))
  <2>2. n \in Nat /\ w \in Nat /\ w < Len(s) /\ w + 1 \in 0..Len(s) /\ w + 1 \in DOMAIN s
    BY <1>1
  <2>3. /\ ~GivenUp(entry)
        /\ retrying' = TRUE
        /\ pending' = front \o rest
    <3>1. (w + 1) + 1 = v + n + 2
      BY <1>1, <2>2
    <3> QED
      BY <2>1, <3>1
  <2>4. \E tried \in SUBSET entry.types : \E t \in tried :
            passes' = {[visited |-> Len(before) + 1, type |-> t, tried |-> tried,
                        entry |-> entry, detached |-> FALSE]}
    BY <2>1
  <2>5. entry \in PendingEntries
    BY <1>1, <2>2, VisitedIsEntry
  <2>6. Leaves(before, s, v, w, w)
    BY <1>1, <2>2, FrontLeaves
  <2>7. Leaves(front, s, v, w + 1, w + 1)
    <3>1. v \in 0..w
      BY <1>1, <2>2
    <3> HIDE DEF before, w
    <3> QED
      BY <1>1, <2>2, <2>3, <2>6, <3>1, NextLeaves
  <2>8. Leaves(pending', s, v, w + 1, Len(s))
    <3>1. v \in 0..(w + 1)
      BY <1>1, <2>2
    <3> HIDE DEF front, w
    <3> QED
      BY <1>1, <2>2, <2>3, <2>7, <3>1, RestLeaves
  <2> HIDE DEF before, entry, rest
  <2>9. /\ before \in Seq(PendingEntries) /\ rest \in Seq(PendingEntries)
        /\ front \in Seq(PendingEntries) /\ Len(front) = Len(before) + 1
        /\ front[Len(before) + 1] = entry /\ Len(before) \in Nat
    <3>1. before \in Seq(PendingEntries)
      BY <2>6 DEF Leaves
    <3>2. rest \in Seq(PendingEntries)
      BY <1>1, <2>2 DEF rest
    <3> QED
      BY <2>5, <3>1, <3>2
  <2>10. Len(before) + 1 \in DOMAIN pending' /\ pending'[Len(before) + 1] = entry
    <3> HIDE DEF front
    <3>1. /\ front \o rest \in Seq(PendingEntries)
          /\ Len(front \o rest) = Len(front) + Len(rest)
          /\ \A k \in 1..(Len(front) + Len(rest)) :
                 (front \o rest)[k] = IF k <= Len(front) THEN front[k]
                                      ELSE rest[k - Len(front)]
      BY <2>9, ConcatProperties
    <3>2. Len(rest) \in Nat
      BY <2>9
    <3> QED
      BY <2>3, <2>9, <3>1, <3>2
  <2>11. ASSUME NEW p \in passes'
         PROVE  /\ AtPlace(p, pending')
                /\ p.visited = Len(before) + 1
    <3>1. PICK tried \in SUBSET entry.types : \E t \in tried :
              p = [visited |-> Len(before) + 1, type |-> t, tried |-> tried,
                   entry |-> entry, detached |-> FALSE]
      BY <2>4, <2>11
    <3>2. tried \in SUBSET PayloadTypes
      BY <2>5 DEF PendingEntries
    <3>3. p \in Passes
      BY <2>5, <2>9, <3>1, <3>2 DEF Passes
    <3> QED
      BY <2>9, <2>10, <3>1, <3>3 DEF AtPlace
  <2>12. entry.codigo = s[w + 1].codigo
    BY <1>1, <2>2, VisitedIsEntry DEF entry
  <2>13. passes' # {}
    BY <2>4
  <2>14. \A p \in passes' : /\ p.visited \in DOMAIN pending'
                            /\ pending'[p.visited].codigo = s[w + 1].codigo
    BY <2>10, <2>11, <2>12
  <2>15. \A p \in passes' : AtPlace(p, pending')
    BY <2>11
  <2>16. w + 1 \in Nat /\ w + 1 \in DOMAIN s /\ retrying' \in BOOLEAN
    BY <2>2, <2>3
  <2> HIDE DEF w
  <2> QED
    BY <2>8, <2>13, <2>14, <2>15, <2>16, Zenon
<1> QED
  BY <1>2, <1>3 DEF VisitNext

\* What RequestsLeaveForAReason says of a step.
LeftForAReason ==
    \A r \in Requests(pending) \ Requests(pending') :
        \/ Spent(r)
        \/ Oldest(r)
        \/ \E p \in passes : /\ p.entry.codigo = r[1]
                             /\ (p.type = r[2] /\ delivered') \/ p.detached

\* The parts of a pass one by one.
LEMMA PassParts ==
    ASSUME NEW p \in Passes
    PROVE  /\ p.visited \in Nat /\ p.type \in PayloadTypes
           /\ p.tried \in SUBSET PayloadTypes /\ p.entry \in PendingEntries
           /\ p.detached \in BOOLEAN
BY DEF Passes

-----------------------------------------------------------------------------
(***************************************************************************)
(* addPending()                                                            *)
(***************************************************************************)

\* Merging adds a type and changes nothing else.
LEMMA WithIsEntry ==
    ASSUME NEW e \in PendingEntries, NEW t \in PayloadTypes
    PROVE  /\ With(e, t) \in PendingEntries
           /\ With(e, t).codigo = e.codigo
           /\ With(e, t).types = e.types \cup {t}
           /\ With(e, t).aged = e.aged
           /\ With(e, t).retries = e.retries
BY DEF PendingEntries, With

\* A map whose entries change in what they ask for or in their age, and in nothing
\* else, stays a map.
LEMMA ChangedInPlace ==
    ASSUME NEW s, IsMap(s), NEW m \in Seq(PendingEntries), DOMAIN m = DOMAIN s,
           \A i \in DOMAIN s : /\ m[i].codigo = s[i].codigo
                               /\ m[i].retries = s[i].retries
                               /\ m[i].types # {}
    PROVE  /\ IsMap(m) /\ Len(m) = Len(s) /\ TurnsKept(s, m)
           /\ \A v : Aligned(s, v, m, v)
<1>1. Len(m) = Len(s)
  BY DEF IsMap
<1>2. IsMap(m)
  BY <1>1 DEF IsMap
<1>3. TurnsKept(s, m)
  <2> DEFINE f == [k \in DOMAIN m |-> k]
  <2>1. f \in [DOMAIN m -> DOMAIN s] /\ \A k, l \in DOMAIN m : k < l => f[k] < f[l]
    OBVIOUS
  <2>2. \A k \in DOMAIN m : s[k].retries \in Nat
    BY MapEntries
  <2>3. \A k \in DOMAIN m : /\ m[k].codigo = s[f[k]].codigo
                            /\ m[k].retries = s[f[k]].retries
    BY <2>2
  <2> HIDE DEF f
  <2> QED
    BY <1>2, <2>1, <2>3, PickedInTurn
<1>4. \A v : Aligned(s, v, m, v)
  <2>1. ASSUME NEW i \in DOMAIN s, NEW k \in DOMAIN m, m[k].codigo = s[i].codigo
        PROVE  k = i
    BY <2>1 DEF IsMap
  <2> QED
    BY <2>1, Zenon DEF Aligned
<1> QED
  BY <1>1, <1>2, <1>3, <1>4

\* Merging changes the entry in the map and in the eyes of the pass that is at it.
LEMMA MergeKeepsMap ==
    ASSUME IInv, NEW c \in Codigos, NEW t \in PayloadTypes, Merge(c, t)
    PROVE  /\ IsMap(pending') /\ Len(pending') = Len(pending)
           /\ \A p \in passes' : AtPlace(p, pending')
           /\ Requests(pending) \subseteq Requests(pending')
           /\ TurnsKept(pending, pending')
<1> DEFINE New(e) == IF e.codigo = c THEN With(e, t) ELSE e
           Seen(p) == IF p.entry.codigo = c /\ ~p.detached
                      THEN [p EXCEPT !.entry = With(@, t)] ELSE p
<1>1. pending' = [i \in DOMAIN pending |-> New(pending[i])]
  BY DEF Merge
<1>2. passes' = {Seen(p) : p \in passes}
  BY DEF Merge, PassesWith
<1>3. IsMap(pending) /\ \A p \in passes : AtPlace(p, pending)
  BY DEF IInv
<1>4. /\ pending \in Seq(PendingEntries) /\ Len(pending) \in Nat
      /\ DOMAIN pending = 1..Len(pending)
      /\ \A i \in DOMAIN pending : /\ pending[i] \in PendingEntries
                                   /\ pending[i].types # {}
  BY <1>3, MapEntries
<1>5. \A e \in PendingEntries : /\ New(e) \in PendingEntries
                                /\ New(e).codigo = e.codigo
                                /\ New(e).retries = e.retries
                                /\ e.types \subseteq New(e).types
  BY WithIsEntry
<1>6. \A p \in Passes : /\ Seen(p) \in Passes
                        /\ Seen(p).visited = p.visited
                        /\ Seen(p).detached = p.detached
                        /\ ~p.detached => Seen(p).entry = New(p.entry)
  <2> SUFFICES ASSUME NEW p \in Passes
               PROVE  /\ Seen(p) \in Passes
                      /\ Seen(p).visited = p.visited
                      /\ Seen(p).detached = p.detached
                      /\ ~p.detached => Seen(p).entry = New(p.entry)
    OBVIOUS
  <2>1. p.entry \in PendingEntries /\ With(p.entry, t) \in PendingEntries
    BY PassParts, WithIsEntry
  <2> QED
    BY <2>1 DEF Passes
<1> HIDE DEF New, Seen
<1>7. /\ pending' \in Seq(PendingEntries) /\ DOMAIN pending' = DOMAIN pending
      /\ \A i \in DOMAIN pending : pending'[i] = New(pending[i])
  BY <1>1, <1>4, <1>5
<1>8. /\ IsMap(pending') /\ Len(pending') = Len(pending)
      /\ TurnsKept(pending, pending')
  <2>1. \A i \in DOMAIN pending : /\ pending'[i].codigo = pending[i].codigo
                                  /\ pending'[i].retries = pending[i].retries
                                  /\ pending'[i].types # {}
    BY <1>4, <1>5, <1>7
  <2> QED
    BY <1>3, <1>7, <2>1, ChangedInPlace
<1>9. ASSUME NEW q \in passes'
      PROVE  AtPlace(q, pending')
  <2>1. PICK p \in passes : q = Seen(p)
    BY <1>2, <1>9
  <2>2. AtPlace(p, pending)
    BY <1>3
  <2>3. /\ q \in Passes /\ q.visited = p.visited /\ q.detached = p.detached
        /\ ~p.detached => q.entry = New(p.entry)
    BY <1>6, <2>1, <2>2 DEF AtPlace
  <2> QED
    BY <1>7, <2>2, <2>3 DEF AtPlace
<1>10. Requests(pending) \subseteq Requests(pending')
  <2> SUFFICES ASSUME NEW r \in Requests(pending)
               PROVE  r \in Requests(pending')
    OBVIOUS
  <2>1. PICK i \in DOMAIN pending : \E u \in pending[i].types : r = <<pending[i].codigo, u>>
    BY RequestsOf
  <2>2. /\ i \in DOMAIN pending' /\ pending'[i].codigo = pending[i].codigo
        /\ pending[i].types \subseteq pending'[i].types
    BY <1>4, <1>5, <1>7
  <2>3. \E u \in pending'[i].types : r = <<pending'[i].codigo, u>>
    BY <2>1, <2>2
  <2> QED
    BY <2>2, <2>3, RequestsOf
<1> QED
  BY <1>8, <1>9, <1>10

\* A new entry asks for one type and has been retried never.
LEMMA NewIsEntry ==
    ASSUME NEW c \in Codigos, NEW t \in PayloadTypes
    PROVE  /\ NewEntry(c, t) \in PendingEntries
           /\ NewEntry(c, t).codigo = c
           /\ NewEntry(c, t).types = {t}
           /\ NewEntry(c, t).retries = 0
BY DEF NewEntry, PendingEntries

\* Setting an entry of a new codigo makes it the last of the map.
LEMMA AppendKeepsMap ==
    ASSUME NEW s, IsMap(s), NEW e \in PendingEntries, e.types # {},
           e.retries <= MAX_RETRIES, \A i \in DOMAIN s : s[i].codigo # e.codigo
    PROVE  /\ IsMap(Append(s, e)) /\ Len(Append(s, e)) = Len(s) + 1
           /\ \A i \in DOMAIN s : i \in DOMAIN Append(s, e) /\ Append(s, e)[i] = s[i]
           /\ TurnsKept(s, Append(s, e)) /\ Codes(Append(s, e)) \subseteq Codes(s) \cup {e.codigo}
<1> DEFINE m == Append(s, e)
<1>1. s \in Seq(PendingEntries) /\ Len(s) \in Nat /\ DOMAIN s = 1..Len(s)
  BY DEF IsMap
<1>2. /\ m \in Seq(PendingEntries) /\ Len(m) = Len(s) + 1
      /\ DOMAIN m = 1..(Len(s) + 1)
      /\ m[Len(s) + 1] = e /\ \A i \in 1..Len(s) : m[i] = s[i]
  BY <1>1
<1> HIDE DEF m
<1>3. \A i \in DOMAIN m : i \in DOMAIN s \/ (i = Len(s) + 1 /\ m[i] = e)
  BY <1>1, <1>2
<1>4. IsMap(m)
  <2>1. ASSUME NEW i \in DOMAIN m, NEW j \in DOMAIN m, m[i].codigo = m[j].codigo
        PROVE  i = j
    <3>1. CASE i \in DOMAIN s /\ j \in DOMAIN s
      BY <1>1, <1>2, <2>1, <3>1 DEF IsMap
    <3>2. CASE ~(i \in DOMAIN s /\ j \in DOMAIN s)
      BY <1>1, <1>2, <1>3, <2>1, <3>2
    <3> QED
      BY <3>1, <3>2
  <2>2. ASSUME NEW i \in DOMAIN m
        PROVE  m[i].types # {} /\ m[i].retries <= MAX_RETRIES
    BY <1>1, <1>2, <1>3 DEF IsMap
  <2> QED
    BY <1>2, <2>1, <2>2 DEF IsMap
<1>5. TurnsKept(s, m)
  <2>1. ASSUME NEW i \in DOMAIN s, NEW k \in DOMAIN m, m[k].codigo = s[i].codigo
        PROVE  k = i
    BY <1>1, <1>2, <1>3, <2>1 DEF IsMap
  <2>2. \A i \in DOMAIN s : s[i].retries \in Nat
    BY MapEntries
  <2>3. \A i \in DOMAIN s : m[i] = s[i]
    BY <1>1, <1>2
  <2>4. ASSUME NEW i \in DOMAIN s, NEW j \in DOMAIN s, NEW k \in DOMAIN m, NEW l \in DOMAIN m,
               m[k].codigo = s[i].codigo, m[l].codigo = s[j].codigo
        PROVE  (i < j => k < l) /\ m[k].retries = s[i].retries
    <3>1. k = i /\ l = j
      BY <2>1, <2>4
    <3> QED
      BY <2>2, <2>3, <3>1
  <2> QED
    BY <2>4 DEF TurnsKept
<1>6. Codes(m) \subseteq Codes(s) \cup {e.codigo}
  BY <1>1, <1>2, <1>3 DEF Codes
<1> QED
  BY <1>1, <1>2, <1>4, <1>5, <1>6 DEF m

\* Deleting the oldest entry moves the others one place forward.
LEMMA TailKeepsMap ==
    ASSUME NEW s, IsMap(s), s # <<>>
    PROVE  /\ IsMap(Tail(s)) /\ Len(Tail(s)) = Len(s) - 1
           /\ \A i \in DOMAIN s : i # 1 => i - 1 \in DOMAIN Tail(s) /\ Tail(s)[i - 1] = s[i]
           /\ \A i \in DOMAIN Tail(s) : i + 1 \in DOMAIN s /\ Tail(s)[i] = s[i + 1]
           /\ 1 \in DOMAIN s /\ Head(s) = s[1]
           /\ TurnsKept(s, Tail(s))
<1>1. s \in Seq(PendingEntries) /\ Len(s) \in Nat /\ DOMAIN s = 1..Len(s) /\ Len(s) > 0
  BY DEF IsMap
<1>2. /\ Tail(s) \in Seq(PendingEntries) /\ Len(Tail(s)) = Len(s) - 1
      /\ DOMAIN Tail(s) = 1..(Len(s) - 1)
      /\ \A i \in 1..(Len(s) - 1) : Tail(s)[i] = s[i + 1]
      /\ Head(s) = s[1]
  BY <1>1
<1>3. \A i \in DOMAIN Tail(s) : i + 1 \in DOMAIN s /\ Tail(s)[i] = s[i + 1]
  BY <1>1, <1>2
<1>4. \A i \in DOMAIN s : i # 1 => i - 1 \in DOMAIN Tail(s) /\ Tail(s)[i - 1] = s[i]
  BY <1>1, <1>2
<1>5. IsMap(Tail(s))
  <2>1. ASSUME NEW i \in DOMAIN Tail(s), NEW j \in DOMAIN Tail(s),
               Tail(s)[i].codigo = Tail(s)[j].codigo
        PROVE  i = j
    <3>1. i + 1 = j + 1
      BY <1>3, <2>1 DEF IsMap
    <3> QED
      BY <1>2, <3>1
  <2> QED
    BY <1>2, <1>3, <2>1 DEF IsMap
<1>6. TurnsKept(s, Tail(s))
  <2> DEFINE f == [k \in DOMAIN Tail(s) |-> k + 1]
  <2>1. /\ f \in [DOMAIN Tail(s) -> DOMAIN s]
        /\ \A k, l \in DOMAIN Tail(s) : k < l => f[k] < f[l]
        /\ \A k \in DOMAIN Tail(s) : Tail(s)[k] = s[f[k]]
    BY <1>2, <1>3
  <2>2. \A i \in DOMAIN s : s[i].retries \in Nat
    BY MapEntries
  <2> HIDE DEF f
  <2>3. \A k \in DOMAIN Tail(s) : /\ Tail(s)[k].codigo = s[f[k]].codigo
                                  /\ Tail(s)[k].retries = s[f[k]].retries
    BY <2>1, <2>2
  <2> QED
    BY <1>5, <2>1, <2>3, PickedInTurn
<1> QED
  BY <1>1, <1>2, <1>3, <1>4, <1>5, <1>6

\* A new entry takes the last place, in a full map after the oldest has left, and a
\* pass moves with its entry.
LEMMA InsertKeepsMap ==
    ASSUME IInv, NEW c \in Codigos, NEW t \in PayloadTypes, c \notin Keys,
           Insert(c, t)
    PROVE  /\ IsMap(pending') /\ Len(pending') <= MAX_PENDING_SIZE
           /\ \A p \in passes' : AtPlace(p, pending')
           /\ \A r \in Requests(pending) \ Requests(pending') : Oldest(r)
           /\ TurnsKept(pending, pending')
<1> DEFINE new == NewEntry(c, t)
<1>1. /\ IsMap(pending) /\ Len(pending) <= MAX_PENDING_SIZE
      /\ \A p \in passes : AtPlace(p, pending)
  BY DEF IInv, WithinCapacity
<1>2. /\ new \in PendingEntries /\ new.codigo = c /\ new.types # {}
      /\ new.retries <= MAX_RETRIES
  BY NewIsEntry, PendingAssumption
<1>3. \A i \in DOMAIN pending : pending[i].codigo # c
  BY DEF Keys
<1>4. Len(pending) \in Nat /\ MAX_PENDING_SIZE \in Nat \ {0}
  BY <1>1, PendingAssumption DEF IsMap
<1> HIDE DEF new
<1>5. CASE ~MustEvict
  <2>1. pending' = Append(pending, new) /\ passes' = passes
    BY <1>5 DEF Insert, new
  <2>2. /\ IsMap(pending') /\ Len(pending') = Len(pending) + 1
        /\ \A i \in DOMAIN pending : i \in DOMAIN pending' /\ pending'[i] = pending[i]
        /\ TurnsKept(pending, pending')
    BY <1>1, <1>2, <1>3, <2>1, AppendKeepsMap
  <2>3. Len(pending') <= MAX_PENDING_SIZE
    BY <1>4, <1>5, <2>2 DEF MustEvict
  <2>4. \A p \in passes' : AtPlace(p, pending')
    BY <1>1, <2>1, <2>2 DEF AtPlace
  <2>5. Requests(pending) \subseteq Requests(pending')
    BY <2>2, RequestsOf
  <2> QED
    BY <2>2, <2>3, <2>4, <2>5
<1>6. CASE MustEvict
  <2> DEFINE tail == Tail(pending)
             Moved(p) == [p EXCEPT !.visited = IF p.visited = 0 THEN 0 ELSE @ - 1,
                                   !.detached = @ \/ p.visited = 1]
  <2>1. pending' = Append(tail, new) /\ passes' = {Moved(p) : p \in passes}
    BY <1>6 DEF Insert, new
  <2>2. pending # <<>>
    BY <1>4, <1>6 DEF MustEvict
  <2>3. /\ IsMap(tail) /\ Len(tail) = Len(pending) - 1
        /\ \A i \in DOMAIN pending : i # 1 => i - 1 \in DOMAIN tail /\ tail[i - 1] = pending[i]
        /\ \A i \in DOMAIN tail : i + 1 \in DOMAIN pending /\ tail[i] = pending[i + 1]
        /\ 1 \in DOMAIN pending /\ Head(pending) = pending[1]
        /\ TurnsKept(pending, tail)
    BY <1>1, <2>2, TailKeepsMap
  <2> HIDE DEF tail
  <2>4. /\ IsMap(pending') /\ Len(pending') = Len(tail) + 1
        /\ \A i \in DOMAIN tail : i \in DOMAIN pending' /\ pending'[i] = tail[i]
        /\ TurnsKept(tail, pending') /\ Codes(pending') \subseteq Codes(tail) \cup {c}
    <3>1. \A i \in DOMAIN tail : tail[i].codigo # new.codigo
      BY <1>2, <1>3, <2>3
    <3>2. LET m == Append(tail, new)
          IN  /\ IsMap(m) /\ Len(m) = Len(tail) + 1
              /\ \A i \in DOMAIN tail : i \in DOMAIN m /\ m[i] = tail[i]
              /\ TurnsKept(tail, m) /\ Codes(m) \subseteq Codes(tail) \cup {new.codigo}
      BY <1>2, <2>3, <3>1, AppendKeepsMap
    <3> QED
      BY <1>2, <2>1, <3>2
  <2>5. Len(pending') <= MAX_PENDING_SIZE
    BY <1>1, <1>4, <2>3, <2>4
  <2>6. ASSUME NEW p \in Passes
        PROVE  /\ Moved(p) \in Passes
               /\ Moved(p).visited = IF p.visited = 0 THEN 0 ELSE p.visited - 1
               /\ Moved(p).detached <=> p.detached \/ p.visited = 1
               /\ Moved(p).entry = p.entry
    <3> DEFINE v == IF p.visited = 0 THEN 0 ELSE p.visited - 1
               d == p.detached \/ p.visited = 1
    <3>1. p.visited \in Nat /\ v \in Nat /\ d \in BOOLEAN
      BY PassParts
    <3>2. Moved(p) = [p EXCEPT !.visited = v, !.detached = d]
      OBVIOUS
    <3> HIDE DEF v, d, Moved
    <3>3. /\ Moved(p) \in Passes /\ Moved(p).visited = v
          /\ Moved(p).detached = d /\ Moved(p).entry = p.entry
      BY <3>1, <3>2 DEF Passes
    <3> QED
      BY <3>3 DEF v, d
  <2> HIDE DEF Moved
  <2>7. ASSUME NEW q \in passes'
        PROVE  AtPlace(q, pending')
    <3>1. PICK p \in passes : q = Moved(p)
      BY <2>1, <2>7
    <3>2. AtPlace(p, pending) /\ p \in Passes /\ p.visited \in Nat
      BY <1>1, PassParts DEF AtPlace
    <3>3. /\ q \in Passes
          /\ q.visited = IF p.visited = 0 THEN 0 ELSE p.visited - 1
          /\ q.detached <=> p.detached \/ p.visited = 1
          /\ q.entry = p.entry
      BY <2>6, <3>1, <3>2
    <3>4. q.detached <=> q.visited = 0
      BY <3>2, <3>3 DEF AtPlace
    <3>5. ASSUME ~q.detached
          PROVE  q.visited \in DOMAIN pending' /\ pending'[q.visited] = q.entry
      <4>1. /\ p.visited \in DOMAIN pending /\ pending[p.visited] = p.entry
            /\ p.visited # 1 /\ q.visited = p.visited - 1
        BY <3>2, <3>3, <3>5 DEF AtPlace
      <4> QED
        BY <2>3, <2>4, <3>3, <4>1
    <3> QED
      BY <3>3, <3>4, <3>5 DEF AtPlace
  <2>8. ASSUME NEW r \in Requests(pending) \ Requests(pending')
        PROVE  Oldest(r)
    <3>1. PICK i \in DOMAIN pending : \E u \in pending[i].types : r = <<pending[i].codigo, u>>
      BY RequestsOf
    <3>2. i = 1
      <4> SUFFICES ASSUME i # 1
                   PROVE  r \in Requests(pending')
        BY <2>8
      <4>1. i - 1 \in DOMAIN pending' /\ pending'[i - 1] = pending[i]
        BY <2>3, <2>4
      <4> QED
        BY <3>1, <4>1, RequestsOf
    <3> QED
      BY <1>6, <2>3, <3>1, <3>2 DEF Oldest
  <2>9. TurnsKept(pending, pending')
    <3>1. c \notin Codes(pending)
      BY <1>3 DEF Codes
    <3> QED
      BY <1>1, <2>3, <2>4, <3>1, TurnsCompose
  <2> QED
    BY <2>4, <2>5, <2>7, <2>8, <2>9
<1> QED
  BY <1>5, <1>6

\* addPending() costs no request but those of the oldest entry of a full map.
LEMMA AddKeeps ==
    ASSUME IInv, NEW c \in Codigos, NEW t \in PayloadTypes, AddPending(c, t)
    PROVE  IInv' /\ LeftForAReason /\ TurnsKept(pending, pending')
<1>1. /\ ticking' \in BOOLEAN /\ retrying' \in BOOLEAN /\ delivered' \in BOOLEAN
      /\ Len(pending) <= MAX_PENDING_SIZE
  BY DEF IInv, AddPending, WithinCapacity
<1>2. PassesDoNotOverlap'
  BY AddKeepsPasses DEF IInv
<1>3. /\ IsMap(pending') /\ Len(pending') <= MAX_PENDING_SIZE
      /\ \A p \in passes' : AtPlace(p, pending')
      /\ \A r \in Requests(pending) \ Requests(pending') : Oldest(r)
      /\ TurnsKept(pending, pending')
  <2>1. CASE c \in Keys
    <3>1. Merge(c, t)
      BY <2>1 DEF AddPending
    <3>2. /\ IsMap(pending') /\ Len(pending') = Len(pending)
          /\ \A p \in passes' : AtPlace(p, pending')
          /\ Requests(pending) \subseteq Requests(pending')
          /\ TurnsKept(pending, pending')
      BY <3>1, MergeKeepsMap
    <3> QED
      BY <1>1, <3>2
  <2>2. CASE c \notin Keys
    <3>1. Insert(c, t)
      BY <2>2 DEF AddPending
    <3> QED
      BY <2>2, <3>1, InsertKeepsMap
  <2> QED
    BY <2>1, <2>2
<1>4. IInv'
  BY <1>1, <1>2, <1>3 DEF IInv, WithinCapacity
<1>5. LeftForAReason
  BY <1>3 DEF LeftForAReason
<1> QED
  BY <1>3, <1>4, <1>5

-----------------------------------------------------------------------------
(***************************************************************************)
(* The retry loop                                                          *)
(***************************************************************************)

\* A pass may go on from any map that the limits allow.
LEMMA VisitKeeps ==
    ASSUME NEW s, IsMap(s), Len(s) <= MAX_PENDING_SIZE, NEW v \in 0..Len(s),
           VisitNext(s, v, {})
    PROVE  /\ IsMap(pending') /\ Len(pending') <= MAX_PENDING_SIZE
           /\ retrying' \in BOOLEAN
           /\ PassesDoNotOverlap'
           /\ \A p \in passes' : AtPlace(p, pending')
           /\ \A r \in Requests(s) \ Requests(pending') :
                  \E i \in DOMAIN s : /\ s[i].codigo = r[1]
                                      /\ s[i].retries >= MAX_RETRIES \/ s[i].aged
           /\ TurnsVisited(s, v, pending', passes') /\ Codes(pending') \subseteq Codes(s)
<1>1. PICK w \in Nat :
          /\ Leaves(pending', s, v, w, Len(s))
          /\ \/ passes' = {} /\ w = Len(s)
             \/ /\ passes' # {} /\ w \in DOMAIN s
                /\ \A p \in passes' : /\ p.visited \in DOMAIN pending'
                                      /\ pending'[p.visited].codigo = s[w].codigo
  BY VisitKeepsMap
<1>2. PassesDoNotOverlap'
  BY VisitLeavesOne
<1>3. /\ IsMap(pending')
      /\ TurnsCounted(s, v, w, pending') /\ Codes(pending') \subseteq Codes(s)
      /\ \A i \in DOMAIN s :
             \/ s[i].retries >= MAX_RETRIES \/ s[i].aged
             \/ \E k \in DOMAIN pending' : /\ pending'[k].codigo = s[i].codigo
                                           /\ pending'[k].types = s[i].types
  BY <1>1, LeavesMap
<1>4. Len(pending') <= MAX_PENDING_SIZE
  <2>1. Len(pending') <= Len(s) /\ Len(pending') \in Nat /\ Len(s) \in Nat
    BY <1>1 DEF Leaves, IsMap
  <2> QED
    BY <2>1, PendingAssumption
<1>5. ASSUME NEW r \in Requests(s) \ Requests(pending')
      PROVE  \E i \in DOMAIN s : /\ s[i].codigo = r[1]
                                 /\ s[i].retries >= MAX_RETRIES \/ s[i].aged
  <2>1. PICK i \in DOMAIN s : \E u \in s[i].types : r = <<s[i].codigo, u>>
    BY RequestsOf
  <2>2. ~ \E k \in DOMAIN pending' : /\ pending'[k].codigo = s[i].codigo
                                     /\ pending'[k].types = s[i].types
    BY <1>5, <2>1, RequestsOf
  <2>3. s[i].codigo = r[1]
    BY <2>1
  <2> QED
    BY <1>3, <2>2, <2>3
\* The pass has gone by what is up to its place.
<1>6. ASSUME NEW i \in DOMAIN s, NEW k \in DOMAIN pending',
             pending'[k].codigo = s[i].codigo
      PROVE  i <= w <=> \A p \in passes' : k <= p.visited
  <2>1. /\ i \in Nat /\ k \in Nat /\ i <= Len(s)
        /\ \A p \in passes' : p.visited \in DOMAIN pending' => p.visited \in Nat
    BY <1>3, MapEntries
  <2>2. CASE passes' = {}
    BY <1>1, <2>1, <2>2
  <2>3. CASE passes' # {}
    <3>1. ASSUME NEW p \in passes'
          PROVE  i <= w <=> k <= p.visited
      <4>1. /\ w \in DOMAIN s /\ p.visited \in DOMAIN pending'
            /\ pending'[p.visited].codigo = s[w].codigo
        BY <1>1, <2>3
      <4>2. (i < w => k < p.visited) /\ (w < i => p.visited < k)
        BY <1>3, <1>6, <4>1 DEF TurnsCounted
      <4>3. i = w => k = p.visited
        BY <1>3, <1>6, <4>1 DEF IsMap
      <4> QED
        BY <2>1, <4>1, <4>2, <4>3
    <3> QED
      BY <2>3, <3>1
  <2> QED
    BY <2>2, <2>3
<1>7. TurnsVisited(s, v, pending', passes')
  <2> SUFFICES ASSUME NEW i \in DOMAIN s, NEW j \in DOMAIN s,
                      NEW k \in DOMAIN pending', NEW l \in DOMAIN pending',
                      pending'[k].codigo = s[i].codigo, pending'[l].codigo = s[j].codigo
               PROVE  /\ i < j => k < l
                      /\ pending'[k].retries = s[i].retries +
                             IF i > v /\ \A p \in passes' : k <= p.visited THEN 1 ELSE 0
    BY DEF TurnsVisited
  <2>1. /\ i < j => k < l
        /\ pending'[k].retries = s[i].retries + IF v < i /\ i <= w THEN 1 ELSE 0
    BY <1>3 DEF TurnsCounted
  <2>2. i <= w <=> \A p \in passes' : k <= p.visited
    BY <1>6
  <2>3. v < i <=> i > v
    OBVIOUS
  <2> QED
    BY <2>1, <2>2, <2>3
<1>8. retrying' \in BOOLEAN /\ \A p \in passes' : AtPlace(p, pending')
  BY VisitKeepsMap
<1> QED
  BY <1>2, <1>3, <1>4, <1>5, <1>7, <1>8

\* The interval starts a pass at the oldest entry.
LEMMA TickKeeps ==
    ASSUME IInv, Tick
    PROVE  IInv' /\ LeftForAReason /\ TurnsVisited(pending, 0, pending', passes')
<1>1. /\ IsMap(pending) /\ Len(pending) <= MAX_PENDING_SIZE /\ passes = {}
      /\ ticking' \in BOOLEAN /\ delivered' \in BOOLEAN
  BY DEF IInv, WithinCapacity, PassesDoNotOverlap, Tick
<1>2. VisitNext(pending, 0, {})
  BY <1>1 DEF Tick
<1>3. 0 \in 0..Len(pending)
  BY <1>1 DEF IsMap
<1>4. /\ IsMap(pending') /\ Len(pending') <= MAX_PENDING_SIZE
      /\ retrying' \in BOOLEAN
      /\ PassesDoNotOverlap'
      /\ \A p \in passes' : AtPlace(p, pending')
      /\ \A r \in Requests(pending) \ Requests(pending') :
             \E i \in DOMAIN pending : /\ pending[i].codigo = r[1]
                                       /\ pending[i].retries >= MAX_RETRIES \/ pending[i].aged
      /\ TurnsVisited(pending, 0, pending', passes')
  BY <1>1, <1>2, <1>3, VisitKeeps
<1>5. IInv'
  BY <1>1, <1>4 DEF IInv, WithinCapacity
<1>6. LeftForAReason
  BY <1>4 DEF LeftForAReason, Spent
<1> QED
  BY <1>4, <1>5, <1>6

\* A dispatch that succeeds takes its type off the entry and off what the pass has
\* tried; nothing else changes.
LEMMA AfterDispatchParts ==
    ASSUME NEW p \in Passes, NEW ok \in BOOLEAN
    PROVE  LET q == AfterDispatch(p, ok)
           IN  /\ q \in Passes
               /\ q.visited = p.visited /\ q.detached = p.detached
               /\ q.entry.codigo = p.entry.codigo
               /\ q.entry.retries = p.entry.retries
               /\ q.entry.aged = p.entry.aged
               /\ q.entry.types = IF ok THEN p.entry.types \ {p.type} ELSE p.entry.types
<1>1. p.entry \in PendingEntries
  BY PassParts
<1>2. CASE ok
  BY <1>1, <1>2 DEF AfterDispatch, Passes, PendingEntries
<1>3. CASE ~ok
  BY <1>3 DEF AfterDispatch
<1> QED
  BY <1>2, <1>3

\* The entry of a pass that is where it was, changed by a dispatch, is stored: the
\* map loses at most the request that was dispatched.
LEMMA StoredKeepsMap ==
    ASSUME IInv, NEW p \in passes, NEW q \in Passes,
           q.visited = p.visited, q.detached = p.detached,
           q.entry.codigo = p.entry.codigo, q.entry.retries = p.entry.retries,
           q.entry.types # {}
    PROVE  LET s == Stored(pending, q)
           IN  /\ IsMap(s) /\ Len(s) = Len(pending)
               /\ AtPlace(q, s)
               /\ DOMAIN s = DOMAIN pending
               /\ \A i \in DOMAIN s : \/ s[i] = pending[i]
                                      \/ /\ s[i] = q.entry /\ pending[i] = p.entry
               /\ TurnsKept(pending, s) /\ Aligned(pending, q.visited, s, q.visited)
<1> DEFINE s == Stored(pending, q)
<1>1. IsMap(pending) /\ AtPlace(p, pending)
  BY DEF IInv
<1>2. /\ pending \in Seq(PendingEntries) /\ Len(pending) \in Nat
      /\ DOMAIN pending = 1..Len(pending)
      /\ \A i \in DOMAIN pending : pending[i].types # {}
  BY <1>1, MapEntries
<1>3. q.entry \in PendingEntries
  BY PassParts
<1>4. CASE q.detached
  <2>1. s = pending
    BY <1>4 DEF Stored
  <2>2. /\ TurnsKept(pending, pending)
        /\ Aligned(pending, q.visited, pending, q.visited)
    BY <1>1, <1>2, ChangedInPlace
  <2> QED
    BY <1>1, <1>4, <2>1, <2>2 DEF AtPlace
<1>5. CASE ~q.detached
  <2>1. s = [pending EXCEPT ![q.visited] = q.entry]
    BY <1>5 DEF Stored
  <2>2. q.visited \in DOMAIN pending /\ pending[q.visited] = p.entry
    BY <1>1, <1>5 DEF AtPlace
  <2> HIDE DEF s
  <2>3. /\ s \in Seq(PendingEntries) /\ DOMAIN s = DOMAIN pending
        /\ s[q.visited] = q.entry
        /\ \A i \in DOMAIN pending : i # q.visited => s[i] = pending[i]
    BY <1>2, <1>3, <2>1, <2>2
  <2>4. /\ IsMap(s) /\ Len(s) = Len(pending) /\ TurnsKept(pending, s)
        /\ Aligned(pending, q.visited, s, q.visited)
    <3>1. \A i \in DOMAIN pending : /\ s[i].codigo = pending[i].codigo
                                    /\ s[i].retries = pending[i].retries
                                    /\ s[i].types # {}
      BY <1>2, <2>2, <2>3
    <3> QED
      BY <1>1, <2>3, <3>1, ChangedInPlace
  <2>5. AtPlace(q, s)
    BY <1>1, <2>2, <2>3 DEF AtPlace
  <2> QED
    BY <2>2, <2>3, <2>4, <2>5 DEF s
<1> QED
  BY <1>4, <1>5

\* The places of a map of n entries.
LEMMA PlacesAreFinite ==
    ASSUME NEW n \in Nat
    PROVE  IsFiniteSet(1..n) /\ Cardinality(1..n) = n
BY FS_Interval

\* The place that an entry gets once the v-th has been deleted.
LEMMA PlaceWithout ==
    ASSUME NEW n \in Nat, NEW v \in 1..n, NEW i \in 1..n, i # v
    PROVE  Cardinality((1..n \ {v}) \cap 1..i) = IF i < v THEN i ELSE i - 1
<1>1. IsFiniteSet(1..i) /\ Cardinality(1..i) = i
  BY PlacesAreFinite
<1>2. CASE i < v
  <2>1. (1..n \ {v}) \cap 1..i = 1..i
    BY <1>2
  <2> QED
    BY <1>1, <1>2, <2>1
<1>3. CASE ~(i < v)
  <2>1. (1..n \ {v}) \cap 1..i = 1..i \ {v} /\ v \in 1..i
    BY <1>3
  <2>2. Cardinality(1..i \ {v}) = Cardinality(1..i) - 1
    BY <1>1, <2>1, FS_RemoveElement
  <2> QED
    BY <1>1, <1>3, <2>1, <2>2
<1> QED
  BY <1>2, <1>3

\* The k-th entry of m is the entry of s at the k-th of the places kept.
Ranked(s, kept, m) ==
    \A k \in DOMAIN m : \E i \in kept : m[k] = s[i] /\ Cardinality(kept \cap 1..i) = k

\* Deleting entries leaves a map of the others.
LEMMA DeletedKeepsMap ==
    ASSUME NEW s, IsMap(s), NEW kept \in SUBSET DOMAIN s
    PROVE  LET m == Kept(s, kept)
           IN  /\ IsMap(m)
               /\ Len(m) = Cardinality(kept) /\ Len(m) <= Len(s)
               /\ \A i \in kept : \E k \in DOMAIN m : m[k] = s[i]
               /\ Ranked(s, kept, m)
               /\ TurnsKept(s, m)
<1> DEFINE size == Cardinality(kept)
           m    == Kept(s, kept)
<1>1. s \in Seq(PendingEntries) /\ DOMAIN s = 1..Len(s) /\ Len(s) \in Nat
  BY DEF IsMap
<1>2. \A i \in kept : i \in DOMAIN s
  OBVIOUS
<1>3. /\ m \in Seq(PendingEntries) /\ Len(m) = size /\ size \in 0..Len(s)
      /\ \E f : Picks(f, kept) /\ \A k \in 1..size : m[k] = s[f[k]]
  BY <1>1, KeptIsPart
<1> HIDE DEF m
<1>4. PICK f : Picks(f, kept) /\ \A k \in 1..size : m[k] = s[f[k]]
  BY <1>3
<1>5. /\ \A k \in 1..size : f[k] \in kept /\ Cardinality(kept \cap 1..f[k]) = k
      /\ \A j, k \in 1..size : j < k => f[j] < f[k]
      /\ \A i \in kept : \E k \in 1..size : f[k] = i
  BY <1>4 DEF Picks
<1> HIDE DEF size
<1>6. DOMAIN m = 1..size /\ size \in Nat /\ size <= Len(s)
  BY <1>1, <1>3
<1>7. IsMap(m)
  <2>1. ASSUME NEW j \in DOMAIN m, NEW k \in DOMAIN m, m[j].codigo = m[k].codigo
        PROVE  j = k
    <3>1. f[j] \in DOMAIN s /\ f[k] \in DOMAIN s /\ m[j] = s[f[j]] /\ m[k] = s[f[k]]
      BY <1>2, <1>4, <1>5, <1>6
    <3>2. f[j] = f[k]
      BY <2>1, <3>1 DEF IsMap
    <3>3. f[j] \in Nat /\ ~(j < k) /\ ~(k < j)
      BY <1>1, <1>5, <1>6, <3>1, <3>2
    <3> QED
      BY <1>6, <3>3
  <2>2. ASSUME NEW k \in DOMAIN m
        PROVE  m[k].types # {} /\ m[k].retries <= MAX_RETRIES
    <3>1. f[k] \in DOMAIN s /\ m[k] = s[f[k]]
      BY <1>2, <1>4, <1>5, <1>6
    <3> QED
      BY <3>1 DEF IsMap
  <2> QED
    BY <1>3, <2>1, <2>2 DEF IsMap
<1>8. \A i \in kept : \E k \in DOMAIN m : m[k] = s[i]
  BY <1>4, <1>5, <1>6
<1>9. Ranked(s, kept, m)
  BY <1>4, <1>5, <1>6 DEF Ranked
<1>10. TurnsKept(s, m)
  <2> DEFINE g == [k \in DOMAIN m |-> f[k]]
  <2>1. /\ g \in [DOMAIN m -> DOMAIN s]
        /\ \A k, l \in DOMAIN m : k < l => g[k] < g[l]
        /\ \A k \in DOMAIN m : m[k] = s[g[k]]
    BY <1>2, <1>4, <1>5, <1>6
  <2>2. \A i \in DOMAIN s : s[i].retries \in Nat
    BY MapEntries
  <2> HIDE DEF g
  <2>3. \A k \in DOMAIN m : /\ m[k].codigo = s[g[k]].codigo
                            /\ m[k].retries >= s[g[k]].retries
    BY <2>1, <2>2
  <2> QED
    BY <1>7, <2>1, <2>3, PickedInTurn
<1> QED
  BY <1>3, <1>6, <1>7, <1>8, <1>9, <1>10 DEF m, size

\* The pass goes on with another type of its entry.
LEMMA NextTypeKeeps ==
    ASSUME IInv, NEW p \in passes, NEW q \in Passes,
           q.visited = p.visited, q.detached = p.detached,
           q.entry.codigo = p.entry.codigo, q.entry.retries = p.entry.retries,
           NextType(pending, q, {})
    PROVE  /\ IsMap(pending') /\ Len(pending') <= MAX_PENDING_SIZE
           /\ retrying' \in BOOLEAN
           /\ PassesDoNotOverlap'
           /\ \A r \in passes' : AtPlace(r, pending')
           /\ pending' = Stored(pending, q) /\ q.entry.types # {}
           /\ TurnsVisited(pending, p.visited, pending', passes')
<1>1. PICK tried \in SUBSET (q.entry.types \ q.tried) : \E t \in tried :
          LET r == [q EXCEPT !.type = t, !.tried = @ \cup tried]
          IN  /\ pending' = Stored(pending, r)
              /\ passes' = {} \cup {r}
              /\ UNCHANGED retrying
  BY DEF NextType
<1>2. PICK t \in tried :
          LET r == [q EXCEPT !.type = t, !.tried = @ \cup tried]
          IN  /\ pending' = Stored(pending, r)
              /\ passes' = {} \cup {r}
              /\ UNCHANGED retrying
  BY <1>1
<1> DEFINE r == [q EXCEPT !.type = t, !.tried = @ \cup tried]
<1>3. pending' = Stored(pending, r) /\ passes' = {r} /\ retrying' = retrying
  BY <1>2
<1>4. /\ r \in Passes /\ r.visited = q.visited /\ r.detached = q.detached
      /\ r.entry = q.entry
  <2>1. q.entry \in PendingEntries /\ q.tried \in SUBSET PayloadTypes
    BY PassParts
  <2>2. t \in PayloadTypes /\ q.tried \cup tried \in SUBSET PayloadTypes
    BY <2>1 DEF PendingEntries
  <2> QED
    BY <2>2 DEF Passes
<1>5. q.entry.types # {}
  OBVIOUS
<1> HIDE DEF r
<1>6. Stored(pending, r) = Stored(pending, q)
  BY <1>4 DEF Stored
<1>7. /\ IsMap(pending') /\ Len(pending') = Len(pending) /\ AtPlace(r, pending')
      /\ TurnsKept(pending, pending')
      /\ Aligned(pending, r.visited, pending', r.visited)
  BY <1>3, <1>4, <1>5, StoredKeepsMap
<1>8. retrying /\ Len(pending) <= MAX_PENDING_SIZE
  BY DEF IInv, PassesDoNotOverlap, WithinCapacity
<1>9. PassesDoNotOverlap'
  BY <1>3, <1>8 DEF PassesDoNotOverlap
<1>10. \A x \in passes' : AtPlace(x, pending')
  BY <1>3, <1>7
<1>11. Len(pending') <= MAX_PENDING_SIZE
  BY <1>7, <1>8
<1>12. retrying' \in BOOLEAN
  BY <1>3 DEF IInv
<1>13. TurnsVisited(pending, p.visited, pending', passes')
  <2>1. IsMap(pending) /\ r.visited \in Nat /\ r.visited = p.visited
    BY <1>4, PassParts DEF IInv
  <2>2. TurnsVisited(pending, r.visited, pending', {r})
    BY <1>7, <2>1, NoneVisited
  <2> QED
    BY <1>3, <2>1, <2>2
<1> QED
  BY <1>3, <1>5, <1>6, <1>7, <1>9, <1>10, <1>11, <1>12, <1>13

\* The pass is through with its entry.  The map that it goes on with has lost the
\* request just dispatched, or the entry of the pass.
LEMMA EntryEndsKeeps ==
    ASSUME IInv, NEW p \in passes, NEW q \in Passes,
           q.visited = p.visited, q.detached = p.detached,
           q.entry.codigo = p.entry.codigo, q.entry.retries = p.entry.retries,
           EntryEnds(pending, q, {})
    PROVE  \E s : /\ \/ s = Stored(pending, q) /\ q.entry.types # {}
                     \/ s = Deleted(pending, q.entry.codigo) /\ q.entry.types = {}
                  /\ IsMap(pending') /\ Len(pending') <= MAX_PENDING_SIZE
                  /\ retrying' \in BOOLEAN
                  /\ PassesDoNotOverlap'
                  /\ \A x \in passes' : AtPlace(x, pending')
                  /\ \A r \in Requests(s) \ Requests(pending') :
                         \E i \in DOMAIN s : /\ s[i].codigo = r[1]
                                             /\ s[i].retries >= MAX_RETRIES \/ s[i].aged
                  /\ TurnsVisited(pending, p.visited, pending', passes')
<1>1. /\ IsMap(pending) /\ Len(pending) <= MAX_PENDING_SIZE /\ AtPlace(p, pending)
      /\ Len(pending) \in Nat /\ DOMAIN pending = 1..Len(pending)
      /\ MAX_PENDING_SIZE \in Nat
  BY MapEntries, PendingAssumption DEF IInv, WithinCapacity
<1>2. q.visited \in 0..Len(pending)
  <2>1. p.visited \in Nat
    BY <1>1, PassParts DEF AtPlace
  <2>2. CASE p.detached
    BY <1>1, <2>2 DEF AtPlace
  <2>3. CASE ~p.detached
    BY <1>1, <2>3 DEF AtPlace
  <2> QED
    BY <2>2, <2>3
<1>3. CASE q.entry.types # {}
  <2> DEFINE s == Stored(pending, q)
  <2>1. /\ IsMap(s) /\ Len(s) = Len(pending) /\ TurnsKept(pending, s)
        /\ Aligned(pending, q.visited, s, q.visited)
    BY <1>3, StoredKeepsMap
  <2>2. VisitNext(s, q.visited, {})
    BY <1>3 DEF EntryEnds
  <2> HIDE DEF s
  <2>3. q.visited \in 0..Len(s) /\ Len(s) <= MAX_PENDING_SIZE
    BY <1>1, <1>2, <2>1
  <2>4. /\ IsMap(pending') /\ Len(pending') <= MAX_PENDING_SIZE
        /\ retrying' \in BOOLEAN
        /\ PassesDoNotOverlap'
        /\ \A x \in passes' : AtPlace(x, pending')
        /\ \A r \in Requests(s) \ Requests(pending') :
               \E i \in DOMAIN s : /\ s[i].codigo = r[1]
                                   /\ s[i].retries >= MAX_RETRIES \/ s[i].aged
        /\ TurnsVisited(s, q.visited, pending', passes')
        /\ Codes(pending') \subseteq Codes(s)
    BY <2>1, <2>2, <2>3, VisitKeeps
  <2>5. TurnsVisited(pending, p.visited, pending', passes')
    <3>1. TurnsVisited(pending, q.visited, pending', passes')
      BY <2>1, <2>4, VisitComposes
    <3> QED
      BY <3>1
  <2> QED
    BY <1>3, <2>4, <2>5 DEF s
<1>4. CASE q.entry.types = {}
  <2> DEFINE kept == {i \in DOMAIN pending : pending[i].codigo # q.entry.codigo}
             s    == Kept(pending, kept)
             v    == IF q.detached THEN q.visited ELSE q.visited - 1
  <2>1. /\ IsMap(s) /\ Len(s) = Cardinality(kept) /\ Len(s) <= Len(pending)
        /\ TurnsKept(pending, s)
        /\ Ranked(pending, kept, s)
    <3>1. kept \in SUBSET DOMAIN pending
      OBVIOUS
    <3>2. IsMap(pending)
      BY <1>1
    <3> HIDE DEF kept, s
    <3>3. s = Kept(pending, kept)
      BY DEF s
    <3>4. IsMap(s) /\ TurnsKept(pending, s)
      BY <3>1, <3>2, <3>3, DeletedKeepsMap, Zenon
    <3>5. Len(s) = Cardinality(kept) /\ Len(s) <= Len(pending)
      BY <3>1, <3>2, <3>3, DeletedKeepsMap, Zenon
    <3>6. Ranked(pending, kept, s)
      BY <3>1, <3>2, <3>3, DeletedKeepsMap, Zenon
    <3> QED
      BY <3>4, <3>5, <3>6, Zenon
  <2>2. VisitNext(s, v, {})
    BY <1>4 DEF EntryEnds, Deleted
  <2>3. v \in 0..Len(s) /\ Aligned(pending, q.visited, s, v)
    <3>1. Len(s) \in Nat /\ DOMAIN s = 1..Len(s)
      <4> HIDE DEF s
      <4> QED
        BY <2>1, MapEntries
    <3>2. CASE q.detached
      <4>1. q.visited = 0 /\ v = 0
        BY <1>1, <3>2 DEF AtPlace
      <4>2. \A i \in DOMAIN pending, k \in DOMAIN s : i > 0 /\ k > 0
        BY <1>1, <3>1
      <4> HIDE DEF s, v
      <4>3. Aligned(pending, q.visited, s, v)
        BY <4>1, <4>2 DEF Aligned
      <4> QED
        BY <3>1, <4>1, <4>3
    <3>3. CASE ~q.detached
      <4>1. /\ q.visited \in DOMAIN pending
            /\ pending[q.visited].codigo = q.entry.codigo
        BY <1>1, <3>3 DEF AtPlace
      <4>2. kept = DOMAIN pending \ {q.visited}
        <5>1. \A i \in DOMAIN pending :
                  pending[i].codigo = q.entry.codigo => i = q.visited
          BY <1>1, <4>1 DEF IsMap
        <5> QED
          BY <4>1, <5>1
      <4>3. /\ IsFiniteSet(DOMAIN pending)
            /\ Cardinality(DOMAIN pending) = Len(pending)
        BY <1>1, PlacesAreFinite
      <4>4. Cardinality(kept) = Len(pending) - 1
        BY <4>1, <4>2, <4>3, FS_RemoveElement
      <4>5. ASSUME NEW i \in DOMAIN pending, NEW k \in DOMAIN s,
                   s[k].codigo = pending[i].codigo
            PROVE  i > q.visited <=> k > v
        <5>1. PICK j \in kept : s[k] = pending[j] /\ Cardinality(kept \cap 1..j) = k
          BY <2>1 DEF Ranked
        <5>2. j = i /\ i # q.visited
          BY <1>1, <4>2, <4>5, <5>1 DEF IsMap
        <5>3. k = IF i < q.visited THEN i ELSE i - 1
          <6>1. kept = (1..Len(pending)) \ {q.visited}
            BY <1>1, <4>2
          <6> HIDE DEF kept, s
          <6> QED
            BY <1>1, <4>1, <5>1, <5>2, <6>1, PlaceWithout
        <5>4. v = q.visited - 1 /\ q.visited \in Nat /\ i \in Nat
          BY <1>1, <1>2, <3>3
        <5> HIDE DEF v, s
        <5> QED
          BY <5>2, <5>3, <5>4
      <4>6. Aligned(pending, q.visited, s, v)
        BY <4>5 DEF Aligned
      <4> HIDE DEF kept, s
      <4> QED
        BY <1>1, <1>2, <2>1, <3>3, <4>1, <4>4, <4>6
    <3> QED
      BY <3>2, <3>3
  <2>4. Len(s) <= MAX_PENDING_SIZE
    <3>1. Len(s) \in Nat
      <4> HIDE DEF s
      <4> QED
        BY <2>1, MapEntries
    <3> HIDE DEF s
    <3> QED
      BY <1>1, <2>1, <3>1
  <2> HIDE DEF s, v
  <2>5. /\ IsMap(pending') /\ Len(pending') <= MAX_PENDING_SIZE
        /\ retrying' \in BOOLEAN
        /\ PassesDoNotOverlap'
        /\ \A x \in passes' : AtPlace(x, pending')
        /\ \A r \in Requests(s) \ Requests(pending') :
               \E i \in DOMAIN s : /\ s[i].codigo = r[1]
                                   /\ s[i].retries >= MAX_RETRIES \/ s[i].aged
        /\ TurnsVisited(s, v, pending', passes')
        /\ Codes(pending') \subseteq Codes(s)
    BY <2>1, <2>2, <2>3, <2>4, VisitKeeps
  <2>6. TurnsVisited(pending, p.visited, pending', passes')
    <3>1. TurnsVisited(pending, q.visited, pending', passes')
      BY <2>1, <2>3, <2>5, VisitComposes
    <3> QED
      BY <3>1
  <2> QED
    BY <1>4, <2>5, <2>6 DEF s, Deleted
<1> QED
  BY <1>3, <1>4

\* A dispatch that ends costs its own request, if it succeeded, and those the pass
\* gives up before the next; a pass without entry those of its codigo.
LEMMA DispatchKeeps ==
    ASSUME IInv, NEW p \in passes, NEW ok \in BOOLEAN, DispatchEnds(p, ok)
    PROVE  IInv' /\ LeftForAReason /\ TurnsVisited(pending, p.visited, pending', passes')
<1> DEFINE q == AfterDispatch(p, ok)
<1>1. passes \ {p} = {} /\ AtPlace(p, pending) /\ p \in Passes
  BY DEF IInv, PassesDoNotOverlap, AtPlace
<1>2. /\ NextType(pending, q, {}) \/ EntryEnds(pending, q, {})
      /\ delivered' = ok /\ ticking' = ticking
  BY <1>1 DEF DispatchEnds
<1>3. /\ q \in Passes /\ q.visited = p.visited /\ q.detached = p.detached
      /\ q.entry.codigo = p.entry.codigo /\ q.entry.retries = p.entry.retries
      /\ q.entry.aged = p.entry.aged
      /\ q.entry.types = IF ok THEN p.entry.types \ {p.type} ELSE p.entry.types
  BY <1>1, AfterDispatchParts
<1> HIDE DEF q
<1>4. ticking' \in BOOLEAN /\ delivered' \in BOOLEAN
  BY <1>2 DEF IInv
<1> DEFINE Dispatched(r) == /\ p.entry.codigo = r[1]
                            /\ (p.type = r[2] /\ delivered') \/ p.detached
\* What is lost before the pass goes on.
<1>5. ASSUME q.entry.types # {},
             NEW r \in Requests(pending) \ Requests(Stored(pending, q))
      PROVE  Dispatched(r)
  <2>1. /\ DOMAIN Stored(pending, q) = DOMAIN pending
        /\ \A i \in DOMAIN Stored(pending, q) :
               \/ Stored(pending, q)[i] = pending[i]
               \/ /\ Stored(pending, q)[i] = q.entry /\ pending[i] = p.entry
    BY <1>3, <1>5, StoredKeepsMap
  <2>2. PICK i \in DOMAIN pending : \E u \in pending[i].types : r = <<pending[i].codigo, u>>
    BY RequestsOf
  <2>3. ~ \E u \in Stored(pending, q)[i].types : r = <<Stored(pending, q)[i].codigo, u>>
    BY <1>5, <2>1, <2>2, RequestsOf
  <2>4. Stored(pending, q)[i] = q.entry /\ pending[i] = p.entry
    BY <2>1, <2>2, <2>3
  <2>5. r[1] = p.entry.codigo /\ r[2] \in p.entry.types /\ r[2] \notin q.entry.types
    BY <1>3, <2>2, <2>3, <2>4
  <2> QED
    BY <1>2, <1>3, <2>5
<1>6. ASSUME q.entry.types = {},
             NEW r \in Requests(pending) \ Requests(Deleted(pending, q.entry.codigo))
      PROVE  Dispatched(r)
  <2> DEFINE kept == {i \in DOMAIN pending : pending[i].codigo # q.entry.codigo}
             s    == Kept(pending, kept)
  <2>1. PICK i \in DOMAIN pending : \E u \in pending[i].types : r = <<pending[i].codigo, u>>
    BY RequestsOf
  <2>2. kept \in SUBSET DOMAIN pending /\ (i \notin kept => pending[i].codigo = p.entry.codigo)
    BY <1>3, <2>1
  <2>3. r \notin Requests(s)
    BY <1>6 DEF Deleted
  <2> HIDE DEF kept
  <2>4. \A j \in kept : \E k \in DOMAIN s : s[k] = pending[j]
    BY <2>2, DeletedKeepsMap DEF IInv
  <2> HIDE DEF s
  <2>5. i \notin kept
    <3> SUFFICES ASSUME i \in kept
                 PROVE  FALSE
      OBVIOUS
    <3>1. PICK k \in DOMAIN s : s[k] = pending[i]
      BY <2>4
    <3> QED
      BY <2>1, <2>3, <3>1, RequestsOf
  <2>6. r[1] = p.entry.codigo
    BY <2>1, <2>2, <2>5
  <2>7. CASE ~p.detached
    <3>1. pending[p.visited] = p.entry /\ p.visited \in DOMAIN pending
      BY <1>1, <2>7 DEF AtPlace
    <3>2. i = p.visited
      BY <2>1, <2>2, <2>5, <3>1 DEF IInv, IsMap
    <3>3. r[2] \in p.entry.types
      BY <2>1, <3>1, <3>2
    <3>4. p.entry.types # {} /\ ok /\ p.entry.types \ {p.type} = {}
      BY <1>3, <1>6, <3>3
    <3> QED
      BY <1>2, <2>6, <3>3, <3>4
  <2>8. CASE p.detached
    BY <2>6, <2>8
  <2> QED
    BY <2>7, <2>8
<1>7. CASE NextType(pending, q, {})
  <2>1. /\ IsMap(pending') /\ Len(pending') <= MAX_PENDING_SIZE
        /\ retrying' \in BOOLEAN /\ PassesDoNotOverlap'
        /\ \A x \in passes' : AtPlace(x, pending')
        /\ pending' = Stored(pending, q) /\ q.entry.types # {}
        /\ TurnsVisited(pending, p.visited, pending', passes')
    BY <1>3, <1>7, NextTypeKeeps
  <2>2. IInv'
    BY <1>4, <2>1 DEF IInv, WithinCapacity
  <2>3. LeftForAReason
    BY <1>5, <2>1 DEF LeftForAReason
  <2> QED
    BY <2>1, <2>2, <2>3
<1>8. CASE EntryEnds(pending, q, {})
  <2>1. PICK s : /\ \/ s = Stored(pending, q) /\ q.entry.types # {}
                    \/ s = Deleted(pending, q.entry.codigo) /\ q.entry.types = {}
                 /\ IsMap(pending') /\ Len(pending') <= MAX_PENDING_SIZE
                 /\ retrying' \in BOOLEAN
                 /\ PassesDoNotOverlap'
                 /\ \A x \in passes' : AtPlace(x, pending')
                 /\ \A r \in Requests(s) \ Requests(pending') :
                        \E i \in DOMAIN s : /\ s[i].codigo = r[1]
                                            /\ s[i].retries >= MAX_RETRIES \/ s[i].aged
                 /\ TurnsVisited(pending, p.visited, pending', passes')
    BY <1>3, <1>8, EntryEndsKeeps
  <2>2. IInv'
    BY <1>4, <2>1 DEF IInv, WithinCapacity
  <2>3. \A i \in DOMAIN s : \E j \in DOMAIN pending :
            /\ s[i].codigo = pending[j].codigo /\ s[i].retries = pending[j].retries
            /\ s[i].aged = pending[j].aged
    <3>1. CASE s = Stored(pending, q) /\ q.entry.types # {}
      <4>1. /\ DOMAIN s = DOMAIN pending
            /\ \A i \in DOMAIN s : \/ s[i] = pending[i]
                                   \/ /\ s[i] = q.entry /\ pending[i] = p.entry
        BY <1>3, <3>1, StoredKeepsMap
      <4> QED
        BY <1>3, <4>1
    <3>2. CASE s = Deleted(pending, q.entry.codigo)
      <4> DEFINE kept == {i \in DOMAIN pending : pending[i].codigo # q.entry.codigo}
      <4>1. kept \in SUBSET DOMAIN pending /\ s = Kept(pending, kept)
        BY <3>2 DEF Deleted
      <4> HIDE DEF kept
      <4>2. \A k \in DOMAIN s : \E i \in kept : s[k] = pending[i]
        BY <4>1, DeletedKeepsMap DEF IInv, Ranked
      <4> QED
        BY <4>1, <4>2
    <3> QED
      BY <2>1, <3>1, <3>2
  <2>4. ASSUME NEW r \in Requests(pending) \ Requests(pending')
        PROVE  Spent(r) \/ Dispatched(r)
    <3>1. CASE r \in Requests(s)
      <4>1. PICK i \in DOMAIN s : /\ s[i].codigo = r[1]
                                  /\ s[i].retries >= MAX_RETRIES \/ s[i].aged
        BY <2>1, <2>4, <3>1
      <4> QED
        BY <2>3, <4>1 DEF Spent
    <3>2. CASE r \notin Requests(s)
      BY <1>5, <1>6, <2>1, <2>4, <3>2
    <3> QED
      BY <3>1, <3>2
  <2>5. LeftForAReason
    BY <2>4 DEF LeftForAReason
  <2> QED
    BY <2>1, <2>2, <2>5
<1> QED
  BY <1>2, <1>7, <1>8

\* The map is as it was, but for an age.
LEMMA AgeKeeps ==
    ASSUME IInv, NEW a \in DOMAIN pending, Ages(a)
    PROVE  IInv' /\ LeftForAReason /\ TurnsKept(pending, pending')
<1> DEFINE Aged(p) == IF p.visited = a /\ ~p.detached
                      THEN [p EXCEPT !.entry.aged = TRUE] ELSE p
           Older(e) == [e EXCEPT !.aged = TRUE]
<1>1. /\ pending' = [pending EXCEPT ![a] = Older(pending[a])]
      /\ passes' = {Aged(p) : p \in passes}
      /\ ticking' = ticking /\ retrying' = retrying /\ delivered' = delivered
  BY DEF Ages
<1>2. IsMap(pending) /\ \A p \in passes : AtPlace(p, pending)
  BY DEF IInv
<1>3. /\ pending \in Seq(PendingEntries) /\ Len(pending) \in Nat
      /\ DOMAIN pending = 1..Len(pending)
      /\ \A i \in DOMAIN pending : /\ pending[i] \in PendingEntries
                                   /\ pending[i].types # {}
  BY <1>2, MapEntries
<1>4. \A e \in PendingEntries : /\ Older(e) \in PendingEntries
                                /\ Older(e).codigo = e.codigo
                                /\ Older(e).retries = e.retries
                                /\ Older(e).types = e.types
  BY DEF PendingEntries
<1>5. \A p \in Passes : /\ Aged(p) \in Passes
                        /\ Aged(p).visited = p.visited
                        /\ Aged(p).detached = p.detached
                        /\ ~p.detached =>
                               Aged(p).entry = IF p.visited = a THEN Older(p.entry)
                                               ELSE p.entry
  <2> SUFFICES ASSUME NEW p \in Passes
               PROVE  /\ Aged(p) \in Passes
                      /\ Aged(p).visited = p.visited
                      /\ Aged(p).detached = p.detached
                      /\ ~p.detached =>
                             Aged(p).entry = IF p.visited = a THEN Older(p.entry)
                                             ELSE p.entry
    OBVIOUS
  <2>1. p.entry \in PendingEntries /\ Older(p.entry) \in PendingEntries
    BY <1>4, PassParts
  <2>2. CASE p.visited = a /\ ~p.detached
    <3>1. Aged(p) = [p EXCEPT !.entry = Older(p.entry)]
      BY <2>2 DEF Passes
    <3> HIDE DEF Aged, Older
    <3> QED
      BY <2>1, <2>2, <3>1 DEF Passes
  <2>3. CASE ~(p.visited = a /\ ~p.detached)
    BY <2>3
  <2> QED
    BY <2>2, <2>3
<1> HIDE DEF Aged, Older
<1>6. /\ pending' \in Seq(PendingEntries) /\ DOMAIN pending' = DOMAIN pending
      /\ \A i \in DOMAIN pending :
             pending'[i] = IF i = a THEN Older(pending[i]) ELSE pending[i]
  BY <1>1, <1>3, <1>4
<1>7. /\ IsMap(pending') /\ Len(pending') = Len(pending)
      /\ TurnsKept(pending, pending')
  <2>1. \A i \in DOMAIN pending : /\ pending'[i].codigo = pending[i].codigo
                                  /\ pending'[i].retries = pending[i].retries
                                  /\ pending'[i].types # {}
    BY <1>3, <1>4, <1>6
  <2> QED
    BY <1>2, <1>6, <2>1, ChangedInPlace
<1>8. ASSUME NEW q \in passes'
      PROVE  AtPlace(q, pending')
  <2>1. PICK p \in passes : q = Aged(p)
    BY <1>1, <1>8
  <2>2. AtPlace(p, pending)
    BY <1>2
  <2>3. /\ q \in Passes /\ q.visited = p.visited /\ q.detached = p.detached
        /\ ~p.detached => q.entry = IF p.visited = a THEN Older(p.entry) ELSE p.entry
    BY <1>5, <2>1, <2>2 DEF AtPlace
  <2> QED
    BY <1>6, <2>2, <2>3 DEF AtPlace
<1>9. PassesDoNotOverlap'
  BY AgeKeepsPasses DEF IInv
<1>10. IInv'
  BY <1>1, <1>7, <1>8, <1>9 DEF IInv, WithinCapacity
<1>11. Requests(pending) \subseteq Requests(pending')
  <2> SUFFICES ASSUME NEW r \in Requests(pending)
               PROVE  r \in Requests(pending')
    OBVIOUS
  <2>1. PICK i \in DOMAIN pending : \E u \in pending[i].types : r = <<pending[i].codigo, u>>
    BY RequestsOf
  <2>2. /\ i \in DOMAIN pending' /\ pending'[i].codigo = pending[i].codigo
        /\ pending'[i].types = pending[i].types
    BY <1>3, <1>4, <1>6
  <2> QED
    BY <2>1, <2>2, RequestsOf
<1> QED
  BY <1>7, <1>10, <1>11 DEF LeftForAReason

-----------------------------------------------------------------------------
(***************************************************************************)
(* The theorems                                                            *)
(***************************************************************************)

\* The buffer starts empty, with no pass.
LEMMA InitEstablishes == Init => IInv
<1> SUFFICES ASSUME Init
             PROVE  IInv
  OBVIOUS
<1>1. pending = <<>> /\ Len(pending) = 0 /\ DOMAIN pending = {}
  BY DEF Init
<1>2. IsMap(pending)
  BY <1>1 DEF IsMap
<1>3. WithinCapacity
  BY <1>1, PendingAssumption DEF WithinCapacity
<1> QED
  BY <1>2, <1>3 DEF Init, IInv, PassesDoNotOverlap

\* A step that leaves the map alone keeps the turns.
LEMMA TurnsStay ==
    ASSUME IInv, pending' = pending
    PROVE  TurnsKept(pending, pending')
<1>1. IsMap(pending)
  BY DEF IInv
<1>2. /\ pending \in Seq(PendingEntries)
      /\ \A i \in DOMAIN pending : pending[i].types # {}
  BY <1>1, MapEntries
<1>3. TurnsKept(pending, pending)
  BY <1>1, <1>2, ChangedInPlace
<1> QED
  BY <1>3

\* Every step keeps the invariant and loses requests for a reason.
LEMMA NextKeeps ==
    ASSUME IInv, [Next]_vars
    PROVE  IInv' /\ LeftForAReason
<1>1. ASSUME NEW c \in Codigos, NEW t \in PayloadTypes, AddPending(c, t)
      PROVE  IInv' /\ LeftForAReason
  BY <1>1, AddKeeps
<1>2. CASE Tick
  BY <1>2, TickKeeps
<1>3. ASSUME NEW p \in passes, NEW ok \in BOOLEAN, DispatchEnds(p, ok)
      PROVE  IInv' /\ LeftForAReason
  BY <1>3, DispatchKeeps
<1>4. CASE StopRetryLoop
  <2>1. /\ pending' = pending /\ passes' = passes /\ retrying' = retrying
        /\ delivered' = delivered /\ ticking' \in BOOLEAN
    BY <1>4 DEF StopRetryLoop
  <2>2. IInv'
    BY <2>1 DEF IInv, WithinCapacity, PassesDoNotOverlap
  <2> QED
    BY <2>1, <2>2 DEF LeftForAReason
<1>5. ASSUME NEW a \in DOMAIN pending, Ages(a)
      PROVE  IInv' /\ LeftForAReason
  BY <1>5, AgeKeeps
<1>6. CASE UNCHANGED vars
  <2>1. /\ pending' = pending /\ passes' = passes /\ retrying' = retrying
        /\ delivered' = delivered /\ ticking' = ticking
    BY <1>6 DEF vars
  <2>2. IInv'
    BY <2>1 DEF IInv, WithinCapacity, PassesDoNotOverlap
  <2> QED
    BY <2>1, <2>2 DEF LeftForAReason
<1> QED
  BY <1>1, <1>2, <1>3, <1>4, <1>5, <1>6 DEF Next

\* What EntriesKeepTheirTurn says of a step.
Turns ==
    \A i \in DOMAIN pending, k \in DOMAIN pending' :
        pending'[k].codigo = pending[i].codigo =>
        /\ \A j \in DOMAIN pending, l \in DOMAIN pending' :
               pending'[l].codigo = pending[j].codigo /\ i < j => k < l
        /\ pending'[k].retries = pending[i].retries +
               IF /\ \A p \in passes : i > p.visited
                  /\ \A p \in passes' : k <= p.visited
                  /\ RetryStep
               THEN 1 ELSE 0

\* In a step of the loop the pass goes by what is between its places.
LEMMA LoopTurns ==
    ASSUME RetryStep, NEW v, TurnsVisited(pending, v, pending', passes'),
           \A i \in DOMAIN pending : i > v <=> \A p \in passes : i > p.visited
    PROVE  Turns
<1> SUFFICES ASSUME NEW i \in DOMAIN pending, NEW k \in DOMAIN pending',
                    pending'[k].codigo = pending[i].codigo
             PROVE  /\ \A j \in DOMAIN pending, l \in DOMAIN pending' :
                           pending'[l].codigo = pending[j].codigo /\ i < j => k < l
                    /\ pending'[k].retries = pending[i].retries +
                           IF /\ \A p \in passes : i > p.visited
                              /\ \A p \in passes' : k <= p.visited
                              /\ RetryStep
                           THEN 1 ELSE 0
  BY Zenon DEF Turns
<1>1. \A j \in DOMAIN pending, l \in DOMAIN pending' :
          pending'[l].codigo = pending[j].codigo /\ i < j => k < l
  BY DEF TurnsVisited
<1>2. pending'[k].retries = pending[i].retries +
          IF i > v /\ \A p \in passes' : k <= p.visited THEN 1 ELSE 0
  BY Zenon DEF TurnsVisited
<1>3. i > v <=> \A p \in passes : i > p.visited
  OBVIOUS
<1> QED
  BY <1>1, <1>2, <1>3

\* In another step no pass goes by an entry.
LEMMA OtherTurns ==
    ASSUME IInv, ~RetryStep, TurnsKept(pending, pending')
    PROVE  Turns
<1> SUFFICES ASSUME NEW i \in DOMAIN pending, NEW k \in DOMAIN pending',
                    pending'[k].codigo = pending[i].codigo
             PROVE  /\ \A j \in DOMAIN pending, l \in DOMAIN pending' :
                           pending'[l].codigo = pending[j].codigo /\ i < j => k < l
                    /\ pending'[k].retries = pending[i].retries + 0
  BY Zenon DEF Turns
<1>1. \A j \in DOMAIN pending, l \in DOMAIN pending' :
          pending'[l].codigo = pending[j].codigo /\ i < j => k < l
  BY DEF TurnsKept
<1>2. pending'[k].retries = pending[i].retries
  BY DEF TurnsKept
<1>3. pending[i].retries \in Nat
  BY MapEntries DEF IInv
<1> QED
  BY <1>1, <1>2, <1>3

\* Every step keeps the turns.
LEMMA NextTurns ==
    ASSUME IInv, Next
    PROVE  Turns
<1>1. \A i \in DOMAIN pending : i \in Nat /\ i > 0
  BY DEF IInv, IsMap
<1>2. CASE Tick
  <2>1. RetryStep
    BY <1>2 DEF RetryStep
  <2>2. passes = {}
    BY <1>2 DEF IInv, PassesDoNotOverlap, Tick
  <2>3. TurnsVisited(pending, 0, pending', passes')
    BY <1>2, TickKeeps
  <2>4. \A i \in DOMAIN pending : i > 0 <=> \A p \in passes : i > p.visited
    BY <1>1, <2>2
  <2> QED
    BY <2>1, <2>3, <2>4, LoopTurns
<1>3. ASSUME NEW p \in passes, NEW ok \in BOOLEAN, DispatchEnds(p, ok)
      PROVE  Turns
  <2>1. RetryStep
    BY <1>3 DEF RetryStep
  <2>2. passes = {p}
    BY DEF IInv, PassesDoNotOverlap
  <2>3. TurnsVisited(pending, p.visited, pending', passes')
    BY <1>3, DispatchKeeps
  <2>4. \A i \in DOMAIN pending : i > p.visited <=> \A q \in passes : i > q.visited
    BY <2>2
  <2> QED
    BY <2>1, <2>3, <2>4, LoopTurns
<1>4. CASE ~RetryStep
  <2>1. TurnsKept(pending, pending')
    <3>1. ASSUME NEW c \in Codigos, NEW t \in PayloadTypes, AddPending(c, t)
          PROVE  TurnsKept(pending, pending')
      BY <3>1, AddKeeps
    <3>2. CASE StopRetryLoop
      BY <3>2, TurnsStay DEF StopRetryLoop
    <3>3. ASSUME NEW a \in DOMAIN pending, Ages(a)
          PROVE  TurnsKept(pending, pending')
      BY <3>3, AgeKeeps
    <3> QED
      BY <1>4, <3>1, <3>2, <3>3 DEF Next, RetryStep
  <2> QED
    BY <1>4, <2>1, OtherTurns
<1> QED
  BY <1>2, <1>3, <1>4 DEF RetryStep

\* Whatever is added, evicted, given up or dispatched, and in whatever order, the
\* buffer is a map of at most MAX_PENDING_SIZE codigos, none retried more than
\* MAX_RETRIES times, and one pass at most is at an entry of it.
THEOREM Invariant == Spec => []IInv
<1>1. IInv /\ [Next]_vars => IInv'
  BY NextKeeps
<1> QED
  BY <1>1, InitEstablishes, PTL DEF Spec

\* The variables keep their types, and no codigo has two entries.
THEOREM TypeCorrect == Spec => []TypeOK
<1>1. IInv => TypeOK
  <2>1. IsMap(pending) => /\ pending \in Seq(PendingEntries)
                          /\ \A i, j \in DOMAIN pending :
                                 pending[i].codigo = pending[j].codigo => i = j
    BY DEF IsMap
  <2>2. (\A p \in passes : AtPlace(p, pending)) => passes \in SUBSET Passes
    BY DEF AtPlace
  <2> QED
    BY <2>1, <2>2 DEF IInv, TypeOK
<1> QED
  BY <1>1, Invariant, PTL

\* However long the dispatches of a pass take, the interval never starts a second
\* pass beside it, and the flag `retrying` tells whether there is one.
THEOREM PassesAreSingle == Spec => []PassesDoNotOverlap
<1>1. IInv => PassesDoNotOverlap
  BY DEF IInv
<1> QED
  BY <1>1, Invariant, PTL

\* addPending() evicts in time: the map never outgrows MAX_PENDING_SIZE, though a
\* pass of the retry loop holds on to an entry of it.
THEOREM CapacityIsKept == Spec => []WithinCapacity
<1>1. IInv => WithinCapacity
  BY DEF IInv
<1> QED
  BY <1>1, Invariant, PTL

\* No addPending(), eviction or deletion moves a suspended pass off its entry.
THEOREM PlaceIsKept == Spec => []PassKeepsItsPlace
<1>1. IInv => PassKeepsItsPlace
  BY DEF IInv, AtPlace, PassKeepsItsPlace
<1> QED
  BY <1>1, Invariant, PTL

\* No entry is left over in the map: none without a type to retry, and none that was
\* retried more often than the loop allows, in the middle of a pass either.
RetriesAreBounded ==
    \A i \in DOMAIN pending : pending[i].types # {} /\ pending[i].retries <= MAX_RETRIES

\* With TurnsAreKept, which has each pass that goes by an entry count one retry, no
\* entry outlives MAX_RETRIES + 1 such passes, however often it is added to.
THEOREM NoEntryIsLeftOver == Spec => []RetriesAreBounded
<1>1. IInv => RetriesAreBounded
  BY DEF IInv, IsMap, RetriesAreBounded
<1> QED
  BY <1>1, Invariant, PTL

\* A request leaves the buffer only when it has succeeded, has been retried often
\* or long enough, was the oldest of a full map, or was deleted by a pass whose
\* entry of that codigo had been evicted.
THEOREM NothingIsDropped == Spec => RequestsLeaveForAReason
<1>1. IInv /\ [Next]_vars => [LeftForAReason]_vars
  BY NextKeeps
<1>2. [LeftForAReason]_vars =>
          [\A r \in Requests(pending) \ Requests(pending') :
              \/ Spent(r)
              \/ Oldest(r)
              \/ \E p \in passes : /\ p.entry.codigo = r[1]
                                   /\ (p.type = r[2] /\ delivered') \/ p.detached]_vars
  BY DEF LeftForAReason
<1> QED
  BY <1>1, <1>2, Invariant, PTL DEF Spec, RequestsLeaveForAReason

\* Entries that stay in the map are visited, and evicted, in the order in which they
\* came; a pass skips none of them, visits none twice and counts one retry for each
\* that it goes by, though entries are deleted, evicted and put in while it runs;
\* and nothing else gives retries back or uses them up.
THEOREM TurnsAreKept == Spec => EntriesKeepTheirTurn
<1>1. IInv /\ [Next]_vars => [Turns]_vars
  BY NextTurns
<1>2. [Turns]_vars =>
          [\A i \in DOMAIN pending, k \in DOMAIN pending' :
              pending'[k].codigo = pending[i].codigo =>
              /\ \A j \in DOMAIN pending, l \in DOMAIN pending' :
                     pending'[l].codigo = pending[j].codigo /\ i < j => k < l
              /\ pending'[k].retries = pending[i].retries +
                     IF /\ \A p \in passes : i > p.visited
                        /\ \A p \in passes' : k <= p.visited
                        /\ RetryStep
                     THEN 1 ELSE 0]_vars
  BY DEF Turns
<1> QED
  BY <1>1, <1>2, Invariant, PTL DEF Spec, EntriesKeepTheirTurn
=============================================================================
