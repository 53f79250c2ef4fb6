--------------------------- MODULE SwcCompilerProofs ---------------------------
(***************************************************************************)
(* Proofs about the vendored swc, for every file, configuration, depth of  *)
(* the search and compilation, every sequence of comments and spans, and   *)
(* every set of threads: an inductive invariant for each part, which the   *)
(* steps of the others leave alone.                                        *)
(***************************************************************************)
EXTENDS SwcCompiler, FiniteSetTheorems, SequenceTheorems, WellFoundedInduction, TLAPS

-----------------------------------------------------------------------------
(* The order of the naturals, and sorting by a key.                          *)

\* Every nonempty set of natural numbers has a least element.
LEMMA LeastOfNaturals ==
    ASSUME NEW S, S \subseteq Nat, S # {}
    PROVE  \E m \in S : \A n \in S : m <= n
<1> DEFINE R == {ss \in Nat \X Nat : ss[1] < ss[2]}
<1>1. IsWellFoundedOn(R, Nat)
  BY NatLessThanWellFounded DEF OpToRel
<1> HIDE DEF R
<1>2. PICK m \in S : \A n \in S : ~ (<<n, m>> \in R)
  BY <1>1, WFMin
<1>3. ASSUME NEW n \in S, ~ m <= n PROVE FALSE
  <2>1. <<n, m>> \in R
    BY <1>3 DEF R
  <2>2. QED
    BY <2>1, <1>2
<1>4. QED
  BY <1>3

\* A bounded one has a greatest.
LEMMA GreatestOfNaturals ==
    ASSUME NEW S, S \subseteq Nat, S # {}, NEW b \in Nat, \A n \in S : n <= b
    PROVE  \E m \in S : \A n \in S : n <= m
<1> DEFINE U == {u \in Nat : \A n \in S : n <= u}
<1>1. U \subseteq Nat /\ b \in U
  OBVIOUS
<1>2. PICK m \in U : \A u \in U : m <= u
  BY <1>1, LeastOfNaturals
<1>3. m \in Nat /\ \A n \in S : n <= m
  BY <1>2
<1>4. ASSUME m \notin S PROVE FALSE
  <2>1. \A n \in S : n < m
    BY <1>3, <1>4
  <2>2. m > 0
    <3>1. PICK n \in S : n \in Nat
      OBVIOUS
    <3>2. QED
      BY <2>1, <3>1, <1>3
  <2>3. m - 1 \in Nat /\ \A n \in S : n <= m - 1
    BY <2>1, <2>2, <1>3
  <2>4. m - 1 \in U
    BY <2>3
  <2>5. QED
    BY <2>4, <1>2, <1>3
<1>5. QED
  BY <1>3, <1>4

\* How a list with n keys is sorted.
Order(key, n, p) ==
    /\ p \in [1..n -> 1..n]
    /\ \A v \in 1..n : \E i \in 1..n : p[i] = v
    /\ \A i, j \in 1..n : i < j =>
           key[p[i]] < key[p[j]] \/ (key[p[i]] = key[p[j]] /\ p[i] < p[j])

\* One more key has its place behind those that are not greater.
LEMMA Inserting ==
    ASSUME NEW key, NEW n \in Nat, \A i \in 1..(n + 1) : key[i] \in Nat,
           NEW p, Order(key, n, p)
    PROVE  \E q : Order(key, n + 1, q)
<1> DEFINE m == n + 1
           K == {i \in 1..n : key[p[i]] > key[m]} \union {m}
<1>1. PICK k \in K : \A i \in K : k <= i
  <2>1. K \subseteq Nat /\ m \in K
    OBVIOUS
  <2>2. QED
    BY <2>1, LeastOfNaturals
<1>2. /\ k \in 1..m /\ \A i \in 1..n : p[i] \in 1..n
      /\ \A i \in 1..n : key[p[i]] \in Nat
      /\ key[m] \in Nat
      /\ \A i, j \in 1..n : i < j =>
             key[p[i]] < key[p[j]] \/ (key[p[i]] = key[p[j]] /\ p[i] < p[j])
  <2>1. \A i \in 1..n : p[i] \in 1..n /\ p[i] \in 1..m
    BY DEF Order
  <2>2. \A i, j \in 1..n : i < j =>
           key[p[i]] < key[p[j]] \/ (key[p[i]] = key[p[j]] /\ p[i] < p[j])
    BY DEF Order
  <2>3. (\A i \in 1..n : key[p[i]] \in Nat) /\ key[m] \in Nat
    BY <2>1
  <2>4. k \in 1..m
    BY <1>1
  <2>5. QED
    BY <2>1, <2>2, <2>3, <2>4
<1>3. \A i \in 1..n : i < k => key[p[i]] <= key[m]
  <2>1. SUFFICES ASSUME NEW i \in 1..n, i < k, ~ key[p[i]] <= key[m] PROVE FALSE
    OBVIOUS
  <2>2. i \in K
    BY <2>1, <1>2
  <2>3. QED
    BY <2>1, <2>2, <1>1
<1>4. \A i \in 1..n : k <= i => key[p[i]] > key[m]
  <2>1. SUFFICES ASSUME NEW i \in 1..n, k <= i PROVE key[p[i]] > key[m]
    OBVIOUS
  <2>2. k \in 1..n /\ key[p[k]] > key[m]
    BY <2>1, <1>1, <1>2
  <2>3. key[p[k]] <= key[p[i]]
    BY <2>1, <2>2, <1>2
  <2>4. QED
    BY <2>1, <2>2, <2>3, <1>2
<1> HIDE DEF K
<1> DEFINE q == [i \in 1..m |-> IF i < k THEN p[i] ELSE IF i = k THEN m ELSE p[i - 1]]
<1>5. q \in [1..m -> 1..m]
  <2>1. SUFFICES ASSUME NEW i \in 1..m PROVE q[i] \in 1..m
    OBVIOUS
  <2>2. CASE i < k
    BY <2>2, <1>2
  <2>3. CASE i = k
    BY <2>3
  <2>4. CASE i > k
    <3>1. i - 1 \in 1..n
      BY <2>4, <1>2
    <3>2. QED
      BY <2>4, <3>1, <1>2
  <2>5. QED
    BY <2>2, <2>3, <2>4, <1>2
<1>6. ASSUME NEW v \in 1..m PROVE \E i \in 1..m : q[i] = v
  <2>1. CASE v = m
    BY <2>1, <1>2
  <2>2. CASE v # m
    <3>1. v \in 1..n
      BY <2>2
    <3>2. PICK i \in 1..n : p[i] = v
      BY <3>1 DEF Order
    <3>3. CASE i < k
      BY <3>2, <3>3, <1>2
    <3>4. CASE i >= k
      <4>1. i + 1 \in 1..m /\ ~(i + 1 < k) /\ i + 1 # k /\ i + 1 - 1 = i
        BY <3>4, <1>2
      <4>2. q[i + 1] = v
        BY <4>1, <3>2
      <4>3. QED
        BY <4>1, <4>2
    <3>5. QED
      BY <3>3, <3>4, <1>2
  <2>3. QED
    BY <2>1, <2>2
<1>7. ASSUME NEW i \in 1..m, NEW j \in 1..m, i < j
      PROVE  key[q[i]] < key[q[j]] \/ (key[q[i]] = key[q[j]] /\ q[i] < q[j])
  <2>1. CASE j < k
    <3>1. i \in 1..n /\ j \in 1..n /\ q[i] = p[i] /\ q[j] = p[j]
      BY <2>1, <1>7, <1>2
    <3>2. QED
      BY <3>1, <1>7, <1>2
  <2>2. CASE j = k
    <3>1. i \in 1..n /\ i < k /\ q[i] = p[i] /\ q[j] = m
      BY <2>2, <1>7, <1>2
    <3>2. p[i] < m /\ key[p[i]] <= key[m] /\ key[p[i]] \in Nat /\ key[m] \in Nat
      BY <3>1, <1>3, <1>2
    <3>3. QED
      BY <3>1, <3>2
  <2>3. CASE j > k
    <3>1. j - 1 \in 1..n /\ q[j] = p[j - 1] /\ k <= j - 1
      BY <2>3, <1>2
    <3>2. CASE i < k
      <4>1. i \in 1..n /\ q[i] = p[i] /\ i < j - 1
        BY <3>1, <3>2, <1>2
      <4>2. QED
        BY <4>1, <3>1, <1>2
    <3>3. CASE i = k
      <4>1. q[i] = m
        BY <3>3
      <4>2. key[p[j - 1]] > key[m] /\ key[p[j - 1]] \in Nat /\ key[m] \in Nat
        BY <3>1, <1>4, <1>2
      <4>3. QED
        BY <4>1, <4>2, <3>1
    <3>4. CASE i > k
      <4>1. i - 1 \in 1..n /\ q[i] = p[i - 1] /\ i - 1 < j - 1
        BY <3>4, <1>7, <1>2
      <4>2. QED
        BY <4>1, <3>1, <1>2
    <3>5. QED
      BY <3>2, <3>3, <3>4, <1>2
  <2>4. QED
    BY <2>1, <2>2, <2>3, <1>2
<1> HIDE DEF q
<1>8. Order(key, m, q)
  BY <1>5, <1>6, <1>7 DEF Order
<1>9. QED
  BY <1>8

\* Every list can be sorted.
LEMMA OrderExists ==
    ASSUME NEW key, NEW N \in Nat, \A i \in 1..N : key[i] \in Nat
    PROVE  \E p : Order(key, N, p)
<1> DEFINE S == {n \in 0..N : ~ \E p : Order(key, n, p)}
<1>1. SUFFICES ASSUME S # {} PROVE FALSE
  OBVIOUS
<1>2. PICK m \in S : \A n \in S : m <= n
  <2>1. S \subseteq Nat
    OBVIOUS
  <2>2. QED
    BY <2>1, <1>1, LeastOfNaturals
<1>3. m # 0
  <2>1. Order(key, 0, [i \in 1..0 |-> i])
    BY DEF Order
  <2>2. QED
    BY <2>1, <1>2
<1>4. m - 1 \in Nat /\ m - 1 \in 0..N /\ m - 1 \notin S /\ m - 1 + 1 = m /\ m \in 0..N
  BY <1>2, <1>3
<1>5. PICK p : Order(key, m - 1, p)
  BY <1>4
<1>6. \A i \in 1..(m - 1 + 1) : key[i] \in Nat
  BY <1>4
<1>7. \E q : Order(key, m - 1 + 1, q)
  BY <1>4, <1>5, <1>6, Inserting
<1>8. QED
  BY <1>7, <1>4, <1>2

\* A function on an initial interval is a sequence.
LEMMA AFunctionIsASeq ==
    ASSUME NEW S, NEW n \in Nat, NEW s \in [1..n -> S]
    PROVE  s \in Seq(S) /\ Len(s) = n
<1>1. s \in Seq(S)
  BY SeqDef
<1>2. Len(s) \in Nat /\ DOMAIN s = 1..Len(s) /\ DOMAIN s = 1..n
  BY <1>1, LenProperties
<1>3. Len(s) <= n
  <2>1. CASE Len(s) > n
    <3>1. Len(s) \in 1..Len(s)
      BY <2>1, <1>2
    <3>2. QED
      BY <3>1, <2>1, <1>2
  <2>2. QED
    BY <2>1, <1>2
<1>4. n <= Len(s)
  <2>1. CASE n > Len(s)
    <3>1. n \in 1..n
      BY <2>1, <1>2
    <3>2. QED
      BY <3>1, <2>1, <1>2
  <2>2. QED
    BY <2>1, <1>2
<1>5. QED
  BY <1>1, <1>2, <1>3, <1>4

\* What sort_by_key makes of the known spans.
LEMMA SortedSpans ==
    ASSUME NEW spans \in Seq(KnownSpans)
    PROVE  /\ Sorted(spans) \in Seq(KnownSpans) /\ Len(Sorted(spans)) = Len(spans)
           /\ \A i, j \in 1..Len(spans) : i < j => Sorted(spans)[i].lo <= Sorted(spans)[j].lo
           /\ \A i \in 1..Len(spans) : \E j \in 1..Len(spans) : Sorted(spans)[j] = spans[i]
           /\ \A j \in 1..Len(spans) : \E i \in 1..Len(spans) : Sorted(spans)[j] = spans[i]
<1> DEFINE n == Len(spans)
           key == [i \in 1..n |-> spans[i].lo]
           Right(p) == /\ {p[i] : i \in DOMAIN spans} = DOMAIN spans
                       /\ \A i, j \in DOMAIN spans : i < j =>
                            \/ spans[p[i]].lo < spans[p[j]].lo
                            \/ spans[p[i]].lo = spans[p[j]].lo /\ p[i] < p[j]
           order == CHOOSE p \in [DOMAIN spans -> DOMAIN spans] : Right(p)
<1>1. /\ n \in Nat /\ DOMAIN spans = 1..n
      /\ \A i \in 1..n : spans[i] \in KnownSpans
  BY LenProperties, ElementOfSeq
<1>2. \A i \in 1..n : spans[i].lo \in Nat /\ key[i] = spans[i].lo
  BY <1>1, CommentsAssumption DEF KnownSpans, Positions
<1>3. \E p \in [DOMAIN spans -> DOMAIN spans] : Right(p)
  <2>1. PICK p : Order(key, n, p)
    BY <1>1, <1>2, OrderExists
  <2> HIDE DEF key
  <2>2. p \in [1..n -> 1..n] /\ \A i \in 1..n : p[i] \in 1..n
    BY <2>1 DEF Order
  <2>3. {p[i] : i \in 1..n} = 1..n
    BY <2>1, <2>2 DEF Order
  <2>4. \A i, j \in 1..n : i < j =>
           \/ spans[p[i]].lo < spans[p[j]].lo
           \/ spans[p[i]].lo = spans[p[j]].lo /\ p[i] < p[j]
    <3>1. \A i, j \in 1..n : i < j =>
             key[p[i]] < key[p[j]] \/ (key[p[i]] = key[p[j]] /\ p[i] < p[j])
      BY <2>1 DEF Order
    <3>2. \A i \in 1..n : key[p[i]] = spans[p[i]].lo
      BY <2>2, <1>2
    <3>3. QED
      BY <3>1, <3>2
  <2>5. QED
    BY <2>2, <2>3, <2>4, <1>1
<1>4. order \in [DOMAIN spans -> DOMAIN spans] /\ Right(order)
  BY <1>3
<1>5. Sorted(spans) = [i \in DOMAIN spans |-> spans[order[i]]]
  BY DEF Sorted
<1> HIDE DEF order
<1>6. \A i \in 1..n : order[i] \in 1..n /\ Sorted(spans)[i] = spans[order[i]]
  BY <1>1, <1>4, <1>5
<1>7. Sorted(spans) \in Seq(KnownSpans) /\ Len(Sorted(spans)) = n
  <2>1. Sorted(spans) \in [1..n -> KnownSpans]
    BY <1>1, <1>5, <1>6
  <2>2. QED
    <3>1. n \in Nat /\ Sorted(spans) \in [1..n -> KnownSpans]
      BY <2>1, <1>1
    <3>2. QED
      BY <3>1, AFunctionIsASeq
<1>8. ASSUME NEW i \in 1..n, NEW j \in 1..n, i < j
      PROVE  Sorted(spans)[i].lo <= Sorted(spans)[j].lo
  <2>1. spans[order[i]].lo \in Nat /\ spans[order[j]].lo \in Nat
    BY <1>2, <1>6
  <2>2. spans[order[i]].lo < spans[order[j]].lo \/ spans[order[i]].lo = spans[order[j]].lo
    BY <1>1, <1>4, <1>8
  <2>3. QED
    BY <2>1, <2>2, <1>6
<1>9. ASSUME NEW i \in 1..n PROVE \E j \in 1..n : Sorted(spans)[j] = spans[i]
  <2>1. PICK j \in 1..n : order[j] = i
    BY <1>1, <1>4
  <2>2. QED
    BY <2>1, <1>6
<1>10. QED
  BY <1>6, <1>7, <1>8, <1>9

-----------------------------------------------------------------------------
(* Comments of dropped nodes.                                                *)

\* The comments that no span has taken: in the order of the file, and the last ones of it.
Left == IF phase = "done" THEN trail.comments ELSE rest

\* How many comments a span has taken.
Moved == Len(where) - Len(Left)

\* A span that the pass has visited.
IsKnown(s) == \E i \in 1..Len(known) : known[i] = s

\* A span that has had its turn starts before every comment that is left.
Passed(s) == \A k \in 1..Len(where) : k > Moved => where[k] > s.lo

\* p is where the closest known span starts that a comment can be put in front of.
Near(k, p) ==
    /\ where[k] <= p /\ \E s \in KnownSpans : IsKnown(s) /\ s.lo = p
    /\ \A s \in KnownSpans : IsKnown(s) /\ where[k] <= s.lo => p <= s.lo

\* The types of the pass; known spans are no dummies.
CommentsTypeOK ==
    /\ where \in Seq(Positions) /\ visited \in Seq(Spans) /\ visited # << >>
    /\ next \in 1..(Len(visited) + 1)
    /\ known \in Seq(KnownSpans) /\ todo \in Seq(KnownSpans)
    /\ phase \in {"visit", "leading", "done"}
    /\ rest \in Seq(1..Len(where)) /\ leads \in [Positions -> Seq(1..Len(where))]
    /\ trail \in [at : 0..MaxPos, comments : Seq(1..Len(where))]

\* The spans that are left are sorted, and known; those that are not left have passed.
TodoInv ==
    /\ \A i, j \in 1..Len(todo) : i < j => todo[i].lo <= todo[j].lo
    /\ \A i \in 1..Len(todo) : IsKnown(todo[i])
    /\ \A s \in KnownSpans : IsKnown(s) => Passed(s) \/ \E i \in 1..Len(todo) : todo[i] = s

\* What has been taken is near where it was, in its order, and not behind what is left.
LeadsInv ==
    /\ \A k \in 1..Moved : \E p \in Positions : In(k, leads[p]) /\ Near(k, p)
    /\ \A p \in Positions : \A i \in 1..Len(leads[p]) : leads[p][i] <= Moved
    /\ \A p \in Positions : leads[p] # << >> => \A i \in 1..Len(todo) : p <= todo[i].lo
    /\ \A p, q \in Positions : \A i \in 1..Len(leads[p]), j \in 1..Len(leads[q]) :
           p < q \/ (p = q /\ i < j) => leads[p][i] < leads[q][j]

\* The last span is the one that ends last.
TrailInv ==
    /\ todo = << >>
    /\ \A s \in KnownSpans : IsKnown(s) => s.hi <= trail.at
    /\ known # << >> => \E s \in KnownSpans : IsKnown(s) /\ s.hi = trail.at

\* The pass collects what it visits, and then moves the comments from the front.
CommentsInv ==
    /\ CommentsTypeOK
    /\ \A i, j \in 1..Len(where) : i <= j => where[i] <= where[j]
    /\ \A s \in KnownSpans : IsKnown(s) <=> \E k \in 2..(next - 1) : visited[k] = s
    /\ phase = "visit" => todo = << >> /\ rest = << >> /\ \A p \in Positions : leads[p] = << >>
    /\ phase # "visit" =>
           /\ next = Len(visited) + 1
           /\ Len(Left) <= Len(where) /\ \A i \in 1..Len(Left) : Left[i] = Moved + i
           /\ TodoInv /\ LeadsInv
    /\ phase = "done" => TrailInv

\* The pass starts with nothing collected.
LEMMA CommentsInitially ==
    ASSUME NEW w \in Seq(Positions), NEW v \in Seq(Spans), v # << >>,
           \A i, j \in 1..Len(w) : i <= j => w[i] <= w[j], CommentsStart(w, v)
    PROVE  CommentsInv
<1>1. Len(<< >>) = 0 /\ << >> \in Seq(KnownSpans) /\ << >> \in Seq(1..Len(w))
  BY EmptySeq
<1>2. Len(v) \in Nat
  BY LenProperties
<1>3. CommentsTypeOK
  BY <1>1, <1>2, CommentsAssumption DEF CommentsStart, CommentsTypeOK
<1>4. QED
  BY <1>1, <1>3 DEF CommentsStart, CommentsInv, IsKnown

\* A span that is visited is known from then on, but for the program's and for dummies.
LEMMA StepVisit ==
    ASSUME CommentsInv, VisitSpan
    PROVE  CommentsInv'
<1>1. CommentsTypeOK /\ phase = "visit" /\ next \in 1..Len(visited)
  BY LenProperties DEF CommentsInv, CommentsTypeOK, VisitSpan
<1>2. visited[next] \in Spans /\ Len(visited) \in Nat /\ Len(known) \in Nat
  BY <1>1, ElementOfSeq, LenProperties DEF CommentsTypeOK
<1>3. next' = next + 1 /\ UNCHANGED <<where, visited, todo, phase, rest, leads, trail>>
  BY DEF VisitSpan
<1>4. ASSUME next # 1, visited[next] # Dummy
      PROVE  /\ known' \in Seq(KnownSpans) /\ Len(known') = Len(known) + 1
             /\ \A i \in 1..Len(known) : known'[i] = known[i]
             /\ known'[Len(known) + 1] = visited[next]
  <2>1. visited[next] \in KnownSpans /\ known \in Seq(KnownSpans)
    BY <1>1, <1>2, <1>4 DEF CommentsTypeOK, Spans
  <2>2. known' = Append(known, visited[next])
    BY <1>4 DEF VisitSpan
  <2>3. QED
    BY <2>1, <2>2, AppendProperties, <1>2
<1>5. ASSUME next = 1 \/ visited[next] = Dummy PROVE known' = known
  BY <1>5 DEF VisitSpan
<1>6. CommentsTypeOK'
  BY <1>1, <1>2, <1>3, <1>4, <1>5 DEF CommentsTypeOK
<1>7. ASSUME NEW s \in KnownSpans
      PROVE  IsKnown(s)' <=> \E k \in 2..(next' - 1) : visited'[k] = s
  <2>1. IsKnown(s) <=> \E k \in 2..(next - 1) : visited[k] = s
    BY DEF CommentsInv
  <2>2. s # Dummy
    BY CommentsAssumption DEF KnownSpans, Dummy, Positions
  <2>3. CASE next # 1 /\ visited[next] # Dummy
    <3>1. IsKnown(s)' <=> IsKnown(s) \/ visited[next] = s
      <4>1. \A i \in 1..Len(known') : i \in 1..Len(known) \/ i = Len(known) + 1
        BY <2>3, <1>4, <1>2
      <4>2. \A i \in 1..Len(known) : i \in 1..Len(known')
        BY <2>3, <1>4, <1>2
      <4>3. Len(known) + 1 \in 1..Len(known')
        BY <2>3, <1>4, <1>2
      <4>4. QED
        BY <4>1, <4>2, <4>3, <2>3, <1>4 DEF IsKnown
    <3>2. \A k : k \in 2..next <=> k \in 2..(next - 1) \/ k = next
      BY <2>3, <1>1
    <3>3. next' - 1 = next
      BY <1>1, <1>3
    <3>4. QED
      BY <3>1, <3>2, <3>3, <2>1, <1>3
  <2>4. CASE next = 1 \/ visited[next] = Dummy
    <3>1. IsKnown(s)' <=> IsKnown(s)
      BY <2>4, <1>5 DEF IsKnown
    <3>2. next' - 1 = next
      BY <1>1, <1>3
    <3>3. \A k \in 2..next : visited[k] = s => k \in 2..(next - 1)
      BY <2>2, <2>4, <1>1
    <3>4. \A k \in 2..(next - 1) : k \in 2..next
      BY <1>1
    <3>5. QED
      BY <3>1, <3>2, <3>3, <3>4, <2>1, <1>3
  <2>5. QED
    BY <2>3, <2>4
<1>8. QED
  BY <1>1, <1>3, <1>6, <1>7 DEF CommentsInv

\* The known spans are sorted, and every comment is left.
LEMMA StepCollect ==
    ASSUME CommentsInv, Collect
    PROVE  CommentsInv'
<1> DEFINE n == Len(where)
<1>1. CommentsTypeOK /\ phase = "visit" /\ next > Len(visited)
  BY DEF CommentsInv, Collect
<1>2. n \in Nat /\ Len(visited) \in Nat /\ next = Len(visited) + 1
  BY <1>1, LenProperties DEF CommentsTypeOK
<1>3. /\ todo' = Sorted(known) /\ rest' = [k \in 1..n |-> k] /\ phase' = "leading"
      /\ UNCHANGED <<where, visited, next, known, leads, trail>>
  BY DEF Collect
<1>4. rest' \in Seq(1..n) /\ Len(rest') = n /\ \A k \in 1..n : rest'[k] = k
  <2>1. rest' \in [1..n -> 1..n]
    BY <1>3
  <2>2. QED
    BY <2>1, <1>2, <1>3, AFunctionIsASeq
<1>5. /\ todo' \in Seq(KnownSpans) /\ Len(todo') = Len(known) /\ Len(known) \in Nat
      /\ \A i, j \in 1..Len(todo') : i < j => todo'[i].lo <= todo'[j].lo
      /\ \A i \in 1..Len(known) : \E j \in 1..Len(todo') : todo'[j] = known[i]
      /\ \A j \in 1..Len(todo') : \E i \in 1..Len(known) : todo'[j] = known[i]
  <2>1. known \in Seq(KnownSpans)
    BY <1>1 DEF CommentsTypeOK
  <2>2. /\ Sorted(known) \in Seq(KnownSpans) /\ Len(Sorted(known)) = Len(known)
        /\ \A i, j \in 1..Len(known) : i < j => Sorted(known)[i].lo <= Sorted(known)[j].lo
        /\ \A i \in 1..Len(known) : \E j \in 1..Len(known) : Sorted(known)[j] = known[i]
        /\ \A j \in 1..Len(known) : \E i \in 1..Len(known) : Sorted(known)[j] = known[i]
    BY <2>1, SortedSpans
  <2>3. Len(known) \in Nat /\ todo' = Sorted(known)
    BY <2>1, <1>3, LenProperties
  <2>4. QED
    BY <2>2, <2>3
<1>6. CommentsTypeOK'
  BY <1>1, <1>2, <1>3, <1>4, <1>5 DEF CommentsTypeOK
<1>7. Left' = rest' /\ Moved' = 0
  BY <1>2, <1>3, <1>4 DEF Left, Moved
<1>8. Len(Left') <= n /\ \A i \in 1..Len(Left') : Left'[i] = Moved' + i
  BY <1>2, <1>4, <1>7
<1>9. TodoInv'
  <2>1. \A s : IsKnown(s)' <=> IsKnown(s)
    BY <1>3 DEF IsKnown
  <2>2. \A j \in 1..Len(todo') : \E i \in 1..Len(known') : known'[i] = todo'[j]
    BY <1>3, <1>5
  <2>3. ASSUME NEW s \in KnownSpans, IsKnown(s)' PROVE \E i \in 1..Len(todo') : todo'[i] = s
    <3>1. PICK i \in 1..Len(known) : known[i] = s
      BY <2>1, <2>3 DEF IsKnown
    <3>2. QED
      BY <3>1, <1>5
  <2>4. \A i, j \in 1..Len(todo') : i < j => todo'[i].lo <= todo'[j].lo
    BY <1>5
  <2>5. QED
    BY <2>2, <2>3, <2>4 DEF TodoInv, IsKnown
<1>10. LeadsInv'
  <2>1. \A p \in Positions : leads'[p] = << >> /\ Len(leads'[p]) = 0
    BY <1>1, <1>3, EmptySeq DEF CommentsInv
  <2>2. \A p \in Positions : 1..Len(leads'[p]) = {}
    BY <2>1
  <2>3. 1..Moved' = {}
    BY <1>7
  <2>4. QED
    BY <2>1, <2>2, <2>3 DEF LeadsInv
<1>11. /\ \A i, j \in 1..Len(where') : i <= j => where'[i] <= where'[j]
       /\ \A s \in KnownSpans : IsKnown(s)' <=> \E k \in 2..(next' - 1) : visited'[k] = s
  BY <1>3 DEF CommentsInv, IsKnown
<1>12. QED
  BY <1>2, <1>3, <1>6, <1>8, <1>9, <1>10, <1>11 DEF CommentsInv

\* partition_point finds the end of what is not behind the span's start.
LEMMA CutPoints ==
    ASSUME CommentsInv, phase = "leading", NEW pos \in Nat
    PROVE  /\ CutPoint(pos) \in 0..Len(rest)
           /\ \A i \in 1..Len(rest) : i <= CutPoint(pos) <=> where[rest[i]] <= pos
<1> DEFINE L == Len(rest)
           Cut(c) == \A i \in 1..L : i <= c <=> where[rest[i]] <= pos
<1>1. /\ L \in Nat /\ Len(where) \in Nat /\ L <= Len(where)
      /\ \A i \in 1..L : rest[i] = Len(where) - L + i
  BY LenProperties DEF CommentsInv, CommentsTypeOK, Left, Moved
<1>2. \A i \in 1..L : rest[i] \in 1..Len(where)
  BY <1>1
<1>3. \A k \in 1..Len(where) : where[k] \in Nat
  <2>1. where \in Seq(Positions) /\ Positions \subseteq Nat
    BY CommentsAssumption DEF CommentsInv, CommentsTypeOK, Positions
  <2>2. QED
    BY <2>1, ElementOfSeq
<1>4. \A i, j \in 1..L : i <= j => where[rest[i]] <= where[rest[j]]
  BY <1>1, <1>2 DEF CommentsInv
<1> DEFINE S == {c \in 0..L : \A i \in 1..L : i > c => where[rest[i]] > pos}
<1>5. PICK c \in S : \A d \in S : c <= d
  <2>1. L \in S /\ S \subseteq Nat
    BY <1>1
  <2>2. QED
    BY <2>1, LeastOfNaturals
<1>6. ASSUME NEW i \in 1..L, i <= c PROVE where[rest[i]] <= pos
  <2>0. c \in Nat /\ c <= L /\ i \in Nat /\ 1 <= i
    BY <1>1, <1>5
  <2>1. c - 1 \in 0..L /\ c - 1 \notin S
    <3>1. c - 1 \in 0..L /\ ~(c <= c - 1)
      BY <2>0, <1>1, <1>6
    <3>2. QED
      BY <3>1, <1>5
  <2>2. PICK j \in 1..L : j > c - 1 /\ ~ where[rest[j]] > pos
    BY <2>1
  <2>3. i <= j /\ where[rest[i]] <= where[rest[j]] /\ where[rest[j]] <= pos
    BY <2>2, <1>2, <1>3, <1>4, <1>5, <1>6
  <2>4. QED
    BY <2>3, <1>2, <1>3
<1>7. c \in 0..L /\ Cut(c)
  <2>1. \A i \in 1..L : i > c => where[rest[i]] > pos
    BY <1>5
  <2>2. ASSUME NEW i \in 1..L PROVE i <= c <=> where[rest[i]] <= pos
    <3>1. CASE i <= c
      BY <3>1, <1>6
    <3>2. CASE i > c
      BY <3>2, <2>1, <1>2, <1>3, <1>5
    <3>3. QED
      BY <3>1, <3>2, <1>1, <1>5
  <2>3. QED
    BY <2>2, <1>5
<1> HIDE DEF S
<1>8. CutPoint(pos) \in 0..L /\ Cut(CutPoint(pos))
  BY <1>7 DEF CutPoint
<1>9. QED
  BY <1>8

\* A known span at p0 takes the first c of the comments that are left.
TakesOver(p0, c) ==
    /\ p0 \in Positions /\ todo[1] \in KnownSpans /\ todo[1].lo = p0 /\ Len(todo) \in Nat
    /\ Len(todo) >= 1
    /\ todo' \in Seq(KnownSpans) /\ Len(todo') = Len(todo) - 1
    /\ \A i \in 1..Len(todo') : todo'[i] = todo[i + 1]
    /\ c \in 0..Len(rest) /\ Len(rest) \in Nat /\ Len(rest) <= Len(where)
    /\ \A i \in 1..Len(rest) : rest[i] = Len(where) - Len(rest) + i
    /\ \A i \in 1..Len(rest) : i <= c <=> where[rest[i]] <= p0
    /\ rest' \in Seq(1..Len(where)) /\ Len(rest') = Len(rest) - c
    /\ \A i \in 1..Len(rest') : rest'[i] = rest[c + i]
    /\ leads' \in [Positions -> Seq(1..Len(where))]
    /\ \A p \in Positions : p # p0 => leads'[p] = leads[p]
    /\ Len(leads[p0]) \in Nat /\ Len(leads'[p0]) = Len(leads[p0]) + c
    /\ \A i \in 1..Len(leads[p0]) : leads'[p0][i] = leads[p0][i]
    /\ \A i \in 1..c : leads'[p0][Len(leads[p0]) + i] = rest[i]
    /\ UNCHANGED <<where, visited, next, known, phase, trail>>
    /\ phase = "leading" /\ todo # << >>

\* What the next known span does to the comments.
LEMMA LeadingEffects ==
    ASSUME CommentsInv, ShiftLeading
    PROVE  \E p0, c : TakesOver(p0, c)
<1>0. PICK p0 : p0 = Head(todo).lo
  OBVIOUS
<1>a. PICK c : c = CutPoint(p0)
  OBVIOUS
<1> DEFINE L == Len(rest)
           taken == SubSeq(rest, 1, c)
           n == Len(where)
<1>1. /\ CommentsTypeOK /\ phase = "leading" /\ todo # << >>
      /\ leads' = [leads EXCEPT ![p0] = @ \o taken]
      /\ rest' = SubSeq(rest, c + 1, L) /\ todo' = Tail(todo)
      /\ UNCHANGED <<where, visited, next, known, phase, trail>>
  BY <1>0, <1>a DEF ShiftLeading, CommentsInv
<1>2. /\ todo[1] \in KnownSpans /\ todo[1].lo = p0 /\ Len(todo) \in Nat /\ Len(todo) >= 1
      /\ todo' \in Seq(KnownSpans) /\ Len(todo') = Len(todo) - 1
      /\ \A i \in 1..Len(todo') : todo'[i] = todo[i + 1]
  <2>1. todo \in Seq(KnownSpans) /\ todo # << >>
    BY <1>1 DEF CommentsTypeOK
  <2>2. /\ Head(todo) = todo[1] /\ Len(todo) \in Nat /\ Len(todo) >= 1
        /\ Tail(todo) \in Seq(KnownSpans) /\ Len(Tail(todo)) = Len(todo) - 1
        /\ \A i \in 1..Len(Tail(todo)) : Tail(todo)[i] = todo[i + 1]
    BY <2>1, HeadTailProperties, LenProperties
  <2>3. todo[1] \in KnownSpans
    BY <2>1, <2>2, ElementOfSeq
  <2>4. QED
    BY <1>0, <1>1, <2>2, <2>3
<1>3. p0 \in Positions
  BY <1>2 DEF KnownSpans
<1>4. p0 \in Nat
  BY <1>3, CommentsAssumption DEF Positions
<1>5. c \in 0..L /\ \A i \in 1..L : i <= c <=> where[rest[i]] <= p0
  BY <1>a, <1>1, <1>4, CutPoints
<1>6. /\ L \in Nat /\ n \in Nat /\ L <= n /\ rest \in Seq(1..n)
      /\ \A i \in 1..L : rest[i] = n - L + i
  BY <1>1, LenProperties DEF CommentsInv, CommentsTypeOK, Left, Moved
<1>7. rest' \in Seq(1..n) /\ Len(rest') = L - c /\ \A i \in 1..Len(rest') : rest'[i] = rest[c + i]
  <2>1. c + 1 \in Int /\ L \in Int /\ \A i \in (c + 1)..L : rest[i] \in 1..n
    BY <1>5, <1>6
  <2>2. /\ SubSeq(rest, c + 1, L) \in Seq(1..n)
        /\ Len(SubSeq(rest, c + 1, L)) = IF c + 1 <= L THEN L - (c + 1) + 1 ELSE 0
        /\ \A i \in 1..(L - (c + 1) + 1) : SubSeq(rest, c + 1, L)[i] = rest[c + 1 + i - 1]
    BY <1>6, <2>1, SubSeqProperties
  <2>3. Len(rest') = L - c /\ rest' \in Seq(1..n)
    BY <1>1, <1>5, <1>6, <2>2
  <2>4. L - (c + 1) + 1 = L - c /\ \A i \in 1..(L - c) : c + 1 + i - 1 = c + i
    BY <1>5, <1>6
  <2>5. \A i \in 1..(L - c) : SubSeq(rest, c + 1, L)[i] = rest[c + i]
    BY <2>2, <2>4
  <2>6. QED
    BY <2>3, <2>5, <1>1
<1>8. taken \in Seq(1..n) /\ Len(taken) = c /\ \A i \in 1..c : taken[i] = rest[i]
  <2>1. 1 \in Int /\ c \in Int /\ \A i \in 1..c : rest[i] \in 1..n
    BY <1>5, <1>6
  <2>2. /\ SubSeq(rest, 1, c) \in Seq(1..n)
        /\ Len(SubSeq(rest, 1, c)) = IF 1 <= c THEN c - 1 + 1 ELSE 0
        /\ \A i \in 1..(c - 1 + 1) : SubSeq(rest, 1, c)[i] = rest[1 + i - 1]
    BY <1>6, <2>1, SubSeqProperties
  <2>3. Len(taken) = c /\ c - 1 + 1 = c /\ \A i \in 1..c : 1 + i - 1 = i
    BY <1>5, <1>6, <2>2
  <2>4. QED
    BY <2>2, <2>3
<1>9. leads \in [Positions -> Seq(1..n)] /\ leads[p0] \in Seq(1..n)
  BY <1>1, <1>3 DEF CommentsTypeOK
<1> HIDE DEF taken
<1>10. /\ leads[p0] \o taken \in Seq(1..n)
       /\ Len(leads[p0] \o taken) = Len(leads[p0]) + c /\ Len(leads[p0]) \in Nat
       /\ \A i \in 1..(Len(leads[p0]) + c) :
              (leads[p0] \o taken)[i] = IF i <= Len(leads[p0]) THEN leads[p0][i]
                                        ELSE taken[i - Len(leads[p0])]
  <2>1. Len(leads[p0]) \in Nat
    BY <1>9, LenProperties
  <2>2. leads[p0] \o taken \in Seq(1..n) /\ Len(leads[p0] \o taken) = Len(leads[p0]) + Len(taken)
        /\ \A i \in 1..(Len(leads[p0]) + Len(taken)) :
              (leads[p0] \o taken)[i] = IF i <= Len(leads[p0]) THEN leads[p0][i]
                                        ELSE taken[i - Len(leads[p0])]
    BY <1>8, <1>9, ConcatProperties
  <2>3. QED
    BY <2>1, <2>2, <1>8
<1>11. leads' \in [Positions -> Seq(1..n)] /\ leads'[p0] = leads[p0] \o taken
       /\ \A p \in Positions : p # p0 => leads'[p] = leads[p]
  BY <1>1, <1>3, <1>9, <1>10
<1>12. \A i \in 1..Len(leads[p0]) : leads'[p0][i] = leads[p0][i]
  BY <1>5, <1>6, <1>10, <1>11
<1>13. ASSUME NEW i \in 1..c PROVE leads'[p0][Len(leads[p0]) + i] = rest[i]
  <2>1. /\ Len(leads[p0]) + i \in 1..(Len(leads[p0]) + c) /\ ~(Len(leads[p0]) + i <= Len(leads[p0]))
        /\ Len(leads[p0]) + i - Len(leads[p0]) = i
    <3>1. i \in Nat /\ i >= 1 /\ i <= c /\ Len(leads[p0]) \in Nat /\ c \in Nat
      BY <1>5, <1>6, <1>10
    <3>2. QED
      BY <3>1
  <2>2. QED
    BY <2>1, <1>8, <1>10, <1>11
<1>14. Len(leads'[p0]) = Len(leads[p0]) + c /\ Len(leads[p0]) \in Nat
  BY <1>10, <1>11
<1>15. TakesOver(p0, c)
  BY <1>1, <1>2, <1>3, <1>5, <1>6, <1>7, <1>11, <1>12, <1>13, <1>14 DEF TakesOver
<1>16. QED
  BY <1>15

\* The next known span takes the comments up to its start.
LEMMA StepShiftLeading ==
    ASSUME CommentsInv, ShiftLeading
    PROVE  CommentsInv'
<1>0. PICK p0, c : TakesOver(p0, c)
  BY LeadingEffects
<1>b. /\ p0 \in Positions /\ todo[1] \in KnownSpans /\ todo[1].lo = p0 /\ Len(todo) \in Nat
      /\ Len(todo) >= 1
      /\ todo' \in Seq(KnownSpans) /\ Len(todo') = Len(todo) - 1
      /\ \A i \in 1..Len(todo') : todo'[i] = todo[i + 1]
      /\ c \in 0..Len(rest) /\ Len(rest) \in Nat /\ Len(rest) <= Len(where)
      /\ \A i \in 1..Len(rest) : rest[i] = Len(where) - Len(rest) + i
      /\ \A i \in 1..Len(rest) : i <= c <=> where[rest[i]] <= p0
      /\ rest' \in Seq(1..Len(where)) /\ Len(rest') = Len(rest) - c
      /\ \A i \in 1..Len(rest') : rest'[i] = rest[c + i]
      /\ leads' \in [Positions -> Seq(1..Len(where))]
      /\ \A p \in Positions : p # p0 => leads'[p] = leads[p]
      /\ Len(leads[p0]) \in Nat /\ Len(leads'[p0]) = Len(leads[p0]) + c
      /\ \A i \in 1..Len(leads[p0]) : leads'[p0][i] = leads[p0][i]
      /\ \A i \in 1..c : leads'[p0][Len(leads[p0]) + i] = rest[i]
      /\ UNCHANGED <<where, visited, next, known, phase, trail>>
      /\ phase = "leading" /\ todo # << >>
  BY <1>0 DEF TakesOver
<1>c. Len(where) \in Nat
  BY LenProperties DEF CommentsInv, CommentsTypeOK
<1> DEFINE n == Len(where)
           L == Len(rest)
           M == n - L
<1>1. /\ p0 \in Positions /\ todo[1] \in KnownSpans /\ todo[1].lo = p0 /\ Len(todo) \in Nat
      /\ Len(todo) >= 1
      /\ todo' \in Seq(KnownSpans) /\ Len(todo') = Len(todo) - 1
      /\ \A i \in 1..Len(todo') : todo'[i] = todo[i + 1]
  BY <1>b
<1>2. /\ \A i \in 1..L : rest[i] = M + i
      /\ \A i \in 1..L : i <= c <=> where[rest[i]] <= p0
      /\ rest' \in Seq(1..n) /\ Len(rest') = L - c
      /\ \A i \in 1..Len(rest') : rest'[i] = rest[c + i]
  BY <1>b
<1>3. /\ leads' \in [Positions -> Seq(1..n)]
      /\ \A p \in Positions : p # p0 => leads'[p] = leads[p]
      /\ Len(leads[p0]) \in Nat /\ Len(leads'[p0]) = Len(leads[p0]) + c
      /\ \A i \in 1..Len(leads[p0]) : leads'[p0][i] = leads[p0][i]
      /\ \A i \in 1..c : leads'[p0][Len(leads[p0]) + i] = rest[i]
  BY <1>b
<1>4. UNCHANGED <<where, visited, next, known, phase, trail>> /\ phase = "leading" /\ todo # << >>
  BY <1>b
<1>d. c \in Nat /\ L \in Nat /\ n \in Nat /\ M \in Nat /\ c <= L /\ L <= n /\ M = n - L
  BY <1>b, <1>c
<1>e. Left = rest /\ Moved = M /\ Left' = rest' /\ Moved' = n - Len(rest')
  BY <1>4 DEF Left, Moved
<1>f. Len(where') = n /\ 1..Len(where) = 1..n
  BY <1>4
<1>5. CommentsTypeOK
  BY DEF CommentsInv
<1>6. CommentsTypeOK'
  BY <1>1, <1>2, <1>3, <1>4, <1>5 DEF CommentsTypeOK
<1>g. where \in Seq(Positions) /\ \A k \in 1..n : where[k] \in Nat
  <2>1. where \in Seq(Positions) /\ Positions \subseteq Nat
    BY <1>5, CommentsAssumption DEF CommentsTypeOK, Positions
  <2>2. QED
    BY <2>1, ElementOfSeq
<1>18. \A p \in Positions : leads[p] \in Seq(1..n) /\ Len(leads[p]) \in Nat
  BY <1>5, LenProperties DEF CommentsTypeOK
<1>11. TodoInv /\ LeadsInv
  BY <1>4 DEF CommentsInv
<1> HIDE DEF n, L, M
<1>8. Left = rest /\ Moved = M /\ Left' = rest' /\ Moved' = M + c /\ M \in Nat /\ M <= n
  BY <1>2, <1>d, <1>e
<1>9. Len(Left') <= n /\ \A i \in 1..Len(Left') : Left'[i] = Moved' + i
  <2>1. ASSUME NEW i \in 1..(L - c) PROVE rest'[i] = M + c + i
    <3>1. i \in 1..Len(rest') /\ c + i \in 1..L /\ M + (c + i) = M + c + i
      BY <1>2, <1>d
    <3>2. QED
      BY <3>1, <1>2
  <2>2. L - c <= n
    BY <1>d
  <2>3. QED
    BY <2>1, <2>2, <1>2, <1>8
<1>10. \A s : IsKnown(s)' <=> IsKnown(s)
  BY <1>4 DEF IsKnown
<1>12. ASSUME NEW k \in (M + 1)..(M + c) PROVE where[k] <= p0 /\ k \in 1..n /\ k > Moved
  <2>0. k - M \in 1..L /\ k - M <= c /\ M + (k - M) = k /\ k \in 1..n /\ k > M
    BY <1>d
  <2>1. rest[k - M] = k
    BY <2>0, <1>2
  <2>2. QED
    BY <2>0, <2>1, <1>2, <1>8
<1>13. ASSUME NEW k \in (M + c + 1)..n PROVE where[k] > p0
  <2>0. k - M \in 1..L /\ ~(k - M <= c) /\ M + (k - M) = k /\ k \in 1..n
    BY <1>d
  <2>1. rest[k - M] = k
    BY <2>0, <1>2
  <2>2. ~(where[k] <= p0)
    BY <2>0, <2>1, <1>2
  <2>3. where[k] \in Nat /\ p0 \in Nat
    BY <2>0, <1>g, <1>1, CommentsAssumption DEF Positions
  <2>4. QED
    BY <2>2, <2>3
<1>14. \A i \in 1..Len(todo) : p0 <= todo[i].lo
  <2>1. \A i, j \in 1..Len(todo) : i < j => todo[i].lo <= todo[j].lo
    BY <1>11 DEF TodoInv
  <2>2. p0 \in Nat
    BY <1>1, CommentsAssumption DEF Positions
  <2>3. ASSUME NEW i \in 1..Len(todo) PROVE p0 <= todo[i].lo
    <3>1. CASE i = 1
      BY <3>1, <1>1, <2>2
    <3>2. CASE i # 1
      BY <3>2, <1>1, <2>1
    <3>3. QED
      BY <3>1, <3>2
  <2>4. QED
    BY <2>3
<1>15. TodoInv'
  <2>1. ASSUME NEW i \in 1..Len(todo'), NEW j \in 1..Len(todo'), i < j
        PROVE  todo'[i].lo <= todo'[j].lo
    <3>1. i + 1 \in 1..Len(todo) /\ j + 1 \in 1..Len(todo) /\ i + 1 < j + 1
      BY <2>1, <1>1
    <3>2. todo[i + 1].lo <= todo[j + 1].lo
      BY <3>1, <1>11 DEF TodoInv
    <3>3. QED
      BY <3>2, <1>1
  <2>2. ASSUME NEW i \in 1..Len(todo') PROVE \E j \in 1..Len(known') : known'[j] = todo'[i]
    <3>1. i + 1 \in 1..Len(todo) /\ todo'[i] = todo[i + 1]
      BY <1>1
    <3>2. IsKnown(todo[i + 1])
      BY <3>1, <1>11 DEF TodoInv
    <3>3. QED
      BY <3>1, <3>2, <1>4 DEF IsKnown
  <2>3. ASSUME NEW s \in KnownSpans, IsKnown(s)'
        PROVE  Passed(s)' \/ \E i \in 1..Len(todo') : todo'[i] = s
    <3>1. CASE Passed(s)
      <4>1. \A k \in 1..n : k > M + c => k > M
        BY <1>d
      <4>2. \A k \in 1..n : k > M + c => where[k] > s.lo
        BY <3>1, <4>1, <1>8, <1>f DEF Passed
      <4>3. QED
        BY <4>2, <1>4, <1>8, <1>f DEF Passed
    <3>2. CASE \E i \in 1..Len(todo) : todo[i] = s
      <4>1. PICK i \in 1..Len(todo) : todo[i] = s
        BY <3>2
      <4>2. CASE i = 1
        <5>1. s.lo = p0
          BY <4>1, <4>2, <1>1
        <5>2. \A k \in 1..n : k > M + c => k \in (M + c + 1)..n
          BY <1>d
        <5>3. \A k \in 1..n : k > M + c => where[k] > s.lo
          BY <5>1, <5>2, <1>13
        <5>4. QED
          BY <5>3, <1>4, <1>8, <1>f DEF Passed
      <4>3. CASE i # 1
        <5>1. i - 1 \in 1..Len(todo') /\ (i - 1) + 1 = i
          BY <4>3, <1>1
        <5>2. QED
          BY <5>1, <4>1, <1>1
      <4>4. QED
        BY <4>2, <4>3
    <3>3. QED
      BY <3>1, <3>2, <2>3, <1>10, <1>11 DEF TodoInv
  <2>4. QED
    BY <2>1, <2>2, <2>3 DEF TodoInv, IsKnown
<1>16. ASSUME NEW k, NEW p PROVE Near(k, p)' <=> Near(k, p)
  BY <1>4, <1>10 DEF Near
<1>17. ASSUME NEW k \in 1..(M + c)
       PROVE  \E p \in Positions : (\E i \in 1..Len(leads'[p]) : leads'[p][i] = k) /\ Near(k, p)
  <2>1. CASE k <= M
    <3>1. PICK p \in Positions : In(k, leads[p]) /\ Near(k, p)
      BY <2>1, <1>8, <1>11 DEF LeadsInv
    <3>2. leads[p] \in Seq(1..n)
      BY <1>18
    <3>3. PICK i \in 1..Len(leads[p]) : leads[p][i] = k
      BY <3>1, <3>2, LenProperties DEF In
    <3>4. i \in 1..Len(leads'[p]) /\ leads'[p][i] = k
      <4>1. CASE p = p0
        <5>1. /\ Len(leads[p0]) \in Nat /\ Len(leads'[p0]) = Len(leads[p0]) + c
              /\ i \in 1..Len(leads[p0])
          BY <4>1, <3>3, <1>3
        <5>2. i \in 1..Len(leads'[p0])
          BY <5>1, <1>d
        <5>3. leads'[p0][i] = leads[p0][i]
          BY <5>1, <1>3
        <5>4. QED
          BY <4>1, <5>2, <5>3, <3>3
      <4>2. CASE p # p0
        BY <4>2, <3>3, <1>3
      <4>3. QED
        BY <4>1, <4>2
    <3>5. QED
      BY <3>1, <3>4
  <2>2. CASE k > M
    <3>1. k \in (M + 1)..(M + c) /\ k - M \in 1..c /\ k - M \in 1..L
      BY <2>2, <1>d
    <3>a. M + (k - M) = k
      BY <1>d
    <3>2. rest[k - M] = k
      BY <3>1, <3>a, <1>2
    <3>c. Len(leads[p0]) \in Nat /\ Len(leads'[p0]) = Len(leads[p0]) + c
      BY <1>3
    <3>d. \A l \in Nat : l + (k - M) \in 1..(l + c)
      BY <3>1, <1>d
    <3>b. Len(leads[p0]) + (k - M) \in 1..Len(leads'[p0])
      BY <3>c, <3>d
    <3>3. /\ Len(leads[p0]) + (k - M) \in 1..Len(leads'[p0])
          /\ leads'[p0][Len(leads[p0]) + (k - M)] = k
      BY <3>1, <3>2, <3>b, <1>3
    <3>4. ASSUME NEW s \in KnownSpans, IsKnown(s), where[k] <= s.lo PROVE p0 <= s.lo
      <4>1. where[k] \in Nat /\ s.lo \in Nat /\ k \in 1..n /\ k > Moved
        <5>1. k \in 1..n /\ k > Moved
          BY <3>1, <1>12
        <5>3. s.lo \in Nat
          BY CommentsAssumption DEF KnownSpans, Positions
        <5>4. QED
          BY <5>1, <5>3, <1>g
      <4>2. ~Passed(s)
        BY <4>1, <3>4, <1>f DEF Passed
      <4>3. PICK i \in 1..Len(todo) : todo[i] = s
        BY <4>2, <3>4, <1>11 DEF TodoInv
      <4>4. QED
        BY <4>3, <1>14
    <3>5. IsKnown(todo[1])
      <4>1. 1 \in 1..Len(todo)
        BY <1>1
      <4>2. QED
        BY <4>1, <1>11 DEF TodoInv
    <3>6. Near(k, p0)
      BY <3>1, <3>4, <3>5, <1>1, <1>12 DEF Near
    <3>7. QED
      BY <3>3, <3>6, <1>1
  <2>3. QED
    BY <2>1, <2>2, <1>d
\* What is taken is behind what was there.
<1>19. ASSUME NEW p \in Positions, NEW i \in 1..Len(leads'[p])
       PROVE  \/ i \in 1..Len(leads[p]) /\ leads'[p][i] = leads[p][i] /\ leads[p][i] \in Nat
                   /\ leads[p][i] <= M
              \/ p = p0 /\ i > Len(leads[p]) /\ i - Len(leads[p]) \in 1..c
                   /\ leads'[p][i] = M + (i - Len(leads[p]))
  <2>1. ASSUME i \in 1..Len(leads[p]) PROVE leads[p][i] \in Nat /\ leads[p][i] <= M
    <3>1. leads[p][i] \in 1..n
      BY <2>1, <1>18, ElementOfSeq
    <3>2. leads[p][i] <= M
      BY <2>1, <1>8, <1>11 DEF LeadsInv
    <3>3. QED
      BY <3>1, <3>2
  <2>2. CASE p # p0
    BY <2>1, <2>2, <1>3
  <2>3. CASE p = p0 /\ i <= Len(leads[p])
    <3>1. i \in 1..Len(leads[p])
      BY <2>3, <1>3, <1>d
    <3>2. QED
      BY <3>1, <2>1, <2>3, <1>3
  <2>4. CASE p = p0 /\ ~(i <= Len(leads[p]))
    <3>1. /\ i - Len(leads[p]) \in 1..c /\ Len(leads[p]) + (i - Len(leads[p])) = i
          /\ i - Len(leads[p]) \in 1..L /\ i > Len(leads[p])
      <4>1. /\ Len(leads[p0]) \in Nat /\ Len(leads'[p0]) = Len(leads[p0]) + c
            /\ i \in 1..Len(leads'[p0]) /\ ~(i <= Len(leads[p0]))
        BY <2>4, <1>3
      <4>2. \A a \in Nat : \A j \in 1..(a + c) : ~(j <= a) =>
              j - a \in 1..c /\ a + (j - a) = j /\ j - a \in 1..L /\ j > a
        BY <1>d
      <4>3. QED
        BY <4>1, <4>2, <2>4
    <3>2. leads'[p][i] = rest[i - Len(leads[p])]
      BY <2>4, <3>1, <1>3
    <3>3. QED
      BY <2>4, <3>1, <3>2, <1>2
  <2>5. QED
    BY <2>2, <2>3, <2>4
<1>20. \A p \in Positions : \A i \in 1..Len(leads'[p]) : leads'[p][i] <= M + c
  <2>1. ASSUME NEW p \in Positions, NEW i \in 1..Len(leads'[p]) PROVE leads'[p][i] <= M + c
    <3>0. /\ \A a \in Nat : a <= M => a <= M + c
          /\ \A a \in 1..c : M + a <= M + c
      BY <1>d
    <3>1. CASE i \in 1..Len(leads[p]) /\ leads'[p][i] = leads[p][i] /\ leads[p][i] \in Nat
                 /\ leads[p][i] <= M
      BY <3>1, <3>0
    <3>2. CASE i - Len(leads[p]) \in 1..c /\ leads'[p][i] = M + (i - Len(leads[p]))
      BY <3>2, <3>0
    <3>3. QED
      BY <3>1, <3>2, <1>19
  <2>2. QED
    BY <2>1
<1>21. ASSUME NEW p \in Positions, leads'[p] # << >>, NEW i \in 1..Len(todo')
       PROVE  p <= todo'[i].lo
  <2>1. i + 1 \in 1..Len(todo) /\ todo'[i] = todo[i + 1]
    BY <1>1
  <2>2. CASE p = p0
    BY <2>1, <2>2, <1>14
  <2>3. CASE p # p0
    <3>1. leads[p] # << >>
      BY <2>3, <1>3, <1>21
    <3>2. QED
      BY <3>1, <2>1, <1>11 DEF LeadsInv
  <2>4. QED
    BY <2>2, <2>3
<1>22. ASSUME NEW p \in Positions, NEW q \in Positions, NEW i \in 1..Len(leads'[p]),
              NEW j \in 1..Len(leads'[q]), p < q \/ (p = q /\ i < j)
       PROVE  leads'[p][i] < leads'[q][j]
  <2>0. p \in Nat /\ q \in Nat /\ p0 \in Nat
    BY <1>1, CommentsAssumption DEF Positions
  <2> DEFINE OldP == i \in 1..Len(leads[p]) /\ leads'[p][i] = leads[p][i] /\ leads[p][i] \in Nat
                       /\ leads[p][i] <= M
             NewP == p = p0 /\ i > Len(leads[p]) /\ i - Len(leads[p]) \in 1..c
                       /\ leads'[p][i] = M + (i - Len(leads[p]))
             OldQ == j \in 1..Len(leads[q]) /\ leads'[q][j] = leads[q][j] /\ leads[q][j] \in Nat
                       /\ leads[q][j] <= M
             NewQ == q = p0 /\ j > Len(leads[q]) /\ j - Len(leads[q]) \in 1..c
                       /\ leads'[q][j] = M + (j - Len(leads[q]))
  <2>1. (OldP \/ NewP) /\ (OldQ \/ NewQ)
    BY <1>19
  <2>2. CASE OldP /\ OldQ
    <3>1. leads[p][i] < leads[q][j]
      BY <2>2, <1>11, <1>22 DEF LeadsInv
    <3>2. QED
      BY <3>1, <2>2
  <2>3. CASE OldP /\ NewQ
    BY <2>3, <1>d
  <2>4. CASE NewP /\ NewQ
    <3>1. p = q /\ i < j
      BY <2>0, <2>4, <1>22
    <3>2. Len(leads[p]) \in Nat
      BY <1>18
    <3>a. i \in Int /\ j \in Int
      OBVIOUS
    <3>b. \A l \in Nat : M + (i - l) < M + (j - l)
      BY <3>1, <3>a, <1>d
    <3>3. M + (i - Len(leads[p])) < M + (j - Len(leads[p]))
      BY <3>2, <3>b
    <3>4. QED
      BY <3>1, <3>3, <2>4
  <2>5. CASE NewP /\ OldQ
    <3>1. p # q
      <4>1. SUFFICES ASSUME p = q PROVE FALSE
        OBVIOUS
      <4>2. i < j /\ Len(leads[p]) \in Nat
        BY <4>1, <2>0, <1>18, <1>22
      <4>3. QED
        BY <4>1, <4>2, <2>5
    <3>2. leads[q] # << >>
      BY <2>5, EmptySeq
    <3>3. 1 \in 1..Len(todo)
      BY <1>1
    <3>4. q <= todo[1].lo
      BY <3>2, <3>3, <1>11 DEF LeadsInv
    <3>5. QED
      BY <3>1, <3>4, <2>0, <2>5, <1>1, <1>22
  <2>6. QED
    BY <2>1, <2>2, <2>3, <2>4, <2>5
<1>23. LeadsInv'
  <2>1. \A k \in 1..Moved' : \E p \in Positions : In(k, leads'[p]) /\ Near(k, p)'
    <3>1. ASSUME NEW k \in 1..Moved' PROVE \E p \in Positions : In(k, leads'[p]) /\ Near(k, p)'
      <4>1. PICK p \in Positions : (\E i \in 1..Len(leads'[p]) : leads'[p][i] = k) /\ Near(k, p)
        BY <1>8, <1>17
      <4>2. leads'[p] \in Seq(1..n)
        BY <1>3
      <4>3. In(k, leads'[p])
        BY <4>1, <4>2, LenProperties DEF In
      <4>4. QED
        BY <4>1, <4>3, <1>16
    <3>2. QED
      BY <3>1
  <2>2. QED
    BY <2>1, <1>8, <1>20, <1>21, <1>22 DEF LeadsInv
<1>24. /\ \A i, j \in 1..Len(where') : i <= j => where'[i] <= where'[j]
       /\ \A s \in KnownSpans : IsKnown(s)' <=> \E k \in 2..(next' - 1) : visited'[k] = s
       /\ next' = Len(visited') + 1
  BY <1>4, <1>10 DEF CommentsInv
<1>25. QED
  BY <1>4, <1>6, <1>9, <1>15, <1>23, <1>24, <1>f DEF CommentsInv

\* What is left goes behind the known span that ends last.
LEMMA StepShiftTrailing ==
    ASSUME CommentsInv, ShiftTrailing
    PROVE  CommentsInv'
<1>1. /\ CommentsTypeOK /\ phase = "leading" /\ todo = << >>
      /\ trail' = [at |-> LastEnd, comments |-> rest] /\ rest' = << >> /\ phase' = "done"
      /\ UNCHANGED <<where, visited, next, known, todo, leads>>
  BY DEF CommentsInv, ShiftTrailing
<1>2. known \in Seq(KnownSpans) /\ rest \in Seq(1..Len(where)) /\ Len(known) \in Nat
      /\ DOMAIN known = 1..Len(known)
  BY <1>1, LenProperties DEF CommentsTypeOK
<1> DEFINE ends == {known[i].hi : i \in DOMAIN known}
<1>3. \A s \in KnownSpans : s.hi \in Nat /\ s.hi <= MaxPos
  BY CommentsAssumption DEF KnownSpans, Positions
<1>4. \A i \in 1..Len(known) : known[i] \in KnownSpans
  BY <1>2, ElementOfSeq
<1>5. ends \subseteq Nat /\ \A e \in ends : e <= MaxPos
  BY <1>2, <1>3, <1>4
<1>6. /\ \A e \in ends : e <= LastEnd
      /\ ends # {} => LastEnd \in ends
      /\ LastEnd \in 0..MaxPos
  <2>1. CASE ends = {}
    <3>1. LastEnd = 0
      BY <2>1 DEF LastEnd, Dummy
    <3>2. QED
      BY <2>1, <3>1, CommentsAssumption
  <2>2. CASE ends # {}
    <3>1. PICK m \in ends : \A e \in ends : e <= m
      BY <1>5, <2>2, CommentsAssumption, GreatestOfNaturals
    <3>2. LastEnd = CHOOSE p \in ends : \A q \in ends : q <= p
      BY <2>2 DEF LastEnd
    <3> HIDE DEF ends
    <3>3. LastEnd \in ends /\ \A e \in ends : e <= LastEnd
      BY <3>1, <3>2
    <3>4. QED
      BY <3>3, <2>2, <1>5, CommentsAssumption
  <2>3. QED
    BY <2>1, <2>2
<1>7. \A s : IsKnown(s)' <=> IsKnown(s)
  BY <1>1 DEF IsKnown
<1>8. CommentsTypeOK'
  <2>1. << >> \in Seq(1..Len(where))
    BY EmptySeq
  <2>2. QED
    BY <1>1, <1>2, <1>6, <2>1 DEF CommentsTypeOK
<1>9. Left' = Left /\ Moved' = Moved
  BY <1>1 DEF Left, Moved
<1>10. TodoInv /\ LeadsInv
  BY <1>1 DEF CommentsInv
<1>11. TodoInv'
  BY <1>1, <1>7, <1>9, <1>10 DEF TodoInv, Passed, IsKnown
<1>12. \A k, p : Near(k, p)' <=> Near(k, p)
  BY <1>1, <1>7 DEF Near
<1>13. LeadsInv'
  <2>1. \A k \in 1..Moved' : \E p \in Positions : In(k, leads'[p]) /\ Near(k, p)'
    BY <1>1, <1>9, <1>10, <1>12 DEF LeadsInv
  <2>2. QED
    BY <1>1, <1>9, <1>10, <2>1 DEF LeadsInv
<1>14. TrailInv'
  <2>1. ASSUME NEW s \in KnownSpans, IsKnown(s)' PROVE s.hi <= trail'.at
    <3>1. PICK i \in 1..Len(known) : known[i] = s
      BY <2>1, <1>7 DEF IsKnown
    <3>2. s.hi \in ends
      BY <3>1, <1>2
    <3>3. QED
      BY <3>2, <1>1, <1>6
  <2>2. ASSUME known' # << >> PROVE \E s \in KnownSpans : IsKnown(s)' /\ s.hi = trail'.at
    <3>1. known # << >>
      BY <2>2, <1>1
    <3>2. Len(known) >= 1
      BY <3>1, <1>2, EmptySeq
    <3>a. 1 \in DOMAIN known
      BY <3>2, <1>2
    <3>b. known[1].hi \in ends
      BY <3>a
    <3>3. ends # {}
      BY <3>b
    <3>4. PICK i \in 1..Len(known) : known[i].hi = LastEnd
      BY <3>3, <1>2, <1>6
    <3>5. IsKnown(known[i])
      BY <3>4 DEF IsKnown
    <3>6. trail'.at = LastEnd
      BY <1>1
    <3>7. PICK s \in KnownSpans : s = known[i]
      BY <1>4, <3>4
    <3>8. IsKnown(s)' /\ s.hi = trail'.at
      BY <1>7, <3>4, <3>5, <3>6, <3>7
    <3>9. QED
      BY <3>8
  <2>3. todo' = << >>
    BY <1>1
  <2>4. QED
    BY <2>1, <2>2, <2>3 DEF TrailInv
<1>15. /\ \A i, j \in 1..Len(where') : i <= j => where'[i] <= where'[j]
       /\ \A s \in KnownSpans : IsKnown(s)' <=> \E k \in 2..(next' - 1) : visited'[k] = s
       /\ next' = Len(visited') + 1
  BY <1>1, <1>7 DEF CommentsInv
<1>16. Len(Left') <= Len(where') /\ \A i \in 1..Len(Left') : Left'[i] = Moved' + i
  BY <1>1, <1>9 DEF CommentsInv
<1>17. QED
  BY <1>1, <1>8, <1>11, <1>13, <1>14, <1>15, <1>16 DEF CommentsInv

\* The pass, and a pass that waits.
LEMMA CommentsInvariant ==
    ASSUME CommentsInv, CommentsNext \/ UNCHANGED commentVars
    PROVE  CommentsInv'
<1>1. CASE CommentsNext
  BY <1>1, StepVisit, StepCollect, StepShiftLeading, StepShiftTrailing DEF CommentsNext
<1>2. CASE UNCHANGED commentVars
  <2>1. UNCHANGED <<where, visited, next, known, todo, phase, rest, leads, trail>>
    BY <1>2 DEF commentVars
  <2>2. CommentsTypeOK'
    BY <2>1 DEF CommentsTypeOK, CommentsInv
  <2>3. Left' = Left /\ Moved' = Moved /\ \A s : IsKnown(s)' <=> IsKnown(s)
    BY <2>1 DEF Left, Moved, IsKnown
  <2>4. TodoInv' <=> TodoInv
    BY <2>1, <2>3 DEF TodoInv, Passed, IsKnown
  <2>5. \A k, p : Near(k, p)' <=> Near(k, p)
    BY <2>1, <2>3 DEF Near
  <2>6. LeadsInv' <=> LeadsInv
    BY <2>1, <2>3, <2>5 DEF LeadsInv
  <2>7. TrailInv' <=> TrailInv
    BY <2>1, <2>3 DEF TrailInv
  <2>8. QED
    BY <2>1, <2>2, <2>3, <2>4, <2>6, <2>7 DEF CommentsInv
<1>3. QED
  BY <1>1, <1>2

\* Every comment is where its node was, or close to it, in the source's order.
LEMMA CommentsSound ==
    ASSUME CommentsInv
    PROVE  CommentsKept
<1> DEFINE n == Len(where)
           M == Moved
           last == MaxPos + 1
<1>1. SUFFICES ASSUME phase = "done", Known # {}
               PROVE  CommentsKept
  BY DEF CommentsKept
<1>2. /\ CommentsTypeOK /\ TodoInv /\ LeadsInv /\ TrailInv /\ next = Len(visited) + 1
      /\ Left = trail.comments /\ Len(Left) <= n /\ \A i \in 1..Len(Left) : Left[i] = M + i
      /\ \A s \in KnownSpans : IsKnown(s) <=> \E k \in 2..(next - 1) : visited[k] = s
  BY <1>1 DEF CommentsInv, Left
<1>3. /\ n \in Nat /\ Len(Left) \in Nat /\ M = n - Len(Left) /\ M \in Nat /\ Len(visited) \in Nat
      /\ trail.comments \in Seq(1..n)
  <2>1. n \in Nat /\ Left \in Seq(1..n) /\ Len(visited) \in Nat /\ trail.comments \in Seq(1..n)
    BY <1>2, LenProperties DEF CommentsTypeOK
  <2>2. Len(Left) \in Nat /\ Moved = n - Len(Left)
    BY <2>1, LenProperties DEF Moved
  <2>3. QED
    BY <1>2, <2>1, <2>2
<1>4. \A k \in 1..n : where[k] \in Nat
  <2>1. where \in Seq(Positions) /\ Positions \subseteq Nat
    BY <1>2, CommentsAssumption DEF CommentsTypeOK, Positions
  <2>2. QED
    BY <2>1, ElementOfSeq
<1>5. \A s : s \in Known <=> s \in KnownSpans /\ IsKnown(s)
  <2>1. next - 1 = Len(visited)
    BY <1>2, <1>3
  <2>2. \A k \in 2..Len(visited) : visited[k] \in Spans
    BY <1>2, <1>3, ElementOfSeq DEF CommentsTypeOK
  <2>3. \A s \in KnownSpans : s # Dummy
    BY CommentsAssumption DEF KnownSpans, Dummy, Positions
  <2>4. \A s \in KnownSpans : IsKnown(s) <=> \E k \in 2..Len(visited) : visited[k] = s
    BY <2>1, <1>2
  <2>5. QED
    BY <2>2, <2>3, <2>4 DEF Known, Spans
<1>6. \A s \in Known : s.lo \in Nat /\ s.hi \in Nat /\ s.lo \in Positions
  BY <1>5, CommentsAssumption DEF KnownSpans, Positions
<1>7. /\ last \in Places /\ last \notin Positions
      /\ \A p \in Places : p \in Positions \/ p = last
      /\ \A p \in Positions : p \in Places /\ p < last /\ p \in Nat
      /\ last \in Nat
  BY CommentsAssumption DEF Places, Positions
<1>8. Pile(last) = trail.comments /\ \A p \in Positions : Pile(p) = leads[p]
  BY <1>7 DEF Pile
<1>9. \A p \in Positions : leads[p] \in Seq(1..n) /\ DOMAIN leads[p] = 1..Len(leads[p])
  BY <1>2, LenProperties DEF CommentsTypeOK
<1>10. DOMAIN trail.comments = 1..Len(Left) /\ Len(trail.comments) = Len(Left)
  BY <1>2, <1>3, LenProperties
<1> HIDE DEF n, M, last
<1>11. ASSUME NEW k \in 1..n, k > M PROVE In(k, trail.comments)
  <2>1. k - M \in 1..Len(Left) /\ M + (k - M) = k
    BY <1>3, <1>11
  <2>2. QED
    BY <2>1, <1>2, <1>10 DEF In
<1>12. ASSUME NEW k \in 1..n, ~(k > M) PROVE \E p \in Positions : In(k, leads[p]) /\ Near(k, p)
  <2>1. k \in 1..M
    BY <1>3, <1>12
  <2>2. QED
    BY <2>1, <1>2 DEF LeadsInv, M
<1>13. \A k \in 1..n : \E p \in Places : In(k, Pile(p))
  BY <1>7, <1>8, <1>11, <1>12
<1>14. ASSUME NEW p \in Places, NEW q \in Places, NEW i \in DOMAIN Pile(p),
              NEW j \in DOMAIN Pile(q),
              p < q \/ (p = q /\ i < j)
       PROVE  Pile(p)[i] < Pile(q)[j]
  <2>1. CASE p \in Positions /\ q \in Positions
    <3>1. i \in 1..Len(leads[p]) /\ j \in 1..Len(leads[q])
      BY <2>1, <1>8, <1>9
    <3>2. leads[p][i] < leads[q][j]
      BY <2>1, <3>1, <1>2, <1>14 DEF LeadsInv
    <3>3. QED
      BY <2>1, <3>2, <1>8
  <2>2. CASE p \in Positions /\ q = last
    <3>1. i \in 1..Len(leads[p]) /\ j \in 1..Len(Left) /\ leads[p] \in Seq(1..n)
      BY <2>2, <1>8, <1>9, <1>10
    <3>2. leads[p][i] <= M
      BY <2>2, <3>1, <1>2 DEF LeadsInv, M
    <3>3. leads[p][i] \in 1..n
      BY <3>1, ElementOfSeq
    <3>4. trail.comments[j] = M + j
      BY <3>1, <1>2
    <3>5. \A a \in 1..n : a <= M => a < M + j
      BY <3>1, <1>3
    <3>6. leads[p][i] < trail.comments[j]
      BY <3>2, <3>3, <3>4, <3>5
    <3>7. QED
      BY <2>2, <3>6, <1>8
  <2>3. CASE p = last /\ q = last
    <3>1. i \in 1..Len(Left) /\ j \in 1..Len(Left)
      BY <2>3, <1>8, <1>10
    <3>a. ~(last < last)
      BY <1>7
    <3>2. i < j
      BY <2>3, <3>a, <1>14
    <3>3. trail.comments[i] = M + i /\ trail.comments[j] = M + j
      BY <3>1, <1>2
    <3>4. QED
      BY <2>3, <3>1, <3>2, <3>3, <1>3, <1>8
  <2>4. ~(p = last /\ q \in Positions)
    <3>1. SUFFICES ASSUME p = last, q \in Positions PROVE FALSE
      OBVIOUS
    <3>2. q < last /\ q \in Nat /\ last \in Nat
      BY <3>1, <1>7
    <3>3. QED
      BY <3>1, <3>2, <1>14
  <2>5. QED
    BY <2>1, <2>2, <2>3, <2>4, <1>7
<1>15. ASSUME NEW k \in 1..n
       PROVE  LET later == {s.lo : s \in {t \in Known : t.lo >= where[k]}} IN
              IF later = {} THEN In(k, trail.comments) /\ \E s \in Known : s.hi = trail.at
              ELSE \A p \in later : (\A q \in later : p <= q) => In(k, leads[p])
  <2> DEFINE later == {s.lo : s \in {t \in Known : t.lo >= where[k]}}
  <2>1. \A p : p \in later <=> \E s \in Known : s.lo = p /\ where[k] <= s.lo
    BY <1>4, <1>6
  <2>2. CASE later = {}
    <3>1. k > M
      <4>1. SUFFICES ASSUME ~(k > M) PROVE FALSE
        OBVIOUS
      <4>2. PICK p \in Positions : Near(k, p)
        BY <4>1, <1>12
      <4>3. PICK s \in KnownSpans : IsKnown(s) /\ s.lo = p /\ where[k] <= s.lo
        BY <4>2 DEF Near
      <4>4. QED
        BY <4>3, <2>1, <2>2, <1>5
    <3>2. known # << >>
      <4>1. PICK s : s \in KnownSpans /\ IsKnown(s)
        BY <1>1, <1>5
      <4>2. QED
        BY <4>1, EmptySeq DEF IsKnown
    <3>3. \E s \in Known : s.hi = trail.at
      BY <3>2, <1>2, <1>5 DEF TrailInv
    <3>4. QED
      BY <2>2, <3>1, <3>3, <1>11
  <2>3. CASE later # {}
    <3>1. ASSUME NEW p \in later, \A q \in later : p <= q PROVE In(k, leads[p])
      <4>1. PICK s \in Known : s.lo = p /\ where[k] <= s.lo
        BY <2>1, <3>1
      <4>2. ~(k > M)
        <5>1. SUFFICES ASSUME k > M PROVE FALSE
          OBVIOUS
        <5>2. Passed(s)
          <6>1. todo = << >> /\ s \in KnownSpans /\ IsKnown(s)
            BY <4>1, <1>2, <1>5 DEF TrailInv
          <6>2. QED
            BY <6>1, <1>2, EmptySeq DEF TodoInv
        <5>3. where[k] > s.lo
          BY <5>1, <5>2 DEF Passed, n, M
        <5>4. QED
          BY <4>1, <5>3, <1>4, <1>6
      <4>3. PICK q \in Positions : In(k, leads[q]) /\ Near(k, q)
        BY <4>2, <1>12
      <4>4. q \in later /\ q <= p
        <5>1. PICK t \in KnownSpans : IsKnown(t) /\ t.lo = q /\ where[k] <= t.lo
          BY <4>3 DEF Near
        <5>2. q <= p
          BY <4>1, <4>3, <1>5 DEF Near
        <5>3. QED
          BY <5>1, <5>2, <2>1, <1>5
      <4>5. p = q
        <5>1. p <= q /\ p \in Nat /\ q \in Nat
          BY <3>1, <4>1, <4>4, <1>6, <1>7
        <5>2. QED
          BY <5>1, <4>4
      <4>6. QED
        BY <4>3, <4>5
    <3>2. QED
      BY <2>3, <3>1
  <2>4. QED
    BY <2>2, <2>3
<1>16. \A s \in Known : s.hi <= trail.at
  BY <1>2, <1>5 DEF TrailInv
<1>17. QED
  BY <1>13, <1>14, <1>15, <1>16 DEF CommentsKept, n

-----------------------------------------------------------------------------
(* What compilations share.                                                  *)

\* Where a compilation can be.
Spots == Statics \union {"idle", "plugins", "apply"}

\* The statics a compilation is through with.
Through ==
  [idle |-> {}, envs |-> {}, exprs |-> {"envs"}, globals |-> {"envs", "exprs"},
   resolver |-> {"envs", "exprs", "globals"}, plugins |-> Statics, apply |-> Statics]

\* The types of the caches, and of what each compilation has.
CachesTypeOK ==
    /\ wasm \in BOOLEAN /\ environ \in seen
    /\ DOMAIN job = Compilers /\ job = [c \in Compilers |-> job[c]]
    /\ spot \in [Compilers -> Spots] /\ missed \in [Compilers -> BOOLEAN]
    /\ cache = [s \in Statics |-> cache[s]]
    /\ got = [c \in Compilers |-> [s \in Statics |-> got[c][s]]]

\* What may have been made of v for a static: the environment may have been another one.
Versions(s, v, past) == IF s = "envs" THEN {v \intersect e : e \in past} ELSE {v}

\* What is cached under its own key was made of it.
OwnKeys ==
    \A s \in Statics : \A e \in cache[s] : \A v :
      e.key = <<"own", v>> => e.value \in Versions(s, v, seen)

\* What a compilation is through with is its own; but for a Map of environment variables.
OwnValues ==
    \A c \in Compilers : \A s \in Through[spot[c]] :
      job[c].analysis \/ (s = "envs" /\ ~wasm /\ job[c].envsAreMap)
        \/ got[c][s] \in Versions(s, MadeOf(s, job[c]), seen)

\* The plugins of a compilation that applies them were stored, where there are any.
StoredPlugins ==
    \A c \in Compilers : spot[c] = "apply" /\ (~wasm \/ job[c].analysis) =>
      job[c].plugins \subseteq modules

\* The invariant of the caches.
CachesInv == CachesTypeOK /\ OwnKeys /\ OwnValues /\ StoredPlugins

\* Nothing is cached at first.
LEMMA CachesInitially == ASSUME CachesInit PROVE CachesInv
<1>1. CachesTypeOK
  BY DEF CachesInit, CachesTypeOK, Spots
<1>2. QED
  BY <1>1 DEF CachesInit, CachesInv, OwnKeys, OwnValues, StoredPlugins, Through

\* A compilation that applies its passes is through with every static.
LEMMA CachesSound == ASSUME CachesInv PROVE CachesFit /\ PluginsAreThere
<1>1. PluginsAreThere
  BY DEF CachesInv, CachesTypeOK, PluginsAreThere, Spots, Statics
<1>2. ASSUME NEW c \in Compilers, spot[c] = "apply", ~job[c].analysis
      PROVE  /\ got[c].exprs \union got[c].globals = job[c].vars
             /\ got[c].resolver = job[c].paths
             /\ wasm => got[c].envs = {}
             /\ ~wasm /\ ~job[c].envsAreMap =>
                  \E e \in seen : got[c].envs = job[c].envs \intersect e
  <2>1. Through["apply"] = Statics
    BY DEF Through
  <2>2. \A s \in Statics :
            (s = "envs" /\ ~wasm /\ job[c].envsAreMap) \/ got[c][s] \in Versions(s, MadeOf(s, job[c]), seen)
    BY <1>2, <2>1 DEF CachesInv, OwnValues
  <2>3. got[c]["exprs"] = Dotted(job[c]) /\ got[c]["globals"] = Undotted(job[c])
        /\ got[c]["resolver"] = job[c].paths
    BY <2>2 DEF Versions, MadeOf, Statics
  <2>4. got[c]["exprs"] \union got[c]["globals"] = job[c].vars
    BY <2>3 DEF Dotted, Undotted
  <2>5. wasm => got[c]["envs"] = {}
    BY <2>2 DEF Versions, MadeOf, Statics
  <2>6. ~wasm /\ ~job[c].envsAreMap =>
          \E e \in seen : got[c]["envs"] = job[c].envs \intersect e
    BY <2>2 DEF Versions, MadeOf, Statics
  <2>7. QED
    BY <2>3, <2>4, <2>5, <2>6
<1>3. CachesFit
  BY <1>2 DEF CachesFit
<1>4. QED
  BY <1>1, <1>3

\* A compilation that begins is through with nothing, or it only analyzes.
LEMMA StepBegin ==
    ASSUME CachesInv, NEW c \in Compilers, NEW o \in Jobs, Begin(c, o)
    PROVE  CachesInv'
<1>1. /\ spot[c] = "idle"
      /\ job' = [job EXCEPT ![c] = o]
      /\ spot' = [spot EXCEPT ![c] = IF o.analysis THEN "plugins" ELSE "envs"]
      /\ got' = [got EXCEPT ![c] = [s \in Statics |-> {}]]
      /\ UNCHANGED <<wasm, environ, seen, cache, missed, modules>>
  BY DEF Begin
<1>2. CachesTypeOK
  BY DEF CachesInv
<1>3. \A d \in Compilers : d # c => job'[d] = job[d] /\ spot'[d] = spot[d] /\ got'[d] = got[d]
  BY <1>1, <1>2 DEF CachesTypeOK
<1>4. job'[c] = o /\ spot'[c] = IF o.analysis THEN "plugins" ELSE "envs"
  BY <1>1, <1>2 DEF CachesTypeOK
<1>5. CachesTypeOK'
  <2>1. DOMAIN job' = Compilers /\ job' = [d \in Compilers |-> job'[d]]
    BY <1>1, <1>2 DEF CachesTypeOK
  <2>2. spot' \in [Compilers -> Spots]
    BY <1>1, <1>2 DEF CachesTypeOK, Spots, Statics
  <2>3. got' = [d \in Compilers |-> [s \in Statics |-> got'[d][s]]]
    BY <1>1, <1>2 DEF CachesTypeOK
  <2>4. QED
    BY <1>1, <1>2, <2>1, <2>2, <2>3 DEF CachesTypeOK
<1>6. OwnKeys'
  BY <1>1 DEF CachesInv, OwnKeys
<1>7. OwnValues'
  <2>1. ASSUME NEW d \in Compilers, NEW s \in Through[spot'[d]]
        PROVE  job'[d].analysis \/ (s = "envs" /\ ~wasm /\ job'[d].envsAreMap)
                 \/ got'[d][s] \in Versions(s, MadeOf(s, job'[d]), seen)
    <3>1. CASE d = c
      <4>1. Through["envs"] = {}
        BY DEF Through
      <4>2. QED
        BY <3>1, <4>1, <2>1, <1>4
    <3>2. CASE d # c
      BY <3>2, <2>1, <1>3 DEF CachesInv, OwnValues
    <3>3. QED
      BY <3>1, <3>2
  <2>2. wasm' = wasm /\ seen' = seen
    BY <1>1
  <2>3. ASSUME NEW d \in Compilers, NEW s \in Through[spot'[d]]
        PROVE  job'[d].analysis \/ (s = "envs" /\ ~wasm' /\ job'[d].envsAreMap)
                 \/ got'[d][s] \in Versions(s, MadeOf(s, job[d]), seen)'
    BY <2>1, <2>2, <2>3 DEF MadeOf
  <2>4. QED
    BY <2>3, Zenon DEF OwnValues
<1>8. StoredPlugins'
  BY <1>1, <1>3, <1>4 DEF CachesInv, StoredPlugins
<1>9. QED
  BY <1>5, <1>6, <1>7, <1>8 DEF CachesInv

\* Modules are only added.
LEMMA StepPrepare ==
    ASSUME CachesInv, NEW c \in Compilers, Prepare(c)
    PROVE  CachesInv'
<1>1. spot[c] = "plugins" /\ UNCHANGED <<wasm, environ, seen, job, cache, missed, got>>
  BY DEF Prepare
<1>2. CachesTypeOK
  BY DEF CachesInv
<1>3. /\ modules \subseteq modules'
      /\ \/ spot' = [spot EXCEPT ![c] = "idle"]
         \/ /\ spot' = [spot EXCEPT ![c] = "apply"]
            /\ ~wasm \/ job[c].analysis => job[c].plugins \subseteq modules'
  BY <1>1, <1>2 DEF Prepare, Advance, CompilePlugins, Following, CachesTypeOK
<1>4. \A d \in Compilers : d # c => spot'[d] = spot[d]
  BY <1>2, <1>3 DEF CachesTypeOK
<1>5. spot'[c] \in {"idle", "apply"}
      /\ (spot'[c] = "apply" /\ (~wasm \/ job[c].analysis) => job[c].plugins \subseteq modules')
  BY <1>2, <1>3 DEF CachesTypeOK
<1>6. CachesTypeOK'
  <2>1. spot' \in [Compilers -> Spots]
    BY <1>2, <1>3 DEF CachesTypeOK, Spots
  <2>2. QED
    BY <1>1, <1>2, <2>1 DEF CachesTypeOK
<1>7. OwnKeys'
  BY <1>1 DEF CachesInv, OwnKeys
<1>8. OwnValues'
  <2>1. Through[spot'[c]] \subseteq Through[spot[c]]
    BY <1>1, <1>5 DEF Through
  <2>2. ASSUME NEW d \in Compilers, NEW s \in Through[spot'[d]]
        PROVE  job[d].analysis \/ (s = "envs" /\ ~wasm /\ job[d].envsAreMap)
                 \/ got[d][s] \in Versions(s, MadeOf(s, job[d]), seen)
    <3>1. s \in Through[spot[d]]
      BY <2>1, <2>2, <1>4
    <3>2. QED
      BY <3>1 DEF CachesInv, OwnValues
  <2>3. QED
    BY <2>2, <1>1 DEF OwnValues, MadeOf
<1>9. StoredPlugins'
  <2>1. ASSUME NEW d \in Compilers, spot'[d] = "apply", ~wasm \/ job[d].analysis
        PROVE  job[d].plugins \subseteq modules'
    <3>1. CASE d = c
      BY <3>1, <2>1, <1>5
    <3>2. CASE d # c
      BY <3>2, <2>1, <1>3, <1>4 DEF CachesInv, StoredPlugins
    <3>3. QED
      BY <3>1, <3>2
  <2>2. QED
    BY <2>1, <1>1 DEF StoredPlugins
<1>10. QED
  BY <1>6, <1>7, <1>8, <1>9 DEF CachesInv

\* What a compilation goes on with after a static.
LEMMA Advancing ==
    ASSUME NEW s \in Statics
    PROVE  /\ Following[s] \in Spots /\ Following[s] # "apply" /\ Following[s] # "idle"
           /\ Through[Following[s]] = Through[s] \union {s}
<1>1. CASE s = "envs"
  BY <1>1 DEF Following, Through, Spots, Statics
<1>2. CASE s = "exprs"
  BY <1>2 DEF Following, Through, Spots, Statics
<1>3. CASE s = "globals"
  BY <1>3 DEF Following, Through, Spots, Statics
<1>4. CASE s = "resolver"
  BY <1>4 DEF Following, Through, Spots, Statics
<1>5. QED
  BY <1>1, <1>2, <1>3, <1>4 DEF Statics

\* A compilation that gets something right for a static may go on to the next.
LEMMA Getting ==
    ASSUME CachesInv, NEW c \in Compilers, spot[c] \in Statics,
           UNCHANGED <<wasm, environ, seen, job, modules>>,
           NEW s, s = spot[c], NEW v, got' = [got EXCEPT ![c][s] = v],
           spot' = [spot EXCEPT ![c] = Following[s]],
           \/ s = "envs" /\ ~wasm /\ job[c].envsAreMap
           \/ v \in Versions(s, MadeOf(s, job[c]), seen)
    PROVE  /\ OwnValues' /\ StoredPlugins' /\ spot' \in [Compilers -> Spots]
           /\ got' = [d \in Compilers |-> [t \in Statics |-> got'[d][t]]]
<1>1. CachesTypeOK
  BY DEF CachesInv
<1>2. \A d \in Compilers : d # c => spot'[d] = spot[d] /\ got'[d] = got[d]
  BY <1>1 DEF CachesTypeOK
<1>3. spot'[c] = Following[s] /\ Following[s] \in Spots /\ Following[s] # "apply"
  BY <1>1, Advancing DEF CachesTypeOK
<1>4. got'[c][s] = v /\ \A t \in Statics : t # s => got'[c][t] = got[c][t]
  BY <1>1 DEF CachesTypeOK
<1>5. spot' \in [Compilers -> Spots]
  BY <1>1, <1>3 DEF CachesTypeOK
<1>6. got' = [d \in Compilers |-> [t \in Statics |-> got'[d][t]]]
  <2>1. got' = [got EXCEPT ![c] = [got[c] EXCEPT ![s] = v]]
    OBVIOUS
  <2>2. \A d \in Compilers : got[d] = [t \in Statics |-> got[d][t]]
    BY <1>1 DEF CachesTypeOK
  <2>3. got'[c] = [t \in Statics |-> got'[c][t]]
    <3>1. got'[c] = [got[c] EXCEPT ![s] = v]
      BY <2>1, <1>1 DEF CachesTypeOK
    <3>2. got[c] = [t \in Statics |-> got[c][t]]
      BY <2>2
    <3>3. QED
      BY <3>1, <3>2
  <2>4. \A d \in Compilers : got'[d] = [t \in Statics |-> got'[d][t]]
    BY <2>2, <2>3, <1>2
  <2>5. DOMAIN got' = Compilers /\ got' = [d \in Compilers |-> got'[d]]
    BY <2>1, <1>1 DEF CachesTypeOK
  <2>6. QED
    BY <2>4, <2>5
<1>7. StoredPlugins'
  BY <1>2, <1>3 DEF CachesInv, StoredPlugins
<1>8. ASSUME NEW d \in Compilers, NEW t \in Through[spot'[d]]
      PROVE  job[d].analysis \/ (t = "envs" /\ ~wasm /\ job[d].envsAreMap)
                 \/ got'[d][t] \in Versions(t, MadeOf(t, job[d]), seen)
  <2>1. CASE d # c
    BY <2>1, <1>2, <1>8 DEF CachesInv, OwnValues
  <2>2. CASE d = c /\ t = s
    BY <2>2, <1>4
  <2>3. CASE d = c /\ t # s
    <3>1. t \in Through[s] /\ t \in Statics
      <4>1. Through[s] \subseteq Statics
        BY DEF Through, Statics
      <4>2. QED
        BY <4>1, <2>3, <1>3, <1>8, Advancing
    <3>2. QED
      BY <3>1, <2>3, <1>4 DEF CachesInv, OwnValues
  <2>4. QED
    BY <2>1, <2>2, <2>3
<1>9. OwnValues'
  <2>1. ASSUME NEW d \in Compilers, NEW t \in Through[spot'[d]]
        PROVE  job'[d].analysis \/ (t = "envs" /\ ~wasm' /\ job'[d].envsAreMap)
                 \/ got'[d][t] \in Versions(t, MadeOf(t, job[d]), seen)'
    BY <1>8, <2>1 DEF MadeOf
  <2>2. QED
    BY <2>1, Zenon DEF OwnValues
<1>10. QED
  BY <1>5, <1>6, <1>7, <1>9

\* A compilation that is over has nothing to keep right.
Stopped(c) ==
    /\ spot'[c] = "idle" /\ \A d \in Compilers : d # c => spot'[d] = spot[d]
    /\ UNCHANGED <<wasm, environ, seen, job, got, modules>>

\* A compilation that ends leaves the others as they are.
LEMMA Stopping ==
    ASSUME CachesInv, NEW c \in Compilers, Stopped(c)
    PROVE  OwnValues' /\ StoredPlugins'
<1>1. Through["idle"] = {}
  BY DEF Through
<1>2. \A d \in Compilers : \A t \in Through[spot'[d]] : t \in Through[spot[d]]
  BY <1>1 DEF Stopped
<1>3. ASSUME NEW d \in Compilers, NEW t \in Through[spot'[d]]
      PROVE  job'[d].analysis \/ (t = "envs" /\ ~wasm' /\ job'[d].envsAreMap)
                 \/ got'[d][t] \in Versions(t, MadeOf(t, job[d]), seen)'
  BY <1>2, <1>3 DEF Stopped, CachesInv, OwnValues, MadeOf
<1>4. OwnValues'
  BY <1>3, Zenon DEF OwnValues
<1>5. StoredPlugins'
  BY DEF Stopped, CachesInv, StoredPlugins
<1>6. QED
  BY <1>4, <1>5

\* A hit under the own key is what would be made.
LEMMA StepLookup ==
    ASSUME CachesInv, NEW c \in Compilers, Lookup(c)
    PROVE  CachesInv'
<1> DEFINE s == spot[c]
<1>1. s \in Statics /\ UNCHANGED <<wasm, environ, seen, job, cache, modules>>
  BY DEF Lookup
<1>2. CachesTypeOK
  BY DEF CachesInv
<1>3. OwnKeys'
  BY <1>1 DEF CachesInv, OwnKeys
<1>4. CASE missed' = [missed EXCEPT ![c] = TRUE] /\ UNCHANGED <<spot, got>>
  <2>1. CachesTypeOK'
    BY <1>1, <1>2, <1>4 DEF CachesTypeOK
  <2>2. OwnValues' /\ StoredPlugins'
    BY <1>1, <1>4 DEF CachesInv, OwnValues, StoredPlugins, MadeOf
  <2>3. QED
    BY <1>3, <2>1, <2>2 DEF CachesInv
<1>5. CASE /\ ~(s = "envs" /\ wasm)
           /\ \E e \in Hit(s, job[c]) : got' = [got EXCEPT ![c][s] = e.value]
           /\ Advance(c) /\ UNCHANGED missed
  <2>1. PICK e \in Hit(s, job[c]) : got' = [got EXCEPT ![c][s] = e.value]
    BY <1>5
  <2>2. e \in cache[s] /\ e.key = KeyOf(s, job[c])
    BY <2>1 DEF Hit
  <2>3. (s = "envs" /\ ~wasm /\ job[c].envsAreMap) \/ e.value \in Versions(s, MadeOf(s, job[c]), seen)
    <3>1. CASE s = "envs" /\ job[c].envsAreMap
      BY <3>1, <1>5
    <3>2. CASE ~(s = "envs" /\ job[c].envsAreMap)
      <4>1. e.key = <<"own", MadeOf(s, job[c])>>
        BY <3>2, <2>2 DEF KeyOf
      <4>2. QED
        BY <4>1, <2>2, <1>1 DEF CachesInv, OwnKeys
    <3>3. QED
      BY <3>1, <3>2
  <2>4. spot' = [spot EXCEPT ![c] = Following[s]]
    BY <1>5 DEF Advance
  <2>5. /\ OwnValues' /\ StoredPlugins' /\ spot' \in [Compilers -> Spots]
        /\ got' = [d \in Compilers |-> [t \in Statics |-> got'[d][t]]]
    BY <2>1, <2>3, <2>4, <1>1, Getting
  <2>6. CachesTypeOK'
    BY <1>1, <1>2, <1>5, <2>5 DEF CachesTypeOK
  <2>7. QED
    BY <1>3, <2>5, <2>6 DEF CachesInv
<1>6. QED
  BY <1>4, <1>5 DEF Lookup

\* What is inserted is made of the key that it is stored under.
LEMMA StepInsert ==
    ASSUME CachesInv, NEW c \in Compilers, Insert(c)
    PROVE  CachesInv'
<1> DEFINE s == spot[c]
           made == Made(s, job[c])
<1>1. s \in Statics /\ UNCHANGED <<wasm, environ, seen, job, modules>> /\ missed' = [missed EXCEPT ![c] = FALSE]
  BY DEF Insert
<1>2. CachesTypeOK
  BY DEF CachesInv
<1>3. CASE /\ cache' = IF s = "envs" /\ wasm THEN cache
                       ELSE [cache EXCEPT ![s] = (@ \ Hit(s, job[c])) \union
                                              {[key |-> KeyOf(s, job[c]), value |-> made]}]
           /\ got' = [got EXCEPT ![c][s] = made]
           /\ Advance(c)
  <2>1. spot' = [spot EXCEPT ![c] = Following[s]]
    BY <1>3 DEF Advance
  <2>a. (s = "envs" /\ ~wasm /\ job[c].envsAreMap) \/ made \in Versions(s, MadeOf(s, job[c]), seen)
    BY <1>2, <1>1 DEF Made, MadeOf, Versions, CachesTypeOK, Statics
  <2>2. /\ OwnValues' /\ StoredPlugins' /\ spot' \in [Compilers -> Spots]
        /\ got' = [d \in Compilers |-> [t \in Statics |-> got'[d][t]]]
    BY <2>1, <2>a, <1>1, <1>3, Getting
  <2>3. cache' = [t \in Statics |-> cache'[t]]
    BY <1>2, <1>3 DEF CachesTypeOK
  <2>4. CachesTypeOK'
    BY <1>1, <1>2, <2>2, <2>3 DEF CachesTypeOK
  <2>5. ASSUME NEW t \in Statics, NEW e \in cache'[t], NEW v, e.key = <<"own", v>>
        PROVE  e.value \in Versions(t, v, seen)
    <3>1. CASE e \in cache[t]
      BY <3>1, <2>5 DEF CachesInv, OwnKeys
    <3>2. CASE t = s /\ e = [key |-> KeyOf(s, job[c]), value |-> made]
      <4>1. ~(s = "envs" /\ job[c].envsAreMap) /\ v = MadeOf(s, job[c])
        BY <3>2, <2>5 DEF KeyOf
      <4>2. QED
        BY <4>1, <3>2, <2>a
    <3>3. QED
      BY <3>1, <3>2, <2>5, <1>1, <1>2, <1>3 DEF CachesTypeOK
  <2>6. OwnKeys'
    BY <2>5, <1>1, Zenon DEF OwnKeys
  <2>7. QED
    BY <2>2, <2>4, <2>6 DEF CachesInv
<1>4. CASE spot' = [spot EXCEPT ![c] = "idle"] /\ UNCHANGED <<cache, got>>
  <2>1. CachesTypeOK'
    BY <1>1, <1>2, <1>4 DEF CachesTypeOK, Spots
  <2>2. OwnKeys'
    BY <1>1, <1>4 DEF CachesInv, OwnKeys
  <2>3. Stopped(c)
    BY <1>1, <1>2, <1>4 DEF Stopped, CachesTypeOK
  <2>4. QED
    BY <2>1, <2>2, <2>3, Stopping DEF CachesInv
<1>5. QED
  BY <1>3, <1>4 DEF Insert

\* The passes are applied, or a plugin that was not stored is missed.
LEMMA StepApply ==
    ASSUME CachesInv, NEW c \in Compilers, Apply(c)
    PROVE  CachesInv'
<1>1. CachesTypeOK /\ StoredPlugins /\ spot[c] = "apply"
      /\ UNCHANGED <<wasm, environ, seen, job, cache, missed, got, modules>>
  BY DEF CachesInv, Apply
<1>2. spot' = [spot EXCEPT ![c] = "idle"]
  <2>1. ~((~wasm \/ job[c].analysis) /\ ~job[c].plugins \subseteq modules)
    BY <1>1 DEF StoredPlugins
  <2>2. QED
    BY <2>1 DEF Apply
<1>3. CachesTypeOK'
  BY <1>1, <1>2 DEF CachesTypeOK, Spots
<1>4. OwnKeys'
  BY <1>1 DEF CachesInv, OwnKeys
<1>5. Stopped(c)
  BY <1>1, <1>2 DEF Stopped, CachesTypeOK
<1>6. QED
  BY <1>3, <1>4, <1>5, Stopping DEF CachesInv

\* What was made stays one of the versions.
LEMMA StepSetEnviron ==
    ASSUME CachesInv, NEW e, SetEnviron(e)
    PROVE  CachesInv'
<1>1. environ' = e /\ seen' = seen \union {e}
      /\ UNCHANGED <<wasm, job, spot, cache, missed, got, modules>>
  BY DEF SetEnviron
<1>2. \A s, v : Versions(s, v, seen) \subseteq Versions(s, v, seen')
  BY <1>1 DEF Versions
<1>3. CachesTypeOK' /\ StoredPlugins'
  BY <1>1 DEF CachesInv, CachesTypeOK, StoredPlugins
<1>4. OwnKeys'
  <2>1. ASSUME NEW s \in Statics, NEW x \in cache[s], NEW v, x.key = <<"own", v>>
        PROVE  x.value \in Versions(s, v, seen')
    BY <2>1, <1>2 DEF CachesInv, OwnKeys
  <2>2. QED
    BY <2>1, <1>1, Zenon DEF OwnKeys
<1>5. OwnValues'
  <2>1. ASSUME NEW d \in Compilers, NEW t \in Through[spot[d]]
        PROVE  job[d].analysis \/ (t = "envs" /\ ~wasm /\ job[d].envsAreMap)
                 \/ got[d][t] \in Versions(t, MadeOf(t, job[d]), seen')
    BY <2>1, <1>2 DEF CachesInv, OwnValues
  <2>2. ASSUME NEW d \in Compilers, NEW t \in Through[spot'[d]]
        PROVE  job'[d].analysis \/ (t = "envs" /\ ~wasm' /\ job'[d].envsAreMap)
                 \/ got'[d][t] \in Versions(t, MadeOf(t, job[d]), seen)'
    BY <2>1, <2>2, <1>1 DEF MadeOf
  <2>3. QED
    BY <2>2, Zenon DEF OwnValues
<1>6. QED
  BY <1>3, <1>4, <1>5 DEF CachesInv

\* The threads' steps, and the others' of the program.
LEMMA CachesInvariant ==
    ASSUME CachesInv, CachesNext \/ UNCHANGED cacheVars
    PROVE  CachesInv'
<1>1. CASE CachesNext
  BY <1>1, StepSetEnviron, StepBegin, StepPrepare, StepLookup, StepInsert, StepApply DEF CachesNext
<1>2. CASE UNCHANGED cacheVars
  <2>1. UNCHANGED <<wasm, environ, seen, job, spot, cache, missed, got, modules>>
    BY <1>2 DEF cacheVars
  <2>2. CachesTypeOK' /\ OwnKeys' /\ StoredPlugins'
    BY <2>1 DEF CachesInv, CachesTypeOK, OwnKeys, StoredPlugins
  <2>3. OwnValues'
    BY <2>1 DEF CachesInv, OwnValues, MadeOf
  <2>4. QED
    BY <2>2, <2>3 DEF CachesInv
<1>3. QED
  BY <1>1, <1>2

-----------------------------------------------------------------------------
(* Options and .swcrc.                                                       *)

\* The stages before the program is parsed.
ConfigStages == {"match", "search", "load", "pick", "merge", "parse"}

\* The types of the configuration.
ConfigVarsOK ==
    /\ call \in Calls /\ at \in 0..(Depth + 1)
    /\ IsRc(rc) /\ rc \in RcFiles \union {DefaultRc}
    /\ cfg \in Configs /\ picked \in 0..Len(rc.configs)

\* Where the search is, and where it has been.
SearchInv ==
    /\ stage \in {"match", "search", "load", "pick"} => picked = 0
    /\ stage \in {"match", "search", "load"} => rc = DefaultRc
    /\ stage = "match" => at = Depth + 1
    /\ stage = "search" => at <= Depth
    /\ at <= Depth =>
         /\ call.opts.rootMode = "root" /\ call.opts.root \in 1..Depth => at >= call.opts.root
         /\ \A d \in (at + 1)..Depth : d \notin call.rcDirs
    /\ at \in 1..Depth /\ (stage = "load" \/ rc # DefaultRc) => at \in call.rcDirs

\* A config that was picked, and options that were not turned down.
PickInv ==
    /\ call.file.real /\ (picked # 0 \/ stage \in ConfigStages \ {"match"}) =>
         Matches(call.opts.own, call.file.ext)
    /\ call.file.real /\ picked # 0 =>
         /\ picked \in 1..Len(rc.configs) /\ Matches(rc.configs[picked], call.file.ext)
         /\ \A i \in 1..(picked - 1) : ~Matches(rc.configs[i], call.file.ext)
    /\ call.file.real /\ stage \in {"merge", "parse"} => picked # 0

\* What was picked, adjusted to the extension, and what the options make of it.
MergeInv ==
    /\ call.file.real /\ stage = "merge" => cfg = Adjust(rc.configs[picked], call.file.ext)
    /\ stage = "parse" => cfg.isModule # "unset"
    /\ TypescriptByDefault

\* The invariant of the configuration.
ConfigInv == ConfigVarsOK /\ SearchInv /\ PickInv /\ MergeInv

\* The configs that the code makes are configs.
LEMMA DefaultConfigs ==
    /\ DefaultConfig \in Configs
    /\ \A exts \in SUBSET Exts, tsx \in BOOLEAN : Typescript(exts, tsx) \in Configs
    /\ [DefaultConfig EXCEPT !.exclude = {{"ts", "tsx"}}, !.lang = "es"] \in Configs
<1>1. Absent \in Matchers /\ {{"ts", "tsx"}} \in Matchers
      /\ \A exts \in SUBSET Exts : {exts} \in Matchers
  BY DEF Matchers, Exts
<1>2. DefaultConfig \in Configs
  BY <1>1 DEF DefaultConfig, Configs, Langs
<1>3. ASSUME NEW exts \in SUBSET Exts, NEW tsx \in BOOLEAN PROVE Typescript(exts, tsx) \in Configs
  BY <1>1, <1>2 DEF Typescript, Configs, Langs
<1>4. [DefaultConfig EXCEPT !.exclude = {{"ts", "tsx"}}, !.lang = "es"] \in Configs
  BY <1>1, <1>2 DEF Configs, Langs
<1>5. QED
  BY <1>2, <1>3, <1>4

\* Rc::default has four configs.
LEMMA DefaultRcIsOne == IsRc(DefaultRc) /\ Len(DefaultRc.configs) = 4
<1> DEFINE a == [DefaultConfig EXCEPT !.exclude = {{"ts", "tsx"}}, !.lang = "es"]
           b == Typescript({"tsx"}, TRUE)
           c == Typescript({"mts"}, FALSE)
           d == Typescript({"ts"}, FALSE)
<1>1. a \in Configs /\ b \in Configs /\ c \in Configs /\ d \in Configs
  BY DefaultConfigs DEF Exts
<1>2. DefaultRc.kind = "multi" /\ DefaultRc.configs = <<a, b, c, d>>
  BY DEF DefaultRc
<1> HIDE DEF a, b, c, d
<1>3. <<a, b, c, d>> \in Seq(Configs) /\ Len(<<a, b, c, d>>) = 4
  BY <1>1
<1>4. QED
  BY <1>2, <1>3 DEF IsRc

\* Rc::default has a parser for every TypeScript file.
LEMMA DefaultIsTypescript ==
    ASSUME NEW ext \in {"ts", "tsx"}, NEW i \in 1..Len(DefaultRc.configs),
           Matches(DefaultRc.configs[i], ext)
    PROVE  DefaultRc.configs[i].lang = "ts"
<1> DEFINE a == [DefaultConfig EXCEPT !.exclude = {{"ts", "tsx"}}, !.lang = "es"]
<1>1. i \in 1..4 /\ DefaultRc.configs[1] = a
      /\ DefaultRc.configs[2] = Typescript({"tsx"}, TRUE)
      /\ DefaultRc.configs[3] = Typescript({"mts"}, FALSE)
      /\ DefaultRc.configs[4] = Typescript({"ts"}, FALSE)
  BY DefaultRcIsOne DEF DefaultRc
<1>2. /\ Typescript({"tsx"}, TRUE).lang = "ts" /\ Typescript({"mts"}, FALSE).lang = "ts"
      /\ Typescript({"ts"}, FALSE).lang = "ts"
  BY DEF Typescript, DefaultConfig
<1>3. ~Matches(a, ext)
  <2>1. a.exclude = {{"ts", "tsx"}}
    BY DEF DefaultConfig
  <2>2. {{"ts", "tsx"}} # Absent
    BY ConfigAssumption DEF Exts
  <2>3. Hits({{"ts", "tsx"}}, ext)
    BY DEF Hits
  <2>4. QED
    BY <2>1, <2>2, <2>3 DEF Matches
<1>4. CASE i = 1
  BY <1>1, <1>3, <1>4
<1>5. CASE i \in 2..4
  <2>1. DefaultRc.configs[2].lang = "ts" /\ DefaultRc.configs[3].lang = "ts"
        /\ DefaultRc.configs[4].lang = "ts"
    BY <1>1, <1>2
  <2>2. i = 2 \/ i = 3 \/ i = 4
    BY <1>5
  <2>3. QED
    BY <2>1, <2>2
<1>6. QED
  BY <1>1, <1>4, <1>5

\* Adjusting to the extension sets the tsx of a TypeScript parser.
LEMMA AdjustFits ==
    ASSUME NEW c \in Configs, NEW ext
    PROVE  /\ Adjust(c, ext) \in Configs /\ Adjust(c, ext).lang = c.lang
           /\ c.lang = "ts" /\ ext \in {"ts", "tsx"} => Adjust(c, ext).tsx = (ext = "tsx")
<1>1. (ext = "tsx") \in BOOLEAN
  OBVIOUS
<1>2. QED
  BY <1>1 DEF Adjust, Configs

\* Options without a parser leave that of the config.
LEMMA MergeFits ==
    ASSUME NEW own \in Configs, NEW c \in Configs
    PROVE  /\ Merge(own, c) \in Configs
           /\ own.lang = "unset" => Merge(own, c).lang = c.lang
<1>1. \A x \in Configs : x.lang \in Langs /\ x.tsx \in BOOLEAN /\ x.target \in BOOLEAN
        /\ x.env \in BOOLEAN /\ x.isModule \in {"unset", "module", "script", "unknown"}
  BY DEF Configs
<1> DEFINE lang == IF own.lang # "unset" THEN own.lang ELSE c.lang
           tsx == IF own.lang # "unset" THEN own.tsx ELSE c.tsx
           isModule == IF own.isModule # "unset" THEN own.isModule ELSE c.isModule
           target == own.target \/ c.target
           env == own.env \/ c.env
<1>2. /\ lang \in Langs /\ tsx \in BOOLEAN /\ target \in BOOLEAN /\ env \in BOOLEAN
      /\ isModule \in {"unset", "module", "script", "unknown"}
      /\ own.lang = "unset" => lang = c.lang
  BY <1>1
<1>3. Merge(own, c) = [own EXCEPT !.lang = lang, !.tsx = tsx, !.isModule = isModule,
                                  !.target = target, !.env = env]
  BY DEF Merge
<1> HIDE DEF lang, tsx, isModule, target, env
<1>4. QED
  BY <1>2, <1>3 DEF Configs

\* What happens after the configuration leaves it alone.
LEMMA ConfigKept ==
    ASSUME ConfigInv, UNCHANGED <<call, at, rc, picked, cfg>>,
           stage' = stage \/ stage' \notin ConfigStages
    PROVE  ConfigInv'
<1>1. ConfigVarsOK'
  BY DEF ConfigInv, ConfigVarsOK
<1>2. SearchInv'
  BY DEF ConfigInv, SearchInv, ConfigStages
<1>3. PickInv'
  BY DEF ConfigInv, PickInv, ConfigStages
<1>4. MergeInv'
  BY DEF ConfigInv, MergeInv, ConfigStages, TypescriptByDefault
<1>5. QED
  BY <1>1, <1>2, <1>3, <1>4 DEF ConfigInv

\* The configuration starts with the default .swcrc and no search.
LEMMA ConfigInitially ==
    ASSUME NEW c \in Calls, ConfigInit(c)
    PROVE  ConfigInv
<1>1. stage = "match" /\ call = c /\ at = Depth + 1 /\ rc = DefaultRc /\ picked = 0
      /\ cfg = DefaultConfig
  BY DEF ConfigInit
<1>2. ConfigVarsOK
  BY <1>1, ConfigAssumption, DefaultConfigs, DefaultRcIsOne DEF ConfigVarsOK
<1>3. QED
  BY <1>1, <1>2, ConfigAssumption
     DEF ConfigInv, SearchInv, PickInv, MergeInv, TypescriptByDefault, ConfigStages

\* A file that needs a .swcrc goes without one, or the compilation fails.
LEMMA StepNotFound ==
    ASSUME ConfigInv, stage \in {"match", "search"}, NotFound,
           call.file.real => Matches(call.opts.own, call.file.ext),
           UNCHANGED <<call, at, picked, cfg>>
    PROVE  ConfigInv'
<1>1. (stage' = "failed" \/ stage' = "pick") /\ rc = DefaultRc /\ rc' = rc /\ picked = 0
  BY DEF NotFound, Quit, ConfigInv, SearchInv
<1>2. ConfigVarsOK'
  BY <1>1 DEF ConfigInv, ConfigVarsOK
<1>3. SearchInv'
  BY <1>1 DEF ConfigInv, SearchInv
<1>4. PickInv'
  BY <1>1 DEF ConfigInv, PickInv, ConfigStages
<1>5. MergeInv'
  BY <1>1 DEF ConfigInv, MergeInv, TypescriptByDefault
<1>6. QED
  BY <1>2, <1>3, <1>4, <1>5 DEF ConfigInv

\* Options that turn the file down end it; the others go to the search or past it.
LEMMA StepMatchOptions ==
    ASSUME ConfigInv, MatchOptions
    PROVE  ConfigInv'
<1>1. stage = "match" /\ UNCHANGED <<call, picked, cfg>> /\ picked = 0 /\ rc = DefaultRc
      /\ at = Depth + 1
  BY DEF MatchOptions, ConfigInv, SearchInv
<1>2. CASE call.file.real /\ ~Matches(call.opts.own, call.file.ext)
  <2>1. stage' = "ignored" /\ UNCHANGED <<at, rc>>
    BY <1>2 DEF MatchOptions
  <2>2. QED
    BY <1>1, <2>1, ConfigKept DEF ConfigStages
<1>3. CASE ~(call.file.real /\ ~Matches(call.opts.own, call.file.ext))
  <2>1. CASE NotFound /\ UNCHANGED at
    BY <1>1, <1>3, <2>1, StepNotFound
  <2>2. CASE stage' = "search" /\ at' = Depth /\ UNCHANGED rc
    <3>1. Depth \in Nat /\ Depth >= 1 /\ call.opts.root \in Nat
      BY ConfigAssumption DEF ConfigInv, ConfigVarsOK, Calls
    <3>2. ConfigVarsOK'
      BY <1>1, <2>2, <3>1 DEF ConfigInv, ConfigVarsOK
    <3>3. SearchInv'
      BY <1>1, <2>2, <3>1 DEF SearchInv
    <3>4. PickInv'
      BY <1>1, <1>3, <2>2 DEF PickInv
    <3>5. MergeInv'
      BY <1>1, <2>2 DEF MergeInv, TypescriptByDefault
    <3>6. QED
      BY <3>2, <3>3, <3>4, <3>5 DEF ConfigInv
  <2>3. CASE stage' \in {"load", "pick"} /\ rc' = DefaultRc /\ UNCHANGED at
    <3>1. ConfigVarsOK'
      BY <1>1, <2>3 DEF ConfigInv, ConfigVarsOK
    <3>2. SearchInv'
      BY <1>1, <2>3, ConfigAssumption DEF SearchInv
    <3>3. PickInv'
      BY <1>1, <1>3, <2>3 DEF PickInv
    <3>4. MergeInv'
      BY <1>1, <2>3 DEF MergeInv, TypescriptByDefault
    <3>5. QED
      BY <3>1, <3>2, <3>3, <3>4 DEF ConfigInv
  <2>4. QED
    BY <1>1, <1>3, <2>1, <2>2, <2>3 DEF MatchOptions
<1>4. QED
  BY <1>2, <1>3

\* The search takes the nearest, and ends at the root.
LEMMA StepSearchUp ==
    ASSUME ConfigInv, SearchUp
    PROVE  ConfigInv'
<1>1. stage = "search" /\ UNCHANGED <<call, picked, cfg>> /\ picked = 0 /\ rc = DefaultRc
      /\ at <= Depth /\ at \in Nat /\ Depth \in Nat /\ call.opts.root \in Nat
  BY ConfigAssumption DEF SearchUp, ConfigInv, SearchInv, ConfigVarsOK, Calls
<1>2. call.file.real => Matches(call.opts.own, call.file.ext)
  BY <1>1 DEF ConfigInv, PickInv, ConfigStages
<1>3. /\ call.opts.rootMode = "root" /\ call.opts.root \in 1..Depth => at >= call.opts.root
      /\ \A d \in (at + 1)..Depth : d \notin call.rcDirs
  BY <1>1 DEF ConfigInv, SearchInv
<1>4. CASE at \in call.rcDirs
  <2>1. stage' = "load" /\ UNCHANGED <<at, rc>>
    BY <1>4 DEF SearchUp
  <2>2. ConfigVarsOK'
    BY <1>1, <2>1 DEF ConfigInv, ConfigVarsOK
  <2>3. SearchInv'
    BY <1>1, <1>3, <1>4, <2>1 DEF SearchInv
  <2>4. PickInv'
    BY <1>1, <1>2, <2>1 DEF PickInv
  <2>5. MergeInv'
    BY <1>1, <2>1 DEF MergeInv, TypescriptByDefault
  <2>6. QED
    BY <2>2, <2>3, <2>4, <2>5 DEF ConfigInv
<1>5. CASE /\ at \notin call.rcDirs
           /\ at = 0 \/ (at = call.opts.root /\ call.opts.rootMode = "root")
  BY <1>1, <1>2, <1>5, StepNotFound DEF SearchUp
<1>6. CASE /\ at \notin call.rcDirs
           /\ ~(at = 0 \/ (at = call.opts.root /\ call.opts.rootMode = "root"))
  <2>1. at' = at - 1 /\ UNCHANGED <<stage, rc>>
    BY <1>6 DEF SearchUp
  <2>2. ConfigVarsOK'
    BY <1>1, <1>6, <2>1 DEF ConfigInv, ConfigVarsOK
  <2>3. /\ call.opts.rootMode = "root" /\ call.opts.root \in 1..Depth => at - 1 >= call.opts.root
        /\ \A d \in ((at - 1) + 1)..Depth : d \notin call.rcDirs
    <3>1. ASSUME call.opts.rootMode = "root", call.opts.root \in 1..Depth
          PROVE  at - 1 >= call.opts.root
      BY <1>1, <1>3, <1>6, <3>1
    <3>2. ASSUME NEW d \in ((at - 1) + 1)..Depth PROVE d \notin call.rcDirs
      <4>1. d = at \/ d \in (at + 1)..Depth
        BY <1>1
      <4>2. QED
        BY <4>1, <1>3, <1>6
    <3>3. QED
      BY <3>1, <3>2
  <2>4. SearchInv'
    <3>1. at' <= Depth
      BY <1>1, <2>1
    <3>2. QED
      BY <1>1, <2>1, <2>3, <3>1 DEF SearchInv
  <2>5. PickInv'
    BY <1>1, <1>2, <2>1 DEF PickInv
  <2>6. MergeInv'
    BY <1>1, <2>1 DEF MergeInv, TypescriptByDefault
  <2>7. QED
    BY <2>2, <2>4, <2>5, <2>6 DEF ConfigInv
<1>7. QED
  BY <1>4, <1>5, <1>6

\* A .swcrc that is there is the one to pick from, or it is turned down.
LEMMA StepLoad ==
    ASSUME ConfigInv, Load
    PROVE  ConfigInv'
<1>1. stage = "load" /\ UNCHANGED <<call, at, picked, cfg>> /\ picked = 0 /\ rc = DefaultRc
  BY DEF Load, ConfigInv, SearchInv
<1>2. CASE stage' = "failed" /\ UNCHANGED rc
  BY <1>1, <1>2, ConfigKept DEF ConfigStages
<1>3. CASE rc' \in RcFiles /\ stage' = "pick"
  <2>1. ConfigVarsOK'
    <3>1. IsRc(rc)'
      BY <1>3, ConfigAssumption DEF IsRc
    <3>2. Len(rc'.configs) \in Nat
      BY <3>1, LenProperties DEF IsRc
    <3>3. QED
      BY <1>1, <1>3, <3>1, <3>2 DEF ConfigInv, ConfigVarsOK
  <2>2. SearchInv'
    BY <1>1, <1>3 DEF ConfigInv, SearchInv
  <2>3. PickInv'
    BY <1>1, <1>3 DEF ConfigInv, PickInv, ConfigStages
  <2>4. MergeInv'
    BY <1>1, <1>3 DEF MergeInv, TypescriptByDefault
  <2>5. QED
    BY <2>1, <2>2, <2>3, <2>4 DEF ConfigInv
<1>4. QED
  BY <1>2, <1>3 DEF Load, Quit

\* The first config that includes the file is picked.
LEMMA StepPick ==
    ASSUME ConfigInv, Pick
    PROVE  ConfigInv'
<1> DEFINE ext == call.file.ext
           matching == {i \in DOMAIN rc.configs : Matches(rc.configs[i], ext)}
           first == CHOOSE i \in matching : \A j \in matching : i <= j
<1>1. stage = "pick" /\ UNCHANGED <<call, at, rc>> /\ picked = 0 /\ ConfigVarsOK
  BY DEF Pick, ConfigInv, SearchInv
<1>2. rc.configs \in Seq(Configs) /\ Len(rc.configs) \in Nat
      /\ DOMAIN rc.configs = 1..Len(rc.configs)
      /\ \A i \in 1..Len(rc.configs) : rc.configs[i] \in Configs
  BY <1>1, LenProperties, ElementOfSeq DEF ConfigVarsOK, IsRc
<1>3. call.file.real => Matches(call.opts.own, ext)
  BY <1>1 DEF ConfigInv, PickInv, ConfigStages
<1>4. CASE stage' \in {"ignored", "failed"} /\ UNCHANGED <<picked, cfg>>
  BY <1>1, <1>4, ConfigKept DEF ConfigStages
<1>5. CASE ~call.file.real
  <2>1. stage' = "merge" /\ IF rc.kind = "single" THEN picked' = 1 /\ cfg' = rc.configs[1]
                                                 ELSE picked' = 0 /\ cfg' = DefaultConfig
    BY <1>5 DEF Pick
  <2>2. picked' \in 0..Len(rc.configs) /\ cfg' \in Configs
    <3>1. CASE rc.kind = "single"
      <4>1. Len(rc.configs) = 1
        BY <3>1, <1>1 DEF ConfigVarsOK, IsRc
      <4>2. QED
        BY <4>1, <3>1, <2>1, <1>2
    <3>2. CASE rc.kind # "single"
      BY <3>2, <2>1, <1>2, DefaultConfigs
    <3>3. QED
      BY <3>1, <3>2
  <2>3. ConfigVarsOK'
    BY <1>1, <2>2 DEF ConfigVarsOK
  <2>4. SearchInv' /\ PickInv' /\ MergeInv'
    BY <1>1, <1>5, <2>1 DEF ConfigInv, SearchInv, PickInv, MergeInv, TypescriptByDefault
  <2>5. QED
    BY <2>3, <2>4 DEF ConfigInv
<1>6. CASE /\ call.file.real /\ matching # {} /\ stage' = "merge" /\ picked' = first
           /\ cfg' = Adjust(rc.configs[first], ext)
  <2>1. PICK m \in matching : \A j \in matching : m <= j
    <3>1. matching \subseteq Nat
      BY <1>2
    <3>2. QED
      BY <3>1, <1>6, LeastOfNaturals
  <2>2. first \in matching /\ \A j \in matching : first <= j
    <3> HIDE DEF matching
    <3>1. QED
      BY <2>1
  <2>3. /\ first \in 1..Len(rc.configs) /\ Matches(rc.configs[first], ext)
        /\ rc.configs[first] \in Configs
    BY <2>2, <1>2
  <2>4. ASSUME NEW i \in 1..(first - 1) PROVE ~Matches(rc.configs[i], ext)
    <3> HIDE DEF first
    <3>1. i \in 1..Len(rc.configs) /\ ~(first <= i)
      BY <2>3, <1>2
    <3>2. QED
      BY <3>1, <2>2, <1>2
  <2> HIDE DEF first
  <2>5. ConfigVarsOK'
    BY <1>1, <1>2, <1>6, <2>3, AdjustFits DEF ConfigVarsOK
  <2>6. SearchInv'
    BY <1>1, <1>6 DEF ConfigInv, SearchInv
  <2>7. PickInv'
    BY <1>1, <1>2, <1>3, <1>6, <2>3, <2>4 DEF PickInv
  <2>8. MergeInv'
    BY <1>1, <1>6 DEF MergeInv, TypescriptByDefault
  <2>9. QED
    BY <2>5, <2>6, <2>7, <2>8 DEF ConfigInv
<1>7. QED
  BY <1>4, <1>5, <1>6 DEF Pick, Quit

\* The options go over what was picked.
LEMMA StepMergeConfig ==
    ASSUME ConfigInv, MergeConfig
    PROVE  ConfigInv'
<1> DEFINE own == call.opts.own
           ext == call.file.ext
           merged == Merge(own, cfg)
           adjusted == IF call.file.real THEN Adjust(merged, ext) ELSE merged
<1>1. /\ stage = "merge" /\ UNCHANGED <<call, at, rc, picked>>
      /\ cfg' = [adjusted EXCEPT !.lang = IF @ = "unset" THEN "es" ELSE @,
                                 !.isModule = IF @ = "unset" THEN "module" ELSE @]
      /\ stage' = "failed" \/ stage' = "parse"
  BY DEF MergeConfig, Quit
<1>2. ConfigVarsOK /\ own \in Configs /\ cfg \in Configs
  BY DEF ConfigInv, ConfigVarsOK, Calls
<1>3. merged \in Configs /\ (own.lang = "unset" => merged.lang = cfg.lang)
  BY <1>2, MergeFits
<1>4. /\ adjusted \in Configs /\ adjusted.lang = merged.lang
      /\ call.file.real /\ merged.lang = "ts" /\ ext \in {"ts", "tsx"} =>
           adjusted.tsx = (ext = "tsx")
  <2> HIDE DEF merged
  <2>1. QED
    BY <1>3, AdjustFits
<1> HIDE DEF merged, adjusted
<1>5. /\ cfg' \in Configs /\ cfg'.isModule # "unset" /\ cfg'.tsx = adjusted.tsx
      /\ adjusted.lang # "unset" => cfg'.lang = adjusted.lang
  BY <1>1, <1>4 DEF Configs, Langs
<1>6. ConfigVarsOK'
  BY <1>1, <1>2, <1>5 DEF ConfigVarsOK
<1>7. SearchInv'
  BY <1>1 DEF ConfigInv, SearchInv
<1>8. PickInv'
  BY <1>1 DEF ConfigInv, PickInv, ConfigStages
<1>9. MergeInv'
  <2>1. ASSUME call.file.real, rc = DefaultRc, own.lang = "unset", ext \in {"ts", "tsx"}
        PROVE  cfg'.lang = "ts" /\ cfg'.tsx = (ext = "tsx")
    <3>1. /\ picked \in 1..Len(DefaultRc.configs) /\ Matches(DefaultRc.configs[picked], ext)
          /\ cfg = Adjust(DefaultRc.configs[picked], ext)
      BY <1>1, <2>1 DEF ConfigInv, PickInv, MergeInv
    <3>2. DefaultRc.configs[picked].lang = "ts"
      BY <3>1, <2>1, DefaultIsTypescript
    <3>3. DefaultRc.configs[picked] \in Configs
      BY <3>1, DefaultRcIsOne, ElementOfSeq DEF IsRc
    <3>4. cfg.lang = "ts"
      BY <3>1, <3>2, <3>3, AdjustFits
    <3>5. QED
      BY <3>4, <2>1, <1>3, <1>4, <1>5
  <2>2. TypescriptByDefault'
    BY <1>1, <2>1 DEF TypescriptByDefault
  <2>3. QED
    BY <1>1, <1>5, <2>2 DEF MergeInv
<1>10. QED
  BY <1>6, <1>7, <1>8, <1>9 DEF ConfigInv

\* Every step of the configuration.
LEMMA ConfigSteps == ASSUME ConfigInv, ConfigNext PROVE ConfigInv'
  BY StepMatchOptions, StepSearchUp, StepLoad, StepPick, StepMergeConfig DEF ConfigNext

\* The properties of the configuration follow.
LEMMA ConfigSound ==
    ASSUME ConfigInv
    PROVE  /\ ConfigTypeOK /\ SearchStaysUnderRoot /\ OnlyMatchingFiles /\ TypescriptByDefault
           /\ ExcludedStaysOut
<1>1. ConfigTypeOK
  BY DEF ConfigInv, ConfigVarsOK, ConfigTypeOK
<1>2. SearchStaysUnderRoot
  BY ConfigAssumption DEF ConfigInv, SearchInv, SearchStaysUnderRoot
<1>3. DOMAIN rc.configs = 1..Len(rc.configs)
  BY LenProperties DEF ConfigInv, ConfigVarsOK, IsRc
<1>4. OnlyMatchingFiles
  BY <1>3 DEF ConfigInv, PickInv, OnlyMatchingFiles, ConfigStages
<1>5. TypescriptByDefault
  BY DEF ConfigInv, MergeInv
<1>6. ExcludedStaysOut
  BY DEF ConfigInv, PickInv, ExcludedStaysOut, Matches, Hits
<1>7. QED
  BY <1>1, <1>2, <1>4, <1>5, <1>6

-----------------------------------------------------------------------------
(* The passes of a compilation and their order.                              *)

\* Every pass that a compilation can have.
Passes ==
  {"plugins", "decorators", "strip", "before", "jsx", "compat", "helpers", "minifier", "hygiene",
   "fixer", "jest", "comments", "after", "resolver"}

\* Something is x.
Has(s, x) == \E i \in 1..Len(s) : s[i] = x

\* Exactly one is x.
Once(s, x) == \E k \in 1..Len(s) : s[k] = x /\ \A j \in 1..Len(s) : s[j] = x => j = k

\* Nothing is y before something is x.
Precedes(s, x, y) == \A k \in 1..Len(s) : s[k] = y => \E j \in 1..(k - 1) : s[j] = x

\* Something is x, and nothing after that is y.
LastNot(s, x, y) == \E k \in 1..Len(s) : s[k] = x /\ \A j \in (k + 1)..Len(s) : s[j] # y

\* Lists of passes, one behind the other.
LEMMA Joined ==
    ASSUME NEW s \in Seq(Passes), NEW t \in Seq(Passes)
    PROVE  /\ s \o t \in Seq(Passes)
           /\ \A x : Has(s \o t, x) <=> Has(s, x) \/ Has(t, x)
           /\ \A x : Once(s, x) /\ ~Has(t, x) => Once(s \o t, x)
           /\ \A x : ~Has(s, x) /\ Once(t, x) => Once(s \o t, x)
           /\ \A x, y : Precedes(s, x, y) /\ (Has(s, x) \/ ~Has(t, y)) => Precedes(s \o t, x, y)
           /\ \A x, y : LastNot(t, x, y) => LastNot(s \o t, x, y)
           /\ \A x, y : LastNot(s, x, y) /\ ~Has(t, y) => LastNot(s \o t, x, y)
<1>1. PICK u : u = s \o t
  OBVIOUS
<1>2. PICK m \in Nat, n \in Nat : m = Len(s) /\ n = Len(t)
  BY LenProperties
<1>3. /\ u \in Seq(Passes) /\ Len(u) = m + n
      /\ \A i \in 1..(m + n) : u[i] = IF i <= m THEN s[i] ELSE t[i - m]
  BY <1>1, <1>2, ConcatProperties
<1>4. \A i \in 1..m : i \in 1..(m + n) /\ u[i] = s[i]
  <2>1. \A i \in 1..m : i \in 1..(m + n) /\ i <= m
    OBVIOUS
  <2>2. QED
    BY <2>1, <1>3
<1>5. \A i \in 1..n : m + i \in 1..(m + n) /\ u[m + i] = t[i]
  <2>1. \A i \in 1..n : m + i \in 1..(m + n) /\ ~(m + i <= m) /\ m + i - m = i
    OBVIOUS
  <2>2. QED
    BY <2>1, <1>3
<1>6. \A i \in 1..(m + n) : i \in 1..m \/ (i - m \in 1..n /\ m + (i - m) = i)
  OBVIOUS
<1>7. \A x : Has(u, x) <=> Has(s, x) \/ Has(t, x)
  <2>1. \A x : Has(s, x) => Has(u, x)
    BY <1>2, <1>3, <1>4 DEF Has
  <2>2. \A x : Has(t, x) => Has(u, x)
    BY <1>2, <1>3, <1>5 DEF Has
  <2>3. ASSUME NEW x, Has(u, x) PROVE Has(s, x) \/ Has(t, x)
    <3>1. PICK i \in 1..(m + n) : u[i] = x
      BY <2>3, <1>3 DEF Has
    <3>2. CASE i \in 1..m
      BY <3>1, <3>2, <1>2, <1>4 DEF Has
    <3>3. CASE i - m \in 1..n /\ m + (i - m) = i
      <4>1. t[i - m] = x
        BY <3>1, <3>3, <1>5
      <4>2. QED
        BY <4>1, <3>3, <1>2 DEF Has
    <3>4. QED
      BY <3>2, <3>3, <1>6
  <2>4. QED
    BY <2>1, <2>2, <2>3
<1>8. ASSUME NEW x, Once(s, x), ~Has(t, x) PROVE Once(u, x)
  <2>1. PICK k \in 1..m : s[k] = x /\ \A j \in 1..m : s[j] = x => j = k
    BY <1>2, <1>8 DEF Once
  <2>2. ASSUME NEW j \in 1..(m + n), u[j] = x PROVE j = k
    <3>1. CASE j \in 1..m
      BY <3>1, <2>1, <2>2, <1>4
    <3>2. CASE j - m \in 1..n /\ m + (j - m) = j
      <4>1. t[j - m] = x
        BY <3>2, <2>2, <1>5
      <4>2. QED
        BY <4>1, <3>2, <1>2, <1>8 DEF Has
    <3>3. QED
      BY <3>1, <3>2, <1>6
  <2>3. k \in 1..(m + n) /\ u[k] = x
    BY <2>1, <1>4
  <2>4. QED
    BY <2>2, <2>3, <1>3 DEF Once
<1>9. ASSUME NEW x, ~Has(s, x), Once(t, x) PROVE Once(u, x)
  <2>1. PICK k \in 1..n : t[k] = x /\ \A j \in 1..n : t[j] = x => j = k
    BY <1>2, <1>9 DEF Once
  <2>2. ASSUME NEW j \in 1..(m + n), u[j] = x PROVE j = m + k
    <3>1. CASE j \in 1..m
      BY <3>1, <2>2, <1>2, <1>4, <1>9 DEF Has
    <3>2. CASE j - m \in 1..n /\ m + (j - m) = j
      <4>1. j - m = k
        BY <3>2, <2>1, <2>2, <1>5
      <4>2. QED
        BY <4>1, <3>2
    <3>3. QED
      BY <3>1, <3>2, <1>6
  <2>3. m + k \in 1..(m + n) /\ u[m + k] = x
    BY <2>1, <1>5
  <2>4. QED
    BY <2>2, <2>3, <1>3 DEF Once
<1>10. ASSUME NEW x, NEW y, Precedes(s, x, y), Has(s, x) \/ ~Has(t, y) PROVE Precedes(u, x, y)
  <2>1. ASSUME NEW k \in 1..(m + n), u[k] = y PROVE \E j \in 1..(k - 1) : u[j] = x
    <3>1. CASE k \in 1..m
      <4>1. PICK j \in 1..(k - 1) : s[j] = x
        BY <3>1, <2>1, <1>2, <1>4, <1>10 DEF Precedes
      <4>2. j \in 1..m
        BY <3>1
      <4>3. QED
        BY <4>1, <4>2, <1>4
    <3>2. CASE k - m \in 1..n /\ m + (k - m) = k
      <4>1. t[k - m] = y
        BY <3>2, <2>1, <1>5
      <4>2. Has(s, x)
        BY <4>1, <3>2, <1>2, <1>10 DEF Has
      <4>3. PICK j \in 1..m : s[j] = x
        BY <4>2, <1>2 DEF Has
      <4>4. j \in 1..(k - 1)
        BY <3>2
      <4>5. QED
        BY <4>3, <4>4, <1>4
    <3>3. QED
      BY <3>1, <3>2, <1>6
  <2>2. QED
    BY <2>1, <1>3 DEF Precedes
<1>11. ASSUME NEW x, NEW y, LastNot(t, x, y) PROVE LastNot(u, x, y)
  <2>1. PICK k \in 1..n : t[k] = x /\ \A j \in (k + 1)..n : t[j] # y
    BY <1>2, <1>11 DEF LastNot
  <2>2. ASSUME NEW j \in (m + k + 1)..(m + n) PROVE u[j] # y
    <3>1. j - m \in 1..n /\ j - m \in (k + 1)..n /\ m + (j - m) = j
      OBVIOUS
    <3>2. t[j - m] # y /\ u[m + (j - m)] = t[j - m]
      BY <3>1, <2>1, <1>5
    <3>3. QED
      BY <3>1, <3>2
  <2>3. m + k \in 1..(m + n) /\ u[m + k] = x
    BY <2>1, <1>5
  <2>4. QED
    BY <2>2, <2>3, <1>3 DEF LastNot
<1>12. ASSUME NEW x, NEW y, LastNot(s, x, y), ~Has(t, y) PROVE LastNot(u, x, y)
  <2>1. PICK k \in 1..m : s[k] = x /\ \A j \in (k + 1)..m : s[j] # y
    BY <1>2, <1>12 DEF LastNot
  <2>2. ASSUME NEW j \in (k + 1)..(m + n) PROVE u[j] # y
    <3>1. CASE j \in 1..m
      <4>1. j \in (k + 1)..m
        BY <3>1
      <4>2. QED
        BY <3>1, <4>1, <2>1, <1>4
    <3>2. CASE j - m \in 1..n /\ m + (j - m) = j
      <4>1. u[m + (j - m)] = t[j - m] /\ t[j - m] # y
        BY <3>2, <1>2, <1>5, <1>12 DEF Has
      <4>2. QED
        BY <4>1, <3>2
    <3>3. j \in 1..(m + n)
      OBVIOUS
    <3>4. QED
      BY <3>1, <3>2, <3>3, <1>6
  <2>3. k \in 1..(m + n) /\ u[k] = x
    BY <2>1, <1>4
  <2>4. QED
    BY <2>2, <2>3, <1>3 DEF LastNot
<1>13. QED
  BY <1>1, <1>3, <1>7, <1>8, <1>9, <1>10, <1>11, <1>12

\* A list of one.
LEMMA OneElement ==
    ASSUME NEW S, NEW e \in S
    PROVE  <<e>> \in Seq(S)
<1>1. << >> \in Seq(S) /\ Append(<< >>, e) = <<e>>
  OBVIOUS
<1>2. QED
  BY <1>1, AppendProperties

\* One pass, or none.
LEMMA Single ==
    ASSUME NEW p \in Passes
    PROVE  /\ <<p>> \in Seq(Passes) /\ \A x : Has(<<p>>, x) <=> p = x
           /\ Once(<<p>>, p) /\ \A y : LastNot(<<p>>, p, y)
           /\ \A x, y : p # y => Precedes(<<p>>, x, y)
<1>1. PICK u : u = <<p>>
  OBVIOUS
<1>2. u \in Seq(Passes) /\ Len(u) = 1 /\ u[1] = p
  <2>a. <<p>> \in Seq(Passes)
    BY OneElement
  <2>b. Len(<<p>>) = 1
    OBVIOUS
  <2>c. <<p>>[1] = p
    OBVIOUS
  <2>1. <<p>> \in Seq(Passes) /\ Len(<<p>>) = 1 /\ <<p>>[1] = p
    BY <2>a, <2>b, <2>c
  <2>2. QED
    BY <1>1, <2>1
<1>3. 1..Len(u) = {1} /\ 2..Len(u) = {}
  BY <1>2
<1>4. \A x : Has(u, x) <=> p = x
  BY <1>2, <1>3 DEF Has
<1>5. Once(u, p)
  BY <1>2, <1>3 DEF Once
<1>6. ASSUME NEW y PROVE LastNot(u, p, y)
  <2>1. 1 \in 1..Len(u) /\ (1 + 1)..Len(u) = {}
    BY <1>2
  <2>2. QED
    BY <1>2, <2>1 DEF LastNot
<1>7. \A x, y : p # y => Precedes(u, x, y)
  BY <1>2, <1>3 DEF Precedes
<1>8. QED
  BY <1>1, <1>2, <1>4, <1>5, <1>6, <1>7

\* A pass that a test decides.
LEMMA Perhaps ==
    ASSUME NEW p \in Passes, NEW test
    PROVE  /\ If(test, p) \in Seq(Passes) /\ \A x : Has(If(test, p), x) <=> test /\ p = x
           /\ test => Once(If(test, p), p) /\ \A y : LastNot(If(test, p), p, y)
           /\ \A x, y : p # y => Precedes(If(test, p), x, y)
<1>1. CASE test
  <2>1. If(test, p) = <<p>>
    BY <1>1 DEF If
  <2>2. /\ <<p>> \in Seq(Passes) /\ \A x : Has(<<p>>, x) <=> p = x
        /\ Once(<<p>>, p) /\ \A y : LastNot(<<p>>, p, y)
        /\ \A x, y : p # y => Precedes(<<p>>, x, y)
    BY Single
  <2>3. \A x : Has(<<p>>, x) <=> test /\ p = x
    BY <1>1, <2>2
  <2>4. QED
    BY <2>1, <2>2, <2>3
<1>2. CASE ~test
  <2>1. If(test, p) = << >>
    BY <1>2 DEF If
  <2>2. << >> \in Seq(Passes) /\ 1..Len(<< >>) = {}
    BY EmptySeq
  <2>3. QED
    BY <1>2, <2>1, <2>2 DEF Has, Precedes
<1>3. QED
  BY <1>1, <1>2

\* The passes that a compilation has in all.
ThePasses ==
  (IF build.internal THEN <<"plugins">>
   ELSE HeadPasses(build, MinifierOf(build)) \o TailPasses(build, MinifierOf(build)))
    \o <<"after">>

\* The passes up to the custom one: the plugins once, decorators and types before the custom one.
LEMMA HeadFits ==
    ASSUME NEW b, NEW m, NEW u, u = HeadPasses(b, m)
    PROVE  /\ u \in Seq(Passes) /\ Once(u, "plugins") /\ Precedes(u, "decorators", "before")
           /\ TypedSyntax => Precedes(u, "strip", "before")
           /\ Has(u, "decorators") /\ (TypedSyntax => Has(u, "strip"))
<1>p. /\ "plugins" \in Passes /\ "decorators" \in Passes /\ "strip" \in Passes
      /\ "before" \in Passes /\ "jsx" \in Passes
  BY DEF Passes
<1> DEFINE s1 == If(b.pluginFirst, "plugins")
           s2 == s1 \o <<"decorators">>
           s3 == s2 \o If(TypedSyntax, "strip")
           s4 == s3 \o If(~b.pluginFirst, "plugins")
           s5 == s4 \o <<"before">>
           s6 == s5 \o <<"jsx">>
<1>1. u = s6
  BY DEF HeadPasses
<1>2. /\ s1 \in Seq(Passes) /\ \A x : Has(s1, x) <=> b.pluginFirst /\ "plugins" = x
      /\ b.pluginFirst => Once(s1, "plugins")
      /\ \A x : Precedes(s1, x, "before")
  BY Perhaps, <1>p
<1>3. /\ s2 \in Seq(Passes) /\ \A x : Has(s2, x) <=> Has(s1, x) \/ "decorators" = x
      /\ b.pluginFirst => Once(s2, "plugins")
      /\ \A x : Precedes(s2, x, "before")
  <2> HIDE DEF s1
  <2>1. <<"decorators">> \in Seq(Passes) /\ \A x : Has(<<"decorators">>, x) <=> "decorators" = x
    BY Single, <1>p
  <2>2. QED
    BY <1>2, <2>1, Joined
<1>4. /\ s3 \in Seq(Passes)
      /\ \A x : Has(s3, x) <=> Has(s2, x) \/ (TypedSyntax /\ "strip" = x)
      /\ b.pluginFirst => Once(s3, "plugins")
      /\ \A x : Precedes(s3, x, "before")
  <2> HIDE DEF s2
  <2>1. /\ If(TypedSyntax, "strip") \in Seq(Passes)
        /\ \A x : Has(If(TypedSyntax, "strip"), x) <=> TypedSyntax /\ "strip" = x
    BY Perhaps, <1>p
  <2>2. QED
    BY <1>3, <2>1, Joined
<1>5. /\ s4 \in Seq(Passes)
      /\ \A x : Has(s4, x) <=> Has(s3, x) \/ (~b.pluginFirst /\ "plugins" = x)
      /\ Once(s4, "plugins") /\ \A x : Precedes(s4, x, "before")
  <2>1. /\ If(~b.pluginFirst, "plugins") \in Seq(Passes)
        /\ \A x : Has(If(~b.pluginFirst, "plugins"), x) <=> ~b.pluginFirst /\ "plugins" = x
        /\ ~b.pluginFirst => Once(If(~b.pluginFirst, "plugins"), "plugins")
    BY Perhaps, <1>p
  <2>2. ~b.pluginFirst => ~Has(s3, "plugins")
    BY <1>2, <1>3, <1>4
  <2> HIDE DEF s3
  <2>3. Once(s4, "plugins")
    <3>1. CASE b.pluginFirst
      BY <3>1, <1>4, <2>1, Joined
    <3>2. CASE ~b.pluginFirst
      BY <3>2, <1>4, <2>1, <2>2, Joined
    <3>3. QED
      BY <3>1, <3>2
  <2>4. QED
    BY <1>4, <2>1, <2>3, Joined
<1>6. Has(s4, "decorators") /\ (TypedSyntax => Has(s4, "strip"))
  BY <1>3, <1>4, <1>5
<1>7. /\ s5 \in Seq(Passes) /\ \A x : Has(s5, x) <=> Has(s4, x) \/ "before" = x
      /\ Once(s5, "plugins") /\ Precedes(s5, "decorators", "before")
      /\ TypedSyntax => Precedes(s5, "strip", "before")
  <2> HIDE DEF s4
  <2>1. <<"before">> \in Seq(Passes) /\ \A x : Has(<<"before">>, x) <=> "before" = x
    BY Single, <1>p
  <2>2. QED
    BY <1>5, <1>6, <2>1, Joined
<1>8. /\ s6 \in Seq(Passes) /\ \A x : Has(s6, x) <=> Has(s5, x) \/ "jsx" = x
      /\ Once(s6, "plugins") /\ Precedes(s6, "decorators", "before")
      /\ TypedSyntax => Precedes(s6, "strip", "before")
  <2> HIDE DEF s5
  <2>1. <<"jsx">> \in Seq(Passes) /\ \A x : Has(<<"jsx">>, x) <=> "jsx" = x
    BY Single, <1>p
  <2>2. QED
    BY <1>7, <2>1, Joined
<1>9. Has(s6, "decorators") /\ (TypedSyntax => Has(s6, "strip"))
  BY <1>6, <1>7, <1>8
<1>10. QED
  BY <1>1, <1>8, <1>9

\* The passes behind the custom one: a minifier that mangles, or hygiene behind the minifier.
LEMMA TailFits ==
    ASSUME NEW b, NEW m, NEW u, u = TailPasses(b, m)
    PROVE  /\ u \in Seq(Passes) /\ ~Has(u, "plugins") /\ ~Has(u, "before")
           /\ IsManglerEnabled(m) => Has(u, "minifier")
           /\ ~b.noHygiene /\ ~IsManglerEnabled(m) => LastNot(u, "hygiene", "minifier")
<1>p. /\ "compat" \in Passes /\ "helpers" \in Passes /\ "minifier" \in Passes
      /\ "hygiene" \in Passes /\ "fixer" \in Passes /\ "jest" \in Passes
      /\ "comments" \in Passes
  BY DEF Passes
<1> DEFINE hygiene == ~b.noHygiene /\ ~IsManglerEnabled(m)
           s1 == <<"compat">>
           s2 == s1 \o If(b.helpers, "helpers")
           s3 == s2 \o If(m.on, "minifier")
           s4 == s3 \o If(hygiene, "hygiene")
           s5 == <<"fixer", "jest", "comments">>
<1>1. u = s4 \o s5
  BY DEF TailPasses
<1>2. s1 \in Seq(Passes) /\ \A x : Has(s1, x) <=> "compat" = x
  BY Single, <1>p
<1>3. /\ s2 \in Seq(Passes)
      /\ \A x : Has(s2, x) <=> Has(s1, x) \/ (b.helpers /\ "helpers" = x)
  <2> HIDE DEF s1
  <2>1. /\ If(b.helpers, "helpers") \in Seq(Passes)
        /\ \A x : Has(If(b.helpers, "helpers"), x) <=> b.helpers /\ "helpers" = x
    BY Perhaps, <1>p
  <2>2. QED
    BY <1>2, <2>1, Joined
<1>4. /\ s3 \in Seq(Passes)
      /\ \A x : Has(s3, x) <=> Has(s2, x) \/ (m.on /\ "minifier" = x)
  <2> HIDE DEF s2
  <2>1. /\ If(m.on, "minifier") \in Seq(Passes)
        /\ \A x : Has(If(m.on, "minifier"), x) <=> m.on /\ "minifier" = x
    BY Perhaps, <1>p
  <2>2. QED
    BY <1>3, <2>1, Joined
<1>5. /\ s4 \in Seq(Passes)
      /\ \A x : Has(s4, x) <=> Has(s3, x) \/ (hygiene /\ "hygiene" = x)
      /\ hygiene => LastNot(s4, "hygiene", "minifier")
  <2> HIDE DEF s3, hygiene
  <2>1. /\ If(hygiene, "hygiene") \in Seq(Passes)
        /\ \A x : Has(If(hygiene, "hygiene"), x) <=> hygiene /\ "hygiene" = x
        /\ hygiene => LastNot(If(hygiene, "hygiene"), "hygiene", "minifier")
    BY Perhaps, <1>p
  <2>2. QED
    BY <1>4, <2>1, Joined
<1>6. /\ s5 \in Seq(Passes)
      /\ \A x : Has(s5, x) => x \in {"fixer", "jest", "comments"}
  <2>1. PICK s : s = s5
    OBVIOUS
  <2>2. <<"fixer">> \in Seq(Passes) /\ <<"fixer", "jest">> = Append(<<"fixer">>, "jest")
        /\ <<"fixer", "jest", "comments">> = Append(<<"fixer", "jest">>, "comments")
    BY OneElement, <1>p
  <2>3. s5 \in Seq(Passes)
    BY <2>2, AppendProperties, <1>p
  <2>4. Len(s5) = 3 /\ s5[1] = "fixer" /\ s5[2] = "jest" /\ s5[3] = "comments"
    OBVIOUS
  <2>5. \A i \in 1..3 : s5[i] \in {"fixer", "jest", "comments"}
    BY <2>4
  <2> HIDE DEF s5
  <2>6. QED
    BY <2>3, <2>4, <2>5 DEF Has
<1> HIDE DEF s4, s5, hygiene
<1>7. /\ u \in Seq(Passes) /\ \A x : Has(u, x) <=> Has(s4, x) \/ Has(s5, x)
      /\ hygiene => LastNot(u, "hygiene", "minifier")
  BY <1>1, <1>5, <1>6, Joined
<1>8. ~Has(u, "plugins") /\ ~Has(u, "before")
  BY <1>2, <1>3, <1>4, <1>5, <1>6, <1>7
<1>9. IsManglerEnabled(m) => Has(u, "minifier")
  BY <1>4, <1>5, <1>7 DEF IsManglerEnabled
<1>10. QED
  BY <1>7, <1>8, <1>9 DEF hygiene

\* The passes are in an order that suits them.
LEMMA PassesInOrder ==
    ASSUME NEW m, m = MinifierOf(build)
    PROVE  /\ ThePasses \in Seq(Passes) /\ Once(ThePasses, "plugins")
           /\ Precedes(ThePasses, "decorators", "before")
           /\ TypedSyntax => Precedes(ThePasses, "strip", "before")
           /\ ~build.internal /\ IsManglerEnabled(m) => Has(ThePasses, "minifier")
           /\ ~build.internal /\ ~build.noHygiene /\ ~IsManglerEnabled(m) =>
                LastNot(ThePasses, "hygiene", "minifier")
<1>p. "plugins" \in Passes /\ "after" \in Passes
  BY DEF Passes
<1>0. <<"after">> \in Seq(Passes) /\ \A x : Has(<<"after">>, x) <=> "after" = x
  BY Single, <1>p
<1>1. CASE build.internal
  <2>1. ThePasses = <<"plugins">> \o <<"after">>
    BY <1>1 DEF ThePasses
  <2>2. <<"plugins">> \in Seq(Passes) /\ Once(<<"plugins">>, "plugins")
        /\ \A x : Precedes(<<"plugins">>, x, "before")
    BY Single, <1>p
  <2>3. QED
    BY <1>0, <1>1, <2>1, <2>2, Joined
<1>2. CASE ~build.internal
  <2>1. PICK h : h = HeadPasses(build, m)
    OBVIOUS
  <2>2. PICK t : t = TailPasses(build, m)
    OBVIOUS
  <2>3. /\ h \in Seq(Passes) /\ Once(h, "plugins") /\ Precedes(h, "decorators", "before")
        /\ TypedSyntax => Precedes(h, "strip", "before")
        /\ Has(h, "decorators") /\ (TypedSyntax => Has(h, "strip"))
    BY <2>1, HeadFits
  <2>4. /\ t \in Seq(Passes) /\ ~Has(t, "plugins") /\ ~Has(t, "before")
        /\ IsManglerEnabled(m) => Has(t, "minifier")
        /\ ~build.noHygiene /\ ~IsManglerEnabled(m) => LastNot(t, "hygiene", "minifier")
    BY <2>2, TailFits
  <2>5. PICK u : u = h \o t
    OBVIOUS
  <2>6. /\ u \in Seq(Passes) /\ Once(u, "plugins") /\ Precedes(u, "decorators", "before")
        /\ TypedSyntax => Precedes(u, "strip", "before")
        /\ IsManglerEnabled(m) => Has(u, "minifier")
        /\ ~build.noHygiene /\ ~IsManglerEnabled(m) => LastNot(u, "hygiene", "minifier")
    BY <2>3, <2>4, <2>5, Joined
  <2>7. ThePasses = u \o <<"after">>
    BY <1>2, <2>1, <2>2, <2>5 DEF ThePasses
  <2>8. QED
    BY <1>0, <2>6, <2>7, Joined
<1>3. QED
  BY <1>1, <1>2

-----------------------------------------------------------------------------
(* The compilation.                                                          *)

\* The stages at which there is a program.
Compiled == {"build", "map", "run", "printed"}

\* The types of the compilation.
CompileVarsOK ==
    /\ CompileTypeOK /\ input \in Inputs /\ build \in BuildOptions
    /\ prog = [kind |-> prog.kind, items |-> prog.items]
    /\ applied \in Seq(Passes) /\ queue \in Seq(Passes)

\* The two entries; a transformation has run nothing before it is built.
EntryInv ==
    /\ build.entry = "minify" =>
         /\ build.isModule # "unset" /\ stage \in {"match", "build", "printed", "failed"}
         /\ ~Has(applied, "before") /\ (stage = "printed" => ~contexts)
    /\ stage \in ConfigStages \union {"build"} => applied = << >>

\* A script has nothing that belongs into a module; what was asked to be a script is one, or is
\* going to be.
ScriptInv ==
    /\ prog.kind = "script" => \A i \in prog.items : ~IsModuleDecl(i)
    /\ stage \in Compiled /\ build.entry = "transform" /\ ~input.given /\ cfg.isModule = "script" =>
         prog.kind = "script" \/ scriptLike
    /\ ScriptStaysScript

\* Statements that run are there as soon as the program is, but for a failure that was told.
LossInv ==
    stage \in Compiled /\ ~told => \A i \in input.items : IsRuntimeStmt(i) => i \in prog.items

\* A pass after which names differ in their text.
Cleans(pass) == pass = "hygiene" \/ (pass = "minifier" /\ minOpts.mangle)

\* What has run and what is left are the passes; contexts tell names apart only if there was no
\* hygiene since the last minifier.
PassInv ==
    build.entry = "transform" =>
      /\ \A i \in 1..Len(applied) : i \in 1..Len(ThePasses) /\ applied[i] = ThePasses[i]
      /\ stage \in {"map", "run", "printed"} =>
           /\ minOpts = MinifierOf(build)
           /\ Len(queue) = Len(ThePasses) - Len(applied)
           /\ \A i \in 1..Len(queue) : queue[i] = ThePasses[Len(applied) + i]
           /\ contexts => \A i \in 1..Len(applied) : Cleans(applied[i]) =>
                            \E j \in (i + 1)..Len(applied) : applied[j] = "minifier" /\ ~minOpts.mangle
      /\ stage = "printed" => queue = << >>

\* The invariant of the compilation.
CompileInv ==
    /\ ConfigInv /\ CompileVarsOK /\ EntryInv /\ ScriptInv /\ LossInv /\ PassInv /\ MapsDoNotFail

\* Nothing is in an empty list.
LEMMA EmptyHas == \A x : ~Has(<< >>, x)
<1>1. 1..Len(<< >>) = {}
  BY EmptySeq
<1>2. QED
  BY <1>1 DEF Has

\* The passes are a list of passes.
LEMMA ThePassesAreAList == ThePasses \in Seq(Passes) /\ Len(ThePasses) \in Nat
  BY PassesInOrder, LenProperties

\* A compilation starts before its configuration.
LEMMA CompileInitially ==
    ASSUME NEW c \in Compilations, CompileStart(c)
    PROVE  CompileInv
<1>1. /\ c.call \in Calls /\ c.input \in Inputs /\ c.build \in BuildOptions
      /\ c.build.entry = "minify" => c.build.isModule # "unset"
  BY CompilationsAssumption
<1>2. /\ ConfigInit(c.call) /\ input = c.input /\ build = c.build
      /\ prog = [kind |-> "script", items |-> {}]
      /\ scriptLike = FALSE /\ contexts = FALSE /\ told = FALSE
      /\ minOpts = NoMinify /\ queue = << >> /\ applied = << >>
  BY DEF CompileStart
<1>3. ConfigInv /\ stage = "match" /\ why = ""
  BY <1>1, <1>2, ConfigInitially DEF ConfigInit
<1>4. << >> \in Seq(Passes) /\ Len(<< >>) = 0
  BY EmptySeq
<1>5. CompileVarsOK
  BY <1>1, <1>2, <1>3, <1>4 DEF CompileVarsOK, CompileTypeOK, NoMinify
<1>6. EntryInv /\ ScriptInv /\ LossInv /\ MapsDoNotFail
  BY <1>1, <1>2, <1>3, EmptyHas
     DEF EntryInv, ScriptInv, LossInv, MapsDoNotFail, ScriptStaysScript, Compiled
<1>7. PassInv
  <2>1. 1..Len(applied) = {}
    BY <1>2, <1>4
  <2>2. QED
    BY <2>1, <1>3 DEF PassInv
<1>8. QED
  BY <1>3, <1>5, <1>6, <1>7 DEF CompileInv

\* The properties of the compilation follow.
LEMMA CompileSound ==
    ASSUME CompileInv
    PROVE  /\ CompileTypeOK /\ ScriptStaysScript /\ LossIsTold /\ CustomSeesStripped
           /\ NamesAreClean /\ MapsDoNotFail
<1> DEFINE n == Len(ThePasses)
           m == MinifierOf(build)
<1>1. CompileTypeOK /\ ScriptStaysScript /\ MapsDoNotFail
  BY DEF CompileInv, CompileVarsOK, ScriptInv
<1>2. LossIsTold
  BY DEF CompileInv, LossInv, LossIsTold, Compiled
<1>3. /\ applied \in Seq(Passes) /\ Len(applied) \in Nat /\ DOMAIN applied = 1..Len(applied)
      /\ ThePasses \in Seq(Passes) /\ n \in Nat
  BY LenProperties, ThePassesAreAList DEF CompileInv, CompileVarsOK
<1>4. build.entry = "transform" \/ build.entry = "minify"
  BY DEF CompileInv, CompileVarsOK, BuildOptions
<1>5. build.entry = "transform" =>
        \A i \in 1..Len(applied) : i \in 1..n /\ applied[i] = ThePasses[i]
  BY DEF CompileInv, PassInv
<1>6. ASSUME NEW k \in DOMAIN applied, applied[k] = "before", NEW x, Precedes(ThePasses, x, "before")
      PROVE  \E j \in 1..(k - 1) : applied[j] = x
  <2>1. k \in 1..Len(applied) /\ build.entry = "transform"
    BY <1>3, <1>4, <1>6 DEF CompileInv, EntryInv, Has
  <2>2. k \in 1..n /\ ThePasses[k] = "before"
    BY <2>1, <1>3, <1>5, <1>6
  <2>3. PICK j \in 1..(k - 1) : ThePasses[j] = x
    BY <2>2, <1>6 DEF Precedes
  <2>4. j \in 1..Len(applied)
    BY <2>1, <1>3
  <2>5. QED
    BY <2>1, <2>3, <2>4, <1>5
<1>7. ASSUME stage = "printed", build.entry = "transform" PROVE Len(applied) = n
  BY <1>3, <1>7, EmptySeq DEF CompileInv, PassInv
<1>8. CustomSeesStripped
  <2>1. ASSUME NEW k \in DOMAIN applied, applied[k] = "before"
        PROVE  /\ \E j \in 1..(k - 1) : applied[j] = "decorators"
               /\ TypedSyntax => \E j \in 1..(k - 1) : applied[j] = "strip"
    BY <2>1, <1>6, PassesInOrder
  <2>2. ASSUME stage = "printed", build.entry = "transform"
        PROVE  Cardinality({k \in DOMAIN applied : applied[k] = "plugins"}) = 1
    <3>1. PICK k \in 1..n : /\ ThePasses[k] = "plugins"
                            /\ \A j \in 1..n : ThePasses[j] = "plugins" => j = k
      BY PassesInOrder DEF Once
    <3>2. \A i \in 1..n : applied[i] = ThePasses[i]
      BY <2>2, <1>5, <1>7
    <3>3. DOMAIN applied = 1..n
      BY <2>2, <1>3, <1>7
    <3> HIDE DEF n
    <3>4. {i \in DOMAIN applied : applied[i] = "plugins"} = {k}
      BY <3>1, <3>2, <3>3
    <3>5. QED
      BY <3>4, FS_Singleton
  <2>3. QED
    BY <2>1, <2>2 DEF CustomSeesStripped
<1>9. ASSUME stage = "printed", ~build.noHygiene, ~build.internal, contexts PROVE FALSE
  <2>1. CASE build.entry = "minify"
    BY <1>9, <2>1 DEF CompileInv, EntryInv
  <2>2. CASE build.entry = "transform"
    <3>1. /\ minOpts = m /\ Len(applied) = n /\ \A i \in 1..n : applied[i] = ThePasses[i]
          /\ \A i \in 1..n : Cleans(applied[i]) =>
               \E j \in (i + 1)..n : applied[j] = "minifier" /\ ~minOpts.mangle
      BY <1>5, <1>7, <1>9, <2>2 DEF CompileInv, PassInv
    <3>2. CASE IsManglerEnabled(m)
      <4>1. PICK i \in 1..n : ThePasses[i] = "minifier"
        BY <3>2, <1>9, PassesInOrder DEF Has
      <4>2. Cleans(applied[i]) /\ minOpts.mangle
        BY <4>1, <3>1, <3>2 DEF Cleans, IsManglerEnabled
      <4>3. QED
        BY <4>2, <3>1
    <3>3. CASE ~IsManglerEnabled(m)
      <4>1. PICK i \in 1..n : /\ ThePasses[i] = "hygiene"
                              /\ \A j \in (i + 1)..n : ThePasses[j] # "minifier"
        BY <3>3, <1>9, PassesInOrder DEF LastNot
      <4>2. PICK j \in (i + 1)..n : applied[j] = "minifier"
        BY <4>1, <3>1 DEF Cleans
      <4>3. j \in 1..n
        BY <1>3
      <4>4. QED
        BY <4>1, <4>2, <4>3, <3>1
    <3>4. QED
      BY <3>2, <3>3
  <2>3. QED
    BY <2>1, <2>2, <1>4
<1>10. NamesAreClean
  BY <1>9 DEF NamesAreClean
<1>11. QED
  BY <1>1, <1>2, <1>8, <1>10

\* A step of the configuration.
LEMMA StepConfig ==
    ASSUME CompileInv, build.entry = "transform", ConfigNext, UNCHANGED compileVars
    PROVE  CompileInv'
<1>1. UNCHANGED <<input, build, prog, scriptLike, contexts, minOpts, queue, applied, told, call>>
  BY DEF compileVars, ConfigNext, MatchOptions, SearchUp, Load, Pick, MergeConfig
<1>2. /\ stage \in ConfigStages /\ stage' \in ConfigStages \union {"failed", "ignored"}
      /\ why' = why \/ why' = "config"
  <2>1. CASE MatchOptions
    BY <2>1 DEF MatchOptions, NotFound, Quit, ConfigStages
  <2>2. CASE SearchUp
    BY <2>2 DEF SearchUp, NotFound, Quit, ConfigStages
  <2>3. CASE Load
    BY <2>3 DEF Load, Quit, ConfigStages
  <2>4. CASE Pick
    BY <2>4 DEF Pick, Quit, ConfigStages
  <2>5. CASE MergeConfig
    BY <2>5 DEF MergeConfig, Quit, ConfigStages
  <2>6. QED
    BY <2>1, <2>2, <2>3, <2>4, <2>5 DEF ConfigNext
<1>3. ConfigInv'
  BY ConfigSteps DEF CompileInv
<1>4. applied = << >> /\ Len(applied) = 0
  BY <1>2, EmptySeq DEF CompileInv, EntryInv
<1>5. CompileVarsOK'
  BY <1>1, <1>2 DEF CompileInv, CompileVarsOK, CompileTypeOK, ConfigStages, Ends
<1>6. EntryInv'
  BY <1>1, <1>4 DEF EntryInv
<1>7. ScriptInv' /\ LossInv'
  BY <1>1, <1>2
     DEF CompileInv, ScriptInv, LossInv, ScriptStaysScript, ConfigStages, Compiled, IsModuleDecl
<1>8. PassInv'
  <2>2. stage' \notin {"map", "run", "printed"}
    BY <1>2 DEF ConfigStages
  <2>3. 1..Len(applied') = {}
    BY <1>1, <1>4
  <2>4. QED
    BY <2>2, <2>3 DEF PassInv
<1>9. MapsDoNotFail'
  BY <1>2 DEF CompileInv, MapsDoNotFail
<1>10. QED
  BY <1>3, <1>5, <1>6, <1>7, <1>8, <1>9 DEF CompileInv

\* A script has no import and no export.
LEMMA ParsedKinds ==
    /\ ParsedKind(input) \in {"module", "script"}
    /\ ParsedKind(input) = "script" => \A i \in input.items : ~IsModuleDecl(i)
  BY DEF ParsedKind

\* parse_js fails, or it has the program.
LEMMA ParseJsFits ==
    ASSUME NEW m \in {"module", "script", "unknown"}, ParseJs(m)
    PROVE  \/ stage' = "failed" /\ why' = "syntax" /\ told' = TRUE /\ UNCHANGED prog
           \/ /\ stage' = "build" /\ UNCHANGED <<why, told>>
              /\ prog' = [kind |-> prog'.kind, items |-> input.items]
              /\ prog'.kind \in {"module", "script"}
              /\ prog'.kind = "script" => \A i \in input.items : ~IsModuleDecl(i)
              /\ m = "script" => prog'.kind = "script"
<1>1. CASE input.syntax # "good" \/ (m = "script" /\ ParsedKind(input) = "module")
  BY <1>1 DEF ParseJs, Quit
<1>2. CASE ~(input.syntax # "good" \/ (m = "script" /\ ParsedKind(input) = "module"))
  <2>1. /\ stage' = "build" /\ UNCHANGED <<why, told>>
        /\ prog' = [kind |-> IF m = "unknown" THEN ParsedKind(input) ELSE m,
                    items |-> input.items]
    BY <1>2 DEF ParseJs
  <2>2. QED
    BY <1>2, <2>1, ParsedKinds
<1>3. QED
  BY <1>1, <1>2

\* However a file is parsed, the program has its items, or the handler has the error.
LEMMA ParsedFits ==
    ASSUME CompileInv, Parse
    PROVE  /\ stage = "parse" /\ build.entry = "transform"
           /\ UNCHANGED <<call, at, rc, picked, cfg, input, build, contexts, minOpts, queue, applied>>
           /\ scriptLike' \in BOOLEAN
           /\ \/ stage' = "failed" /\ why' = "syntax" /\ told' = TRUE /\ UNCHANGED prog
              \/ /\ stage' = "build" /\ UNCHANGED <<why, told>>
                 /\ prog' = [kind |-> prog'.kind, items |-> input.items]
                 /\ prog'.kind \in {"module", "script"}
                 /\ prog'.kind = "script" => \A i \in input.items : ~IsModuleDecl(i)
                 /\ ~input.given /\ cfg.isModule = "script" =>
                      prog'.kind = "script" \/ scriptLike' = TRUE
<1>1. /\ stage = "parse" /\ build.entry = "transform"
      /\ UNCHANGED <<call, at, rc, picked, cfg, input, build, contexts, minOpts, queue, applied>>
  BY DEF Parse
<1>2. cfg.isModule \in {"module", "script", "unknown"} /\ scriptLike \in BOOLEAN
  BY <1>1 DEF CompileInv, ConfigInv, MergeInv, ConfigVarsOK, Configs, CompileVarsOK, CompileTypeOK
<1>3. CASE input.given
  <2>1. PICK kind \in {"module", ParsedKind(input)} : prog' = [kind |-> kind, items |-> input.items]
    BY <1>3 DEF Parse
  <2>2. stage' = "build" /\ UNCHANGED <<why, told, scriptLike>>
    BY <1>3 DEF Parse
  <2>3. QED
    BY <1>1, <1>2, <1>3, <2>1, <2>2, ParsedKinds
<1>4. CASE ~input.given /\ ParseJs(cfg.isModule) /\ scriptLike' \in BOOLEAN
  <2>1. \/ stage' = "failed" /\ why' = "syntax" /\ told' = TRUE /\ UNCHANGED prog
        \/ /\ stage' = "build" /\ UNCHANGED <<why, told>>
           /\ prog' = [kind |-> prog'.kind, items |-> input.items]
           /\ prog'.kind \in {"module", "script"}
           /\ prog'.kind = "script" => \A i \in input.items : ~IsModuleDecl(i)
           /\ cfg.isModule = "script" => prog'.kind = "script"
    BY <1>2, <1>4, ParseJsFits
  <2>2. QED
    BY <1>1, <1>4, <2>1
<1>5. CASE ~input.given /\ ParseFlowScript
  <2> DEFINE parsed == [kind |-> ParsedKind(input), items |-> input.items]
  <2>1. CASE /\ input.syntax # "good" \/ Classify(parsed) = "runtime"
             /\ Quit("syntax") /\ told' = TRUE /\ UNCHANGED <<prog, scriptLike>>
    BY <2>1, <1>1, <1>2 DEF Quit
  <2>2. CASE input.awaits /\ Quit("syntax") /\ told' = TRUE /\ UNCHANGED <<prog, scriptLike>>
    BY <2>2, <1>1, <1>2 DEF Quit
  <2>3. CASE /\ ~(input.syntax # "good" \/ Classify(parsed) = "runtime")
             /\ stage' = "build" /\ prog' = parsed
             /\ scriptLike' = (Classify(parsed) = "types")
             /\ UNCHANGED <<why, told>>
    <3>1. Classify(parsed) \in {"script", "runtime", "types"}
          /\ (Classify(parsed) = "script" => ParsedKind(input) = "script")
      BY DEF Classify
    <3>2. scriptLike' \in BOOLEAN /\ (ParsedKind(input) = "script" \/ scriptLike' = TRUE)
      BY <2>3, <3>1
    <3>3. prog'.kind = ParsedKind(input) /\ prog' = [kind |-> prog'.kind, items |-> input.items]
      BY <2>3
    <3>4. QED
      BY <1>1, <2>3, <3>2, <3>3, ParsedKinds
  <2>4. QED
    BY <1>5, <2>1, <2>2, <2>3 DEF ParseFlowScript
<1>6. QED
  <2>1. (Classify(prog') = "types" /\ cfg.isModule = "unknown") \in BOOLEAN
    OBVIOUS
  <2>2. ~input.given =>
          \/ ParseJs(cfg.isModule) /\ scriptLike' \in BOOLEAN
          \/ ParseFlowScript
    BY <1>2, <2>1 DEF Parse
  <2>3. QED
    BY <2>2, <1>3, <1>4, <1>5

\* What is parsed is what was asked for.
LEMMA StepParse ==
    ASSUME CompileInv, Parse
    PROVE  CompileInv'
<1>1. /\ stage = "parse" /\ build.entry = "transform"
      /\ UNCHANGED <<call, at, rc, picked, cfg, input, build, contexts, minOpts, queue, applied>>
      /\ scriptLike' \in BOOLEAN
  BY ParsedFits
<1>2. \/ stage' = "failed" /\ why' = "syntax" /\ told' = TRUE /\ UNCHANGED prog
      \/ /\ stage' = "build" /\ UNCHANGED <<why, told>>
         /\ prog' = [kind |-> prog'.kind, items |-> input.items]
         /\ prog'.kind \in {"module", "script"}
         /\ prog'.kind = "script" => \A i \in input.items : ~IsModuleDecl(i)
         /\ ~input.given /\ cfg.isModule = "script" => prog'.kind = "script" \/ scriptLike' = TRUE
  BY ParsedFits
<1>3. ConfigInv'
  BY <1>1, <1>2, ConfigKept DEF CompileInv, ConfigStages
<1>4. CompileVarsOK'
  <2>1. CompileVarsOK /\ CompileTypeOK
    BY DEF CompileInv, CompileVarsOK
  <2>2. /\ prog'.kind \in {"script", "module"} /\ prog'.items \subseteq input.items \union {Import}
        /\ prog' = [kind |-> prog'.kind, items |-> prog'.items]
    <3>1. CASE prog' = prog
      BY <3>1, <2>1 DEF CompileVarsOK, CompileTypeOK
    <3>2. CASE /\ prog' = [kind |-> prog'.kind, items |-> input.items]
               /\ prog'.kind \in {"module", "script"}
      <4>1. prog'.items = input.items
        BY <3>2
      <4>2. QED
        BY <3>2, <4>1
    <3>3. QED
      BY <1>2, <3>1, <3>2
  <2>3. told' \in BOOLEAN /\ stage' \in {"build", "failed"}
    BY <1>2, <2>1 DEF CompileTypeOK
  <2>4. CompileTypeOK'
    BY <1>1, <2>1, <2>2, <2>3 DEF CompileTypeOK, Ends
  <2>5. QED
    BY <1>1, <2>1, <2>2, <2>4 DEF CompileVarsOK
<1>5. applied' = << >>
  BY <1>1 DEF CompileInv, EntryInv, ConfigStages
<1>6. EntryInv'
  BY <1>1, <1>5 DEF EntryInv
<1>7. ScriptInv'
  BY <1>1, <1>2 DEF CompileInv, ScriptInv, ScriptStaysScript, Compiled, IsModuleDecl
<1>8. LossInv'
  BY <1>1, <1>2 DEF CompileInv, LossInv, Compiled
<1>9. PassInv'
  <2>1. 1..Len(applied') = {} /\ stage' \notin {"map", "run", "printed"}
    BY <1>2, <1>5, EmptySeq
  <2>2. QED
    BY <2>1 DEF PassInv
<1>10. MapsDoNotFail'
  BY <1>2 DEF CompileInv, MapsDoNotFail
<1>11. QED
  BY <1>3, <1>4, <1>6, <1>7, <1>8, <1>9, <1>10 DEF CompileInv

\* The passes are built, and MinifierOf keeps to its type.
LEMMA StepBuild ==
    ASSUME CompileInv, Build
    PROVE  CompileInv'
<1>1. /\ stage = "build" /\ build.entry = "transform"
      /\ contexts' = TRUE /\ minOpts' = MinifierOf(build)
      /\ UNCHANGED <<call, at, rc, picked, cfg, input, build, prog, scriptLike, applied, told>>
  BY DEF Build
<1>2. \/ stage' = "failed" /\ why' = "plugin runtime" /\ UNCHANGED queue
      \/ stage' = "map" /\ UNCHANGED why /\ queue' = ThePasses
  BY DEF Build, Quit, ThePasses
<1>3. CompileVarsOK /\ CompileTypeOK /\ applied = << >>
  BY <1>1 DEF CompileInv, CompileVarsOK, EntryInv
<1>4. ThePasses \in Seq(Passes) /\ Len(ThePasses) \in Nat /\ ThePasses' = ThePasses
  BY <1>1, ThePassesAreAList DEF ThePasses, HeadPasses, TailPasses, TypedSyntax
<1>5. ConfigInv'
  BY <1>1, <1>2, ConfigKept DEF CompileInv, ConfigStages
<1>6. CompileVarsOK'
  <2>1. minOpts' \in [on : BOOLEAN, compress : BOOLEAN, mangle : BOOLEAN]
    BY <1>1, <1>3 DEF MinifierOf, CompileVarsOK, BuildOptions
  <2>2. queue' \in Seq(Passes)
    BY <1>2, <1>3, <1>4 DEF CompileVarsOK
  <2>3. stage' \in {"map", "failed"}
    BY <1>2
  <2>4. CompileTypeOK'
    BY <1>1, <1>3, <2>1, <2>3 DEF CompileTypeOK, Ends
  <2>5. QED
    BY <1>1, <1>3, <2>2, <2>4 DEF CompileVarsOK
<1>7. EntryInv'
  BY <1>1, <1>3 DEF EntryInv
<1>8. ScriptInv' /\ LossInv'
  BY <1>1, <1>2
     DEF CompileInv, ScriptInv, LossInv, ScriptStaysScript, Compiled, IsModuleDecl
<1>9. PassInv'
  <2>1. Len(applied') = 0 /\ 1..Len(applied') = {}
    BY <1>1, <1>3, EmptySeq
  <2>2. CASE stage' = "failed"
    BY <2>1, <2>2 DEF PassInv
  <2>3. CASE stage' = "map" /\ queue' = ThePasses
    <3>1. Len(queue') = Len(ThePasses') - Len(applied')
      BY <2>1, <2>3, <1>4
    <3>2. \A i \in 1..Len(queue') : queue'[i] = ThePasses'[Len(applied') + i]
      <4>1. \A i \in 1..Len(queue') : 0 + i = i
        OBVIOUS
      <4>2. QED
        BY <2>1, <2>3, <1>4, <4>1
    <3>3. minOpts' = MinifierOf(build')
      BY <1>1
    <3>4. QED
      BY <2>1, <2>3, <3>1, <3>2, <3>3 DEF PassInv, MinifierOf
  <2>4. QED
    BY <1>2, <2>2, <2>3
<1>10. MapsDoNotFail'
  BY <1>2 DEF CompileInv, MapsDoNotFail
<1>11. QED
  BY <1>5, <1>6, <1>7, <1>8, <1>9, <1>10 DEF CompileInv

\* A map that the file names ends as a map or as none.
LEMMA StepReadSourceMap ==
    ASSUME CompileInv, ReadSourceMap
    PROVE  CompileInv'
<1>1. /\ stage = "map"
      /\ UNCHANGED <<call, at, rc, picked, cfg, input, build, prog, scriptLike, contexts, minOpts,
                     queue, applied, told>>
  BY DEF ReadSourceMap, compileVars
<1>2. \/ stage' = "failed" /\ why' = "user's source map"
      \/ stage' = "run" /\ UNCHANGED why
  <2>1. PICK setting \in {"off", "on", "user"}, url \in {"none", "data", "file"},
             found \in {"good", "bad", "gone", "missing"} :
               IF OrigMap(setting, url, found) = "error"
                 THEN Quit(IF setting = "user" THEN "user's source map" ELSE "source map")
                 ELSE stage' = "run" /\ UNCHANGED why
    BY DEF ReadSourceMap
  <2>2. setting # "user" => OrigMap(setting, url, found) # "error"
    BY DEF OrigMap
  <2>3. QED
    BY <2>1, <2>2 DEF Quit
<1>3. CompileVarsOK /\ CompileTypeOK
  BY DEF CompileInv, CompileVarsOK
<1>4. ConfigInv'
  BY <1>1, <1>2, ConfigKept DEF CompileInv, ConfigStages
<1>5. CompileVarsOK'
  <2>1. stage' \in {"run", "failed"}
    BY <1>2
  <2>2. CompileTypeOK'
    BY <1>1, <1>3, <2>1 DEF CompileTypeOK, Ends
  <2>3. QED
    BY <1>1, <1>3, <2>2 DEF CompileVarsOK
<1>6. EntryInv'
  BY <1>1, <1>2 DEF CompileInv, EntryInv, ConfigStages
<1>7. ScriptInv' /\ LossInv'
  BY <1>1, <1>2
     DEF CompileInv, ScriptInv, LossInv, ScriptStaysScript, Compiled, IsModuleDecl
<1>8. PassInv'
  <2>1. ThePasses' = ThePasses
    BY <1>1 DEF ThePasses, HeadPasses, TailPasses, TypedSyntax
  <2>2. QED
    BY <1>1, <1>2, <2>1 DEF CompileInv, PassInv, Cleans
<1>9. MapsDoNotFail'
  BY <1>2 DEF CompileInv, MapsDoNotFail
<1>10. QED
  BY <1>4, <1>5, <1>6, <1>7, <1>8, <1>9 DEF CompileInv

\* A pass takes only what does not run, or tells the handler.
LEMMA PassEffects ==
    ASSUME CompileInv, RunPass, NEW pass, pass = Head(queue)
    PROVE  /\ stage' \in {"run", "crashed"} /\ told' \in BOOLEAN
           /\ prog' = [kind |-> prog.kind, items |-> prog'.items]
           /\ prog'.items \subseteq prog.items \union {Import}
           /\ prog.kind = "script" => prog'.items \subseteq prog.items
           /\ ~told' => /\ ~told
                        /\ \A i \in prog.items : IsRuntimeStmt(i) => i \in prog'.items
<1>1. /\ stage = "run" /\ told \in BOOLEAN /\ prog = [kind |-> prog.kind, items |-> prog.items]
      /\ prog.kind \in {"script", "module"}
  BY DEF RunPass, CompileInv, CompileVarsOK, CompileTypeOK
<1>2. \/ RunPlugins \/ Strip \/ InjectHelpers \/ UNCHANGED <<prog, stage, told>>
  BY DEF RunPass
<1>3. CASE UNCHANGED <<prog, stage, told>>
  BY <1>1, <1>3
<1>4. CASE prog' = [prog EXCEPT !.items = {}] /\ told' = TRUE /\ UNCHANGED stage
  BY <1>1, <1>4
<1>5. CASE stage' = "crashed" /\ UNCHANGED <<prog, told>>
  BY <1>1, <1>5
<1>6. CASE /\ prog.kind = "module" /\ prog' = [prog EXCEPT !.items = @ \union {Import}]
           /\ UNCHANGED <<stage, told>>
  BY <1>1, <1>6
<1>7. CASE Strip
  <2>1. PICK gone \in SUBSET {i \in prog.items : ~IsRuntimeStmt(i)} :
               prog' = [prog EXCEPT !.items = @ \ gone]
    BY <1>7 DEF Strip
  <2>2. UNCHANGED <<stage, told>>
    BY <1>7 DEF Strip
  <2>3. prog' = [kind |-> prog.kind, items |-> prog.items \ gone]
    BY <2>1, <1>1
  <2>4. prog'.items = prog.items \ gone
    BY <2>3
  <2>5. \A i \in prog.items : IsRuntimeStmt(i) => i \in prog'.items
    BY <2>1, <2>4
  <2>6. QED
    BY <1>1, <2>2, <2>3, <2>4, <2>5
<1>8. QED
  BY <1>2, <1>3, <1>4, <1>5, <1>6, <1>7 DEF RunPlugins, InjectHelpers, FailPlugin

\* The next pass has run.
LEMMA PassMoves ==
    ASSUME CompileInv, RunPass, NEW pass, pass = Head(queue), NEW n, n = Len(applied)
    PROVE  /\ n \in Nat /\ Len(queue) \in Nat /\ Len(queue) >= 1 /\ pass = queue[1]
           /\ applied' \in Seq(Passes) /\ Len(applied') = n + 1 /\ applied'[n + 1] = pass
           /\ \A i \in 1..n : applied'[i] = applied[i]
           /\ queue' \in Seq(Passes) /\ Len(queue') = Len(queue) - 1
           /\ \A i \in 1..Len(queue') : queue'[i] = queue[i + 1]
<1>1. applied \in Seq(Passes) /\ queue \in Seq(Passes) /\ queue # << >>
      /\ queue' = Tail(queue) /\ applied' = Append(applied, pass)
  BY DEF RunPass, CompileInv, CompileVarsOK
<1>2. /\ Head(queue) = queue[1] /\ Len(queue) \in Nat /\ Len(queue) >= 1
      /\ Tail(queue) \in Seq(Passes) /\ Len(Tail(queue)) = Len(queue) - 1
      /\ \A i \in 1..Len(Tail(queue)) : Tail(queue)[i] = queue[i + 1]
  BY <1>1, HeadTailProperties, LenProperties
<1>3. pass \in Passes
  BY <1>1, <1>2, ElementOfSeq
<1>4. /\ Append(applied, pass) \in Seq(Passes) /\ Len(Append(applied, pass)) = Len(applied) + 1
      /\ \A i \in 1..Len(applied) : Append(applied, pass)[i] = applied[i]
      /\ Append(applied, pass)[Len(applied) + 1] = pass
  BY <1>1, <1>3, AppendProperties
<1>5. n \in Nat
  BY <1>1, LenProperties
<1>6. QED
  BY <1>1, <1>2, <1>4, <1>5

\* A pass leaves what runs, and the order of the passes.
LEMMA StepRunPass ==
    ASSUME CompileInv, RunPass
    PROVE  CompileInv'
<1>0. PICK pass : pass = Head(queue)
  OBVIOUS
<1>a. PICK n : n = Len(applied)
  OBVIOUS
<1>1. /\ stage' \in {"run", "crashed"} /\ told' \in BOOLEAN
      /\ prog' = [kind |-> prog.kind, items |-> prog'.items]
      /\ prog'.items \subseteq prog.items \union {Import}
      /\ prog.kind = "script" => prog'.items \subseteq prog.items
      /\ ~told' => /\ ~told
                   /\ \A i \in prog.items : IsRuntimeStmt(i) => i \in prog'.items
  BY <1>0, PassEffects
<1>2. /\ n \in Nat /\ Len(queue) \in Nat /\ Len(queue) >= 1 /\ pass = queue[1]
      /\ applied' \in Seq(Passes) /\ Len(applied') = n + 1 /\ applied'[n + 1] = pass
      /\ \A i \in 1..n : applied'[i] = applied[i]
      /\ queue' \in Seq(Passes) /\ Len(queue') = Len(queue) - 1
      /\ \A i \in 1..Len(queue') : queue'[i] = queue[i + 1]
  BY <1>0, <1>a, PassMoves
<1>3. /\ stage = "run"
      /\ UNCHANGED <<why, call, at, rc, picked, cfg, input, build, scriptLike, minOpts>>
      /\ contexts' = CASE pass = "minifier" -> AfterMinifier
                       [] pass = "hygiene" -> FALSE
                       [] OTHER -> contexts
  BY <1>0 DEF RunPass
<1>4. CompileVarsOK /\ CompileTypeOK /\ build.entry = "transform"
  BY <1>3 DEF CompileInv, CompileVarsOK, EntryInv, BuildOptions
<1>5. minOpts.mangle \in BOOLEAN /\ contexts \in BOOLEAN
  BY <1>4 DEF CompileTypeOK
<1>6. /\ contexts' \in BOOLEAN
      /\ pass = "minifier" /\ contexts' => ~minOpts.mangle
      /\ pass = "hygiene" => ~contexts'
      /\ pass # "minifier" /\ contexts' => contexts
  <2>1. CASE pass = "minifier"
    <3>1. contexts' = AfterMinifier
      BY <1>3, <2>1
    <3>2. AfterMinifier \in BOOLEAN /\ (AfterMinifier => ~minOpts.mangle)
      BY <1>5 DEF AfterMinifier
    <3>3. QED
      BY <2>1, <3>1, <3>2
  <2>2. CASE pass = "hygiene"
    BY <1>3, <2>2
  <2>3. CASE pass # "minifier" /\ pass # "hygiene"
    BY <1>3, <1>5, <2>3
  <2>4. QED
    BY <2>1, <2>2, <2>3
<1>7. ConfigInv'
  BY <1>1, <1>3, ConfigKept DEF CompileInv, ConfigStages
<1>8. CompileVarsOK'
  <2>1. prog'.kind = prog.kind /\ prog'.items \subseteq input.items \union {Import}
    BY <1>1, <1>4 DEF CompileTypeOK
  <2>2. CompileTypeOK'
    BY <1>1, <1>3, <1>4, <1>6, <2>1 DEF CompileTypeOK, Ends
  <2>3. QED
    BY <1>1, <1>2, <1>3, <1>4, <2>2 DEF CompileVarsOK
<1>9. EntryInv'
  BY <1>1, <1>3, <1>4 DEF EntryInv, ConfigStages
<1>10. ScriptInv'
  <2>1. prog'.kind = prog.kind
    BY <1>1
  <2>2. QED
    BY <1>1, <1>3, <2>1 DEF CompileInv, ScriptInv, ScriptStaysScript, Compiled, IsModuleDecl
<1>11. LossInv'
  BY <1>1, <1>3 DEF CompileInv, LossInv, Compiled
<1>12. PassInv'
  <2>1. ThePasses' = ThePasses
    BY <1>3 DEF ThePasses, HeadPasses, TailPasses, TypedSyntax
  <2>2. Len(ThePasses) \in Nat
    BY ThePassesAreAList
  <2>3. /\ \A i \in 1..n : i \in 1..Len(ThePasses) /\ applied[i] = ThePasses[i]
        /\ minOpts = MinifierOf(build)
        /\ Len(queue) = Len(ThePasses) - n
        /\ \A i \in 1..Len(queue) : queue[i] = ThePasses[n + i]
        /\ contexts => \A i \in 1..n : Cleans(applied[i]) =>
                            \E j \in (i + 1)..n : applied[j] = "minifier" /\ ~minOpts.mangle
    BY <1>a, <1>3, <1>4 DEF CompileInv, PassInv
  <2>4. ASSUME NEW i \in 1..(n + 1) PROVE i \in 1..Len(ThePasses) /\ applied'[i] = ThePasses[i]
    <3>1. CASE i \in 1..n
      BY <3>1, <1>2, <2>3
    <3>2. CASE i = n + 1
      <4>1. 1 \in 1..Len(queue) /\ n + 1 \in 1..Len(ThePasses)
        BY <1>2, <2>2, <2>3
      <4>2. QED
        BY <3>2, <4>1, <1>2, <2>3
    <3>3. QED
      BY <3>1, <3>2, <1>2
  <2>5. ASSUME NEW i \in 1..Len(queue') PROVE queue'[i] = ThePasses[(n + 1) + i]
    <3>1. i + 1 \in 1..Len(queue) /\ n + (i + 1) = (n + 1) + i
      BY <1>2
    <3>2. queue[i + 1] = ThePasses[n + (i + 1)]
      BY <3>1, <2>3
    <3>3. QED
      BY <3>1, <3>2, <1>2
  <2>6. ASSUME contexts', NEW i \in 1..(n + 1), Cleans(applied'[i])
        PROVE  \E j \in (i + 1)..(n + 1) : applied'[j] = "minifier" /\ ~minOpts.mangle
    <3>1. CASE pass = "minifier"
      <4>1. ~minOpts.mangle /\ applied'[n + 1] = "minifier"
        BY <3>1, <1>2, <1>6, <2>6
      <4>2. i # n + 1
        BY <4>1, <2>6 DEF Cleans
      <4>3. n + 1 \in (i + 1)..(n + 1)
        BY <4>2, <1>2
      <4>4. QED
        BY <4>1, <4>3
    <3>2. CASE pass # "minifier"
      <4>1. contexts /\ pass # "hygiene"
        BY <3>2, <1>6, <2>6
      <4>2. i # n + 1
        BY <3>2, <4>1, <2>6, <1>2 DEF Cleans
      <4>3. i \in 1..n /\ applied'[i] = applied[i]
        BY <4>2, <1>2
      <4>4. PICK j \in (i + 1)..n : applied[j] = "minifier" /\ ~minOpts.mangle
        BY <4>1, <4>3, <2>3, <2>6
      <4>5. j \in 1..n /\ j \in (i + 1)..(n + 1)
        BY <1>2
      <4>6. QED
        BY <4>4, <4>5, <1>2
    <3>3. QED
      BY <3>1, <3>2
  <2>7. Len(queue') = Len(ThePasses) - (n + 1)
    BY <1>2, <2>2, <2>3
  <2>8. /\ \A i \in 1..Len(applied') : i \in 1..Len(ThePasses') /\ applied'[i] = ThePasses'[i]
        /\ Len(queue') = Len(ThePasses') - Len(applied')
        /\ \A i \in 1..Len(queue') : queue'[i] = ThePasses'[Len(applied') + i]
    BY <1>2, <2>1, <2>4, <2>5, <2>7
  <2>9. contexts' => \A i \in 1..Len(applied') : Cleans(applied[i])' =>
                \E j \in (i + 1)..Len(applied') : applied'[j] = "minifier" /\ ~minOpts'.mangle
    BY <1>2, <1>3, <2>6 DEF Cleans
  <2>10. minOpts' = MinifierOf(build)' /\ stage' # "printed"
    BY <1>1, <1>3, <2>3 DEF MinifierOf
  <2>11. QED
    BY <2>8, <2>9, <2>10 DEF PassInv
<1>13. MapsDoNotFail'
  BY <1>3 DEF CompileInv, MapsDoNotFail
<1>14. QED
  BY <1>7, <1>8, <1>9, <1>10, <1>11, <1>12, <1>13 DEF CompileInv

\* The downgrade fails rather than lose an import or an export.
LEMMA StepEmit ==
    ASSUME CompileInv, Emit
    PROVE  CompileInv'
<1>1. /\ stage = "run" /\ queue = << >>
      /\ UNCHANGED <<call, at, rc, picked, cfg, input, build, scriptLike, contexts, minOpts, queue,
                     applied, told>>
  BY DEF Emit
<1>2. CompileVarsOK /\ CompileTypeOK /\ build.entry = "transform" /\ ScriptInv /\ LossInv
  BY <1>1 DEF CompileInv, CompileVarsOK, EntryInv, BuildOptions
<1>3. /\ prog.kind \in {"script", "module"} /\ scriptLike \in BOOLEAN
      /\ prog = [kind |-> prog.kind, items |-> prog.items]
  BY <1>2 DEF CompileTypeOK, CompileVarsOK
<1>4. \/ stage' = "failed" /\ why' = "downgrade" /\ UNCHANGED prog
      \/ /\ stage' = "printed" /\ UNCHANGED why
         /\ prog' = IF scriptLike THEN [prog EXCEPT !.kind = "script"] ELSE prog
         /\ scriptLike /\ prog.kind = "module" => \A i \in prog.items : ~IsModuleDecl(i)
  BY DEF Emit, Downgrade, Quit
<1>5. /\ prog'.items = prog.items /\ prog' = [kind |-> prog'.kind, items |-> prog'.items]
      /\ prog'.kind \in {"script", "module"}
      /\ stage' = "printed" /\ scriptLike => prog'.kind = "script"
      /\ ~(stage' = "printed" /\ scriptLike) => prog'.kind = prog.kind
  <2>1. CASE prog' = prog /\ ~(stage' = "printed" /\ scriptLike)
    BY <2>1, <1>3
  <2>2. CASE prog' = [prog EXCEPT !.kind = "script"] /\ scriptLike /\ stage' = "printed"
    BY <2>2, <1>3
  <2>3. QED
    BY <2>1, <2>2, <1>4
<1>6. ConfigInv'
  BY <1>1, <1>4, ConfigKept DEF CompileInv, ConfigStages
<1>7. CompileVarsOK'
  <2>1. CompileTypeOK'
    BY <1>1, <1>2, <1>4, <1>5 DEF CompileTypeOK, Ends
  <2>2. QED
    BY <1>1, <1>2, <1>5, <2>1 DEF CompileVarsOK
<1>8. EntryInv'
  BY <1>1, <1>2, <1>4 DEF EntryInv, ConfigStages
<1>9. ScriptInv'
  <2>1. ASSUME stage' = "printed", prog'.kind = "script"
        PROVE  \A i \in prog'.items : ~IsModuleDecl(i)
    <3>1. CASE prog.kind = "script"
      BY <3>1, <1>2, <1>5 DEF ScriptInv
    <3>2. CASE prog.kind = "module"
      BY <3>2, <2>1, <1>4, <1>5
    <3>3. QED
      BY <3>1, <3>2, <1>3
  <2>2. ASSUME stage' = "failed", prog'.kind = "script"
        PROVE  \A i \in prog'.items : ~IsModuleDecl(i)
    BY <2>2, <1>2, <1>5 DEF ScriptInv
  <2>3. \A i : IsModuleDecl(i)' <=> IsModuleDecl(i)
    BY DEF IsModuleDecl
  <2>4. stage' = "printed" /\ ~input.given /\ (cfg.isModule = "script" \/ scriptLike) =>
          prog'.kind = "script"
    <3>1. stage \in Compiled
      BY <1>1 DEF Compiled
    <3>2. QED
      BY <3>1, <1>2, <1>5 DEF ScriptInv
  <2>5. stage' = "printed" \/ stage' = "failed"
    BY <1>4
  <2>6. ScriptStaysScript'
    BY <2>1, <2>3, <2>4, <1>1 DEF ScriptStaysScript
  <2>7. QED
    BY <2>1, <2>2, <2>3, <2>4, <2>5, <2>6, <1>1 DEF ScriptInv, Compiled
<1>10. LossInv'
  BY <1>1, <1>2, <1>5 DEF LossInv, Compiled
<1>11. PassInv'
  <2>1. ThePasses' = ThePasses
    BY <1>1 DEF ThePasses, HeadPasses, TailPasses, TypedSyntax
  <2>2. QED
    BY <1>1, <1>4, <2>1 DEF CompileInv, PassInv, Cleans
<1>12. MapsDoNotFail'
  BY <1>4 DEF CompileInv, MapsDoNotFail
<1>13. QED
  BY <1>6, <1>7, <1>8, <1>9, <1>10, <1>11, <1>12 DEF CompileInv

\* The minify entry parses what its options say.
LEMMA StepMinifyParse ==
    ASSUME CompileInv, MinifyParse
    PROVE  CompileInv'
<1>1. /\ stage = "match" /\ build.entry = "minify" /\ minOpts' = MinifyOptions(build)
      /\ ParseJs(build.isModule)
      /\ UNCHANGED <<call, at, rc, picked, cfg, input, build, scriptLike, contexts, queue, applied>>
  BY DEF MinifyParse
<1>2. CompileVarsOK /\ CompileTypeOK /\ applied = << >>
  BY <1>1 DEF CompileInv, CompileVarsOK, EntryInv, ConfigStages
<1>3. build.isModule \in {"module", "script", "unknown"}
  BY <1>1, <1>2 DEF CompileInv, EntryInv, CompileVarsOK, BuildOptions
<1>4. \/ stage' = "failed" /\ why' = "syntax" /\ told' = TRUE /\ UNCHANGED prog
      \/ /\ stage' = "build" /\ UNCHANGED <<why, told>>
         /\ prog' = [kind |-> prog'.kind, items |-> input.items]
         /\ prog'.kind \in {"module", "script"}
         /\ prog'.kind = "script" => \A i \in input.items : ~IsModuleDecl(i)
         /\ build.isModule = "script" => prog'.kind = "script"
  BY <1>1, <1>3, ParseJsFits
<1>5. ConfigInv'
  BY <1>1, <1>4, ConfigKept DEF CompileInv, ConfigStages
<1>6. CompileVarsOK'
  <2>1. /\ prog'.kind \in {"script", "module"} /\ prog'.items \subseteq input.items \union {Import}
        /\ prog' = [kind |-> prog'.kind, items |-> prog'.items]
    <3>1. CASE prog' = prog
      BY <3>1, <1>2 DEF CompileVarsOK, CompileTypeOK
    <3>2. CASE /\ prog' = [kind |-> prog'.kind, items |-> input.items]
               /\ prog'.kind \in {"module", "script"}
      <4>1. prog'.items = input.items
        BY <3>2
      <4>2. QED
        BY <3>2, <4>1
    <3>3. QED
      BY <1>4, <3>1, <3>2
  <2>2. minOpts' \in [on : BOOLEAN, compress : BOOLEAN, mangle : BOOLEAN]
    BY <1>1 DEF MinifyOptions
  <2>3. told' \in BOOLEAN /\ stage' \in {"build", "failed"}
    BY <1>2, <1>4 DEF CompileTypeOK
  <2>4. CompileTypeOK'
    BY <1>1, <1>2, <2>1, <2>2, <2>3 DEF CompileTypeOK, Ends
  <2>5. QED
    BY <1>1, <1>2, <2>1, <2>4 DEF CompileVarsOK
<1>7. EntryInv'
  BY <1>1, <1>2, <1>4, EmptyHas DEF CompileInv, EntryInv
<1>8. ScriptInv'
  BY <1>1, <1>4 DEF CompileInv, ScriptInv, ScriptStaysScript, Compiled, IsModuleDecl
<1>9. LossInv'
  BY <1>1, <1>4 DEF CompileInv, LossInv, Compiled
<1>10. PassInv'
  BY <1>1 DEF PassInv
<1>11. MapsDoNotFail'
  BY <1>4 DEF CompileInv, MapsDoNotFail
<1>12. QED
  BY <1>5, <1>6, <1>7, <1>8, <1>9, <1>10, <1>11 DEF CompileInv

\* The minify entry runs its four passes at once.
LEMMA StepMinifyRun ==
    ASSUME CompileInv, MinifyRun
    PROVE  CompileInv'
<1>1. /\ stage = "build" /\ build.entry = "minify" /\ stage' = "printed" /\ contexts' = FALSE
      /\ applied' = ((<<"resolver", "minifier">> \o If(~minOpts.mangle, "hygiene")) \o <<"fixer">>)
      /\ UNCHANGED <<why, call, at, rc, picked, cfg, input, build, prog, scriptLike, minOpts, queue,
                     told>>
  BY DEF MinifyRun
<1>2. CompileVarsOK /\ CompileTypeOK
  BY DEF CompileInv, CompileVarsOK
<1>3. applied' \in Seq(Passes) /\ ~Has(applied', "before")
  <2>1. "resolver" \in Passes /\ "minifier" \in Passes /\ "hygiene" \in Passes
        /\ "fixer" \in Passes
    BY DEF Passes
  <2>2. /\ <<"resolver">> \in Seq(Passes)
        /\ <<"fixer">> \in Seq(Passes) /\ \A x : Has(<<"fixer">>, x) <=> "fixer" = x
    BY <2>1, Single
  <2>3. /\ <<"resolver", "minifier">> = Append(<<"resolver">>, "minifier")
        /\ Len(<<"resolver", "minifier">>) = 2
        /\ <<"resolver", "minifier">>[1] = "resolver" /\ <<"resolver", "minifier">>[2] = "minifier"
    OBVIOUS
  <2>4. PICK s : s = <<"resolver", "minifier">>
    OBVIOUS
  <2>5. s \in Seq(Passes) /\ ~Has(s, "before")
    <3>1. s \in Seq(Passes)
      BY <2>1, <2>2, <2>3, <2>4, AppendProperties
    <3>2. \A i \in 1..2 : s[i] # "before"
      BY <2>3, <2>4
    <3>3. QED
      BY <3>1, <3>2, <2>3, <2>4 DEF Has
  <2>6. PICK h : h = If(~minOpts.mangle, "hygiene")
    OBVIOUS
  <2>7. h \in Seq(Passes) /\ ~Has(h, "before")
    BY <2>1, <2>6, Perhaps
  <2>8. PICK t : t = s \o h
    OBVIOUS
  <2>9. t \in Seq(Passes) /\ ~Has(t, "before")
    BY <2>5, <2>7, <2>8, Joined
  <2>10. applied' = t \o <<"fixer">>
    BY <1>1, <2>4, <2>6, <2>8
  <2>11. QED
    BY <2>2, <2>9, <2>10, Joined
<1>4. ConfigInv'
  BY <1>1, ConfigKept DEF CompileInv, ConfigStages
<1>5. CompileVarsOK'
  <2>1. CompileTypeOK'
    BY <1>1, <1>2 DEF CompileTypeOK, Ends
  <2>2. QED
    BY <1>1, <1>2, <1>3, <2>1 DEF CompileVarsOK
<1>6. EntryInv'
  BY <1>1, <1>3 DEF CompileInv, EntryInv, ConfigStages
<1>7. ScriptInv' /\ LossInv'
  BY <1>1 DEF CompileInv, ScriptInv, LossInv, ScriptStaysScript, Compiled, IsModuleDecl
<1>8. PassInv'
  BY <1>1 DEF PassInv
<1>9. MapsDoNotFail'
  BY <1>1 DEF CompileInv, MapsDoNotFail
<1>10. QED
  BY <1>4, <1>5, <1>6, <1>7, <1>8, <1>9 DEF CompileInv

\* A compilation waits while others use the caches.
LEMMA CompileInvariant ==
    ASSUME CompileInv, CompileNext \/ UNCHANGED <<configVars, compileVars>>
    PROVE  CompileInv'
<1>1. CASE CompileNext
  BY <1>1, StepConfig, StepParse, StepBuild, StepReadSourceMap, StepRunPass, StepEmit,
     StepMinifyParse, StepMinifyRun DEF CompileNext
<1>2. CASE UNCHANGED <<configVars, compileVars>>
  <2>1. UNCHANGED <<stage, why, call, at, rc, picked, cfg, input, build, prog, scriptLike, contexts,
                    minOpts, queue, applied, told>>
    BY <1>2 DEF configVars, compileVars
  <2>2. ConfigInv'
    BY <2>1, ConfigKept DEF CompileInv
  <2>3. CompileVarsOK' /\ EntryInv'
    BY <2>1 DEF CompileInv, CompileVarsOK, CompileTypeOK, EntryInv
  <2>4. ScriptInv' /\ LossInv' /\ MapsDoNotFail'
    BY <2>1 DEF CompileInv, ScriptInv, LossInv, ScriptStaysScript, MapsDoNotFail, IsModuleDecl
  <2>5. ThePasses' = ThePasses
    BY <2>1 DEF ThePasses, HeadPasses, TailPasses, TypedSyntax
  <2>6. PassInv'
    BY <2>1, <2>5 DEF CompileInv, PassInv, Cleans
  <2>7. QED
    BY <2>2, <2>3, <2>4, <2>6 DEF CompileInv
<1>3. QED
  BY <1>1, <1>2

-----------------------------------------------------------------------------
(* The whole.                                                                *)

\* The invariant of the whole.
SwcInv == CompileInv /\ CommentsInv /\ CachesInv

\* Each view starts where its invariant holds, the others' parts included.
LEMMA SwcInitially == ASSUME SwcInit PROVE SwcInv
<1>1. CompileInv
  <2>1. PICK c \in Compilations : CompileStart(c)
    BY CompilationsAssumption DEF SwcInit, CompileInit
  <2>2. QED
    BY <2>1, CompileInitially
<1>2. CASE view = "comments"
  <2>1. PICK w \in SeqsUpTo(Positions, MaxComments), v \in SeqsUpTo(Spans, MaxSpans) \ {<< >>} :
          (\A i, j \in DOMAIN w : i <= j => w[i] <= w[j]) /\ CommentsStart(w, v)
    BY <1>2 DEF SwcInit, CommentsInit
  <2>2. PICK k \in 0..MaxComments : w \in [1..k -> Positions]
    BY <2>1 DEF SeqsUpTo
  <2>3. w \in Seq(Positions) /\ Len(w) = k /\ DOMAIN w = 1..Len(w)
    <3>1. k \in Nat
      BY CommentsAssumption
    <3>2. QED
      BY <3>1, <2>2, AFunctionIsASeq
  <2>4. PICK l \in 0..MaxSpans : v \in [1..l -> Spans]
    BY <2>1 DEF SeqsUpTo
  <2>5. v \in Seq(Spans) /\ v # << >>
    <3>1. l \in Nat
      BY CommentsAssumption
    <3>2. QED
      BY <3>1, <2>1, <2>4, AFunctionIsASeq
  <2>6. \A i, j \in 1..Len(w) : i <= j => w[i] <= w[j]
    BY <2>1, <2>3
  <2>7. CommentsInv
    BY <2>1, <2>3, <2>5, <2>6, CommentsInitially
  <2>8. QED
    BY <1>1, <2>7, CachesInitially DEF SwcInit, SwcInv
<1>3. CASE view # "comments"
  <2>1. CommentsStart(<< >>, <<Dummy>>)
    BY <1>3 DEF SwcInit
  <2>2. << >> \in Seq(Positions) /\ Len(<< >>) = 0
    BY EmptySeq
  <2>3. <<Dummy>> \in Seq(Spans) /\ <<Dummy>> # << >>
    <3>1. Dummy \in Spans
      BY DEF Spans
    <3>2. <<Dummy>> \in Seq(Spans)
      BY <3>1, OneElement
    <3>3. QED
      BY <3>2
  <2>4. CommentsInv
    <3>1. \A i, j \in 1..Len(<< >>) : i <= j => << >>[i] <= << >>[j]
      BY <2>2
    <3>2. QED
      BY <2>1, <2>2, <2>3, <3>1, CommentsInitially
  <2>5. QED
    BY <1>1, <2>4, CachesInitially DEF SwcInit, SwcInv
<1>4. QED
  BY <1>2, <1>3

\* A step is a step of one part, and nothing to the others.
LEMMA SwcStep == ASSUME SwcInv, [SwcNext]_swcVars PROVE SwcInv'
<1>1. CASE CompileNext /\ UNCHANGED <<view, commentVars, cacheVars>>
  BY <1>1, CompileInvariant, CommentsInvariant, CachesInvariant DEF SwcInv
<1>2. CASE CommentsNext /\ UNCHANGED <<view, compilerVars, cacheVars>>
  BY <1>2, CompileInvariant, CommentsInvariant, CachesInvariant DEF SwcInv, compilerVars
<1>3. CASE CachesNext /\ UNCHANGED <<view, compilerVars, commentVars>>
  BY <1>3, CompileInvariant, CommentsInvariant, CachesInvariant DEF SwcInv, compilerVars
<1>4. CASE UNCHANGED swcVars
  BY <1>4, CompileInvariant, CommentsInvariant, CachesInvariant DEF SwcInv, swcVars, compilerVars
<1>5. QED
  BY <1>1, <1>2, <1>3, <1>4 DEF SwcNext

\* The invariant holds in every behaviour.
LEMMA SwcInvariant == SwcSpec => []SwcInv
<1>1. SwcInit => SwcInv
  BY SwcInitially
<1>2. SwcInv /\ [SwcNext]_swcVars => SwcInv'
  BY SwcStep
<1>3. QED
  BY <1>1, <1>2, PTL DEF SwcSpec

\* The search for a .swcrc ends at its root, the config that is used is the first that includes the
\* file, what is excluded is not compiled, and a file without a parser of its own gets its
\* extension's (Options::config, load_swcrc and Rc::into_config).
THEOREM ConfigAlwaysFits == SwcSpec => []ConfigFits
<1>1. SwcInv => ConfigFits
  BY ConfigSound DEF SwcInv, CompileInv, ConfigFits
<1>2. QED
  BY <1>1, SwcInvariant, PTL

\* What is asked to be a script does not become a module (parse_js_with_flow_syntax,
\* normalize_flow_script_like_program).
THEOREM ScriptsStayScripts == SwcSpec => []ScriptStaysScript
<1>1. SwcInv => ScriptStaysScript
  BY CompileSound DEF SwcInv
<1>2. QED
  BY <1>1, SwcInvariant, PTL

\* Each pass finds what it expects, names are not told apart by contexts when the program is
\* printed, and a map that the file names does not fail the compilation (build_as_input,
\* chain_builder and read_source_map).
THEOREM PassesAlwaysFit == SwcSpec => []PassesFit
<1>1. SwcInv => PassesFit
  BY CompileSound DEF SwcInv, PassesFit
<1>2. QED
  BY <1>1, SwcInvariant, PTL

\* A compilation that loses a statement that runs tells the handler (recovered parser errors, and
\* the Flow downgrade).
THEOREM LossIsAlwaysTold == SwcSpec => []LossIsTold
<1>1. SwcInv => LossIsTold
  BY CompileSound DEF SwcInv
<1>2. QED
  BY <1>1, SwcInvariant, PTL

\* preserveAllComments keeps every comment, once, in the source's order, next to the closest node
\* that is left (DroppedCommentsPreserver).
THEOREM CommentsAreKept == SwcSpec => []CommentsKept
<1>1. SwcInv => CommentsKept
  BY CommentsSound DEF SwcInv
<1>2. QED
  BY <1>1, SwcInvariant, PTL

\* What a compilation takes from the process-wide caches is what its own options make, whatever
\* other threads put there, and its plugins are there when they are applied (the statics of
\* GlobalPassOption::build and build_resolver, and PLUGIN_MODULE_CACHE).
THEOREM SharedAlwaysFits == SwcSpec => []SharedFits
<1>1. SwcInv => SharedFits
  BY CachesSound DEF SwcInv, SharedFits
<1>2. QED
  BY <1>1, SwcInvariant, PTL
=============================================================================
