--------------------------- MODULE FunctionProofs ---------------------------
(***************************************************************************)
(* Two functions keep their promises.  The topology spread plugin: the     *)
(* change of the skew it foresees is the one that happens, and a cluster   *)
(* that passes the filter leaves a hard constraint satisfied.  The status  *)
(* of a placement: a rollout that is reported as completed is complete,    *)
(* for every set of clusters, every list of bindings and either strategy.  *)
(***************************************************************************)
EXTENDS Plugins, StatusReport, FiniteSetTheorems, WellFoundedInduction, TLAPS

----------------------------------------------------------------------------
(* Topology spread.                                                        *)

\* A set of natural numbers has a least element, and it is what Min returns.
LEMMA MinIsLeast ==
    ASSUME NEW S \in SUBSET Nat, S # {}
    PROVE  /\ Min(S) \in S
           /\ \A y \in S : Min(S) <= y
<1> DEFINE R == OpToRel(<, Nat)
<1>1. \A x, y \in Nat : y < x => <<y, x>> \in R
  BY Zenon DEF OpToRel
<1>2. IsWellFoundedOn(R, Nat)
  BY NatLessThanWellFounded, Zenon
<1> HIDE DEF R
<1>3. PICK x \in S : \A y \in S : ~(<<y, x>> \in R)
  BY <1>2, WFMin, Zenon
<1>4. \A y \in S : ~(y < x)
  BY <1>1, <1>3, Zenon
<1>5. \A y \in S : x <= y
  BY ONLY <1>4, S \in SUBSET Nat, x \in S
<1> QED
  BY <1>5 DEF Min

\* A bounded one has a greatest element, and it is what Max returns.
LEMMA MaxIsGreatest ==
    ASSUME NEW S \in SUBSET Nat, S # {}, NEW n \in Nat, \A y \in S : y <= n
    PROVE  /\ Max(S) \in S
           /\ \A y \in S : Max(S) >= y
<1> DEFINE T == {k \in Nat : n - k \in S}
<1>1. T # {} /\ T \subseteq Nat
  <2>1. PICK y \in S : TRUE
    OBVIOUS
  <2>2. n - y \in Nat /\ n - (n - y) = y
    OBVIOUS
  <2> QED
    BY <2>1, <2>2
<1>2. PICK k \in T : \A y \in T : k <= y
  BY <1>1, MinIsLeast
<1>3. \A y \in S : n - k >= y
  <2> SUFFICES ASSUME NEW y \in S PROVE n - k >= y
    OBVIOUS
  <2>1. n - y \in Nat /\ n - (n - y) = y
    OBVIOUS
  <2>2. n - y \in T
    BY <2>1
  <2> QED
    BY <1>2, <2>2
<1>4. n - k \in S
  BY <1>2
<1> HIDE DEF T
<1> QED
  BY <1>3, <1>4 DEF Max

\* The element that is least, or greatest, is the one the operators return.
LEMMA MinIs ==
    ASSUME NEW S \in SUBSET Nat, NEW x \in S, \A y \in S : x <= y
    PROVE  Min(S) = x
<1> DEFINE m == Min(S)
<1>1. m \in S /\ \A y \in S : m <= y
  BY MinIsLeast
<1> HIDE DEF m
<1>2. m = x
  BY <1>1
<1> QED
  BY <1>2 DEF m

\* Likewise for the greatest element and Max.
LEMMA MaxIs ==
    ASSUME NEW S \in SUBSET Nat, NEW x \in S, \A y \in S : x >= y
    PROVE  Max(S) = x
<1> DEFINE m == Max(S)
<1>1. m \in S /\ \A y \in S : m >= y
  BY MaxIsGreatest
<1> HIDE DEF m
<1>2. m = x
  BY <1>1
<1> QED
  BY <1>2 DEF m

----------------------------------------------------------------------------
\* A counter of finitely many domains has a smallest and a largest count, and
\* both are counts of domains.
LEMMA CounterBounds ==
    ASSUME NEW D, D # {}, NEW counter \in [D -> Nat], NEW n \in Nat, \A d \in D : counter[d] <= n
    PROVE  /\ Smallest(counter) \in Nat
           /\ Largest(counter) \in Nat
           /\ \A d \in D : Smallest(counter) <= counter[d] /\ counter[d] <= Largest(counter)
           /\ \E d \in D : counter[d] = Smallest(counter)
           /\ \E d \in D : counter[d] = Largest(counter)
<1> DEFINE S == Counts(counter)
<1>1. S \in SUBSET Nat /\ S # {} /\ (\A y \in S : y <= n) /\ (\A d \in D : counter[d] \in S)
      /\ \A y \in S : \E d \in D : counter[d] = y
  BY DEF Counts
<1> HIDE DEF S
<1>2. Min(S) \in S /\ \A y \in S : Min(S) <= y
  BY <1>1, MinIsLeast
<1>3. Max(S) \in S /\ \A y \in S : Max(S) >= y
  BY <1>1, MaxIsGreatest
<1> DEFINE lo == Min(S)
           hi == Max(S)
<1>4. lo \in S /\ hi \in S /\ \A y \in S : lo <= y /\ hi >= y
  BY <1>2, <1>3
<1>5. lo = Smallest(counter) /\ hi = Largest(counter)
  BY DEF Smallest, Largest, S
<1> HIDE DEF lo, hi
<1>6. /\ lo \in Nat
      /\ hi \in Nat
      /\ \A d \in D : lo <= counter[d] /\ counter[d] <= hi
      /\ \E d \in D : counter[d] = lo
      /\ \E d \in D : counter[d] = hi
  BY <1>1, <1>4
<1> QED
  BY <1>5, <1>6

\* Conversely, a count that no other undercuts is the smallest.
LEMMA SmallestIs ==
    ASSUME NEW D, NEW counter \in [D -> Nat], NEW d \in D, \A e \in D : counter[d] <= counter[e]
    PROVE  Smallest(counter) = counter[d]
<1>1. Counts(counter) \in SUBSET Nat /\ counter[d] \in Counts(counter)
      /\ \A y \in Counts(counter) : counter[d] <= y
  BY DEF Counts
<1> QED
  BY <1>1, MinIs DEF Smallest

\* And a count that no other exceeds is the largest.
LEMMA LargestIs ==
    ASSUME NEW D, NEW counter \in [D -> Nat], NEW d \in D, \A e \in D : counter[d] >= counter[e]
    PROVE  Largest(counter) = counter[d]
<1>1. Counts(counter) \in SUBSET Nat /\ counter[d] \in Counts(counter)
      /\ \A y \in Counts(counter) : counter[d] >= y
  BY DEF Counts
<1> QED
  BY <1>1, MaxIs DEF Largest

\* The second smallest count tells whether one domain alone has the smallest one.
LEMMA SecondSmallestTells ==
    ASSUME NEW D, IsFiniteSet(D), NEW counter \in [D -> Nat], NEW n \in Nat,
           \A e \in D : counter[e] <= n,
           NEW d \in D, counter[d] = Smallest(counter), Largest(counter) # Smallest(counter)
    PROVE  (Smallest(counter) # SecondSmallest(counter))
               <=> \A e \in D \ {d} : counter[e] # Smallest(counter)
<1> DEFINE lo  == Smallest(counter)
           low == {e \in D : counter[e] = lo}
           rest == {counter[e] : e \in D \ low}
<1>1. /\ lo \in Nat
      /\ \A e \in D : lo <= counter[e] /\ counter[e] <= Largest(counter)
      /\ \E e \in D : counter[e] = Largest(counter)
  BY CounterBounds
<1>2. PICK h \in D : counter[h] # lo
  BY <1>1
<1>3. low # D /\ d \in low
  BY <1>2
<1>4. IsFiniteSet(low) /\ Cardinality(low) \in Nat
  BY FS_Subset, FS_CardinalityType
<1>5. Cardinality(low) > 1 <=> \E e \in D \ {d} : counter[e] = lo
  <2>1. Cardinality(low) = 1 <=> \E x : low = {x}
    BY <1>4, FS_Singleton
  <2>2. Cardinality(low) # 0
    BY <1>3, <1>4, FS_EmptySet
  <2>3. (\E x : low = {x}) <=> ~\E e \in D \ {d} : counter[e] = lo
    BY <1>3
  <2> QED
    BY <1>4, <2>1, <2>2, <2>3
<1>6. rest \in SUBSET Nat /\ rest # {} /\ lo \notin rest
  BY <1>2
<1>7. Min(rest) \in rest
  BY <1>6, MinIsLeast
<1>8. Min(rest) # lo
  BY <1>6, <1>7
<1>9. SecondSmallest(counter) = IF Cardinality(low) > 1 \/ low = D THEN lo ELSE Min(rest)
  BY DEF SecondSmallest
<1> HIDE DEF lo, low, rest
<1>10. (lo # SecondSmallest(counter)) <=> ~(Cardinality(low) > 1)
  BY <1>3, <1>8, <1>9
<1>11. (lo # SecondSmallest(counter)) <=> \A e \in D \ {d} : counter[e] # lo
  BY <1>5, <1>10
<1> QED
  BY <1>11 DEF lo

----------------------------------------------------------------------------
\* One more binding in a domain, seen in the counter.
More(counter, d) == [counter EXCEPT ![d] = @ + 1]

\* With two domains or more, the change of the skew that willViolate foresees is
\* the one that another binding in the domain brings about.
THEOREM ForecastIsRight ==
    ASSUME NEW D, IsFiniteSet(D), NEW counter \in [D -> Nat], NEW n \in Nat,
           \A e \in D : counter[e] <= n,
           NEW d \in D, NEW other \in D \ {d}
    PROVE  Skew(More(counter, d)) = Skew(counter) + SkewChange(counter, d)
<1> DEFINE lo   == Smallest(counter)
           hi   == Largest(counter)
           next == More(counter, d)
<1>1. /\ lo \in Nat /\ hi \in Nat
      /\ \A e \in D : lo <= counter[e] /\ counter[e] <= hi
      /\ \E e \in D : counter[e] = lo
      /\ \E e \in D : counter[e] = hi
  BY CounterBounds
<1>2. /\ next \in [D -> Nat]
      /\ next[d] = counter[d] + 1
      /\ \A e \in D \ {d} : next[e] = counter[e]
  BY DEF More
<1>3. (counter[d] = lo /\ hi # lo) =>
        ((lo # SecondSmallest(counter)) <=> \A e \in D \ {d} : counter[e] # lo)
  BY SecondSmallestTells
<1> DEFINE alone == lo # SecondSmallest(counter)
<1>4. SkewChange(counter, d) = IF hi = lo THEN 1
                               ELSE IF counter[d] = lo /\ alone THEN -1
                               ELSE IF counter[d] = hi THEN 1 ELSE 0
  BY DEF SkewChange
<1>5. Skew(counter) = hi - lo /\ Skew(next) = Largest(next) - Smallest(next)
  BY DEF Skew
<1>6. (counter[d] = lo /\ hi # lo) => (alone <=> \A e \in D \ {d} : counter[e] # lo)
  BY <1>3
<1> HIDE DEF lo, hi, next, alone
<1>7. CASE hi = lo
  <2>1. \A e \in D : counter[e] = lo
    BY <1>1, <1>7
  <2>2. Smallest(next) = next[other] /\ next[other] = lo
    <3>1. \A e \in D : next[other] <= next[e]
      BY <1>1, <1>2, <2>1
    <3> QED
      BY <1>2, <2>1, <3>1, SmallestIs
  <2>3. Largest(next) = next[d] /\ next[d] = lo + 1
    <3>1. \A e \in D : next[d] >= next[e]
      BY <1>1, <1>2, <2>1
    <3> QED
      BY <1>2, <2>1, <3>1, LargestIs
  <2> QED
    BY <1>1, <1>4, <1>5, <1>7, <2>2, <2>3 DEF next
<1>8. CASE hi # lo /\ counter[d] = lo /\ alone
  <2>1. \A e \in D \ {d} : counter[e] >= lo + 1
    BY <1>1, <1>6, <1>8
  <2>2. Smallest(next) = lo + 1
    <3>1. next[d] = lo + 1 /\ \A e \in D : next[d] <= next[e]
      BY <1>1, <1>2, <1>8, <2>1
    <3> QED
      BY <1>2, <3>1, SmallestIs
  <2>3. Largest(next) = hi
    <3>1. PICK h \in D : counter[h] = hi
      BY <1>1
    <3>2. next[h] = hi /\ \A e \in D : next[h] >= next[e]
      BY <1>1, <1>2, <1>8, <3>1
    <3> QED
      BY <1>2, <3>2, LargestIs
  <2> QED
    BY <1>1, <1>4, <1>5, <1>8, <2>2, <2>3 DEF next
<1>9. CASE hi # lo /\ ~(counter[d] = lo /\ alone)
  <2>1. Smallest(next) = lo
    <3>1. PICK l \in D \ {d} : counter[l] = lo
      BY <1>1, <1>6, <1>9
    <3>2. next[l] = lo /\ \A e \in D : next[l] <= next[e]
      BY <1>1, <1>2, <3>1
    <3> QED
      BY <1>2, <3>2, SmallestIs
  <2>2. CASE counter[d] = hi
    <3>1. next[d] = hi + 1 /\ \A e \in D : next[d] >= next[e]
      BY <1>1, <1>2, <2>2
    <3>2. Largest(next) = hi + 1
      BY <1>2, <3>1, LargestIs
    <3> QED
      BY <1>1, <1>4, <1>5, <1>9, <2>1, <2>2, <3>2 DEF next
  <2>3. CASE counter[d] # hi
    <3>1. PICK h \in D : counter[h] = hi
      BY <1>1
    <3>2. next[h] = hi /\ \A e \in D : next[h] >= next[e]
      BY <1>1, <1>2, <2>3, <3>1
    <3>3. Largest(next) = hi
      BY <1>2, <3>2, LargestIs
    <3> QED
      BY <1>1, <1>4, <1>5, <1>9, <2>1, <2>3, <3>3 DEF next
  <2> QED
    BY <2>2, <2>3
<1> QED
  BY <1>7, <1>8, <1>9

----------------------------------------------------------------------------
\* The counter of a fleet counts at most its clusters, and another cluster of a
\* domain adds one to that domain and to no other.
LEMMA CounterOfFleet ==
    ASSUME NEW fleet, IsFiniteSet(DOMAIN fleet), NEW key, NEW placed \in SUBSET (DOMAIN fleet),
           NEW c \in DOMAIN fleet \ placed, key \in DOMAIN fleet[c].labels
    PROVE  LET counter == CountByDomain(fleet, key, placed)
               D       == DOMAIN counter
           IN  /\ IsFiniteSet(D) /\ fleet[c].labels[key] \in D
               /\ counter \in [D -> Nat]
               /\ Cardinality(DOMAIN fleet) \in Nat
               /\ \A d \in D : counter[d] <= Cardinality(DOMAIN fleet)
               /\ CountByDomain(fleet, key, placed \cup {c}) = More(counter, fleet[c].labels[key])
<1> DEFINE keyed == {k \in DOMAIN fleet : key \in DOMAIN fleet[k].labels}
           D     == {fleet[k].labels[key] : k \in keyed}
           In(d) == Domain(fleet, key, d)
           home  == fleet[c].labels[key]
           counter == [d \in D |-> Cardinality(In(d) \cap placed)]
           next    == [d \in D |-> Cardinality(In(d) \cap (placed \cup {c}))]
<1>1. IsFiniteSet(keyed)
  BY FS_Subset
<1>2. IsFiniteSet(D)
  <2> DEFINE label == [k \in keyed |-> fleet[k].labels[key]]
  <2>1. label \in Surjection(keyed, D)
    BY DEF Surjection
  <2> HIDE DEF keyed, D, label
  <2> QED
    BY <1>1, <2>1, FS_Surjection
<1>3. home \in D
  OBVIOUS
<1>4. \A d \in D : /\ In(d) \cap placed \subseteq DOMAIN fleet
                   /\ IsFiniteSet(In(d) \cap placed)
                   /\ Cardinality(In(d) \cap placed) \in Nat
                   /\ Cardinality(In(d) \cap placed) <= Cardinality(DOMAIN fleet)
  BY FS_Subset, FS_CardinalityType DEF Domain
<1>5. \A d \in D : Cardinality(In(d) \cap (placed \cup {c}))
                     = IF d = home THEN Cardinality(In(d) \cap placed) + 1
                                   ELSE Cardinality(In(d) \cap placed)
  <2> SUFFICES ASSUME NEW d \in D
               PROVE  Cardinality(In(d) \cap (placed \cup {c}))
                        = IF d = home THEN Cardinality(In(d) \cap placed) + 1
                                      ELSE Cardinality(In(d) \cap placed)
    OBVIOUS
  <2>1. CASE d = home
    <3>1. In(d) \cap (placed \cup {c}) = (In(d) \cap placed) \cup {c} /\ c \notin In(d) \cap placed
      BY <2>1 DEF Domain
    <3>2. IsFiniteSet(In(d) \cap placed)
      BY <1>4
    <3> DEFINE S == In(d) \cap placed
    <3> HIDE DEF S, In, D, home
    <3>3. Cardinality(S \cup {c}) = Cardinality(S) + 1
      BY <3>1, <3>2, FS_AddElement DEF S
    <3> QED
      BY <2>1, <3>1, <3>3 DEF S
  <2>2. CASE d # home
    <3>1. In(d) \cap (placed \cup {c}) = In(d) \cap placed
      BY <2>2 DEF Domain
    <3> QED
      BY <2>2, <3>1
  <2> QED
    BY <2>1, <2>2
<1>6. counter = CountByDomain(fleet, key, placed)
      /\ next = CountByDomain(fleet, key, placed \cup {c}) /\ DOMAIN counter = D
  BY DEF CountByDomain
<1>7. next = More(counter, home)
  BY <1>3, <1>5 DEF More
<1>8. counter \in [D -> Nat] /\ \A d \in D : counter[d] <= Cardinality(DOMAIN fleet)
  BY <1>4
<1>9. Cardinality(DOMAIN fleet) \in Nat
  BY FS_CardinalityType
<1> HIDE DEF D, counter, next
<1> QED
  BY <1>2, <1>3, <1>6, <1>7, <1>8, <1>9

\* A cluster that a hard constraint lets pass leaves the spread of the bindings
\* over the domains within the constraint, however many domains there are.
THEOREM SpreadWithinBound ==
    ASSUME NEW fleet, IsFiniteSet(DOMAIN fleet), NEW placed \in SUBSET (DOMAIN fleet),
           NEW policy, NEW i \in DOMAIN policy.spread,
           policy.spread[i].unsatisfiable = "DoNotSchedule",
           policy.spread[i].maxSkew \in Nat,
           NEW c \in Passing(fleet, policy, placed),
           policy.spread[i].key \in DOMAIN fleet[c].labels
    PROVE  Skew(CountByDomain(fleet, policy.spread[i].key, placed \cup {c}))
               <= policy.spread[i].maxSkew
<1> DEFINE t       == policy.spread[i]
           counter == CountByDomain(fleet, t.key, placed)
           D       == DOMAIN counter
           home    == fleet[c].labels[t.key]
           N       == Cardinality(DOMAIN fleet)
<1>1. c \in DOMAIN fleet \ placed /\ ~Violates(fleet, placed, t, c)
  BY DEF Passing, SpreadFilter
<1>2. ~WillViolate(counter, home, t.maxSkew)
  BY <1>1 DEF Violates
<1>3. /\ IsFiniteSet(D) /\ home \in D /\ counter \in [D -> Nat] /\ N \in Nat
      /\ \A d \in D : counter[d] <= N
      /\ CountByDomain(fleet, t.key, placed \cup {c}) = More(counter, home)
  BY <1>1, CounterOfFleet
<1> HIDE DEF counter, D, home, N
<1>4. CASE \E other \in D : other # home
  <2>1. PICK other \in D \ {home} : TRUE
    BY <1>4
  <2>2. Skew(More(counter, home)) = Skew(counter) + SkewChange(counter, home)
    BY <1>3, <2>1, ForecastIsRight
  <2>3. Skew(counter) \in Int /\ SkewChange(counter, home) \in Int
    <3>1. Smallest(counter) \in Nat /\ Largest(counter) \in Nat
      BY <1>3, CounterBounds
    <3> QED
      BY <3>1 DEF Skew, SkewChange
  <2>4. ~(Skew(counter) + SkewChange(counter, home) > t.maxSkew)
    BY <1>2 DEF WillViolate
  <2>5. Skew(counter) + SkewChange(counter, home) <= t.maxSkew
    BY <2>3, <2>4
  <2> QED
    BY <1>3, <2>2, <2>5
<1>5. CASE ~\E other \in D : other # home
  <2> DEFINE next == More(counter, home)
  <2>1. next \in [D -> Nat] /\ \A e \in D : e = home
    BY <1>3, <1>5 DEF More
  <2> HIDE DEF next
  <2>2. Smallest(next) = next[home] /\ Largest(next) = next[home] /\ next[home] \in Nat
    BY <1>3, <2>1, SmallestIs, LargestIs
  <2>3. Skew(next) = 0
    BY <2>2 DEF Skew
  <2> QED
    BY <1>3, <2>3 DEF next
<1> QED
  BY <1>4, <1>5

----------------------------------------------------------------------------
(* The status of a placement.                                              *)

\* The last binding of a list is one of the list.
LEMMA LastIsOne ==
    ASSUME NEW n \in Nat, NEW S \in SUBSET (1..n), S # {}
    PROVE  Max(S) \in S
<1> DEFINE T == {k \in Nat : n - k \in S}
<1>1. T # {} /\ T \subseteq Nat
  <2>1. PICK y \in S : TRUE
    OBVIOUS
  <2>2. n - y \in Nat /\ n - (n - y) = y
    OBVIOUS
  <2> QED
    BY <2>1, <2>2
<1>2. PICK k \in T : \A y \in T : k <= y
  BY <1>1, MinIsLeast
<1>3. \A y \in S : n - k >= y
  <2> SUFFICES ASSUME NEW y \in S PROVE n - k >= y
    OBVIOUS
  <2>1. n - y \in Nat /\ n - (n - y) = y
    OBVIOUS
  <2>2. n - y \in T
    BY <2>1
  <2>3. k <= n - y /\ k \in Nat /\ y \in Nat
    BY <1>2, <2>2
  <2> QED
    BY ONLY <2>3, n \in Nat
<1>4. n - k \in S
  BY <1>2
<1> HIDE DEF T
<1> QED
  BY <1>3, <1>4 DEF Max

\* The kinds are some, in the order of the natural numbers, the start of the
\* rollout among them.
LEMMA KindsExpected ==
    ASSUME NEW p
    PROVE  /\ DOMAIN ExpectedKinds(p) \subseteq Nat
           /\ "RolloutStarted" \in KindsOf(ExpectedKinds(p))
<1>1. CASE p.diff
  BY <1>1 DEF ExpectedKinds, KindsOf
<1>2. CASE ~p.diff
  BY <1>2 DEF ExpectedKinds, KindsOf
<1> QED
  BY <1>1, <1>2

\* A report without a status other than true is complete: a kind is left out
\* only behind one that is not true.
LEMMA ReportIsComplete ==
    ASSUME NEW kinds, DOMAIN kinds \subseteq Nat, NEW status,
           \A k \in DOMAIN Report(kinds, status) : Report(kinds, status)[k] = "True"
    PROVE  \A k \in KindsOf(kinds) : status[k] = "True"
<1> DEFINE Bad == {i \in DOMAIN kinds : status[kinds[i]] # "True"}
<1> SUFFICES ASSUME Bad # {} PROVE FALSE
  BY DEF KindsOf
<1>1. PICK m \in Bad : \A y \in Bad : m <= y
  BY MinIsLeast
<1>2. m \in Shown(kinds, status)
  BY <1>1 DEF Shown
<1>3. kinds[m] \in DOMAIN Report(kinds, status)
      /\ Report(kinds, status)[kinds[m]] = status[kinds[m]]
  BY <1>2 DEF Report
<1> QED
  BY <1>1, <1>3

----------------------------------------------------------------------------
\* isRolloutCompleted is true only when every selected cluster has a binding of
\* the latest policy that is not being deleted, holds the resources whose index
\* the status names, and has every expected condition.
THEOREM CompletedIsEarned ==
    ASSUME NEW p, p.external \in BOOLEAN,
           NEW S, NEW bindings \in Seq(S),
           \A i \in DOMAIN bindings : \A k \in KindsOf(ExpectedKinds(p)) :
               bindings[i].conditions[k] \in {"True", "False", "Unknown"},
           RolloutCompleted(p, PlacementReport(p, bindings)),
           NEW c \in p.selected
    PROVE  \E i \in BindingsFor(p, bindings, c) :
               /\ bindings[i].snap = PlacementReport(p, bindings).index
               /\ \A k \in KindsOf(ExpectedKinds(p)) : bindings[i].conditions[k] = "True"
<1> DEFINE kinds   == ExpectedKinds(p)
           reports == [s \in p.selected |-> PerCluster(p, bindings, s)]
           indices == [s \in p.selected |-> ObservedIndex(p, bindings, s)]
           common  == CHOOSE n \in {indices[s] : s \in p.selected} : TRUE
           report  == PlacementReport(p, bindings)
           own     == BindingsFor(p, bindings, c)
<1>1. /\ DOMAIN kinds \subseteq Nat
      /\ "RolloutStarted" \in KindsOf(kinds)
  BY KindsExpected
<1>2. \A k \in KindsOf(kinds) : k \in DOMAIN report.conditions /\ report.conditions[k] = "True"
  BY DEF RolloutCompleted
<1>3. /\ ~(p.external /\ Undetermined(reports, indices))
      /\ report.index = IF p.external THEN common ELSE p.latest
      /\ report.conditions = Conditions(p, reports)
  <2>1. "RolloutStarted" \in DOMAIN report.conditions
        /\ report.conditions["RolloutStarted"] = "True"
    BY <1>1, <1>2
  <2>2. p.scheduled # "Unknown"
    BY DEF PlacementReport, RolloutCompleted
  <2>3. ~(p.external /\ Undetermined(reports, indices))
    BY <2>1, <2>2 DEF PlacementReport, Only, NoReport
  <2> QED
    BY <2>1, <2>2, <2>3 DEF PlacementReport, NoReport
<1>4. \A k \in KindsOf(kinds) : Combined(reports, k) = "True"
  <2> DEFINE status == [k \in KindsOf(kinds) |-> Combined(reports, k)]
  <2>1. report.conditions = Report(kinds, status)
    BY <1>3 DEF Conditions
  <2>2. \A k \in KindsOf(kinds) : status[k] = Combined(reports, k)
    OBVIOUS
  <2> HIDE DEF status, report, kinds, reports
  <2>3. \A k \in DOMAIN Report(kinds, status) : Report(kinds, status)[k] = status[k]
    BY DEF Report
  <2> SUFFICES ASSUME NEW k \in KindsOf(kinds) PROVE Combined(reports, k) = "True"
    OBVIOUS
  <2>4. k \in DOMAIN Report(kinds, status) /\ Report(kinds, status)[k] = "True"
    BY ZenonT(30), <1>2, <2>1
  <2> QED
    BY ZenonT(30), <2>2, <2>3, <2>4
<1>5. \A k \in KindsOf(kinds) : k \in DOMAIN reports[c] => reports[c][k] \notin {"Unknown", "False"}
  BY <1>4 DEF Combined, Found
<1>6. reports[c] = PerCluster(p, bindings, c) /\ indices[c] = ObservedIndex(p, bindings, c)
  OBVIOUS
<1> HIDE DEF reports, indices, common, report, kinds
<1>7. own # {}
  <2> SUFFICES ASSUME own = {} PROVE FALSE
    OBVIOUS
  <2>1. reports[c] = Only("RolloutStarted", "Unknown")
    BY <1>6 DEF PerCluster
  <2> QED
    BY <1>1, <1>5, <2>1 DEF Only
<1> DEFINE i == Max(own)
           b == bindings[i]
<1>8. i \in own
  <2>1. Len(bindings) \in Nat /\ own \subseteq 1..Len(bindings)
    BY DEF BindingsFor
  <2> HIDE DEF own
  <2> QED
    BY <1>7, <2>1, LastIsOne
<1>9. reports[c] = FromStrategy(p, b) /\ indices[c] = IF p.external THEN b.snap ELSE p.latest
  BY <1>6, <1>7 DEF PerCluster, ObservedIndex
<1>10. i \in DOMAIN bindings
  BY <1>8 DEF BindingsFor
<1> HIDE DEF i, own
<1>11. (p.external \/ b.snap = p.latest) /\ reports[c] = Report(kinds, b.conditions)
  <2>1. p.external \/ b.snap = p.latest
    <3> SUFFICES ASSUME ~(p.external \/ b.snap = p.latest) PROVE FALSE
      OBVIOUS
    <3>1. \/ reports[c] = Only("RolloutStarted", "False")
          \/ reports[c] = Only("RolloutStarted", "Unknown")
      BY <1>9 DEF FromStrategy
    <3> QED
      BY <1>1, <1>5, <3>1 DEF Only
  <2> QED
    BY <1>9, <2>1 DEF FromStrategy, FromBinding, kinds
<1>12. \A k \in KindsOf(kinds) : b.conditions[k] = "True"
  <2>1. \A k \in DOMAIN Report(kinds, b.conditions) :
            /\ k \in KindsOf(kinds)
            /\ Report(kinds, b.conditions)[k] = b.conditions[k]
    BY DEF Report, Shown, KindsOf
  <2>2. \A k \in DOMAIN Report(kinds, b.conditions) : Report(kinds, b.conditions)[k] = "True"
    <3>1. \A k \in KindsOf(kinds) : b.conditions[k] \in {"True", "Unknown", "False"}
      BY <1>10 DEF kinds
    <3> SUFFICES ASSUME NEW k \in DOMAIN Report(kinds, b.conditions)
                 PROVE  Report(kinds, b.conditions)[k] = "True"
      OBVIOUS
    <3>2. k \in KindsOf(kinds) /\ Report(kinds, b.conditions)[k] = b.conditions[k]
      BY ZenonT(30), <2>1
    <3>3. Report(kinds, b.conditions)[k] \notin {"Unknown", "False"}
      BY ZenonT(30), <1>5, <1>11, <3>2
    <3> QED
      BY ZenonT(30), <3>1, <3>2, <3>3
  <2> QED
    BY ZenonT(30), <1>1, <2>2, ReportIsComplete
<1>13. b.snap = report.index
  <2>1. CASE p.external
    <3>1. \A s \in p.selected : indices[s] = indices[c]
      BY SMTT(30), <1>3, <2>1 DEF Undetermined, indices
    <3>2. common = indices[c]
      BY <3>1 DEF common
    <3> QED
      BY <1>3, <1>9, <2>1, <3>2
  <2>2. CASE ~p.external
    BY <1>3, <1>11, <2>2
  <2> QED
    BY <2>1, <2>2
<1> QED
  BY <1>8, <1>12, <1>13 DEF own, kinds, report

=============================================================================
