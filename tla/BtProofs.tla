------------------------------ MODULE BtProofs ------------------------------
(***************************************************************************)
(* The tables of btv3 stay sound, for every byte alphabet, depth, hash and *)
(* size of table, and train what FreqTable counts.                         *)
(*                                                                         *)
(* The inductive invariant Inv says of the tables in use that a probe      *)
(* finds every entry (BtOK, CtxsOK), and of what a reader is given, from   *)
(* the tables in use or from the file, that the chains hold each context's *)
(* entries once and that the totals add them up (Readable).  It needs the  *)
(* chain of every context to be disjoint from the others, and links that   *)
(* lead down, for the walk along a chain to end; the invariants that TLC   *)
(* checks follow from it.                                                  *)
(*                                                                         *)
(* A chain is what the walk in the code meets, and a total is a fold, so   *)
(* the first half of the module is about what walks and sums do when a     *)
(* pool changes in one place.                                              *)
(*                                                                         *)
(* The end of the module is about BtReader: once bt_v3_validate accepts a  *)
(* file, whatever its size and contents, a reader stays inside its regions.*)
(***************************************************************************)
EXTENDS BtTable, BtReader, NatInduction, SequenceTheorems, FiniteSetTheorems

-----------------------------------------------------------------------------
(***************************************************************************)
(* Linear probing.  Nth(a, d, n) is the slot d places on from slot a in an *)
(* array of n; a search for S that starts at a stops at h.                 *)
(***************************************************************************)
Nth(a, d, n) == IF a + d < n THEN a + d ELSE a + d - n

Passed(slot, n, a, d, S) == \A e \in 0 .. d - 1 : slot[Nth(a, e, n)] \notin S

Stops(slot, n, a, d, S) == slot[Nth(a, d, n)] \in S /\ Passed(slot, n, a, d, S)

\* Slots come round again.
LEMMA NthRound ==
    ASSUME NEW n \in Nat \ {0}, NEW a \in 0 .. n - 1
    PROVE  /\ Nth(a, 0, n) = a
           /\ \A d \in 0 .. n - 1 : Nth(a, d, n) \in 0 .. n - 1
           /\ Nth(a, 1, n) = (a + 1) % n /\ (a + 1) % n \in 0 .. n - 1
           /\ \A d \in Nat : d + 1 < n => Nth((a + 1) % n, d, n) = Nth(a, d + 1, n)
           /\ \A h \in 0 .. n - 1 : \E d \in 0 .. n - 1 : h = Nth(a, d, n)
<1>1. (a + 1) % n = IF a + 1 = n THEN 0 ELSE a + 1
  OBVIOUS
<1>2. ASSUME NEW h \in 0 .. n - 1 PROVE \E d \in 0 .. n - 1 : h = Nth(a, d, n)
  <2>1. CASE a <= h
    <3>1. h - a \in 0 .. n - 1 /\ h = Nth(a, h - a, n)
      BY <2>1 DEF Nth
    <3> QED
      BY <3>1
  <2>2. CASE h < a
    <3>1. h - a + n \in 0 .. n - 1 /\ h = Nth(a, h - a + n, n)
      BY <2>2 DEF Nth
    <3> QED
      BY <3>1
  <2> QED
    BY <2>1, <2>2
<1>3. ASSUME NEW d \in 0 .. n - 1 PROVE Nth(a, d, n) \in 0 .. n - 1
  BY DEF Nth
<1>4. ASSUME NEW d \in Nat, d + 1 < n
      PROVE  Nth((a + 1) % n, d, n) = Nth(a, d + 1, n)
  BY <1>1, <1>4 DEF Nth
<1> QED
  BY <1>1, <1>2, <1>3, <1>4 DEF Nth

\* If anything in the slots stops a search, there is a first such slot.
LEMMA FirstStop ==
    ASSUME NEW n \in Nat \ {0}, NEW slot, NEW S, NEW a \in 0 .. n - 1,
           \E h \in 0 .. n - 1 : slot[h] \in S
    PROVE  \E d \in 0 .. n - 1 : Stops(slot, n, a, d, S)
<1> DEFINE T == {d \in 0 .. n - 1 : slot[Nth(a, d, n)] \in S}
<1>1. T # {} /\ T \in SUBSET Nat
  <2>1. PICK h \in 0 .. n - 1 : slot[h] \in S
    OBVIOUS
  <2>2. PICK d \in 0 .. n - 1 : h = Nth(a, d, n)
    BY NthRound
  <2>3. d \in T
    BY <2>1, <2>2
  <2> QED
    BY <2>3
<1>2. PICK d \in T : \A e \in T : d <= e
  BY <1>1, LeastMember
<1>3. ASSUME NEW e \in 0 .. d - 1 PROVE e \notin T /\ e \in 0 .. n - 1
  BY <1>2
<1> QED
  BY <1>2, <1>3 DEF Stops, Passed

\* There is only one.
LEMMA OneStop ==
    ASSUME NEW n \in Nat, NEW slot, NEW S, NEW a,
           NEW d \in 0 .. n - 1, NEW e \in 0 .. n - 1,
           Stops(slot, n, a, d, S), Stops(slot, n, a, e, S)
    PROVE  d = e
<1>1. ASSUME d < e PROVE FALSE
  BY <1>1 DEF Stops, Passed
<1>2. ASSUME e < d PROVE FALSE
  BY <1>2 DEF Stops, Passed
<1> QED
  BY <1>1, <1>2

\* What Probe returns.
LEMMA ProbeStops ==
    ASSUME NEW n \in Nat \ {0}, NEW slot, DOMAIN slot = 0 .. n - 1,
           NEW hits, ProbeEnds(slot, hits), NEW hash \in Nat
    PROVE  /\ hash % n \in 0 .. n - 1
           /\ Probe(slot, hash, hits) \in 0 .. n - 1
           /\ \E d \in 0 .. n - 1 :
                /\ Probe(slot, hash, hits) = Nth(hash % n, d, n)
                /\ Stops(slot, n, hash % n, d, {Empty} \cup hits)
<1> DEFINE S == {Empty} \cup hits
           next(a) == (a + 1) % n
           D == [a \in 0 .. n - 1 |-> CHOOSE d \in 0 .. n - 1 : Stops(slot, n, a, d, S)]
           f == [a \in 0 .. n - 1 |-> Nth(a, D[a], n)]
           P(g) == g = [h \in 0 .. n - 1 |-> IF slot[h] \in S THEN h ELSE g[next(h)]]
           c == CHOOSE g : P(g)
<1>1. \E h \in 0 .. n - 1 : slot[h] \in S
  BY DEF ProbeEnds
<1>2. Cardinality(0 .. n - 1) = n
  BY FS_Interval
<1>3. Probe(slot, hash, hits) = c[hash % n]
  BY <1>2 DEF Probe
<1> HIDE DEF S
<1>4. ASSUME NEW a \in 0 .. n - 1
      PROVE  D[a] \in 0 .. n - 1 /\ Stops(slot, n, a, D[a], S)
  BY <1>1, FirstStop
<1> HIDE DEF D
<1>5. ASSUME NEW a \in 0 .. n - 1, slot[a] \in S PROVE D[a] = 0
  <2>1. Stops(slot, n, a, 0, S) /\ 0 \in 0 .. n - 1
    BY <1>5, NthRound DEF Stops, Passed
  <2> QED
    BY <1>4, <2>1, OneStop
<1>6. ASSUME NEW a \in 0 .. n - 1, slot[a] \notin S
      PROVE  /\ next(a) \in 0 .. n - 1 /\ D[a] # 0
             /\ D[next(a)] = D[a] - 1 /\ f[next(a)] = f[a]
  <2> DEFINE b == next(a)
             d == D[a] - 1
  <2>1. D[a] \in 0 .. n - 1 /\ D[a] # 0 /\ Stops(slot, n, a, D[a], S)
    BY <1>4, <1>6, NthRound DEF Stops
  <2>2. b \in 0 .. n - 1 /\ d \in 0 .. n - 1 /\ d + 1 = D[a] /\ d + 1 < n
    <3>1. b \in 0 .. n - 1
      BY NthRound
    <3> QED
      BY <2>1, <3>1
  <2> HIDE DEF d
  <2>3. ASSUME NEW e \in 0 .. d PROVE Nth(b, e, n) = Nth(a, e + 1, n)
    <3>1. e \in Nat /\ e + 1 < n
      BY <2>2
    <3> QED
      BY <3>1, NthRound
  <2>4. Passed(slot, n, b, d, S)
    <3>1. ASSUME NEW e \in 0 .. d - 1 PROVE slot[Nth(b, e, n)] \notin S
      <4>1. e + 1 \in 0 .. D[a] - 1 /\ e \in 0 .. d
        BY <2>1, <2>2
      <4> QED
        BY <2>1, <2>3, <4>1 DEF Stops, Passed
    <3> QED
      BY <3>1 DEF Passed
  <2>5. slot[Nth(b, d, n)] \in S
    BY <2>1, <2>2, <2>3 DEF Stops
  <2>6. D[b] = d
    <3>1. Stops(slot, n, b, d, S)
      BY <2>4, <2>5 DEF Stops
    <3> QED
      BY <1>4, <2>2, <3>1, OneStop
  <2> QED
    BY <2>1, <2>2, <2>3, <2>6 DEF d
<1>7. P(f)
  <2>1. ASSUME NEW a \in 0 .. n - 1
        PROVE  f[a] = IF slot[a] \in S THEN a ELSE f[next(a)]
    <3>1. CASE slot[a] \in S
      <4>1. D[a] = 0 /\ Nth(a, 0, n) = a
        BY <1>5, <3>1, NthRound
      <4> QED
        BY <3>1, <4>1
    <3>2. CASE slot[a] \notin S
      BY <1>6, <3>2
    <3> QED
      BY <3>1, <3>2
  <2> QED
    BY <2>1
<1>8. P(c)
  BY <1>7
<1> HIDE DEF c
<1>9. \A a \in 0 .. n - 1 : c[a] = IF slot[a] \in S THEN a ELSE c[next(a)]
  BY <1>8
<1> HIDE DEF P
<1> DEFINE T == {d \in Nat : \A a \in 0 .. n - 1 : D[a] = d => c[a] = f[a]}
<1>10. 0 \in T
  <2>1. ASSUME NEW a \in 0 .. n - 1, D[a] = 0 PROVE c[a] = f[a]
    <3>1. slot[a] \in S
      BY <1>6, <2>1
    <3>2. Nth(a, 0, n) = a
      BY NthRound
    <3> QED
      BY <1>9, <2>1, <3>1, <3>2
  <2> QED
    BY <2>1
<1>11. ASSUME NEW d \in T PROVE d + 1 \in T
  <2>1. ASSUME NEW a \in 0 .. n - 1, D[a] = d + 1 PROVE c[a] = f[a]
    <3>1. slot[a] \notin S
      BY <1>5, <2>1
    <3>2. next(a) \in 0 .. n - 1 /\ D[next(a)] = d /\ f[next(a)] = f[a]
      BY <1>6, <2>1, <3>1
    <3> QED
      BY <1>9, <3>1, <3>2
  <2> QED
    BY <2>1
<1>12. \A d \in Nat : d \in T
  <2>1. T \in SUBSET Nat
    OBVIOUS
  <2>2. 0 \in T /\ \A d \in T : d + 1 \in T
    BY <1>10, <1>11
  <2> HIDE DEF T
  <2> QED
    BY <2>1, <2>2, Induction
<1>13. hash % n \in 0 .. n - 1
  OBVIOUS
<1>14. c[hash % n] = Nth(hash % n, D[hash % n], n)
  BY <1>4, <1>12, <1>13
<1>15. D[hash % n] \in 0 .. n - 1 /\ Stops(slot, n, hash % n, D[hash % n], {Empty} \cup hits)
  BY <1>4, <1>13 DEF S
<1>16. Nth(hash % n, D[hash % n], n) \in 0 .. n - 1
  BY <1>13, <1>15, NthRound
<1> QED
  BY <1>3, <1>13, <1>14, <1>15, <1>16

-----------------------------------------------------------------------------
(***************************************************************************)
(* Slots that index the entries 1 .. m, with these hashes: each entry has  *)
(* one slot, and a probe for it meets no empty slot before that one.       *)
(***************************************************************************)
Findable(slot, n, hashes, i) ==
    \E d \in 0 .. n - 1 : /\ slot[Nth(hashes[i] % n, d, n)] = i
                          /\ Passed(slot, n, hashes[i] % n, d, {Empty})

Indexed(slot, n, hashes, m) ==
    /\ n \in Nat \ {0} /\ m \in Nat /\ hashes \in [1 .. m -> Nat]
    /\ slot \in [0 .. n - 1 -> 0 .. m]
    /\ \A g, h \in 0 .. n - 1 : slot[g] = slot[h] /\ slot[g] # Empty => g = h
    /\ \A i \in 1 .. m : Findable(slot, n, hashes, i)

\* The slots of an empty table.
LEMMA NothingIndexed ==
    ASSUME NEW n \in Nat \ {0}, NEW hashes \in [1 .. 0 -> Nat]
    PROVE  Indexed(NoSlots(n), n, hashes, 0)
  BY DEF Indexed, NoSlots, Empty

\* No more entries than slots,
LEMMA EntriesFit ==
    ASSUME NEW slot, NEW n, NEW hashes, NEW m, Indexed(slot, n, hashes, m)
    PROVE  m <= n
<1> DEFINE D(i) == CHOOSE d \in 0 .. n - 1 : /\ slot[Nth(hashes[i] % n, d, n)] = i
                                             /\ Passed(slot, n, hashes[i] % n, d, {Empty})
           f == [i \in 1 .. m |-> Nth(hashes[i] % n, D(i), n)]
<1>1. n \in Nat \ {0} /\ m \in Nat /\ hashes \in [1 .. m -> Nat]
  BY DEF Indexed
<1>2. ASSUME NEW i \in 1 .. m PROVE f[i] \in 0 .. n - 1 /\ slot[f[i]] = i
  <2>1. D(i) \in 0 .. n - 1 /\ slot[Nth(hashes[i] % n, D(i), n)] = i
    <3>1. Findable(slot, n, hashes, i)
      BY DEF Indexed
    <3> QED
      BY <3>1 DEF Findable
  <2>2. hashes[i] % n \in 0 .. n - 1
    BY <1>1
  <2> QED
    BY <1>1, <2>1, <2>2, NthRound
<1> HIDE DEF f
<1>3. f \in [1 .. m -> 0 .. n - 1]
  BY <1>2 DEF f
<1>4. ASSUME n < m PROVE FALSE
  <2>1. IsFiniteSet(1 .. m) /\ Cardinality(1 .. m) = m
    BY <1>1, FS_Interval
  <2>2. IsFiniteSet(0 .. n - 1) /\ Cardinality(0 .. n - 1) = n
    BY <1>1, FS_Interval
  <2>3. Cardinality(0 .. n - 1) < Cardinality(1 .. m)
    BY <1>4, <2>1, <2>2
  <2>4. PICK i, j \in 1 .. m : i # j /\ f[i] = f[j]
    BY <1>3, <2>1, <2>2, <2>3, FS_PigeonHole
  <2>5. slot[f[i]] = i /\ slot[f[j]] = j
    BY <1>2
  <2> QED
    BY <2>4, <2>5
<1> QED
  BY <1>1, <1>4

\* and an empty slot when there are fewer.
LEMMA SlotRemains ==
    ASSUME NEW slot, NEW n, NEW hashes, NEW m, Indexed(slot, n, hashes, m), m < n
    PROVE  \E h \in 0 .. n - 1 : slot[h] = Empty
<1>1. n \in Nat \ {0} /\ m \in Nat /\ slot \in [0 .. n - 1 -> 0 .. m]
  BY DEF Indexed
<1>2. ASSUME \A h \in 0 .. n - 1 : slot[h] # Empty PROVE FALSE
  <2>1. slot \in [0 .. n - 1 -> 1 .. m]
    <3>1. ASSUME NEW h \in 0 .. n - 1 PROVE slot[h] \in 1 .. m
      BY <1>1, <1>2 DEF Empty
    <3> QED
      BY <1>1, <3>1
  <2>2. IsFiniteSet(1 .. m) /\ Cardinality(1 .. m) = m
    BY <1>1, FS_Interval
  <2>3. IsFiniteSet(0 .. n - 1) /\ Cardinality(0 .. n - 1) = n
    BY <1>1, FS_Interval
  <2>4. Cardinality(1 .. m) < Cardinality(0 .. n - 1)
    BY <2>2, <2>3
  <2>5. PICK g, h \in 0 .. n - 1 : g # h /\ slot[g] = slot[h]
    BY <2>1, <2>2, <2>3, <2>4, FS_PigeonHole
  <2> QED
    BY <1>2, <2>5 DEF Indexed
<1> QED
  BY <1>2

\* A probe for an entry, or for none, finds what there is.
LEMMA ProbeFinds ==
    ASSUME NEW slot, NEW n, NEW hashes, NEW m, Indexed(slot, n, hashes, m),
           NEW hash \in Nat, NEW hits \in SUBSET (1 .. m), \A i \in hits : hashes[i] = hash,
           ProbeEnds(slot, hits)
    PROVE  LET at == slot[Probe(slot, hash, hits)]
           IN  /\ Probe(slot, hash, hits) \in 0 .. n - 1
               /\ hits = {} => at = Empty
               /\ hits # {} => at \in hits
<1> DEFINE a == hash % n
           p == Probe(slot, hash, hits)
<1>1. n \in Nat \ {0} /\ slot \in [0 .. n - 1 -> 0 .. m] /\ m \in Nat
  BY DEF Indexed
<1>2. PICK d \in 0 .. n - 1 : p = Nth(a, d, n) /\ Stops(slot, n, a, d, {Empty} \cup hits)
  BY <1>1, ProbeStops
<1>3. p \in 0 .. n - 1 /\ slot[p] \in {Empty} \cup hits
  BY <1>1, <1>2, ProbeStops DEF Stops
<1>4. ASSUME NEW i \in hits, slot[p] = Empty PROVE FALSE
  <2>1. PICK e \in 0 .. n - 1 : slot[Nth(a, e, n)] = i /\ Passed(slot, n, a, e, {Empty})
    BY DEF Indexed, Findable
  <2>2. i # Empty
    BY <1>1 DEF Empty
  <2>3. ~(d < e)
    BY <1>2, <1>4, <2>1 DEF Passed
  <2>4. ~(e < d)
    BY <1>2, <2>1 DEF Stops, Passed
  <2>5. d = e
    BY <2>3, <2>4
  <2> QED
    BY <1>2, <1>4, <2>1, <2>2, <2>5
<1> QED
  BY <1>3, <1>4

\* The hashes of the entries and of one more.
Extended(hashes, m, hash) == [i \in 1 .. m + 1 |-> IF i = m + 1 THEN hash ELSE hashes[i]]

\* An entry put where the probe stops at an empty slot is indexed too.
LEMMA EntryIndexed ==
    ASSUME NEW slot, NEW n, NEW hashes, NEW m, Indexed(slot, n, hashes, m),
           NEW hash \in Nat, NEW hits, ProbeEnds(slot, hits),
           slot[Probe(slot, hash, hits)] = Empty
    PROVE  Indexed([slot EXCEPT ![Probe(slot, hash, hits)] = m + 1], n,
                   Extended(hashes, m, hash), m + 1)
<1> DEFINE p == Probe(slot, hash, hits)
           t == [slot EXCEPT ![p] = m + 1]
           more == Extended(hashes, m, hash)
<1>1. n \in Nat \ {0} /\ slot \in [0 .. n - 1 -> 0 .. m] /\ m \in Nat
      /\ hashes \in [1 .. m -> Nat]
  BY DEF Indexed
<1>2. PICK d \in 0 .. n - 1 : /\ p = Nth(hash % n, d, n)
                              /\ Stops(slot, n, hash % n, d, {Empty} \cup hits)
  BY <1>1, ProbeStops
<1>3. p \in 0 .. n - 1 /\ slot[p] = Empty
  BY <1>1, ProbeStops
<1> HIDE DEF p
<1>4. more \in [1 .. m + 1 -> Nat]
  BY <1>1 DEF Extended
<1>5. t \in [0 .. n - 1 -> 0 .. m + 1]
  BY <1>1, <1>3
<1>6. \A h \in 0 .. n - 1 : t[h] = IF h = p THEN m + 1 ELSE slot[h]
  BY <1>1
<1>7. \A h \in 0 .. n - 1 : slot[h] \in 0 .. m
  BY <1>1
<1>8. ASSUME NEW g \in 0 .. n - 1, NEW h \in 0 .. n - 1, t[g] = t[h], t[g] # Empty
      PROVE  g = h
  <2>1. slot[g] # m + 1 /\ slot[h] # m + 1
    BY <1>1, <1>7
  <2> QED
    BY <1>6, <1>8, <2>1 DEF Indexed
<1>9. ASSUME NEW a \in 0 .. n - 1, NEW e \in 0 .. n - 1, Passed(slot, n, a, e, {Empty})
      PROVE  Passed(t, n, a, e, {Empty})
  <2>1. ASSUME NEW k \in 0 .. e - 1 PROVE t[Nth(a, k, n)] # Empty
    <3>1. k \in 0 .. n - 1 /\ slot[Nth(a, k, n)] # Empty
      BY <1>1, <1>9 DEF Passed
    <3>2. Nth(a, k, n) \in 0 .. n - 1
      BY <1>1, <3>1, NthRound
    <3> QED
      BY <1>1, <1>6, <3>1, <3>2 DEF Empty
  <2> QED
    BY <2>1 DEF Passed
<1>10. ASSUME NEW i \in 1 .. m PROVE Findable(t, n, more, i)
  <2>1. more[i] = hashes[i] /\ i # m + 1 /\ hashes[i] % n \in 0 .. n - 1 /\ i # Empty
    BY <1>1 DEF Extended, Empty
  <2>2. PICK e \in 0 .. n - 1 : /\ slot[Nth(hashes[i] % n, e, n)] = i
                                /\ Passed(slot, n, hashes[i] % n, e, {Empty})
    BY DEF Indexed, Findable
  <2>3. Nth(hashes[i] % n, e, n) \in 0 .. n - 1
    BY <1>1, <2>1, NthRound
  <2>4. t[Nth(hashes[i] % n, e, n)] = i
    BY <1>3, <1>6, <2>1, <2>2, <2>3
  <2> QED
    BY <1>9, <2>1, <2>2, <2>4 DEF Findable
<1>11. Findable(t, n, more, m + 1)
  <2>1. more[m + 1] = hash /\ hash % n \in 0 .. n - 1
    BY <1>1 DEF Extended
  <2>2. t[p] = m + 1
    BY <1>3, <1>6
  <2>3. Passed(slot, n, hash % n, d, {Empty})
    BY <1>2 DEF Stops, Passed
  <2> QED
    BY <1>2, <1>9, <2>1, <2>2, <2>3 DEF Findable
<1>12. \A i \in 1 .. m + 1 : Findable(t, n, more, i)
  <2>1. \A i \in 1 .. m + 1 : i = m + 1 \/ i \in 1 .. m
    BY <1>1
  <2> QED
    BY <1>10, <1>11, <2>1
<1> HIDE DEF t, more
<1>13. Indexed(t, n, more, m + 1)
  BY <1>1, <1>4, <1>5, <1>8, <1>12 DEF Indexed
<1> QED
  BY <1>13 DEF t, more, p

\* A function on 1 .. m is a sequence of length m.
LEMMA IndexedSeq ==
    ASSUME NEW m \in Nat, NEW S, NEW s \in [1 .. m -> S]
    PROVE  s \in Seq(S) /\ Len(s) = m
<1>1. s \in Seq(S)
  BY SeqDef
<1>2. PICK k \in Nat : k = Len(s)
  BY <1>1, LenProperties
<1>3. 1 .. m = 1 .. k
  BY <1>1, <1>2, LenProperties
<1>4. (m > 0 => m \in 1 .. k) /\ (k > 0 => k \in 1 .. m)
  BY <1>3
<1> QED
  BY <1>1, <1>2, <1>4

\* Putting the entries back one by one indexes them all.
LEMMA Rehashed ==
    ASSUME NEW m \in Nat, NEW n \in Nat, m < n, NEW hashes \in [1 .. m -> Nat]
    PROVE  Indexed(Rehash(hashes, n), n, hashes, m)
<1> DEFINE S == [0 .. n - 1 -> Nat]
           put(s, i) == [s EXCEPT ![Probe(s, hashes[i], {})] = i]
           g == [t \in Nat \X S |-> IF t[1] + 1 <= m THEN put(t[2], t[1] + 1) ELSE t[2]]
           P(e) == e = [i \in 0 .. m |-> IF i = 0 THEN NoSlots(n) ELSE put(e[i - 1], i)]
           c == CHOOSE e : P(e)
           first(i) == [j \in 1 .. i |-> hashes[j]]
<1>1. Rehash(hashes, n) = c[m]
  BY IndexedSeq DEF Rehash
<1>2. NoSlots(n) \in S
  BY DEF NoSlots, Empty
<1>3. ASSUME NEW s \in S, NEW i \in 1 .. m PROVE put(s, i) \in S
  <2>1. ASSUME NEW q PROVE [s EXCEPT ![q] = i] \in S
    <3>1. i \in Nat /\ s \in [0 .. n - 1 -> Nat]
      OBVIOUS
    <3>2. [s EXCEPT ![q] = i] = [k \in 0 .. n - 1 |-> IF k = q THEN i ELSE s[k]]
      BY <3>1
    <3> QED
      BY <3>1, <3>2
  <2> QED
    BY <2>1
<1>4. g \in [Nat \X S -> S]
  <2>1. ASSUME NEW t \in Nat \X S
        PROVE  (IF t[1] + 1 <= m THEN put(t[2], t[1] + 1) ELSE t[2]) \in S
    <3>1. t[1] \in Nat /\ t[2] \in S
      OBVIOUS
    <3> HIDE DEF put, S
    <3> QED
      BY <1>3, <3>1
  <2> QED
    BY <2>1
<1>5. PICK f : Recursion(S, NoSlots(n), g, f, m)
  BY <1>2, <1>4, RecursionRuns
<1>6. f \in [0 .. m -> S] /\ f[0] = NoSlots(n) /\ \A i \in 0 .. m - 1 : f[i + 1] = put(f[i], i + 1)
  <2>1. /\ f \in [0 .. m -> S] /\ f[0] = NoSlots(n)
        /\ \A i \in 0 .. m - 1 : f[i + 1] = g[<<i, f[i]>>]
    BY <1>5 DEF Recursion
  <2>2. ASSUME NEW i \in 0 .. m - 1 PROVE f[i + 1] = put(f[i], i + 1)
    <3>1. f[i] \in S /\ i \in Nat /\ i + 1 <= m
      BY <2>1
    <3>2. g[<<i, f[i]>>] = put(f[i], i + 1)
      BY <3>1
    <3> QED
      BY <2>1, <3>2
  <2> QED
    BY <2>1, <2>2
<1> HIDE DEF put, g, S
<1>7. P(f)
  <2>1. ASSUME NEW i \in 0 .. m, i # 0 PROVE f[i] = put(f[i - 1], i)
    <3>1. i - 1 \in 0 .. m - 1 /\ (i - 1) + 1 = i
      BY <2>1
    <3> QED
      BY <1>6, <3>1
  <2> QED
    BY <1>6, <2>1
<1>8. P(c)
  BY <1>7
<1> HIDE DEF c
<1>9. c[0] = NoSlots(n) /\ \A i \in 0 .. m : i # 0 => c[i] = put(c[i - 1], i)
  BY <1>8
<1> HIDE DEF P
<1> DEFINE T == {i \in Nat : i <= m => Indexed(c[i], n, first(i), i)}
<1>10. 0 \in T
  <2>1. first(0) \in [1 .. 0 -> Nat] /\ n \in Nat \ {0}
    OBVIOUS
  <2> QED
    BY <1>9, <2>1, NothingIndexed
<1>11. ASSUME NEW i \in T PROVE i + 1 \in T
  <2>1. SUFFICES ASSUME i + 1 <= m PROVE Indexed(c[i + 1], n, first(i + 1), i + 1)
    OBVIOUS
  <2>2. Indexed(c[i], n, first(i), i) /\ i < n /\ hashes[i + 1] \in Nat
    BY <2>1
  <2>3. PICK h \in 0 .. n - 1 : c[i][h] = Empty
    BY <2>2, SlotRemains
  <2>4. ProbeEnds(c[i], {})
    <3>1. DOMAIN c[i] = 0 .. n - 1
      BY <2>2 DEF Indexed
    <3> QED
      BY <2>3, <3>1 DEF ProbeEnds
  <2>5. c[i][Probe(c[i], hashes[i + 1], {})] = Empty
    BY <2>2, <2>4, ProbeFinds
  <2>6. Indexed(put(c[i], i + 1), n, Extended(first(i), i, hashes[i + 1]), i + 1)
    BY <2>2, <2>4, <2>5, EntryIndexed DEF put
  <2>7. Extended(first(i), i, hashes[i + 1]) = first(i + 1)
    BY <2>1 DEF Extended
  <2>8. c[i + 1] = put(c[i], i + 1)
    <3>1. i + 1 \in 0 .. m /\ i + 1 # 0 /\ (i + 1) - 1 = i
      BY <2>1
    <3> QED
      BY <1>9, <3>1
  <2> QED
    BY <2>6, <2>7, <2>8
<1>12. \A i \in Nat : i \in T
  <2>1. T \in SUBSET Nat
    OBVIOUS
  <2> HIDE DEF T
  <2> QED
    BY <1>10, <1>11, <2>1, Induction
<1>13. Indexed(c[m], n, first(m), m) /\ first(m) = hashes
  BY <1>12
<1> QED
  BY <1>1, <1>13

\* The number of slots of an array.
LEMMA SlotCount == \A n \in Nat : Cardinality(0 .. n - 1) = n
<1>1. ASSUME NEW n \in Nat PROVE Cardinality(0 .. n - 1) = n
  <2>1. CASE n = 0
    <3>1. 0 .. n - 1 = {}
      BY <2>1
    <3> QED
      BY <2>1, <3>1, FS_EmptySet
  <2>2. CASE n # 0
    BY <2>2, FS_Interval
  <2> QED
    BY <2>1, <2>2
<1> QED
  BY <1>1

-----------------------------------------------------------------------------
(***************************************************************************)
(* What entering into a table can come to: the entry was met, or stored,   *)
(* perhaps after growing, or there was no room for it.                     *)
(***************************************************************************)
Tables(E, n) == [pool : Seq(E), cap : Nat, slot : [0 .. n - 1 -> Nat]]

Met(t, hits, r) == hits # {} /\ r.index \in hits /\ r.table = t

Stored(E, t, n, hashes, hash, entry, r) ==
    /\ r.index = Len(t.pool) + 1 /\ r.table.pool = Append(t.pool, entry)
    /\ \E k \in {n, 2 * n} :
          /\ r.table \in Tables(E, k)
          /\ r.table.cap = IF k = n THEN t.cap ELSE 2 * t.cap
          /\ IF k = n THEN Len(t.pool) < t.cap
                      ELSE build.dynamic /\ Len(t.pool) >= t.cap
          /\ Indexed(r.table.slot, k, Extended(hashes, Len(t.pool), hash), Len(t.pool) + 1)

Refused(E, t, n, r) ==
    /\ r.index = Empty /\ r.table \in Tables(E, n)
    /\ r.table.pool = t.pool /\ r.table.slot = t.slot /\ r.table.cap \in {t.cap, 2 * t.cap}
    /\ Len(t.pool) >= t.cap /\ (build.dynamic => build.reallocFails)
    /\ ~build.reallocFails => r.table = t

\* Storing an entry in a table that has room.
LEMMA AddedIndexed ==
    ASSUME NEW E, NEW n, NEW t \in Tables(E, n), NEW hashes, NEW hash \in Nat,
           Indexed(t.slot, n, hashes, Len(t.pool)), NEW hits \in SUBSET (1 .. Len(t.pool)),
           \A i \in hits : hashes[i] = hash, ProbeEnds(t.slot, hits),
           t.slot[Probe(t.slot, hash, hits)] = Empty, NEW entry \in E
    PROVE  /\ Added(t, hash, hits, entry) \in Tables(E, n)
           /\ Added(t, hash, hits, entry).cap = t.cap
           /\ Added(t, hash, hits, entry).pool = Append(t.pool, entry)
           /\ Indexed(Added(t, hash, hits, entry).slot, n,
                      Extended(hashes, Len(t.pool), hash), Len(t.pool) + 1)
<1> DEFINE p == Probe(t.slot, hash, hits)
           m == Len(t.pool)
           s == [t.slot EXCEPT ![p] = m + 1]
<1>1. /\ t.pool \in Seq(E) /\ t.cap \in Nat /\ t.slot \in [0 .. n - 1 -> Nat] /\ m \in Nat
      /\ t = [pool |-> t.pool, cap |-> t.cap, slot |-> t.slot]
  BY LenProperties DEF Tables
<1>2. Append(t.pool, entry) \in Seq(E)
  BY <1>1, AppendProperties
<1>3. Indexed(s, n, Extended(hashes, m, hash), m + 1)
  BY EntryIndexed
<1>4. p \in 0 .. n - 1
  BY ProbeFinds
<1> HIDE DEF p
<1>5. s \in [0 .. n - 1 -> Nat]
  BY <1>1, <1>4
<1>6. Added(t, hash, hits, entry)
        = [pool |-> Append(t.pool, entry), cap |-> t.cap, slot |-> s]
  <2> DEFINE u == [t EXCEPT !.pool = Append(t.pool, entry)]
  <2>1. u = [pool |-> Append(t.pool, entry), cap |-> t.cap, slot |-> t.slot]
    <3> DEFINE e == Append(t.pool, entry)
    <3>1. \A P, C, L, f : [[pool |-> P, cap |-> C, slot |-> L] EXCEPT !.pool = f]
                            = [pool |-> f, cap |-> C, slot |-> L]
      OBVIOUS
    <3>2. u = [[pool |-> t.pool, cap |-> t.cap, slot |-> t.slot] EXCEPT !.pool = e]
      BY <1>1
    <3> HIDE DEF u, e
    <3>3. u = [pool |-> e, cap |-> t.cap, slot |-> t.slot]
      BY <3>1, <3>2
    <3> QED
      BY <3>3 DEF e
  <2>2. Added(t, hash, hits, entry) = [u EXCEPT !.slot[p] = m + 1]
    BY DEF Added, p
  <2>3. \A P, C, L, q, v : [[pool |-> P, cap |-> C, slot |-> L] EXCEPT !.slot[q] = v]
                            = [pool |-> P, cap |-> C, slot |-> [L EXCEPT ![q] = v]]
    OBVIOUS
  <2> HIDE DEF u
  <2> QED
    BY <2>1, <2>2, <2>3
<1> HIDE DEF s
<1> QED
  BY <1>1, <1>2, <1>3, <1>5, <1>6 DEF Tables

\* The outcomes of Enter.
LEMMA EnterCases ==
    ASSUME NEW E, NEW n, NEW t \in Tables(E, n), NEW hashes, NEW hash \in Nat,
           Indexed(t.slot, n, hashes, Len(t.pool)), NEW hits \in SUBSET (1 .. Len(t.pool)),
           \A i \in hits : hashes[i] = hash, NEW entry \in E,
           build \in BuildType, NEW r \in Enter(t, hash, hits, hashes, entry)
    PROVE  \/ Met(t, hits, r)
           \/ hits = {} /\ Stored(E, t, n, hashes, hash, entry, r)
           \/ hits = {} /\ Refused(E, t, n, r)
<1> DEFINE at == t.slot[Probe(t.slot, hash, hits)]
           m == Len(t.pool)
           doubled == [t EXCEPT !.cap = 2 * @]
           s == Rehash(hashes, 2 * Cardinality(DOMAIN t.slot))
           grown == [doubled EXCEPT !.slot = s]
<1>1. /\ t.pool \in Seq(E) /\ t.cap \in Nat /\ t.slot \in [0 .. n - 1 -> Nat] /\ m \in Nat
      /\ t = [pool |-> t.pool, cap |-> t.cap, slot |-> t.slot]
      /\ n \in Nat \ {0} /\ hashes \in [1 .. m -> Nat]
  BY LenProperties DEF Tables, Indexed
<1>2. ProbeEnds(t.slot, hits)
  BY DEF Enter
<1>3. (hits = {} => at = Empty) /\ (hits # {} => at \in hits) /\ Empty \notin hits
  BY <1>1, <1>2, ProbeFinds DEF Empty
<1>4. CASE at # Empty
  <2>1. r = [index |-> at, table |-> t]
    BY <1>2, <1>4 DEF Enter
  <2> QED
    BY <1>3, <1>4, <2>1 DEF Met
<1>5. CASE at = Empty /\ m < t.cap
  <2>1. r = [index |-> m + 1, table |-> Added(t, hash, hits, entry)]
    BY <1>2, <1>5 DEF Enter
  <2>2. hits = {}
    BY <1>3, <1>5
  <2>3. /\ r.table \in Tables(E, n) /\ r.table.cap = t.cap
        /\ r.table.pool = Append(t.pool, entry)
        /\ Indexed(r.table.slot, n, Extended(hashes, m, hash), m + 1)
    <3>1. t.slot[Probe(t.slot, hash, hits)] = Empty
      BY <1>5
    <3> HIDE DEF at
    <3>2. /\ Added(t, hash, hits, entry) \in Tables(E, n)
          /\ Added(t, hash, hits, entry).cap = t.cap
          /\ Added(t, hash, hits, entry).pool = Append(t.pool, entry)
          /\ Indexed(Added(t, hash, hits, entry).slot, n,
                     Extended(hashes, m, hash), m + 1)
      BY <1>2, <3>1, AddedIndexed
    <3> QED
      BY <2>1, <3>2
  <2> QED
    BY <1>5, <2>1, <2>2, <2>3 DEF Stored
<1>6. CASE at = Empty /\ ~(m < t.cap)
  <2>1. hits = {} /\ m >= t.cap
    BY <1>1, <1>3, <1>6
  <2>2. PICK u \in Grow(t, hashes) :
            r = IF u.ok THEN [index |-> m + 1, table |-> Added(u.table, hash, hits, entry)]
                ELSE [index |-> Empty, table |-> u.table]
    BY <1>2, <1>6 DEF Enter
  <2>3. doubled = [pool |-> t.pool, cap |-> 2 * t.cap, slot |-> t.slot]
    <3>1. \A P, C, L, D : [[pool |-> P, cap |-> C, slot |-> L] EXCEPT !.cap = D]
                            = [pool |-> P, cap |-> D, slot |-> L]
      OBVIOUS
    <3>2. doubled = [t EXCEPT !.cap = 2 * t.cap]
      OBVIOUS
    <3> QED
      BY <1>1, <3>1, <3>2
  <2>4. grown = [pool |-> t.pool, cap |-> 2 * t.cap, slot |-> s]
    <3>1. \A P, C, L, M : [[pool |-> P, cap |-> C, slot |-> L] EXCEPT !.slot = M]
                            = [pool |-> P, cap |-> C, slot |-> M]
      OBVIOUS
    <3> HIDE DEF doubled, s
    <3> QED
      BY <2>3, <3>1
  <2>5. \/ ~build.dynamic /\ u = [ok |-> FALSE, table |-> t]
        \/ build.dynamic /\ u = [ok |-> TRUE, table |-> grown]
        \/ build.dynamic /\ build.reallocFails
             /\ (u = [ok |-> FALSE, table |-> t] \/ u = [ok |-> FALSE, table |-> doubled])
    BY DEF Grow
  <2> HIDE DEF doubled, grown
  <2>6. CASE u = [ok |-> TRUE, table |-> grown]
    <3>1. Cardinality(DOMAIN t.slot) = n
      <4>1. DOMAIN t.slot = 0 .. n - 1 /\ n \in Nat \ {0}
        BY <1>1
      <4>2. Cardinality(0 .. n - 1) = n
        BY <4>1, SlotCount
      <4> QED
        BY <4>1, <4>2
    <3>2. m <= n
      BY EntriesFit
    <3>3. 2 * n \in Nat \ {0} /\ m < 2 * n
      BY <1>1, <3>2
    <3>4. Indexed(s, 2 * n, hashes, m)
      BY <1>1, <3>1, <3>3, Rehashed
    <3>5. s \in [0 .. 2 * n - 1 -> Nat]
      BY <1>1, <3>4 DEF Indexed
    <3> HIDE DEF s
    <3>6. grown \in Tables(E, 2 * n) /\ grown.pool = t.pool /\ grown.cap = 2 * t.cap
          /\ grown.slot = s
      BY <1>1, <2>4, <3>5 DEF Tables
    <3>7. ProbeEnds(s, hits)
      <4>1. PICK h \in 0 .. 2 * n - 1 : s[h] = Empty
        BY <3>3, <3>4, SlotRemains
      <4>2. DOMAIN s = 0 .. 2 * n - 1
        BY <3>5
      <4> QED
        BY <4>1, <4>2 DEF ProbeEnds
    <3>8. s[Probe(s, hash, hits)] = Empty
      BY <2>1, <3>4, <3>7, ProbeFinds
    <3>9. /\ Added(grown, hash, hits, entry) \in Tables(E, 2 * n)
          /\ Added(grown, hash, hits, entry).cap = 2 * t.cap
          /\ Added(grown, hash, hits, entry).pool = Append(t.pool, entry)
          /\ Indexed(Added(grown, hash, hits, entry).slot, 2 * n,
                     Extended(hashes, m, hash), m + 1)
      <4>1. Indexed(grown.slot, 2 * n, hashes, Len(grown.pool))
            /\ ProbeEnds(grown.slot, hits) /\ hits \in SUBSET (1 .. Len(grown.pool))
            /\ grown.slot[Probe(grown.slot, hash, hits)] = Empty
        BY <3>4, <3>6, <3>7, <3>8
      <4>2. /\ Added(grown, hash, hits, entry) \in Tables(E, 2 * n)
            /\ Added(grown, hash, hits, entry).cap = grown.cap
            /\ Added(grown, hash, hits, entry).pool = Append(grown.pool, entry)
            /\ Indexed(Added(grown, hash, hits, entry).slot, 2 * n,
                       Extended(hashes, Len(grown.pool), hash), Len(grown.pool) + 1)
        BY <3>6, <4>1, AddedIndexed
      <4> QED
        BY <3>6, <4>2
    <3>10. r = [index |-> m + 1, table |-> Added(grown, hash, hits, entry)]
      BY <2>2, <2>6
    <3>11. 2 * n # n /\ build.dynamic /\ m >= t.cap
      BY <1>1, <2>1, <2>5, <2>6
    <3> QED
      BY <2>1, <3>9, <3>10, <3>11 DEF Stored
  <2>7. CASE u = [ok |-> FALSE, table |-> t]
    <3>1. r = [index |-> Empty, table |-> t] /\ (build.dynamic => build.reallocFails)
      BY <2>2, <2>5, <2>7
    <3> QED
      BY <2>1, <3>1 DEF Refused
  <2>8. CASE build.reallocFails /\ u = [ok |-> FALSE, table |-> doubled]
    <3>1. r = [index |-> Empty, table |-> doubled]
      BY <2>2, <2>8
    <3>2. doubled \in Tables(E, n)
      BY <1>1, <2>3 DEF Tables
    <3> QED
      BY <2>1, <2>3, <2>8, <3>1, <3>2 DEF Refused
  <2> QED
    BY <2>5, <2>6, <2>7, <2>8
<1> QED
  BY <1>4, <1>5, <1>6

-----------------------------------------------------------------------------
(***************************************************************************)
(* Chains.  A link leads to an entry stored before, so a chain comes to    *)
(* its end, and what holds of the end and is handed on from link to entry  *)
(* holds of every entry.                                                   *)
(***************************************************************************)
Entry    == [ctx : Contexts, next : Byte, freq : Nat, link : Nat]
CtxEntry == [ctx : Contexts, total : Nat, unique : Nat, first : Nat]

LinksDown(p) == \A i \in 1 .. Len(p) : p[i].link < i

\* Induction along the links.
LEMMA LinkInduction ==
    ASSUME NEW p \in Seq(Entry), LinksDown(p), NEW T, Empty \in T,
           \A i \in 1 .. Len(p) : p[i].link \in T => i \in T
    PROVE  \A i \in 0 .. Len(p) : i \in T
<1> DEFINE U == {n \in Nat : \A i \in 0 .. Len(p) : i <= n => i \in T}
<1>1. Len(p) \in Nat /\ \A i \in 1 .. Len(p) : p[i].link \in 0 .. i - 1
  <2>1. ASSUME NEW i \in 1 .. Len(p) PROVE p[i].link \in 0 .. i - 1
    <3>1. p[i] \in Entry
      BY ElementOfSeq
    <3>2. p[i].link \in Nat
      BY <3>1 DEF Entry
    <3>3. p[i].link < i /\ i \in Nat
      BY LenProperties DEF LinksDown
    <3> QED
      BY <3>2, <3>3
  <2> QED
    BY <2>1, LenProperties
<1>2. 0 \in U
  BY DEF Empty
<1>3. ASSUME NEW n \in U PROVE n + 1 \in U
  <2>1. ASSUME NEW i \in 0 .. Len(p), i = n + 1 PROVE i \in T
    <3>1. i \in 1 .. Len(p)
      BY <1>1, <2>1
    <3>2. p[i].link \in 0 .. n /\ p[i].link \in 0 .. Len(p)
      BY <1>1, <2>1, <3>1
    <3>3. p[i].link \in T
      BY <3>2
    <3> QED
      BY <3>1, <3>3
  <2> QED
    BY <1>1, <2>1
<1> HIDE DEF U
<1>4. \A n \in Nat : n \in U
  <2>1. U \in SUBSET Nat
    BY DEF U
  <2> QED
    BY <1>2, <1>3, <2>1, Induction
<1>5. Len(p) \in U
  BY <1>1, <1>4
<1> QED
  BY <1>1, <1>5 DEF U

\* The walk that Chain takes.
Walk(p, first, w) ==
    /\ w \in [0 .. Len(p) -> 0 .. Len(p)] /\ w[0] = first
    /\ \A k \in 0 .. Len(p) - 1 :
          w[k + 1] = IF w[k] = Empty THEN Empty ELSE p[w[k]].link

\* There is one, and Chain is what it meets.
LEMMA ChainWalks ==
    ASSUME NEW p \in Seq(Entry), LinksDown(p), NEW first \in 0 .. Len(p)
    PROVE  \E w : /\ Walk(p, first, w)
                  /\ Chain(p, first) = {w[k] : k \in 0 .. Len(p)} \ {Empty}
<1> DEFINE L == Len(p)
           after == [i \in {Empty} \cup DOMAIN p |-> IF i = Empty THEN Empty ELSE p[i].link]
           P(e) == e = [k \in 0 .. L |-> IF k = 0 THEN first ELSE after[e[k - 1]]]
           c == CHOOSE e : P(e)
           g == [t \in Nat \X (0 .. L) |-> after[t[2]]]
<1>1. Chain(p, first) = {c[k] : k \in 0 .. L} \ {Empty}
  BY DEF Chain
<1>2. L \in Nat /\ DOMAIN p = 1 .. L /\ {Empty} \cup DOMAIN p = 0 .. L
  BY LenProperties DEF Empty
<1>3. \A i \in 1 .. L : p[i].link \in 0 .. L
  <2>1. ASSUME NEW i \in 1 .. L PROVE p[i].link \in 0 .. L
    <3>1. p[i] \in Entry
      BY ElementOfSeq
    <3> QED
      BY <1>2, <3>1 DEF Entry, LinksDown
  <2> QED
    BY <2>1
<1>4. \A i \in 0 .. L : after[i] = (IF i = Empty THEN Empty ELSE p[i].link) /\ after[i] \in 0 .. L
  BY <1>2, <1>3 DEF Empty
<1> HIDE DEF after
<1>5. g \in [Nat \X (0 .. L) -> 0 .. L]
  BY <1>4
<1>6. PICK f : Recursion(0 .. L, first, g, f, L)
  BY <1>2, <1>5, RecursionRuns
<1>7. f \in [0 .. L -> 0 .. L] /\ f[0] = first /\ \A k \in 0 .. L - 1 : f[k + 1] = after[f[k]]
  <2>1. /\ f \in [0 .. L -> 0 .. L] /\ f[0] = first
        /\ \A k \in 0 .. L - 1 : f[k + 1] = g[<<k, f[k]>>]
    BY <1>6 DEF Recursion
  <2>2. ASSUME NEW k \in 0 .. L - 1 PROVE f[k + 1] = after[f[k]]
    <3>1. f[k] \in 0 .. L /\ k \in Nat
      BY <1>2, <2>1
    <3>2. g[<<k, f[k]>>] = after[f[k]]
      BY <3>1
    <3> QED
      BY <2>1, <3>2
  <2> QED
    BY <2>1, <2>2
<1> HIDE DEF g
<1>8. P(f)
  <2>1. ASSUME NEW k \in 0 .. L, k # 0 PROVE f[k] = after[f[k - 1]]
    <3>1. k - 1 \in 0 .. L - 1 /\ (k - 1) + 1 = k
      BY <1>2, <2>1
    <3> QED
      BY <1>7, <3>1
  <2> QED
    BY <1>7, <2>1
<1>9. P(c)
  BY <1>8
<1> HIDE DEF c
<1>10. c[0] = first /\ \A k \in 0 .. L : k # 0 => c[k] = after[c[k - 1]]
  BY <1>2, <1>9
<1> HIDE DEF P
<1> DEFINE T == {k \in Nat : k <= L => c[k] = f[k]}
<1>11. 0 \in T
  BY <1>7, <1>10
<1>12. ASSUME NEW k \in T PROVE k + 1 \in T
  <2>1. SUFFICES ASSUME k + 1 <= L PROVE c[k + 1] = f[k + 1]
    OBVIOUS
  <2>2. k \in 0 .. L - 1 /\ k + 1 \in 0 .. L /\ k + 1 # 0 /\ (k + 1) - 1 = k /\ k <= L
    BY <1>2, <2>1
  <2>3. f[k + 1] = after[f[k]]
    BY <1>7, <2>2
  <2>4. c[k + 1] = after[c[k]]
    BY <1>10, <2>2
  <2>5. c[k] = f[k]
    BY <2>2
  <2> QED
    BY <2>3, <2>4, <2>5
<1>13. \A k \in Nat : k \in T
  <2>1. T \in SUBSET Nat
    OBVIOUS
  <2>2. 0 \in T /\ \A k \in T : k + 1 \in T
    BY <1>11, <1>12
  <2> HIDE DEF T
  <2> QED
    BY <2>1, <2>2, Induction
<1>14. ASSUME NEW k \in 0 .. L PROVE c[k] = f[k]
  <2>1. k \in Nat /\ k <= L
    BY <1>2
  <2> QED
    BY <1>13, <2>1
<1>15. Walk(p, first, f)
  <2>1. ASSUME NEW k \in 0 .. L - 1
        PROVE  f[k + 1] = IF f[k] = Empty THEN Empty ELSE p[f[k]].link
    <3>1. f[k] \in 0 .. L /\ f[k + 1] = after[f[k]]
      BY <1>2, <1>7
    <3> QED
      BY <1>4, <3>1
  <2> QED
    BY <1>7, <2>1 DEF Walk
<1> QED
  BY <1>1, <1>14, <1>15

\* The chain of an entry: the entry, and the chain it links to.
LEMMA ChainStep ==
    ASSUME NEW p \in Seq(Entry), LinksDown(p)
    PROVE  /\ Chain(p, Empty) = {}
           /\ \A i \in 1 .. Len(p) : /\ p[i].link \in 0 .. i - 1
                                     /\ Chain(p, i) = {i} \cup Chain(p, p[i].link)
<1> DEFINE L == Len(p)
<1>1. L \in Nat /\ \A i \in 1 .. L : p[i].link \in 0 .. i - 1
  <2>1. ASSUME NEW i \in 1 .. L PROVE p[i].link \in 0 .. i - 1
    <3>1. p[i] \in Entry
      BY ElementOfSeq
    <3> QED
      BY <3>1 DEF Entry, LinksDown
  <2> QED
    BY <2>1, LenProperties
<1>2. Chain(p, Empty) = {}
  <2>1. Empty \in 0 .. L
    BY <1>1 DEF Empty
  <2>2. PICK w : Walk(p, Empty, w) /\ Chain(p, Empty) = {w[k] : k \in 0 .. L} \ {Empty}
    BY <2>1, ChainWalks
  <2> DEFINE T == {k \in Nat : k <= L => w[k] = Empty}
  <2>3. 0 \in T
    BY <2>2 DEF Walk
  <2>4. ASSUME NEW k \in T PROVE k + 1 \in T
    <3>1. SUFFICES ASSUME k + 1 <= L PROVE w[k + 1] = Empty
      OBVIOUS
    <3>2. k \in 0 .. L - 1 /\ k <= L
      BY <1>1, <3>1
    <3> QED
      BY <2>2, <3>2 DEF Walk
  <2>5. \A k \in Nat : k \in T
    <3>1. T \in SUBSET Nat
      OBVIOUS
    <3> HIDE DEF T
    <3> QED
      BY <2>3, <2>4, <3>1, Induction
  <2> QED
    BY <2>2, <2>5
<1>3. ASSUME NEW i \in 1 .. L PROVE Chain(p, i) = {i} \cup Chain(p, p[i].link)
  <2> DEFINE l == p[i].link
  <2>1. i \in 0 .. L /\ l \in 0 .. L /\ l \in 0 .. L - 1 /\ i # Empty /\ L >= 1
    BY <1>1 DEF Empty
  <2>2. PICK w : Walk(p, i, w) /\ Chain(p, i) = {w[k] : k \in 0 .. L} \ {Empty}
    BY <2>1, ChainWalks
  <2>3. PICK v : Walk(p, l, v) /\ Chain(p, l) = {v[k] : k \in 0 .. L} \ {Empty}
    BY <2>1, ChainWalks
  <2> DEFINE T == {k \in Nat : k <= L => /\ k < L => v[k] = w[k + 1]
                                         /\ v[k] = Empty \/ v[k] + k < L}
  <2>4. 0 \in T
    <3>1. 0 \in 0 .. L - 1 /\ 0 + 1 = 1
      BY <2>1
    <3>2. w[0] = i /\ w[1] = l /\ v[0] = l
      BY <2>1, <2>2, <2>3, <3>1 DEF Walk
    <3> QED
      BY <2>1, <3>2
  <2>5. ASSUME NEW k \in T PROVE k + 1 \in T
    <3>1. SUFFICES ASSUME k + 1 <= L
                   PROVE  /\ k + 1 < L => v[k + 1] = w[(k + 1) + 1]
                          /\ v[k + 1] = Empty \/ v[k + 1] + (k + 1) < L
      OBVIOUS
    <3>2. k \in 0 .. L - 1 /\ v[k] = w[k + 1] /\ (v[k] = Empty \/ v[k] + k < L)
      BY <1>1, <3>1
    <3>3. v[k + 1] = IF v[k] = Empty THEN Empty ELSE p[v[k]].link
      BY <2>3, <3>2 DEF Walk
    <3>4. ASSUME k + 1 < L PROVE v[k + 1] = w[(k + 1) + 1]
      <4>1. k + 1 \in 0 .. L - 1
        BY <1>1, <3>4
      <4>2. w[(k + 1) + 1] = IF w[k + 1] = Empty THEN Empty ELSE p[w[k + 1]].link
        BY <2>2, <4>1 DEF Walk
      <4> QED
        BY <3>2, <3>3, <4>2
    <3>5. ASSUME v[k + 1] # Empty PROVE v[k + 1] + (k + 1) < L
      <4>1. v[k] # Empty /\ v[k + 1] = p[v[k]].link
        BY <3>3, <3>5
      <4>2. v[k] \in 1 .. L
        <5>1. v \in [0 .. L -> 0 .. L] /\ k \in 0 .. L
          BY <1>1, <2>3, <3>2 DEF Walk
        <5>2. v[k] \in 0 .. L
          BY <5>1
        <5> QED
          BY <1>1, <4>1, <5>2 DEF Empty
      <4>3. p[v[k]].link \in 0 .. v[k] - 1
        BY <1>1, <4>2
      <4> QED
        BY <1>1, <3>2, <4>1, <4>2, <4>3
    <3> QED
      BY <3>4, <3>5
  <2>6. \A k \in Nat : k \in T
    <3>1. T \in SUBSET Nat
      OBVIOUS
    <3> HIDE DEF T
    <3> QED
      BY <2>4, <2>5, <3>1, Induction
  <2>7. v[L] = Empty
    <3>1. L \in T /\ v[L] \in 0 .. L
      BY <1>1, <2>3, <2>6 DEF Walk
    <3> QED
      BY <1>1, <3>1
  <2>8. \A k \in 0 .. L - 1 : v[k] = w[k + 1]
    BY <1>1, <2>6
  <2>9. w[0] = i
    BY <2>2 DEF Walk
  <2>10. ASSUME NEW x PROVE x \in Chain(p, i) <=> x = i \/ x \in Chain(p, l)
    <3>1. ASSUME x \in Chain(p, i), x # i PROVE x \in Chain(p, l)
      <4>1. PICK k \in 0 .. L : x = w[k] /\ x # Empty
        BY <2>2, <3>1
      <4>2. k - 1 \in 0 .. L - 1 /\ (k - 1) + 1 = k
        BY <1>1, <2>9, <3>1, <4>1
      <4>3. v[k - 1] = x /\ k - 1 \in 0 .. L
        BY <1>1, <2>8, <4>1, <4>2
      <4> QED
        BY <2>3, <4>1, <4>3
    <3>2. ASSUME x \in Chain(p, l) PROVE x \in Chain(p, i)
      <4>1. PICK k \in 0 .. L : x = v[k] /\ x # Empty
        BY <2>3, <3>2
      <4>2. k \in 0 .. L - 1 /\ k + 1 \in 0 .. L
        BY <1>1, <2>7, <4>1
      <4>3. w[k + 1] = x
        BY <2>8, <4>1, <4>2
      <4> QED
        BY <2>2, <4>1, <4>2, <4>3
    <3>3. i \in Chain(p, i)
      <4>1. 0 \in 0 .. L
        BY <1>1
      <4> QED
        BY <2>1, <2>2, <2>9, <4>1
    <3> QED
      BY <3>1, <3>2, <3>3
  <2> QED
    BY <2>10
<1> QED
  BY <1>1, <1>2, <1>3

\* A chain leads down, and each entry on it but the first is linked to from it.
LEMMA ChainBelow ==
    ASSUME NEW p \in Seq(Entry), LinksDown(p)
    PROVE  \A f \in 0 .. Len(p) :
              /\ \A i \in Chain(p, f) : i \in 1 .. f
              /\ \A i \in Chain(p, f) :
                    i = f \/ \E j \in Chain(p, f) : p[j].link = i
<1> DEFINE Good(f) == \A i \in Chain(p, f) :
                         /\ i \in 1 .. f
                         /\ i = f \/ \E j \in Chain(p, f) : p[j].link = i
           T == {f \in 0 .. Len(p) : Good(f)}
<1>1. Len(p) \in Nat
  BY LenProperties
<1>2. Empty \in T
  <2>1. Chain(p, Empty) = {} /\ Empty \in 0 .. Len(p)
    BY <1>1, ChainStep DEF Empty
  <2> QED
    BY <2>1
<1>3. ASSUME NEW f \in 1 .. Len(p), p[f].link \in T PROVE f \in T
  <2> DEFINE l == p[f].link
  <2>1. l \in 0 .. f - 1 /\ Chain(p, f) = {f} \cup Chain(p, l)
    BY ChainStep
  <2>2. ASSUME NEW i \in Chain(p, f)
        PROVE  /\ i \in 1 .. f
               /\ i = f \/ \E j \in Chain(p, f) : p[j].link = i
    <3>1. CASE i = f
      BY <1>1, <3>1
    <3>2. CASE i \in Chain(p, l)
      <4>1. i \in 1 .. l /\ (i = l \/ \E j \in Chain(p, l) : p[j].link = i)
        BY <1>3, <3>2
      <4>2. i \in 1 .. f
        BY <1>1, <2>1, <4>1
      <4>3. \E j \in Chain(p, f) : p[j].link = i
        BY <2>1, <4>1
      <4> QED
        BY <4>2, <4>3
    <3> QED
      BY <2>1, <3>1, <3>2
  <2>3. f \in 0 .. Len(p)
    BY <1>1
  <2> QED
    BY <2>2, <2>3
<1> HIDE DEF T
<1>4. \A f \in 0 .. Len(p) : f \in T
  BY <1>2, <1>3, LinkInduction
<1> QED
  BY <1>4 DEF T

\* The links decide what is on a chain.
LEMMA ChainSame ==
    ASSUME NEW p \in Seq(Entry), NEW q \in Seq(Entry), LinksDown(p), LinksDown(q),
           Len(p) <= Len(q), \A i \in 1 .. Len(p) : q[i].link = p[i].link
    PROVE  \A f \in 0 .. Len(p) : Chain(q, f) = Chain(p, f)
<1> DEFINE T == {f \in 0 .. Len(p) : Chain(q, f) = Chain(p, f)}
<1>1. Len(p) \in Nat /\ Len(q) \in Nat
  BY LenProperties
<1>2. Empty \in T
  <2>1. Chain(p, Empty) = {} /\ Chain(q, Empty) = {} /\ Empty \in 0 .. Len(p)
    BY <1>1, ChainStep DEF Empty
  <2> QED
    BY <2>1
<1>3. ASSUME NEW f \in 1 .. Len(p), p[f].link \in T PROVE f \in T
  <2>1. f \in 1 .. Len(q) /\ f \in 0 .. Len(p)
    BY <1>1
  <2>2. Chain(p, f) = {f} \cup Chain(p, p[f].link)
    BY ChainStep
  <2>3. Chain(q, f) = {f} \cup Chain(q, q[f].link)
    BY <2>1, ChainStep
  <2>4. Chain(q, q[f].link) = Chain(p, p[f].link)
    BY <1>3
  <2> QED
    BY <2>1, <2>2, <2>3, <2>4
<1> HIDE DEF T
<1>4. \A f \in 0 .. Len(p) : f \in T
  BY <1>2, <1>3, LinkInduction
<1> QED
  BY <1>4 DEF T

\* Links that stay within a context keep the chain within it.
LinksAlike(p) ==
    \A i \in 1 .. Len(p) : p[i].link # Empty => p[p[i].link].ctx = p[i].ctx

\* The entries on a chain have the context of its first.
LEMMA ChainAlike ==
    ASSUME NEW p \in Seq(Entry), LinksDown(p), LinksAlike(p)
    PROVE  \A f \in 0 .. Len(p) : \A i \in Chain(p, f) : p[i].ctx = p[f].ctx
<1> DEFINE T == {f \in 0 .. Len(p) : \A i \in Chain(p, f) : p[i].ctx = p[f].ctx}
<1>1. Len(p) \in Nat
  BY LenProperties
<1>2. Empty \in T
  <2>1. Chain(p, Empty) = {} /\ Empty \in 0 .. Len(p)
    BY <1>1, ChainStep DEF Empty
  <2> QED
    BY <2>1
<1>3. ASSUME NEW f \in 1 .. Len(p), p[f].link \in T PROVE f \in T
  <2> DEFINE l == p[f].link
  <2>1. l \in 0 .. f - 1 /\ Chain(p, f) = {f} \cup Chain(p, l) /\ f \in 0 .. Len(p)
    BY <1>1, ChainStep
  <2>2. ASSUME NEW i \in Chain(p, l) PROVE p[i].ctx = p[f].ctx
    <3>1. l # Empty
      BY ChainStep
    <3>2. p[l].ctx = p[f].ctx
      BY <3>1 DEF LinksAlike
    <3> QED
      BY <1>3, <3>2
  <2> QED
    BY <2>1, <2>2
<1> HIDE DEF T
<1>4. \A f \in 0 .. Len(p) : f \in T
  BY <1>2, <1>3, LinkInduction
<1> QED
  BY <1>4 DEF T

-----------------------------------------------------------------------------
(***************************************************************************)
(* Sums of frequencies.  Weight is what an entry adds to the sum over the  *)
(* entries in `on`.                                                        *)
(***************************************************************************)
Weight(p, on, i) == IF i \in on \cap 1 .. Len(p) THEN p[i].freq ELSE 0

\* Summed adds up the weights.
LEMMA SummedIs ==
    ASSUME NEW p \in Seq(Entry), NEW first
    PROVE  \E s \in [Nat -> Nat] :
              /\ s[0] = 0
              /\ \A i \in Nat : s[i + 1] = s[i] + Weight(p, Chain(p, first), i + 1)
              /\ \A n \in Nat : n >= Len(p) => s[n] = Summed(p, first)
<1> DEFINE on == Chain(p, first)
           L == Len(p)
           W(i) == Weight(p, on, i)
           g == [t \in Nat \X Nat |-> t[2] + W(t[1] + 1)]
           P(e) == e = [i \in 0 .. L |->
                           IF i = 0 THEN 0
                           ELSE e[i - 1] + IF i \in on THEN p[i].freq ELSE 0]
           c == CHOOSE e : P(e)
<1>1. Summed(p, first) = c[L]
  BY DEF Summed
<1>2. L \in Nat /\ \A i \in 1 .. L : p[i].freq \in Nat
  <2>1. ASSUME NEW i \in 1 .. L PROVE p[i].freq \in Nat
    <3>1. p[i] \in Entry
      BY ElementOfSeq
    <3> QED
      BY <3>1 DEF Entry
  <2> QED
    BY <2>1, LenProperties
<1>3. \A i \in Nat : W(i) \in Nat
  BY <1>2 DEF Weight
<1>4. \A i \in 1 .. L : W(i) = IF i \in on THEN p[i].freq ELSE 0
  BY DEF Weight
<1>5. \A i \in Nat : i > L => W(i) = 0
  BY <1>2 DEF Weight
<1> HIDE DEF W, on
<1>6. g \in [Nat \X Nat -> Nat]
  <2>1. ASSUME NEW t \in Nat \X Nat PROVE t[2] + W(t[1] + 1) \in Nat
    <3>1. t[1] + 1 \in Nat /\ t[2] \in Nat
      OBVIOUS
    <3>2. W(t[1] + 1) \in Nat
      BY <1>3, <3>1
    <3> QED
      BY <3>1, <3>2
  <2> QED
    BY <2>1
<1>7. PICK s : Runs(Nat, 0, g, s)
  BY <1>6, RecursionDefined
<1>8. s \in [Nat -> Nat] /\ s[0] = 0 /\ \A i \in Nat : s[i + 1] = s[i] + W(i + 1)
  <2>1. s \in [Nat -> Nat] /\ s[0] = 0 /\ \A i \in Nat : s[i + 1] = g[<<i, s[i]>>]
    BY <1>7 DEF Runs
  <2>2. \A i \in Nat : s[i] \in Nat
    BY <2>1
  <2> QED
    BY <2>1, <2>2
<1> HIDE DEF g
<1> DEFINE e == [i \in 0 .. L |-> s[i]]
<1>9. P(e)
  <2>1. ASSUME NEW i \in 0 .. L, i # 0
        PROVE  s[i] = s[i - 1] + IF i \in on THEN p[i].freq ELSE 0
    <3>1. i - 1 \in Nat /\ (i - 1) + 1 = i /\ i \in 1 .. L
      BY <1>2, <2>1
    <3> QED
      BY <1>4, <1>8, <3>1
  <2>2. ASSUME NEW i \in 0 .. L, i # 0 PROVE e[i - 1] = s[i - 1]
    <3>1. i - 1 \in 0 .. L
      BY <1>2, <2>2
    <3> QED
      BY <3>1
  <2>3. \A i \in 0 .. L : e[i] = IF i = 0 THEN 0
                                 ELSE e[i - 1] + IF i \in on THEN p[i].freq ELSE 0
    BY <1>8, <2>1, <2>2
  <2> QED
    BY <2>3
<1>10. P(c)
  BY <1>9
<1> HIDE DEF c
<1>11. c[0] = 0 /\ \A i \in 1 .. L : c[i] = c[i - 1] + W(i)
  <2>1. \A i \in 0 .. L : c[i] = IF i = 0 THEN 0
                                 ELSE c[i - 1] + IF i \in on THEN p[i].freq ELSE 0
    BY <1>10
  <2>2. 0 \in 0 .. L /\ \A i \in 1 .. L : i \in 0 .. L /\ i # 0
    BY <1>2
  <2> QED
    BY <1>4, <2>1, <2>2
<1> HIDE DEF P, e
<1> DEFINE T == {i \in Nat : (i <= L => c[i] = s[i]) /\ (i > L => s[i] = s[L])}
<1>12. 0 \in T
  <2>1. c[0] = s[0] /\ ~(0 > L)
    BY <1>2, <1>8, <1>11
  <2> QED
    BY <2>1
<1>13. ASSUME NEW i \in T PROVE i + 1 \in T
  <2>1. CASE i + 1 <= L
    <3>1. i + 1 \in 1 .. L /\ (i + 1) - 1 = i /\ i <= L
      BY <1>2, <2>1
    <3>2. c[i + 1] = c[i] + W(i + 1) /\ c[i] = s[i] /\ s[i + 1] = s[i] + W(i + 1)
      BY <1>8, <1>11, <3>1
    <3> QED
      BY <1>2, <2>1, <3>2
  <2>2. CASE ~(i + 1 <= L)
    <3>1. s[i + 1] = s[i] /\ s[i] \in Nat
      <4>1. i + 1 \in Nat /\ i + 1 > L
        BY <1>2, <2>2
      <4>2. W(i + 1) = 0
        BY <1>5, <4>1
      <4>3. s[i] \in Nat /\ s[i + 1] = s[i] + W(i + 1)
        BY <1>8
      <4> QED
        BY <4>2, <4>3
    <3>2. s[i] = s[L]
      BY <1>2, <2>2
    <3> QED
      BY <2>2, <3>1, <3>2
  <2> QED
    BY <2>1, <2>2
<1>14. \A i \in Nat : i \in T
  <2>1. T \in SUBSET Nat
    OBVIOUS
  <2> HIDE DEF T
  <2> QED
    BY <1>12, <1>13, <2>1, Induction
<1>15. \A n \in Nat : n >= L => s[n] = c[L]
  <2>1. c[L] = s[L]
    BY <1>2, <1>14
  <2>2. ASSUME NEW n \in Nat, n >= L PROVE s[n] = s[L]
    <3>1. n \in T
      BY <1>14
    <3> QED
      BY <1>2, <2>2, <3>1
  <2> QED
    BY <2>1, <2>2
<1> QED
  BY <1>1, <1>8, <1>15 DEF W, on

\* A sum is a natural number.
LEMMA SummedNat ==
    ASSUME NEW p \in Seq(Entry), NEW f
    PROVE  Summed(p, f) \in Nat
<1>1. PICK s \in [Nat -> Nat] : \A n \in Nat : n >= Len(p) => s[n] = Summed(p, f)
  BY SummedIs
<1>2. Len(p) \in Nat
  BY LenProperties
<1>3. s[Len(p)] = Summed(p, f) /\ s[Len(p)] \in Nat
  BY <1>1, <1>2
<1> QED
  BY <1>3

\* Sums whose weights differ in one place, if at all.
Differ(p, f, q, g, j, d) ==
    \A i \in Nat \ {0} : Weight(q, Chain(q, g), i)
                            = Weight(p, Chain(p, f), i) + IF i = j THEN d ELSE 0

\* Raising one weight raises the sum as much.
LEMMA SumsDiffer ==
    ASSUME NEW p \in Seq(Entry), NEW q \in Seq(Entry), NEW f, NEW g,
           NEW d \in Nat, NEW j \in Nat \ {0},
           Differ(p, f, q, g, j, d)
    PROVE  Summed(q, g) = Summed(p, f) + d
<1> DEFINE V(i) == Weight(p, Chain(p, f), i)
           W(i) == Weight(q, Chain(q, g), i)
<1>1. PICK s \in [Nat -> Nat] :
         /\ s[0] = 0 /\ \A i \in Nat : s[i + 1] = s[i] + V(i + 1)
         /\ \A n \in Nat : n >= Len(p) => s[n] = Summed(p, f)
  BY SummedIs
<1>2. PICK t \in [Nat -> Nat] :
         /\ t[0] = 0 /\ \A i \in Nat : t[i + 1] = t[i] + W(i + 1)
         /\ \A n \in Nat : n >= Len(q) => t[n] = Summed(q, g)
  BY SummedIs
<1>3. ASSUME NEW i \in Nat PROVE V(i + 1) \in Nat
  <2>1. CASE i + 1 \in Chain(p, f) \cap 1 .. Len(p)
    <3>1. p[i + 1] \in Entry
      BY <2>1, ElementOfSeq
    <3>2. p[i + 1].freq \in Nat
      BY <3>1 DEF Entry
    <3> QED
      BY <2>1, <3>2 DEF Weight
  <2>2. CASE i + 1 \notin Chain(p, f) \cap 1 .. Len(p)
    BY <2>2 DEF Weight
  <2> QED
    BY <2>1, <2>2
<1>4. ASSUME NEW i \in Nat
      PROVE  W(i + 1) = V(i + 1) + IF i + 1 = j THEN d ELSE 0
  <2>1. i + 1 \in Nat \ {0}
    OBVIOUS
  <2> QED
    BY <2>1 DEF Differ
<1> HIDE DEF V, W
<1> DEFINE T == {i \in Nat : t[i] = s[i] + IF i >= j THEN d ELSE 0}
<1>5. 0 \in T
  BY <1>1, <1>2
<1>6. ASSUME NEW i \in T PROVE i + 1 \in T
  <2>1. s[i] \in Nat /\ t[i] = s[i] + IF i >= j THEN d ELSE 0
    OBVIOUS
  <2>2. s[i + 1] = s[i] + V(i + 1) /\ V(i + 1) \in Nat
    BY <1>1, <1>3
  <2>3. t[i + 1] = t[i] + W(i + 1) /\ W(i + 1) = V(i + 1) + IF i + 1 = j THEN d ELSE 0
    BY <1>2, <1>4
  <2>4. /\ s[i] \in Nat /\ V(i + 1) \in Nat
        /\ s[i + 1] = s[i] + V(i + 1) /\ t[i + 1] = t[i] + W(i + 1)
    BY <2>1, <2>2, <2>3
  <2>5. t[i + 1] = s[i + 1] + IF i + 1 >= j THEN d ELSE 0
    <3>1. CASE i >= j
      <4>1. t[i] = s[i] + d /\ W(i + 1) = V(i + 1) /\ i + 1 >= j
        BY <2>1, <2>2, <2>3, <3>1
      <4>2. t[i + 1] = s[i + 1] + d
        BY <2>4, <4>1
      <4> QED
        BY <4>1, <4>2
    <3>2. CASE i + 1 = j
      <4>1. t[i] = s[i] /\ W(i + 1) = V(i + 1) + d /\ i + 1 >= j
        BY <2>1, <2>2, <2>3, <3>2
      <4>2. t[i + 1] = s[i + 1] + d
        BY <2>4, <4>1
      <4> QED
        BY <4>1, <4>2
    <3>3. CASE i + 1 < j
      <4>1. t[i] = s[i] /\ W(i + 1) = V(i + 1) /\ ~(i + 1 >= j)
        BY <2>1, <2>2, <2>3, <3>3
      <4>2. t[i + 1] = s[i + 1]
        BY <2>4, <4>1
      <4> QED
        BY <2>4, <4>1, <4>2
    <3> QED
      BY <3>1, <3>2, <3>3
  <2> QED
    BY <2>5
<1>7. \A i \in Nat : i \in T
  <2>1. T \in SUBSET Nat
    OBVIOUS
  <2> HIDE DEF T
  <2> QED
    BY <1>5, <1>6, <2>1, Induction
<1> DEFINE n == Len(p) + Len(q) + j
<1>8. n \in Nat /\ n >= Len(p) /\ n >= Len(q) /\ n >= j
  <2>1. Len(p) \in Nat /\ Len(q) \in Nat
    BY LenProperties
  <2>2. \A a, b, e \in Nat : LET k == a + b + e
                             IN  k \in Nat /\ k >= a /\ k >= b /\ k >= e
    OBVIOUS
  <2> QED
    BY <2>1, <2>2
<1> HIDE DEF n
<1>9. t[n] = s[n] + d
  BY <1>7, <1>8
<1> QED
  BY <1>1, <1>2, <1>8, <1>9

-----------------------------------------------------------------------------
(***************************************************************************)
(* The entries of the two pools, of the globals or of a saved prior: no    *)
(* pair and no context has two, chains stay within their context, and no   *)
(* entry has two predecessors.                                             *)
(***************************************************************************)
KeysOnce(p) == \A i, j \in 1 .. Len(p) :
                  p[i].ctx = p[j].ctx /\ p[i].next = p[j].next => i = j

CtxsOnce(cs) == \A c, d \in 1 .. Len(cs) : cs[c].ctx = cs[d].ctx => c = d

FirstsIn(p, cs) ==
    \A c \in 1 .. Len(cs) :
       /\ cs[c].first \in 0 .. Len(p)
       /\ cs[c].first # Empty => p[cs[c].first].ctx = cs[c].ctx

LinkedOnce(p, cs) ==
    /\ \A i, j \in 1 .. Len(p) : p[i].link = p[j].link /\ p[i].link # Empty => i = j
    /\ \A i \in 1 .. Len(p), c \in 1 .. Len(cs) :
          p[i].link = cs[c].first => p[i].link = Empty

Pools(p, cs) ==
    /\ p \in Seq(Entry) /\ cs \in Seq(CtxEntry)
    /\ KeysOnce(p) /\ CtxsOnce(cs)
    /\ LinksDown(p) /\ LinksAlike(p)
    /\ FirstsIn(p, cs) /\ LinkedOnce(p, cs)

(***************************************************************************)
(* What the entries add up to.  Only a failing realloc makes a context     *)
(* lose entries it has room for, and only fixed pools and a failing        *)
(* realloc leave entries without a context.                                *)
(***************************************************************************)
Bounded(p, cs) == \A c \in 1 .. Len(cs) : Summed(p, cs[c].first) <= cs[c].total

Exact(p, cs) ==
    \A c \in 1 .. Len(cs) : /\ cs[c].total = Summed(p, cs[c].first)
                            /\ cs[c].unique = Cardinality(Chain(p, cs[c].first))

AllLinked(p, cs) ==
    \A i \in 1 .. Len(p), c \in 1 .. Len(cs) :
       p[i].ctx = cs[c].ctx => i \in Chain(p, cs[c].first)

AllHomed(p, cs) == \A i \in 1 .. Len(p) : \E c \in 1 .. Len(cs) : cs[c].ctx = p[i].ctx

Data(p, cs) ==
    /\ Pools(p, cs) /\ Bounded(p, cs)
    /\ ~build.reallocFails => Exact(p, cs) /\ AllLinked(p, cs)
    /\ build.dynamic /\ ~build.reallocFails => AllHomed(p, cs)

\* The fields of the entries.
LEMMA EntryFields ==
    ASSUME NEW p \in Seq(Entry), NEW i \in 1 .. Len(p)
    PROVE  p[i] \in Entry /\ p[i].ctx \in Contexts /\ p[i].next \in Byte
           /\ p[i].freq \in Nat /\ p[i].link \in Nat
<1>1. p[i] \in Entry
  BY ElementOfSeq
<1> QED
  BY <1>1 DEF Entry

\* The fields of a context's entry.
LEMMA CtxEntryFields ==
    ASSUME NEW cs \in Seq(CtxEntry), NEW c \in 1 .. Len(cs)
    PROVE  cs[c] \in CtxEntry /\ cs[c].ctx \in Contexts /\ cs[c].total \in Nat
           /\ cs[c].unique \in Nat /\ cs[c].first \in Nat
<1>1. cs[c] \in CtxEntry
  BY ElementOfSeq
<1> QED
  BY <1>1 DEF CtxEntry

\* The entries on a context's chain are its own.
LEMMA ChainOwn ==
    ASSUME NEW p, NEW cs, Pools(p, cs), NEW c \in 1 .. Len(cs)
    PROVE  \A i \in Chain(p, cs[c].first) : i \in 1 .. Len(p) /\ p[i].ctx = cs[c].ctx
<1> DEFINE f == cs[c].first
<1>1. p \in Seq(Entry) /\ LinksDown(p) /\ LinksAlike(p) /\ f \in 0 .. Len(p)
      /\ (f # Empty => p[f].ctx = cs[c].ctx) /\ Len(p) \in Nat
  BY LenProperties DEF Pools, FirstsIn
<1> HIDE DEF f
<1>2. ASSUME NEW i \in Chain(p, f) PROVE i \in 1 .. Len(p) /\ p[i].ctx = cs[c].ctx
  <2>1. i \in 1 .. f /\ p[i].ctx = p[f].ctx
    BY <1>1, ChainBelow, ChainAlike
  <2>2. f # Empty
    BY <1>1, <2>1 DEF Empty
  <2> QED
    BY <1>1, <2>1, <2>2
<1> QED
  BY <1>2 DEF f

\* An entry is on the chain of one context at most.
LEMMA OneOwner ==
    ASSUME NEW p, NEW cs, Pools(p, cs), NEW c \in 1 .. Len(cs), NEW d \in 1 .. Len(cs),
           NEW i \in Chain(p, cs[c].first), i \in Chain(p, cs[d].first)
    PROVE  c = d
<1>1. p[i].ctx = cs[c].ctx /\ p[i].ctx = cs[d].ctx
  BY ChainOwn
<1> QED
  BY <1>1 DEF Pools, CtxsOnce

(***************************************************************************)
(* The pool after one more has been counted for entry j, or after an entry *)
(* has been added; the context entries after c has been counted.           *)
(***************************************************************************)
Recounted(p, q, j) ==
    /\ q \in Seq(Entry) /\ Len(q) = Len(p)
    /\ \A i \in 1 .. Len(p) :
          /\ q[i].ctx = p[i].ctx /\ q[i].next = p[i].next /\ q[i].link = p[i].link
          /\ q[i].freq = IF i = j THEN p[i].freq + 1 ELSE p[i].freq

CtxCounted(cs, ds, c, new, first) ==
    /\ ds \in Seq(CtxEntry) /\ Len(ds) = Len(cs)
    /\ \A d \in 1 .. Len(cs) :
          IF d = c
          THEN /\ ds[d].ctx = cs[d].ctx /\ ds[d].total = cs[d].total + 1
               /\ ds[d].unique = (IF new THEN cs[d].unique + 1 ELSE cs[d].unique)
               /\ ds[d].first = first
          ELSE ds[d] = cs[d]

\* Counting one more changes no chain and one sum at most.
LEMMA SumsRecounted ==
    ASSUME NEW p \in Seq(Entry), LinksDown(p), NEW j \in 1 .. Len(p), NEW q,
           Recounted(p, q, j)
    PROVE  /\ LinksDown(q)
           /\ \A f \in 0 .. Len(p) :
                /\ Chain(q, f) = Chain(p, f)
                /\ Summed(q, f) = Summed(p, f) + IF j \in Chain(p, f) THEN 1 ELSE 0
<1>1. q \in Seq(Entry) /\ Len(q) = Len(p) /\ Len(p) \in Nat
  BY LenProperties DEF Recounted
<1>2. LinksDown(q)
  BY <1>1 DEF Recounted, LinksDown
<1>3. \A f \in 0 .. Len(p) : Chain(q, f) = Chain(p, f)
  <2>1. \A i \in 1 .. Len(p) : q[i].link = p[i].link
    BY DEF Recounted
  <2> QED
    BY <1>1, <1>2, <2>1, ChainSame
<1>4. ASSUME NEW f \in 0 .. Len(p)
      PROVE  Summed(q, f) = Summed(p, f) + IF j \in Chain(p, f) THEN 1 ELSE 0
  <2> DEFINE d == IF j \in Chain(p, f) THEN 1 ELSE 0
  <2>1. ASSUME NEW i \in Nat \ {0}
        PROVE  Weight(q, Chain(q, f), i) = Weight(p, Chain(p, f), i) + IF i = j THEN d ELSE 0
    <3>1. CASE i \in Chain(p, f) \cap 1 .. Len(p)
      <4>1. p[i].freq \in Nat /\ q[i].freq = IF i = j THEN p[i].freq + 1 ELSE p[i].freq
        BY <3>1, EntryFields DEF Recounted
      <4>2. Weight(p, Chain(p, f), i) = p[i].freq /\ Weight(q, Chain(q, f), i) = q[i].freq
        BY <1>1, <1>3, <3>1 DEF Weight
      <4> QED
        BY <3>1, <4>1, <4>2
    <3>2. CASE i \notin Chain(p, f) \cap 1 .. Len(p)
      <4>1. Weight(p, Chain(p, f), i) = 0 /\ Weight(q, Chain(q, f), i) = 0
        BY <1>1, <1>3, <3>2 DEF Weight
      <4> QED
        BY <3>2, <4>1
    <3> QED
      BY <3>1, <3>2
  <2>2. d \in Nat /\ j \in Nat \ {0}
    OBVIOUS
  <2> HIDE DEF d
  <2>3. Differ(p, f, q, f, j, d)
    BY <2>1 DEF Differ
  <2>4. q \in Seq(Entry)
    BY <1>1
  <2>5. Summed(q, f) = Summed(p, f) + d
    BY <2>2, <2>3, <2>4, SumsDiffer
  <2> QED
    BY <2>5 DEF d
<1> QED
  BY <1>2, <1>3, <1>4

\* An entry put in front of a chain makes one chain and one sum greater.
LEMMA SumsAppended ==
    ASSUME NEW p \in Seq(Entry), LinksDown(p), NEW e \in Entry, e.link <= Len(p)
    PROVE  LET q == Append(p, e)
               m == Len(p) + 1
           IN  /\ q \in Seq(Entry) /\ Len(q) = m /\ LinksDown(q) /\ q[m] = e
               /\ \A i \in 1 .. Len(p) : q[i] = p[i]
               /\ \A f \in 0 .. Len(p) : Chain(q, f) = Chain(p, f) /\ Summed(q, f) = Summed(p, f)
               /\ Chain(q, m) = {m} \cup Chain(p, e.link)
               /\ Summed(q, m) = Summed(p, e.link) + e.freq
<1> DEFINE q == Append(p, e)
           m == Len(p) + 1
<1>1. q \in Seq(Entry) /\ Len(q) = m /\ Len(p) \in Nat /\ q[m] = e
      /\ \A i \in 1 .. Len(p) : q[i] = p[i]
  BY AppendProperties, LenProperties
<1>2. e.link \in 0 .. Len(p) /\ e.freq \in Nat
  BY <1>1 DEF Entry
<1> HIDE DEF q
<1>3. LinksDown(q)
  <2>1. \A i \in 1 .. m : i = m \/ i \in 1 .. Len(p)
    BY <1>1
  <2> QED
    BY <1>1, <1>2, <2>1 DEF LinksDown
<1>4. \A f \in 0 .. Len(p) : Chain(q, f) = Chain(p, f)
  <2>1. Len(p) <= Len(q) /\ \A i \in 1 .. Len(p) : q[i].link = p[i].link
    BY <1>1
  <2> QED
    BY <1>1, <1>3, <2>1, ChainSame
<1>5. Chain(q, m) = {m} \cup Chain(p, e.link)
  <2>1. m \in 1 .. Len(q)
    BY <1>1
  <2>2. Chain(q, m) = {m} \cup Chain(q, q[m].link)
    BY <1>1, <1>3, <2>1, ChainStep
  <2> QED
    BY <1>1, <1>2, <1>4, <2>2
<1>6. ASSUME NEW f \in 0 .. Len(p) PROVE m \notin Chain(p, f)
  <2>1. m \in 1 .. f => FALSE
    BY <1>1
  <2> QED
    BY <2>1, ChainBelow
<1>7. ASSUME NEW f \in 0 .. Len(p) PROVE Summed(q, f) = Summed(p, f)
  <2>1. ASSUME NEW i \in Nat \ {0}
        PROVE  Weight(q, Chain(q, f), i) = Weight(p, Chain(p, f), i) + IF i = m THEN 0 ELSE 0
    <3>1. CASE i \in Chain(p, f)
      <4>1. i \in 1 .. Len(p) /\ i \in 1 .. m
        <5>1. i \in 1 .. f
          BY <3>1, ChainBelow
        <5> QED
          BY <1>1, <5>1
      <4>2. p[i].freq \in Nat
        BY <4>1, EntryFields
      <4> QED
        BY <1>1, <1>4, <3>1, <4>1, <4>2 DEF Weight
    <3>2. CASE i \notin Chain(p, f)
      BY <1>4, <3>2 DEF Weight
    <3> QED
      BY <3>1, <3>2
  <2>2. m \in Nat \ {0} /\ 0 \in Nat /\ Differ(p, f, q, f, m, 0)
    BY <1>1, <2>1 DEF Differ
  <2>3. Summed(q, f) = Summed(p, f) + 0
    BY <1>1, <2>2, SumsDiffer
  <2>4. Summed(p, f) \in Nat
    BY SummedNat
  <2> QED
    BY <2>3, <2>4
<1>8. Summed(q, m) = Summed(p, e.link) + e.freq
  <2> DEFINE l == e.link
  <2>1. ASSUME NEW i \in Nat \ {0}
        PROVE  Weight(q, Chain(q, m), i) = Weight(p, Chain(p, l), i) + IF i = m THEN e.freq ELSE 0
    <3>1. CASE i = m
      <4>1. Weight(p, Chain(p, l), i) = 0
        BY <1>1, <3>1 DEF Weight
      <4>2. Weight(q, Chain(q, m), i) = e.freq
        BY <1>1, <1>5, <3>1 DEF Weight
      <4> QED
        BY <1>2, <3>1, <4>1, <4>2
    <3>2. CASE i # m /\ i \in Chain(p, l)
      <4>1. i \in 1 .. Len(p) /\ i \in 1 .. m
        <5>1. i \in 1 .. l
          BY <1>2, <3>2, ChainBelow
        <5> QED
          BY <1>1, <1>2, <5>1
      <4>2. p[i].freq \in Nat
        BY <4>1, EntryFields
      <4>3. Weight(p, Chain(p, l), i) = p[i].freq
        BY <3>2, <4>1 DEF Weight
      <4>4. Weight(q, Chain(q, m), i) = p[i].freq
        BY <1>1, <1>5, <3>2, <4>1 DEF Weight
      <4> QED
        BY <3>2, <4>2, <4>3, <4>4
    <3>3. CASE i # m /\ i \notin Chain(p, l)
      BY <1>5, <3>3 DEF Weight
    <3> QED
      BY <3>1, <3>2, <3>3
  <2>2. m \in Nat \ {0} /\ e.freq \in Nat /\ q \in Seq(Entry)
    BY <1>1, <1>2
  <2>3. Differ(p, l, q, m, m, e.freq)
    BY <2>1 DEF Differ
  <2> HIDE DEF m, l
  <2>4. Summed(q, m) = Summed(p, l) + e.freq
    BY <2>2, <2>3, SumsDiffer
  <2> QED
    BY <2>4 DEF l
<1>9. m = Len(p) + 1 /\ q = Append(p, e)
  BY DEF q
<1> HIDE DEF m
<1> QED
  BY <1>1, <1>3, <1>4, <1>5, <1>7, <1>8, <1>9

-----------------------------------------------------------------------------
(***************************************************************************)
(* What training does to the entries.                                      *)
(***************************************************************************)
NewCtx(ctx) == [ctx |-> ctx, total |-> 0, unique |-> 0, first |-> Empty]

\* A chain is finite.
LEMMA ChainFinite ==
    ASSUME NEW p \in Seq(Entry), LinksDown(p), NEW f \in 0 .. Len(p)
    PROVE  IsFiniteSet(Chain(p, f)) /\ Cardinality(Chain(p, f)) \in Nat
<1>1. f \in Nat /\ IsFiniteSet(1 .. f)
  BY FS_Interval, LenProperties
<1>2. Chain(p, f) \subseteq 1 .. f
  BY ChainBelow
<1> QED
  BY <1>1, <1>2, FS_Subset, FS_CardinalityType

\* A context nothing was seen after yet is entered.
LEMMA CtxEntered ==
    ASSUME NEW p, NEW cs, Data(p, cs), NEW ctx \in Contexts,
           \A c \in 1 .. Len(cs) : cs[c].ctx # ctx,
           ~build.reallocFails => \A i \in 1 .. Len(p) : p[i].ctx # ctx
    PROVE  Data(p, Append(cs, NewCtx(ctx)))
<1> DEFINE ds == Append(cs, NewCtx(ctx))
           k == Len(cs) + 1
<1>1. p \in Seq(Entry) /\ cs \in Seq(CtxEntry) /\ LinksDown(p) /\ NewCtx(ctx) \in CtxEntry
  BY DEF Data, Pools, NewCtx, CtxEntry, Empty
<1>2. /\ ds \in Seq(CtxEntry) /\ Len(ds) = k /\ Len(cs) \in Nat /\ Len(p) \in Nat
      /\ ds[k] = NewCtx(ctx) /\ \A c \in 1 .. Len(cs) : ds[c] = cs[c]
  BY <1>1, AppendProperties, LenProperties
<1> HIDE DEF ds
<1>3. /\ ds[k].ctx = ctx /\ ds[k].total = 0 /\ ds[k].unique = 0 /\ ds[k].first = Empty
      /\ \A c \in 1 .. k : c = k \/ c \in 1 .. Len(cs)
  BY <1>2 DEF NewCtx
<1>4. Chain(p, Empty) = {} /\ Cardinality({}) = 0 /\ Summed(p, Empty) = 0
  <2>1. Chain(p, Empty) = {}
    BY <1>1, ChainStep
  <2>2. PICK s \in [Nat -> Nat] :
           /\ s[0] = 0
           /\ \A i \in Nat : s[i + 1] = s[i] + Weight(p, Chain(p, Empty), i + 1)
           /\ \A n \in Nat : n >= Len(p) => s[n] = Summed(p, Empty)
    BY <1>1, SummedIs
  <2>3. \A i \in Nat : s[i + 1] = s[i] + 0
    BY <2>1, <2>2 DEF Weight
  <2> DEFINE T == {i \in Nat : s[i] = 0}
  <2>4. 0 \in T
    BY <2>2
  <2>5. ASSUME NEW i \in T PROVE i + 1 \in T
    BY <2>3
  <2>6. \A i \in Nat : i \in T
    <3>1. T \in SUBSET Nat
      OBVIOUS
    <3> HIDE DEF T
    <3> QED
      BY <2>4, <2>5, <3>1, Induction
  <2>7. s[Len(p)] = Summed(p, Empty) /\ Len(p) \in T
    BY <1>2, <2>2, <2>6
  <2> QED
    BY <2>1, <2>7, FS_EmptySet
<1>5. Pools(p, ds)
  <2>1. CtxsOnce(ds)
    BY <1>2, <1>3 DEF CtxsOnce, Data, Pools
  <2>2. FirstsIn(p, ds)
    BY <1>2, <1>3 DEF FirstsIn, Data, Pools, Empty
  <2>3. LinkedOnce(p, ds)
    BY <1>2, <1>3 DEF LinkedOnce, Data, Pools
  <2> QED
    BY <1>2, <2>1, <2>2, <2>3 DEF Data, Pools
<1>6. Bounded(p, ds)
  BY <1>2, <1>3, <1>4 DEF Bounded, Data
<1>7. ASSUME ~build.reallocFails PROVE Exact(p, ds) /\ AllLinked(p, ds)
  <2>1. Exact(p, cs) /\ AllLinked(p, cs)
    BY <1>7 DEF Data
  <2>2. ASSUME NEW c \in 1 .. k
        PROVE  /\ ds[c].total = Summed(p, ds[c].first)
               /\ ds[c].unique = Cardinality(Chain(p, ds[c].first))
    <3>1. CASE c = k
      BY <1>3, <1>4, <3>1
    <3>2. CASE c \in 1 .. Len(cs)
      BY <1>2, <2>1, <3>2 DEF Exact
    <3> QED
      BY <1>3, <3>1, <3>2
  <2>3. AllLinked(p, ds)
    BY <1>2, <1>3, <1>7, <2>1 DEF AllLinked
  <2> QED
    BY <1>2, <2>2, <2>3 DEF Exact
<1>8. ASSUME build.dynamic, ~build.reallocFails PROVE AllHomed(p, ds)
  <2>1. AllHomed(p, cs)
    BY <1>8 DEF Data
  <2>2. \A c \in 1 .. Len(cs) : c \in 1 .. Len(ds)
    BY <1>2
  <2> QED
    BY <1>2, <2>1, <2>2 DEF AllHomed
<1>9. Data(p, ds)
  BY <1>5, <1>6, <1>7, <1>8 DEF Data
<1> QED
  BY <1>9 DEF ds

NoCtx(cs, ctx) == \A c \in 1 .. Len(cs) : cs[c].ctx # ctx

\* Entry j is counted once more; its context, if it has an entry, is too.
LEMMA PairRecounted ==
    ASSUME NEW p, NEW cs, Data(p, cs), NEW j \in 1 .. Len(p), NEW q, Recounted(p, q, j),
           NEW ds,
           \/ ds = cs /\ NoCtx(cs, p[j].ctx)
           \/ \E c \in 1 .. Len(cs) : /\ cs[c].ctx = p[j].ctx
                                      /\ CtxCounted(cs, ds, c, FALSE, cs[c].first)
    PROVE  Data(q, ds)
<1>1. /\ p \in Seq(Entry) /\ cs \in Seq(CtxEntry) /\ LinksDown(p)
      /\ Len(p) \in Nat /\ Len(cs) \in Nat
  BY LenProperties DEF Data, Pools
<1>2. q \in Seq(Entry) /\ Len(q) = Len(p)
      /\ \A i \in 1 .. Len(p) : q[i].ctx = p[i].ctx /\ q[i].next = p[i].next
                                /\ q[i].link = p[i].link
  BY DEF Recounted
<1>3. ds \in Seq(CtxEntry) /\ Len(ds) = Len(cs)
      /\ \A c \in 1 .. Len(cs) : ds[c].ctx = cs[c].ctx /\ ds[c].first = cs[c].first
                                 /\ ds[c].unique = cs[c].unique
  <2>1. CASE ds = cs
    BY <1>1, <2>1
  <2>2. ASSUME NEW c \in 1 .. Len(cs), CtxCounted(cs, ds, c, FALSE, cs[c].first)
        PROVE  ds \in Seq(CtxEntry) /\ Len(ds) = Len(cs)
               /\ \A d \in 1 .. Len(cs) : ds[d].ctx = cs[d].ctx /\ ds[d].first = cs[d].first
                                          /\ ds[d].unique = cs[d].unique
    BY <2>2 DEF CtxCounted
  <2> QED
    BY <2>1, <2>2
<1>4. LinksDown(q) /\ \A c \in 1 .. Len(cs) :
         /\ Chain(q, cs[c].first) = Chain(p, cs[c].first)
         /\ Summed(q, cs[c].first)
              = Summed(p, cs[c].first) + IF j \in Chain(p, cs[c].first) THEN 1 ELSE 0
  <2>1. \A c \in 1 .. Len(cs) : cs[c].first \in 0 .. Len(p)
    BY DEF Data, Pools, FirstsIn
  <2> QED
    BY <1>1, <2>1, SumsRecounted
<1>5. Pools(q, ds)
  <2>1. KeysOnce(q)
    BY <1>2 DEF KeysOnce, Data, Pools
  <2>2. CtxsOnce(ds)
    BY <1>3 DEF CtxsOnce, Data, Pools
  <2>3. LinksAlike(q)
    <3>1. ASSUME NEW i \in 1 .. Len(p), p[i].link # Empty PROVE q[p[i].link].ctx = q[i].ctx
      <4>1. p[i].link \in 1 .. Len(p)
        <5>1. p[i].link \in 0 .. i - 1
          BY <1>1, ChainStep
        <5> QED
          BY <1>1, <3>1, <5>1 DEF Empty
      <4>2. p[p[i].link].ctx = p[i].ctx
        BY <3>1 DEF Data, Pools, LinksAlike
      <4> QED
        BY <1>2, <4>1, <4>2
    <3> QED
      BY <1>2, <3>1 DEF LinksAlike
  <2>4. FirstsIn(q, ds)
    <3>1. ASSUME NEW c \in 1 .. Len(cs)
          PROVE  cs[c].first \in 0 .. Len(p)
                 /\ (cs[c].first # Empty => q[cs[c].first].ctx = cs[c].ctx)
      <4>1. cs[c].first \in 0 .. Len(p)
            /\ (cs[c].first # Empty => p[cs[c].first].ctx = cs[c].ctx)
        BY DEF Data, Pools, FirstsIn
      <4>2. ASSUME cs[c].first # Empty PROVE q[cs[c].first].ctx = cs[c].ctx
        <5>1. cs[c].first \in 1 .. Len(p)
          BY <1>1, <4>1, <4>2 DEF Empty
        <5> QED
          BY <1>2, <4>1, <4>2, <5>1
      <4> QED
        BY <4>1, <4>2
    <3> QED
      BY <1>2, <1>3, <3>1 DEF FirstsIn
  <2>5. LinkedOnce(q, ds)
    <3>1. LinkedOnce(p, cs)
      BY DEF Data, Pools
    <3> QED
      BY <1>2, <1>3, <3>1 DEF LinkedOnce
  <2> QED
    BY <1>2, <1>3, <1>4, <2>1, <2>2, <2>3, <2>4, <2>5 DEF Pools
<1>6. ASSUME NEW c \in 1 .. Len(cs), j \in Chain(p, cs[c].first)
      PROVE  cs[c].ctx = p[j].ctx /\ ds[c].total = cs[c].total + 1
  <2>1. cs[c].ctx = p[j].ctx
    BY <1>6, ChainOwn DEF Data
  <2>2. PICK d \in 1 .. Len(cs) : /\ cs[d].ctx = p[j].ctx
                                  /\ CtxCounted(cs, ds, d, FALSE, cs[d].first)
    BY <2>1 DEF NoCtx
  <2>3. d = c
    BY <2>1, <2>2 DEF Data, Pools, CtxsOnce
  <2> QED
    BY <2>1, <2>2, <2>3 DEF CtxCounted
<1>7. ASSUME NEW c \in 1 .. Len(cs)
      PROVE  /\ ds[c].total = cs[c].total \/ ds[c].total = cs[c].total + 1
             /\ ds[c].total # cs[c].total => cs[c].ctx = p[j].ctx
  <2>1. CASE ds = cs
    BY <2>1
  <2>2. ASSUME NEW d \in 1 .. Len(cs), cs[d].ctx = p[j].ctx,
               CtxCounted(cs, ds, d, FALSE, cs[d].first)
        PROVE  /\ ds[c].total = cs[c].total \/ ds[c].total = cs[c].total + 1
               /\ ds[c].total # cs[c].total => cs[c].ctx = p[j].ctx
    BY <2>2 DEF CtxCounted
  <2> QED
    BY <2>1, <2>2
<1>8. \A c \in 1 .. Len(cs) : cs[c].total \in Nat /\ Summed(p, cs[c].first) \in Nat
  BY <1>1, CtxEntryFields, SummedNat
<1>9. Bounded(q, ds)
  <2>1. ASSUME NEW c \in 1 .. Len(cs) PROVE Summed(q, cs[c].first) <= ds[c].total
    <3>1. Summed(p, cs[c].first) <= cs[c].total
      BY DEF Data, Bounded
    <3>2. CASE j \in Chain(p, cs[c].first)
      <4>1. Summed(q, cs[c].first) = Summed(p, cs[c].first) + 1 /\ ds[c].total = cs[c].total + 1
        BY <1>4, <1>6, <3>2
      <4> QED
        BY <1>8, <3>1, <4>1
    <3>3. CASE j \notin Chain(p, cs[c].first)
      <4>1. Summed(q, cs[c].first) = Summed(p, cs[c].first) + 0
            /\ ds[c].total \in {cs[c].total, cs[c].total + 1}
        BY <1>4, <1>7, <3>3
      <4> QED
        BY <1>8, <3>1, <4>1
    <3> QED
      BY <3>2, <3>3
  <2> QED
    BY <1>3, <2>1 DEF Bounded
<1>10. ASSUME ~build.reallocFails PROVE Exact(q, ds) /\ AllLinked(q, ds)
  <2>1. Exact(p, cs) /\ AllLinked(p, cs)
    BY <1>10 DEF Data
  <2>2. ASSUME NEW c \in 1 .. Len(cs)
        PROVE  /\ ds[c].total = Summed(q, cs[c].first)
               /\ ds[c].unique = Cardinality(Chain(q, cs[c].first))
    <3>1. cs[c].total = Summed(p, cs[c].first)
          /\ cs[c].unique = Cardinality(Chain(p, cs[c].first))
      BY <2>1 DEF Exact
    <3>2. CASE j \in Chain(p, cs[c].first)
      BY <1>3, <1>4, <1>6, <3>1, <3>2
    <3>3. CASE j \notin Chain(p, cs[c].first)
      <4>1. ds[c].total = cs[c].total
        BY <1>7, <2>1, <3>3 DEF AllLinked
      <4> QED
        BY <1>3, <1>4, <1>8, <3>1, <3>3, <4>1
    <3> QED
      BY <3>2, <3>3
  <2>3. Exact(q, ds)
    BY <1>3, <2>2 DEF Exact
  <2>4. AllLinked(q, ds)
    BY <1>2, <1>3, <1>4, <2>1 DEF AllLinked
  <2> QED
    BY <2>3, <2>4
<1>11. ASSUME build.dynamic, ~build.reallocFails PROVE AllHomed(q, ds)
  <2>1. AllHomed(p, cs)
    BY <1>11 DEF Data
  <2> QED
    BY <1>2, <1>3, <2>1 DEF AllHomed
<1> QED
  BY <1>5, <1>9, <1>10, <1>11 DEF Data

\* An entry for a new pair is put in front of its context's chain, or on none.
LEMMA PairAdded ==
    ASSUME NEW p, NEW cs, Data(p, cs), NEW e \in Entry, e.freq = 1,
           \A i \in 1 .. Len(p) : ~(p[i].ctx = e.ctx /\ p[i].next = e.next),
           NEW ds,
           \/ /\ ds = cs /\ NoCtx(cs, e.ctx)
              /\ e.link = Empty /\ (build.dynamic => build.reallocFails)
           \/ \E c \in 1 .. Len(cs) : /\ cs[c].ctx = e.ctx /\ e.link = cs[c].first
                                      /\ CtxCounted(cs, ds, c, TRUE, Len(p) + 1)
    PROVE  Data(Append(p, e), ds)
<1> DEFINE q == Append(p, e)
           m == Len(p) + 1
<1>1. /\ p \in Seq(Entry) /\ cs \in Seq(CtxEntry) /\ LinksDown(p)
      /\ Len(p) \in Nat /\ Len(cs) \in Nat
      /\ \A c \in 1 .. Len(cs) : cs[c].first \in 0 .. Len(p)
  BY LenProperties DEF Data, Pools, FirstsIn
<1>2. ds \in Seq(CtxEntry) /\ Len(ds) = Len(cs)
  BY <1>1 DEF CtxCounted
<1>3. ASSUME NEW d \in 1 .. Len(cs)
      PROVE  /\ ds[d].ctx = cs[d].ctx
             /\ cs[d].ctx # e.ctx => ds[d] = cs[d]
             /\ cs[d].ctx = e.ctx => /\ ds[d].total = cs[d].total + 1
                                     /\ ds[d].unique = cs[d].unique + 1
                                     /\ ds[d].first = m /\ e.link = cs[d].first
  <2>1. CASE ds = cs /\ NoCtx(cs, e.ctx)
    BY <2>1 DEF NoCtx
  <2>2. ASSUME NEW c \in 1 .. Len(cs), cs[c].ctx = e.ctx, e.link = cs[c].first,
               CtxCounted(cs, ds, c, TRUE, m)
        PROVE  /\ ds[d].ctx = cs[d].ctx
               /\ cs[d].ctx # e.ctx => ds[d] = cs[d]
               /\ cs[d].ctx = e.ctx => /\ ds[d].total = cs[d].total + 1
                                       /\ ds[d].unique = cs[d].unique + 1
                                       /\ ds[d].first = m /\ e.link = cs[d].first
    <3>1. cs[d].ctx = e.ctx => d = c
      BY <2>2 DEF Data, Pools, CtxsOnce
    <3> QED
      BY <2>2, <3>1 DEF CtxCounted
  <2> QED
    BY <2>1, <2>2
<1>4. e.link # Empty => \E d \in 1 .. Len(cs) : cs[d].ctx = e.ctx
  OBVIOUS
<1>5. build.dynamic /\ ~build.reallocFails => \E d \in 1 .. Len(cs) : cs[d].ctx = e.ctx
  OBVIOUS
<1>6. e.link \in 0 .. Len(p)
  BY <1>1, <1>3, <1>4 DEF Empty
<1>7. /\ q \in Seq(Entry) /\ Len(q) = m /\ LinksDown(q) /\ q[m] = e
      /\ \A i \in 1 .. Len(p) : q[i] = p[i]
      /\ \A f \in 0 .. Len(p) : Chain(q, f) = Chain(p, f) /\ Summed(q, f) = Summed(p, f)
      /\ Chain(q, m) = {m} \cup Chain(p, e.link)
      /\ Summed(q, m) = Summed(p, e.link) + 1
  BY <1>1, <1>6, SumsAppended
<1> HIDE DEF q
<1>8. \A i \in 1 .. m : i = m \/ i \in 1 .. Len(p)
  BY <1>1
<1>9. m \in 1 .. m /\ \A i \in 1 .. Len(p) : i \in 1 .. m /\ i # m
  BY <1>1
<1>10. Pools(q, ds)
  <2>1. KeysOnce(q)
    <3>1. ASSUME NEW i \in 1 .. m, NEW j \in 1 .. m, q[i].ctx = q[j].ctx, q[i].next = q[j].next
          PROVE  i = j
      <4>1. CASE i \in 1 .. Len(p) /\ j \in 1 .. Len(p)
        BY <1>7, <3>1, <4>1 DEF KeysOnce, Data, Pools
      <4>2. CASE i = m
        BY <1>7, <1>8, <3>1, <4>2
      <4>3. CASE j = m
        BY <1>7, <1>8, <3>1, <4>3
      <4> QED
        BY <1>8, <4>1, <4>2, <4>3
    <3> QED
      BY <1>7, <3>1 DEF KeysOnce
  <2>2. CtxsOnce(ds)
    BY <1>2, <1>3 DEF CtxsOnce, Data, Pools
  <2>3. LinksAlike(q)
    <3>1. ASSUME NEW i \in 1 .. m, q[i].link # Empty PROVE q[q[i].link].ctx = q[i].ctx
      <4>1. CASE i = m
        <5>1. PICK d \in 1 .. Len(cs) : cs[d].ctx = e.ctx
          BY <1>4, <1>7, <3>1, <4>1
        <5>2. e.link = cs[d].first /\ e.link # Empty
          BY <1>3, <1>7, <3>1, <4>1, <5>1
        <5>3. p[e.link].ctx = e.ctx
          BY <5>1, <5>2 DEF Data, Pools, FirstsIn
        <5>4. e.link \in 1 .. Len(p)
          BY <1>1, <1>6, <5>2 DEF Empty
        <5> QED
          BY <1>7, <4>1, <5>3, <5>4
      <4>2. CASE i \in 1 .. Len(p)
        <5>1. p[i].link \in 0 .. i - 1 /\ p[i].link # Empty
          BY <1>1, <1>7, <3>1, <4>2, ChainStep
        <5>2. p[i].link \in 1 .. Len(p)
          BY <1>1, <4>2, <5>1 DEF Empty
        <5>3. p[p[i].link].ctx = p[i].ctx
          BY <4>2, <5>1 DEF Data, Pools, LinksAlike
        <5> QED
          BY <1>7, <4>2, <5>2, <5>3
      <4> QED
        BY <1>8, <4>1, <4>2
    <3> QED
      BY <1>7, <3>1 DEF LinksAlike
  <2>4. FirstsIn(q, ds)
    <3>1. ASSUME NEW d \in 1 .. Len(cs)
          PROVE  /\ ds[d].first \in 0 .. m
                 /\ ds[d].first # Empty => q[ds[d].first].ctx = ds[d].ctx
      <4>1. CASE cs[d].ctx = e.ctx
        BY <1>1, <1>3, <1>7, <4>1
      <4>2. CASE cs[d].ctx # e.ctx
        <5>1. ds[d].first = cs[d].first /\ cs[d].first \in 0 .. Len(p)
          BY <1>1, <1>3, <4>2
        <5>2. ASSUME cs[d].first # Empty PROVE q[cs[d].first].ctx = cs[d].ctx
          <6>1. cs[d].first \in 1 .. Len(p)
            BY <1>1, <5>1, <5>2 DEF Empty
          <6>2. p[cs[d].first].ctx = cs[d].ctx
            BY <5>2 DEF Data, Pools, FirstsIn
          <6> QED
            BY <1>7, <6>1, <6>2
        <5> QED
          BY <1>1, <1>3, <5>1, <5>2
      <4> QED
        BY <4>1, <4>2
    <3> QED
      BY <1>2, <1>7, <3>1 DEF FirstsIn
  <2>5. LinkedOnce(q, ds)
    <3>1. ASSUME NEW i \in 1 .. Len(p), p[i].link = e.link PROVE e.link = Empty
      <4>1. SUFFICES ASSUME e.link # Empty PROVE FALSE
        OBVIOUS
      <4>2. PICK d \in 1 .. Len(cs) : e.link = cs[d].first
        BY <1>3, <1>4, <4>1
      <4> QED
        BY <3>1, <4>1, <4>2 DEF Data, Pools, LinkedOnce
    <3>2. ASSUME NEW i \in 1 .. m, NEW j \in 1 .. m, q[i].link = q[j].link, q[i].link # Empty
          PROVE  i = j
      <4>1. CASE i \in 1 .. Len(p) /\ j \in 1 .. Len(p)
        BY <1>7, <3>2, <4>1 DEF Data, Pools, LinkedOnce
      <4> QED
        BY <1>7, <1>8, <3>1, <3>2, <4>1
    <3>3. ASSUME NEW i \in 1 .. m, NEW d \in 1 .. Len(cs), q[i].link = ds[d].first
          PROVE  q[i].link = Empty
      <4>1. CASE cs[d].ctx = e.ctx
        <5>1. q[i].link = m
          BY <1>3, <3>3, <4>1
        <5>2. q[i].link < i
          BY <1>7 DEF LinksDown
        <5> QED
          BY <1>1, <5>1, <5>2
      <4>2. CASE cs[d].ctx # e.ctx /\ i \in 1 .. Len(p)
        <5>1. p[i].link = cs[d].first
          BY <1>3, <1>7, <3>3, <4>2
        <5>2. p[i].link = Empty
          BY <4>2, <5>1 DEF Data, Pools, LinkedOnce
        <5> QED
          BY <1>7, <4>2, <5>2
      <4>3. CASE cs[d].ctx # e.ctx /\ i = m
        <5>1. SUFFICES ASSUME e.link # Empty PROVE FALSE
          BY <1>7, <4>3
        <5>2. e.link = cs[d].first
          BY <1>3, <1>7, <3>3, <4>3
        <5>3. PICK c \in 1 .. Len(cs) : cs[c].ctx = e.ctx
          BY <1>4, <5>1
        <5>4. e.link = cs[c].first
          BY <1>3, <5>3
        <5>5. p[e.link].ctx = cs[c].ctx /\ p[e.link].ctx = cs[d].ctx
          BY <5>1, <5>2, <5>4 DEF Data, Pools, FirstsIn
        <5> QED
          BY <4>3, <5>3, <5>5
      <4> QED
        BY <1>8, <4>1, <4>2, <4>3
    <3> QED
      BY <1>2, <1>7, <3>2, <3>3 DEF LinkedOnce
  <2> QED
    BY <1>2, <1>7, <2>1, <2>2, <2>3, <2>4, <2>5 DEF Pools
<1>11. \A d \in 1 .. Len(cs) :
         /\ cs[d].ctx = e.ctx => /\ Chain(q, ds[d].first) = {m} \cup Chain(p, cs[d].first)
                                 /\ Summed(q, ds[d].first) = Summed(p, cs[d].first) + 1
         /\ cs[d].ctx # e.ctx => /\ Chain(q, ds[d].first) = Chain(p, cs[d].first)
                                 /\ Summed(q, ds[d].first) = Summed(p, cs[d].first)
  BY <1>1, <1>3, <1>7
<1>12. \A d \in 1 .. Len(cs) : cs[d].total \in Nat /\ cs[d].unique \in Nat
                               /\ Summed(p, cs[d].first) \in Nat
  BY <1>1, CtxEntryFields, SummedNat
<1>13. Bounded(q, ds)
  <2>1. ASSUME NEW d \in 1 .. Len(cs) PROVE Summed(q, ds[d].first) <= ds[d].total
    <3>1. Summed(p, cs[d].first) <= cs[d].total
      BY DEF Data, Bounded
    <3> QED
      BY <1>3, <1>11, <1>12, <3>1
  <2> QED
    BY <1>2, <2>1 DEF Bounded
<1>14. ASSUME ~build.reallocFails PROVE Exact(q, ds) /\ AllLinked(q, ds)
  <2>1. Exact(p, cs) /\ AllLinked(p, cs)
    BY <1>14 DEF Data
  <2>2. ASSUME NEW d \in 1 .. Len(cs)
        PROVE  /\ ds[d].total = Summed(q, ds[d].first)
               /\ ds[d].unique = Cardinality(Chain(q, ds[d].first))
    <3>1. cs[d].total = Summed(p, cs[d].first)
          /\ cs[d].unique = Cardinality(Chain(p, cs[d].first))
      BY <2>1 DEF Exact
    <3>2. CASE cs[d].ctx = e.ctx
      <4>1. m \notin Chain(p, cs[d].first) /\ IsFiniteSet(Chain(p, cs[d].first))
        <5>1. cs[d].first \in 0 .. Len(p) /\ \A i \in Chain(p, cs[d].first) : i \in 1 .. Len(p)
          BY <1>1, ChainOwn DEF Data
        <5> QED
          BY <1>1, <1>9, <5>1, ChainFinite
      <4>2. Cardinality({m} \cup Chain(p, cs[d].first)) = Cardinality(Chain(p, cs[d].first)) + 1
        <5>1. {m} \cup Chain(p, cs[d].first) = Chain(p, cs[d].first) \cup {m}
          OBVIOUS
        <5> QED
          BY <4>1, <5>1, FS_AddElement
      <4>3. ds[d].unique = cs[d].unique + 1 /\ Chain(q, ds[d].first) = {m} \cup Chain(p, cs[d].first)
        BY <1>3, <1>11, <3>2
      <4>4. ds[d].total = Summed(q, ds[d].first)
        BY <1>3, <1>11, <3>1, <3>2
      <4> QED
        BY <3>1, <4>2, <4>3, <4>4
    <3>3. CASE cs[d].ctx # e.ctx
      BY <1>3, <1>11, <3>1, <3>3
    <3> QED
      BY <3>2, <3>3
  <2>3. ASSUME NEW i \in 1 .. m, NEW d \in 1 .. Len(cs), q[i].ctx = ds[d].ctx
        PROVE  i \in Chain(q, ds[d].first)
    <3>1. CASE i = m
      <4>1. cs[d].ctx = e.ctx
        BY <1>3, <1>7, <2>3, <3>1
      <4> QED
        BY <1>11, <3>1, <4>1
    <3>2. CASE i \in 1 .. Len(p)
      <4>1. i \in Chain(p, cs[d].first)
        BY <1>3, <1>7, <2>1, <2>3, <3>2 DEF AllLinked
      <4> QED
        BY <1>11, <4>1
    <3> QED
      BY <1>8, <3>1, <3>2
  <2> QED
    BY <1>2, <1>7, <2>2, <2>3 DEF Exact, AllLinked
<1>15. ASSUME build.dynamic, ~build.reallocFails PROVE AllHomed(q, ds)
  <2>1. AllHomed(p, cs)
    BY <1>15 DEF Data
  <2>2. ASSUME NEW i \in 1 .. m PROVE \E d \in 1 .. Len(cs) : ds[d].ctx = q[i].ctx
    <3>1. CASE i = m
      BY <1>3, <1>5, <1>7, <1>15, <3>1
    <3>2. CASE i \in 1 .. Len(p)
      BY <1>3, <1>7, <2>1, <3>2 DEF AllHomed
    <3> QED
      BY <1>8, <3>1, <3>2
  <2> QED
    BY <1>2, <1>7, <2>2 DEF AllHomed
<1>16. Data(q, ds)
  BY <1>10, <1>13, <1>14, <1>15 DEF Data
<1> QED
  BY <1>16 DEF q

-----------------------------------------------------------------------------
(***************************************************************************)
(* The slots of the two tables, and the filter.  A pool has room for what  *)
(* it holds and, unless realloc fails, its array of slots for more.        *)
(***************************************************************************)
KeyHashes(p) == [i \in 1 .. Len(p) |-> KeyHash[<<p[i].ctx, p[i].next>>]]
Hashes(cs)   == [c \in 1 .. Len(cs) |-> CtxHash[cs[c].ctx]]

Size(t) == Cardinality(DOMAIN t.slot)

Room(t) == /\ t.cap > 0 /\ Len(t.pool) <= t.cap
           /\ ~build.reallocFails => t.cap < Size(t)

BtOK(t) == /\ t \in Tables(Entry, Size(t)) /\ Room(t)
           /\ Indexed(t.slot, Size(t), KeyHashes(t.pool), Len(t.pool))

CtxsIndexed(slot, cs) ==
    LET n == Cardinality(DOMAIN slot)
    IN  /\ Indexed(slot, n, Hashes(cs), Len(cs)) /\ IsPowerOfTwo(n)
        /\ ~build.reallocFails => Len(cs) < n

CtxsOK(t) == /\ t \in Tables(CtxEntry, Size(t)) /\ Room(t)
             /\ CtxsIndexed(t.slot, t.pool)

Filtered(bits, cs) == \A c \in 1 .. Len(cs) : BloomBits[CtxHash[cs[c].ctx]] \subseteq bits

(***************************************************************************)
(* What a reader may be given, in memory or from a file.                   *)
(***************************************************************************)
Readable(s) == /\ Data(s.pool, s.ctxPool)
               /\ CtxsIndexed(s.ctxSlot, s.ctxPool)
               /\ Filtered(s.bloom, s.ctxPool)

(***************************************************************************)
(* The inductive invariant: the globals and the file are readable, and     *)
(* only tables of the library's own are trained.                           *)
(***************************************************************************)
Typed ==
    /\ build \in Builds
    /\ window \in Model!Windows
    /\ call \in [byte : Byte, n : 0 .. Depth + 1] /\ call.n <= Len(window) + 1
    /\ frozen \in BOOLEAN /\ live \in {"none", "own", "attached"}

Modes == /\ live = "attached" => frozen
         /\ call.n # 0 => live = "own"

Nothing == live = "none" => bt.pool = <<>> /\ ctxs.pool = <<>>

\* pairs without a context only where the pool of contexts is full for good
HomedOrFull ==
    ~build.reallocFails =>
       AllHomed(bt.pool, ctxs.pool) \/ (~build.dynamic /\ Len(ctxs.pool) >= ctxs.cap)

Own == live = "own" => BtOK(bt) /\ CtxsOK(ctxs) /\ HomedOrFull

Files == /\ file = {} \/ \E s : file = {s}
         /\ \A s \in file : Readable(s) /\ s.window \in Model!Windows

Inv == /\ Typed /\ Modes /\ Nothing /\ Own /\ Files
       /\ live # "none" => Readable(Snap)

\* Twice a power of two is one.
LEMMA PowerDoubled ==
    ASSUME NEW n \in Nat \ {0}, IsPowerOfTwo(n)
    PROVE  IsPowerOfTwo(2 * n)
<1> DEFINE P(e) == e = [k \in Nat |-> IF k = 0 THEN 1 ELSE 2 * e[k - 1]]
           c == CHOOSE e : P(e)
           g == [t \in Nat \X Nat |-> 2 * t[2]]
<1>1. TwoTo = c
  BY DEF TwoTo
<1>2. g \in [Nat \X Nat -> Nat]
  OBVIOUS
<1>3. PICK f : Runs(Nat, 1, g, f)
  BY <1>2, RecursionDefined
<1>4. f \in [Nat -> Nat] /\ f[0] = 1 /\ \A k \in Nat : f[k + 1] = 2 * f[k]
  <2>1. f \in [Nat -> Nat] /\ f[0] = 1 /\ \A k \in Nat : f[k + 1] = g[<<k, f[k]>>]
    BY <1>3 DEF Runs
  <2>2. \A k \in Nat : f[k] \in Nat
    BY <2>1
  <2> QED
    BY <2>1, <2>2
<1> HIDE DEF g
<1>5. P(f)
  <2>1. ASSUME NEW k \in Nat, k # 0 PROVE f[k] = 2 * f[k - 1]
    <3>1. k - 1 \in Nat /\ (k - 1) + 1 = k
      BY <2>1
    <3> QED
      BY <1>4, <3>1
  <2> QED
    BY <1>4, <2>1
<1>6. P(c)
  BY <1>5
<1> HIDE DEF c
<1>7. \A k \in Nat : c[k] = IF k = 0 THEN 1 ELSE 2 * c[k - 1]
  BY <1>6
<1> HIDE DEF P
<1>8. PICK k \in 0 .. n : n = c[k]
  BY <1>1 DEF IsPowerOfTwo
<1>9. k + 1 \in Nat /\ k + 1 # 0 /\ (k + 1) - 1 = k /\ k + 1 \in 0 .. 2 * n
  OBVIOUS
<1>10. c[k + 1] = 2 * n
  BY <1>7, <1>8, <1>9
<1> QED
  BY <1>1, <1>9, <1>10 DEF IsPowerOfTwo

\* The hashes are numbers.
LEMMA HashTypes ==
    /\ \A p \in Seq(Entry) : KeyHashes(p) \in [1 .. Len(p) -> Nat]
    /\ \A cs \in Seq(CtxEntry) : Hashes(cs) \in [1 .. Len(cs) -> Nat]
<1>1. ASSUME NEW p \in Seq(Entry), NEW i \in 1 .. Len(p)
      PROVE  KeyHash[<<p[i].ctx, p[i].next>>] \in Nat
  <2>1. <<p[i].ctx, p[i].next>> \in Contexts \X Byte
    BY EntryFields
  <2> QED
    BY <2>1, ContextsAssumption
<1>2. ASSUME NEW cs \in Seq(CtxEntry), NEW c \in 1 .. Len(cs)
      PROVE  CtxHash[cs[c].ctx] \in Nat
  BY CtxEntryFields, HashAssumption
<1> QED
  BY <1>1, <1>2 DEF KeyHashes, Hashes

\* The sizes of tables.
LEMMA TableSize ==
    ASSUME NEW E, NEW n \in Nat, NEW t \in Tables(E, n)
    PROVE  /\ Size(t) = n /\ DOMAIN t.slot = 0 .. n - 1
           /\ t.pool \in Seq(E) /\ t.cap \in Nat /\ Len(t.pool) \in Nat
           /\ DOMAIN t.pool = 1 .. Len(t.pool)
<1>1. t.slot \in [0 .. n - 1 -> Nat] /\ t.pool \in Seq(E) /\ t.cap \in Nat
  BY DEF Tables
<1>2. DOMAIN t.slot = 0 .. n - 1
  BY <1>1
<1> QED
  BY <1>1, <1>2, SlotCount, LenProperties DEF Size

\* A new table, and one that holds nothing.
LEMMA NewTableOK ==
    ASSUME NEW cap \in Nat \ {0}, NEW n \in Nat \ {0}, cap < n
    PROVE  /\ NewTable(cap, n).pool = <<>>
           /\ BtOK(NewTable(cap, n))
           /\ IsPowerOfTwo(n) => CtxsOK(NewTable(cap, n))
           /\ Data(<<>>, <<>>) /\ AllHomed(<<>>, <<>>) /\ \A bits : Filtered(bits, <<>>)
<1> DEFINE t == NewTable(cap, n)
<1>1. t.pool = <<>> /\ t.cap = cap /\ t.slot = NoSlots(n) /\ Len(<<>>) = 0
      /\ \A S : <<>> \in Seq(S)
  BY EmptySeq DEF NewTable
<1>2. \A S : t \in Tables(S, n)
  BY <1>1 DEF Tables, NewTable, NoSlots, Empty
<1>3. Size(t) = n /\ DOMAIN t.slot = 0 .. n - 1
  BY <1>2, TableSize
<1>4. Room(t)
  BY <1>1, <1>3 DEF Room
<1>5. Indexed(t.slot, n, KeyHashes(<<>>), 0) /\ Indexed(t.slot, n, Hashes(<<>>), 0)
  <2>1. KeyHashes(<<>>) \in [1 .. 0 -> Nat] /\ Hashes(<<>>) \in [1 .. 0 -> Nat]
    BY <1>1, HashTypes
  <2> QED
    BY <1>1, <2>1, NothingIndexed
<1>6. BtOK(t)
  BY <1>1, <1>2, <1>3, <1>4, <1>5 DEF BtOK
<1>7. ASSUME IsPowerOfTwo(n) PROVE CtxsOK(t)
  BY <1>1, <1>2, <1>3, <1>4, <1>5, <1>7 DEF CtxsOK, CtxsIndexed, Size
<1>8. \A i : i \notin 1 .. Len(<<>>)
  BY <1>1
<1>9. Data(<<>>, <<>>) /\ AllHomed(<<>>, <<>>) /\ \A bits : Filtered(bits, <<>>)
  BY <1>1, <1>8 DEF Data, Pools, KeysOnce, CtxsOnce, LinksDown, LinksAlike, FirstsIn,
     LinkedOnce, Bounded, Exact, AllLinked, AllHomed, Filtered
<1> QED
  BY <1>1, <1>6, <1>7, <1>9

\* Enter returns an index and a table.
LEMMA EnterRecord ==
    ASSUME NEW t, NEW hash, NEW hits, NEW hashes, NEW entry,
           NEW r \in Enter(t, hash, hits, hashes, entry)
    PROVE  r = [index |-> r.index, table |-> r.table]
<1>1. \E i, u : r = [index |-> i, table |-> u]
  BY DEF Enter
<1> QED
  BY <1>1

\* The hashes after an entry has been added.
LEMMA HashesAppended ==
    /\ \A p \in Seq(Entry), e \in Entry :
          KeyHashes(Append(p, e)) = Extended(KeyHashes(p), Len(p), KeyHash[<<e.ctx, e.next>>])
    /\ \A cs \in Seq(CtxEntry), e \in CtxEntry :
          Hashes(Append(cs, e)) = Extended(Hashes(cs), Len(cs), CtxHash[e.ctx])
<1>1. ASSUME NEW p \in Seq(Entry), NEW e \in Entry
      PROVE  KeyHashes(Append(p, e))
               = Extended(KeyHashes(p), Len(p), KeyHash[<<e.ctx, e.next>>])
  <2> DEFINE q == Append(p, e)
             m == Len(p) + 1
  <2>1. Len(q) = m /\ q[m] = e /\ (\A i \in 1 .. Len(p) : q[i] = p[i]) /\ Len(p) \in Nat
    BY AppendProperties, LenProperties
  <2>2. \A i \in 1 .. m : i = m \/ i \in 1 .. Len(p)
    BY <2>1
  <2> HIDE DEF q, m
  <2>3. \A i \in 1 .. m : KeyHash[<<q[i].ctx, q[i].next>>]
                            = IF i = m THEN KeyHash[<<e.ctx, e.next>>] ELSE KeyHashes(p)[i]
    BY <2>1, <2>2 DEF KeyHashes
  <2> QED
    BY <2>1, <2>3 DEF KeyHashes, Extended, q, m
<1>2. ASSUME NEW cs \in Seq(CtxEntry), NEW e \in CtxEntry
      PROVE  Hashes(Append(cs, e)) = Extended(Hashes(cs), Len(cs), CtxHash[e.ctx])
  <2> DEFINE q == Append(cs, e)
             m == Len(cs) + 1
  <2>1. Len(q) = m /\ q[m] = e /\ (\A i \in 1 .. Len(cs) : q[i] = cs[i]) /\ Len(cs) \in Nat
    BY AppendProperties, LenProperties
  <2>2. \A i \in 1 .. m : i = m \/ i \in 1 .. Len(cs)
    BY <2>1
  <2> HIDE DEF q, m
  <2>3. \A i \in 1 .. m : CtxHash[q[i].ctx]
                            = IF i = m THEN CtxHash[e.ctx] ELSE Hashes(cs)[i]
    BY <2>1, <2>2 DEF Hashes
  <2> QED
    BY <2>1, <2>3 DEF Hashes, Extended, q, m
<1> QED
  BY <1>1, <1>2

\* Room is left after an entry has been stored or refused.
LEMMA RoomStored ==
    ASSUME NEW E, NEW n \in Nat \ {0}, NEW t \in Tables(E, n), Room(t),
           NEW hashes, NEW hash, NEW entry \in E, NEW r, Stored(E, t, n, hashes, hash, entry, r)
    PROVE  /\ Room(r.table) /\ r.table \in Tables(E, Size(r.table))
           /\ Size(r.table) \in {n, 2 * n}
           /\ Indexed(r.table.slot, Size(r.table), Extended(hashes, Len(t.pool), hash),
                      Len(t.pool) + 1)
           /\ Len(r.table.pool) = Len(t.pool) + 1
           /\ build.dynamic \/ Len(t.pool) < t.cap
<1> DEFINE u == r.table
<1>1. PICK k \in {n, 2 * n} :
         /\ u \in Tables(E, k) /\ u.cap = (IF k = n THEN t.cap ELSE 2 * t.cap)
         /\ IF k = n THEN Len(t.pool) < t.cap ELSE build.dynamic /\ Len(t.pool) >= t.cap
         /\ Indexed(u.slot, k, Extended(hashes, Len(t.pool), hash), Len(t.pool) + 1)
  BY DEF Stored
<1>2. k \in Nat \ {0} /\ (k # n => k = 2 * n)
  OBVIOUS
<1>3. Size(u) = k /\ Size(t) = n /\ t.cap \in Nat /\ Len(t.pool) \in Nat /\ t.pool \in Seq(E)
  BY <1>1, <1>2, TableSize
<1>4. Len(u.pool) = Len(t.pool) + 1
  BY <1>3, AppendProperties DEF Stored
<1>5. Room(u)
  BY <1>1, <1>2, <1>3, <1>4 DEF Room
<1> QED
  BY <1>1, <1>3, <1>4, <1>5

\* A table that refused the entry has room as before: only its capacity
\* may have doubled.
LEMMA RoomRefused ==
    ASSUME NEW E, NEW n \in Nat \ {0}, NEW t \in Tables(E, n), Room(t),
           NEW r, Refused(E, t, n, r)
    PROVE  Room(r.table) /\ r.table \in Tables(E, n) /\ Size(r.table) = n
<1> DEFINE u == r.table
<1>1. u \in Tables(E, n) /\ u.pool = t.pool /\ (~build.reallocFails => u = t)
     /\ u.cap \in {t.cap, 2 * t.cap}
  BY DEF Refused
<1>2. Size(u) = n /\ t.cap \in Nat /\ Len(t.pool) \in Nat
  BY <1>1, TableSize
<1>3. Room(u)
  BY <1>1, <1>2 DEF Room
<1> QED
  BY <1>1, <1>2, <1>3

-----------------------------------------------------------------------------
(***************************************************************************)
(* What Update and Linked change of a table.                               *)
(***************************************************************************)
FreqRaised(e) == IF e.index = Empty THEN e
                 ELSE [e EXCEPT !.table.pool[e.index].freq = @ + 1]

\* A sequence that has one element more.
LEMMA AppendIs ==
    ASSUME NEW S, NEW p \in Seq(S), NEW q \in Seq(S), Len(q) = Len(p) + 1,
           \A i \in 1 .. Len(p) : q[i] = p[i]
    PROVE  q = Append(p, q[Len(p) + 1])
<1> DEFINE m == Len(p) + 1
           r == Append(p, q[m])
<1>1. Len(p) \in Nat /\ m \in 1 .. Len(q)
  BY LenProperties
<1>2. q[m] \in S
  BY <1>1, ElementOfSeq
<1>3. r \in Seq(S) /\ Len(r) = m /\ r[m] = q[m] /\ \A i \in 1 .. Len(p) : r[i] = p[i]
  BY <1>2, AppendProperties
<1>4. \A i \in 1 .. m : i = m \/ i \in 1 .. Len(p)
  BY <1>1
<1> HIDE DEF r
<1>5. \A i \in 1 .. Len(q) : q[i] = r[i]
  BY <1>3, <1>4
<1>6. Len(q) = Len(r)
  BY <1>3
<1>7. q = r
  BY <1>3, <1>5, <1>6, SeqEqual
<1> QED
  BY <1>7 DEF r

\* Raising the frequency of an entry.
LEMMA RaisedPool ==
    ASSUME NEW n, NEW t \in Tables(Entry, n), NEW i \in 1 .. Len(t.pool), i # Empty,
           NEW e, e = [index |-> i, table |-> t]
    PROVE  /\ FreqRaised(e).index = i
           /\ FreqRaised(e).table \in Tables(Entry, n)
           /\ FreqRaised(e).table.cap = t.cap /\ FreqRaised(e).table.slot = t.slot
           /\ Recounted(t.pool, FreqRaised(e).table.pool, i)
<1> DEFINE x == [t.pool[i] EXCEPT !.freq = @ + 1]
           q == [t.pool EXCEPT ![i] = x]
           u == [t EXCEPT !.pool = q]
<1>1. FreqRaised(e) = [e EXCEPT !.table = u]
  BY DEF FreqRaised
<1>2. t.pool \in Seq(Entry) /\ t.cap \in Nat /\ t.slot \in [0 .. n - 1 -> Nat]
      /\ t = [pool |-> t.pool, cap |-> t.cap, slot |-> t.slot]
  BY DEF Tables
<1>3. t.pool[i] \in Entry
  BY <1>2, ElementOfSeq
<1>4. x \in Entry /\ x.ctx = t.pool[i].ctx /\ x.next = t.pool[i].next
      /\ x.link = t.pool[i].link /\ x.freq = t.pool[i].freq + 1
  BY <1>3 DEF Entry
<1> HIDE DEF x
<1>5. q \in Seq(Entry) /\ Len(q) = Len(t.pool)
      /\ \A k \in 1 .. Len(t.pool) : q[k] = IF k = i THEN x ELSE t.pool[k]
  BY <1>2, <1>4, ExceptSeq
<1> HIDE DEF q
<1>6. u = [pool |-> q, cap |-> t.cap, slot |-> t.slot]
  <2>1. \A P, C, L, f : [[pool |-> P, cap |-> C, slot |-> L] EXCEPT !.pool = f]
                          = [pool |-> f, cap |-> C, slot |-> L]
    OBVIOUS
  <2>2. u = [[pool |-> t.pool, cap |-> t.cap, slot |-> t.slot] EXCEPT !.pool = q]
    BY <1>2
  <2> HIDE DEF u
  <2> QED
    BY <2>1, <2>2
<1> HIDE DEF u
<1>7. FreqRaised(e) = [index |-> i, table |-> u]
  BY <1>1
<1>8. Recounted(t.pool, q, i)
  BY <1>4, <1>5 DEF Recounted
<1>9. u \in Tables(Entry, n)
  BY <1>2, <1>5, <1>6 DEF Tables
<1> QED
  BY <1>6, <1>7, <1>8, <1>9

\* A table whose entries keep their keys keeps its index.
LEMMA BtOKSame ==
    ASSUME NEW t, BtOK(t), NEW u \in Tables(Entry, Size(t)), u.slot = t.slot,
           u.cap = t.cap, Len(u.pool) = Len(t.pool),
           \A i \in 1 .. Len(t.pool) : u.pool[i].ctx = t.pool[i].ctx
                                       /\ u.pool[i].next = t.pool[i].next
    PROVE  BtOK(u)
<1>1. Size(u) = Size(t)
  BY DEF Size
<1>2. KeyHashes(u.pool) = KeyHashes(t.pool)
  BY DEF KeyHashes
<1> QED
  BY <1>1, <1>2 DEF BtOK, Room

NewPair(ctx, b) == [ctx |-> ctx, next |-> b, freq |-> 0, link |-> Empty]

(***************************************************************************)
(* The outcomes of looking for the pair: refused, met or stored.           *)
(***************************************************************************)
PairUnseen(ctx, b) ==
    \A i \in 1 .. Len(bt.pool) : ~(bt.pool[i].ctx = ctx /\ bt.pool[i].next = b)

PairRefused(x, ctx, b) == /\ x.index = Empty /\ x.table.pool = bt.pool
                          /\ PairUnseen(ctx, b)
                          /\ build.dynamic => build.reallocFails

PairMet(x, ctx, b) ==
    /\ x.index \in 1 .. Len(bt.pool) /\ Recounted(bt.pool, x.table.pool, x.index)
    /\ bt.pool[x.index].ctx = ctx /\ bt.pool[x.index].next = b

PairStored(x, ctx, b) ==
    /\ x.index = Len(bt.pool) + 1
    /\ x.table.pool = Append(bt.pool, [NewPair(ctx, b) EXCEPT !.freq = 1])
    /\ \A i \in 1 .. Len(bt.pool) : ~(bt.pool[i].ctx = ctx /\ bt.pool[i].next = b)

\* What update_pair does with a pair: it counts a pair it knows, stores one
\* it does not know with a count of one, or refuses it, and the table is sound.
LEMMA PairOutcome ==
    ASSUME BtOK(bt), build \in BuildType, NEW ctx \in Contexts, NEW b \in Byte,
           NEW hits, hits = {i \in DOMAIN bt.pool : bt.pool[i].ctx = ctx /\ bt.pool[i].next = b},
           NEW e \in Enter(bt, KeyHash[<<ctx, b>>], hits, BtHashes, NewPair(ctx, b))
    PROVE  /\ BtOK(FreqRaised(e).table) /\ FreqRaised(e).index = e.index
           /\ \/ PairRefused(FreqRaised(e), ctx, b) \/ PairMet(FreqRaised(e), ctx, b)
              \/ PairStored(FreqRaised(e), ctx, b)
<1> DEFINE n == Size(bt)
           p == bt.pool
           m == Len(p)
           hash == KeyHash[<<ctx, b>>]
           new == NewPair(ctx, b)
           x == FreqRaised(e)
<1>1. bt \in Tables(Entry, n) /\ Room(bt) /\ Indexed(bt.slot, n, KeyHashes(p), m)
  BY DEF BtOK
<1>2. n \in Nat \ {0} /\ m \in Nat
  BY <1>1 DEF Indexed
<1> HIDE DEF n
<1>3. p \in Seq(Entry) /\ DOMAIN p = 1 .. m
  BY <1>1, <1>2, TableSize
<1>4. BtHashes = KeyHashes(p)
  BY <1>3 DEF BtHashes, KeyHashes
<1>5. new \in Entry /\ new.ctx = ctx /\ new.next = b
  BY DEF NewPair, Entry, Empty
<1>6. hash \in Nat
  BY ContextsAssumption
<1>7. hits \in SUBSET (1 .. m) /\ \A i \in hits : BtHashes[i] = hash
  BY <1>3 DEF BtHashes
<1> HIDE DEF new, hash
<1>8. \/ Met(bt, hits, e)
      \/ hits = {} /\ Stored(Entry, bt, n, BtHashes, hash, new, e)
      \/ hits = {} /\ Refused(Entry, bt, n, e)
  <2>1. e \in Enter(bt, hash, hits, BtHashes, new)
    BY DEF hash, new
  <2>2. Indexed(bt.slot, n, BtHashes, m)
    BY <1>1, <1>4
  <2>3. bt \in Tables(Entry, n) /\ new \in Entry
    BY <1>1, <1>5
  <2> QED
    BY <1>6, <1>7, <2>1, <2>2, <2>3, EnterCases
<1>9. e = [index |-> e.index, table |-> e.table]
  BY EnterRecord
<1>10. CASE hits = {} /\ Refused(Entry, bt, n, e)
  <2>1. x = e
    BY <1>10 DEF FreqRaised, Refused
  <2>2. BtOK(e.table)
    <3>1. Room(e.table) /\ e.table \in Tables(Entry, n) /\ Size(e.table) = n
      BY <1>1, <1>2, <1>10, RoomRefused
    <3> QED
      BY <1>1, <1>10, <3>1 DEF BtOK, Refused
  <2> QED
    BY <1>3, <1>10, <2>1, <2>2 DEF Refused, PairRefused, PairUnseen
<1>11. CASE Met(bt, hits, e)
  <2>1. e.index \in 1 .. m /\ e.index # Empty /\ e.table = bt
        /\ p[e.index].ctx = ctx /\ p[e.index].next = b
    BY <1>7, <1>11 DEF Met, Empty
  <2>2. e = [index |-> e.index, table |-> bt]
    BY <1>9, <2>1
  <2>3. /\ x.index = e.index /\ x.table \in Tables(Entry, n)
        /\ x.table.cap = bt.cap /\ x.table.slot = bt.slot
        /\ Recounted(p, x.table.pool, e.index)
    BY <1>1, <2>1, <2>2, RaisedPool
  <2> HIDE DEF x
  <2>4. BtOK(x.table)
    BY <2>3, BtOKSame DEF Recounted, n
  <2> QED
    BY <2>1, <2>3, <2>4 DEF PairMet, x
<1>12. CASE hits = {} /\ Stored(Entry, bt, n, BtHashes, hash, new, e)
  <2> DEFINE u == e.table
             k == Size(u)
  <2>1. /\ Room(u) /\ u \in Tables(Entry, k) /\ k \in {n, 2 * n}
        /\ Indexed(u.slot, k, Extended(BtHashes, m, hash), m + 1)
        /\ Len(u.pool) = m + 1
    BY <1>1, <1>2, <1>5, <1>12, RoomStored
  <2>2. e.index = m + 1 /\ u.pool = Append(p, new)
    BY <1>12 DEF Stored
  <2>3. BtOK(u)
    <3>1. KeyHashes(u.pool) = Extended(BtHashes, m, hash)
      BY <1>3, <1>4, <1>5, <2>2, HashesAppended DEF hash
    <3> QED
      BY <2>1, <3>1 DEF BtOK
  <2>4. e.index \in 1 .. Len(u.pool) /\ e.index # Empty /\ e = [index |-> e.index, table |-> u]
    BY <1>2, <1>9, <2>1, <2>2 DEF Empty
  <2> HIDE DEF k
  <2>5. /\ x.index = e.index /\ x.table \in Tables(Entry, k)
        /\ x.table.cap = u.cap /\ x.table.slot = u.slot
        /\ Recounted(u.pool, x.table.pool, e.index)
    BY <2>1, <2>4, RaisedPool
  <2> HIDE DEF x, u
  <2>6. BtOK(x.table)
    BY <2>3, <2>5, BtOKSame DEF Recounted, k
  <2> DEFINE q == x.table.pool
  <2>7. /\ q \in Seq(Entry) /\ Len(q) = m + 1 /\ q[m + 1] \in Entry
        /\ \A i \in 1 .. m + 1 : /\ q[i] \in Entry
                                 /\ q[i].ctx = u.pool[i].ctx /\ q[i].next = u.pool[i].next
                                 /\ q[i].link = u.pool[i].link
                                 /\ q[i].freq = IF i = m + 1 THEN u.pool[i].freq + 1
                                                ELSE u.pool[i].freq
    <3>1. q \in Seq(Entry) /\ Len(q) = m + 1
      BY <2>1, <2>5 DEF Recounted
    <3>2. \A i \in 1 .. m + 1 : q[i] \in Entry
      BY <3>1, ElementOfSeq
    <3>3. m + 1 \in 1 .. m + 1
      BY <1>2
    <3> QED
      BY <2>1, <2>2, <2>5, <3>1, <3>2, <3>3 DEF Recounted
  <2>8. u.pool[m + 1] = new /\ (\A i \in 1 .. m : u.pool[i] = p[i])
        /\ \A i \in 1 .. m : i \in 1 .. m + 1 /\ i # m + 1
    BY <1>2, <1>3, <1>5, <2>2, AppendProperties
  <2>9. q[m + 1] = [new EXCEPT !.freq = 1]
    <3>1. q[m + 1].ctx = ctx /\ q[m + 1].next = b /\ q[m + 1].link = Empty
          /\ q[m + 1].freq = 1
      <4>1. m + 1 \in 1 .. m + 1
        BY <1>2
      <4>2. /\ q[m + 1].ctx = u.pool[m + 1].ctx /\ q[m + 1].next = u.pool[m + 1].next
            /\ q[m + 1].link = u.pool[m + 1].link
            /\ q[m + 1].freq = u.pool[m + 1].freq + 1
        BY <2>7, <4>1
      <4>3. new.ctx = ctx /\ new.next = b /\ new.link = Empty /\ new.freq = 0
        BY DEF new, NewPair
      <4> QED
        BY <2>8, <4>2, <4>3
    <3>2. q[m + 1] = [ctx |-> ctx, next |-> b, freq |-> 1, link |-> Empty]
      BY <2>7, <3>1 DEF Entry
    <3> QED
      BY <3>2 DEF new, NewPair
  <2>10. ASSUME NEW i \in 1 .. m PROVE q[i] = p[i]
    <3>1. q[i] \in Entry /\ p[i] \in Entry /\ q[i].ctx = p[i].ctx /\ q[i].next = p[i].next
          /\ q[i].link = p[i].link /\ q[i].freq = p[i].freq
      BY <1>3, <2>7, <2>8, EntryFields
    <3> QED
      BY <3>1 DEF Entry
  <2>11. q = Append(p, [new EXCEPT !.freq = 1])
    <3>1. q = Append(p, q[m + 1])
      BY <1>3, <2>7, <2>10, AppendIs
    <3> QED
      BY <2>9, <3>1
  <2>12. \A i \in 1 .. m : ~(p[i].ctx = ctx /\ p[i].next = b)
    BY <1>3, <1>12
  <2> QED
    BY <2>2, <2>5, <2>6, <2>11, <2>12 DEF PairStored, x, new
<1> QED
  BY <1>8, <1>10, <1>11, <1>12

(***************************************************************************)
(* The outcomes of looking for the context.                                *)
(***************************************************************************)
CtxRefused(c, ctx) ==
    /\ c.index = Empty /\ c.table.pool = ctxs.pool
    /\ \A d \in 1 .. Len(ctxs.pool) : ctxs.pool[d].ctx # ctx
    /\ build.dynamic => build.reallocFails
    /\ ~build.reallocFails => c.table = ctxs /\ Len(ctxs.pool) >= ctxs.cap

CtxMet(c, ctx) == /\ c.index \in 1 .. Len(ctxs.pool) /\ ctxs.pool[c.index].ctx = ctx
                  /\ c.table = ctxs

CtxStored(c, ctx) ==
    /\ c.index = Len(ctxs.pool) + 1
    /\ c.table.pool = Append(ctxs.pool, NewCtx(ctx))
    /\ \A d \in 1 .. Len(ctxs.pool) : ctxs.pool[d].ctx # ctx
    /\ build.dynamic \/ Len(ctxs.pool) < ctxs.cap

\* What update_ctx finds or does: the context's entry, a new entry, or none,
\* and the table is sound.
LEMMA CtxOutcome ==
    ASSUME CtxsOK(ctxs), build \in BuildType, NEW ctx \in Contexts, NEW index, index # Empty,
           NEW c \in EnterCtx(index, ctx)
    PROVE  CtxsOK(c.table) /\ (CtxRefused(c, ctx) \/ CtxMet(c, ctx) \/ CtxStored(c, ctx))
<1> DEFINE n == Size(ctxs)
           cs == ctxs.pool
           m == Len(cs)
           hash == CtxHash[ctx]
           new == NewCtx(ctx)
           hits == {d \in DOMAIN cs : cs[d].ctx = ctx}
<1>1. /\ ctxs \in Tables(CtxEntry, n) /\ Room(ctxs) /\ Indexed(ctxs.slot, n, Hashes(cs), m)
      /\ IsPowerOfTwo(n)
  BY DEF CtxsOK, CtxsIndexed, Size
<1>2. n \in Nat \ {0} /\ m \in Nat
  BY <1>1 DEF Indexed
<1> HIDE DEF n
<1>3. cs \in Seq(CtxEntry) /\ DOMAIN cs = 1 .. m
  BY <1>1, <1>2, TableSize
<1>4. CtxHashes = Hashes(cs)
  BY <1>3 DEF CtxHashes, Hashes
<1>5. new \in CtxEntry /\ new.ctx = ctx
  BY DEF NewCtx, CtxEntry, Empty
<1>6. hash \in Nat
  BY HashAssumption
<1>7. hits \in SUBSET (1 .. m) /\ \A i \in hits : CtxHashes[i] = hash
  BY <1>3 DEF CtxHashes
<1>8. c \in Enter(ctxs, hash, hits, CtxHashes, new)
  BY DEF EnterCtx, NewCtx
<1> HIDE DEF new, hash, hits
<1>9. \/ Met(ctxs, hits, c)
      \/ hits = {} /\ Stored(CtxEntry, ctxs, n, CtxHashes, hash, new, c)
      \/ hits = {} /\ Refused(CtxEntry, ctxs, n, c)
  BY <1>1, <1>4, <1>5, <1>6, <1>7, <1>8, EnterCases
<1>10. hits = {} => \A d \in 1 .. m : cs[d].ctx # ctx
  BY <1>3 DEF hits
<1>11. CASE hits = {} /\ Refused(CtxEntry, ctxs, n, c)
  <2>1. Room(c.table) /\ c.table \in Tables(CtxEntry, n) /\ Size(c.table) = n
    BY <1>1, <1>2, <1>11, RoomRefused
  <2>2. CtxsOK(c.table)
    <3>1. ~build.reallocFails => m < n
      BY <1>1, <1>2, <1>3, TableSize DEF Room, n
    <3> QED
      BY <1>1, <1>11, <2>1, <3>1 DEF CtxsOK, CtxsIndexed, Refused, Size
  <2> QED
    BY <1>10, <1>11, <2>2 DEF Refused, CtxRefused
<1>12. CASE Met(ctxs, hits, c)
  <2>1. c.index \in 1 .. m /\ c.table = ctxs /\ cs[c.index].ctx = ctx
    BY <1>3, <1>12 DEF Met, hits
  <2> QED
    BY <2>1 DEF CtxMet
<1>13. CASE hits = {} /\ Stored(CtxEntry, ctxs, n, CtxHashes, hash, new, c)
  <2> DEFINE u == c.table
             k == Size(u)
  <2>1. /\ Room(u) /\ u \in Tables(CtxEntry, k) /\ k \in {n, 2 * n}
        /\ Indexed(u.slot, k, Extended(CtxHashes, m, hash), m + 1)
        /\ Len(u.pool) = m + 1 /\ (build.dynamic \/ m < ctxs.cap)
    BY <1>1, <1>2, <1>5, <1>13, RoomStored
  <2>2. c.index = m + 1 /\ u.pool = Append(cs, new)
    BY <1>13 DEF Stored
  <2>3. Hashes(u.pool) = Extended(CtxHashes, m, hash)
    BY <1>3, <1>4, <1>5, <2>2, HashesAppended DEF hash
  <2>4. IsPowerOfTwo(k) /\ k \in Nat \ {0}
    BY <1>1, <1>2, <2>1, PowerDoubled
  <2>5. ~build.reallocFails => m + 1 < k
    <3>1. u.cap \in Nat
      BY <2>1, <2>4, TableSize
    <3> QED
      BY <1>2, <2>1, <2>4, <3>1 DEF Room
  <2>6. CtxsOK(u)
    BY <2>1, <2>3, <2>4, <2>5 DEF CtxsOK, CtxsIndexed, Size
  <2> QED
    BY <1>10, <1>13, <2>1, <2>2, <2>6 DEF CtxStored, new
<1> QED
  BY <1>9, <1>11, <1>12, <1>13

(***************************************************************************)
(* Linked: the context's entry counts the byte and starts its chain with a *)
(* new pair, which links to what the chain was.                            *)
(***************************************************************************)
CtxRaised(w, i, new, index) ==
    LET raised == [w.pool[i] EXCEPT !.total = @ + 1,
                                    !.unique = IF new THEN @ + 1 ELSE @,
                                    !.first = IF new THEN index ELSE @]
    IN  [w EXCEPT !.pool[i] = raised]

\* The context's entry changes as counted, and its table stays sound.
LEMMA LinkedCtx ==
    ASSUME NEW w, CtxsOK(w), NEW i \in 1 .. Len(w.pool), NEW new \in BOOLEAN,
           NEW index \in Nat
    PROVE  LET v == CtxRaised(w, i, new, index)
           IN  /\ CtxsOK(v) /\ v.cap = w.cap
               /\ CtxCounted(w.pool, v.pool, i, new,
                             IF new THEN index ELSE w.pool[i].first)
<1> DEFINE n == Size(w)
           y == w.pool[i]
           x == [y EXCEPT !.total = @ + 1,
                          !.unique = IF new THEN @ + 1 ELSE @,
                          !.first = IF new THEN index ELSE @]
           q == [w.pool EXCEPT ![i] = x]
           v == CtxRaised(w, i, new, index)
<1>1. w \in Tables(CtxEntry, n) /\ Room(w) /\ CtxsIndexed(w.slot, w.pool)
  BY DEF CtxsOK
<1>2. w.pool \in Seq(CtxEntry) /\ w.cap \in Nat /\ w.slot \in [0 .. n - 1 -> Nat]
      /\ w = [pool |-> w.pool, cap |-> w.cap, slot |-> w.slot]
  BY <1>1 DEF Tables
<1>3. y \in CtxEntry /\ y = [ctx |-> y.ctx, total |-> y.total, unique |-> y.unique,
                             first |-> y.first]
  <2>1. y \in CtxEntry
    BY <1>2, ElementOfSeq
  <2> QED
    BY <2>1 DEF CtxEntry
<1>4. x = [ctx |-> y.ctx, total |-> y.total + 1,
           unique |-> IF new THEN y.unique + 1 ELSE y.unique,
           first |-> IF new THEN index ELSE y.first]
  <2> DEFINE g == y.total + 1
             h == IF new THEN y.unique + 1 ELSE y.unique
             f == IF new THEN index ELSE y.first
  <2>1. x = [[[y EXCEPT !.total = g] EXCEPT !.unique = h] EXCEPT !.first = f]
    OBVIOUS
  <2> HIDE DEF g, h, f, x, y
  <2>2. [y EXCEPT !.total = g] = [ctx |-> y.ctx, total |-> g, unique |-> y.unique,
                                  first |-> y.first]
    BY <1>3
  <2>3. x = [ctx |-> y.ctx, total |-> g, unique |-> h, first |-> f]
    BY <2>1, <2>2
  <2> QED
    BY <2>3 DEF g, h, f
<1>5. x \in CtxEntry
  BY <1>3, <1>4 DEF CtxEntry
<1> HIDE DEF x
<1>6. q \in Seq(CtxEntry) /\ Len(q) = Len(w.pool)
      /\ \A k \in 1 .. Len(w.pool) : q[k] = IF k = i THEN x ELSE w.pool[k]
  BY <1>2, <1>5, ExceptSeq
<1>7. v = [w EXCEPT !.pool = q]
  BY DEF CtxRaised, x
<1> HIDE DEF q, v
<1>8. v = [pool |-> q, cap |-> w.cap, slot |-> w.slot]
  <2>1. \A P, C, L, f : [[pool |-> P, cap |-> C, slot |-> L] EXCEPT !.pool = f]
                          = [pool |-> f, cap |-> C, slot |-> L]
    OBVIOUS
  <2> QED
    BY <1>2, <1>7, <2>1
<1>9. CtxCounted(w.pool, q, i, new, IF new THEN index ELSE y.first)
  BY <1>4, <1>6 DEF CtxCounted
<1>10. Hashes(q) = Hashes(w.pool)
  BY <1>6, <1>9 DEF Hashes, CtxCounted
<1>11. v \in Tables(CtxEntry, n) /\ Size(v) = n /\ Room(v)
  BY <1>1, <1>2, <1>6, <1>8 DEF Tables, Room, Size
<1>12. CtxsIndexed(v.slot, v.pool)
  BY <1>1, <1>6, <1>8, <1>10 DEF CtxsIndexed
<1> QED
  BY <1>8, <1>9, <1>11, <1>12 DEF CtxsOK, v

WithLink(e, f)      == [e EXCEPT !.link = f]
PairLinked(t, i, f) == [t EXCEPT !.pool[i].link = f]

\* The pair's new link leaves its table sound.
LEMMA LinkedPair ==
    ASSUME NEW t, BtOK(t), NEW p \in Seq(Entry), NEW e \in Entry, t.pool = Append(p, e),
           NEW f \in Nat
    PROVE  /\ BtOK(PairLinked(t, Len(p) + 1, f))
           /\ PairLinked(t, Len(p) + 1, f).pool = Append(p, WithLink(e, f))
<1> DEFINE n == Size(t)
           m == Len(p) + 1
           x == [t.pool[m] EXCEPT !.link = f]
           q == [t.pool EXCEPT ![m] = x]
           u == [t EXCEPT !.pool[m].link = f]
<1>1. t \in Tables(Entry, n)
  BY DEF BtOK
<1>2. t.pool \in Seq(Entry) /\ t.cap \in Nat /\ t.slot \in [0 .. n - 1 -> Nat]
      /\ t = [pool |-> t.pool, cap |-> t.cap, slot |-> t.slot]
  BY <1>1 DEF Tables
<1>3. Len(t.pool) = m /\ t.pool[m] = e /\ (\A i \in 1 .. Len(p) : t.pool[i] = p[i])
      /\ m \in 1 .. m /\ (\A i \in 1 .. Len(p) : i \in 1 .. m /\ i # m)
      /\ \A i \in 1 .. m : i = m \/ i \in 1 .. Len(p)
  <2>1. Len(p) \in Nat
    BY LenProperties
  <2> QED
    BY <2>1, AppendProperties
<1>4. x \in Entry /\ x.ctx = e.ctx /\ x.next = e.next /\ x = [e EXCEPT !.link = f]
  BY <1>3 DEF Entry
<1> HIDE DEF x
<1>5. q \in Seq(Entry) /\ Len(q) = m
      /\ \A k \in 1 .. m : q[k] = IF k = m THEN x ELSE t.pool[k]
  <2> DEFINE s == t.pool
  <2>1. m \in 1 .. Len(s) /\ Len(s) = m /\ s \in Seq(Entry)
    BY <1>2, <1>3
  <2>2. q = [s EXCEPT ![m] = x]
    OBVIOUS
  <2> HIDE DEF m, q, s
  <2>3. /\ q \in Seq(Entry) /\ Len(q) = Len(s)
        /\ \A k \in 1 .. Len(s) : q[k] = IF k = m THEN x ELSE s[k]
    BY <1>4, <2>1, <2>2, ExceptSeq
  <2> QED
    BY <2>1, <2>3 DEF s
<1>6. u = [t EXCEPT !.pool = q]
  BY DEF x
<1> HIDE DEF q, u
<1>7. u = [pool |-> q, cap |-> t.cap, slot |-> t.slot]
  <2>1. \A P, C, L, g : [[pool |-> P, cap |-> C, slot |-> L] EXCEPT !.pool = g]
                          = [pool |-> g, cap |-> C, slot |-> L]
    OBVIOUS
  <2> QED
    BY <1>2, <1>6, <2>1
<1> HIDE DEF m
<1>8. BtOK(u)
  <2>1. u \in Tables(Entry, n)
    BY <1>2, <1>5, <1>7 DEF Tables
  <2>2. \A i \in 1 .. m : q[i].ctx = t.pool[i].ctx /\ q[i].next = t.pool[i].next
    BY <1>3, <1>4, <1>5
  <2>3. u.pool = q /\ u.cap = t.cap /\ u.slot = t.slot /\ Len(q) = Len(t.pool)
    BY <1>3, <1>5, <1>7
  <2>4. \A i \in 1 .. Len(t.pool) :
           u.pool[i].ctx = t.pool[i].ctx /\ u.pool[i].next = t.pool[i].next
    BY <1>3, <2>2, <2>3
  <2> HIDE DEF n
  <2>5. Len(u.pool) = Len(t.pool) /\ u \in Tables(Entry, Size(t))
    BY <2>1, <2>3 DEF n
  <2> QED
    BY <2>3, <2>4, <2>5, BtOKSame
<1>9. q = Append(p, x)
  <2>1. Len(q) = Len(p) + 1 /\ q[m] = x /\ \A i \in 1 .. Len(p) : q[i] = p[i]
    BY <1>3, <1>5 DEF m
  <2> QED
    BY <1>5, <2>1, AppendIs DEF m
<1>10. BtOK(u) /\ u.pool = Append(p, WithLink(e, f))
  BY <1>4, <1>7, <1>8, <1>9 DEF WithLink
<1> QED
  BY <1>10 DEF u, m, PairLinked

-----------------------------------------------------------------------------
(***************************************************************************)
(* Windows and contexts are short sequences of bytes.                      *)
(***************************************************************************)
LEMMA WindowIs ==
    /\ \A w : w \in Contexts <=> w \in Seq(Byte) /\ Len(w) \in 1 .. Depth
    /\ \A w : w \in Model!Windows <=> w \in Seq(Byte) /\ Len(w) \in 0 .. Depth
<1>1. Depth \in Nat \ {0} /\ Contexts = UNION {[1 .. n -> Byte] : n \in 1 .. Depth}
  BY ContextsAssumption DEF Model!Strings
<1>2. ASSUME NEW w PROVE w \in Contexts <=> w \in Seq(Byte) /\ Len(w) \in 1 .. Depth
  <2>1. ASSUME w \in Contexts PROVE w \in Seq(Byte) /\ Len(w) \in 1 .. Depth
    <3>1. PICK n \in 1 .. Depth : w \in [1 .. n -> Byte]
      BY <1>1, <2>1
    <3> QED
      BY <1>1, <3>1, IndexedSeq
  <2>2. ASSUME w \in Seq(Byte), Len(w) \in 1 .. Depth PROVE w \in Contexts
    BY <1>1, <2>2, LenProperties
  <2> QED
    BY <2>1, <2>2
<1>3. <<>> \in Seq(Byte) /\ Len(<<>>) = 0 /\ \A w \in Seq(Byte) : Len(w) = 0 => w = <<>>
  BY EmptySeq
<1>4. ASSUME NEW w PROVE w \in Model!Windows <=> w \in Seq(Byte) /\ Len(w) \in 0 .. Depth
  <2>1. w \in Model!Windows <=> w \in Contexts \/ w = <<>>
    BY ContextsAssumption DEF Model!Windows
  <2>2. ASSUME w \in Seq(Byte), Len(w) \in 0 .. Depth PROVE w \in Contexts \/ w = <<>>
    <3>1. Len(w) = 0 \/ Len(w) \in 1 .. Depth
      BY <1>1, <2>2
    <3> QED
      BY <1>2, <1>3, <2>2, <3>1
  <2>3. ASSUME w \in Contexts \/ w = <<>> PROVE w \in Seq(Byte) /\ Len(w) \in 0 .. Depth
    <3>1. CASE w = <<>>
      <4>1. Len(w) \in 0 .. Depth
        BY <1>1, <1>3, <3>1
      <4> QED
        BY <1>3, <3>1, <4>1
    <3>2. CASE w \in Contexts
      <4>1. w \in Seq(Byte) /\ Len(w) \in 1 .. Depth
        BY <1>2, <3>2
      <4> QED
        BY <1>1, <4>1
    <3> QED
      BY <2>3, <3>1, <3>2
  <2> QED
    BY <2>1, <2>2, <2>3
<1> QED
  BY <1>2, <1>4

\* The last bytes of a window are a context.
LEMMA SuffixContext ==
    ASSUME NEW w \in Model!Windows, NEW n \in 1 .. Len(w)
    PROVE  Suffix(w, n) \in Contexts
<1>1. w \in Seq(Byte) /\ Len(w) \in 0 .. Depth /\ Depth \in Nat
  BY WindowIs, ContextsAssumption
<1> DEFINE a == Len(w) - n + 1
<1>2. a \in 1 .. Len(w) + 1 /\ Len(w) \in a - 1 .. Len(w)
      /\ Len(w) - a + 1 = n /\ n \in 1 .. Depth /\ a <= Len(w)
  BY <1>1
<1> HIDE DEF a
<1>3. SubSeq(w, a, Len(w)) \in Seq(Byte) /\ Len(SubSeq(w, a, Len(w))) = n
  BY <1>1, <1>2, SubSeqProperties
<1> QED
  BY <1>2, <1>3, WindowIs DEF Suffix, a

\* A window that moves on is a window.
LEMMA PushWindow ==
    ASSUME NEW w \in Model!Windows, NEW b \in Byte
    PROVE  Push(w, b) \in Model!Windows
<1>1. w \in Seq(Byte) /\ Len(w) \in 0 .. Depth /\ Depth \in Nat \ {0}
  BY WindowIs, ContextsAssumption
<1>2. CASE Len(w) < Depth
  <2>1. Append(w, b) \in Seq(Byte) /\ Len(Append(w, b)) = Len(w) + 1
    BY <1>1, AppendProperties
  <2>2. Push(w, b) \in Seq(Byte) /\ Len(Push(w, b)) \in 0 .. Depth
    BY <1>1, <1>2, <2>1 DEF Push
  <2> QED
    BY <2>2, WindowIs
<1>3. CASE ~(Len(w) < Depth)
  <2>1. w # <<>>
    BY <1>1, <1>3, EmptySeq
  <2>2. Tail(w) \in Seq(Byte) /\ Len(Tail(w)) = Len(w) - 1
    BY <1>1, <2>1, HeadTailProperties
  <2>3. Append(Tail(w), b) \in Seq(Byte) /\ Len(Append(Tail(w), b)) = (Len(w) - 1) + 1
    BY <2>2, AppendProperties
  <2>4. Push(w, b) \in Seq(Byte) /\ Len(Push(w, b)) \in 0 .. Depth
    BY <1>1, <1>3, <2>3 DEF Push
  <2> QED
    BY <2>4, WindowIs
<1> QED
  BY <1>2, <1>3

-----------------------------------------------------------------------------
(***************************************************************************)
(* What one step of a training does.  ds are the context entries once the  *)
(* context has been looked for: as they were, or with one more.            *)
(***************************************************************************)
Homes(ds, ctx) ==
    \/ ds = ctxs.pool /\ ctxs'.cap = ctxs.cap
    \/ /\ ds = Append(ctxs.pool, NewCtx(ctx))
       /\ \A d \in 1 .. Len(ctxs.pool) : ctxs.pool[d].ctx # ctx
       /\ build.dynamic \/ Len(ctxs.pool) < ctxs.cap

\* No context entry: only if its pool is full.
Homeless(ctx) ==
    /\ ctxs'.pool = ctxs.pool
    /\ \A d \in 1 .. Len(ctxs.pool) : ctxs.pool[d].ctx # ctx
    /\ build.dynamic => build.reallocFails
    /\ ~build.reallocFails => ctxs' = ctxs /\ Len(ctxs.pool) >= ctxs.cap

PairSeen(j, ctx, b) == /\ j \in 1 .. Len(bt.pool) /\ Recounted(bt.pool, bt'.pool, j)
                       /\ bt.pool[j].ctx = ctx /\ bt.pool[j].next = b

Pair(ctx, b, link) == [ctx |-> ctx, next |-> b, freq |-> 1, link |-> link]

Lost(ctx, b)     == /\ bt'.pool = bt.pool /\ ctxs' = ctxs /\ PairUnseen(ctx, b)
                    /\ build.dynamic => build.reallocFails
Stray(ctx, b)    == Homeless(ctx) /\ \E j : PairSeen(j, ctx, b)
NewStray(ctx, b) == /\ Homeless(ctx) /\ PairUnseen(ctx, b)
                    /\ bt'.pool = Append(bt.pool, Pair(ctx, b, Empty))
SeenAgain(ctx, b, ds) ==
    \E j : /\ PairSeen(j, ctx, b)
           /\ \E c \in 1 .. Len(ds) : /\ ds[c].ctx = ctx
                                      /\ CtxCounted(ds, ctxs'.pool, c, FALSE, ds[c].first)
SeenFirst(ctx, b, ds) ==
    /\ PairUnseen(ctx, b)
    /\ \E c \in 1 .. Len(ds) :
          /\ ds[c].ctx = ctx
          /\ bt'.pool = Append(bt.pool, Pair(ctx, b, ds[c].first))
          /\ CtxCounted(ds, ctxs'.pool, c, TRUE, Len(bt.pool) + 1)

\* Update comes to one of five ends: nothing is stored (Lost), a pair without
\* an entry for its context is counted (Stray) or stored (NewStray), or the pair
\* is counted (SeenAgain) or stored (SeenFirst) with its context.
LEMMA UpdateOutcome ==
    ASSUME BtOK(bt), CtxsOK(ctxs), build \in BuildType, window \in Model!Windows,
           call.byte \in Byte, Update
    PROVE  LET ctx == Suffix(window, call.n)
               b == call.byte
           IN  /\ ctx \in Contexts /\ call.n \in 1 .. Len(window)
               /\ BtOK(bt') /\ CtxsOK(ctxs')
               /\ \/ Lost(ctx, b) \/ Stray(ctx, b) \/ NewStray(ctx, b)
                  \/ \E ds : Homes(ds, ctx) /\ (SeenAgain(ctx, b, ds) \/ SeenFirst(ctx, b, ds))
<1> DEFINE ctx == Suffix(window, call.n)
           b == call.byte
           p == bt.pool
           m == Len(p)
           hits == {i \in DOMAIN p : p[i].ctx = ctx /\ p[i].next = b}
<1>1. call.n \in 1 .. Len(window) /\ ctx \in Contexts
  BY SuffixContext DEF Update
<1>2. PICK e \in Enter(bt, KeyHash[<<ctx, b>>], hits, BtHashes, NewPair(ctx, b)) :
         \E c \in EnterCtx(e.index, ctx) : Linked(FreqRaised(e), c)
  BY DEF Update, FreqRaised, NewPair
<1>3. PICK c \in EnterCtx(e.index, ctx) : Linked(FreqRaised(e), c)
  BY <1>2
<1> DEFINE x == FreqRaised(e)
<1>4. /\ BtOK(x.table) /\ x.index = e.index
      /\ PairRefused(x, ctx, b) \/ PairMet(x, ctx, b) \/ PairStored(x, ctx, b)
  BY <1>1, <1>2, PairOutcome
<1>5. Linked(x, c) /\ c \in EnterCtx(x.index, ctx)
  BY <1>3, <1>4
<1> HIDE DEF x, ctx, b, hits
<1>6. p \in Seq(Entry) /\ m \in Nat
  <2>1. bt \in Tables(Entry, Size(bt)) /\ Size(bt) \in Nat
    BY DEF BtOK, Indexed
  <2> QED
    BY <2>1, TableSize
<1>7. CASE PairRefused(x, ctx, b)
  <2>1. c = [index |-> Empty, table |-> ctxs]
    BY <1>5, <1>7 DEF EnterCtx, PairRefused
  <2>2. ctxs' = ctxs /\ bt' = x.table
    BY <1>5, <2>1 DEF Linked
  <2> QED
    BY <1>1, <1>4, <1>7, <2>2 DEF Lost, PairRefused, ctx, b
<1>8. CASE PairMet(x, ctx, b) \/ PairStored(x, ctx, b)
  <2> DEFINE isNew == Len(x.table.pool) > m
             y == c.table.pool[c.index]
  <2>1. x.index # Empty /\ x.index \in Nat
    BY <1>6, <1>8 DEF PairMet, PairStored, Empty
  <2>2. CtxsOK(c.table) /\ (CtxRefused(c, ctx) \/ CtxMet(c, ctx) \/ CtxStored(c, ctx))
    BY <1>1, <1>5, <2>1, CtxOutcome
  <2>3. PairMet(x, ctx, b) => isNew = FALSE
    BY <1>6 DEF PairMet, Recounted
  <2>4. PairStored(x, ctx, b) => isNew = TRUE
    <3>1. [NewPair(ctx, b) EXCEPT !.freq = 1] = Pair(ctx, b, Empty) /\ Pair(ctx, b, Empty) \in Entry
      BY <1>1 DEF NewPair, Pair, Entry, Empty, b, ctx
    <3>2. Len(Append(p, Pair(ctx, b, Empty))) = m + 1
      BY <1>6, <3>1, AppendProperties
    <3> QED
      BY <1>6, <3>1, <3>2 DEF PairStored
  <2>5. CASE CtxRefused(c, ctx)
    <3>1. ctxs' = c.table /\ bt' = x.table
      BY <1>5, <2>5 DEF Linked, CtxRefused
    <3>2. Homeless(ctx)
      BY <2>5, <3>1 DEF CtxRefused, Homeless
    <3>3. BtOK(bt') /\ CtxsOK(ctxs')
      BY <1>4, <2>2, <3>1
    <3>4. PairMet(x, ctx, b) => Stray(ctx, b)
      BY <3>1, <3>2 DEF PairMet, Stray, PairSeen
    <3>5. PairStored(x, ctx, b) => NewStray(ctx, b)
      BY <3>1, <3>2 DEF PairStored, NewStray, PairUnseen, NewPair, Pair
    <3> QED
      BY <1>1, <1>8, <3>3, <3>4, <3>5 DEF ctx, b
  <2>6. CASE CtxMet(c, ctx) \/ CtxStored(c, ctx)
    <3> DEFINE w == c.table
               ds == w.pool
               k == c.index
               f == y.first
    <3>1. k \in 1 .. Len(ds) /\ k # Empty /\ ds[k].ctx = ctx /\ ds \in Seq(CtxEntry)
      <4>1. w \in Tables(CtxEntry, Size(w)) /\ Size(w) \in Nat
        BY <2>2 DEF CtxsOK, CtxsIndexed, Indexed, Size
      <4>2. ds \in Seq(CtxEntry)
        BY <4>1, TableSize
      <4>3. CASE CtxMet(c, ctx)
        BY <4>2, <4>3 DEF CtxMet, Empty
      <4>4. CASE CtxStored(c, ctx)
        <5>1. ctxs.pool \in Seq(CtxEntry) /\ Len(ctxs.pool) \in Nat
          <6>1. ctxs \in Tables(CtxEntry, Size(ctxs)) /\ Size(ctxs) \in Nat
            BY DEF CtxsOK, CtxsIndexed, Indexed, Size
          <6> QED
            BY <6>1, TableSize
        <5>2. NewCtx(ctx) \in CtxEntry /\ NewCtx(ctx).ctx = ctx
          BY <1>1 DEF NewCtx, CtxEntry, Empty, ctx
        <5>3. Len(ds) = Len(ctxs.pool) + 1 /\ ds[Len(ctxs.pool) + 1] = NewCtx(ctx)
          BY <4>4, <5>1, <5>2, AppendProperties DEF CtxStored
        <5> QED
          BY <4>2, <4>4, <5>1, <5>2, <5>3 DEF CtxStored, Empty
      <4> QED
        BY <2>6, <4>2, <4>3, <4>4
    <3>2. ctxs' = CtxRaised(w, k, isNew, x.index)
      BY <1>5, <3>1 DEF Linked, CtxRaised
    <3>3. bt' = IF isNew THEN [x.table EXCEPT !.pool[x.index].link = f] ELSE x.table
      BY <1>5, <3>1 DEF Linked
    <3>4. /\ CtxsOK(ctxs') /\ ctxs'.cap = w.cap
          /\ CtxCounted(ds, ctxs'.pool, k, isNew, IF isNew THEN x.index ELSE f)
      <4>1. isNew \in BOOLEAN
        OBVIOUS
      <4> HIDE DEF isNew
      <4> QED
        BY <2>1, <2>2, <3>1, <3>2, <4>1, LinkedCtx
    <3>5. Homes(ds, ctx)
      BY <2>6, <3>4 DEF CtxMet, CtxStored, Homes
    <3>6. CASE PairMet(x, ctx, b)
      <4>1. bt' = x.table /\ CtxCounted(ds, ctxs'.pool, k, FALSE, f)
        BY <2>3, <3>3, <3>4, <3>6
      <4>2. SeenAgain(ctx, b, ds)
        <5>1. PairSeen(x.index, ctx, b)
          BY <3>6, <4>1 DEF PairMet, PairSeen
        <5> QED
          BY <3>1, <4>1, <5>1 DEF SeenAgain
      <4> QED
        BY <1>1, <1>4, <3>4, <3>5, <4>1, <4>2 DEF ctx, b
    <3>7. CASE PairStored(x, ctx, b)
      <4>1. /\ bt' = PairLinked(x.table, m + 1, f)
            /\ CtxCounted(ds, ctxs'.pool, k, TRUE, m + 1)
        BY <2>4, <3>3, <3>4, <3>7 DEF PairStored, PairLinked
      <4>2. f \in Nat
        BY <3>1, CtxEntryFields
      <4> DEFINE e1 == [NewPair(ctx, b) EXCEPT !.freq = 1]
                 e2 == Pair(ctx, b, Empty)
      <4>3. /\ e2 \in Entry /\ e1 = e2
            /\ WithLink(e2, f) = Pair(ctx, b, f)
        <5>1. e2 \in Entry
          BY <1>1 DEF Pair, Entry, Empty, b, ctx
        <5>2. e1 = e2
          BY DEF NewPair, Pair
        <5>3. WithLink(e2, f) = Pair(ctx, b, f)
          BY DEF Pair, WithLink
        <5> QED
          BY <5>1, <5>2, <5>3
      <4>4. BtOK(bt') /\ bt'.pool = Append(p, Pair(ctx, b, f))
        <5>1. x.table.pool = Append(p, e1)
          BY <3>7 DEF PairStored
        <5>2. e1 = e2
          BY <4>3
        <5> HIDE DEF e1, e2, f
        <5>3. x.table.pool = Append(p, e2)
          BY <5>1, <5>2
        <5>4. e2 \in Entry /\ WithLink(e2, f) = Pair(ctx, b, f)
          BY <4>3
        <5>5. /\ BtOK(PairLinked(x.table, m + 1, f))
              /\ PairLinked(x.table, m + 1, f).pool = Append(p, WithLink(e2, f))
          BY <1>4, <1>6, <4>2, <5>3, <5>4, LinkedPair
        <5> QED
          BY <4>1, <5>4, <5>5
      <4>5. SeenFirst(ctx, b, ds)
        <5>1. PairUnseen(ctx, b)
          BY <3>7 DEF PairStored, PairUnseen
        <5> QED
          BY <3>1, <4>1, <4>4, <5>1 DEF SeenFirst
      <4> QED
        BY <1>1, <3>4, <3>5, <4>4, <4>5 DEF ctx, b
    <3> QED
      BY <1>8, <3>6, <3>7
  <2> QED
    BY <2>2, <2>5, <2>6
<1> QED
  BY <1>4, <1>7, <1>8

-----------------------------------------------------------------------------
(***************************************************************************)
(* A step of a training keeps the entries in order.                        *)
(***************************************************************************)
WithCtx(ctx) == \A bits : Filtered(bits, ctxs.pool)
                   => Filtered(bits \cup BloomBits[CtxHash[ctx]], ctxs'.pool)

\* The entries once the context has been looked for.
LEMMA HomesData ==
    ASSUME Data(bt.pool, ctxs.pool), HomedOrFull, ctxs.cap \in Nat,
           NEW ctx \in Contexts, NEW ds, Homes(ds, ctx)
    PROVE  /\ Data(bt.pool, ds) /\ ds \in Seq(CtxEntry) /\ Len(ctxs.pool) \in Nat
           /\ Len(ds) \in {Len(ctxs.pool), Len(ctxs.pool) + 1}
           /\ \A c \in 1 .. Len(ds) : c \in 1 .. Len(ctxs.pool) \/ ds[c].ctx = ctx
           /\ \A c \in 1 .. Len(ctxs.pool) : ds[c].ctx = ctxs.pool[c].ctx
<1> DEFINE cs == ctxs.pool
<1>1. cs \in Seq(CtxEntry) /\ Len(cs) \in Nat
  BY LenProperties DEF Data, Pools
<1>2. CASE ds = cs
  BY <1>1, <1>2
<1>3. CASE ds # cs
  <2>1. /\ ds = Append(cs, NewCtx(ctx)) /\ \A d \in 1 .. Len(cs) : cs[d].ctx # ctx
        /\ build.dynamic \/ Len(cs) < ctxs.cap
    BY <1>3 DEF Homes
  <2>2. NewCtx(ctx) \in CtxEntry /\ NewCtx(ctx).ctx = ctx
    BY DEF NewCtx, CtxEntry, Empty
  <2>3. ~build.reallocFails => AllHomed(bt.pool, cs)
    BY <1>1, <2>1 DEF HomedOrFull
  <2>4. ~build.reallocFails => \A i \in 1 .. Len(bt.pool) : bt.pool[i].ctx # ctx
    BY <2>1, <2>3 DEF AllHomed
  <2>5. Data(bt.pool, ds)
    BY <2>1, <2>4, CtxEntered
  <2> HIDE DEF cs
  <2>6. /\ ds \in Seq(CtxEntry) /\ Len(ds) = Len(cs) + 1 /\ ds[Len(cs) + 1] = NewCtx(ctx)
        /\ \A c \in 1 .. Len(cs) : ds[c] = cs[c]
    BY <1>1, <2>1, <2>2, AppendProperties
  <2>7. \A c \in 1 .. Len(ds) : c \in 1 .. Len(cs) \/ ds[c].ctx = ctx
    BY <1>1, <2>2, <2>6
  <2> QED
    BY <1>1, <2>5, <2>6, <2>7 DEF cs
<1> QED
  BY <1>2, <1>3

\* Entries with homes keep them; so does the filter.
LEMMA HomesKept ==
    ASSUME HomedOrFull, build' = build, NEW ctx, NEW c,
           c \in 1 .. Len(ctxs'.pool), ctxs'.pool[c].ctx = ctx,
           \/ Len(ctxs'.pool) = Len(ctxs.pool) /\ ctxs'.cap = ctxs.cap
           \/ build.dynamic \/ Len(ctxs.pool) < ctxs.cap,
           Len(ctxs.pool) \in Nat, Len(ctxs'.pool) \in Nat, ctxs.cap \in Nat,
           Len(ctxs.pool) <= Len(ctxs'.pool),
           \A d \in 1 .. Len(ctxs'.pool) : d \in 1 .. Len(ctxs.pool) \/ ctxs'.pool[d].ctx = ctx,
           \A d \in 1 .. Len(ctxs.pool) : ctxs'.pool[d].ctx = ctxs.pool[d].ctx,
           \A i \in 1 .. Len(bt'.pool) :
              bt'.pool[i].ctx = ctx \/ (i \in 1 .. Len(bt.pool) /\ bt'.pool[i].ctx = bt.pool[i].ctx)
    PROVE  HomedOrFull' /\ WithCtx(ctx)
<1>1. ASSUME NEW bits, Filtered(bits, ctxs.pool)
      PROVE  Filtered(bits \cup BloomBits[CtxHash[ctx]], ctxs'.pool)
  BY <1>1 DEF Filtered
<1>2. AllHomed(bt.pool, ctxs.pool) => AllHomed(bt'.pool, ctxs'.pool)
  <2> SUFFICES ASSUME AllHomed(bt.pool, ctxs.pool), NEW i \in 1 .. Len(bt'.pool)
               PROVE  \E d \in 1 .. Len(ctxs'.pool) : ctxs'.pool[d].ctx = bt'.pool[i].ctx
    BY DEF AllHomed
  <2>1. CASE bt'.pool[i].ctx = ctx
    BY <2>1
  <2>2. CASE i \in 1 .. Len(bt.pool) /\ bt'.pool[i].ctx = bt.pool[i].ctx
    <3>1. PICK d \in 1 .. Len(ctxs.pool) : ctxs.pool[d].ctx = bt.pool[i].ctx
      BY <2>2 DEF AllHomed
    <3>2. d \in 1 .. Len(ctxs'.pool)
      OBVIOUS
    <3> QED
      BY <2>2, <3>1, <3>2
  <2> QED
    BY <2>1, <2>2
<1>3. HomedOrFull'
  BY <1>2 DEF HomedOrFull
<1> QED
  BY <1>1, <1>3 DEF WithCtx

\* Whichever end Update comes to, what is readable stays sound, and the
\* bloom filter can know the context.
LEMMA UpdateData ==
    ASSUME Data(bt.pool, ctxs.pool), HomedOrFull, ctxs.cap \in Nat, build' = build,
           NEW ctx \in Contexts, NEW b \in Byte,
           \/ Lost(ctx, b) \/ Stray(ctx, b) \/ NewStray(ctx, b)
           \/ \E ds : Homes(ds, ctx) /\ (SeenAgain(ctx, b, ds) \/ SeenFirst(ctx, b, ds))
    PROVE  Data(bt'.pool, ctxs'.pool) /\ HomedOrFull' /\ WithCtx(ctx)
<1> DEFINE p == bt.pool
           cs == ctxs.pool
<1>1. p \in Seq(Entry) /\ cs \in Seq(CtxEntry) /\ Len(p) \in Nat /\ Len(cs) \in Nat
  BY LenProperties DEF Data, Pools
<1>2. ctxs'.pool = cs => WithCtx(ctx)
  BY DEF WithCtx, Filtered
<1>3. CASE Lost(ctx, b)
  <2>1. Data(bt'.pool, ctxs'.pool) /\ WithCtx(ctx)
    BY <1>2, <1>3 DEF Lost
  <2>2. HomedOrFull'
    BY <1>3 DEF Lost, HomedOrFull
  <2> QED
    BY <2>1, <2>2
<1>4. ASSUME Homeless(ctx) PROVE HomedOrFull' /\ WithCtx(ctx)
  <2>1. HomedOrFull'
    BY <1>4 DEF Homeless, HomedOrFull
  <2> QED
    BY <1>2, <1>4, <2>1 DEF Homeless
<1>5. CASE Stray(ctx, b)
  <2>1. PICK j : PairSeen(j, ctx, b)
    BY <1>5 DEF Stray
  <2>2. Data(p, cs)
    OBVIOUS
  <2>3. Data(bt'.pool, ctxs'.pool)
    <3>1. j \in 1 .. Len(p) /\ Recounted(p, bt'.pool, j) /\ p[j].ctx = ctx
      BY <2>1 DEF PairSeen
    <3>2. ctxs'.pool = cs /\ NoCtx(cs, p[j].ctx)
      BY <1>5, <3>1 DEF Stray, Homeless, NoCtx
    <3> HIDE DEF cs, p
    <3>3. Data(bt'.pool, cs)
      BY <3>1, <3>2, <2>2, PairRecounted
    <3> QED
      BY <3>2, <3>3
  <2> QED
    BY <1>4, <1>5, <2>3 DEF Stray
<1>6. CASE NewStray(ctx, b)
  <2> DEFINE e == Pair(ctx, b, Empty)
  <2>1. e \in Entry /\ e.freq = 1 /\ e.ctx = ctx /\ e.next = b /\ e.link = Empty
    BY DEF Pair, Entry, Empty
  <2> HIDE DEF e
  <2>2. Data(Append(p, e), ctxs'.pool)
    <3>1. \A i \in 1 .. Len(p) : ~(p[i].ctx = e.ctx /\ p[i].next = e.next)
      BY <1>6, <2>1 DEF NewStray, PairUnseen
    <3>2. /\ ctxs'.pool = cs /\ NoCtx(cs, e.ctx)
          /\ build.dynamic => build.reallocFails
      BY <1>6, <2>1 DEF NewStray, Homeless, NoCtx
    <3>3. Data(p, cs)
      OBVIOUS
    <3> HIDE DEF cs, p
    <3>4. Data(Append(p, e), cs)
      BY <2>1, <3>1, <3>2, <3>3, PairAdded
    <3> QED
      BY <3>2, <3>4
  <2>3. Data(bt'.pool, ctxs'.pool)
    BY <1>6, <2>2 DEF NewStray, e
  <2> QED
    BY <1>4, <1>6, <2>3 DEF NewStray
<1>7. ASSUME NEW ds, Homes(ds, ctx), SeenAgain(ctx, b, ds) \/ SeenFirst(ctx, b, ds)
      PROVE  Data(bt'.pool, ctxs'.pool) /\ HomedOrFull' /\ WithCtx(ctx)
  <2>1. /\ Data(p, ds) /\ ds \in Seq(CtxEntry)
        /\ Len(ds) \in {Len(cs), Len(cs) + 1}
        /\ \A c \in 1 .. Len(ds) : c \in 1 .. Len(cs) \/ ds[c].ctx = ctx
        /\ \A c \in 1 .. Len(cs) : ds[c].ctx = cs[c].ctx
    BY <1>7, HomesData
  <2>2. \/ Len(ds) = Len(cs) /\ ctxs'.cap = ctxs.cap
        \/ build.dynamic \/ Len(cs) < ctxs.cap
    BY <1>7 DEF Homes
  <2>3. ASSUME NEW c \in 1 .. Len(ds), ds[c].ctx = ctx, NEW new, NEW first,
               CtxCounted(ds, ctxs'.pool, c, new, first),
               \A i \in 1 .. Len(bt'.pool) :
                  bt'.pool[i].ctx = ctx \/ (i \in 1 .. Len(p) /\ bt'.pool[i].ctx = p[i].ctx)
        PROVE  HomedOrFull' /\ WithCtx(ctx)
    <3>1. Len(ctxs'.pool) = Len(ds) /\ \A d \in 1 .. Len(ds) : ctxs'.pool[d].ctx = ds[d].ctx
      BY <2>3 DEF CtxCounted
    <3>2. c \in 1 .. Len(ctxs'.pool) /\ ctxs'.pool[c].ctx = ctx
      BY <2>3, <3>1
    <3>3. /\ \A d \in 1 .. Len(ctxs'.pool) : d \in 1 .. Len(cs) \/ ctxs'.pool[d].ctx = ctx
          /\ \A d \in 1 .. Len(cs) : ctxs'.pool[d].ctx = cs[d].ctx
          /\ Len(ctxs'.pool) \in Nat /\ Len(cs) <= Len(ctxs'.pool)
      BY <1>1, <2>1, <3>1
    <3>4. \/ Len(ctxs'.pool) = Len(cs) /\ ctxs'.cap = ctxs.cap
          \/ build.dynamic \/ Len(cs) < ctxs.cap
      BY <2>2, <3>1
    <3> QED
      BY <1>1, <2>3, <3>2, <3>3, <3>4, HomesKept
  <2>4. CASE SeenAgain(ctx, b, ds)
    <3>1. PICK j : /\ PairSeen(j, ctx, b)
                   /\ \E c \in 1 .. Len(ds) : /\ ds[c].ctx = ctx
                                              /\ CtxCounted(ds, ctxs'.pool, c, FALSE, ds[c].first)
      BY <2>4 DEF SeenAgain
    <3>2. PICK c \in 1 .. Len(ds) : /\ ds[c].ctx = ctx
                                    /\ CtxCounted(ds, ctxs'.pool, c, FALSE, ds[c].first)
      BY <3>1
    <3>3. Data(bt'.pool, ctxs'.pool)
      <4>1. j \in 1 .. Len(p) /\ Recounted(p, bt'.pool, j) /\ p[j].ctx = ctx
        BY <3>1 DEF PairSeen
      <4>2. ds[c].ctx = p[j].ctx /\ CtxCounted(ds, ctxs'.pool, c, FALSE, ds[c].first)
        BY <3>2, <4>1
      <4> QED
        BY <2>1, <4>1, <4>2, PairRecounted
    <3>4. \A i \in 1 .. Len(bt'.pool) :
             bt'.pool[i].ctx = ctx \/ (i \in 1 .. Len(p) /\ bt'.pool[i].ctx = p[i].ctx)
      BY <3>1 DEF PairSeen, Recounted
    <3> QED
      BY <2>3, <3>2, <3>3, <3>4
  <2>5. CASE SeenFirst(ctx, b, ds)
    <3>1. PICK c \in 1 .. Len(ds) :
             /\ ds[c].ctx = ctx
             /\ bt'.pool = Append(p, Pair(ctx, b, ds[c].first))
             /\ CtxCounted(ds, ctxs'.pool, c, TRUE, Len(p) + 1)
      BY <2>5 DEF SeenFirst
    <3> DEFINE e == Pair(ctx, b, ds[c].first)
    <3>2. e \in Entry /\ e.freq = 1 /\ e.ctx = ctx /\ e.next = b /\ e.link = ds[c].first
      <4>1. ds[c].first \in Nat
        BY <2>1, CtxEntryFields
      <4> QED
        BY <4>1 DEF Pair, Entry
    <3>3. bt'.pool = Append(p, e)
      BY <3>1
    <3> HIDE DEF e
    <3>4. Data(bt'.pool, ctxs'.pool)
      BY <2>1, <2>5, <3>1, <3>2, <3>3, PairAdded DEF SeenFirst, PairUnseen
    <3>5. \A i \in 1 .. Len(bt'.pool) :
             bt'.pool[i].ctx = ctx \/ (i \in 1 .. Len(p) /\ bt'.pool[i].ctx = p[i].ctx)
      <4>1. /\ Len(bt'.pool) = Len(p) + 1 /\ bt'.pool[Len(p) + 1] = e
            /\ \A i \in 1 .. Len(p) : bt'.pool[i] = p[i]
        BY <1>1, <3>2, <3>3, AppendProperties
      <4>2. \A i \in 1 .. Len(p) + 1 : i \in 1 .. Len(p) \/ i = Len(p) + 1
        BY <1>1
      <4> QED
        BY <3>2, <4>1, <4>2
    <3> QED
      BY <2>3, <3>1, <3>4, <3>5
  <2> QED
    BY <1>7, <2>4, <2>5
<1> QED
  BY <1>3, <1>5, <1>6, <1>7

-----------------------------------------------------------------------------
(***************************************************************************)
(* Every action keeps the invariant.                                       *)
(***************************************************************************)
AsIs == build' = build /\ UNCHANGED <<bt, ctxs, bloom, live, file>>

Tabled == Nothing /\ Own /\ Files /\ (live # "none" => Readable(Snap))

\* What a build gives.
LEMMA BuildIs ==
    ASSUME build \in Builds
    PROVE  /\ build \in BuildType /\ IsPowerOfTwo(build.ctxSlots)
           /\ build.poolCap \in Nat \ {0} /\ build.btSlots \in Nat \ {0}
           /\ build.ctxCap \in Nat \ {0} /\ build.ctxSlots \in Nat \ {0}
           /\ build.poolCap < build.btSlots /\ build.ctxCap < build.ctxSlots
<1>1. build \in BuildType /\ SizesFit(build)
  BY BuildsAssumption
<1>2. /\ build.poolCap \in Nat /\ build.btSlots \in Nat
      /\ build.ctxCap \in Nat /\ build.ctxSlots \in Nat
  BY <1>1 DEF BuildType
<1> QED
  BY <1>1, <1>2 DEF SizesFit

\* The idle call.
LEMMA IdleIs == Model!Idle \in [byte : Byte, n : 0 .. Depth + 1] /\ Model!Idle.n = 0
<1>1. (CHOOSE b \in Byte : TRUE) \in Byte /\ 0 \in 0 .. Depth + 1
  BY ContextsAssumption
<1> QED
  BY <1>1 DEF Model!Idle

\* The empty window.
LEMMA EmptyWindow == <<>> \in Model!Windows
BY DEF Model!Windows

\* Where the tables and the file stay, what is said of them stays true.
LEMMA TabledSame ==
    ASSUME Tabled, AsIs
    PROVE  Tabled'
BY DEF AsIs, Tabled, Nothing, Own, Files, Snap, Readable, Data, CtxsIndexed,
       BtOK, CtxsOK, Room, HomedOrFull, Size

\* The empty tables of a model that has been initialised or detached.
LEMMA InitKeeps == Init => Inv
<1> SUFFICES ASSUME Init PROVE Inv
  OBVIOUS
<1>1. Typed /\ Modes
  <2>1. window \in Model!Windows /\ Len(window) = 0
    BY EmptyWindow, EmptySeq DEF Init
  <2>2. call \in [byte : Byte, n : 0 .. Depth + 1] /\ call.n = 0
    BY IdleIs DEF Init
  <2>3. call.n <= Len(window) + 1
    BY <2>1, <2>2
  <2>4. build \in Builds /\ frozen = FALSE /\ live = "none"
    BY DEF Init
  <2> QED
    BY <2>1, <2>2, <2>3, <2>4 DEF Typed, Modes
<1>2. Nothing /\ Own /\ Files /\ live = "none"
  BY DEF Init, Nothing, Own, Files, NewTable
<1> QED
  BY <1>1, <1>2 DEF Inv

\* bt_train_byte starts: it empties the caches and notes the byte.
LEMMA TrainKeeps ==
    ASSUME Inv, build' = build, NEW b \in Byte, Train(b)
    PROVE  Inv'
<1>1. AsIs /\ frozen' = frozen /\ live # "none" /\ call.n = 0
  BY DEF Train, AsIs
<1>2. Tabled'
  BY <1>1, TabledSame DEF Inv, Tabled
<1>3. Len(window) \in Nat /\ Depth \in Nat \ {0}
  BY WindowIs, ContextsAssumption DEF Inv, Typed
<1>4. Typed' /\ Modes'
  <2>1. CASE frozen
    <3>1. window' \in Model!Windows /\ call' = call
      BY <2>1, PushWindow DEF Train, Inv, Typed
    <3>2. Len(window') \in Nat
      BY <3>1, WindowIs, <1>3
    <3>3. call'.n <= Len(window') + 1
      BY <1>1, <3>1, <3>2
    <3>4. Typed'
      BY <1>1, <3>1, <3>3 DEF Inv, Typed, AsIs
    <3>5. Modes'
      BY <1>1, <3>1 DEF Inv, Modes, AsIs
    <3> QED
      BY <3>4, <3>5
  <2>2. CASE ~frozen
    <3>1. call' = [byte |-> b, n |-> 1] /\ window' = window /\ 1 \in 0 .. Depth + 1
      BY <1>3, <2>2 DEF Train
    <3>2. call' \in [byte : Byte, n : 0 .. Depth + 1] /\ call'.n <= Len(window') + 1
      <4>1. call'.n = 1 /\ [byte |-> b, n |-> 1] \in [byte : Byte, n : 0 .. Depth + 1]
        BY <3>1
      <4>2. 1 <= Len(window) + 1
        BY <1>3
      <4> QED
        BY <3>1, <4>1, <4>2
    <3>3. live' = "own" /\ frozen' = FALSE
      BY <1>1, <2>2 DEF Inv, Typed, Modes, AsIs
    <3>4. Typed'
      BY <1>1, <3>1, <3>2, <3>3 DEF Inv, Typed
    <3>5. Modes'
      BY <3>3 DEF Modes
    <3> QED
      BY <3>4, <3>5
  <2> QED
    BY <2>1, <2>2
<1> QED
  BY <1>2, <1>4 DEF Inv, Tabled

\* One pass of its loop over the suffixes of the window.
LEMMA UpdateKeeps ==
    ASSUME Inv, build' = build, Update
    PROVE  Inv'
<1> DEFINE ctx == Suffix(window, call.n)
           b == call.byte
<1>1. /\ live = "own" /\ BtOK(bt) /\ CtxsOK(ctxs) /\ HomedOrFull
      /\ Readable(Snap) /\ window \in Model!Windows /\ b \in Byte /\ call.n \in 1 .. Len(window)
  BY WindowIs DEF Update, Inv, Typed, Modes, Own
<1>2. build \in BuildType
  BY BuildIs DEF Inv, Typed
<1>3. /\ ctx \in Contexts /\ BtOK(bt') /\ CtxsOK(ctxs')
      /\ \/ Lost(ctx, b) \/ Stray(ctx, b) \/ NewStray(ctx, b)
         \/ \E ds : Homes(ds, ctx) /\ (SeenAgain(ctx, b, ds) \/ SeenFirst(ctx, b, ds))
  BY <1>1, <1>2, UpdateOutcome
<1>4. Data(bt.pool, ctxs.pool) /\ Filtered(bloom, ctxs.pool)
  BY <1>1 DEF Readable, Snap
<1>5. ctxs.cap \in Nat
  BY <1>1 DEF CtxsOK, Tables
<1> HIDE DEF ctx, b
<1>6. Data(bt'.pool, ctxs'.pool) /\ HomedOrFull' /\ WithCtx(ctx)
  BY <1>1, <1>3, <1>4, <1>5, UpdateData
<1>7. bloom' = bloom \cup BloomBits[CtxHash[ctx]]
  BY DEF Update, ctx
<1>8. Readable(Snap)'
  <2>1. Filtered(bloom', ctxs'.pool)
    BY <1>4, <1>6, <1>7 DEF WithCtx
  <2>2. CtxsIndexed(ctxs'.slot, ctxs'.pool)
    BY <1>3 DEF CtxsOK
  <2>3. Data(bt.pool, ctxs.pool)' /\ CtxsIndexed(ctxs.slot, ctxs.pool)'
    BY <1>6, <2>2 DEF Data, CtxsIndexed
  <2> QED
    BY <2>1, <2>3 DEF Readable, Snap
<1>9. Own'
  <2>1. BtOK(bt)' /\ CtxsOK(ctxs)'
    BY <1>3 DEF BtOK, CtxsOK, Room, CtxsIndexed
  <2> QED
    BY <1>6, <2>1 DEF Own
<1>10. Typed' /\ Modes' /\ Nothing' /\ Files'
  <2>1. /\ call' = [call EXCEPT !.n = @ + 1] /\ window' = window /\ frozen' = frozen
        /\ live' = live /\ file' = file
    BY DEF Update
  <2>2. Len(window) \in 0 .. Depth /\ Depth \in Nat
    BY <1>1, WindowIs, ContextsAssumption
  <2>3. call' \in [byte : Byte, n : 0 .. Depth + 1] /\ call'.n <= Len(window) + 1
    BY <1>1, <2>1, <2>2 DEF Inv, Typed
  <2>4. Typed' /\ Modes' /\ Nothing'
    BY <1>1, <2>1, <2>3 DEF Inv, Typed, Modes, Nothing
  <2>5. Files'
    BY <2>1 DEF Inv, Files, Readable, Data, CtxsIndexed
  <2> QED
    BY <2>4, <2>5
<1> QED
  BY <1>8, <1>9, <1>10 DEF Inv

\* It ends by pushing the byte into the window.
LEMMA TrainEndKeeps ==
    ASSUME Inv, build' = build, TrainEnd
    PROVE  Inv'
<1>1. Tabled'
  BY TabledSame DEF Inv, Tabled, TrainEnd, AsIs
<1>2. window' \in Model!Windows /\ call' = Model!Idle /\ frozen' = frozen /\ live' = live
  BY PushWindow DEF TrainEnd, Inv, Typed
<1>3. Len(window') \in Nat
  BY <1>2, WindowIs, ContextsAssumption
<1> QED
  BY <1>1, <1>2, <1>3, IdleIs DEF Inv, Tabled, Typed, Modes

\* bt_init makes empty tables of the library's own.
LEMMA BtInitKeeps ==
    ASSUME Inv, build' = build, BtInit
    PROVE  Inv'
<1> DEFINE t == NewTable(build.poolCap, build.btSlots)
           u == NewTable(build.ctxCap, build.ctxSlots)
<1>1. /\ t.pool = <<>> /\ u.pool = <<>> /\ BtOK(t) /\ CtxsOK(u)
      /\ Data(<<>>, <<>>) /\ AllHomed(<<>>, <<>>) /\ Filtered({}, <<>>)
  BY BuildIs, NewTableOK DEF Inv, Typed
<1>2. /\ bt' = t /\ ctxs' = u /\ bloom' = {} /\ window' = <<>> /\ frozen' = FALSE
      /\ live' = "own" /\ call' = call /\ file' = file /\ call.n = 0
  BY DEF BtInit
<1> HIDE DEF t, u
<1>3. Typed' /\ Modes' /\ Nothing'
  <2>1. window' \in Model!Windows /\ Len(window') = 0
    BY <1>2, EmptyWindow, EmptySeq
  <2>2. call'.n <= Len(window') + 1
    BY <1>2, <2>1
  <2> QED
    BY <1>2, <2>1, <2>2 DEF Inv, Typed, Modes, Nothing
<1>4. Files'
  BY <1>2 DEF Inv, Files, Readable, Data, CtxsIndexed
<1>5. Own'
  <2>1. BtOK(bt)' /\ CtxsOK(ctxs)'
    BY <1>1, <1>2 DEF BtOK, CtxsOK, Room, CtxsIndexed
  <2>2. HomedOrFull'
    BY <1>1, <1>2 DEF HomedOrFull
  <2> QED
    BY <2>1, <2>2 DEF Own
<1>6. Readable(Snap)'
  <2>1. Data(bt.pool, ctxs.pool)' /\ Filtered(bloom, ctxs.pool)'
    BY <1>1, <1>2 DEF Data
  <2>2. CtxsIndexed(ctxs.slot, ctxs.pool)'
    BY <1>1, <1>2 DEF CtxsOK, CtxsIndexed
  <2> QED
    BY <2>1, <2>2 DEF Readable, Snap
<1> QED
  BY <1>3, <1>4, <1>5, <1>6 DEF Inv

\* bt_freeze changes nothing but the flag.
LEMMA FreezeKeeps ==
    ASSUME Inv, build' = build, Freeze
    PROVE  Inv'
<1>1. Tabled'
  BY TabledSame DEF Inv, Tabled, Freeze, AsIs
<1> QED
  BY <1>1 DEF Freeze, Inv, Tabled, Typed, Modes

\* Setting the window touches no table.
LEMMA SetWindowKeeps ==
    ASSUME Inv, build' = build, NEW w \in WindowsSet, SetWindow(w)
    PROVE  Inv'
<1>1. Tabled'
  BY TabledSame DEF Inv, Tabled, SetWindow, AsIs
<1>2. window' \in Model!Windows /\ Len(window') \in Nat
  BY WindowIs, ContextsAssumption DEF SetWindow
<1> QED
  BY <1>1, <1>2 DEF SetWindow, Inv, Tabled, Typed, Modes

\* What save writes is readable, whatever the tables become later.
LEMMA SaveKeeps ==
    ASSUME Inv, build' = build, Save
    PROVE  Inv'
<1> DEFINE s == [pool |-> bt.pool, ctxPool |-> ctxs.pool, ctxSlot |-> ctxs.slot,
                 bloom |-> bloom, window |-> window]
<1>1. file' = {s} /\ live # "none" /\ UNCHANGED <<bt, ctxs, bloom, window, call, frozen, live>>
  BY DEF Save
<1>2. Readable(s)' /\ s.window \in Model!Windows
  BY <1>1 DEF Inv, Typed, Readable, Snap, Data, CtxsIndexed
<1>3. Files'
  BY <1>1, <1>2 DEF Files, Readable, Data, CtxsIndexed
<1>4. Typed' /\ Modes' /\ Nothing'
  BY <1>1 DEF Inv, Typed, Modes, Nothing
<1>5. Own'
  BY <1>1 DEF Inv, Own, BtOK, CtxsOK, Room, CtxsIndexed, HomedOrFull, Size
<1>6. Readable(Snap)'
  BY <1>1 DEF Inv, Readable, Snap, Data, CtxsIndexed
<1> QED
  BY <1>3, <1>4, <1>5, <1>6 DEF Inv

\* Attaching puts what is in the file in the place of the tables.
LEMMA AttachKeeps ==
    ASSUME Inv, build' = build, Attach
    PROVE  Inv'
<1>1. PICK s \in file :
         /\ bt' = [pool |-> s.pool, cap |-> Len(s.pool), slot |-> NoSlots(0)]
         /\ ctxs' = [pool |-> s.ctxPool, cap |-> Len(s.ctxPool), slot |-> s.ctxSlot]
         /\ bloom' = s.bloom /\ window' = s.window
  BY DEF Attach
<1>2. /\ call.n = 0 /\ frozen' = TRUE /\ live' = "attached" /\ call' = call /\ file' = file
  BY DEF Attach
<1>3. Readable(s) /\ s.window \in Model!Windows
  BY DEF Inv, Files
<1>4. Typed' /\ Modes' /\ Nothing' /\ Own'
  <2>1. window' \in Model!Windows /\ Len(window') \in Nat
    BY <1>1, <1>3, WindowIs, ContextsAssumption
  <2> QED
    BY <1>2, <2>1 DEF Inv, Typed, Modes, Nothing, Own
<1>5. Files'
  BY <1>2 DEF Inv, Files, Readable, Data, CtxsIndexed
<1>6. Readable(Snap)'
  <2>1. bt'.pool = s.pool /\ ctxs'.pool = s.ctxPool /\ ctxs'.slot = s.ctxSlot
    BY <1>1
  <2> QED
    BY <1>1, <1>3, <2>1 DEF Readable, Snap, Data, CtxsIndexed
<1> QED
  BY <1>4, <1>5, <1>6 DEF Inv

\* Detaching leaves no tables.
LEMMA DetachKeeps ==
    ASSUME Inv, build' = build, Detach
    PROVE  Inv'
<1>1. /\ call.n = 0 /\ frozen' = FALSE /\ live' = "none" /\ call' = call /\ file' = file
      /\ window' = window /\ bt'.pool = <<>> /\ ctxs'.pool = <<>>
  BY DEF Detach, NewTable
<1>2. Typed' /\ Modes' /\ Nothing' /\ Own'
  BY <1>1 DEF Inv, Typed, Modes, Nothing, Own
<1>3. Files'
  BY <1>1 DEF Inv, Files, Readable, Data, CtxsIndexed
<1> QED
  BY <1>1, <1>2, <1>3 DEF Inv

\* The invariant holds of every behaviour.
THEOREM BtInv == Spec => []Inv
<1>1. Inv /\ [Next]_vars => Inv'
  <2> SUFFICES ASSUME Inv, [Next]_vars PROVE Inv'
    OBVIOUS
  <2>1. CASE Next
    <3>1. build' = build
      BY <2>1 DEF Next
    <3> QED
      BY <2>1, <3>1, TrainKeeps, UpdateKeeps, TrainEndKeeps, BtInitKeeps, FreezeKeeps,
         SetWindowKeeps, SaveKeeps, AttachKeeps, DetachKeeps DEF Next, Training
  <2>2. CASE UNCHANGED vars
    <3>1. AsIs /\ window' = window /\ call' = call /\ frozen' = frozen
      BY <2>2 DEF vars, AsIs
    <3>2. Tabled'
      BY <3>1, TabledSame DEF Inv, Tabled
    <3> QED
      BY <3>1, <3>2 DEF AsIs, Inv, Tabled, Typed, Modes
  <2> QED
    BY <2>1, <2>2
<1> QED
  BY InitKeeps, <1>1, PTL DEF Spec

-----------------------------------------------------------------------------
(***************************************************************************)
(* What follows from it for the properties of the runs.                    *)
(***************************************************************************)

\* The pools, of a model or of none.
LEMMA PoolsTyped ==
    ASSUME Inv
    PROVE  /\ bt.pool \in Seq(Entry) /\ ctxs.pool \in Seq(CtxEntry)
           /\ DOMAIN bt.pool = 1 .. Len(bt.pool) /\ DOMAIN ctxs.pool = 1 .. Len(ctxs.pool)
           /\ live = "none" => Len(bt.pool) = 0 /\ Len(ctxs.pool) = 0
<1>1. CASE live = "none"
  <2>1. bt.pool = <<>> /\ ctxs.pool = <<>>
    BY <1>1 DEF Inv, Nothing
  <2> QED
    BY <2>1, EmptySeq
<1>2. CASE live # "none"
  <2>1. bt.pool \in Seq(Entry) /\ ctxs.pool \in Seq(CtxEntry)
    BY <1>2 DEF Inv, Readable, Snap, Data, Pools
  <2> QED
    BY <1>2, <2>1, LenProperties
<1> QED
  BY <1>1, <1>2

(***************************************************************************)
(* Type correctness: the entries of the pools, the window, the running     *)
(* call and the flags keep their types.                                    *)
(***************************************************************************)
THEOREM TypeSafe == Spec => []BtTypeOK
<1>1. Inv => BtTypeOK
  <2> SUFFICES ASSUME Inv PROVE BtTypeOK
    OBVIOUS
  <2>1. \A i \in DOMAIN bt.pool : bt.pool[i] \in Entry
    BY PoolsTyped, EntryFields
  <2>2. \A c \in DOMAIN ctxs.pool : ctxs.pool[c] \in CtxEntry
    BY PoolsTyped, CtxEntryFields
  <2>3. Cardinality(file) <= 1
    <3>1. Cardinality(file) = 0 \/ Cardinality(file) = 1
      BY FS_EmptySet, FS_Singleton DEF Inv, Files
    <3> QED
      BY <3>1
  <2> QED
    BY <2>1, <2>2, <2>3 DEF BtTypeOK, Inv, Typed, Entry, CtxEntry
<1> QED
  BY BtInv, <1>1, PTL

(***************************************************************************)
(* Probes end: unless realloc fails, the slots of a model that is trained  *)
(* or attached are never full.                                             *)
(***************************************************************************)
THEOREM SlotsFreeSafe == Spec => []SlotsFree
<1>1. Inv => SlotsFree
  <2> SUFFICES ASSUME Inv, ~build.reallocFails PROVE SlotsNeverFull
    BY DEF SlotsFree
  <2>1. ASSUME live = "own" PROVE \E h \in DOMAIN bt.slot : bt.slot[h] = Empty
    <3> DEFINE n == Size(bt)
               m == Len(bt.pool)
               hs == KeyHashes(bt.pool)
    <3>1. bt \in Tables(Entry, n) /\ Room(bt) /\ Indexed(bt.slot, n, hs, m)
      BY <2>1 DEF Inv, Own, BtOK
    <3>2. n \in Nat /\ m \in Nat
      BY <3>1 DEF Indexed
    <3>3. m < n /\ DOMAIN bt.slot = 0 .. n - 1
      <4>1. bt.cap \in Nat /\ DOMAIN bt.slot = 0 .. n - 1
        BY <3>1, <3>2, TableSize
      <4>2. m <= bt.cap /\ bt.cap < n
        BY <3>1 DEF Room
      <4> QED
        BY <3>2, <4>1, <4>2
    <3> HIDE DEF n, m, hs
    <3>4. \E h \in 0 .. n - 1 : bt.slot[h] = Empty
      BY <3>1, <3>3, SlotRemains
    <3> QED
      BY <3>3, <3>4
  <2>2. ASSUME live # "none" PROVE \E h \in DOMAIN ctxs.slot : ctxs.slot[h] = Empty
    <3> DEFINE n == Cardinality(DOMAIN ctxs.slot)
               m == Len(ctxs.pool)
               hs == Hashes(ctxs.pool)
    <3>1. Indexed(ctxs.slot, n, hs, m) /\ m < n
      BY <2>2 DEF Inv, Readable, Snap, CtxsIndexed
    <3>2. DOMAIN ctxs.slot = 0 .. n - 1
      BY <3>1 DEF Indexed
    <3> HIDE DEF n, m, hs
    <3>3. \E h \in 0 .. n - 1 : ctxs.slot[h] = Empty
      BY <3>1, SlotRemains
    <3> QED
      BY <3>2, <3>3
  <2> QED
    BY <2>1, <2>2 DEF SlotsNeverFull
<1> QED
  BY BtInv, <1>1, PTL

(***************************************************************************)
(* The totals bt_v3_distribution_r divides by: unless realloc fails each   *)
(* is the sum of the frequencies on its chain, with the length of the      *)
(* chain beside it; and never, not even then, is it less than that sum.    *)
(***************************************************************************)
THEOREM TotalsExactSafe == Spec => []TotalsExact
<1>1. Inv => TotalsExact
  <2> SUFFICES ASSUME Inv, ~build.reallocFails, NEW i \in DOMAIN ctxs.pool
               PROVE  /\ ctxs.pool[i].total = Summed(bt.pool, ctxs.pool[i].first)
                      /\ ctxs.pool[i].unique = Cardinality(Chain(bt.pool, ctxs.pool[i].first))
    BY DEF TotalsExact
  <2>1. i \in 1 .. Len(ctxs.pool) /\ live # "none"
    BY PoolsTyped
  <2>2. Exact(bt.pool, ctxs.pool)
    BY <2>1 DEF Inv, Readable, Snap, Data
  <2> QED
    BY <2>1, <2>2 DEF Exact
<1> QED
  BY BtInv, <1>1, PTL

\* No probability exceeds one, also where realloc fails.
THEOREM TotalsBoundSafe == Spec => []TotalsBound
<1>1. Inv => TotalsBound
  <2> SUFFICES ASSUME Inv, NEW i \in DOMAIN ctxs.pool
               PROVE  Summed(bt.pool, ctxs.pool[i].first) <= ctxs.pool[i].total
    BY DEF TotalsBound
  <2>1. i \in 1 .. Len(ctxs.pool) /\ live # "none"
    BY PoolsTyped
  <2>2. Bounded(bt.pool, ctxs.pool)
    BY <2>1 DEF Inv, Readable, Snap, Data
  <2> QED
    BY <2>1, <2>2 DEF Bounded
<1> QED
  BY BtInv, <1>1, PTL

\* Each entry met on the chains of what is readable has one predecessor.
LEMMA MetOnceHolds ==
    ASSUME NEW s, Pools(s.pool, s.ctxPool)
    PROVE  MetOnce(s)
<1> DEFINE p == s.pool
           cs == s.ctxPool
           met == UNION {Chain(p, cs[c].first) : c \in DOMAIN cs}
           firsts(i) == {c \in DOMAIN cs : cs[c].first = i}
           links(i) == {j \in met : p[j].link = i}
<1>1. /\ p \in Seq(Entry) /\ cs \in Seq(CtxEntry) /\ LinksDown(p) /\ FirstsIn(p, cs)
      /\ LinkedOnce(p, cs) /\ CtxsOnce(cs) /\ DOMAIN cs = 1 .. Len(cs)
  BY LenProperties DEF Pools
<1>2. \A c \in 1 .. Len(cs) : \A i \in Chain(p, cs[c].first) : i \in 1 .. Len(p)
  BY ChainOwn
<1>3. met \subseteq 1 .. Len(p)
  BY <1>1, <1>2
<1>4. ASSUME NEW i \in met PROVE Cardinality(firsts(i)) + Cardinality(links(i)) = 1
  <2>1. i \in 1 .. Len(p) /\ i # Empty
    <3>1. i \in 1 .. Len(p)
      BY <1>3, <1>4
    <3> QED
      BY <3>1 DEF Empty
  <2>2. PICK c \in 1 .. Len(cs) : i \in Chain(p, cs[c].first)
    BY <1>1
  <2>3. cs[c].first \in 0 .. Len(p)
    BY <1>1 DEF FirstsIn
  <2>4. CASE i = cs[c].first
    <3>1. firsts(i) = {c}
      <4>1. ASSUME NEW d \in 1 .. Len(cs), cs[d].first = i PROVE d = c
        <5>1. cs[d].ctx = p[i].ctx /\ cs[c].ctx = p[i].ctx
          BY <1>1, <2>1, <2>4, <4>1 DEF FirstsIn
        <5> QED
          BY <1>1, <5>1 DEF CtxsOnce
      <4> QED
        BY <1>1, <2>4, <4>1
    <3>2. links(i) = {}
      BY <1>1, <1>3, <2>1, <2>4 DEF LinkedOnce
    <3>3. Cardinality(firsts(i)) = 1 /\ Cardinality(links(i)) = 0
      BY <3>1, <3>2, FS_EmptySet, FS_Singleton
    <3> QED
      BY <3>3
  <2>5. CASE i # cs[c].first
    <3>1. PICK j \in Chain(p, cs[c].first) : p[j].link = i
      BY <1>1, <2>2, <2>3, <2>5, ChainBelow
    <3>2. j \in met /\ j \in 1 .. Len(p)
      BY <1>1, <1>2
    <3>3. firsts(i) = {}
      BY <1>1, <2>1, <3>1, <3>2 DEF LinkedOnce
    <3>4. links(i) = {j}
      <4>1. ASSUME NEW k \in met, p[k].link = i PROVE k = j
        BY <1>1, <1>3, <2>1, <3>1, <3>2, <4>1 DEF LinkedOnce
      <4> QED
        BY <3>1, <3>2, <4>1
    <3>5. Cardinality(firsts(i)) = 0 /\ Cardinality(links(i)) = 1
      BY <3>3, <3>4, FS_EmptySet, FS_Singleton
    <3> QED
      BY <3>5
  <2> QED
    BY <2>4, <2>5
<1> QED
  BY <1>4 DEF MetOnce

(***************************************************************************)
(* What the library saves, it opens: unless realloc fails bt_v3_validate   *)
(* accepts every file written by the save functions.                       *)
(***************************************************************************)
THEOREM SavedOpensSafe == Spec => []SavedOpens
<1>1. Inv => SavedOpens
  <2> SUFFICES ASSUME Inv, ~build.reallocFails, NEW s \in file PROVE Valid(s)
    BY DEF SavedOpens
  <2> DEFINE n == Cardinality(DOMAIN s.ctxSlot)
             m == Len(s.ctxPool)
             hs == Hashes(s.ctxPool)
  <2>1. Readable(s)
    BY DEF Inv, Files
  <2>2. Indexed(s.ctxSlot, n, hs, m) /\ IsPowerOfTwo(n) /\ m < n
    BY <2>1 DEF Readable, CtxsIndexed
  <2>3. /\ s.pool \in Seq(Entry) /\ s.ctxPool \in Seq(CtxEntry) /\ LinksDown(s.pool)
        /\ FirstsIn(s.pool, s.ctxPool) /\ Pools(s.pool, s.ctxPool)
    BY <2>1 DEF Readable, Data, Pools
  <2>4. /\ DOMAIN s.pool = 1 .. Len(s.pool) /\ Len(s.pool) \in Nat
        /\ DOMAIN s.ctxPool = 1 .. m /\ m \in Nat
    BY <2>3, LenProperties
  <2>5. s.ctxSlot \in [0 .. n - 1 -> 0 .. m]
    BY <2>2 DEF Indexed
  <2>6. SlotsInRange(s)
    <3>1. \A x \in 0 .. m : x = Empty \/ x \in 1 .. m
      BY <2>4 DEF Empty
    <3> QED
      BY <2>2, <2>4, <2>5, <3>1 DEF SlotsInRange
  <2>7. SlotLeftEmpty(s)
    <3> HIDE DEF n, m, hs
    <3>1. \E h \in 0 .. n - 1 : s.ctxSlot[h] = Empty
      BY <2>2, SlotRemains
    <3> QED
      BY <2>5, <3>1 DEF SlotLeftEmpty
  <2>8. EntriesInRange(s)
    <3>1. ASSUME NEW c \in 1 .. m
          PROVE  s.ctxPool[c].ctx \in Contexts /\ s.ctxPool[c].first \in {Empty} \cup 1 .. Len(s.pool)
      BY <2>3, <2>4, CtxEntryFields DEF FirstsIn, Empty
    <3>2. ASSUME NEW i \in 1 .. Len(s.pool)
          PROVE  s.pool[i].ctx \in Contexts /\ s.pool[i].link \in {Empty} \cup 1 .. Len(s.pool)
      <4>1. s.pool[i].link \in 0 .. i - 1
        BY <2>3, ChainStep
      <4> QED
        BY <2>3, <2>4, <4>1, EntryFields DEF Empty
    <3> QED
      BY <2>4, <3>1, <3>2 DEF EntriesInRange
  <2> QED
    BY <2>3, <2>6, <2>7, <2>8, MetOnceHolds DEF Valid
<1> QED
  BY BtInv, <1>1, PTL

(***************************************************************************)
(* Where the pools can grow and realloc does not fail, each pool entry is  *)
(* on the chain of exactly one context.                                    *)
(***************************************************************************)
THEOREM OnOneChainSafe == Spec => []OnOneChain
<1>1. Inv => OnOneChain
  <2> SUFFICES ASSUME Inv, build.dynamic, ~build.reallocFails, NEW i \in DOMAIN bt.pool
               PROVE  Cardinality({c \in DOMAIN ctxs.pool :
                                     i \in Chain(bt.pool, ctxs.pool[c].first)}) = 1
    BY DEF OnOneChain
  <2> DEFINE p == bt.pool
             cs == ctxs.pool
             owners == {c \in DOMAIN cs : i \in Chain(p, cs[c].first)}
  <2>1. i \in 1 .. Len(p) /\ live # "none" /\ DOMAIN cs = 1 .. Len(cs)
    BY PoolsTyped
  <2>2. Pools(p, cs) /\ AllLinked(p, cs) /\ AllHomed(p, cs)
    BY <2>1 DEF Inv, Readable, Snap, Data
  <2>3. PICK c \in 1 .. Len(cs) : cs[c].ctx = p[i].ctx
    BY <2>1, <2>2 DEF AllHomed
  <2>4. i \in Chain(p, cs[c].first)
    BY <2>1, <2>2, <2>3 DEF AllLinked
  <2>5. \A d \in 1 .. Len(cs) : i \in Chain(p, cs[d].first) => d = c
    BY <2>2, <2>4, OneOwner
  <2>6. owners = {c}
    BY <2>1, <2>4, <2>5
  <2> QED
    BY <2>6, FS_Singleton
<1> QED
  BY BtInv, <1>1, PTL

-----------------------------------------------------------------------------
(***************************************************************************)
(* What a reader finds.  On says that entry i counts byte b after a        *)
(* context and is on the context's chain; Times is what it counts.         *)
(***************************************************************************)
On(p, cs, ctx, b, i) ==
    /\ i \in 1 .. Len(p) /\ p[i].ctx = ctx /\ p[i].next = b
    /\ \E c \in 1 .. Len(cs) : cs[c].ctx = ctx /\ i \in Chain(p, cs[c].first)

Times(p, cs, ctx, b) ==
    IF \E i : On(p, cs, ctx, b, i) THEN p[CHOOSE i : On(p, cs, ctx, b, i)].freq ELSE 0

\* There is one such entry at most.
LEMMA TimesIs ==
    ASSUME NEW p, KeysOnce(p), NEW cs, NEW ctx, NEW b
    PROVE  /\ \A i : On(p, cs, ctx, b, i) => Times(p, cs, ctx, b) = p[i].freq
           /\ (\A i : ~On(p, cs, ctx, b, i)) => Times(p, cs, ctx, b) = 0
<1>1. ASSUME NEW i, On(p, cs, ctx, b, i) PROVE Times(p, cs, ctx, b) = p[i].freq
  <2>1. \A j : On(p, cs, ctx, b, j) => j = i
    BY <1>1 DEF On, KeysOnce
  <2> DEFINE j == CHOOSE k : On(p, cs, ctx, b, k)
  <2>2. On(p, cs, ctx, b, j)
    BY <1>1
  <2>3. j = i
    BY <2>1, <2>2
  <2>4. Times(p, cs, ctx, b) = p[j].freq
    BY <1>1 DEF Times
  <2> QED
    BY <2>3, <2>4
<1>2. (\A i : ~On(p, cs, ctx, b, i)) => Times(p, cs, ctx, b) = 0
  BY DEF Times
<1> QED
  BY <1>1, <1>2

\* The entry a reader finds for a context is the context's.
LEMMA FoundIs ==
    ASSUME NEW s, Readable(s), NEW ctx \in Contexts
    PROVE  /\ NoCtx(s.ctxPool, ctx) => Found(s, ctx) = Empty
           /\ \A c \in 1 .. Len(s.ctxPool) : s.ctxPool[c].ctx = ctx => Found(s, ctx) = c
<1> DEFINE cs == s.ctxPool
           m == Len(cs)
           slot == s.ctxSlot
           n == Cardinality(DOMAIN slot)
           hs == Hashes(cs)
           hash == CtxHash[ctx]
           hits == {i \in DOMAIN cs : cs[i].ctx = ctx}
<1>1. Indexed(slot, n, hs, m) /\ Filtered(s.bloom, cs) /\ cs \in Seq(CtxEntry) /\ CtxsOnce(cs)
  BY DEF Readable, CtxsIndexed, Data, Pools
<1>2. DOMAIN cs = 1 .. m /\ n \in Nat \ {0} /\ DOMAIN slot = 0 .. n - 1
  BY <1>1, LenProperties DEF Indexed
<1>3. hash \in Nat
  BY HashAssumption
<1>4. hits \in SUBSET (1 .. m) /\ \A i \in hits : hs[i] = hash
  BY <1>2 DEF Hashes
<1>5. hits = {i \in 1 .. m : cs[i].ctx = ctx}
  BY <1>2
<1>6. Found(s, ctx) = IF BloomBits[hash] \subseteq s.bloom /\ ProbeEnds(slot, hits)
                      THEN slot[Probe(slot, hash, hits)] ELSE Empty
  BY DEF Found
<1> HIDE DEF n, hs, hash, hits
<1>7. ASSUME ProbeEnds(slot, hits)
      PROVE  /\ hits = {} => slot[Probe(slot, hash, hits)] = Empty
             /\ hits # {} => slot[Probe(slot, hash, hits)] \in hits
  BY <1>1, <1>3, <1>4, <1>7, ProbeFinds
<1>8. NoCtx(cs, ctx) => Found(s, ctx) = Empty
  <2> SUFFICES ASSUME NoCtx(cs, ctx) PROVE Found(s, ctx) = Empty
    OBVIOUS
  <2>1. hits = {}
    BY <1>5 DEF NoCtx
  <2> QED
    BY <1>6, <1>7, <2>1
<1>9. ASSUME NEW c \in 1 .. m, cs[c].ctx = ctx PROVE Found(s, ctx) = c
  <2>1. hits = {c}
    BY <1>1, <1>5, <1>9 DEF CtxsOnce
  <2>2. BloomBits[hash] \subseteq s.bloom
    BY <1>1, <1>9 DEF Filtered, hash
  <2>3. ProbeEnds(slot, hits)
    <3>1. PICK d \in 0 .. n - 1 : slot[Nth(hs[c] % n, d, n)] = c
      BY <1>1 DEF Indexed, Findable
    <3>2. hs[c] \in Nat
      BY <1>1 DEF Indexed
    <3>3. hs[c] % n \in 0 .. n - 1
      BY <1>2, <3>2
    <3>4. Nth(hs[c] % n, d, n) \in 0 .. n - 1
      BY <1>2, <3>3, NthRound
    <3> QED
      BY <1>2, <2>1, <3>1, <3>4 DEF ProbeEnds
  <2> QED
    BY <1>6, <1>7, <2>1, <2>2, <2>3
<1> QED
  BY <1>8, <1>9

\* A reader is told how often each byte was counted after a context.
LEMMA FreqsAre ==
    ASSUME NEW s, Readable(s), NEW ctx \in Contexts
    PROVE  Freqs(s, ctx) = [b \in Byte |-> Times(s.pool, s.ctxPool, ctx, b)]
<1> DEFINE p == s.pool
           cs == s.ctxPool
<1>1. Pools(p, cs) /\ KeysOnce(p) /\ CtxsOnce(cs)
  BY DEF Readable, Data, Pools
<1>2. CASE NoCtx(cs, ctx)
  <2>1. Freqs(s, ctx) = Unseen
    BY <1>2, FoundIs DEF Freqs
  <2>2. \A b \in Byte : Times(p, cs, ctx, b) = 0
    <3>1. \A b, i : ~On(p, cs, ctx, b, i)
      BY <1>2 DEF NoCtx, On
    <3> QED
      BY <1>1, <3>1, TimesIs
  <2> QED
    BY <2>1, <2>2 DEF Unseen
<1>3. CASE ~NoCtx(cs, ctx)
  <2>1. PICK c \in 1 .. Len(cs) : cs[c].ctx = ctx
    BY <1>3 DEF NoCtx
  <2>2. Found(s, ctx) = c /\ c # Empty
    BY <2>1, FoundIs DEF Empty
  <2> DEFINE chain == Chain(p, cs[c].first)
  <2>3. Freqs(s, ctx) = [b \in Byte |-> FreqOn(p, chain, b)]
    BY <2>2 DEF Freqs
  <2>4. ASSUME NEW b \in Byte PROVE FreqOn(p, chain, b) = Times(p, cs, ctx, b)
    <3> DEFINE met == {i \in chain : p[i].next = b}
    <3>1. \A i : i \in met <=> On(p, cs, ctx, b, i)
      <4>1. \A i \in chain : i \in 1 .. Len(p) /\ p[i].ctx = ctx
        BY <1>1, <2>1, ChainOwn
      <4>2. \A d \in 1 .. Len(cs) : cs[d].ctx = ctx => d = c
        BY <1>1, <2>1 DEF CtxsOnce
      <4> QED
        BY <2>1, <4>1, <4>2 DEF On
    <3>2. CASE met = {}
      <4>1. FreqOn(p, chain, b) = 0
        BY <3>2 DEF FreqOn
      <4>2. \A i : ~On(p, cs, ctx, b, i)
        BY <3>1, <3>2
      <4> QED
        BY <1>1, <4>1, <4>2, TimesIs
    <3>3. ASSUME NEW i \in met PROVE FreqOn(p, chain, b) = Times(p, cs, ctx, b)
      <4>1. On(p, cs, ctx, b, i) /\ \A j \in met : j = i
        BY <1>1, <3>1, <3>3 DEF On, KeysOnce
      <4> DEFINE last == CHOOSE k \in met : \A j \in met \ {k} : k \in Chain(p, j)
      <4>2. last \in met
        <5>1. \A j \in met \ {i} : i \in Chain(p, j)
          BY <4>1
        <5> QED
          BY <3>3, <5>1
      <4>3. last = i
        BY <4>1, <4>2
      <4>4. FreqOn(p, chain, b) = p[last].freq
        BY <3>3 DEF FreqOn
      <4>5. Times(p, cs, ctx, b) = p[i].freq
        BY <1>1, <4>1, TimesIs
      <4> QED
        BY <4>3, <4>4, <4>5
    <3> QED
      BY <3>2, <3>3
  <2> HIDE DEF chain
  <2> QED
    BY <2>3, <2>4
<1> QED
  BY <1>2, <1>3

\* So the counts depend on the entries only.
LEMMA CountsAre ==
    ASSUME NEW s, Readable(s)
    PROVE  CountOf(s) = [ctx \in Contexts |-> [b \in Byte |-> Times(s.pool, s.ctxPool, ctx, b)]]
BY FreqsAre DEF CountOf

-----------------------------------------------------------------------------
(***************************************************************************)
(* What a step of a training does to the counts a reader is given.         *)
(***************************************************************************)
SameOn(p, cs, q, ds) == \A ctx, b, i : On(p, cs, ctx, b, i) <=> On(q, ds, ctx, b, i)

Alike(p, cs, q, ds) ==
    \A ctx \in Contexts, b \in Byte : Times(q, ds, ctx, b) = Times(p, cs, ctx, b)

Raised(p, cs, q, ds, ctx, b) ==
    \A x \in Contexts, y \in Byte :
       Times(q, ds, x, y) = Times(p, cs, x, y) + IF x = ctx /\ y = b THEN 1 ELSE 0

\* Counts are numbers.
LEMMA TimesNat ==
    ASSUME NEW p \in Seq(Entry), KeysOnce(p), NEW cs, NEW ctx, NEW b
    PROVE  Times(p, cs, ctx, b) \in Nat
<1>1. CASE \E i : On(p, cs, ctx, b, i)
  <2>1. PICK i : On(p, cs, ctx, b, i)
    BY <1>1
  <2>2. Times(p, cs, ctx, b) = p[i].freq /\ i \in 1 .. Len(p)
    BY <2>1, TimesIs DEF On
  <2> QED
    BY <2>2, EntryFields
<1>2. CASE ~\E i : On(p, cs, ctx, b, i)
  BY <1>2 DEF Times
<1> QED
  BY <1>1, <1>2

\* The same entries with the same frequencies count the same.
LEMMA SameTimes ==
    ASSUME NEW p, NEW cs, NEW q, NEW ds, KeysOnce(p), KeysOnce(q), SameOn(p, cs, q, ds),
           NEW ctx, NEW b, \A i : On(p, cs, ctx, b, i) => q[i].freq = p[i].freq
    PROVE  Times(q, ds, ctx, b) = Times(p, cs, ctx, b)
<1>1. CASE \E i : On(p, cs, ctx, b, i)
  <2>1. PICK i : On(p, cs, ctx, b, i)
    BY <1>1
  <2>2. On(q, ds, ctx, b, i)
    BY <2>1 DEF SameOn
  <2>3. Times(p, cs, ctx, b) = p[i].freq /\ Times(q, ds, ctx, b) = q[i].freq
    BY <2>1, <2>2, TimesIs
  <2> QED
    BY <2>1, <2>3
<1>2. CASE ~\E i : On(p, cs, ctx, b, i)
  <2>1. ~\E i : On(q, ds, ctx, b, i)
    BY <1>2 DEF SameOn
  <2> QED
    BY <1>2, <2>1 DEF Times
<1> QED
  BY <1>1, <1>2

\* Counting an entry once more puts none on a chain and takes none off.
LEMMA OnRecounted ==
    ASSUME NEW p \in Seq(Entry), LinksDown(p), NEW cs, FirstsIn(p, cs),
           NEW j \in 1 .. Len(p), NEW q, Recounted(p, q, j), NEW ds, Len(ds) = Len(cs),
           \A c \in 1 .. Len(cs) : ds[c].ctx = cs[c].ctx /\ ds[c].first = cs[c].first
    PROVE  SameOn(p, cs, q, ds)
<1>1. \A c \in 1 .. Len(cs) : Chain(q, ds[c].first) = Chain(p, cs[c].first)
  BY SumsRecounted DEF FirstsIn
<1>2. Len(q) = Len(p) /\ \A i \in 1 .. Len(p) : q[i].ctx = p[i].ctx /\ q[i].next = p[i].next
  BY DEF Recounted
<1> QED
  BY <1>1, <1>2 DEF SameOn, On

\* Nor does a new entry for a context.
LEMMA OnHomed ==
    ASSUME NEW p \in Seq(Entry), LinksDown(p), ctxs.pool \in Seq(CtxEntry), NEW ctx \in Contexts,
           NEW ds, Homes(ds, ctx)
    PROVE  SameOn(p, ctxs.pool, p, ds)
<1> DEFINE cs == ctxs.pool
<1>1. CASE ds = cs
  BY <1>1 DEF SameOn
<1>2. CASE ds = Append(cs, NewCtx(ctx))
  <2>1. NewCtx(ctx) \in CtxEntry /\ NewCtx(ctx).first = Empty
    BY DEF NewCtx, CtxEntry, Empty
  <2>2. /\ Len(ds) = Len(cs) + 1 /\ ds[Len(cs) + 1] = NewCtx(ctx) /\ Len(cs) \in Nat
        /\ \A c \in 1 .. Len(cs) : ds[c] = cs[c]
    BY <1>2, <2>1, AppendProperties, LenProperties
  <2>3. Chain(p, ds[Len(cs) + 1].first) = {}
    BY <2>1, <2>2, ChainStep
  <2> HIDE DEF cs
  <2>4. /\ \A c \in 1 .. Len(cs) : c \in 1 .. Len(ds)
        /\ \A c \in 1 .. Len(ds) : c \in 1 .. Len(cs) \/ c = Len(cs) + 1
    BY <2>2
  <2>5. ASSUME NEW x, NEW i
        PROVE  (\E c \in 1 .. Len(cs) : cs[c].ctx = x /\ i \in Chain(p, cs[c].first))
                 <=> \E c \in 1 .. Len(ds) : ds[c].ctx = x /\ i \in Chain(p, ds[c].first)
    BY <2>2, <2>3, <2>4
  <2> QED
    BY <2>5 DEF SameOn, On, cs
<1> QED
  BY <1>1, <1>2 DEF Homes

ButOne(cs, ds, c) == Len(ds) = Len(cs) /\ \A d \in 1 .. Len(cs) : d # c => ds[d] = cs[d]

\* A new pair is on its context's chain, if it has been put in front of it.
LEMMA OnAppended ==
    ASSUME NEW p \in Seq(Entry), LinksDown(p), NEW cs, FirstsIn(p, cs),
           NEW e \in Entry, NEW ds, NEW c \in 1 .. Len(cs), ButOne(cs, ds, c),
           cs[c].ctx = e.ctx, e.link = cs[c].first,
           ds[c].ctx = cs[c].ctx, ds[c].first = Len(p) + 1
    PROVE  \A x, y, i : On(Append(p, e), ds, x, y, i)
              <=> On(p, cs, x, y, i) \/ (i = Len(p) + 1 /\ x = e.ctx /\ y = e.next)
<1> DEFINE m == Len(p) + 1
           q == Append(p, e)
<1>1. Len(ds) = Len(cs) /\ \A d \in 1 .. Len(cs) : d # c => ds[d] = cs[d]
  BY DEF ButOne
<1>2. e.link <= Len(p) /\ Len(p) \in Nat
  <2>1. e.link \in 0 .. Len(p) /\ Len(p) \in Nat
    BY LenProperties DEF FirstsIn
  <2> QED
    BY <2>1
<1>3. /\ Len(q) = m /\ q[m] = e /\ \A i \in 1 .. Len(p) : q[i] = p[i]
      /\ \A f \in 0 .. Len(p) : Chain(q, f) = Chain(p, f)
      /\ Chain(q, m) = {m} \cup Chain(p, e.link)
  BY <1>2, SumsAppended
<1>4. \A d \in 1 .. Len(cs) : cs[d].first \in 0 .. Len(p)
  BY DEF FirstsIn
<1>5. \A d \in 1 .. Len(cs) : \A i \in Chain(p, cs[d].first) : i \in 1 .. Len(p)
  <2>1. \A f \in 0 .. Len(p) : \A i \in Chain(p, f) : i \in 1 .. f
    BY ChainBelow
  <2>2. \A f \in 0 .. Len(p) : \A i \in 1 .. f : i \in 1 .. Len(p)
    BY <1>2
  <2> QED
    BY <1>4, <2>1, <2>2
<1>6. /\ m \notin 1 .. Len(p) /\ m \in 1 .. m /\ \A i \in 1 .. Len(p) : i \in 1 .. m
      /\ \A i \in 1 .. m : i \in 1 .. Len(p) \/ i = m
  BY <1>2
<1> HIDE DEF m, q
<1>7. \A d \in 1 .. Len(cs) :
         Chain(q, ds[d].first) = Chain(p, cs[d].first) \cup (IF d = c THEN {m} ELSE {})
  <2>1. Chain(q, ds[c].first) = {m} \cup Chain(p, cs[c].first)
    BY <1>3 DEF m
  <2>2. ASSUME NEW d \in 1 .. Len(cs), d # c PROVE Chain(q, ds[d].first) = Chain(p, cs[d].first)
    <3>1. ds[d].first = cs[d].first /\ cs[d].first \in 0 .. Len(p)
      BY <1>1, <1>4, <2>2
    <3> QED
      BY <1>3, <3>1
  <2> QED
    BY <2>1, <2>2
<1>8. Len(ds) = Len(cs) /\ \A d \in 1 .. Len(cs) : ds[d].ctx = cs[d].ctx
  BY <1>1
<1>9. ASSUME NEW x, NEW y, NEW i
      PROVE  On(q, ds, x, y, i) <=> On(p, cs, x, y, i) \/ (i = m /\ x = e.ctx /\ y = e.next)
  <2>1. CASE i \in 1 .. Len(p)
    <3>1. i # m /\ q[i] = p[i] /\ i \in 1 .. m
      BY <1>3, <1>6, <2>1
    <3>2. \A d \in 1 .. Len(cs) : i \in Chain(q, ds[d].first) <=> i \in Chain(p, cs[d].first)
      BY <1>7, <3>1
    <3> QED
      BY <1>3, <1>8, <2>1, <3>1, <3>2 DEF On
  <2>2. CASE i = m
    <3>1. \A d \in 1 .. Len(cs) : i \in Chain(q, ds[d].first) <=> d = c
      BY <1>5, <1>6, <1>7, <2>2
    <3>2. ~On(p, cs, x, y, i) /\ q[i] = e /\ i \in 1 .. m
      BY <1>3, <1>6, <2>2 DEF On
    <3> QED
      BY <1>3, <1>8, <2>2, <3>1, <3>2 DEF On
  <2>3. CASE i \notin 1 .. m
    BY <1>3, <1>6, <2>3 DEF On
  <2> QED
    BY <1>6, <2>1, <2>2, <2>3
<1> QED
  BY <1>9 DEF m, q

\* A pair on no chain changes nothing.
LEMMA OnStray ==
    ASSUME NEW p \in Seq(Entry), LinksDown(p), NEW cs, FirstsIn(p, cs),
           NEW e \in Entry, e.link = Empty
    PROVE  SameOn(p, cs, Append(p, e), cs)
<1> DEFINE q == Append(p, e)
<1>1. Len(p) \in Nat /\ e.link <= Len(p)
  <2>1. Len(p) \in Nat
    BY LenProperties
  <2> QED
    BY <2>1 DEF Empty
<1>2. /\ Len(q) = Len(p) + 1 /\ \A i \in 1 .. Len(p) : q[i] = p[i]
      /\ \A f \in 0 .. Len(p) : Chain(q, f) = Chain(p, f)
  BY <1>1, SumsAppended
<1>3. \A d \in 1 .. Len(cs) : \A i \in Chain(p, cs[d].first) : i \in 1 .. Len(p)
  <2>1. \A f \in 0 .. Len(p) : \A i \in Chain(p, f) : i \in 1 .. f
    BY ChainBelow
  <2>2. \A f \in 0 .. Len(p) : \A i \in 1 .. f : i \in 1 .. Len(p)
    BY <1>1
  <2> QED
    BY <2>1, <2>2 DEF FirstsIn
<1>4. \A d \in 1 .. Len(cs) : Chain(q, cs[d].first) = Chain(p, cs[d].first)
  BY <1>2 DEF FirstsIn
<1>5. \A i \in 1 .. Len(p) : i \in 1 .. Len(p) + 1
  BY <1>1
<1> HIDE DEF q
<1>6. ASSUME NEW x, NEW y, NEW i PROVE On(p, cs, x, y, i) <=> On(q, cs, x, y, i)
  <2>1. CASE i \in 1 .. Len(p)
    BY <1>2, <1>4, <1>5, <2>1 DEF On
  <2>2. CASE i \notin 1 .. Len(p)
    BY <1>3, <1>4, <2>2 DEF On
  <2> QED
    BY <2>1, <2>2
<1> QED
  BY <1>6 DEF SameOn, q

(***************************************************************************)
(* The count of the pair is raised by one, unless there was none and the   *)
(* table may refuse pairs.                                                 *)
(***************************************************************************)
Lossy == ~build.dynamic \/ build.reallocFails

Refuses(ctx, b) == /\ Lossy /\ Times(bt.pool, ctxs.pool, ctx, b) = 0
                   /\ Alike(bt.pool, ctxs.pool, bt'.pool, ctxs'.pool)

\* Where the context has no entry, nothing of it is counted.
LEMMA HomelessNone ==
    ASSUME NEW p, NEW cs, NEW ctx, NoCtx(cs, ctx), NEW b
    PROVE  (\A i : ~On(p, cs, ctx, b, i)) /\ Times(p, cs, ctx, b) = 0
BY DEF NoCtx, On, Times

\* A pair counted again is one more on its chain; one that is on no chain,
\* after a failed realloc, is still told as never seen.
LEMMA SeenAgainCounts ==
    ASSUME Data(bt.pool, ctxs.pool), HomedOrFull, ctxs.cap \in Nat,
           NEW ctx \in Contexts, NEW b \in Byte, NEW ds, Homes(ds, ctx),
           SeenAgain(ctx, b, ds), KeysOnce(bt'.pool)
    PROVE  \/ Raised(bt.pool, ctxs.pool, bt'.pool, ctxs'.pool, ctx, b)
           \/ Refuses(ctx, b)
<1> DEFINE p == bt.pool
           cs == ctxs.pool
           q == bt'.pool
           es == ctxs'.pool
<1>1. /\ p \in Seq(Entry) /\ cs \in Seq(CtxEntry) /\ LinksDown(p) /\ KeysOnce(p)
  BY DEF Data, Pools
<1>2. Data(p, ds) /\ FirstsIn(p, ds)
  BY HomesData DEF Data, Pools
<1>3. PICK j : /\ PairSeen(j, ctx, b)
               /\ \E c \in 1 .. Len(ds) : /\ ds[c].ctx = ctx
                                          /\ CtxCounted(ds, es, c, FALSE, ds[c].first)
  BY DEF SeenAgain
<1>4. PICK c \in 1 .. Len(ds) : ds[c].ctx = ctx /\ CtxCounted(ds, es, c, FALSE, ds[c].first)
  BY <1>3
<1>5. j \in 1 .. Len(p) /\ Recounted(p, q, j) /\ p[j].ctx = ctx /\ p[j].next = b
  BY <1>3 DEF PairSeen
<1>6. Len(es) = Len(ds) /\ \A d \in 1 .. Len(ds) : es[d].ctx = ds[d].ctx
                                                  /\ es[d].first = ds[d].first
  BY <1>4 DEF CtxCounted
<1>7. SameOn(p, cs, q, es)
  <2>1. SameOn(p, cs, p, ds)
    BY <1>1, OnHomed
  <2>2. SameOn(p, ds, q, es)
    BY <1>1, <1>2, <1>5, <1>6, OnRecounted
  <2> QED
    BY <2>1, <2>2 DEF SameOn
<1>8. \A i \in 1 .. Len(p) : q[i].freq = IF i = j THEN p[i].freq + 1 ELSE p[i].freq
  BY <1>5 DEF Recounted
<1>9. ASSUME NEW x, NEW y, ~On(p, cs, x, y, j) PROVE Times(q, es, x, y) = Times(p, cs, x, y)
  <2>1. \A i : On(p, cs, x, y, i) => q[i].freq = p[i].freq
    BY <1>8, <1>9 DEF On
  <2> QED
    BY <1>1, <1>7, <2>1, SameTimes
<1>10. \A x, y : On(p, cs, x, y, j) => x = ctx /\ y = b
  BY <1>5 DEF On
<1>11. CASE On(p, cs, ctx, b, j)
  <2>1. Times(q, es, ctx, b) = Times(p, cs, ctx, b) + 1
    <3>1. On(q, es, ctx, b, j)
      BY <1>7, <1>11 DEF SameOn
    <3>2. Times(p, cs, ctx, b) = p[j].freq /\ Times(q, es, ctx, b) = q[j].freq
      BY <1>1, <1>11, <3>1, TimesIs
    <3> QED
      BY <1>5, <1>8, <3>2
  <2>2. ASSUME NEW x \in Contexts, NEW y \in Byte
        PROVE  Times(q, es, x, y) = Times(p, cs, x, y) + IF x = ctx /\ y = b THEN 1 ELSE 0
    <3>1. CASE x = ctx /\ y = b
      BY <2>1, <3>1
    <3>2. CASE ~(x = ctx /\ y = b)
      <4>1. Times(q, es, x, y) = Times(p, cs, x, y)
        BY <1>9, <1>10, <3>2
      <4>2. Times(p, cs, x, y) \in Nat
        BY <1>1, TimesNat
      <4> QED
        BY <3>2, <4>1, <4>2
    <3> QED
      BY <3>1, <3>2
  <2> QED
    BY <2>2 DEF Raised
<1>12. CASE ~On(p, cs, ctx, b, j)
  <2>1. Alike(p, cs, q, es)
    <3>1. \A x, y : ~On(p, cs, x, y, j)
      BY <1>10, <1>12
    <3>2. \A x, y : Times(q, es, x, y) = Times(p, cs, x, y)
      BY <1>9, <3>1
    <3> QED
      BY <3>2 DEF Alike
  <2>2. ASSUME NEW i, On(p, cs, ctx, b, i) PROVE FALSE
    <3>1. i \in 1 .. Len(p) /\ p[i].ctx = ctx /\ p[i].next = b
      BY <2>2 DEF On
    <3>2. i = j
      BY <1>1, <1>5, <3>1 DEF KeysOnce
    <3> QED
      BY <1>12, <2>2, <3>2
  <2>3. Times(p, cs, ctx, b) = 0
    BY <1>1, <2>2, TimesIs
  <2>4. Lossy
    <3> SUFFICES ASSUME ~build.reallocFails PROVE FALSE
      BY DEF Lossy
    <3>1. j \in Chain(p, ds[c].first)
      BY <1>2, <1>4, <1>5 DEF Data, AllLinked
    <3>2. On(p, ds, ctx, b, j)
      BY <1>4, <1>5, <3>1 DEF On
    <3>3. SameOn(p, cs, p, ds)
      BY <1>1, OnHomed
    <3> QED
      BY <1>12, <3>2, <3>3 DEF SameOn
  <2> QED
    BY <2>1, <2>3, <2>4 DEF Refuses
<1> QED
  BY <1>11, <1>12

\* A pair stored with its context is told as seen once.
LEMMA SeenFirstCounts ==
    ASSUME Data(bt.pool, ctxs.pool), HomedOrFull, ctxs.cap \in Nat,
           NEW ctx \in Contexts, NEW b \in Byte, NEW ds, Homes(ds, ctx),
           SeenFirst(ctx, b, ds), KeysOnce(bt'.pool)
    PROVE  Raised(bt.pool, ctxs.pool, bt'.pool, ctxs'.pool, ctx, b)
<1> DEFINE p == bt.pool
           cs == ctxs.pool
           q == bt'.pool
           es == ctxs'.pool
<1>1. /\ p \in Seq(Entry) /\ cs \in Seq(CtxEntry) /\ LinksDown(p) /\ KeysOnce(p)
      /\ Len(p) \in Nat
  BY LenProperties DEF Data, Pools
<1>2. Data(p, ds) /\ FirstsIn(p, ds) /\ ds \in Seq(CtxEntry)
  BY HomesData DEF Data, Pools
<1>3. PairUnseen(ctx, b)
  BY DEF SeenFirst
<1>4. PICK c \in 1 .. Len(ds) : /\ ds[c].ctx = ctx
                                /\ q = Append(p, Pair(ctx, b, ds[c].first))
                                /\ CtxCounted(ds, es, c, TRUE, Len(p) + 1)
  BY DEF SeenFirst
<1> DEFINE e == Pair(ctx, b, ds[c].first)
           m == Len(p) + 1
<1>5. e \in Entry /\ e.freq = 1 /\ e.ctx = ctx /\ e.next = b /\ e.link = ds[c].first
  <2>1. ds[c].first \in Nat
    BY <1>2, CtxEntryFields
  <2> QED
    BY <2>1 DEF Pair, Entry
<1>6. q = Append(p, e)
  BY <1>4
<1> HIDE DEF e
<1>7. /\ Len(es) = Len(ds) /\ es[c].ctx = ds[c].ctx /\ es[c].first = m
      /\ \A d \in 1 .. Len(ds) : d # c => es[d] = ds[d]
  BY <1>4 DEF CtxCounted
<1>8. \A x, y, i : On(q, es, x, y, i) <=> On(p, ds, x, y, i) \/ (i = m /\ x = ctx /\ y = b)
  <2>1. \A x, y, i : On(Append(p, e), es, x, y, i)
              <=> On(p, ds, x, y, i) \/ (i = Len(p) + 1 /\ x = e.ctx /\ y = e.next)
    <3>1. /\ Len(es) = Len(ds) /\ ds[c].ctx = e.ctx /\ e.link = ds[c].first
          /\ es[c].ctx = ds[c].ctx /\ es[c].first = Len(p) + 1
      BY <1>4, <1>5, <1>7
    <3>2. ButOne(ds, es, c)
      BY <1>7 DEF ButOne
    <3> HIDE DEF p, es
    <3> QED
      BY <1>1, <1>2, <1>5, <3>1, <3>2, OnAppended
  <2> QED
    BY <1>5, <1>6, <2>1
<1>9. SameOn(p, cs, p, ds)
  BY <1>1, OnHomed
<1>10. \A x, y, i : On(q, es, x, y, i) <=> On(p, cs, x, y, i) \/ (i = m /\ x = ctx /\ y = b)
  BY <1>8, <1>9 DEF SameOn
<1>11. q[m] = e /\ \A i \in 1 .. Len(p) : q[i] = p[i]
  BY <1>1, <1>5, <1>6, AppendProperties
<1>12. Times(q, es, ctx, b) = 1 /\ Times(p, cs, ctx, b) = 0
  <2>1. On(q, es, ctx, b, m)
    BY <1>10
  <2>2. \A i : ~On(p, cs, ctx, b, i)
    BY <1>3 DEF PairUnseen, On
  <2> QED
    BY <1>1, <1>5, <1>11, <2>1, <2>2, TimesIs
<1>13. ASSUME NEW x, NEW y, ~(x = ctx /\ y = b) PROVE Times(q, es, x, y) = Times(p, cs, x, y)
  <2>1. \A i : On(q, es, x, y, i) <=> On(p, cs, x, y, i)
    BY <1>10, <1>13
  <2>2. CASE \E i : On(p, cs, x, y, i)
    <3>1. PICK i : On(p, cs, x, y, i)
      BY <2>2
    <3>2. Times(p, cs, x, y) = p[i].freq /\ Times(q, es, x, y) = q[i].freq
      BY <1>1, <2>1, <3>1, TimesIs
    <3>3. q[i] = p[i]
      BY <1>11, <3>1 DEF On
    <3> QED
      BY <3>2, <3>3
  <2>3. CASE ~\E i : On(p, cs, x, y, i)
    BY <2>1, <2>3 DEF Times
  <2> QED
    BY <2>2, <2>3
<1>14. ASSUME NEW x \in Contexts, NEW y \in Byte
       PROVE  Times(q, es, x, y) = Times(p, cs, x, y) + IF x = ctx /\ y = b THEN 1 ELSE 0
  <2>1. CASE x = ctx /\ y = b
    BY <1>12, <2>1
  <2>2. CASE ~(x = ctx /\ y = b)
    <3>1. Times(q, es, x, y) = Times(p, cs, x, y) /\ Times(p, cs, x, y) \in Nat
      BY <1>1, <1>13, <2>2, TimesNat
    <3> QED
      BY <2>2, <3>1
  <2> QED
    BY <2>1, <2>2
<1> QED
  BY <1>14 DEF Raised

\* Every end of Update raises what is told of the pair by one, or refuses
\* it and leaves every count as it was.
LEMMA UpdateCounts ==
    ASSUME Data(bt.pool, ctxs.pool), HomedOrFull, ctxs.cap \in Nat, KeysOnce(bt'.pool),
           NEW ctx \in Contexts, NEW b \in Byte,
           \/ Lost(ctx, b) \/ Stray(ctx, b) \/ NewStray(ctx, b)
           \/ \E ds : Homes(ds, ctx) /\ (SeenAgain(ctx, b, ds) \/ SeenFirst(ctx, b, ds))
    PROVE  \/ Raised(bt.pool, ctxs.pool, bt'.pool, ctxs'.pool, ctx, b)
           \/ Refuses(ctx, b)
<1> DEFINE p == bt.pool
           cs == ctxs.pool
           q == bt'.pool
           es == ctxs'.pool
<1>1. p \in Seq(Entry) /\ LinksDown(p) /\ KeysOnce(p) /\ FirstsIn(p, cs)
  BY DEF Data, Pools
<1>2. CASE Lost(ctx, b)
  <2>1. Alike(p, cs, q, es) /\ Lossy
    BY <1>2 DEF Lost, Alike, Lossy
  <2>2. \A i : ~On(p, cs, ctx, b, i)
    BY <1>2 DEF Lost, PairUnseen, On
  <2> QED
    BY <1>1, <2>1, <2>2, TimesIs DEF Refuses
<1>3. CASE Stray(ctx, b)
  <2>1. PICK j : PairSeen(j, ctx, b)
    BY <1>3 DEF Stray
  <2>2. j \in 1 .. Len(p) /\ Recounted(p, q, j) /\ p[j].ctx = ctx
    BY <2>1 DEF PairSeen
  <2>3. es = cs /\ NoCtx(cs, ctx) /\ Lossy
    BY <1>3 DEF Stray, Homeless, NoCtx, Lossy
  <2>4. SameOn(p, cs, q, cs)
    BY <1>1, <2>2, OnRecounted
  <2>5. ASSUME NEW x, NEW y, NEW i, On(p, cs, x, y, i) PROVE q[i].freq = p[i].freq
    <3>1. i # j
      BY <2>2, <2>3, <2>5 DEF NoCtx, On
    <3> QED
      BY <2>2, <2>5, <3>1 DEF Recounted, On
  <2>6. Alike(p, cs, q, cs)
    BY <1>1, <2>4, <2>5, SameTimes DEF Alike
  <2> QED
    BY <2>3, <2>6, HomelessNone DEF Refuses
<1>4. CASE NewStray(ctx, b)
  <2> DEFINE e == Pair(ctx, b, Empty)
  <2>1. e \in Entry /\ e.link = Empty
    BY DEF Pair, Entry, Empty
  <2>2. q = Append(p, e) /\ es = cs /\ NoCtx(cs, ctx) /\ Lossy
    BY <1>4 DEF NewStray, Homeless, NoCtx, Lossy
  <2> HIDE DEF e
  <2>3. SameOn(p, cs, q, cs)
    BY <1>1, <2>1, <2>2, OnStray
  <2>4. \A i \in 1 .. Len(p) : q[i] = p[i]
    BY <1>1, <2>1, <2>2, AppendProperties
  <2>5. Alike(p, cs, q, cs)
    <3>1. \A x, y, i : On(p, cs, x, y, i) => q[i].freq = p[i].freq
      BY <2>4 DEF On
    <3> QED
      BY <1>1, <2>3, <3>1, SameTimes DEF Alike
  <2> QED
    BY <2>2, <2>5, HomelessNone DEF Refuses
<1>5. ASSUME NEW ds, Homes(ds, ctx), SeenAgain(ctx, b, ds) \/ SeenFirst(ctx, b, ds)
      PROVE  Raised(p, cs, q, es, ctx, b) \/ Refuses(ctx, b)
  BY <1>5, SeenAgainCounts, SeenFirstCounts
<1> QED
  BY <1>2, <1>3, <1>4, <1>5

-----------------------------------------------------------------------------
(***************************************************************************)
(* The context model implements the frequency table.                       *)
(***************************************************************************)
Table(p, cs) == [ctx \in Contexts |-> [b \in Byte |-> Times(p, cs, ctx, b)]]

Counts  == IF live = "none" THEN NoCounts ELSE CountOf(Snap)
SavedAs == {[count |-> CountOf(s), window |-> s.window] : s \in file}

\* Empty pools count nothing.
LEMMA EmptyTable == Table(<<>>, <<>>) = NoCounts
<1>1. \A ctx, b, i : ~On(<<>>, <<>>, ctx, b, i)
  BY EmptySeq DEF On
<1>2. \A ctx, b : Times(<<>>, <<>>, ctx, b) = 0
  BY <1>1 DEF Times
<1> QED
  BY <1>2 DEF Table, NoCounts, Unseen

\* A reader is told what the entries count.
Told == Counts = Table(bt.pool, ctxs.pool)

\* The invariant makes Told hold: no counts without tables, else the entries'.
LEMMA CountsTold == Inv => Told
<1> SUFFICES ASSUME Inv PROVE Counts = Table(bt.pool, ctxs.pool)
  BY DEF Told
<1>1. CASE live = "none"
  <2>1. bt.pool = <<>> /\ ctxs.pool = <<>>
    BY <1>1 DEF Inv, Nothing
  <2> QED
    BY <1>1, <2>1, EmptyTable DEF Counts
<1>2. CASE live # "none"
  <2>1. Readable(Snap)
    BY <1>2 DEF Inv
  <2>2. CountOf(Snap) = Table(Snap.pool, Snap.ctxPool)
    BY <2>1, CountsAre DEF Table
  <2>3. Snap.pool = bt.pool /\ Snap.ctxPool = ctxs.pool
    BY DEF Snap
  <2> QED
    BY <1>2, <2>2, <2>3 DEF Counts
<1> QED
  BY <1>1, <1>2

\* The two ways to write how a window moves on.
LEMMA PushIs ==
    ASSUME NEW w \in Model!Windows, NEW b \in Byte
    PROVE  Push(w, b) = Model!Push(w, b)
<1> DEFINE v == Append(w, b)
           n == Len(w)
<1>1. w \in Seq(Byte) /\ n \in 0 .. Depth /\ Depth \in Nat \ {0}
  BY WindowIs, ContextsAssumption
<1>2. /\ v \in Seq(Byte) /\ Len(v) = n + 1 /\ v[n + 1] = b
      /\ \A i \in 1 .. n : v[i] = w[i]
  BY <1>1, AppendProperties
<1>3. CASE n < Depth
  <2>1. ~(Len(v) > Depth)
    BY <1>1, <1>2, <1>3
  <2> QED
    BY <1>3, <2>1 DEF Push, Model!Push
<1>4. CASE ~(n < Depth)
  <2>1. n = Depth /\ w # <<>> /\ Len(v) > Depth /\ Len(v) - Depth + 1 = 2 /\ Len(v) = Depth + 1
    BY <1>1, <1>2, <1>4, EmptySeq
  <2> DEFINE t == Tail(w)
             u == Append(t, b)
             x == SubSeq(v, 2, Depth + 1)
  <2>2. /\ t \in Seq(Byte) /\ Len(t) = n - 1
        /\ \A i \in 1 .. Len(t) : t[i] = w[i + 1]
    BY <1>1, <2>1, HeadTailProperties
  <2>3. /\ u \in Seq(Byte) /\ Len(u) = (n - 1) + 1 /\ u[(n - 1) + 1] = b
        /\ \A i \in 1 .. n - 1 : u[i] = t[i]
    BY <2>2, AppendProperties
  <2>4. Model!Push(w, b) = x
    BY <2>1 DEF Model!Push, Model!Suffix
  <2>5. Push(w, b) = u
    BY <1>4 DEF Push
  <2>6. /\ x \in Seq(Byte) /\ Len(x) = Depth
        /\ \A i \in 1 .. Depth : x[i] = v[2 + i - 1]
    <3>1. 2 \in 1 .. Len(v) + 1 /\ Depth + 1 \in 2 - 1 .. Len(v) /\ 2 <= Depth + 1
          /\ Depth + 1 - 2 + 1 = Depth /\ Depth + 1 \in Int /\ 2 .. Depth + 1 \subseteq 1 .. Len(v)
      BY <1>1, <2>1
    <3> HIDE DEF v
    <3>2. \A i \in 2 .. Depth + 1 : v[i] \in Byte
      BY <1>2, <3>1, ElementOfSeq
    <3> DEFINE k == Depth + 1
               a == 2
    <3>3. a \in Int /\ k \in Int /\ (\A i \in a .. k : v[i] \in Byte) /\ a <= k /\ k - a + 1 = Depth
      BY <1>1, <3>1, <3>2
    <3>4. x = SubSeq(v, a, k)
      OBVIOUS
    <3> HIDE DEF a, k
    <3>5. /\ SubSeq(v, a, k) \in Seq(Byte) /\ Len(SubSeq(v, a, k)) = k - a + 1
          /\ \A i \in 1 .. k - a + 1 : SubSeq(v, a, k)[i] = v[a + i - 1]
      BY <3>3, SubSeqProperties
    <3> HIDE DEF x
    <3>6. /\ x \in Seq(Byte) /\ Len(x) = Depth
          /\ \A i \in 1 .. Depth : x[i] = v[a + i - 1]
      BY <3>3, <3>4, <3>5
    <3> QED
      BY <3>6 DEF a
  <2> HIDE DEF t, u, x, v
  <2>7. ASSUME NEW i \in 1 .. Depth PROVE x[i] = u[i]
    <3>1. x[i] = v[i + 1]
      BY <2>6
    <3>2. CASE i = Depth
      BY <1>1, <1>2, <2>1, <2>3, <3>1, <3>2
    <3>3. CASE i # Depth
      <4>1. i \in 1 .. n - 1 /\ i + 1 \in 1 .. n
        BY <1>1, <2>1, <3>3
      <4> QED
        BY <1>2, <2>2, <2>3, <3>1, <4>1
    <3> QED
      BY <3>2, <3>3
  <2>8. Len(x) = Len(u)
    BY <1>1, <2>1, <2>3, <2>6
  <2>9. x = u
    BY <2>3, <2>6, <2>7, <2>8, SeqEqual
  <2> QED
    BY <2>4, <2>5, <2>9
<1> QED
  BY <1>3, <1>4

\* Where neither the tables nor the file change, nor do the counts.
LEMMA SameCounts ==
    ASSUME Inv, AsIs
    PROVE  /\ Counts' = Counts /\ SavedAs' = SavedAs /\ Lossy' = Lossy
BY DEF AsIs, Counts, SavedAs, Snap, Lossy

\* A step of a training counts the byte after one context.
LEMMA UpdateImplements ==
    ASSUME Inv, Inv', Told, Told', build' = build, Update
    PROVE  Model!Count /\ Lossy' = Lossy
<1> DEFINE ctx == Suffix(window, call.n)
           b == call.byte
           p == bt.pool
           cs == ctxs.pool
           q == bt'.pool
           es == ctxs'.pool
<1>1. /\ live = "own" /\ BtOK(bt) /\ CtxsOK(ctxs) /\ HomedOrFull
      /\ Readable(Snap) /\ window \in Model!Windows /\ b \in Byte /\ call.n \in 1 .. Len(window)
  BY WindowIs DEF Update, Inv, Typed, Modes, Own
<1>2. build \in BuildType
  BY BuildIs DEF Inv, Typed
<1>3. /\ ctx \in Contexts /\ BtOK(bt') /\ CtxsOK(ctxs')
      /\ \/ Lost(ctx, b) \/ Stray(ctx, b) \/ NewStray(ctx, b)
         \/ \E ds : Homes(ds, ctx) /\ (SeenAgain(ctx, b, ds) \/ SeenFirst(ctx, b, ds))
  BY <1>1, <1>2, UpdateOutcome
<1>4. Data(p, cs) /\ ctxs.cap \in Nat
  BY <1>1 DEF Readable, Snap, CtxsOK, Tables
<1>5. KeysOnce(q)
  <2>1. live' = "own"
    BY <1>1 DEF Update
  <2>2. Readable(Snap)'
    BY <2>1 DEF Inv
  <2> QED
    BY <2>2 DEF Readable, Snap, Data, Pools
<1>6. /\ call' = [call EXCEPT !.n = @ + 1] /\ UNCHANGED <<window, frozen>>
      /\ live' = live /\ file' = file
  BY DEF Update
<1>7. SavedAs' = SavedAs /\ Lossy' = Lossy
  BY <1>6 DEF SavedAs, Lossy
<1>8. Counts = Table(p, cs) /\ Counts' = Table(q, es)
  BY DEF Told
<1> HIDE DEF ctx, b, p, cs, q, es
<1>9. Raised(p, cs, q, es, ctx, b) \/ Refuses(ctx, b)
  BY <1>1, <1>3, <1>4, <1>5, UpdateCounts DEF p, cs, q, es
<1>10. Raised(p, cs, q, es, ctx, b) => Counts' = [Counts EXCEPT ![ctx][b] = @ + 1]
  <2> SUFFICES ASSUME Raised(p, cs, q, es, ctx, b)
               PROVE  Table(q, es) = [Table(p, cs) EXCEPT ![ctx][b] = @ + 1]
    BY <1>8
  <2> DEFINE T == Table(p, cs)
             U == [T EXCEPT ![ctx][b] = @ + 1]
  <2>1. \A x \in Contexts, y \in Byte : Times(p, cs, x, y) \in Nat
    BY <1>4, TimesNat DEF Data, Pools
  <2>2. ASSUME NEW x \in Contexts PROVE Table(q, es)[x] = U[x]
    <3>1. CASE x = ctx
      <4>1. U[x] = [T[x] EXCEPT ![b] = @ + 1]
        BY <1>3, <3>1 DEF Table
      <4>2. T[x] = [y \in Byte |-> Times(p, cs, x, y)]
            /\ Table(q, es)[x] = [y \in Byte |-> Times(q, es, x, y)]
        BY DEF Table
      <4>3. \A y \in Byte : Times(q, es, x, y)
                               = IF y = b THEN Times(p, cs, x, y) + 1 ELSE Times(p, cs, x, y)
        BY <2>1, <3>1 DEF Raised
      <4> QED
        BY <1>1, <4>1, <4>2, <4>3
    <3>2. CASE x # ctx
      <4>1. U[x] = T[x]
        BY <3>2 DEF Table
      <4>2. \A y \in Byte : Times(q, es, x, y) = Times(p, cs, x, y)
        BY <2>1, <3>2 DEF Raised
      <4> QED
        BY <4>1, <4>2 DEF Table
    <3> QED
      BY <3>1, <3>2
  <2>3. U = [x \in Contexts |-> U[x]] /\ Table(q, es) = [x \in Contexts |-> Table(q, es)[x]]
    BY DEF Table
  <2> HIDE DEF U
  <2>4. Table(q, es) = U
    BY <2>2, <2>3
  <2> QED
    BY <2>4 DEF U
<1>11. Refuses(ctx, b) => Lossy /\ Counts[ctx][b] = 0 /\ Counts' = Counts
  <2> SUFFICES ASSUME Refuses(ctx, b)
               PROVE  Lossy /\ Table(p, cs)[ctx][b] = 0 /\ Table(q, es) = Table(p, cs)
    BY <1>8
  <2>1. Lossy /\ Times(p, cs, ctx, b) = 0 /\ Alike(p, cs, q, es)
    BY DEF Refuses, p, cs, q, es
  <2>2. Table(p, cs)[ctx][b] = 0
    BY <1>1, <1>3, <2>1 DEF Table
  <2>3. Table(q, es) = Table(p, cs)
    BY <2>1 DEF Table, Alike
  <2> QED
    BY <2>1, <2>2, <2>3
<1>12. \/ Counts' = [Counts EXCEPT ![ctx][b] = @ + 1]
       \/ Lossy /\ Counts[ctx][b] = 0 /\ Counts' = Counts
  BY <1>9, <1>10, <1>11
<1> QED
  BY <1>1, <1>6, <1>7, <1>12 DEF Model!Count, Model!Suffix, Suffix, ctx, b, Counts, SavedAs, Lossy

\* A model that has just been initialised or detached counts nothing.
LEMMA DropImplements ==
    ASSUME Inv, Told', build' = build, BtInit \/ Detach
    PROVE  Model!Drop /\ Lossy' = Lossy
<1>1. /\ call.n = 0 /\ call' = call /\ frozen' = FALSE /\ window' \in {window, <<>>}
      /\ file' = file /\ bt'.pool = <<>> /\ ctxs'.pool = <<>>
  BY DEF BtInit, Detach, NewTable
<1>2. Counts' = Model!Zero
  <2>1. Counts' = NoCounts
    BY <1>1, EmptyTable DEF Told
  <2> QED
    BY <2>1, ContextsAssumption DEF NoCounts, Unseen, Model!Zero
<1>3. SavedAs' = SavedAs /\ Lossy' = Lossy
  BY <1>1 DEF SavedAs, Lossy
<1> QED
  BY <1>1, <1>2, <1>3 DEF Model!Drop, Counts, SavedAs, Lossy

\* A saved model holds the counts of the moment,
LEMMA SaveImplements ==
    ASSUME Inv, Told, Told', build' = build, Save
    PROVE  Model!Save /\ Lossy' = Lossy
<1> DEFINE s == [pool |-> bt.pool, ctxPool |-> ctxs.pool, ctxSlot |-> ctxs.slot,
                 bloom |-> bloom, window |-> window]
<1>1. /\ file' = {s} /\ live # "none" /\ call.n = 0
      /\ UNCHANGED <<bt, ctxs, bloom, window, call, frozen, live>>
  BY DEF Save
<1>2. Readable(s)
  BY <1>1 DEF Inv, Readable, Snap
<1>3. s.pool = bt.pool /\ s.ctxPool = ctxs.pool /\ s.window = window
  OBVIOUS
<1> HIDE DEF s
<1>4. CountOf(s) = Counts
  <2>1. CountOf(s) = Table(s.pool, s.ctxPool)
    BY <1>2, CountsAre DEF Table
  <2> QED
    BY <1>3, <2>1 DEF Told
<1>5. Counts' = Counts
  BY <1>1 DEF Told
<1>6. SavedAs' = {[window |-> window, count |-> Counts]} /\ Lossy' = Lossy
  BY <1>1, <1>3, <1>4 DEF SavedAs, Lossy
<1> QED
  BY <1>1, <1>5, <1>6 DEF Model!Save, Counts, SavedAs, Lossy

\* and gives them back.
LEMMA AttachImplements ==
    ASSUME Inv, Told', build' = build, Attach
    PROVE  Model!Attach /\ Lossy' = Lossy
<1>1. PICK s \in file :
         /\ bt' = [pool |-> s.pool, cap |-> Len(s.pool), slot |-> NoSlots(0)]
         /\ ctxs' = [pool |-> s.ctxPool, cap |-> Len(s.ctxPool), slot |-> s.ctxSlot]
         /\ bloom' = s.bloom /\ window' = s.window
  BY DEF Attach
<1>2. call.n = 0 /\ frozen' = TRUE /\ call' = call /\ file' = file
  BY DEF Attach
<1>3. Readable(s)
  BY DEF Inv, Files
<1> DEFINE r == [count |-> CountOf(s), window |-> s.window]
<1>4. Counts' = r.count
  <2>1. CountOf(s) = Table(s.pool, s.ctxPool)
    BY <1>3, CountsAre DEF Table
  <2>2. bt'.pool = s.pool /\ ctxs'.pool = s.ctxPool
    BY <1>1
  <2> QED
    BY <2>1, <2>2 DEF Told
<1>5. r \in SavedAs /\ window' = r.window
  BY <1>1 DEF SavedAs
<1>6. SavedAs' = SavedAs /\ Lossy' = Lossy
  BY <1>2 DEF SavedAs, Lossy
<1> HIDE DEF r
<1> QED
  BY <1>2, <1>4, <1>5, <1>6 DEF Model!Attach, Counts, SavedAs, Lossy

\* What leaves the tables alone leaves the counts alone.
LEMMA OthersImplement ==
    ASSUME Inv, Inv', build' = build,
           \/ \E b \in Byte : Train(b)
           \/ TrainEnd \/ Freeze \/ \E w \in WindowsSet : SetWindow(w)
    PROVE  /\ (\E b \in Byte : Model!Train(b)) \/ Model!Trained \/ Model!Freeze \/ Model!SetWindow
           /\ Counts' = Counts /\ SavedAs' = SavedAs /\ Lossy' = Lossy
<1>1. AsIs
  BY DEF AsIs, Train, TrainEnd, Freeze, SetWindow
<1>2. Counts' = Counts /\ SavedAs' = SavedAs /\ Lossy' = Lossy
  BY <1>1, SameCounts
<1>3. window \in Model!Windows /\ window' \in Model!Windows /\ call.byte \in Byte
  BY DEF Inv, Typed
<1>4. ASSUME NEW b \in Byte, Train(b) PROVE Model!Train(b)
  BY <1>3, <1>4, PushIs DEF Train, Model!Train
<1>5. ASSUME TrainEnd PROVE Model!Trained
  BY <1>3, <1>5, PushIs DEF TrainEnd, Model!Trained
<1>6. ASSUME Freeze PROVE Model!Freeze
  BY <1>6 DEF Freeze, Model!Freeze
<1>7. ASSUME NEW w \in WindowsSet, SetWindow(w) PROVE Model!SetWindow
  BY <1>3, <1>7 DEF SetWindow, Model!SetWindow
<1> QED
  BY <1>2, <1>4, <1>5, <1>6, <1>7

(***************************************************************************)
(* The refinement: what a reader can read of the tables, in memory or from *)
(* the file, is a frequency table (CountsKept).  No growth, no collision,  *)
(* no full pool, no failing realloc, no save and no attach loses a count   *)
(* or invents one.                                                         *)
(***************************************************************************)
THEOREM CountsKeptSafe == Spec => CountsKept
<1>1. Init => Model!Init
  <2> SUFFICES ASSUME Init PROVE Model!Init
    OBVIOUS
  <2>1. live = "none" /\ file = {} /\ window = <<>> /\ call = Model!Idle /\ frozen = FALSE
    BY DEF Init
  <2>2. Counts = Model!Zero
    BY <2>1, ContextsAssumption DEF Counts, NoCounts, Unseen, Model!Zero
  <2>3. SavedAs = {} /\ Lossy \in BOOLEAN
    BY <2>1 DEF SavedAs, Lossy
  <2> QED
    BY <2>1, <2>2, <2>3 DEF Model!Init, Counts, SavedAs, Lossy
<1>2. Inv /\ Inv' /\ Told /\ Told' /\ [Next]_vars => [Model!Next]_(Model!vars)
  <2> SUFFICES ASSUME Inv, Inv', Told, Told', [Next]_vars
               PROVE  [Model!Next]_(Model!vars)
    OBVIOUS
  <2>1. CASE Next
    <3>1. build' = build
      BY <2>1 DEF Next
    <3>2. CASE \/ \E b \in Byte : Train(b)
               \/ TrainEnd \/ Freeze \/ \E w \in WindowsSet : SetWindow(w)
      BY <3>1, <3>2, OthersImplement DEF Model!Next, Counts, SavedAs, Lossy
    <3>3. CASE Update
      BY <3>1, <3>3, UpdateImplements DEF Model!Next, Lossy
    <3>4. CASE BtInit \/ Detach
      BY <3>1, <3>4, DropImplements DEF Model!Next, Lossy
    <3>5. CASE Save
      BY <3>1, <3>5, SaveImplements DEF Model!Next, Lossy
    <3>6. CASE Attach
      BY <3>1, <3>6, AttachImplements DEF Model!Next, Lossy
    <3> QED
      BY <2>1, <3>2, <3>3, <3>4, <3>5, <3>6 DEF Next, Training
  <2>2. CASE UNCHANGED vars
    <3>1. AsIs /\ UNCHANGED <<window, call, frozen>>
      BY <2>2 DEF vars, AsIs
    <3>2. Counts' = Counts /\ SavedAs' = SavedAs /\ Lossy' = Lossy
      BY <3>1, SameCounts
    <3> QED
      BY <3>1, <3>2 DEF Model!vars, Counts, SavedAs, Lossy
  <2> QED
    BY <2>1, <2>2
<1> QED
  BY BtInv, CountsTold, <1>1, <1>2, PTL DEF Spec, CountsKept, Model!Spec

-----------------------------------------------------------------------------
(***************************************************************************)
(* The reader of files of any origin.                                      *)
(***************************************************************************)

\* what bt_v3_validate has established, and where the reader is
Checked == rpc \in {"idle", "probe", "walk"} =>
              SlotsInRange(snap) /\ SlotLeftEmpty(snap) /\ EntriesInRange(snap)
AtSlot  == rpc = "probe" => rslot \in DOMAIN snap.ctxSlot
AtEntry == rpc = "walk" => rentry \in {Empty} \cup DOMAIN snap.pool

ReaderInv == snap \in Snapshots /\ Checked /\ AtSlot /\ AtEntry

\* A number reduced modulo the number of slots is the index of a slot.
LEMMA SlotIndex ==
    ASSUME NEW s \in Snapshots, SlotLeftEmpty(s), NEW x \in Nat
    PROVE  /\ x % Cardinality(DOMAIN s.ctxSlot) \in DOMAIN s.ctxSlot
           /\ DOMAIN s.ctxSlot \subseteq Nat
<1> DEFINE n == Cardinality(DOMAIN s.ctxSlot)
<1>1. DOMAIN s.ctxSlot = 0 .. n - 1 /\ n \in Nat
  BY SnapshotsAssumption, FS_CardinalityType
<1>2. n > 0
  BY <1>1 DEF SlotLeftEmpty
<1>3. x % n \in 0 .. n - 1
  BY <1>1, <1>2
<1> QED
  BY <1>1, <1>3

\* Looking a context up starts at a slot.
LEMMA LookupInv ==
    ASSUME ReaderInv, NEW ctx \in Contexts, Lookup(ctx)
    PROVE  ReaderInv'
<1>1. CtxHash[ctx] \in Nat
  BY HashAssumption
<1>2. SlotLeftEmpty(snap) /\ snap \in Snapshots
  BY DEF ReaderInv, Checked, Lookup
<1>3. rslot' \in DOMAIN snap.ctxSlot
  BY <1>1, <1>2, SlotIndex DEF Lookup
<1> QED
  BY <1>3 DEF ReaderInv, Checked, AtSlot, AtEntry, Lookup

\* Each step of a probe or a walk follows an index that was checked.
LEMMA StepInv ==
    ASSUME ReaderInv, ReaderStep
    PROVE  ReaderInv'
<1>1. CASE Absent
  BY <1>1 DEF Absent, ReaderInv, Checked, AtSlot, AtEntry
<1>2. CASE NextSlot
  <2>1. SlotLeftEmpty(snap) /\ snap \in Snapshots /\ rslot \in DOMAIN snap.ctxSlot
    BY <1>2 DEF NextSlot, ReaderInv, Checked, AtSlot
  <2>2. rslot + 1 \in Nat
    BY <2>1, SlotIndex
  <2>3. rslot' \in DOMAIN snap.ctxSlot
    BY <1>2, <2>1, <2>2, SlotIndex DEF NextSlot
  <2> QED
    BY <1>2, <2>3 DEF NextSlot, ReaderInv, Checked, AtSlot, AtEntry
<1>3. CASE Hit
  <2>1. snap.ctxSlot[rslot] \in DOMAIN snap.ctxPool
    BY <1>3 DEF Hit, ReaderInv, Checked, AtSlot, SlotsInRange
  <2>2. snap.ctxPool[snap.ctxSlot[rslot]].first \in {Empty} \cup DOMAIN snap.pool
    BY <1>3, <2>1 DEF Hit, ReaderInv, Checked, EntriesInRange
  <2> QED
    BY <1>3, <2>2 DEF Hit, ReaderInv, Checked, AtSlot, AtEntry
<1>4. CASE FollowLink
  <2>1. rentry \in DOMAIN snap.pool
    BY <1>4 DEF FollowLink, ReaderInv, AtEntry
  <2>2. snap.pool[rentry].link \in {Empty} \cup DOMAIN snap.pool
    BY <1>4, <2>1 DEF FollowLink, ReaderInv, Checked, EntriesInRange
  <2> QED
    BY <1>4, <2>2 DEF FollowLink, ReaderInv, Checked, AtSlot, AtEntry
<1>5. CASE ChainEnd
  BY <1>5 DEF ChainEnd, ReaderInv, Checked, AtSlot, AtEntry
<1> QED
  BY <1>1, <1>2, <1>3, <1>4, <1>5 DEF ReaderStep

(***************************************************************************)
(* Once bt_v3_validate has accepted a file, whatever is in it, the reader  *)
(* follows no index out of the slots, the context entries or the pool.     *)
(***************************************************************************)
THEOREM ReaderInsideSafe == ReaderSpec => []ReaderInside
<1>1. ReaderInit => ReaderInv
  BY DEF ReaderInit, ReaderInv, Checked, AtSlot, AtEntry
<1>2. ASSUME ReaderInv, [ReaderNext]_readerVars
      PROVE  ReaderInv'
  <2>1. CASE Validate
    BY <2>1, <1>2 DEF Validate, Valid, ReaderInv, Checked, AtSlot, AtEntry
  <2>2. CASE UNCHANGED readerVars
    BY <2>2, <1>2 DEF readerVars, ReaderInv, Checked, AtSlot, AtEntry
  <2> QED
    BY <1>2, <2>1, <2>2, LookupInv, StepInv DEF ReaderNext
<1>3. ReaderInv => ReaderInside
  BY DEF ReaderInv, Checked, AtSlot, AtEntry, SlotsInRange, ReaderInside
<1> QED
  BY <1>1, <1>2, <1>3, PTL DEF ReaderSpec
=============================================================================
