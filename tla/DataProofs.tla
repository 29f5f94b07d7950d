----------------------------- MODULE DataProofs -----------------------------
(* The algorithms that cut a list into lists: batches of files, a compressed  *)
(* conversation, paired chunks, a file shown in stages, and the plan drafted  *)
(* from the files, the module settings and the import graph.                  *)
EXTENDS AlgorithmProofs

\* A batch of any number of files, of directories in Dir.
AnyBatch(Dir) ==
  [files : Seq([dir : Dir, tokens : Nat]), grouped : BOOLEAN, hinted : BOOLEAN,
   maxFiles : Nat \ {0}, maxTokens : Nat]
Alike(x, p, q) == x.grouped => x.files[p].dir = x.files[q].dir
GroupsOf(x) == IF x.grouped THEN ByDirectory(x) ELSE <<Places(x)>>

\* The places of the files in ascending lists, one for each kind.
Grouped(G, x, n) ==
  /\ G \in Seq(Seq(1 .. n))
  /\ \A p \in 1 .. n : \E g \in 1 .. Len(G) : p \in ToSet(G[g])
  /\ \A g, h \in 1 .. Len(G) : \A p \in ToSet(G[g]), q \in ToSet(G[h]) : Alike(x, p, q) <=> g = h
  /\ \A g \in 1 .. Len(G) : \A i, k \in 1 .. Len(G[g]) : i < k <=> G[g][i] < G[g][k]

\* Grouping by directory keeps the order inside each directory.
LEMMA DirectoriesAre ==
  ASSUME NEW Dir, NEW x \in AnyBatch(Dir), x.grouped
  PROVE  Grouped(ByDirectory(x), x, Len(x.files))
<1>. DEFINE n == Len(x.files)
            dir(i) == x.files[i].dir
            In(d) == {i \in 1 .. n : dir(i) = d}
            H == {i \in 1 .. n : \A k \in 1 .. i - 1 : dir(k) # dir(i)}
            heads == Ascending(H)
            G == ByDirectory(x)
<1>1. n \in Nat /\ DOMAIN x.files = 1 .. n
  BY DEF AnyBatch
<1>2. IsFiniteSet(1 .. n) /\ 1 .. n \subseteq Nat
  BY <1>1, FS_Interval
<1>3. G = [h \in DOMAIN heads |-> Ascending(In(dir(heads[h])))]
  BY <1>1 DEF ByDirectory
<1>. HIDE DEF dir, G, n
<1>4. ASSUME NEW S \in SUBSET (1 .. n)
      PROVE  /\ S \in SUBSET Nat /\ IsFiniteSet(S) /\ Ascending(S) \in Seq(1 .. n)
             /\ DOMAIN Ascending(S) = 1 .. Len(Ascending(S))
             /\ ToSet(Ascending(S)) = S
             /\ \A i, k \in 1 .. Len(Ascending(S)) : i < k <=> Ascending(S)[i] < Ascending(S)[k]
             /\ \A i, k \in 1 .. Len(Ascending(S)) : Ascending(S)[i] = Ascending(S)[k] => i = k
  <2>1. S \in SUBSET Nat /\ IsFiniteSet(S)
    BY <1>2, FS_Subset
  <2>. DEFINE s == Ascending(S)
  <2>2. /\ s \in Seq(S) /\ ToSet(s) = S
        /\ \A i, k \in 1 .. Len(s) : i < k <=> s[i] < s[k]
        /\ \A i, k \in 1 .. Len(s) : s[i] = s[k] => i = k
    BY <2>1, AscendingIs
  <2>. HIDE DEF s
  <2>3. s \in Seq(1 .. n) /\ DOMAIN s = 1 .. Len(s)
    <3>1. Len(s) \in Nat /\ DOMAIN s = 1 .. Len(s) /\ s = [i \in 1 .. Len(s) |-> s[i]]
          /\ \A i \in 1 .. Len(s) : s[i] \in S
      BY <2>2
    <3>. DEFINE E == 1 .. n
    <3>2. \A i \in 1 .. Len(s) : s[i] \in E
      BY <3>1
    <3>. HIDE DEF E
    <3>3. s \in Seq(E)
      BY <3>1, <3>2
    <3>. QED  BY <3>1, <3>3 DEF E
  <2>. QED  BY <2>1, <2>2, <2>3 DEF s
<1>5. H \in SUBSET (1 .. n) /\ \A d : In(d) \in SUBSET (1 .. n)
  OBVIOUS
<1>. DEFINE K == Len(heads)
<1>6. /\ DOMAIN heads = 1 .. K /\ ToSet(heads) = H /\ heads \in Seq(1 .. n)
      /\ \A i, k \in 1 .. K : heads[i] = heads[k] => i = k
  BY <1>4, <1>5
<1>7. \A h \in 1 .. K : heads[h] \in H
  BY <1>6 DEF ToSet
<1>. DEFINE row(h) == Ascending(In(dir(heads[h])))
<1>8. ASSUME NEW h \in 1 .. K
      PROVE  /\ row(h) \in Seq(1 .. n) /\ ToSet(row(h)) = In(dir(heads[h]))
             /\ \A i, k \in 1 .. Len(row(h)) : i < k <=> row(h)[i] < row(h)[k]
  <2>. DEFINE S == In(dir(heads[h]))
  <2>1. S \in SUBSET (1 .. n)
    BY <1>5
  <2>. HIDE DEF S
  <2>2. /\ Ascending(S) \in Seq(1 .. n) /\ ToSet(Ascending(S)) = S
        /\ \A i, k \in 1 .. Len(Ascending(S)) : i < k <=> Ascending(S)[i] < Ascending(S)[k]
    BY <1>4, <2>1
  <2>. QED  BY <2>2 DEF S
<1>9. G = [h \in 1 .. K |-> row(h)]
  BY <1>3, <1>6
<1>10. K \in Nat
  BY <1>6
<1>. HIDE DEF row, K, heads
<1>11. G \in Seq(Seq(1 .. n)) /\ Len(G) = K /\ \A h \in 1 .. K : G[h] = row(h)
  <2>. DEFINE E == Seq(1 .. n)
  <2>1. \A h \in 1 .. K : row(h) \in E
    BY <1>8
  <2>. HIDE DEF E
  <2>2. G \in Seq(E) /\ Len(G) = K /\ \A h \in 1 .. K : G[h] = row(h)
    BY <1>9, <1>10, <2>1
  <2>. QED  BY <2>2 DEF E
<1>12. ASSUME NEW p \in 1 .. n PROVE \E g \in 1 .. K : p \in ToSet(G[g])
  <2>. DEFINE S == In(dir(p))
              m == Min(S)
  <2>1. S \in SUBSET Nat /\ IsFiniteSet(S) /\ p \in S
    BY <1>4, <1>5
  <2>2. m \in S /\ \A k \in S : m <= k
    <3>. HIDE DEF S
    <3>. QED  BY <2>1, LeastIs
  <2>3. m \in 1 .. n /\ dir(m) = dir(p)
    BY <2>2
  <2>4. \A k \in 1 .. m - 1 : k \in 1 .. n /\ ~(m <= k)
    BY <1>1, <2>3
  <2>5. m \in H
    BY <2>2, <2>3, <2>4
  <2>. HIDE DEF m
  <2>6. PICK g \in 1 .. K : heads[g] = m
    BY <1>6, <2>5 DEF ToSet
  <2>7. p \in In(dir(heads[g]))
    BY <2>3, <2>6
  <2>. QED  BY <1>8, <1>11, <2>7
<1>13. ASSUME NEW g \in 1 .. K, NEW h \in 1 .. K, NEW p \in ToSet(G[g]), NEW q \in ToSet(G[h])
       PROVE  Alike(x, p, q) <=> g = h
  <2>1. p \in In(dir(heads[g])) /\ q \in In(dir(heads[h]))
    BY <1>8, <1>11
  <2>2. dir(p) = dir(heads[g]) /\ dir(q) = dir(heads[h])
    BY <2>1
  <2>3. dir(heads[g]) = dir(heads[h]) => g = h
    <3>. SUFFICES ASSUME dir(heads[g]) = dir(heads[h]) PROVE g = h
      OBVIOUS
    <3>. DEFINE a == heads[g]
                b == heads[h]
    <3>1. a \in H /\ b \in H
      BY <1>7
    <3>. HIDE DEF a, b
    <3>2. a \in Nat /\ b \in Nat /\ dir(a) = dir(b)
      BY <1>2, <3>1 DEF a, b
    <3>3. ~(a < b) /\ ~(b < a)
      BY <3>1, <3>2
    <3>4. a = b
      BY <3>2, <3>3
    <3>. QED  BY <1>6, <3>4 DEF a, b
  <2>4. Alike(x, p, q) <=> dir(p) = dir(q)
    BY DEF Alike, dir
  <2>. QED  BY <2>2, <2>3, <2>4
<1>14. \A g \in 1 .. K : \A i, k \in 1 .. Len(G[g]) : i < k <=> G[g][i] < G[g][k]
  BY <1>8, <1>11
<1>. QED  BY <1>11, <1>12, <1>13, <1>14 DEF Grouped, G, n

\* So the groups, by directory or not, hold each file once and in order.
LEMMA GroupsAre ==
  ASSUME NEW Dir, NEW x \in AnyBatch(Dir)
  PROVE  Grouped(GroupsOf(x), x, Len(x.files))
<1>1. CASE x.grouped
  BY <1>1, DirectoriesAre DEF GroupsOf
<1>2. CASE ~x.grouped
  <2>. DEFINE n == Len(x.files)
              s == Places(x)
              G == <<s>>
  <2>1. n \in Nat /\ DOMAIN x.files = 1 .. n
    BY DEF AnyBatch
  <2>2. s = [i \in 1 .. n |-> i]
    BY <2>1 DEF Places
  <2>. HIDE DEF s, n
  <2>3. s \in Seq(1 .. n) /\ Len(s) = n /\ DOMAIN s = 1 .. n /\ \A i \in 1 .. n : s[i] = i
    BY <2>1, <2>2
  <2>4. ToSet(s) = 1 .. n
    BY <2>3 DEF ToSet
  <2>5. G \in Seq(Seq(1 .. n)) /\ Len(G) = 1 /\ G[1] = s /\ \A g \in 1 .. 1 : g = 1
    <3>. DEFINE E == Seq(1 .. n)
    <3>1. s \in E
      BY <2>3
    <3>. HIDE DEF E
    <3>2. G \in Seq(E) /\ Len(G) = 1 /\ G[1] = s
      BY <3>1
    <3>. QED  BY <3>2 DEF E
  <2>6. \A p, q : Alike(x, p, q)
    BY <1>2 DEF Alike
  <2>7. GroupsOf(x) = G
    BY <1>2 DEF GroupsOf, s
  <2>. HIDE DEF G
  <2>8. 1 \in 1 .. Len(G) /\ \A g \in 1 .. Len(G) : G[g] = s /\ g = 1
    BY <2>5
  <2>9. \A i, k \in 1 .. Len(s) : i < k <=> s[i] < s[k]
    BY <2>3
  <2>10. Grouped(G, x, n)
    BY <2>4, <2>5, <2>6, <2>8, <2>9 DEF Grouped
  <2>. QED  BY <2>7, <2>10 DEF n
<1>. QED  BY <1>1, <1>2

\* And the groups joined are the files.
LEMMA FlatGroups ==
  ASSUME NEW n \in Nat, NEW x, NEW G, Grouped(G, x, n)
  PROVE  /\ FlattenSeq(G) \in Seq(1 .. n) /\ Len(FlattenSeq(G)) = n /\ ToSet(FlattenSeq(G)) = 1 .. n
         /\ \A i, k \in 1 .. n : i < k /\ Alike(x, FlattenSeq(G)[i], FlattenSeq(G)[k]) =>
              FlattenSeq(G)[i] < FlattenSeq(G)[k]
<1>. DEFINE flat == FlattenSeq(G)
            L == Len(flat)
<1>1. G \in Seq(Seq(1 .. n))
  BY DEF Grouped
<1>2. flat \in Seq(1 .. n) /\ (\E row, col : Laid(flat, G, Len(G), row, col))
      /\ ToSet(flat) = UNION {ToSet(b) : b \in ToSet(G)}
  BY <1>1, FlatIs, FlatSet
<1>3. PICK row, col : Laid(flat, G, Len(G), row, col)
  BY <1>2
<1>. HIDE DEF flat
<1>4. DOMAIN flat = 1 .. L /\ L \in Nat /\ DOMAIN G = 1 .. Len(G)
      /\ \A g \in 1 .. Len(G) : DOMAIN G[g] = 1 .. Len(G[g]) /\ G[g] \in Seq(1 .. n) /\ G[g] \in ToSet(G)
  BY <1>1, <1>2 DEF ToSet
<1>. HIDE DEF L
<1>5. ASSUME NEW p \in 1 .. L
      PROVE  /\ row[p] \in 1 .. Len(G) /\ col[p] \in 1 .. Len(G[row[p]]) /\ flat[p] = G[row[p]][col[p]]
             /\ flat[p] \in ToSet(G[row[p]]) /\ flat[p] \in 1 .. n
  <2>1. row[p] \in 1 .. Len(G) /\ col[p] \in 1 .. Len(G[row[p]]) /\ flat[p] = G[row[p]][col[p]]
    BY <1>3 DEF Laid, L
  <2>. DEFINE s == G[row[p]]
              c == col[p]
  <2>2. s \in Seq(1 .. n) /\ DOMAIN s = 1 .. Len(s) /\ c \in 1 .. Len(s) /\ flat[p] = s[c]
    BY <1>4, <2>1
  <2>. HIDE DEF s, c
  <2>3. flat[p] \in ToSet(s) /\ flat[p] \in 1 .. n
    BY <2>2 DEF ToSet
  <2>. QED  BY <2>1, <2>3 DEF s
<1>6. \A p, q \in 1 .. L : p < q <=> row[p] < row[q] \/ (row[p] = row[q] /\ col[p] < col[q])
  BY <1>3 DEF Laid, L
<1>7. ASSUME NEW i \in 1 .. L, NEW k \in 1 .. L, Alike(x, flat[i], flat[k])
      PROVE  row[i] = row[k] /\ (i < k <=> flat[i] < flat[k])
  <2>1. row[i] = row[k]
    BY <1>5, <1>7 DEF Grouped
  <2>2. i < k <=> col[i] < col[k]
    BY <1>5, <1>6, <2>1
  <2>3. col[i] < col[k] <=> G[row[i]][col[i]] < G[row[i]][col[k]]
    BY <1>5, <2>1 DEF Grouped
  <2>. QED  BY <1>5, <2>1, <2>2, <2>3
<1>8. \A i, k \in 1 .. L : flat[i] = flat[k] => i = k
  <2>. SUFFICES ASSUME NEW i \in 1 .. L, NEW k \in 1 .. L, flat[i] = flat[k] PROVE i = k
    OBVIOUS
  <2>1. Alike(x, flat[i], flat[k]) /\ Alike(x, flat[k], flat[i])
    BY DEF Alike
  <2>2. ~(i < k) /\ ~(k < i)
    <3>1. ~(flat[i] < flat[k]) /\ ~(flat[k] < flat[i])
      BY <1>5
    <3>. QED  BY <1>7, <2>1, <3>1
  <2>. QED  BY <1>4, <2>2
<1>9. ToSet(flat) = 1 .. n
  <2>1. ToSet(flat) \subseteq 1 .. n
    BY <1>4, <1>5 DEF ToSet
  <2>2. ASSUME NEW p \in 1 .. n PROVE p \in ToSet(flat)
    <3>1. PICK g \in 1 .. Len(G) : p \in ToSet(G[g])
      BY DEF Grouped
    <3>2. G[g] \in ToSet(G)
      BY <1>4
    <3>. QED  BY <1>2, <3>1, <3>2
  <2>. QED  BY <2>1, <2>2
<1>10. L = n
  <2>1. flat \in [1 .. L -> 1 .. n] /\ \A p \in 1 .. n : \E i \in 1 .. L : flat[i] = p
    <3>1. flat \in [1 .. L -> 1 .. n]
      BY <1>2, <1>4, <1>5
    <3>. QED  BY <1>4, <1>9, <3>1 DEF ToSet
  <2>2. flat \in Surjection(1 .. L, 1 .. n) /\ flat \in Injection(1 .. L, 1 .. n)
    BY <1>8, <2>1 DEF Surjection, Injection, IsInjective
  <2>3. IsFiniteSet(1 .. L) /\ Cardinality(1 .. L) = L /\ IsFiniteSet(1 .. n) /\ Cardinality(1 .. n) = n
    BY <1>4, FS_Interval
  <2>4. Cardinality(1 .. n) = Cardinality(1 .. L)
    BY <2>2, <2>3, FS_Surjection
  <2>. QED  BY <2>3, <2>4
<1>11. \A i, k \in 1 .. n : i < k /\ Alike(x, flat[i], flat[k]) => flat[i] < flat[k]
  BY <1>7, <1>10
<1>. QED  BY <1>2, <1>9, <1>10, <1>11 DEF flat, L

\* What splitting leaves of each list, and of all of them in a row.
Splits(M, seqs, D) ==
  /\ M = [g \in DOMAIN seqs |-> M[g]]
  /\ \A g \in DOMAIN seqs : M[g] \in Seq(Seq(D)) /\ FlattenSeq(M[g]) = seqs[g]
\* Cutting each group further loses nothing and changes no order.
LEMMA SplitIs ==
  ASSUME NEW D, NEW seqs \in Seq(Seq(D)), NEW M, Splits(M, seqs, D)
  PROVE  /\ FlattenSeq(M) \in Seq(Seq(D)) /\ FlattenSeq(FlattenSeq(M)) = FlattenSeq(seqs)
         /\ \A b \in ToSet(FlattenSeq(M)) : \E g \in DOMAIN seqs : b \in ToSet(M[g])
<1>. DEFINE E == Seq(D)
<1>0. /\ DOMAIN M = DOMAIN seqs /\ M = [g \in DOMAIN seqs |-> M[g]]
      /\ \A g \in DOMAIN seqs : M[g] \in Seq(Seq(D)) /\ FlattenSeq(M[g]) = seqs[g]
  BY Zenon DEF Splits
<1>1. M \in Seq(Seq(E))
  <2>1. DOMAIN seqs = 1 .. Len(seqs) /\ Len(seqs) \in Nat
    OBVIOUS
  <2>. DEFINE F == Seq(E)
  <2>2. \A g \in 1 .. Len(seqs) : M[g] \in F
    BY <1>0, <2>1
  <2>. HIDE DEF F
  <2>3. M \in Seq(F)
    BY <1>0, <2>1, <2>2
  <2>. QED  BY <2>3 DEF F
<1>2. FlattenSeq(FlattenSeq(M)) = FlattenSeq([i \in DOMAIN M |-> FlattenSeq(M[i])])
  BY <1>1, FlattenTwice
<1>3. [i \in DOMAIN M |-> FlattenSeq(M[i])] = seqs
  <2>1. seqs = [g \in DOMAIN seqs |-> seqs[g]]
    OBVIOUS
  <2>. QED  BY <1>0, <2>1
<1>. HIDE DEF E
<1>4. FlattenSeq(M) \in Seq(E) /\ ToSet(FlattenSeq(M)) = UNION {ToSet(b) : b \in ToSet(M)}
  BY <1>1, FlatIs, FlatSet
<1>5. ASSUME NEW b \in ToSet(FlattenSeq(M)) PROVE \E g \in DOMAIN seqs : b \in ToSet(M[g])
  <2>1. PICK a \in ToSet(M) : b \in ToSet(a)
    BY <1>4
  <2>2. PICK g \in DOMAIN M : a = M[g]
    BY DEF ToSet
  <2>. QED  BY <1>0, <2>1, <2>2
<1>. QED  BY <1>2, <1>3, <1>4, <1>5 DEF E

\* What BatchesKeepOrder asks of the batches, for any files and limits.
LEMMA BatchesAre ==
  ASSUME NEW Dir, NEW x \in AnyBatch(Dir)
  PROVE  LET batches == EnforceBatchLimits(x)
             flat == FlattenSeq(batches)
         IN /\ Len(flat) = Len(x.files) /\ ToSet(flat) = DOMAIN x.files
            /\ \A i, k \in DOMAIN flat :
                 i < k /\ (x.grouped => x.files[flat[i]].dir = x.files[flat[k]].dir) => flat[i] < flat[k]
            /\ \A batch \in ToSet(batches) :
                 /\ Len(batch) <= x.maxFiles
                 /\ x.hinted => TokensOf(x, batch) <= x.maxTokens \/ Len(batch) = 1
                 /\ x.grouped => \A i, k \in ToSet(batch) : x.files[i].dir = x.files[k].dir
<1>. DEFINE n == Len(x.files)
            G == GroupsOf(x)
            D == 1 .. n
            C == [g \in DOMAIN G |-> ByCount(G[g], x.maxFiles)]
            counted == FlattenSeq(C)
            T == [g \in DOMAIN counted |-> ByTokens(x, counted[g])]
            batches == IF x.hinted THEN FlattenSeq(T) ELSE counted
            Fine(b) == /\ b \in Seq(D) /\ Len(b) <= x.maxFiles
                       /\ x.grouped => \A i, k \in ToSet(b) : x.files[i].dir = x.files[k].dir
<1>1. EnforceBatchLimits(x) = batches
  BY DEF EnforceBatchLimits, GroupsOf
<1>2. n \in Nat /\ x.maxFiles \in Nat /\ x.maxFiles > 0 /\ DOMAIN x.files = 1 .. n
  BY DEF AnyBatch
<1>3. Grouped(G, x, n)
  BY GroupsAre
<1>4. G \in Seq(Seq(D))
  BY <1>3 DEF Grouped
<1>. HIDE DEF G, n, D
<1>5. ASSUME NEW g \in DOMAIN G
      PROVE  /\ C[g] \in Seq(Seq(D)) /\ FlattenSeq(C[g]) = G[g]
             /\ \A b \in ToSet(C[g]) : Fine(b)
  <2>. DEFINE s == G[g]
  <2>1. s \in Seq(D) /\ C[g] = ByCount(s, x.maxFiles) /\ g \in 1 .. Len(G)
    BY <1>4
  <2>2. \A p, q \in ToSet(s) : Alike(x, p, q)
    BY <1>3, <2>1 DEF Grouped
  <2>. HIDE DEF s
  <2>3. /\ ByCount(s, x.maxFiles) \in Seq(Seq(D)) /\ FlattenSeq(ByCount(s, x.maxFiles)) = s
        /\ \A b \in ToSet(ByCount(s, x.maxFiles)) : Len(b) <= x.maxFiles /\ ToSet(b) \subseteq ToSet(s)
    BY <1>2, <2>1, ByCountIs
  <2>. DEFINE c == ByCount(s, x.maxFiles)
  <2>4. \A b \in ToSet(c) : b \in Seq(D)
    <3>. HIDE DEF c
    <3>1. c \in Seq(Seq(D))
      BY <2>3 DEF c
    <3>. QED  BY <3>1 DEF ToSet
  <2>. HIDE DEF c
  <2>5. \A b \in ToSet(c) : Fine(b)
    BY <2>2, <2>3, <2>4 DEF Alike, c
  <2>. QED  BY <2>1, <2>3, <2>5 DEF s, c
<1>6. Splits(C, G, D)
  BY <1>5 DEF Splits
<1>. HIDE DEF C
<1>7. /\ counted \in Seq(Seq(D)) /\ FlattenSeq(counted) = FlattenSeq(G)
      /\ \A b \in ToSet(counted) : \E g \in DOMAIN G : b \in ToSet(C[g])
  BY <1>4, <1>6, SplitIs
<1>. HIDE DEF counted, Fine
<1>8. \A b \in ToSet(counted) : Fine(b)
  BY <1>5, <1>7
<1>9. ASSUME NEW g \in DOMAIN counted
      PROVE  /\ T[g] \in Seq(Seq(D)) /\ FlattenSeq(T[g]) = counted[g]
             /\ \A b \in ToSet(T[g]) : Fine(b) /\ (TokensOf(x, b) <= x.maxTokens \/ Len(b) = 1)
  <2>. DEFINE s == counted[g]
  <2>1. s \in Seq(D) /\ s \in ToSet(counted) /\ T[g] = ByTokens(x, s)
    BY <1>7 DEF ToSet
  <2>2. Fine(s)
    BY <1>8, <2>1
  <2>. HIDE DEF s
  <2>3. /\ ByTokens(x, s) \in Seq(Seq(D)) /\ FlattenSeq(ByTokens(x, s)) = s
        /\ \A b \in ToSet(ByTokens(x, s)) :
             /\ b \in Seq(D) /\ Len(b) <= Len(s) /\ ToSet(b) \subseteq ToSet(s)
             /\ TokensOf(x, b) <= x.maxTokens \/ Len(b) = 1
    BY <2>1, ByTokensIs
  <2>4. ASSUME NEW b \in ToSet(ByTokens(x, s)) PROVE Fine(b)
    <3>1. b \in Seq(D) /\ Len(b) <= Len(s) /\ ToSet(b) \subseteq ToSet(s)
      BY <2>3
    <3>2. Len(b) \in Nat /\ Len(s) \in Nat
      BY <2>1, <3>1
    <3>3. Len(b) <= x.maxFiles
      BY <1>2, <2>2, <3>1, <3>2 DEF Fine
    <3>. QED  BY <2>2, <3>1, <3>3 DEF Fine
  <2>. QED  BY <2>1, <2>3, <2>4 DEF s
<1>10. Splits(T, counted, D)
  BY <1>9 DEF Splits
<1>. HIDE DEF T
<1>11. /\ FlattenSeq(T) \in Seq(Seq(D)) /\ FlattenSeq(FlattenSeq(T)) = FlattenSeq(counted)
       /\ \A b \in ToSet(FlattenSeq(T)) : \E g \in DOMAIN counted : b \in ToSet(T[g])
  BY <1>7, <1>10, SplitIs
<1>12. FlattenSeq(batches) = FlattenSeq(G)
  BY <1>7, <1>11
<1>13. \A b \in ToSet(batches) : Fine(b) /\ (x.hinted => TokensOf(x, b) <= x.maxTokens \/ Len(b) = 1)
  BY <1>8, <1>9, <1>11
<1>. HIDE DEF batches
<1>. DEFINE flat == FlattenSeq(batches)
<1>14. /\ flat \in Seq(1 .. n) /\ Len(flat) = n /\ ToSet(flat) = 1 .. n
       /\ \A i, k \in 1 .. n : i < k /\ Alike(x, flat[i], flat[k]) => flat[i] < flat[k]
  BY <1>2, <1>3, <1>12, FlatGroups
<1>. HIDE DEF flat
<1>15. DOMAIN flat = 1 .. n
  BY <1>14
<1>16. \A i, k \in DOMAIN flat :
         i < k /\ (x.grouped => x.files[flat[i]].dir = x.files[flat[k]].dir) => flat[i] < flat[k]
  BY <1>14, <1>15 DEF Alike
<1>17. Len(flat) = Len(x.files) /\ ToSet(flat) = DOMAIN x.files
  BY <1>2, <1>14 DEF n
<1>18. \A batch \in ToSet(batches) :
         /\ Len(batch) <= x.maxFiles
         /\ x.hinted => TokensOf(x, batch) <= x.maxTokens \/ Len(batch) = 1
         /\ x.grouped => \A i, k \in ToSet(batch) : x.files[i].dir = x.files[k].dir
  BY <1>13 DEF Fine
<1>. QED  BY <1>1, <1>16, <1>17, <1>18 DEF flat

-----------------------------------------------------------------------------
(* Sums, compared. *)
LEMMA SumsCompare ==
  ASSUME NEW n \in Nat, NEW u \in [1 .. n -> Nat], NEW v \in [1 .. n -> Nat], NEW w \in [1 .. n -> Nat]
  PROVE  /\ SumOf(u) \in Nat /\ SumOf(v) \in Nat /\ SumOf(w) \in Nat
         /\ (\A i \in 1 .. n : u[i] <= v[i]) => SumOf(u) <= SumOf(v)
         /\ (\A i \in 1 .. n : w[i] = u[i] + v[i]) => SumOf(w) = SumOf(u) + SumOf(v)
<1>1. u \in Seq(Nat) /\ v \in Seq(Nat) /\ w \in Seq(Nat) /\ Len(u) = n /\ Len(v) = n /\ Len(w) = n
  OBVIOUS
<1>2. PICK f : Sums(f, u) /\ SumOf(u) = f[n]
  BY <1>1, SumIs
<1>3. PICK g : Sums(g, v) /\ SumOf(v) = g[n]
  BY <1>1, SumIs
<1>4. PICK h : Sums(h, w) /\ SumOf(w) = h[n]
  BY <1>1, SumIs
<1>5. /\ f \in [0 .. n -> Nat] /\ f[0] = 0 /\ \A i \in 1 .. n : f[i] = f[i - 1] + u[i]
      /\ g \in [0 .. n -> Nat] /\ g[0] = 0 /\ \A i \in 1 .. n : g[i] = g[i - 1] + v[i]
      /\ h \in [0 .. n -> Nat] /\ h[0] = 0 /\ \A i \in 1 .. n : h[i] = h[i - 1] + w[i]
  BY <1>1, <1>2, <1>3, <1>4 DEF Sums
<1>6. 0 \in 0 .. n /\ n \in 0 .. n
  OBVIOUS
<1>7. ASSUME \A i \in 1 .. n : u[i] <= v[i] PROVE f[n] <= g[n]
  <2>. DEFINE T == {i \in 0 .. n : f[i] <= g[i]}
  <2>1. 0 \in T
    BY <1>5, <1>6
  <2>2. ASSUME NEW i \in 1 .. n, i - 1 \in T PROVE i \in T
    <3>1. i \in 0 .. n /\ i - 1 \in 0 .. n
      OBVIOUS
    <3>2. f[i - 1] \in Nat /\ g[i - 1] \in Nat /\ u[i] \in Nat /\ v[i] \in Nat /\ f[i - 1] <= g[i - 1]
          /\ u[i] <= v[i] /\ f[i] = f[i - 1] + u[i] /\ g[i] = g[i - 1] + v[i]
      BY <1>5, <1>7, <2>2, <3>1
    <3>. QED  BY <3>1, <3>2
  <2>3. \A i \in 0 .. n : i \in T
    <3>. HIDE DEF T
    <3>. QED  BY <2>1, <2>2, UpTo
  <2>. QED  BY <1>6, <2>3
<1>8. ASSUME \A i \in 1 .. n : w[i] = u[i] + v[i] PROVE h[n] = f[n] + g[n]
  <2>. DEFINE T == {i \in 0 .. n : h[i] = f[i] + g[i]}
  <2>1. 0 \in T
    BY <1>5, <1>6
  <2>2. ASSUME NEW i \in 1 .. n, i - 1 \in T PROVE i \in T
    <3>1. i \in 0 .. n /\ i - 1 \in 0 .. n
      OBVIOUS
    <3>2. f[i - 1] \in Nat /\ g[i - 1] \in Nat /\ u[i] \in Nat /\ v[i] \in Nat
          /\ h[i - 1] = f[i - 1] + g[i - 1] /\ w[i] = u[i] + v[i]
          /\ f[i] = f[i - 1] + u[i] /\ g[i] = g[i - 1] + v[i] /\ h[i] = h[i - 1] + w[i]
      BY <1>5, <1>8, <2>2, <3>1
    <3>. QED  BY <3>1, <3>2
  <2>3. \A i \in 0 .. n : i \in T
    <3>. HIDE DEF T
    <3>. QED  BY <2>1, <2>2, UpTo
  <2>. QED  BY <1>6, <2>3
<1>. QED  BY <1>2, <1>3, <1>4, <1>5, <1>6, <1>7, <1>8

-----------------------------------------------------------------------------
(* A conversation of any length. *)
AnyChat == [sizes : Seq(Nat), ours : SUBSET Nat, budget : Nat]

\* The middle of a conversation.
LEMMA MiddleIs ==
  ASSUME NEW n \in Nat
  PROVE  Middle(n) \in SUBSET (1 .. n) /\ IsFiniteSet(Middle(n)) /\ Middle(n) \in SUBSET Nat
<1>1. IsFiniteSet(1 .. n)
  BY FS_Interval
<1>2. Middle(n) \in SUBSET (1 .. n)
  BY DEF Middle
<1>3. IsFiniteSet(Middle(n))
  BY <1>1, <1>2, FS_Subset
<1>. QED  BY <1>2, <1>3

\* Pruning stale results leaves both ends as they were.
LEMMA PrunedIs ==
  ASSUME NEW x \in AnyChat
  PROVE  LET n == Len(x.sizes)
         IN /\ PruneStale(x) \in [1 .. n -> Nat]
            /\ \A i \in 1 .. n \ Middle(n) : PruneStale(x)[i] = x.sizes[i]
<1>. DEFINE n == Len(x.sizes)
<1>1. x.sizes \in Seq(Nat) /\ \A i \in 1 .. n : x.sizes[i] \in Nat
  BY DEF AnyChat
<1>. HIDE DEF n
<1>. QED  BY <1>1 DEF PruneStale, Placeholder, n

\* Only messages that may be cut are cut.
LEMMA OrderOfCuts ==
  ASSUME NEW n \in Nat, NEW sizes \in [1 .. n -> Nat]
  PROVE  /\ LongestFirst(sizes, Cuttable(n)) \in Seq(Cuttable(n))
         /\ Cuttable(n) \subseteq 1 .. n
<1>. DEFINE S == Cuttable(n)
            before == {e \in S \X S : sizes[e[1]] > sizes[e[2]] \/ (sizes[e[1]] = sizes[e[2]] /\ e[1] < e[2])}
<1>1. S \subseteq 1 .. n /\ IsFiniteSet(S)
  BY MiddleIs, FS_Interval DEF Cuttable
<1>. HIDE DEF S
<1>2. \A a, b \in S : <<a, b>> \in before <=> sizes[a] > sizes[b] \/ (sizes[a] = sizes[b] /\ a < b)
  OBVIOUS
<1>3. \A a \in S : sizes[a] \in Nat /\ a \in Nat
  BY <1>1
<1>4. LongestFirst(sizes, S) = Sorted(S, before)
  BY DEF LongestFirst, OrderedBy
<1>. HIDE DEF before
<1>5. Orders(before, S)
  <2>1. \A a \in S : <<a, a>> \notin before
    BY <1>2, <1>3
  <2>2. ASSUME NEW a \in S, NEW b \in S PROVE a = b \/ <<a, b>> \in before \/ <<b, a>> \in before
    <3>1. sizes[a] \in Nat /\ sizes[b] \in Nat /\ a \in Nat /\ b \in Nat
      BY <1>3
    <3>. QED  BY <1>2, <3>1
  <2>3. ASSUME NEW a \in S, NEW b \in S, NEW c \in S, <<a, b>> \in before, <<b, c>> \in before
        PROVE  <<a, c>> \in before
    <3>1. /\ sizes[a] \in Nat /\ sizes[b] \in Nat /\ sizes[c] \in Nat /\ a \in Nat /\ b \in Nat /\ c \in Nat
          /\ sizes[a] > sizes[b] \/ (sizes[a] = sizes[b] /\ a < b)
          /\ sizes[b] > sizes[c] \/ (sizes[b] = sizes[c] /\ b < c)
      BY <1>2, <1>3, <2>3
    <3>2. sizes[a] > sizes[c] \/ (sizes[a] = sizes[c] /\ a < c)
      BY <3>1
    <3>. QED  BY <1>2, <3>2
  <2>. QED  BY <2>1, <2>2, <2>3 DEF Orders
<1>6. Sorts(Sorted(S, before), S, before)
  BY <1>1, <1>5, SortedIs
<1>. QED  BY <1>1, <1>4, <1>6 DEF Sorts, S

\* Cutting one message leaves the others as they were.
LEMMA CutIs ==
  ASSUME NEW n \in Nat, NEW s \in [left : Nat, sizes : [1 .. n -> Nat]], NEW i \in 1 .. n
  PROVE  /\ CutOne(s, i) \in [left : Nat, sizes : [1 .. n -> Nat]]
         /\ \A k \in 1 .. n \ {i} : CutOne(s, i).sizes[k] = s.sizes[k]
<1>. DEFINE half == s.sizes[i] \div 2
            cut == Min({s.left, half})
<1>1. s.left \in Nat /\ s.sizes \in [1 .. n -> Nat] /\ s.sizes[i] \in Nat
  OBVIOUS
<1>2. half \in Nat /\ half <= s.sizes[i]
  BY <1>1
<1>. HIDE DEF half
<1>3. cut \in Nat /\ cut <= s.left /\ cut <= s.sizes[i]
  BY <1>1, <1>2, SmallerOfTwo
<1>4. CutOne(s, i) = IF s.left = 0 \/ cut < MinCut THEN s
                     ELSE [left |-> s.left - cut, sizes |-> [s.sizes EXCEPT ![i] = s.sizes[i] - cut + Marker]]
  BY DEF CutOne, half
<1>. HIDE DEF cut
<1>5. s.left - cut \in Nat /\ s.sizes[i] - cut + Marker \in Nat
  BY <1>1, <1>3 DEF Marker
<1>. DEFINE z == [s.sizes EXCEPT ![i] = s.sizes[i] - cut + Marker]
<1>6. z \in [1 .. n -> Nat] /\ \A k \in 1 .. n \ {i} : z[k] = s.sizes[k]
  BY <1>1, <1>5
<1>. HIDE DEF z
<1>7. CASE s.left = 0 \/ cut < MinCut
  BY <1>4, <1>7
<1>8. CASE ~(s.left = 0 \/ cut < MinCut)
  <2>1. CutOne(s, i) = [left |-> s.left - cut, sizes |-> z]
    BY <1>4, <1>8 DEF z
  <2>. QED  BY <1>5, <1>6, <2>1
<1>. QED  BY <1>7, <1>8

Cuts(g, x, sizes, order, m) ==
  /\ g \in [0 .. Len(order) -> [left : Nat, sizes : [1 .. m -> Nat]]]
  /\ g[0].sizes = sizes
  /\ \A k \in 1 .. Len(order) : g[k] = CutOne(g[k - 1], order[k])
  /\ TruncateMiddle(x, sizes) = g[Len(order)].sizes

\* The messages are cut one by one.
LEMMA CutsRun ==
  ASSUME NEW x \in AnyChat, NEW m \in Nat, NEW sizes \in [1 .. m -> Nat], ~FitsIn(x, sizes)
  PROVE  \E g : Cuts(g, x, sizes, LongestFirst(sizes, Cuttable(m)), m)
<1>. DEFINE order == LongestFirst(sizes, Cuttable(m))
<1>20. order \in Seq(Cuttable(m)) /\ Cuttable(m) \subseteq 1 .. m
  BY OrderOfCuts
<1>21. Total(sizes) - x.budget + Slack \in Nat
  <2>1. SumOf(sizes) \in Nat
    BY SumsCompare
  <2>. QED  BY <2>1 DEF FitsIn, Total, Slack, AnyChat
<1>. DEFINE Truncated ==
       LET order1 == LongestFirst(sizes, Cuttable(m))
           whole == [left |-> Total(sizes) - x.budget + Slack, sizes |-> sizes]
           after[n \in 0 .. Len(order1)] == IF n = 0 THEN whole ELSE CutOne(after[n - 1], order1[n])
       IN after[Len(order1)]
<1>22. Len(sizes) = m
  OBVIOUS
<1>23. TruncateMiddle(x, sizes) = Truncated.sizes
  BY <1>22, Zenon DEF TruncateMiddle
<1>. HIDE DEF order, Truncated
<1>. DEFINE N == Len(order)
            D == [left : Nat, sizes : [1 .. m -> Nat]]
            base == [left |-> Total(sizes) - x.budget + Slack, sizes |-> sizes]
            Step(r, n) == CutOne(r, order[n])
            F == [e \in (1 .. N) \X D |-> Step(e[2], e[1])]
            IsRun(h) == h = [n \in 0 .. N |-> IF n = 0 THEN base ELSE Step(h[n - 1], n)]
<1>1. N \in Nat
  BY <1>20
<1>2. base \in D
  BY <1>21
<1>3. ASSUME NEW n \in 1 .. N, NEW r \in D PROVE Step(r, n) \in D
  <2>. DEFINE a == order[n]
  <2>1. a \in 1 .. m
    BY <1>20
  <2>. HIDE DEF a
  <2>2. CutOne(r, a) \in [left : Nat, sizes : [1 .. m -> Nat]]
    BY <2>1, CutIs
  <2>. QED  BY <2>2 DEF a
<1>. DEFINE g == CHOOSE h : IsRun(h)
<1>4. Truncated = g[N]
  BY Zenon DEF Truncated, order
<1>. HIDE DEF N, D, base, Step
<1>5. F \in [(1 .. N) \X D -> D] /\ \A n \in 1 .. N, r \in D : F[<<n, r>>] = Step(r, n)
  BY <1>3
<1>. HIDE DEF F
<1>6. PICK f : Follows(f, N, D, base, F)
  BY <1>1, <1>2, <1>5, Recursion
<1>7. IsRun(f)
  <2>1. ASSUME NEW n \in 0 .. N PROVE f[n] = IF n = 0 THEN base ELSE Step(f[n - 1], n)
    <3>1. CASE n = 0
      BY <1>6, <3>1 DEF Follows
    <3>2. CASE n # 0
      <4>1. n \in 1 .. N /\ n - 1 \in 0 .. N
        BY <1>1, <3>2
      <4>. QED  BY <1>5, <1>6, <3>2, <4>1 DEF Follows
    <3>. QED  BY <3>1, <3>2
  <2>. QED  BY <1>6, <2>1 DEF Follows
<1>8. IsRun(g)
  <2>1. \E h : IsRun(h)
    <3>. HIDE DEF IsRun
    <3>. QED  BY <1>7
  <2>. HIDE DEF IsRun
  <2>. QED  BY <2>1
<1>. HIDE DEF g
<1>9. g[0] = base /\ DOMAIN g = 0 .. N /\ g = [n \in 0 .. N |-> g[n]]
  BY <1>1, <1>8
<1>10. ASSUME NEW n \in 1 .. N PROVE g[n] = Step(g[n - 1], n)
  <2>1. n \in 0 .. N /\ n # 0
    BY <1>1
  <2>. QED  BY <1>8, <2>1
<1>11. g \in [0 .. N -> D]
  <2>. DEFINE T == {n \in 0 .. N : g[n] \in D}
  <2>1. 0 \in T
    BY <1>1, <1>2, <1>9
  <2>2. ASSUME NEW n \in 1 .. N, n - 1 \in T PROVE n \in T
    <3>1. n \in 0 .. N
      BY <1>1
    <3>. QED  BY <1>3, <1>10, <2>2, <3>1
  <2>3. \A n \in 0 .. N : n \in T
    <3>. HIDE DEF T
    <3>. QED  BY <1>1, <2>1, <2>2, UpTo
  <2>. QED  BY <1>9, <2>3
<1>12. g[0].sizes = sizes
  BY <1>9 DEF base
<1>. QED  BY <1>4, <1>10, <1>11, <1>12, <1>23 DEF N, D, Step, Cuts, order

\* Cutting leaves both ends as they were.
LEMMA TruncatedIs ==
  ASSUME NEW x \in AnyChat, NEW m \in Nat, NEW sizes \in [1 .. m -> Nat], ~FitsIn(x, sizes)
  PROVE  /\ TruncateMiddle(x, sizes) \in [1 .. m -> Nat]
         /\ Middle(m) # {} => \A i \in 1 .. m \ Middle(m) : TruncateMiddle(x, sizes)[i] = sizes[i]
<1>. DEFINE S == Cuttable(m)
            order == LongestFirst(sizes, S)
            N == Len(order)
            D == [left : Nat, sizes : [1 .. m -> Nat]]
<1>1. order \in Seq(S) /\ S \subseteq 1 .. m
  BY OrderOfCuts
<1>2. PICK g : Cuts(g, x, sizes, order, m)
  BY CutsRun
<1>. HIDE DEF S, order
<1>3. N \in Nat /\ N \in 0 .. N /\ 0 \in 0 .. N /\ \A k \in 1 .. N : order[k] \in S
  BY <1>1
<1>4. /\ g \in [0 .. N -> D] /\ g[0].sizes = sizes /\ \A k \in 1 .. N : g[k] = CutOne(g[k - 1], order[k])
      /\ TruncateMiddle(x, sizes) = g[N].sizes
  BY <1>2 DEF Cuts
<1>. HIDE DEF N
<1>. DEFINE Same(k) == \A i \in 1 .. m \ S : g[k].sizes[i] = sizes[i]
            T == {k \in 0 .. N : Same(k)}
<1>5. 0 \in T
  BY <1>3, <1>4
<1>6. ASSUME NEW k \in 1 .. N, k - 1 \in T PROVE k \in T
  <2>. DEFINE s == g[k - 1]
              e == order[k]
  <2>1. k \in 0 .. N /\ k - 1 \in 0 .. N
    BY <1>3
  <2>2. s \in D /\ e \in S /\ e \in 1 .. m /\ g[k] = CutOne(s, e) /\ \A i \in 1 .. m \ S : s.sizes[i] = sizes[i]
    BY <1>1, <1>3, <1>4, <1>6, <2>1
  <2>. HIDE DEF s, e
  <2>3. \A i \in 1 .. m \ {e} : CutOne(s, e).sizes[i] = s.sizes[i]
    BY <2>2, CutIs
  <2>4. Same(k)
    BY <2>2, <2>3
  <2>. QED  BY <2>1, <2>4
<1>7. N \in T
  <2>. HIDE DEF T
  <2>1. \A k \in 0 .. N : k \in T
    BY <1>3, <1>5, <1>6, UpTo
  <2>. QED  BY <1>3, <2>1
<1>8. g[N] \in D
  BY <1>3, <1>4
<1>9. Middle(m) # {} => S = Middle(m)
  BY DEF S, Cuttable
<1>. QED  BY <1>4, <1>7, <1>8, <1>9

\* What is dropped goes from the oldest on, and no further than it must.
LEMMA DroppedIs ==
  ASSUME NEW budget \in Nat, NEW m \in Nat, NEW sizes \in [1 .. m -> Nat],
         NEW x, x.budget = budget, ~FitsIn(x, sizes)
  PROVE  LET kept == DropMiddle(x, sizes)
         IN /\ kept \subseteq 1 .. m /\ 1 .. m \ Middle(m) \subseteq kept
            /\ \/ Total([i \in 1 .. m |-> IF i \in kept THEN sizes[i] ELSE 0]) <= budget
               \/ kept \cap Middle(m) = {}
<1>. DEFINE kept == DropMiddle(x, sizes)
            M == Middle(m)
            excess == Total(sizes) - budget
            early(i) == [k \in 1 .. m |-> IF k < i /\ k \in M THEN sizes[k] ELSE 0]
            stays == [i \in 1 .. m |-> IF i \in kept THEN sizes[i] ELSE 0]
<1>1. Len(sizes) = m
  OBVIOUS
<1>2. kept = {i \in 1 .. m : i \notin M \/ Total(early(i)) >= excess}
  BY <1>1 DEF DropMiddle
<1>. HIDE DEF kept
<1>3. \A i \in 1 .. m : early(i) \in [1 .. m -> Nat]
  OBVIOUS
<1>4. stays \in [1 .. m -> Nat] /\ Total(stays) \in Nat /\ Total(sizes) \in Nat
  <2>1. stays \in [1 .. m -> Nat]
    OBVIOUS
  <2>. HIDE DEF stays
  <2>. QED  BY <2>1, SumsCompare DEF Total
<1>5. ASSUME kept \cap M # {} PROVE Total(stays) <= budget
  <2>. DEFINE S == kept \cap M
              f == Min(S)
  <2>1. S \in SUBSET Nat /\ IsFiniteSet(S) /\ S # {}
    <3>1. S \in SUBSET M /\ IsFiniteSet(M) /\ M \in SUBSET Nat
      BY MiddleIs
    <3>. QED  BY <1>5, <3>1, FS_Subset
  <2>2. f \in S /\ \A k \in S : f <= k
    <3>. HIDE DEF S
    <3>. QED  BY <2>1, LeastIs
  <2>3. f \in 1 .. m /\ f \in M /\ Total(early(f)) >= excess
    BY <1>2, <2>2
  <2>. DEFINE e == early(f)
  <2>4. e \in [1 .. m -> Nat]
    BY <1>3, <2>3
  <2>5. ASSUME NEW k \in 1 .. m PROVE sizes[k] = stays[k] + e[k]
    <3>1. CASE k \in kept
      <4>1. k \in M => k \in S
        BY <3>1
      <4>2. k \in M => f <= k
        <5>. HIDE DEF S, f
        <5>. QED  BY <2>2, <4>1
      <4>3. k \in Nat /\ f \in Nat
        <5>. HIDE DEF f
        <5>. QED  BY <2>3
      <4>4. ~(k < f /\ k \in M)
        <5>. HIDE DEF f, M
        <5>. QED  BY <4>2, <4>3
      <4>. QED  BY <3>1, <4>4
    <3>2. CASE k \notin kept
      <4>1. k \in M /\ ~(Total(early(k)) >= excess)
        BY <1>2, <3>2
      <4>2. CASE k < f
        BY <3>2, <4>1, <4>2
      <4>3. CASE f <= k
        <5>. DEFINE d == early(k)
        <5>1. d \in [1 .. m -> Nat] /\ \A i \in 1 .. m : e[i] <= d[i]
          BY <2>3, <4>3
        <5>. HIDE DEF e, d
        <5>2. SumOf(e) <= SumOf(d) /\ SumOf(e) \in Nat /\ SumOf(d) \in Nat
          BY <2>4, <5>1, SumsCompare
        <5>3. Total(e) >= excess /\ ~(Total(d) >= excess)
          BY <2>3, <4>1 DEF d, e
        <5>4. excess \in Int
          BY <1>4
        <5>. QED  BY <5>2, <5>3, <5>4 DEF Total
      <4>. QED  BY <2>3, <4>2, <4>3
    <3>. QED  BY <3>1, <3>2
  <2>6. Total(e) >= excess
    BY <2>3
  <2>. HIDE DEF e, stays, f
  <2>7. SumOf(sizes) = SumOf(stays) + SumOf(e) /\ SumOf(e) \in Nat
    BY <1>4, <2>4, <2>5, SumsCompare
  <2>. QED  BY <1>4, <2>6, <2>7 DEF Total
<1>6. kept \subseteq 1 .. m /\ 1 .. m \ M \subseteq kept
  BY <1>2
<1>. QED  BY <1>5, <1>6 DEF kept

\* What EndsKept asks of a compressed conversation.
LEMMA ChatKeepsItsEnds ==
  ASSUME NEW x \in AnyChat
  PROVE  LET n == Len(x.sizes)
             c == Compress(x)
             total == Total([i \in 1 .. n |-> IF i \in c.kept THEN c.sizes[i] ELSE 0]) + c.notice
         IN /\ 1 .. n \ Middle(n) \subseteq c.kept
            /\ Middle(n) # {} => \A i \in 1 .. n \ Middle(n) : c.sizes[i] = x.sizes[i]
            /\ \/ total <= x.budget + (IF c.kept = 1 .. n THEN 0 ELSE Notice)
               \/ c.kept \cap Middle(n) = {}
<1>. DEFINE n == Len(x.sizes)
            p == PruneStale(x)
            t == TruncateMiddle(x, p)
            rest(kept, sizes) == Total([i \in 1 .. n |-> IF i \in kept THEN sizes[i] ELSE 0])
            Holds(c) ==
              /\ 1 .. n \ Middle(n) \subseteq c.kept
              /\ Middle(n) # {} => \A i \in 1 .. n \ Middle(n) : c.sizes[i] = x.sizes[i]
              /\ \/ rest(c.kept, c.sizes) + c.notice <= x.budget + (IF c.kept = 1 .. n THEN 0 ELSE Notice)
                 \/ c.kept \cap Middle(n) = {}
<1>1. n \in Nat /\ x.sizes \in [1 .. n -> Nat] /\ DOMAIN x.sizes = 1 .. n /\ x.budget \in Nat
  BY DEF AnyChat
<1>2. p \in [1 .. n -> Nat] /\ \A i \in 1 .. n \ Middle(n) : p[i] = x.sizes[i]
  BY PrunedIs
<1>. HIDE DEF n, p
<1>3. ASSUME NEW s \in [1 .. n -> Nat], NEW kept \in SUBSET (1 .. n), 1 .. n \ Middle(n) \subseteq kept,
             Middle(n) # {} => \A i \in 1 .. n \ Middle(n) : s[i] = x.sizes[i],
             rest(kept, s) <= x.budget \/ kept \cap Middle(n) = {}
      PROVE  Holds(Answered(s, kept))
  <2>. DEFINE r == rest(kept, s)
              c == Answered(s, kept)
  <2>1. r \in Nat
    <3>. DEFINE stays == [i \in 1 .. n |-> IF i \in kept THEN s[i] ELSE 0]
    <3>1. stays \in [1 .. n -> Nat]
      OBVIOUS
    <3>. HIDE DEF stays
    <3>2. SumOf(stays) \in Nat
      BY <1>1, <3>1, SumsCompare
    <3>. QED  BY <3>2 DEF stays, Total
  <2>2. c.kept = kept /\ c.sizes = s /\ c.notice = IF kept = 1 .. n THEN 0 ELSE Notice
    BY DEF Answered
  <2>. HIDE DEF c
  <2>3. rest(c.kept, c.sizes) = r
    BY <2>2
  <2>. HIDE DEF r, rest
  <2>4. r <= x.budget => r + c.notice <= x.budget + (IF c.kept = 1 .. n THEN 0 ELSE Notice)
    BY <1>1, <2>1, <2>2 DEF Notice
  <2>5. r <= x.budget \/ kept \cap Middle(n) = {}
    BY <1>3 DEF r
  <2>6. Holds(c)
    BY <1>3, <2>2, <2>3, <2>4, <2>5
  <2>. QED  BY <2>6 DEF c
<1>4. ASSUME NEW s \in [1 .. n -> Nat], FitsIn(x, s),
             Middle(n) # {} => \A i \in 1 .. n \ Middle(n) : s[i] = x.sizes[i]
      PROVE  Holds(Answered(s, 1 .. n))
  <2>1. [i \in 1 .. n |-> IF i \in 1 .. n THEN s[i] ELSE 0] = s
    OBVIOUS
  <2>2. rest(1 .. n, s) <= x.budget
    BY <1>4, <2>1 DEF FitsIn
  <2>. HIDE DEF Holds, rest
  <2>. QED  BY <1>3, <1>4, <2>2
<1>5. Holds(Compress(x))
  <2>. HIDE DEF Holds
  <2>1. CASE FitsIn(x, x.sizes)
    <3>1. Compress(x) = Answered(x.sizes, 1 .. n)
      BY <1>1, <2>1 DEF Compress
    <3>. QED  BY <1>1, <1>4, <2>1, <3>1
  <2>2. CASE ~FitsIn(x, x.sizes) /\ FitsIn(x, p)
    <3>1. Compress(x) = Answered(p, 1 .. n)
      BY <1>1, <2>2 DEF Compress, p
    <3>. QED  BY <1>2, <1>4, <2>2, <3>1
  <2>3. CASE ~FitsIn(x, x.sizes) /\ ~FitsIn(x, p)
    <3>1. t \in [1 .. n -> Nat] /\ (Middle(n) # {} => \A i \in 1 .. n \ Middle(n) : t[i] = x.sizes[i])
      BY <1>1, <1>2, <2>3, TruncatedIs
    <3>2. Compress(x) = Answered(t, IF FitsIn(x, t) THEN 1 .. n ELSE DropMiddle(x, t))
      BY <1>1, <2>3 DEF Compress, p
    <3>. HIDE DEF t
    <3>3. CASE FitsIn(x, t)
      <4>1. Compress(x) = Answered(t, 1 .. n)
        BY <3>2, <3>3
      <4>. QED  BY <1>4, <3>1, <3>3, <4>1
    <3>4. CASE ~FitsIn(x, t)
      <4>. DEFINE kept == DropMiddle(x, t)
      <4>1. Compress(x) = Answered(t, kept)
        BY <3>2, <3>4
      <4>2. /\ kept \subseteq 1 .. n /\ 1 .. n \ Middle(n) \subseteq kept
            /\ rest(kept, t) <= x.budget \/ kept \cap Middle(n) = {}
        BY <1>1, <3>1, <3>4, DroppedIs
      <4>. HIDE DEF kept, rest
      <4>. QED  BY <1>3, <3>1, <4>1, <4>2
    <3>. QED  BY <3>3, <3>4
  <2>. QED  BY <2>1, <2>2, <2>3
<1>. QED  BY <1>5 DEF n

-----------------------------------------------------------------------------
(* Chunks of two versions, paired by where their middles are. *)
AnySizes == Seq(Nat \ {0}) \ {<<>>}
AnyAlign == [fork : AnySizes, upstream : AnySizes, matched : BOOLEAN]

\* The sum up to a place is the one counted up to it.
LEMMA SumToIs ==
  ASSUME NEW s \in Seq(Nat), NEW g, Sums(g, s), NEW n \in Nat, n <= Len(s)
  PROVE  SumTo(s, n) = g[n]
<1>. DEFINE t == SubSeq(s, 1, n)
<1>1. t \in Seq(Nat) /\ Len(t) = n /\ n \in Nat /\ n <= Len(s) /\ \A i \in 1 .. n : s[i] = t[i]
  OBVIOUS
<1>. HIDE DEF t
<1>2. PICK h : Sums(h, t) /\ SumOf(t) = h[Len(t)]
  BY <1>1, SumIs
<1>3. n <= Len(t)
  BY <1>1
<1>4. \A k \in 0 .. n : g[k] = h[k]
  <2>1. Sums(h, t)
    BY <1>2
  <2>. QED  BY <1>1, <1>3, <2>1, SumsAgree
<1>5. g[n] = SumOf(t)
  BY <1>1, <1>2, <1>4
<1>. QED  BY <1>5 DEF SumTo, t

\* The middles of consecutive chunks ascend.
LEMMA MiddlesAscend ==
  ASSUME NEW s \in AnySizes
  PROVE  /\ SumTo(s, Len(s)) \in Nat \ {0}
         /\ \A i \in 1 .. Len(s) : Midpoint(s, i) \in Nat
         /\ \A i, k \in 1 .. Len(s) : i < k => Midpoint(s, i) < Midpoint(s, k)
<1>. DEFINE N == Len(s)
<1>1. s \in Seq(Nat) /\ N \in Nat \ {0} /\ \A i \in 1 .. N : s[i] \in Nat \ {0}
  BY DEF AnySizes
<1>2. PICK g : Sums(g, s)
  BY <1>1, SumIs
<1>3. g \in [0 .. N -> Nat] /\ g[0] = 0 /\ \A n \in 1 .. N : g[n] = g[n - 1] + s[n]
  BY <1>2 DEF Sums
<1>4. \A n \in 0 .. N : SumTo(s, n) = g[n]
  <2>1. \A n \in 0 .. N : n \in Nat /\ n <= Len(s)
    BY <1>1
  <2>. QED  BY <1>1, <1>2, <2>1, SumToIs
<1>. HIDE DEF N
<1>. DEFINE T == {k \in 0 .. N : \A i \in 0 .. k : g[i] <= g[k]}
<1>5. \A k \in 0 .. N : k \in T
  <2>1. 0 \in T
    BY <1>1, <1>3
  <2>2. ASSUME NEW k \in 1 .. N, k - 1 \in T PROVE k \in T
    <3>1. k \in 0 .. N /\ k - 1 \in 0 .. N /\ g[k - 1] \in Nat /\ s[k] \in Nat /\ g[k] = g[k - 1] + s[k]
      BY <1>1, <1>3
    <3>2. ASSUME NEW i \in 0 .. k PROVE g[i] <= g[k]
      <4>1. i = k \/ i \in 0 .. k - 1
        BY <3>1
      <4>2. g[i] \in Nat
        BY <1>1, <1>3
      <4>. QED  BY <2>2, <3>1, <4>1, <4>2
    <3>. QED  BY <3>1, <3>2
  <2>. HIDE DEF T
  <2>. QED  BY <1>1, <2>1, <2>2, UpTo
<1>6. \A i \in 1 .. N : Midpoint(s, i) = 2 * g[i - 1] + s[i] /\ g[i - 1] \in Nat /\ g[i] \in Nat
                        /\ g[i] = g[i - 1] + s[i] /\ s[i] \in Nat \ {0}
  <2>1. \A i \in 1 .. N : i - 1 \in 0 .. N /\ i \in 0 .. N
    BY <1>1
  <2>. QED  BY <1>1, <1>3, <1>4, <2>1 DEF Midpoint
<1>7. ASSUME NEW i \in 1 .. N, NEW k \in 1 .. N, i < k
      PROVE  Midpoint(s, i) < Midpoint(s, k)
  <2>1. k - 1 \in 0 .. N /\ i \in 0 .. k - 1
    BY <1>1, <1>7
  <2>2. g[i] <= g[k - 1]
    BY <1>5, <2>1
  <2>. DEFINE a == g[i - 1]
              b == g[i]
              c == g[k - 1]
              p1 == s[i]
              p2 == s[k]
  <2>3. /\ Midpoint(s, i) = 2 * a + p1 /\ a \in Nat /\ b \in Nat /\ b = a + p1 /\ p1 \in Nat \ {0}
        /\ Midpoint(s, k) = 2 * c + p2 /\ c \in Nat /\ p2 \in Nat \ {0} /\ b <= c
    BY <1>6, <2>2
  <2>. HIDE DEF a, b, c, p1, p2
  <2>. QED  BY <2>3
<1>8. \A i \in 1 .. N : Midpoint(s, i) \in Nat
  BY <1>6
<1>9. SumTo(s, N) \in Nat \ {0}
  <2>1. N \in 1 .. N /\ N \in 0 .. N
    BY <1>1
  <2>. QED  BY <1>4, <1>6, <2>1
<1>. QED  BY <1>7, <1>8, <1>9 DEF N

\* The closest is the first of the least costs.
LEMMA ClosestIs ==
  ASSUME NEW n \in Nat \ {0}, NEW costs \in [1 .. n -> Nat]
  PROVE  LET c == ClosestTo(costs)
         IN /\ c \in 1 .. n /\ \A k \in 1 .. n : costs[c] <= costs[k]
            /\ \A k \in 1 .. n : k < c => costs[c] < costs[k]
<1>. DEFINE V == {costs[k] : k \in 1 .. n}
            B == {i \in 1 .. n : \A k \in 1 .. n : costs[i] <= costs[k]}
<1>1. V \in SUBSET Nat /\ V # {}
  <2>1. 1 \in 1 .. n
    OBVIOUS
  <2>. QED  BY <2>1
<1>2. Min(V) \in V /\ \A v \in V : Min(V) <= v
  <2>. HIDE DEF V
  <2>. QED  BY <1>1, MinIsLeast
<1>3. B \in SUBSET Nat /\ B # {}
  <2>1. PICK k \in 1 .. n : costs[k] = Min(V)
    BY <1>2
  <2>2. k \in B
    <3>. DEFINE v == Min(V)
    <3>1. \A j \in 1 .. n : v <= costs[j]
      BY <1>2
    <3>. HIDE DEF v
    <3>. QED  BY <2>1, <3>1 DEF v
  <2>. HIDE DEF B
  <2>3. B # {}
    BY <2>2
  <2>. QED  BY <2>3 DEF B
<1>4. Min(B) \in B /\ \A i \in B : Min(B) <= i
  <2>. HIDE DEF B
  <2>. QED  BY <1>3, MinIsLeast
<1>. DEFINE c == Min(B)
<1>5. c \in 1 .. n /\ \A k \in 1 .. n : costs[c] <= costs[k]
  BY <1>4
<1>6. ASSUME NEW k \in 1 .. n, k < c PROVE costs[c] < costs[k]
  <2>1. k \notin B
    <3>1. k \in B => c <= k
      BY <1>4
    <3>. HIDE DEF c, B
    <3>. QED  BY <1>5, <1>6, <3>1
  <2>2. PICK j \in 1 .. n : ~(costs[k] <= costs[j])
    BY <2>1
  <2>. HIDE DEF c, B
  <2>3. costs[c] <= costs[j] /\ costs[j] \in Nat /\ costs[c] \in Nat /\ costs[k] \in Nat
    BY <1>5
  <2>. QED  BY <2>2, <2>3
<1>7. ClosestTo(costs) = c
  <2>1. DOMAIN costs = 1 .. n
    OBVIOUS
  <2>. QED  BY <2>1 DEF ClosestTo
<1>. HIDE DEF c
<1>. QED  BY <1>5, <1>6, <1>7

\* Of two points and two marks: the earlier mid is not nearest to the later point alone.
LEMMA NearerIsEarlier ==
  ASSUME NEW a \in Nat, NEW b \in Nat, a < b, NEW u \in Nat, NEW v \in Nat,
         Distance(a, u) <= Distance(b, u), Distance(b, v) < Distance(a, v)
  PROVE  u < v
BY DEF Distance

\* Multiplying by a positive number keeps the order.
LEMMA ProductsAscend ==
  ASSUME NEW a \in Nat, NEW b \in Nat, NEW t \in Nat \ {0}
  PROVE  a * t \in Nat /\ b * t \in Nat /\ (a < b => a * t < b * t) /\ (a * t < b * t => a < b)
OBVIOUS

\* What UpstreamCovered asks of the pairing.
LEMMA ChunksCovered ==
  ASSUME NEW x \in AnyAlign
  PROVE  LET pairs == AlignChunks(x)
         IN /\ \A j \in DOMAIN x.upstream : \E i \in DOMAIN pairs :
                 j \in pairs[i] /\ \A k \in DOMAIN pairs : j \in pairs[k] => k = i
            /\ \A i, k \in DOMAIN pairs : i < k => \A j \in pairs[i], m \in pairs[k] : j < m
<1>. DEFINE pairs == AlignChunks(x)
            F == Len(x.fork)
            U == Len(x.upstream)
<1>1. /\ x.fork \in AnySizes /\ x.upstream \in AnySizes
      /\ F \in Nat \ {0} /\ U \in Nat \ {0} /\ DOMAIN x.fork = 1 .. F /\ DOMAIN x.upstream = 1 .. U
  BY DEF AnyAlign, AnySizes
<1>2. DOMAIN pairs = 1 .. F
  BY <1>1 DEF AlignChunks
<1>3. CASE F = U /\ x.matched
  <2>1. \A i \in 1 .. F : pairs[i] = {i}
    BY <1>1, <1>3 DEF AlignChunks
  <2>. HIDE DEF pairs, F, U
  <2>. QED  BY <1>1, <1>2, <1>3, <2>1 DEF pairs
<1>4. CASE ~(F = U /\ x.matched)
  <2>. DEFINE costs(j) == [k \in DOMAIN x.fork |-> Gap(x, k, j)]
              near(j) == ClosestTo(costs(j))
              point(i) == Midpoint(x.fork, i) * SumTo(x.upstream, U)
              mid(j) == Midpoint(x.upstream, j) * SumTo(x.fork, F)
  <2>1. \A i \in 1 .. F : pairs[i] = {j \in 1 .. U : near(j) = i}
    BY <1>1, <1>4 DEF AlignChunks
  <2>2. /\ SumTo(x.upstream, U) \in Nat \ {0} /\ SumTo(x.fork, F) \in Nat \ {0}
        /\ \A i \in 1 .. F : Midpoint(x.fork, i) \in Nat
        /\ \A j \in 1 .. U : Midpoint(x.upstream, j) \in Nat
        /\ \A i, k \in 1 .. F : i < k => Midpoint(x.fork, i) < Midpoint(x.fork, k)
        /\ \A i, k \in 1 .. U : i < k => Midpoint(x.upstream, i) < Midpoint(x.upstream, k)
    BY <1>1, MiddlesAscend
  <2>3. /\ \A i \in 1 .. F : point(i) \in Nat
        /\ \A j \in 1 .. U : mid(j) \in Nat
        /\ \A i, k \in 1 .. F : i < k => point(i) < point(k)
        /\ \A i, k \in 1 .. U : i < k => mid(i) < mid(k)
    BY <2>2, ProductsAscend
  <2>4. \A i \in 1 .. F, j \in 1 .. U : costs(j)[i] = Distance(point(i), mid(j))
    BY <1>1 DEF Gap
  <2>5. \A j \in 1 .. U : costs(j) \in [1 .. F -> Nat]
    <3>1. \A j \in 1 .. U : DOMAIN costs(j) = 1 .. F /\ costs(j) = [k \in 1 .. F |-> costs(j)[k]]
      BY <1>1
    <3>2. \A a, b \in Nat : Distance(a, b) \in Nat
      BY DEF Distance
    <3>. HIDE DEF costs, point, mid
    <3>3. \A i \in 1 .. F, j \in 1 .. U : costs(j)[i] \in Nat
      BY <2>3, <2>4, <3>2
    <3>. QED  BY <3>1, <3>3
  <2>. HIDE DEF costs
  <2>6. ASSUME NEW j \in 1 .. U
        PROVE  /\ near(j) \in 1 .. F
               /\ \A k \in 1 .. F : Distance(point(near(j)), mid(j)) <= Distance(point(k), mid(j))
               /\ \A k \in 1 .. F : k < near(j) => Distance(point(near(j)), mid(j)) < Distance(point(k), mid(j))
    <3>1. /\ near(j) \in 1 .. F /\ \A k \in 1 .. F : costs(j)[near(j)] <= costs(j)[k]
          /\ \A k \in 1 .. F : k < near(j) => costs(j)[near(j)] < costs(j)[k]
      BY <1>1, <2>5, ClosestIs
    <3>. HIDE DEF near, point, mid
    <3>. QED  BY <2>4, <3>1
  <2>. HIDE DEF near, point, mid
  <2>7. ASSUME NEW j \in 1 .. U, NEW m \in 1 .. U, near(j) < near(m)
        PROVE  j < m
    <3>. DEFINE a == point(near(j))
                b == point(near(m))
                u == mid(j)
                v == mid(m)
    <3>1. near(j) \in 1 .. F /\ near(m) \in 1 .. F
      BY <2>6
    <3>2. a \in Nat /\ b \in Nat /\ u \in Nat /\ v \in Nat /\ a < b
      BY <2>3, <2>7, <3>1
    <3>3. Distance(a, u) <= Distance(b, u) /\ Distance(b, v) < Distance(a, v)
      BY <2>6, <2>7, <3>1
    <3>. HIDE DEF a, b, u, v
    <3>4. u < v
      BY <3>2, <3>3, NearerIsEarlier
    <3>5. j = m \/ m < j \/ j < m
      BY <1>1
    <3>6. m < j => v < u
      BY <2>3 DEF u, v
    <3>7. j = m => u = v
      BY DEF u, v
    <3>. QED  BY <3>2, <3>4, <3>5, <3>6, <3>7
  <2>. HIDE DEF pairs, F, U
  <2>8. ASSUME NEW j \in 1 .. U
        PROVE  \E i \in 1 .. F : j \in pairs[i] /\ \A k \in 1 .. F : j \in pairs[k] => k = i
    <3>1. near(j) \in 1 .. F /\ j \in pairs[near(j)] /\ \A k \in 1 .. F : j \in pairs[k] => k = near(j)
      BY <2>1, <2>6
    <3>. QED  BY <3>1
  <2>9. \A i, k \in 1 .. F : i < k => \A j \in pairs[i], m \in pairs[k] : j < m
    BY <2>1, <2>7
  <2>. QED  BY <1>1, <1>2, <2>8, <2>9 DEF pairs
<1>. QED  BY <1>3, <1>4

-----------------------------------------------------------------------------
(* A file cut into chunks: ascending spans of lines that leave out no line    *)
(* but blank ones.                                                            *)
Span == Nat \X Nat
Spans(out) ==
  /\ out \in Seq(Span) /\ \A i \in 1 .. Len(out) : out[i][1] <= out[i][2]
  /\ \A i, k \in 1 .. Len(out) : i < k => out[i][2] < out[k][1]
InChunk(out, l) == \E i \in 1 .. Len(out) : l \in out[i][1] .. out[i][2]

Begins(g, x) ==
  /\ g \in [0 .. Len(x.lines) -> Seq(Nat)] /\ g[0] = <<1>>
  /\ \A n \in 1 .. Len(x.lines) : g[n] = AddStart(x, g[n - 1], n)
  /\ IndentStarts(x) = g[Len(x.lines)]
\* The lines are looked at one by one.
LEMMA StartsRun ==
  ASSUME NEW x, x.lines \in Seq(LineClass)
  PROVE  \E g : Begins(g, x)
<1>. DEFINE N == Len(x.lines)
            D == Seq(Nat)
            base == <<1>>
            Step(r, n) == AddStart(x, r, n)
            F == [e \in (1 .. N) \X D |-> Step(e[2], e[1])]
            IsRun(h) == h = [n \in 0 .. N |-> IF n = 0 THEN base ELSE Step(h[n - 1], n)]
<1>1. N \in Nat
  OBVIOUS
<1>2. base \in D
  OBVIOUS
<1>3. ASSUME NEW n \in 1 .. N, NEW r \in D PROVE Step(r, n) \in D
  BY DEF AddStart
<1>. DEFINE g == CHOOSE h : IsRun(h)
<1>4. IndentStarts(x) = g[N]
  BY Zenon DEF IndentStarts
<1>. HIDE DEF N, D, base, Step
<1>5. F \in [(1 .. N) \X D -> D] /\ \A n \in 1 .. N, r \in D : F[<<n, r>>] = Step(r, n)
  BY <1>3
<1>. HIDE DEF F
<1>6. PICK f : Follows(f, N, D, base, F)
  BY <1>1, <1>2, <1>5, Recursion
<1>7. IsRun(f)
  <2>1. ASSUME NEW n \in 0 .. N PROVE f[n] = IF n = 0 THEN base ELSE Step(f[n - 1], n)
    <3>1. CASE n = 0
      BY <1>6, <3>1 DEF Follows
    <3>2. CASE n # 0
      <4>1. n \in 1 .. N /\ n - 1 \in 0 .. N
        BY <1>1, <3>2
      <4>. QED  BY <1>5, <1>6, <3>2, <4>1 DEF Follows
    <3>. QED  BY <3>1, <3>2
  <2>. QED  BY <1>6, <2>1 DEF Follows
<1>8. IsRun(g)
  <2>1. \E h : IsRun(h)
    <3>. HIDE DEF IsRun
    <3>. QED  BY <1>7
  <2>. HIDE DEF IsRun
  <2>. QED  BY <2>1
<1>. HIDE DEF g
<1>9. g[0] = base /\ DOMAIN g = 0 .. N /\ g = [n \in 0 .. N |-> g[n]]
  BY <1>1, <1>8
<1>10. ASSUME NEW n \in 1 .. N PROVE g[n] = Step(g[n - 1], n)
  <2>1. n \in 0 .. N /\ n # 0
    BY <1>1
  <2>. QED  BY <1>8, <2>1
<1>11. g \in [0 .. N -> D]
  <2>. DEFINE T == {n \in 0 .. N : g[n] \in D}
  <2>1. 0 \in T
    BY <1>1, <1>2, <1>9
  <2>2. ASSUME NEW n \in 1 .. N, n - 1 \in T PROVE n \in T
    <3>1. n \in 0 .. N
      BY <1>1
    <3>. QED  BY <1>3, <1>10, <2>2, <3>1
  <2>3. \A n \in 0 .. N : n \in T
    <3>. HIDE DEF T
    <3>. QED  BY <1>1, <2>1, <2>2, UpTo
  <2>. QED  BY <1>9, <2>3
<1>. QED  BY <1>4, <1>9, <1>10, <1>11 DEF N, D, base, Step, Begins

Climbs(s, n) ==
  /\ s \in Seq(Nat) /\ Len(s) \in Nat \ {0} /\ s[1] = 1 /\ \A i \in 1 .. Len(s) : s[i] <= n
  /\ \A i, k \in 1 .. Len(s) : i < k => s[i] < s[k]

\* Chunks cut by indentation start at the first line and ascend.
LEMMA StartsClimb ==
  ASSUME NEW x, x.lines \in Seq(LineClass), Len(x.lines) > 0
  PROVE  Climbs(IndentStarts(x), Len(x.lines))
<1>. DEFINE N == Len(x.lines)
<1>1. PICK g : Begins(g, x)
  BY StartsRun
<1>. DEFINE Up(n) == IF n = 0 THEN 1 ELSE n
            U == {n \in 0 .. N : Climbs(g[n], Up(n))}
<1>2. N \in Nat \ {0} /\ N \in 0 .. N /\ 0 \in 0 .. N
  OBVIOUS
<1>3. /\ g \in [0 .. N -> Seq(Nat)] /\ g[0] = <<1>> /\ IndentStarts(x) = g[N]
      /\ \A n \in 1 .. N : g[n] = AddStart(x, g[n - 1], n)
  BY <1>1 DEF Begins
<1>. HIDE DEF N
<1>4. 0 \in U
  <2>. DEFINE e == <<1>>
  <2>1. e \in Seq(Nat) /\ Len(e) = 1 /\ e[1] = 1
    OBVIOUS
  <2>. HIDE DEF e
  <2>2. \A i \in 1 .. Len(e) : i = 1
    BY <2>1
  <2>3. Climbs(e, 1)
    BY <2>1, <2>2 DEF Climbs
  <2>4. g[0] = e /\ Up(0) = 1
    BY <1>3 DEF e
  <2>. QED  BY <1>2, <2>3, <2>4
<1>5. ASSUME NEW n \in 1 .. N, n - 1 \in U PROVE n \in U
  <2>. DEFINE s == g[n - 1]
              t == Append(s, n)
  <2>7. n \in 0 .. N /\ n - 1 \in 0 .. N /\ n \in Nat
    BY <1>2
  <2>8. g[n] = AddStart(x, s, n) /\ s \in Seq(Nat)
    BY <1>3, <2>7
  <2>9. g[n] = s \/ (n > 1 /\ g[n] = t)
    <3>. HIDE DEF s
    <3>. QED  BY <2>8 DEF AddStart
  <2>1. n \in 0 .. N /\ n - 1 \in 0 .. N /\ Climbs(s, Up(n - 1)) /\ Up(n) = n /\ s \in Seq(Nat) /\ n \in Nat
    <3>1. Climbs(s, Up(n - 1))
      BY <1>5
    <3>. QED  BY <2>7, <2>8, <3>1
  <2>2. Up(n - 1) <= n /\ (n > 1 => Up(n - 1) < n) /\ Up(n - 1) \in Nat
    BY <2>1
  <2>. HIDE DEF s, Up
  <2>3. Climbs(s, n)
    BY <2>1, <2>2 DEF Climbs
  <2>4. ASSUME n > 1 PROVE Climbs(t, n)
    <3>1. /\ t \in Seq(Nat) /\ Len(t) = Len(s) + 1 /\ t[Len(s) + 1] = n /\ \A i \in 1 .. Len(s) : t[i] = s[i]
      BY <2>1, AppendIs
    <3>2. \A i \in 1 .. Len(s) : s[i] < n
      BY <2>1, <2>2, <2>4 DEF Climbs
    <3>. HIDE DEF t
    <3>3. /\ s[1] = 1 /\ Len(s) \in Nat \ {0} /\ \A i \in 1 .. Len(s) : s[i] \in Nat /\ s[i] <= n
          /\ \A i, k \in 1 .. Len(s) : i < k => s[i] < s[k]
      BY <2>1, <2>3 DEF Climbs
    <3>. DEFINE m == Len(s)
    <3>. HIDE DEF m
    <3>4. \A i \in 1 .. m + 1 : i \in 1 .. m \/ i = m + 1
      BY <3>3 DEF m
    <3>5. t[1] = 1 /\ \A i \in 1 .. Len(t) : t[i] <= n
      BY <2>1, <3>1, <3>3, <3>4 DEF m
    <3>6. ASSUME NEW i \in 1 .. Len(t), NEW k \in 1 .. Len(t), i < k PROVE t[i] < t[k]
      <4>1. i \in 1 .. m
        BY <3>1, <3>3, <3>4, <3>6 DEF m
      <4>2. k \in 1 .. m \/ k = m + 1
        BY <3>1, <3>4 DEF m
      <4>. QED  BY <3>1, <3>2, <3>3, <3>6, <4>1, <4>2 DEF m
    <3>. QED  BY <3>1, <3>3, <3>5, <3>6 DEF Climbs
  <2>5. Climbs(g[n], n)
    BY <2>3, <2>4, <2>9
  <2>. QED  BY <2>1, <2>5
<1>6. N \in U
  <2>. HIDE DEF U
  <2>1. \A n \in 0 .. N : n \in U
    BY <1>2, <1>4, <1>5, UpTo
  <2>. QED  BY <1>2, <2>1
<1>. QED  BY <1>2, <1>3, <1>6 DEF N

\* So they are spans that leave out no line.
LEMMA IndentChunksAre ==
  ASSUME NEW x, x.lines \in Seq(LineClass), Len(x.lines) > 0
  PROVE  Spans(IndentChunks(x)) /\ \A l \in 1 .. Len(x.lines) : InChunk(IndentChunks(x), l)
<1>. DEFINE s == IndentStarts(x)
            n == Len(x.lines)
            m == Len(s)
            out == IndentChunks(x)
<1>1. Climbs(s, n) /\ n \in Nat \ {0}
  BY StartsClimb
<1>2. DOMAIN s = 1 .. m /\ m \in Nat \ {0}
  BY <1>1 DEF Climbs
<1>3. out = [c \in 1 .. m |-> <<s[c], IF c = m THEN n ELSE s[c + 1] - 1>>]
  BY <1>2 DEF IndentChunks
<1>. HIDE DEF s, n, m, out
<1>4. /\ \A c \in 1 .. m : s[c] \in Nat /\ s[c] <= n /\ s[c] >= 1
      /\ \A i, k \in 1 .. m : i < k => s[i] < s[k]
      /\ s[1] = 1
  <2>1. s[1] = 1 /\ \A c \in 1 .. m : s[c] \in Nat /\ s[c] <= n
    BY <1>1, <1>2 DEF Climbs, m
  <2>2. \A i, k \in 1 .. m : i < k => s[i] < s[k]
    BY <1>1 DEF Climbs, m
  <2>3. 1 \in 1 .. m /\ \A c \in 1 .. m : c = 1 \/ 1 < c
    BY <1>2
  <2>4. \A c \in 1 .. m : s[c] >= 1
    BY <2>1, <2>2, <2>3
  <2>. QED  BY <2>1, <2>2, <2>4
<1>5. ASSUME NEW c \in 1 .. m
      PROVE  /\ out[c] \in Span /\ out[c][1] = s[c] /\ s[c] <= out[c][2] /\ out[c][2] \in Nat
             /\ c = m => out[c][2] = n
             /\ c # m => c + 1 \in 1 .. m /\ out[c][2] = s[c + 1] - 1
  <2>1. CASE c = m
    BY <1>1, <1>3, <1>4, <2>1 DEF Span
  <2>2. CASE c # m
    <3>1. c + 1 \in 1 .. m /\ c < c + 1
      BY <1>2, <2>2
    <3>2. s[c] \in Nat /\ s[c + 1] \in Nat /\ s[c] < s[c + 1]
      BY <1>4, <3>1
    <3>3. s[c + 1] - 1 \in Nat /\ s[c] <= s[c + 1] - 1
      BY <3>2
    <3>. QED  BY <1>3, <2>2, <3>1, <3>2, <3>3 DEF Span
  <2>. QED  BY <2>1, <2>2
<1>6. out \in Seq(Span) /\ Len(out) = m
  BY <1>2, <1>3, <1>5
<1>7. ASSUME NEW i \in 1 .. m, NEW k \in 1 .. m, i < k PROVE out[i][2] < out[k][1]
  <2>1. i # m /\ (i + 1 = k \/ i + 1 < k)
    BY <1>2, <1>7
  <2>2. i + 1 \in 1 .. m /\ out[i][2] = s[i + 1] - 1 /\ out[k][1] = s[k]
    BY <1>5, <2>1
  <2>3. s[i + 1] = s[k] \/ s[i + 1] < s[k]
    BY <1>4, <2>1, <2>2
  <2>4. s[i + 1] \in Nat /\ s[k] \in Nat
    BY <1>4, <2>2
  <2>. QED  BY <2>2, <2>3, <2>4
<1>8. ASSUME NEW l \in 1 .. n PROVE InChunk(out, l)
  <2>. DEFINE S == {c \in 1 .. m : s[c] <= l}
              c == Max(S)
  <2>1. S \in SUBSET Nat /\ IsFiniteSet(S) /\ S # {}
    <3>1. 1 \in S
      BY <1>2, <1>4
    <3>2. IsFiniteSet(1 .. m) /\ S \subseteq 1 .. m
      BY <1>2, FS_Interval
    <3>3. IsFiniteSet(S)
      BY <3>2, FS_Subset
    <3>. HIDE DEF S
    <3>. QED  BY <3>1, <3>2, <3>3
  <2>2. c \in S /\ \A k \in S : k <= c
    <3>. HIDE DEF S
    <3>. QED  BY <2>1, LeastIs
  <2>. HIDE DEF c
  <2>3. c \in 1 .. m /\ s[c] <= l
    BY <2>2
  <2>4. l <= out[c][2]
    <3>1. CASE c = m
      BY <1>1, <1>5, <2>3, <3>1
    <3>2. CASE c # m
      <4>1. c + 1 \in 1 .. m /\ out[c][2] = s[c + 1] - 1
        BY <1>5, <2>3, <3>2
      <4>2. c + 1 \notin S
        BY <2>2, <2>3
      <4>3. ~(s[c + 1] <= l) /\ s[c + 1] \in Nat
        BY <1>4, <4>1, <4>2
      <4>. QED  BY <1>1, <4>1, <4>3
    <3>. QED  BY <3>1, <3>2
  <2>5. l \in out[c][1] .. out[c][2]
    BY <1>4, <1>5, <2>3, <2>4
  <2>. QED  BY <1>6, <2>3, <2>5 DEF InChunk
<1>9. Spans(out)
  BY <1>5, <1>6, <1>7 DEF Spans
<1>. QED  BY <1>8, <1>9 DEF n, out

\* The top-level nodes of a file are spans that leave out only blank lines.
LEMMA NodesAre ==
  ASSUME NEW x, x.lines \in Seq(LineClass)
  PROVE  /\ Spans(Nodes(x))
         /\ \A l \in DOMAIN x.lines : Blank(x, l) \/ InChunk(Nodes(x), l)
<1>. DEFINE n == Len(x.lines)
            H == Heads(x)
            at0 == Ascending(H)
            m == Cardinality(H)
            BodyOf(i) == {k \in 1 .. n : k = i \/ (k > i /\ ~Blank(x, k) /\ \A h \in H : h <= i \/ h > k)}
            nodes == Nodes(x)
<1>1. n \in Nat /\ DOMAIN x.lines = 1 .. n
  OBVIOUS
<1>2. H \subseteq 1 .. n /\ H \in SUBSET Nat /\ IsFiniteSet(H) /\ IsFiniteSet(1 .. n)
  <2>1. H \subseteq 1 .. n
    BY <1>1 DEF Heads
  <2>2. IsFiniteSet(1 .. n)
    BY <1>1, FS_Interval
  <2>3. IsFiniteSet(H)
    BY <2>1, <2>2, FS_Subset
  <2>. QED  BY <2>1, <2>2, <2>3
<1>3. /\ \A i \in H : ~Blank(x, i)
      /\ \A l \in 1 .. n : Blank(x, l) \/ l \in H \/ \E k \in 1 .. l - 1 : ~Blank(x, k)
  BY <1>1 DEF Heads
<1>4. \A i \in H : NodeEnd(x, i) = Max(BodyOf(i))
  BY <1>1 DEF NodeEnd
<1>. HIDE DEF n, H
<1>5. /\ at0 \in Seq(H) /\ Len(at0) = m /\ m \in Nat /\ ToSet(at0) = H
      /\ \A i, k \in 1 .. m : i < k <=> at0[i] < at0[k]
  BY <1>2, AscendingIs
<1>6. nodes = [k \in 1 .. m |-> <<at0[k], NodeEnd(x, at0[k])>>]
  <2>1. DOMAIN at0 = 1 .. m
    BY <1>5
  <2>. QED  BY <2>1 DEF Nodes, H
<1>. HIDE DEF at0, m, nodes
<1>7. ASSUME NEW i \in H
      PROVE  /\ NodeEnd(x, i) \in BodyOf(i) /\ \A k \in BodyOf(i) : k <= NodeEnd(x, i)
             /\ NodeEnd(x, i) \in Nat /\ i <= NodeEnd(x, i) /\ i \in Nat
             /\ \A h \in H : h <= i \/ h > NodeEnd(x, i)
  <2>. DEFINE S == BodyOf(i)
  <2>1. i \in 1 .. n
    BY <1>2
  <2>2. S \subseteq 1 .. n /\ i \in S /\ S \in SUBSET Nat
    BY <1>1, <2>1
  <2>3. IsFiniteSet(S)
    BY <1>2, <2>2, FS_Subset
  <2>4. Max(S) \in S /\ \A k \in S : k <= Max(S)
    <3>. HIDE DEF S
    <3>. QED  BY <2>2, <2>3, LeastIs
  <2>5. \A k \in S : k \in Nat /\ i <= k /\ (k # i => \A h \in H : h <= i \/ h > k)
    BY <1>1, <2>1
  <2>6. \A h \in H : h <= i \/ h > i
    BY <1>2, <2>1
  <2>. DEFINE e == NodeEnd(x, i)
  <2>7. e = Max(S)
    BY <1>4
  <2>. HIDE DEF S, e
  <2>8. e \in S /\ (\A k \in S : k <= e) /\ e \in Nat /\ i <= e
    BY <2>4, <2>5, <2>7
  <2>9. \A h \in H : h <= i \/ h > e
    BY <2>5, <2>6, <2>8
  <2>. QED  BY <1>1, <2>1, <2>8, <2>9 DEF S, e
<1>8. ASSUME NEW k \in 1 .. m
      PROVE  /\ at0[k] \in H /\ nodes[k] \in Span /\ nodes[k][1] = at0[k] /\ nodes[k][2] = NodeEnd(x, at0[k])
  <2>1. at0[k] \in H
    BY <1>5
  <2>. DEFINE a == at0[k]
  <2>2. nodes[k] = <<a, NodeEnd(x, a)>>
    BY <1>6
  <2>. HIDE DEF a
  <2>3. a \in H
    BY <2>1 DEF a
  <2>4. a \in Nat /\ NodeEnd(x, a) \in Nat
    BY <1>7, <2>3
  <2>. QED  BY <2>1, <2>2, <2>4 DEF Span, a
<1>9. nodes \in Seq(Span) /\ Len(nodes) = m
  BY <1>5, <1>6, <1>8
<1>10. Spans(nodes)
  <2>1. \A k \in 1 .. m : nodes[k][1] <= nodes[k][2]
    BY <1>7, <1>8
  <2>2. ASSUME NEW i \in 1 .. m, NEW k \in 1 .. m, i < k PROVE nodes[i][2] < nodes[k][1]
    <3>. DEFINE a == at0[i]
                b == at0[k]
    <3>1. a \in H /\ b \in H /\ a < b /\ nodes[i][2] = NodeEnd(x, a) /\ nodes[k][1] = b
      BY <1>5, <1>8, <2>2
    <3>. HIDE DEF a, b
    <3>2. b <= a \/ b > NodeEnd(x, a)
      BY <1>7, <3>1
    <3>3. a \in Nat /\ b \in Nat /\ NodeEnd(x, a) \in Nat
      BY <1>7, <3>1
    <3>. QED  BY <3>1, <3>2, <3>3
  <2>. QED  BY <1>9, <2>1, <2>2 DEF Spans
<1>11. ASSUME NEW l \in 1 .. n, ~Blank(x, l) PROVE InChunk(nodes, l)
  <2>. DEFINE B == {h \in H : h <= l}
              W == {k \in 1 .. n : ~Blank(x, k) /\ k <= l}
              w == Min(W)
  <2>1. l \in Nat /\ l \in W /\ W \in SUBSET Nat
    BY <1>1, <1>11
  <2>2. w \in W /\ \A k \in W : w <= k
    <3>. HIDE DEF W
    <3>1. W # {}
      BY <2>1
    <3>. QED  BY <2>1, <3>1, MinIsLeast
  <2>3. w \in B
    <3>. HIDE DEF w
    <3>1. w \in 1 .. n /\ ~Blank(x, w) /\ w <= l
      BY <2>2
    <3>2. ASSUME NEW k \in 1 .. w - 1, ~Blank(x, k) PROVE FALSE
      <4>1. k \in 1 .. n /\ k <= l /\ k < w
        BY <1>1, <2>1, <3>1
      <4>2. w <= k
        BY <2>2, <3>2, <4>1
      <4>. QED  BY <3>1, <4>1, <4>2
    <3>3. w \in H
      BY <1>3, <3>1, <3>2
    <3>. QED  BY <3>1, <3>3
  <2>4. B \in SUBSET Nat /\ IsFiniteSet(B) /\ B # {}
    <3>1. B \subseteq H
      OBVIOUS
    <3>2. IsFiniteSet(B)
      <4>. HIDE DEF B
      <4>. QED  BY <1>2, <3>1, FS_Subset
    <3>. HIDE DEF B, w
    <3>. QED  BY <1>2, <2>3, <3>1, <3>2
  <2>. DEFINE a == Max(B)
  <2>5. a \in B /\ \A k \in B : k <= a
    <3>. HIDE DEF B
    <3>. QED  BY <2>4, LeastIs
  <2>. HIDE DEF a
  <2>6. a \in H /\ a <= l /\ a \in Nat
    BY <2>4, <2>5
  <2>7. l \in BodyOf(a)
    <3>1. \A h \in H : h <= a \/ h > l
      <4>1. \A h \in H : h \in Nat
        BY <1>2
      <4>2. \A h \in H : h <= l => h <= a
        BY <2>5
      <4>. QED  BY <2>1, <4>1, <4>2
    <3>2. l = a \/ l > a
      BY <2>1, <2>6
    <3>. QED  BY <1>11, <3>1, <3>2
  <2>8. l <= NodeEnd(x, a) /\ NodeEnd(x, a) \in Nat
    BY <1>7, <2>6, <2>7
  <2>9. PICK k \in 1 .. m : at0[k] = a
    <3>1. DOMAIN at0 = 1 .. m
      BY <1>5
    <3>. QED  BY <1>5, <2>6, <3>1 DEF ToSet
  <2>10. nodes[k][1] = a /\ nodes[k][2] = NodeEnd(x, a)
    BY <1>8, <2>9
  <2>11. l \in nodes[k][1] .. nodes[k][2]
    BY <2>1, <2>6, <2>8, <2>10
  <2>. QED  BY <1>9, <2>11 DEF InChunk
<1>. QED  BY <1>1, <1>10, <1>11 DEF n, nodes

\* Merging a node into the chunks leaves out none of its lines.
LEMMA AddNodeIs ==
  ASSUME NEW x, NEW out, Spans(out), NEW node \in Span, node[1] <= node[2],
         out # <<>> => Last(out)[2] < node[1]
  PROVE  LET more == AddNode(x, out, node)
         IN /\ Spans(more) /\ more # <<>> /\ Last(more)[2] = node[2]
            /\ \A l \in Nat : InChunk(out, l) \/ l \in node[1] .. node[2] => InChunk(more, l)
<1>. DEFINE n == Len(out)
            a == Last(out)
            f == Front(out)
            e == <<a[1], node[2]>>
            u == Append(f, e)
            v == Append(out, node)
<1>1. out \in Seq(Span) /\ n \in Nat /\ node[1] \in Nat /\ node[2] \in Nat
  BY DEF Spans, Span
<1>2. CASE out = <<>>
  <2>1. AddNode(x, out, node) = v
    BY <1>2 DEF AddNode
  <2>2. v \in Seq(Span) /\ Len(v) = n + 1 /\ v[n + 1] = node /\ n = 0
    BY <1>1, <1>2, AppendIs
  <2>. HIDE DEF v, n
  <2>3. v # <<>> /\ Last(v) = node /\ \A i \in 1 .. Len(v) : i = 1 /\ v[i] = node
    <3>1. Len(v) = 1 /\ v[1] = node
      BY <2>2
    <3>2. v # <<>> /\ Last(v) = v[1]
      BY <2>2, <3>1 DEF Last
    <3>3. \A i \in 1 .. Len(v) : i = 1
      BY <3>1
    <3>. QED  BY <3>1, <3>2, <3>3
  <2>4. Spans(v)
    BY <2>2, <2>3 DEF Spans
  <2>5. \A l \in Nat : ~InChunk(out, l)
    BY <1>2 DEF InChunk
  <2>6. 1 \in 1 .. Len(v) /\ v[1] = node
    BY <2>2
  <2>. QED  BY <2>1, <2>3, <2>4, <2>5, <2>6 DEF InChunk
<1>3. CASE out # <<>>
  <2>. DEFINE p == n - 1
  <2>1. /\ f \in Seq(Span) /\ a \in Span /\ out = Append(f, a) /\ Len(f) = p /\ p \in Nat /\ n = p + 1
    BY <1>1, <1>3, FrontLast
  <2>. HIDE DEF n, p, f, a
  <2>2. out[n] = a /\ \A i \in 1 .. p : out[i] = f[i]
    BY <2>1, AppendIs
  <2>3. /\ a[1] \in Nat /\ a[2] \in Nat /\ a[1] <= a[2] /\ a[2] < node[1]
        /\ \A i \in 1 .. p : out[i] \in Span /\ out[i][1] <= out[i][2] /\ out[i][2] < a[1]
        /\ \A i, k \in 1 .. p : i < k => out[i][2] < out[k][1]
    <3>1. /\ \A i \in 1 .. n : out[i] \in Span /\ out[i][1] <= out[i][2]
          /\ \A i, k \in 1 .. n : i < k => out[i][2] < out[k][1]
      BY DEF Spans, n
    <3>2. n \in 1 .. n /\ (\A i \in 1 .. p : i \in 1 .. n /\ i < n)
      BY <2>1
    <3>. QED  BY <1>3, <2>1, <2>2, <3>1, <3>2 DEF Span, a
  <2>4. \A i \in 1 .. p : out[i][1] \in Nat /\ out[i][2] \in Nat
    BY <2>3 DEF Span
  <2>5. ASSUME NEW w \in Seq(Span), NEW q \in {p, n}, Len(w) = q + 1, \A i \in 1 .. q : w[i] = out[i],
               w[q + 1] = (IF q = p THEN e ELSE node)
        PROVE  Spans(w) /\ w # <<>> /\ Last(w)[2] = node[2]
               /\ \A l \in Nat : InChunk(out, l) \/ l \in node[1] .. node[2] => InChunk(w, l)
    <3>. DEFINE last == w[q + 1]
    <3>1. /\ last[2] = node[2] /\ last[1] \in Nat /\ last[1] <= last[2]
          /\ q = p => last[1] = a[1]
          /\ q # p => last[1] = node[1] /\ q = n
      <4>1. CASE q = p
        BY <1>1, <2>3, <2>5, <4>1
      <4>2. CASE q # p
        BY <1>1, <2>5, <4>2
      <4>. QED  BY <4>1, <4>2
    <3>2. q \in Nat /\ \A i \in 1 .. q : out[i] \in Span /\ out[i][1] <= out[i][2] /\ out[i][2] < last[1]
      <4>1. \A i \in 1 .. n : i \in 1 .. p \/ i = n
        BY <2>1
      <4>2. \A i \in 1 .. p : out[i][2] < node[1]
        BY <1>1, <2>3, <2>4
      <4>3. CASE q = p
        BY <2>1, <2>3, <3>1, <4>3
      <4>4. CASE q # p
        BY <2>1, <2>2, <2>3, <3>1, <4>1, <4>2, <4>4
      <4>. QED  BY <4>3, <4>4
    <3>3. \A i, k \in 1 .. q : i < k => out[i][2] < out[k][1]
      <4>1. \A i, k \in 1 .. n : i < k => out[i][2] < out[k][1]
        BY DEF Spans, n
      <4>. QED  BY <2>1, <2>3, <4>1
    <3>4. \A i \in 1 .. q + 1 : i \in 1 .. q \/ i = q + 1
      BY <3>2
    <3>. HIDE DEF last
    <3>5. Spans(w)
      <4>1. \A i \in 1 .. q + 1 : w[i][1] <= w[i][2]
        BY <2>5, <3>1, <3>2, <3>4 DEF last
      <4>2. ASSUME NEW i \in 1 .. q + 1, NEW k \in 1 .. q + 1, i < k PROVE w[i][2] < w[k][1]
        <5>1. i \in 1 .. q
          BY <3>2, <3>4, <4>2
        <5>2. CASE k \in 1 .. q
          BY <2>5, <3>3, <4>2, <5>1, <5>2
        <5>3. CASE k = q + 1
          BY <2>5, <3>2, <5>1, <5>3 DEF last
        <5>. QED  BY <3>4, <5>2, <5>3
      <4>. QED  BY <2>5, <4>1, <4>2 DEF Spans
    <3>6. w # <<>> /\ Last(w) = last
      BY <2>5, <3>2 DEF Last, last
    <3>7. ASSUME NEW l \in Nat, l \in node[1] .. node[2] \/ (l \in a[1] .. a[2] /\ q = p) PROVE InChunk(w, l)
      <4>1. l \in last[1] .. last[2]
        <5>1. CASE q = p
          BY <1>1, <2>3, <3>1, <3>7, <5>1
        <5>2. CASE q # p
          BY <3>1, <3>7, <5>2
        <5>. QED  BY <5>1, <5>2
      <4>2. q + 1 \in 1 .. Len(w)
        BY <2>5, <3>2
      <4>. QED  BY <4>1, <4>2 DEF InChunk, last
    <3>8. ASSUME NEW l \in Nat, InChunk(out, l) PROVE InChunk(w, l)
      <4>1. PICK i \in 1 .. n : l \in out[i][1] .. out[i][2]
        BY <3>8 DEF InChunk, n
      <4>2. CASE i \in 1 .. q
        <5>1. i \in 1 .. Len(w) /\ w[i] = out[i]
          BY <2>5, <3>2, <4>2
        <5>. QED  BY <4>1, <5>1 DEF InChunk
      <4>3. CASE i \notin 1 .. q
        <5>1. q = p /\ i = n
          BY <2>1, <4>3
        <5>. QED  BY <2>2, <3>7, <4>1, <5>1
      <4>. QED  BY <4>2, <4>3
    <3>. QED  BY <3>1, <3>5, <3>6, <3>7, <3>8
  <2>6. CASE Mergeable(x, a, node)
    <3>1. AddNode(x, out, node) = u
      BY <1>3, <2>6 DEF AddNode, a, f
    <3>2. e \in Span
      BY <1>1, <2>3 DEF Span
    <3>. HIDE DEF e
    <3>3. u \in Seq(Span) /\ Len(u) = p + 1 /\ u[p + 1] = e /\ \A i \in 1 .. p : u[i] = f[i]
      BY <2>1, <3>2, AppendIs
    <3>. HIDE DEF u
    <3>4. \A i \in 1 .. p : u[i] = out[i]
      BY <2>2, <3>3
    <3>. QED  BY <2>5, <3>1, <3>3, <3>4
  <2>7. CASE ~Mergeable(x, a, node)
    <3>1. AddNode(x, out, node) = v
      BY <2>7 DEF AddNode, a
    <3>2. v \in Seq(Span) /\ Len(v) = n + 1 /\ v[n + 1] = node /\ \A i \in 1 .. n : v[i] = out[i]
      BY <1>1, AppendIs DEF n
    <3>3. n # p
      BY <2>1
    <3>. HIDE DEF v
    <3>. QED  BY <2>5, <3>1, <3>2, <3>3
  <2>. QED  BY <2>6, <2>7
<1>. QED  BY <1>2, <1>3

Joins(g, x) ==
  /\ g \in [0 .. Len(Nodes(x)) -> Seq(Span)] /\ g[0] = <<>>
  /\ \A n \in 1 .. Len(Nodes(x)) : g[n] = AddNode(x, g[n - 1], Nodes(x)[n])
  /\ AstChunks(x) = g[Len(Nodes(x))]
\* The nodes are merged one by one.
LEMMA JoinsRun ==
  ASSUME NEW x, Nodes(x) \in Seq(Span)
  PROVE  \E g : Joins(g, x)
<1>. DEFINE N == Len(Nodes(x))
            D == Seq(Span)
            base == <<>>
            Step(r, n) == AddNode(x, r, Nodes(x)[n])
            F == [e \in (1 .. N) \X D |-> Step(e[2], e[1])]
            IsRun(h) == h = [n \in 0 .. N |-> IF n = 0 THEN base ELSE Step(h[n - 1], n)]
<1>1. N \in Nat
  OBVIOUS
<1>2. base \in D
  OBVIOUS
<1>3. ASSUME NEW n \in 1 .. N, NEW r \in D PROVE Step(r, n) \in D
  <2>. DEFINE a == Nodes(x)[n]
  <2>1. a \in Span
    OBVIOUS
  <2>. HIDE DEF a
  <2>2. ASSUME r = <<>> PROVE AddNode(x, r, a) \in Seq(Span)
    BY <2>1, <2>2 DEF AddNode
  <2>3. ASSUME r # <<>> PROVE AddNode(x, r, a) \in Seq(Span)
    <3>1. Front(r) \in Seq(Span) /\ Last(r) \in Span
      BY <2>3, FrontLast
    <3>2. <<Last(r)[1], a[2]>> \in Span
      BY <2>1, <3>1 DEF Span
    <3>. HIDE DEF Span
    <3>3. Append(Front(r), <<Last(r)[1], a[2]>>) \in Seq(Span) /\ Append(r, a) \in Seq(Span)
      BY <2>1, <3>1, <3>2, AppendIs
    <3>. QED  BY <3>3 DEF AddNode
  <2>4. AddNode(x, r, a) \in Seq(Span)
    BY <2>2, <2>3
  <2>. QED  BY <2>4 DEF a
<1>. DEFINE g == CHOOSE h : IsRun(h)
<1>4. AstChunks(x) = g[N]
  BY Zenon DEF AstChunks
<1>. HIDE DEF N, D, base, Step
<1>5. F \in [(1 .. N) \X D -> D] /\ \A n \in 1 .. N, r \in D : F[<<n, r>>] = Step(r, n)
  BY <1>3
<1>. HIDE DEF F
<1>6. PICK f : Follows(f, N, D, base, F)
  BY <1>1, <1>2, <1>5, Recursion
<1>7. IsRun(f)
  <2>1. ASSUME NEW n \in 0 .. N PROVE f[n] = IF n = 0 THEN base ELSE Step(f[n - 1], n)
    <3>1. CASE n = 0
      BY <1>6, <3>1 DEF Follows
    <3>2. CASE n # 0
      <4>1. n \in 1 .. N /\ n - 1 \in 0 .. N
        BY <1>1, <3>2
      <4>. QED  BY <1>5, <1>6, <3>2, <4>1 DEF Follows
    <3>. QED  BY <3>1, <3>2
  <2>. QED  BY <1>6, <2>1 DEF Follows
<1>8. IsRun(g)
  <2>1. \E h : IsRun(h)
    <3>. HIDE DEF IsRun
    <3>. QED  BY <1>7
  <2>. HIDE DEF IsRun
  <2>. QED  BY <2>1
<1>. HIDE DEF g
<1>9. g[0] = base /\ DOMAIN g = 0 .. N /\ g = [n \in 0 .. N |-> g[n]]
  BY <1>1, <1>8
<1>10. ASSUME NEW n \in 1 .. N PROVE g[n] = Step(g[n - 1], n)
  <2>1. n \in 0 .. N /\ n # 0
    BY <1>1
  <2>. QED  BY <1>8, <2>1
<1>11. g \in [0 .. N -> D]
  <2>. DEFINE T == {n \in 0 .. N : g[n] \in D}
  <2>1. 0 \in T
    BY <1>1, <1>2, <1>9
  <2>2. ASSUME NEW n \in 1 .. N, n - 1 \in T PROVE n \in T
    <3>1. n \in 0 .. N
      BY <1>1
    <3>. QED  BY <1>3, <1>10, <2>2, <3>1
  <2>3. \A n \in 0 .. N : n \in T
    <3>. HIDE DEF T
    <3>. QED  BY <1>1, <2>1, <2>2, UpTo
  <2>. QED  BY <1>9, <2>3
<1>. QED  BY <1>4, <1>9, <1>10, <1>11 DEF N, D, base, Step, Joins

\* The chunks of a parsed file leave out only blank lines.
LEMMA AstChunksAre ==
  ASSUME NEW x, x.lines \in Seq(LineClass)
  PROVE  /\ Spans(AstChunks(x))
         /\ \A l \in DOMAIN x.lines : Blank(x, l) \/ InChunk(AstChunks(x), l)
<1>. DEFINE nodes == Nodes(x)
            N == Len(nodes)
<1>1. Spans(nodes) /\ \A l \in DOMAIN x.lines : Blank(x, l) \/ InChunk(nodes, l)
  BY NodesAre
<1>2. nodes \in Seq(Span)
  BY <1>1 DEF Spans
<1>3. PICK g : Joins(g, x)
  BY <1>2, JoinsRun
<1>. HIDE DEF nodes
<1>4. N \in Nat /\ N \in 0 .. N /\ 0 \in 0 .. N
  BY <1>2
<1>. HIDE DEF N
<1>5. /\ g[0] = <<>> /\ AstChunks(x) = g[N]
      /\ \A n \in 1 .. N : g[n] = AddNode(x, g[n - 1], nodes[n])
  BY <1>3 DEF Joins, nodes, N
<1>6. /\ \A n \in 1 .. N : nodes[n] \in Span /\ nodes[n][1] <= nodes[n][2]
      /\ \A i, k \in 1 .. N : i < k => nodes[i][2] < nodes[k][1]
  BY <1>1 DEF Spans, N
<1>. DEFINE Within(n, l) == \E i \in 1 .. n : l \in nodes[i][1] .. nodes[i][2]
            T == {n \in 0 .. N : /\ Spans(g[n]) /\ (n = 0 => g[n] = <<>>)
                                 /\ (n > 0 => Last(g[n])[2] = nodes[n][2])
                                 /\ \A l \in Nat : Within(n, l) => InChunk(g[n], l)}
<1>7. 0 \in T
  <2>1. Spans(g[0])
    BY <1>5 DEF Spans
  <2>2. \A l : ~Within(0, l)
    OBVIOUS
  <2>. HIDE DEF Within
  <2>. QED  BY <1>4, <1>5, <2>1, <2>2
<1>8. ASSUME NEW n \in 1 .. N, n - 1 \in T PROVE n \in T
  <2>. DEFINE out == g[n - 1]
              node == nodes[n]
              more == AddNode(x, out, node)
  <2>1. n \in 0 .. N /\ n - 1 \in 0 .. N /\ n > 0 /\ n \in Nat
    BY <1>4
  <2>2. Spans(out) /\ node \in Span /\ node[1] <= node[2] /\ g[n] = more
    BY <1>5, <1>6, <1>8
  <2>3. out # <<>> => Last(out)[2] < node[1]
    <3>1. CASE n = 1
      BY <1>5, <3>1
    <3>2. CASE n # 1
      <4>1. n - 1 \in 1 .. N /\ n - 1 < n /\ n - 1 > 0
        BY <2>1, <3>2
      <4>2. Last(out)[2] = nodes[n - 1][2] /\ nodes[n - 1][2] < node[1]
        BY <1>6, <1>8, <4>1
      <4>. QED  BY <4>2
    <3>. QED  BY <3>1, <3>2
  <2>4. \A l \in Nat : Within(n, l) => Within(n - 1, l) \/ l \in node[1] .. node[2]
    <3>1. \A i \in 1 .. n : i \in 1 .. n - 1 \/ i = n
      BY <2>1
    <3>. QED  BY <3>1
  <2>5. \A l \in Nat : Within(n - 1, l) => InChunk(out, l)
    BY <1>8
  <2>. HIDE DEF out, node, more, Within
  <2>6. /\ Spans(more) /\ more # <<>> /\ Last(more)[2] = node[2]
        /\ \A l \in Nat : InChunk(out, l) \/ l \in node[1] .. node[2] => InChunk(more, l)
    BY <2>2, <2>3, AddNodeIs DEF more
  <2>7. \A l \in Nat : Within(n, l) => InChunk(more, l)
    BY <2>4, <2>5, <2>6
  <2>8. Last(g[n])[2] = nodes[n][2]
    BY <2>2, <2>6 DEF node
  <2>. QED  BY <2>1, <2>2, <2>6, <2>7, <2>8
<1>9. N \in T
  <2>. HIDE DEF T
  <2>1. \A n \in 0 .. N : n \in T
    BY <1>4, <1>7, <1>8, UpTo
  <2>. QED  BY <1>4, <2>1
<1>10. \A l \in Nat : InChunk(nodes, l) => InChunk(g[N], l)
  BY <1>9 DEF InChunk, N
<1>11. \A l \in DOMAIN x.lines : l \in Nat
  OBVIOUS
<1>. QED  BY <1>1, <1>5, <1>9, <1>10, <1>11

\* So do the chunks of any file.
LEMMA ChunksAre ==
  ASSUME NEW x, x.lines \in Seq(LineClass)
  PROVE  /\ Spans(Chunks(x))
         /\ \A l \in DOMAIN x.lines : Blank(x, l) \/ InChunk(Chunks(x), l)
<1>1. CASE \A i \in DOMAIN x.lines : Blank(x, i)
  <2>1. Chunks(x) = <<>>
    BY <1>1 DEF Chunks
  <2>. QED  BY <1>1, <2>1 DEF Spans
<1>2. CASE ~ \A i \in DOMAIN x.lines : Blank(x, i)
  <2>1. Len(x.lines) > 0 /\ DOMAIN x.lines = 1 .. Len(x.lines)
    BY <1>2
  <2>2. Chunks(x) = IF x.parsed THEN AstChunks(x) ELSE IndentChunks(x)
    BY <1>2 DEF Chunks
  <2>. QED  BY <2>1, <2>2, AstChunksAre, IndentChunksAre
<1>. QED  BY <1>1, <1>2

-----------------------------------------------------------------------------
(* What is shown of the chunks. *)
LEMMA LeastFirstIs ==
  ASSUME NEW m \in Nat, NEW scores \in [1 .. m -> Nat], NEW S \in SUBSET (1 .. m)
  PROVE  LET s == LeastFirst(scores, S)
         IN /\ s \in Seq(S) /\ ToSet(s) = S
            /\ \A i, k \in 1 .. Len(s) : i < k => scores[s[i]] <= scores[s[k]]
            /\ \A i, k \in 1 .. Len(s) : s[i] = s[k] => i = k
<1>. DEFINE before == {e \in S \X S : scores[e[1]] < scores[e[2]] \/ (scores[e[1]] = scores[e[2]] /\ e[1] < e[2])}
            s == LeastFirst(scores, S)
<1>1. IsFiniteSet(S)
  <2>1. IsFiniteSet(1 .. m)
    BY FS_Interval
  <2>. QED  BY <2>1, FS_Subset
<1>2. \A a, b \in S : <<a, b>> \in before <=> scores[a] < scores[b] \/ (scores[a] = scores[b] /\ a < b)
  OBVIOUS
<1>3. \A a \in S : scores[a] \in Nat /\ a \in Nat
  OBVIOUS
<1>4. s = Sorted(S, before)
  BY DEF LeastFirst, OrderedBy
<1>. HIDE DEF before, s
<1>5. Orders(before, S)
  <2>1. \A a \in S : <<a, a>> \notin before
    BY <1>2, <1>3
  <2>2. ASSUME NEW a \in S, NEW b \in S PROVE a = b \/ <<a, b>> \in before \/ <<b, a>> \in before
    <3>1. scores[a] \in Nat /\ scores[b] \in Nat /\ a \in Nat /\ b \in Nat
      BY <1>3
    <3>. QED  BY <1>2, <3>1
  <2>3. ASSUME NEW a \in S, NEW b \in S, NEW c \in S, <<a, b>> \in before, <<b, c>> \in before
        PROVE  <<a, c>> \in before
    <3>1. /\ scores[a] \in Nat /\ scores[b] \in Nat /\ scores[c] \in Nat /\ a \in Nat /\ b \in Nat /\ c \in Nat
          /\ scores[a] < scores[b] \/ (scores[a] = scores[b] /\ a < b)
          /\ scores[b] < scores[c] \/ (scores[b] = scores[c] /\ b < c)
      BY <1>2, <1>3, <2>3
    <3>2. scores[a] < scores[c] \/ (scores[a] = scores[c] /\ a < c)
      BY <3>1
    <3>. QED  BY <1>2, <3>2
  <2>. QED  BY <2>1, <2>2, <2>3 DEF Orders
<1>6. Sorts(s, S, before)
  BY <1>1, <1>4, <1>5, SortedIs
<1>7. /\ s \in Seq(S) /\ ToSet(s) = S
      /\ \A i, k \in 1 .. Len(s) : i < k <=> <<s[i], s[k]>> \in before
      /\ \A i, k \in 1 .. Len(s) : s[i] = s[k] => i = k
  BY <1>6 DEF Sorts
<1>8. ASSUME NEW i \in 1 .. Len(s), NEW k \in 1 .. Len(s), i < k PROVE scores[s[i]] <= scores[s[k]]
  <2>. DEFINE a == s[i]
              b == s[k]
  <2>1. <<a, b>> \in before /\ a \in S /\ b \in S
    BY <1>7, <1>8
  <2>. HIDE DEF a, b
  <2>2. scores[a] < scores[b] \/ scores[a] = scores[b]
    BY <1>2, <2>1
  <2>3. scores[a] \in Nat /\ scores[b] \in Nat
    BY <1>3, <2>1
  <2>4. scores[a] <= scores[b]
    BY <2>2, <2>3
  <2>. QED  BY <2>4 DEF a, b
<1>. QED  BY <1>7, <1>8 DEF s

Demotes(g, x, chunks, levels, scores, from, m) ==
  LET order == LeastFirst(scores, {i \in DOMAIN chunks : levels[i] = from})
  IN /\ g \in [0 .. Len(order) -> [1 .. m -> Int]] /\ g[0] = levels
     /\ \A k \in 1 .. Len(order) : g[k] = DemoteOne(x, chunks, g[k - 1], order[k])
     /\ Demoted(x, chunks, levels, scores, from) = g[Len(order)]
\* The chunks are demoted one by one.
LEMMA DemotesRun ==
  ASSUME NEW m \in Nat, NEW scores \in [1 .. m -> Nat], NEW levels \in [1 .. m -> Int],
         NEW x, NEW from, NEW chunks, DOMAIN chunks = 1 .. m
  PROVE  \E g : Demotes(g, x, chunks, levels, scores, from, m)
<1>. DEFINE order == LeastFirst(scores, {i \in DOMAIN chunks : levels[i] = from})
<1>20. Len(order) \in Nat /\ \A k \in 1 .. Len(order) : order[k] \in 1 .. m
  <2>. DEFINE S == {i \in DOMAIN chunks : levels[i] = from}
  <2>1. S \in SUBSET (1 .. m)
    OBVIOUS
  <2>. HIDE DEF S
  <2>. DEFINE t == LeastFirst(scores, S)
  <2>2. t \in Seq(S)
    BY <2>1, LeastFirstIs
  <2>. HIDE DEF t
  <2>3. DOMAIN t = 1 .. Len(t) /\ Len(t) \in Nat /\ t = [i \in 1 .. Len(t) |-> t[i]] /\ \A i \in 1 .. Len(t) : t[i] \in S
    BY <2>2
  <2>4. \A i \in 1 .. Len(t) : t[i] \in 1 .. m
    BY <2>1, <2>3
  <2>. QED  BY <2>3, <2>4 DEF t, S
<1>. HIDE DEF order
<1>. DEFINE N == Len(order)
            D == [1 .. m -> Int]
            base == levels
            Step(r, n) == DemoteOne(x, chunks, r, order[n])
            F == [e \in (1 .. N) \X D |-> Step(e[2], e[1])]
            IsRun(h) == h = [n \in 0 .. N |-> IF n = 0 THEN base ELSE Step(h[n - 1], n)]
<1>1. N \in Nat
  BY <1>20
<1>2. base \in D
  OBVIOUS
<1>3. ASSUME NEW n \in 1 .. N, NEW r \in D PROVE Step(r, n) \in D
  <2>. DEFINE a == order[n]
  <2>1. n \in 1 .. Len(order)
    OBVIOUS
  <2>6. a \in 1 .. m
    BY <1>20, <2>1
  <2>. HIDE DEF a
  <2>2. [r EXCEPT ![a] = @ - 1] \in [1 .. m -> Int]
    BY <2>6
  <2>3. DemoteOne(x, chunks, r, a) \in [1 .. m -> Int]
    BY <2>2 DEF DemoteOne
  <2>. QED  BY <2>3 DEF a
<1>. DEFINE g == CHOOSE h : IsRun(h)
<1>4. Demoted(x, chunks, levels, scores, from) = g[N]
  BY Zenon DEF Demoted, order
<1>. HIDE DEF N, D, base, Step
<1>5. F \in [(1 .. N) \X D -> D] /\ \A n \in 1 .. N, r \in D : F[<<n, r>>] = Step(r, n)
  BY <1>3
<1>. HIDE DEF F
<1>6. PICK f : Follows(f, N, D, base, F)
  BY <1>1, <1>2, <1>5, Recursion
<1>7. IsRun(f)
  <2>1. ASSUME NEW n \in 0 .. N PROVE f[n] = IF n = 0 THEN base ELSE Step(f[n - 1], n)
    <3>1. CASE n = 0
      BY <1>6, <3>1 DEF Follows
    <3>2. CASE n # 0
      <4>1. n \in 1 .. N /\ n - 1 \in 0 .. N
        BY <1>1, <3>2
      <4>. QED  BY <1>5, <1>6, <3>2, <4>1 DEF Follows
    <3>. QED  BY <3>1, <3>2
  <2>. QED  BY <1>6, <2>1 DEF Follows
<1>8. IsRun(g)
  <2>1. \E h : IsRun(h)
    <3>. HIDE DEF IsRun
    <3>. QED  BY <1>7
  <2>. HIDE DEF IsRun
  <2>. QED  BY <2>1
<1>. HIDE DEF g
<1>9. g[0] = base /\ DOMAIN g = 0 .. N /\ g = [n \in 0 .. N |-> g[n]]
  BY <1>1, <1>8
<1>10. ASSUME NEW n \in 1 .. N PROVE g[n] = Step(g[n - 1], n)
  <2>1. n \in 0 .. N /\ n # 0
    BY <1>1
  <2>. QED  BY <1>8, <2>1
<1>11. g \in [0 .. N -> D]
  <2>. DEFINE T == {n \in 0 .. N : g[n] \in D}
  <2>1. 0 \in T
    BY <1>1, <1>2, <1>9
  <2>2. ASSUME NEW n \in 1 .. N, n - 1 \in T PROVE n \in T
    <3>1. n \in 0 .. N
      BY <1>1
    <3>. QED  BY <1>3, <1>10, <2>2, <3>1
  <2>3. \A n \in 0 .. N : n \in T
    <3>. HIDE DEF T
    <3>. QED  BY <1>1, <2>1, <2>2, UpTo
  <2>. QED  BY <1>9, <2>3
<1>. QED  BY <1>4, <1>9, <1>10, <1>11 DEF N, D, base, Step, Demotes, order

(* Only chunks of one level fall, by one, the least relevant of them, and no  *)
(* more than the budget asks for.                                             *)
Falls(out, x, chunks, levels, scores, from, m) ==
  /\ out \in [1 .. m -> 0 .. 2]
  /\ \A i \in 1 .. m : IF levels[i] = from THEN out[i] \in {from, from - 1} ELSE out[i] = levels[i]
  /\ Tokens(x, chunks, out) <= x.budget \/ \A i \in 1 .. m : out[i] # from
  /\ \A i, k \in 1 .. m : levels[i] = from /\ levels[k] = from /\ out[k] # from /\ out[i] = from
       => scores[k] <= scores[i]
  /\ Tokens(x, chunks, levels) <= x.budget => out = levels
\* The demotion takes the least relevant chunks first and stops once the budget is met.
LEMMA DemotedIs ==
  ASSUME NEW m \in Nat, NEW scores \in [1 .. m -> Nat], NEW levels \in [1 .. m -> 0 .. 2],
         NEW x, NEW from \in {1, 2}, NEW chunks, DOMAIN chunks = 1 .. m
  PROVE  Falls(Demoted(x, chunks, levels, scores, from), x, chunks, levels, scores, from, m)
<1>. DEFINE S == {i \in DOMAIN chunks : levels[i] = from}
            order == LeastFirst(scores, S)
            N == Len(order)
            out == Demoted(x, chunks, levels, scores, from)
            Enough(r) == Tokens(x, chunks, r) <= x.budget
<1>1. levels \in [1 .. m -> Int]
  OBVIOUS
<1>2. PICK g : Demotes(g, x, chunks, levels, scores, from, m)
  BY <1>1, DemotesRun
<1>3. S \in SUBSET (1 .. m) /\ \A i \in 1 .. m : i \in S <=> levels[i] = from
  OBVIOUS
<1>4. /\ g \in [0 .. N -> [1 .. m -> Int]] /\ g[0] = levels /\ out = g[N]
      /\ \A k \in 1 .. N : g[k] = DemoteOne(x, chunks, g[k - 1], order[k])
  BY <1>2 DEF Demotes
<1>. HIDE DEF S, out
<1>5. /\ order \in Seq(S) /\ ToSet(order) = S
      /\ \A i, k \in 1 .. N : i < k => scores[order[i]] <= scores[order[k]]
      /\ \A i, k \in 1 .. N : order[i] = order[k] => i = k
  BY <1>3, LeastFirstIs
<1>. HIDE DEF order
<1>6. N \in Nat /\ DOMAIN order = 1 .. N /\ \A k \in 1 .. N : order[k] \in S /\ order[k] \in 1 .. m
  <2>1. N \in Nat /\ DOMAIN order = 1 .. N /\ \A k \in 1 .. N : order[k] \in S
    BY <1>5
  <2>2. \A k \in 1 .. N : order[k] \in 1 .. m
    BY <1>3, <2>1
  <2>. QED  BY <2>1, <2>2
<1>. HIDE DEF N, Enough
<1>. DEFINE Down(r, d) == \A i \in 1 .. m :
              r[i] = IF \E k \in 1 .. d : order[k] = i THEN from - 1 ELSE levels[i]
            T == {n \in 0 .. N : \E d \in 0 .. n : Down(g[n], d) /\ (d = n \/ Enough(g[n]))}
<1>7. 0 \in T
  <2>1. Down(g[0], 0) /\ 0 \in 0 .. 0 /\ 0 \in 0 .. N
    BY <1>4, <1>6
  <2>. HIDE DEF Down
  <2>. QED  BY <2>1
<1>8. ASSUME NEW n \in 1 .. N, n - 1 \in T PROVE n \in T
  <2>. DEFINE r == g[n - 1]
              a == order[n]
  <2>1. n \in 0 .. N /\ n - 1 \in 0 .. N /\ n \in Nat
    BY <1>6
  <2>2. PICK d \in 0 .. n - 1 : Down(r, d) /\ (d = n - 1 \/ Enough(r))
    BY <1>8
  <2>3. g[n] = IF Enough(r) THEN r ELSE [r EXCEPT ![a] = @ - 1]
    BY <1>4 DEF DemoteOne, Enough
  <2>4. r \in [1 .. m -> Int] /\ a \in 1 .. m /\ a \in S
    BY <1>4, <1>6, <2>1
  <2>. HIDE DEF r, Down
  <2>5. CASE Enough(r)
    <3>1. d \in 0 .. n /\ Down(g[n], d) /\ Enough(g[n])
      BY <2>1, <2>2, <2>3, <2>5
    <3>. QED  BY <2>1, <3>1
  <2>6. CASE ~Enough(r)
    <3>1. d = n - 1
      BY <2>2, <2>6
    <3>2. \A k \in 1 .. n - 1 : order[k] # a
      <4>1. \A k \in 1 .. n - 1 : k \in 1 .. N /\ k # n
        BY <2>1, <1>6
      <4>. QED  BY <1>5, <4>1
    <3>. HIDE DEF a
    <3>3. r[a] = from
      <4>1. r[a] = levels[a]
        BY <2>2, <2>4, <3>1, <3>2 DEF Down
      <4>. QED  BY <1>3, <2>4, <4>1
    <3>4. ASSUME NEW i \in 1 .. m
          PROVE  g[n][i] = IF \E k \in 1 .. n : order[k] = i THEN from - 1 ELSE levels[i]
      <4>1. r[i] = IF \E k \in 1 .. n - 1 : order[k] = i THEN from - 1 ELSE levels[i]
        BY <2>2, <3>1 DEF Down
      <4>2. n \in 1 .. n /\ (\A k \in 1 .. n : k \in 1 .. n - 1 \/ k = n) /\ \A k \in 1 .. n - 1 : k \in 1 .. n
        BY <2>1
      <4>3. (\E k \in 1 .. n : order[k] = i) <=> (\E k \in 1 .. n - 1 : order[k] = i) \/ i = a
        BY <4>2 DEF a
      <4>4. CASE i = a
        BY <2>3, <2>4, <2>6, <3>3, <4>3, <4>4
      <4>5. CASE i # a
        BY <2>3, <2>4, <2>6, <4>1, <4>3, <4>5
      <4>. QED  BY <4>4, <4>5
    <3>5. n \in 0 .. n /\ Down(g[n], n)
      BY <2>1, <3>4 DEF Down
    <3>. QED  BY <2>1, <3>5
  <2>. QED  BY <2>5, <2>6
<1>9. N \in T
  <2>. HIDE DEF T
  <2>1. \A n \in 0 .. N : n \in T
    BY <1>6, <1>7, <1>8, UpTo
  <2>. QED  BY <1>6, <2>1
<1>10. PICK d \in 0 .. N : Down(out, d) /\ (d = N \/ Enough(out))
  BY <1>4, <1>9
<1>11. ASSUME NEW i \in 1 .. m
       PROVE  /\ levels[i] # from => out[i] = levels[i]
              /\ levels[i] = from => \E k \in 1 .. N : /\ order[k] = i
                                                       /\ out[i] = IF k <= d THEN from - 1 ELSE from
  <2>1. \A k \in 1 .. d : k \in 1 .. N
    BY <1>6
  <2>2. out[i] = IF \E k \in 1 .. d : order[k] = i THEN from - 1 ELSE levels[i]
    BY <1>10
  <2>3. CASE levels[i] # from
    <3>1. ~ \E k \in 1 .. d : order[k] = i
      BY <1>3, <1>6, <2>1, <2>3
    <3>. QED  BY <2>2, <2>3, <3>1
  <2>4. CASE levels[i] = from
    <3>1. PICK k \in 1 .. N : order[k] = i
      BY <1>3, <1>5, <1>6, <2>4 DEF ToSet
    <3>2. (\E j \in 1 .. d : order[j] = i) <=> k <= d
      <4>1. k <= d => k \in 1 .. d
        BY <1>6
      <4>2. \A j \in 1 .. d : order[j] = i => j = k
        BY <1>5, <2>1, <3>1
      <4>3. \A j \in 1 .. d : j <= d
        BY <1>6
      <4>. QED  BY <3>1, <4>1, <4>2, <4>3
    <3>. QED  BY <2>2, <2>4, <3>1, <3>2
  <2>. QED  BY <2>3, <2>4
<1>. HIDE DEF Down
<1>12. \A i \in 1 .. m : IF levels[i] = from THEN out[i] \in {from, from - 1} ELSE out[i] = levels[i]
  BY <1>11
<1>13. from \in {1, 2} /\ from - 1 \in 0 .. 2 /\ from \in 0 .. 2 /\ from - 1 # from
  OBVIOUS
<1>14. out \in [1 .. m -> 0 .. 2]
  <2>1. DOMAIN out = 1 .. m /\ out = [i \in 1 .. m |-> out[i]]
    BY <1>4, <1>6
  <2>2. \A i \in 1 .. m : out[i] \in 0 .. 2
    BY <1>12, <1>13
  <2>. QED  BY <2>1, <2>2
<1>15. Enough(out) \/ \A i \in 1 .. m : out[i] # from
  <2>1. CASE d = N
    <3>1. \A k \in 1 .. N : k <= d
      BY <1>6, <2>1
    <3>. QED  BY <1>11, <1>13, <3>1
  <2>. QED  BY <1>10, <2>1
<1>16. ASSUME NEW i \in 1 .. m, NEW k \in 1 .. m, levels[i] = from, levels[k] = from, out[k] # from, out[i] = from
       PROVE  scores[k] <= scores[i]
  <2>1. PICK p \in 1 .. N : order[p] = i /\ out[i] = IF p <= d THEN from - 1 ELSE from
    BY <1>11, <1>16
  <2>2. PICK q \in 1 .. N : order[q] = k /\ out[k] = IF q <= d THEN from - 1 ELSE from
    BY <1>11, <1>16
  <2>3. q <= d /\ ~(p <= d)
    BY <1>13, <1>16, <2>1, <2>2
  <2>4. q < p
    BY <1>6, <2>3
  <2>. QED  BY <1>5, <2>1, <2>2, <2>4
<1>17. ASSUME Enough(levels) PROVE out = levels
  <2>. DEFINE U == {n \in 0 .. N : g[n] = levels}
  <2>1. 0 \in U
    BY <1>4, <1>6
  <2>2. ASSUME NEW n \in 1 .. N, n - 1 \in U PROVE n \in U
    <3>1. g[n] = IF Enough(g[n - 1]) THEN g[n - 1] ELSE [g[n - 1] EXCEPT ![order[n]] = @ - 1]
      BY <1>4 DEF DemoteOne, Enough
    <3>2. n \in 0 .. N /\ g[n - 1] = levels
      BY <1>6, <2>2
    <3>. QED  BY <1>17, <3>1, <3>2
  <2>3. \A n \in 0 .. N : n \in U
    <3>. HIDE DEF U
    <3>. QED  BY <1>6, <2>1, <2>2, UpTo
  <2>. QED  BY <1>4, <1>6, <2>3
<1>. QED  BY <1>12, <1>14, <1>15, <1>16, <1>17 DEF out, Enough, Falls

\* A relevance score is a number.
LEMMA ScoresAre ==
  ASSUME NEW x, NEW chunks, NEW i, Len(chunks) \in Nat, i \in Nat
  PROVE  ChunkScore(x, chunks, i) \in Nat
<1>1. ASSUME NEW c PROVE BaseScore(x, c) \in Nat
  <2>1. CASE Written(x, c) = {}
    BY <2>1 DEF BaseScore
  <2>2. CASE Written(x, c) # {}
    <3>. DEFINE first == x.lines[Min(Written(x, c))]
    <3>1. BaseScore(x, c) = CASE first \in {"def", "method"} -> 15
                              [] first = "import" -> 10
                              [] OTHER -> 5
      BY <2>2 DEF BaseScore
    <3>. HIDE DEF first
    <3>. QED  BY <3>1
  <2>. QED  BY <2>1, <2>2
<1>2. ASSUME NEW c PROVE DiffScore(x, c) \in Nat
  <2>. DEFINE near == {n \in DOMAIN x.diffs : Near(c, x.diffs[n])}
              touches == Touches(c, x.diffs[Min(near)])
  <2>1. DiffScore(x, c) = IF near = {} THEN 0 ELSE IF touches THEN 60 ELSE 20
    BY DEF DiffScore
  <2>. HIDE DEF near, touches
  <2>. QED  BY <2>1
<1>3. ASSUME NEW n \in Nat PROVE Min({100, n}) \in Nat
  <2>1. 100 \in Nat
    OBVIOUS
  <2>2. Min({100, n}) = IF 100 <= n THEN 100 ELSE n
    BY <2>1, SmallerOfTwo
  <2>. QED  BY <2>2
<1>4. ASSUME NEW k PROVE OwnScore(x, chunks, k) \in Nat
  <2>. DEFINE base == BaseScore(x, chunks[k])
              diff == DiffScore(x, chunks[k])
              marked == IF x.markers \cap (chunks[k][1] .. chunks[k][2]) # {} THEN 50 ELSE 0
              fragile == IF x.sensitive THEN 30 ELSE 0
  <2>1. base \in Nat /\ diff \in Nat
    BY <1>1, <1>2
  <2>2. marked \in Nat /\ fragile \in Nat
    OBVIOUS
  <2>3. OwnScore(x, chunks, k) = Min({100, base + diff + marked + fragile})
    BY DEF OwnScore
  <2>. HIDE DEF base, diff, marked, fragile
  <2>4. base + diff + marked + fragile \in Nat
    BY <2>1, <2>2
  <2>. QED  BY <1>3, <2>3, <2>4
<1>5. OwnScore(x, chunks, i) \in Nat /\ OwnScore(x, chunks, i) + 30 \in Nat
  BY <1>4
<1>6. ChunkScore(x, chunks, i) \in {OwnScore(x, chunks, i), Min({100, OwnScore(x, chunks, i) + 30})}
  BY DEF ChunkScore
<1>. QED  BY <1>3, <1>5, <1>6

\* Disjoint sets, their sizes and what they make up.
DisjointParts(S, U, m, sizes, whole) ==
  /\ S \in [1 .. m -> SUBSET U] /\ \A i, k \in 1 .. m : i < k => S[i] \cap S[k] = {}
  /\ sizes = [i \in 1 .. m |-> Cardinality(S[i])]
  /\ whole = {e \in U : \E i \in 1 .. m : e \in S[i]}
\* The sum of the sizes of disjoint sets is the size of what they make up.
LEMMA DisjointSum ==
  ASSUME NEW m \in Nat, NEW U, IsFiniteSet(U), NEW S, NEW sizes, NEW whole, DisjointParts(S, U, m, sizes, whole)
  PROVE  sizes \in [1 .. m -> Nat] /\ SumOf(sizes) = Cardinality(whole)
<1>. USE DEF DisjointParts
<1>. DEFINE Upto(n) == {e \in U : \E i \in 1 .. n : e \in S[i]}
<1>1. ASSUME NEW i \in 1 .. m PROVE IsFiniteSet(S[i]) /\ Cardinality(S[i]) \in Nat
  BY FS_Subset, FS_CardinalityType
<1>2. sizes \in [1 .. m -> Nat] /\ sizes \in Seq(Nat) /\ Len(sizes) = m
  BY <1>1
<1>3. ASSUME NEW n PROVE IsFiniteSet(Upto(n)) /\ Cardinality(Upto(n)) \in Nat
  BY FS_Subset, FS_CardinalityType
<1>4. PICK f : Sums(f, sizes) /\ SumOf(sizes) = f[m]
  BY <1>2, SumIs
<1>5. f[0] = 0 /\ \A n \in 1 .. m : f[n] = f[n - 1] + Cardinality(S[n])
  BY <1>2, <1>4 DEF Sums
<1>. DEFINE T == {n \in 0 .. m : f[n] = Cardinality(Upto(n))}
<1>6. 0 \in T
  <2>1. Upto(0) = {}
    OBVIOUS
  <2>2. Cardinality(Upto(0)) = 0
    <3>. HIDE DEF Upto
    <3>. QED  BY <2>1, FS_EmptySet
  <2>3. 0 \in 0 .. m
    OBVIOUS
  <2>. HIDE DEF Upto
  <2>. QED  BY <1>5, <2>2, <2>3
<1>7. ASSUME NEW n \in 1 .. m, n - 1 \in T PROVE n \in T
  <2>1. Upto(n) = Upto(n - 1) \cup S[n]
    OBVIOUS
  <2>2. Upto(n - 1) \cap S[n] = {}
    OBVIOUS
  <2>3. IsFiniteSet(Upto(n - 1)) /\ Cardinality(Upto(n - 1)) \in Nat
    BY <1>3
  <2>4. f[n - 1] = Cardinality(Upto(n - 1)) /\ n \in 0 .. m
    BY <1>7
  <2>. HIDE DEF Upto, T
  <2>5. Cardinality({}) = 0
    BY FS_EmptySet
  <2>6. Cardinality(Upto(n)) = Cardinality(Upto(n - 1)) + Cardinality(S[n])
    <3>. DEFINE A == Upto(n - 1)
                B == S[n]
    <3>1. IsFiniteSet(A) /\ IsFiniteSet(B) /\ Upto(n) = A \cup B /\ A \cap B = {}
          /\ Cardinality(A) \in Nat /\ Cardinality(B) \in Nat
      BY <1>1, <2>1, <2>2, <2>3
    <3>. HIDE DEF A, B
    <3>2. Cardinality(A \cup B) = Cardinality(A) + Cardinality(B) - Cardinality(A \cap B)
      BY <3>1, FS_Union
    <3>3. Cardinality(A \cap B) = 0
      BY <2>5, <3>1
    <3>4. Cardinality(Upto(n)) = Cardinality(A) + Cardinality(B)
      BY <3>1, <3>2, <3>3
    <3>. QED  BY <3>4 DEF A, B
  <2>. QED  BY <1>5, <2>4, <2>6 DEF T
<1>8. \A n \in 0 .. m : n \in T
  <2>. HIDE DEF T
  <2>. QED  BY <1>6, <1>7, UpTo
<1>9. m \in 0 .. m /\ Upto(m) = whole
  OBVIOUS
<1>10. f[m] = Cardinality(Upto(m))
  BY <1>8, <1>9
<1>. HIDE DEF Upto
<1>. QED  BY <1>2, <1>4, <1>9, <1>10

\* No more places count for something than the sum of what they count for.
LEMMA OnesCount ==
  ASSUME NEW m \in Nat, NEW f \in [1 .. m -> Nat], NEW some \in SUBSET (1 .. m),
         \A i \in some : f[i] >= 1
  PROVE  IsFiniteSet(some) /\ Cardinality(some) \in Nat /\ Cardinality(some) <= SumOf(f)
<1>. DEFINE S == [i \in 1 .. m |-> IF i \in some THEN {i} ELSE {}]
            sizes == [i \in 1 .. m |-> Cardinality(S[i])]
            U == 1 .. m
<1>1. IsFiniteSet(U) /\ IsFiniteSet(some) /\ Cardinality(some) \in Nat
  <2>1. IsFiniteSet(1 .. m)
    BY FS_Interval
  <2>. QED  BY <2>1, FS_Subset, FS_CardinalityType
<1>2. S \in [1 .. m -> SUBSET U] /\ \A i, k \in 1 .. m : i < k => S[i] \cap S[k] = {}
  OBVIOUS
<1>3. {e \in U : \E i \in 1 .. m : e \in S[i]} = some
  OBVIOUS
<1>4. \A i \in 1 .. m : S[i] = IF i \in some THEN {i} ELSE {}
  OBVIOUS
<1>. HIDE DEF S
<1>5. \A i \in 1 .. m : Cardinality(S[i]) = IF i \in some THEN 1 ELSE 0
  BY <1>4, FS_Singleton, FS_EmptySet
<1>6. sizes \in [1 .. m -> Nat] /\ SumOf(sizes) = Cardinality(some)
  <2>. DEFINE T == {e \in U : \E i \in 1 .. m : e \in S[i]}
  <2>. HIDE DEF U
  <2>1. sizes \in [1 .. m -> Nat] /\ SumOf(sizes) = Cardinality(T)
    <3>1. sizes = [i \in 1 .. m |-> Cardinality(S[i])] /\ T = {e \in U : \E i \in 1 .. m : e \in S[i]}
      OBVIOUS
    <3>. HIDE DEF sizes, T
    <3>2. DisjointParts(S, U, m, sizes, T)
      BY <1>2, <3>1 DEF DisjointParts
    <3>. QED  BY <1>1, <3>2, DisjointSum
  <2>2. T = some
    BY <1>3
  <2>. QED  BY <2>1, <2>2
<1>7. \A i \in 1 .. m : sizes[i] <= f[i]
  BY <1>5
<1>. HIDE DEF sizes
<1>8. SumOf(sizes) <= SumOf(f)
  BY <1>6, <1>7, SumsCompare
<1>. QED  BY <1>1, <1>6, <1>8

\* Rows of other places are no more than one for each place and one at the end.
LEMMA RowsAreFew ==
  ASSUME NEW m \in Nat, NEW some \in SUBSET (1 .. m)
  PROVE  LET rows == {i \in 1 .. m \ some : i = m \/ i + 1 \in some}
         IN IsFiniteSet(rows) /\ Cardinality(rows) \in Nat /\ Cardinality(rows) <= Cardinality(some) + 1
<1>. DEFINE rows == {i \in 1 .. m \ some : i = m \/ i + 1 \in some}
            ends == some \cup {m + 1}
            next == [i \in rows |-> i + 1]
<1>1. IsFiniteSet(some) /\ IsFiniteSet(rows) /\ Cardinality(rows) \in Nat
  <2>1. IsFiniteSet(1 .. m) /\ rows \in SUBSET (1 .. m)
    BY FS_Interval
  <2>. HIDE DEF rows
  <2>. QED  BY <2>1, FS_Subset, FS_CardinalityType
<1>2. IsFiniteSet(ends) /\ Cardinality(ends) = Cardinality(some) + 1
  <2>1. m + 1 \notin some
    OBVIOUS
  <2>. QED  BY <1>1, <2>1, FS_AddElement
<1>3. next \in Injection(rows, ends)
  <2>1. next \in [rows -> ends] /\ \A i, k \in rows : next[i] = next[k] => i = k
    OBVIOUS
  <2>. HIDE DEF next, rows, ends
  <2>. QED  BY <2>1 DEF Injection, IsInjective
<1>4. Cardinality(rows) <= Cardinality(ends)
  <2>. HIDE DEF next, rows, ends
  <2>. QED  BY <1>2, <1>3, FS_Injection
<1>. QED  BY <1>1, <1>2, <1>4

\* The text of a chunk is that of its lines where no character is wide.
LEMMA ContentIs ==
  ASSUME NEW x, x.lines \in Seq(LineClass), NEW c, c[1] \in Nat, c[2] \in Nat
  PROVE  /\ IsFiniteSet(Content(x, c))
         /\ x.wide = {} \/ ~x.parsed =>
              \A l \in DOMAIN x.lines : l \in Content(x, c) <=> ~Blank(x, l) /\ l \in c[1] .. c[2]
<1>1. IsFiniteSet(Content(x, c))
  <2>1. IsFiniteSet(DOMAIN x.lines)
    <3>1. DOMAIN x.lines = 1 .. Len(x.lines) /\ Len(x.lines) \in Nat
      OBVIOUS
    <3>. QED  BY <3>1, FS_Interval
  <2>2. Content(x, c) \in SUBSET (DOMAIN x.lines)
    BY DEF Content
  <2>. QED  BY <2>1, <2>2, FS_Subset
<1>2. ASSUME x.wide = {}, NEW n \in Int PROVE BytesTo(x, n) = n
  <2>1. {k \in 1 .. n : k \in x.wide} = {}
    BY <1>2
  <2>2. Cardinality({k \in 1 .. n : k \in x.wide}) = 0
    BY <2>1, FS_EmptySet
  <2>. QED  BY <2>2 DEF BytesTo
<1>3. ASSUME x.wide = {} \/ ~x.parsed, NEW l \in DOMAIN x.lines
      PROVE  l \in Content(x, c) <=> ~Blank(x, l) /\ l \in c[1] .. c[2]
  <2>1. CASE ~x.parsed
    BY <2>1 DEF Content
  <2>2. CASE x.parsed /\ x.wide = {}
    <3>1. c[1] - 1 \in Int /\ c[2] \in Int
      OBVIOUS
    <3>2. BytesTo(x, c[1] - 1) = c[1] - 1 /\ BytesTo(x, c[2]) = c[2]
      BY <1>2, <2>2, <3>1
    <3>3. (c[1] - 1) + 1 = c[1]
      OBVIOUS
    <3>. QED  BY <2>2, <3>2, <3>3 DEF Content
  <2>. QED  BY <1>3, <2>1, <2>2
<1>. QED  BY <1>1, <1>3

\* Only what is shown costs something.
LEMMA CostIs ==
  ASSUME NEW x, NEW c, IsFiniteSet(Content(x, c)), NEW level \in 0 .. 2
  PROVE  /\ Cost(x, c, level) \in Nat
         /\ level = 0 => Cost(x, c, level) = 0
         /\ level > 0 /\ Content(x, c) # {} => Cost(x, c, level) >= 1
<1>. DEFINE size == Cardinality(Content(x, c))
<1>1. size \in Nat /\ (size = 0 <=> Content(x, c) = {})
  BY FS_CardinalityType, FS_EmptySet
<1>2. Cost(x, c, level) = IF level = 2 THEN size ELSE IF level = 1 /\ Content(x, c) # {} THEN 1 ELSE 0
  BY DEF Cost
<1>. HIDE DEF size
<1>. QED  BY <1>1, <1>2

\* Chunks of which nothing is shown cost nothing.
LEMMA NothingIsFree ==
  ASSUME NEW x, NEW chunks, NEW m \in Nat, DOMAIN chunks = 1 .. m, NEW levels, \A i \in 1 .. m : levels[i] = 0
  PROVE  Tokens(x, chunks, levels) = 0
<1>. DEFINE zeros == [i \in 1 .. m |-> 0]
<1>1. Tokens(x, chunks, levels) = SumOf(zeros)
  <2>1. \A i \in 1 .. m : Cost(x, chunks[i], levels[i]) = 0
    BY DEF Cost
  <2>2. [i \in 1 .. m |-> Cost(x, chunks[i], levels[i])] = zeros
    BY <2>1
  <2>3. Tokens(x, chunks, levels) = SumOf([i \in 1 .. m |-> Cost(x, chunks[i], levels[i])])
    BY DEF Tokens
  <2>. QED  BY <2>2, <2>3
<1>2. zeros \in [1 .. m -> Nat] /\ \A i \in 1 .. m : zeros[i] = zeros[i] + zeros[i]
  OBVIOUS
<1>. HIDE DEF zeros
<1>3. SumOf(zeros) \in Nat /\ SumOf(zeros) = SumOf(zeros) + SumOf(zeros)
  BY <1>2, SumsCompare
<1>. QED  BY <1>1, <1>3

\* What comes on top of the chunks shown, in rows and names.
LEMMA RenderedIs ==
  ASSUME NEW x, x.lines \in Seq(LineClass), x.budget \in Nat, x.wide = {} \/ ~x.parsed,
         NEW chunks, Spans(chunks), NEW levels \in [1 .. Len(chunks) -> 0 .. 2],
         Tokens(x, chunks, levels) <= x.budget
  PROVE  Rendered(x, chunks, levels) <= 2 * x.budget + 1 + Cardinality(Methods(x))
<1>. DEFINE m == Len(chunks)
            costs == [i \in 1 .. m |-> Cost(x, chunks[i], levels[i])]
            seen == {i \in 1 .. m : Appears(x, chunks[i], levels[i])}
            S == [i \in 1 .. m |-> Listed(x, chunks[i], levels[i])]
            names == [i \in 1 .. m |-> Cardinality(S[i])]
            M == Methods(x)
<1>1. /\ m \in Nat /\ DOMAIN chunks = 1 .. m
      /\ \A i \in 1 .. m : chunks[i][1] \in Nat /\ chunks[i][2] \in Nat /\ chunks[i][1] <= chunks[i][2]
      /\ \A i, k \in 1 .. m : i < k => chunks[i][2] < chunks[k][1]
  BY DEF Spans, Span
<1>2. levels \in [1 .. m -> 0 .. 2]
  OBVIOUS
<1>. HIDE DEF m
<1>3. ASSUME NEW i \in 1 .. m PROVE IsFiniteSet(Content(x, chunks[i])) /\ levels[i] \in 0 .. 2
  BY <1>1, <1>2, ContentIs
<1>4. costs \in [1 .. m -> Nat] /\ Tokens(x, chunks, levels) = SumOf(costs)
  <2>1. \A i \in 1 .. m : Cost(x, chunks[i], levels[i]) \in Nat
    BY <1>3, CostIs
  <2>. QED  BY <1>1, <2>1 DEF Tokens
<1>5. ASSUME NEW i \in seen PROVE costs[i] >= 1
  <2>. DEFINE c == chunks[i]
  <2>1. i \in 1 .. m /\ Appears(x, c, levels[i]) /\ c[1] \in Nat /\ c[2] \in Nat /\ c[1] <= c[2]
    BY <1>1
  <2>2. levels[i] > 0 /\ Content(x, c) # {}
    <3>1. CASE levels[i] = 1 /\ c[1] \in Definitions(x)
      <4>1. c[1] \in DOMAIN x.lines /\ ~Blank(x, c[1]) /\ c[1] \in c[1] .. c[2]
        BY <2>1, <3>1 DEF Definitions, Blank
      <4>2. c[1] \in Content(x, c)
        BY <2>1, <4>1, ContentIs
      <4>. QED  BY <3>1, <4>2
    <3>. QED  BY <2>1, <3>1 DEF Appears
  <2>. QED  BY <1>3, <2>1, <2>2, CostIs
<1>. HIDE DEF costs
<1>6. Cardinality(seen) \in Nat /\ Cardinality(seen) <= x.budget /\ SumOf(costs) \in Nat
  <2>1. seen \in SUBSET (1 .. m)
    OBVIOUS
  <2>2. Cardinality(seen) \in Nat /\ Cardinality(seen) <= SumOf(costs)
    <3>. HIDE DEF seen
    <3>. QED  BY <1>1, <1>4, <1>5, <2>1, OnesCount
  <2>3. SumOf(costs) \in Nat
    BY <1>1, <1>4, SumsCompare
  <2>. HIDE DEF seen
  <2>. QED  BY <1>4, <2>2, <2>3
<1>7. Cardinality(Omissions(x, chunks, levels)) \in Nat
      /\ Cardinality(Omissions(x, chunks, levels)) <= Cardinality(seen) + 1
  <2>1. seen \in SUBSET (1 .. m)
    OBVIOUS
  <2>2. Omissions(x, chunks, levels) = {i \in 1 .. m \ seen : i = m \/ i + 1 \in seen}
    BY <1>1 DEF Omissions, m
  <2>. HIDE DEF seen
  <2>. QED  BY <1>1, <2>1, <2>2, RowsAreFew
<1>8. IsFiniteSet(M) /\ Cardinality(M) \in Nat /\ \A l \in M : l \in Nat
  <2>1. IsFiniteSet(DOMAIN x.lines) /\ M \in SUBSET (DOMAIN x.lines) /\ \A l \in DOMAIN x.lines : l \in Nat
    <3>1. DOMAIN x.lines = 1 .. Len(x.lines) /\ Len(x.lines) \in Nat
      OBVIOUS
    <3>2. IsFiniteSet(1 .. Len(x.lines))
      BY <3>1, FS_Interval
    <3>. QED  BY <3>1, <3>2 DEF Methods
  <2>. HIDE DEF M
  <2>. QED  BY <2>1, FS_Subset, FS_CardinalityType
<1>9. S \in [1 .. m -> SUBSET M]
  BY DEF Listed
<1>10. ASSUME NEW i \in 1 .. m, NEW k \in 1 .. m, i < k PROVE S[i] \cap S[k] = {}
  <2>1. S[i] \subseteq M \cap (chunks[i][1] .. chunks[i][2]) /\ S[k] \subseteq M \cap (chunks[k][1] .. chunks[k][2])
    BY DEF Listed
  <2>. HIDE DEF S, M
  <2>2. chunks[i][2] < chunks[k][1] /\ chunks[i][2] \in Nat /\ chunks[k][1] \in Nat
        /\ chunks[i][1] \in Nat /\ chunks[k][2] \in Nat
    BY <1>1, <1>10
  <2>. QED  BY <1>8, <2>1, <2>2
<1>11. names \in [1 .. m -> Nat] /\ SumOf(names) \in Nat /\ SumOf(names) <= Cardinality(M)
  <2>. HIDE DEF S, M
  <2>. DEFINE T == {e \in M : \E i \in 1 .. m : e \in S[i]}
  <2>1. names \in [1 .. m -> Nat] /\ SumOf(names) = Cardinality(T)
    <3>1. names = [i \in 1 .. m |-> Cardinality(S[i])] /\ T = {e \in M : \E i \in 1 .. m : e \in S[i]}
      OBVIOUS
    <3>2. \A i, k \in 1 .. m : i < k => S[i] \cap S[k] = {}
      BY <1>10
    <3>. HIDE DEF names, T
    <3>3. DisjointParts(S, M, m, names, T)
      BY <1>9, <3>1, <3>2 DEF DisjointParts
    <3>. QED  BY <1>1, <1>8, <3>3, DisjointSum
  <2>2. Cardinality(T) <= Cardinality(M) /\ Cardinality(T) \in Nat
    BY <1>8, FS_Subset, FS_CardinalityType
  <2>. QED  BY <2>1, <2>2
<1>12. Rendered(x, chunks, levels) =
         Tokens(x, chunks, levels) + Cardinality(Omissions(x, chunks, levels)) + SumOf(names)
  <2>1. names = [i \in DOMAIN chunks |-> Cardinality(Listed(x, chunks[i], levels[i]))]
    BY <1>1
  <2>. HIDE DEF names
  <2>. QED  BY <2>1 DEF Rendered
<1>. HIDE DEF names, seen, M
<1>13. Tokens(x, chunks, levels) \in Nat /\ Tokens(x, chunks, levels) <= x.budget
  BY <1>4, <1>6
<1>. QED  BY <1>6, <1>7, <1>8, <1>11, <1>12, <1>13 DEF M

(* The levels rise with the scores, before and after chunks are demoted.      *)
Rises(levels, scores, m) == \A i, k \in 1 .. m : scores[i] < scores[k] => levels[i] <= levels[k]
\* Demoting keeps the more relevant chunks at no lower a level.
LEMMA DemotedRises ==
  ASSUME NEW m \in Nat, NEW scores \in [1 .. m -> Nat], NEW levels \in [1 .. m -> 0 .. 2],
         NEW x, NEW from \in {1, 2}, NEW chunks, DOMAIN chunks = 1 .. m, Rises(levels, scores, m)
  PROVE  Rises(Demoted(x, chunks, levels, scores, from), scores, m)
<1>. DEFINE out == Demoted(x, chunks, levels, scores, from)
<1>1. /\ out \in [1 .. m -> 0 .. 2]
      /\ \A i \in 1 .. m : IF levels[i] = from THEN out[i] \in {from, from - 1} ELSE out[i] = levels[i]
      /\ \A i, k \in 1 .. m : levels[i] = from /\ levels[k] = from /\ out[k] # from /\ out[i] = from
           => scores[k] <= scores[i]
  <2>1. Falls(out, x, chunks, levels, scores, from, m)
    BY DemotedIs
  <2>. HIDE DEF out
  <2>. QED  BY <2>1 DEF Falls
<1>. HIDE DEF out
<1>2. ASSUME NEW i \in 1 .. m, NEW k \in 1 .. m, scores[i] < scores[k] PROVE out[i] <= out[k]
  <2>1. levels[i] <= levels[k] /\ levels[i] \in 0 .. 2 /\ levels[k] \in 0 .. 2
        /\ scores[i] \in Nat /\ scores[k] \in Nat /\ out[i] \in 0 .. 2 /\ out[k] \in 0 .. 2
    BY <1>1, <1>2 DEF Rises
  <2>2. levels[i] = from => out[i] \in {from, from - 1}
    BY <1>1
  <2>3. levels[k] = from => out[k] \in {from, from - 1}
    BY <1>1
  <2>4. (levels[i] # from => out[i] = levels[i]) /\ (levels[k] # from => out[k] = levels[k])
    BY <1>1
  <2>5. levels[i] = from /\ levels[k] = from /\ out[k] # from /\ out[i] = from => scores[k] <= scores[i]
    BY <1>1
  <2>6. from \in {1, 2}
    OBVIOUS
  <2>. QED  BY <1>2, <2>1, <2>2, <2>3, <2>4, <2>5, <2>6
<1>. QED  BY <1>2 DEF Rises, out

\* The levels given to the chunks fit the budget and rise with relevance.
LEMMA AssignedIs ==
  ASSUME NEW x, x.budget \in Nat, NEW chunks, NEW m \in Nat, DOMAIN chunks = 1 .. m, Len(chunks) = m
  PROVE  LET levels == ScoreAndAssign(x, chunks)
             scores == [i \in DOMAIN chunks |-> ChunkScore(x, chunks, i)]
         IN /\ levels \in [1 .. m -> 0 .. 2]
            /\ Tokens(x, chunks, levels) <= x.budget
            /\ Rises(levels, scores, m)
<1>. DEFINE scores == [i \in DOMAIN chunks |-> ChunkScore(x, chunks, i)]
            wanted == [i \in DOMAIN chunks |->
                         IF scores[i] >= FullThreshold THEN 2
                         ELSE IF scores[i] >= SignatureThreshold THEN 1 ELSE 0]
            once == Demoted(x, chunks, wanted, scores, 2)
            twice == Demoted(x, chunks, once, scores, 1)
<1>1. ScoreAndAssign(x, chunks) = twice
  BY DEF ScoreAndAssign
<1>2. scores \in [1 .. m -> Nat]
  <2>1. \A i \in 1 .. m : ChunkScore(x, chunks, i) \in Nat
    <3>1. \A i \in 1 .. m : i \in Nat
      OBVIOUS
    <3>. QED  BY <3>1, ScoresAre
  <2>. QED  BY <2>1
<1>. HIDE DEF scores
<1>3. wanted \in [1 .. m -> 0 .. 2] /\ Rises(wanted, scores, m)
  <2>1. \A i \in 1 .. m : scores[i] \in Nat
    BY <1>2
  <2>2. wanted \in [1 .. m -> 0 .. 2]
    OBVIOUS
  <2>. QED  BY <2>1, <2>2 DEF Rises, FullThreshold, SignatureThreshold
<1>. HIDE DEF wanted, twice
<1>4. 1 \in {1, 2} /\ 2 \in {1, 2}
  OBVIOUS
<1>. HIDE DEF once
<1>5. /\ once \in [1 .. m -> 0 .. 2] /\ Rises(once, scores, m)
      /\ Tokens(x, chunks, once) <= x.budget \/ \A i \in 1 .. m : once[i] # 2
  <2>1. Falls(once, x, chunks, wanted, scores, 2, m) /\ Rises(once, scores, m)
    BY <1>2, <1>3, <1>4, DemotedIs, DemotedRises DEF once
  <2>. QED  BY <2>1 DEF Falls
<1>6. /\ twice \in [1 .. m -> 0 .. 2] /\ Rises(twice, scores, m)
      /\ \A i \in 1 .. m : IF once[i] = 1 THEN twice[i] \in {1, 0} ELSE twice[i] = once[i]
      /\ Tokens(x, chunks, twice) <= x.budget \/ \A i \in 1 .. m : twice[i] # 1
      /\ Tokens(x, chunks, once) <= x.budget => twice = once
  <2>1. /\ twice \in [1 .. m -> 0 .. 2]
        /\ \A i \in 1 .. m : IF once[i] = 1 THEN twice[i] \in {1, 1 - 1} ELSE twice[i] = once[i]
        /\ Tokens(x, chunks, twice) <= x.budget \/ \A i \in 1 .. m : twice[i] # 1
        /\ Tokens(x, chunks, once) <= x.budget => twice = once
    <3>1. Falls(twice, x, chunks, once, scores, 1, m)
      BY <1>2, <1>4, <1>5, DemotedIs DEF twice
    <3>. QED  BY <3>1 DEF Falls
  <2>2. Rises(twice, scores, m)
    BY <1>2, <1>4, <1>5, DemotedRises DEF twice
  <2>. QED  BY <2>1, <2>2
<1>7. Tokens(x, chunks, twice) <= x.budget
  <2>1. CASE Tokens(x, chunks, once) <= x.budget
    BY <1>6, <2>1
  <2>2. CASE ~(Tokens(x, chunks, once) <= x.budget) /\ \A i \in 1 .. m : twice[i] # 1
    <3>1. ASSUME NEW i \in 1 .. m PROVE twice[i] = 0
      <4>1. once[i] # 2 /\ once[i] \in 0 .. 2 /\ twice[i] # 1
        BY <1>5, <2>2
      <4>2. IF once[i] = 1 THEN twice[i] \in {1, 0} ELSE twice[i] = once[i]
        BY <1>6
      <4>. QED  BY <4>1, <4>2
    <3>2. Tokens(x, chunks, twice) = 0
      BY <3>1, NothingIsFree
    <3>. QED  BY <3>2
  <2>. QED  BY <1>6, <2>1, <2>2
<1>. QED  BY <1>1, <1>6, <1>7 DEF scores

\* What StagedFits asks of a staged file.
LEMMA StagedIs ==
  ASSUME NEW x, x.lines \in Seq(LineClass), x.budget \in Nat
  PROVE  LET staged == StageContent(x)
             chunks == staged.chunks
             narrow == x.wide = {} \/ ~x.parsed
         IN /\ \A i, k \in DOMAIN chunks : i < k => chunks[i][2] < chunks[k][1]
            /\ \A l \in DOMAIN x.lines : Blank(x, l) \/ \E c \in ToSet(chunks) : l \in c[1] .. c[2]
            /\ narrow => \A c \in ToSet(chunks), l \in DOMAIN x.lines :
                 l \in Content(x, c) <=> ~Blank(x, l) /\ l \in c[1] .. c[2]
            /\ staged.tokens <= x.budget
            /\ narrow => staged.rendered <= 2 * x.budget + 1 + Cardinality(Methods(x))
            /\ \A i, k \in DOMAIN chunks : staged.scores[i] < staged.scores[k] => staged.levels[i] <= staged.levels[k]
<1>. DEFINE staged == StageContent(x)
            chunks == Chunks(x)
            levels == ScoreAndAssign(x, chunks)
            scores == [i \in DOMAIN chunks |-> ChunkScore(x, chunks, i)]
            m == Len(chunks)
            narrow == x.wide = {} \/ ~x.parsed
<1>1. /\ staged.chunks = chunks /\ staged.levels = levels /\ staged.scores = scores
      /\ staged.tokens = Tokens(x, chunks, levels) /\ staged.rendered = Rendered(x, chunks, levels)
  BY DEF StageContent
<1>. HIDE DEF staged, levels, scores, chunks
<1>2. Spans(chunks) /\ \A l \in DOMAIN x.lines : Blank(x, l) \/ InChunk(chunks, l)
  BY ChunksAre DEF chunks
<1>3. m \in Nat /\ DOMAIN chunks = 1 .. m /\ \A i, k \in 1 .. m : i < k => chunks[i][2] < chunks[k][1]
  BY <1>2 DEF Spans
<1>4. ASSUME NEW l \in DOMAIN x.lines PROVE Blank(x, l) \/ \E c \in ToSet(chunks) : l \in c[1] .. c[2]
  <2>1. CASE InChunk(chunks, l)
    <3>1. PICK i \in 1 .. m : l \in chunks[i][1] .. chunks[i][2]
      BY <2>1 DEF InChunk
    <3>2. chunks[i] \in ToSet(chunks)
      BY <1>3 DEF ToSet
    <3>. QED  BY <3>1, <3>2
  <2>. QED  BY <1>2, <2>1
<1>5. ASSUME narrow, NEW c \in ToSet(chunks), NEW l \in DOMAIN x.lines
      PROVE  l \in Content(x, c) <=> ~Blank(x, l) /\ l \in c[1] .. c[2]
  <2>1. c[1] \in Nat /\ c[2] \in Nat
    <3>1. PICK i \in 1 .. m : chunks[i] = c
      BY <1>3, <1>5 DEF ToSet
    <3>. QED  BY <1>2, <3>1 DEF Spans, Span
  <2>. QED  BY <1>5, <2>1, ContentIs
<1>. HIDE DEF m
<1>6. levels \in [1 .. m -> 0 .. 2] /\ Tokens(x, chunks, levels) <= x.budget /\ Rises(levels, scores, m)
  BY <1>3, AssignedIs DEF levels, scores, m
<1>7. narrow => Rendered(x, chunks, levels) <= 2 * x.budget + 1 + Cardinality(Methods(x))
  BY <1>2, <1>6, RenderedIs DEF m
<1>8. \A i, k \in 1 .. m : scores[i] < scores[k] => levels[i] <= levels[k]
  BY <1>6 DEF Rises
<1>. HIDE DEF narrow
<1>. QED  BY <1>1, <1>3, <1>4, <1>5, <1>6, <1>7, <1>8 DEF narrow, staged


-----------------------------------------------------------------------------
(* The plan: modules after those they need.                                   *)
Apart(s) == \A i, k \in 1 .. Len(s) : s[i] = s[k] => i = k
Listing(s, S) == s \in Seq(S) /\ ToSet(s) = S /\ Apart(s)

\* A list without repeats is as long as the set of its elements is large.
LEMMA ListingIs ==
  ASSUME NEW S, IsFiniteSet(S), NEW s \in Seq(S), Apart(s)
  PROVE  /\ Cardinality(ToSet(s)) = Len(s) /\ Len(s) <= Cardinality(S)
         /\ Len(s) = Cardinality(S) <=> ToSet(s) = S
<1>. DEFINE n == Len(s)
            T == ToSet(s)
<1>1. n \in Nat /\ DOMAIN s = 1 .. n /\ (\A i \in 1 .. n : s[i] \in S) /\ s \in [1 .. n -> S]
  OBVIOUS
<1>2. T \subseteq S /\ \A e \in T : \E i \in 1 .. n : s[i] = e
  BY <1>1 DEF ToSet
<1>3. \A i \in 1 .. n : s[i] \in T
  BY <1>1 DEF ToSet
<1>4. \A i, k \in 1 .. n : s[i] = s[k] => i = k
  BY DEF Apart
<1>. HIDE DEF n, T
<1>5. s \in Injection(1 .. n, S) /\ (T = S <=> s \in Surjection(1 .. n, S))
  <2>1. s \in Injection(1 .. n, S)
    BY <1>1, <1>4 DEF Injection, IsInjective
  <2>2. s \in Surjection(1 .. n, S) <=> \A e \in S : \E i \in 1 .. n : s[i] = e
    BY <1>1 DEF Surjection
  <2>3. T = S <=> \A e \in S : \E i \in 1 .. n : s[i] = e
    BY <1>2, <1>3
  <2>. QED  BY <2>1, <2>2, <2>3
<1>6. IsFiniteSet(1 .. n) /\ Cardinality(1 .. n) = n
  BY <1>1, FS_Interval
<1>7. n <= Cardinality(S) /\ (n = Cardinality(S) <=> s \in Surjection(1 .. n, S))
  BY <1>5, <1>6, FS_Injection
<1>8. IsFiniteSet(T)
  BY <1>2, FS_Subset
<1>9. s \in [1 .. n -> T]
  BY <1>1, <1>3
<1>10. s \in Injection(1 .. n, T) /\ s \in Surjection(1 .. n, T)
  BY <1>2, <1>3, <1>4, <1>9 DEF Injection, IsInjective, Surjection
<1>11. n = Cardinality(T)
  BY <1>6, <1>8, <1>10, FS_Injection
<1>. QED  BY <1>5, <1>7, <1>11 DEF n, T

\* The plan's data, of any size.
AnyPlan(d) == d.file \in Seq(DraftRecord) /\ d.imports \subseteq Nat \X Nat

\* The actionable files and their modules.
LEMMA FilesAre ==
  ASSUME NEW d, AnyPlan(d)
  PROVE  /\ DOMAIN d.file = 1 .. Len(d.file) /\ Len(d.file) \in Nat
         /\ Actionable(d) \in SUBSET (1 .. Len(d.file)) /\ Actionable(d) \in SUBSET Nat
         /\ IsFiniteSet(Actionable(d)) /\ Cardinality(Actionable(d)) \in Nat
         /\ \A f \in Actionable(d) : d.file[f] \in DraftRecord
         /\ Modules(d) \in SUBSET Nat /\ IsFiniteSet(Modules(d)) /\ Cardinality(Modules(d)) \in Nat
         /\ \A f \in Actionable(d) : d.file[f].module \in Modules(d)
<1>. DEFINE n == Len(d.file)
            A == Actionable(d)
<1>1. DOMAIN d.file = 1 .. n /\ n \in Nat /\ \A f \in 1 .. n : d.file[f] \in DraftRecord
  BY DEF AnyPlan
<1>2. A \in SUBSET (1 .. n)
  BY <1>1 DEF Actionable
<1>. HIDE DEF n, A
<1>3. A \in SUBSET Nat
  BY <1>1, <1>2
<1>4. IsFiniteSet(A) /\ Cardinality(A) \in Nat
  <2>1. IsFiniteSet(1 .. n)
    BY <1>1, FS_Interval
  <2>. QED  BY <1>2, <2>1, FS_Subset, FS_CardinalityType
<1>5. \A f \in A : d.file[f] \in DraftRecord
  BY <1>1, <1>2
<1>. DEFINE moduleOf == [f \in A |-> d.file[f].module]
            M == Modules(d)
<1>6. M = {d.file[f].module : f \in A}
  BY DEF Modules, A
<1>7. moduleOf \in Surjection(A, M)
  BY <1>6 DEF Surjection
<1>8. M \in SUBSET Nat
  <2>1. \A f \in A : d.file[f].module \in Nat
    BY <1>5 DEF DraftRecord
  <2>. QED  BY <1>6, <2>1
<1>9. IsFiniteSet(M) /\ Cardinality(M) \in Nat
  <2>. HIDE DEF M, moduleOf
  <2>. QED  BY <1>4, <1>7, FS_Surjection, FS_CardinalityType
<1>. QED  BY <1>1, <1>2, <1>3, <1>4, <1>5, <1>6, <1>8, <1>9 DEF n, A

\* The modules taken so far, and those that wait for nothing else.
Taken(out, queue, d, k) ==
  /\ out \in Seq(Modules(d)) /\ queue \in Seq(Modules(d))
  /\ Apart(out) /\ Apart(queue) /\ ToSet(out) \cap ToSet(queue) = {}
  /\ \A m \in Modules(d) : m \in ToSet(out) \cup ToSet(queue) <=> NeedsOf(d, m) \subseteq ToSet(out)
  /\ \A i \in 1 .. Len(out) : \A b \in NeedsOf(d, out[i]) : \E j \in 1 .. i - 1 : out[j] = b
  /\ Len(out) = k \/ queue = <<>>

\* Taking a module keeps what holds of the modules taken so far.
LEMMA TakenNext ==
  ASSUME NEW d, AnyPlan(d), NEW k \in Nat \ {0}, NEW s, Taken(s.out, s.queue, d, k - 1)
  PROVE  Taken(TakeModule(d, s).out, TakeModule(d, s).queue, d, k)
<1>1. CASE s.queue = <<>>
  BY <1>1 DEF TakeModule, Taken
<1>2. CASE s.queue # <<>>
  <2>. DEFINE M == Modules(d)
              N(m) == NeedsOf(d, m)
              out == s.out
              queue == s.queue
              h == Head(queue)
              t == Tail(queue)
              R == Freed(d, h, ToSet(out))
              a == Ascending(R)
              out2 == Append(out, h)
              queue2 == t \o a
  <2>1. TakeModule(d, s) = [out |-> out2, queue |-> queue2]
    BY <1>2 DEF TakeModule
  <2>2. M \in SUBSET Nat /\ IsFiniteSet(M) /\ \A m : N(m) \subseteq M
    BY FilesAre DEF NeedsOf
  <2>3. R = {c \in M : h \in N(c) /\ N(c) \subseteq ToSet(out) \cup {h}}
    BY DEF Freed
  <2>4. /\ out \in Seq(M) /\ queue \in Seq(M) /\ queue # <<>>
        /\ Apart(out) /\ Apart(queue) /\ ToSet(out) \cap ToSet(queue) = {}
        /\ \A m \in M : m \in ToSet(out) \cup ToSet(queue) <=> N(m) \subseteq ToSet(out)
        /\ \A i \in 1 .. Len(out) : \A b \in N(out[i]) : \E j \in 1 .. i - 1 : out[j] = b
        /\ Len(out) = k - 1
    BY <1>2 DEF Taken
  <2>. HIDE DEF M, N, R
  <2>5. R \in SUBSET M /\ R \in SUBSET Nat /\ IsFiniteSet(R)
    BY <2>2, <2>3, FS_Subset
  <2>. HIDE DEF out, queue
  <2>6. /\ a \in Seq(R) /\ ToSet(a) = R /\ Apart(a)
    BY <2>5, AscendingIs DEF Apart
  <2>7. h \in M /\ t \in Seq(M) /\ Len(queue) \in Nat /\ Len(t) = Len(queue) - 1 /\ Len(queue) >= 1 /\ h = queue[1]
        /\ \A i \in 1 .. Len(t) : t[i] = queue[i + 1]
    BY <2>4
  <2>. HIDE DEF h, t, a
  <2>8. /\ Len(out) \in Nat /\ Len(t) \in Nat /\ Len(a) \in Nat
        /\ DOMAIN out = 1 .. Len(out) /\ DOMAIN queue = 1 .. Len(queue) /\ DOMAIN t = 1 .. Len(t) /\ DOMAIN a = 1 .. Len(a)
        /\ a \in Seq(M)
    <3>1. Len(a) \in Nat /\ DOMAIN a = 1 .. Len(a) /\ a = [i \in 1 .. Len(a) |-> a[i]] /\ \A i \in 1 .. Len(a) : a[i] \in R
      BY <2>6
    <3>2. \A i \in 1 .. Len(a) : a[i] \in M
      BY <2>5, <3>1
    <3>3. a \in Seq(M)
      BY <3>1, <3>2
    <3>. QED  BY <2>4, <2>7, <3>1, <3>3
  <2>9. ToSet(queue) = {h} \cup ToSet(t)
    <3>1. \A i \in 1 .. Len(queue) : i = 1 \/ (i - 1 \in 1 .. Len(t) /\ (i - 1) + 1 = i)
      BY <2>7
    <3>2. \A i \in 1 .. Len(t) : i + 1 \in 1 .. Len(queue)
      BY <2>7
    <3>3. 1 \in 1 .. Len(queue)
      BY <2>7
    <3>4. /\ \A e : e \in ToSet(queue) <=> \E i \in 1 .. Len(queue) : queue[i] = e
          /\ \A e : e \in ToSet(t) <=> \E i \in 1 .. Len(t) : t[i] = e
      BY <2>8 DEF ToSet
    <3>5. ASSUME NEW e \in ToSet(queue) PROVE e \in {h} \cup ToSet(t)
      <4>1. PICK i \in 1 .. Len(queue) : queue[i] = e
        BY <3>4, <3>5
      <4>2. CASE i = 1
        BY <2>7, <4>1, <4>2
      <4>3. CASE i - 1 \in 1 .. Len(t) /\ (i - 1) + 1 = i
        <5>1. t[i - 1] = e
          BY <2>7, <4>1, <4>3
        <5>. QED  BY <3>4, <4>3, <5>1
      <4>. QED  BY <3>1, <4>2, <4>3
    <3>6. h \in ToSet(queue)
      BY <2>7, <3>3, <3>4
    <3>7. ASSUME NEW e \in ToSet(t) PROVE e \in ToSet(queue)
      BY <2>7, <3>2, <3>4, <3>7
    <3>. QED  BY <3>5, <3>6, <3>7
  <2>10. h \notin ToSet(t) /\ Apart(t)
    <3>1. \A i \in 1 .. Len(t) : i + 1 \in 1 .. Len(queue) /\ i + 1 # 1
      BY <2>7
    <3>2. 1 \in 1 .. Len(queue)
      BY <2>7
    <3>3. \A i, j \in 1 .. Len(queue) : queue[i] = queue[j] => i = j
      BY <2>4 DEF Apart
    <3>4. \A i \in 1 .. Len(t) : t[i] # h
      BY <2>7, <3>1, <3>2, <3>3
    <3>5. ASSUME NEW i \in 1 .. Len(t), NEW j \in 1 .. Len(t), t[i] = t[j] PROVE i = j
      <4>1. i + 1 = j + 1
        BY <2>7, <3>1, <3>3, <3>5
      <4>. QED  BY <4>1
    <3>. QED  BY <2>8, <3>4, <3>5 DEF ToSet, Apart
  <2>11. /\ out2 \in Seq(M) /\ Len(out2) = Len(out) + 1 /\ out2[Len(out) + 1] = h
         /\ (\A i \in 1 .. Len(out) : out2[i] = out[i]) /\ ToSet(out2) = ToSet(out) \cup {h}
    BY <2>4, <2>7, AppendIs
  <2>12. /\ queue2 \in Seq(M) /\ Len(queue2) = Len(t) + Len(a)
         /\ \A i \in 1 .. Len(t) : queue2[i] = t[i]
         /\ \A i \in 1 .. Len(a) : queue2[Len(t) + i] = a[i]
         /\ ToSet(queue2) = ToSet(t) \cup R
    <3>1. t \in Seq(M) /\ a \in Seq(M)
      BY <2>7, <2>8
    <3>2. /\ queue2 \in Seq(M) /\ Len(queue2) = Len(t) + Len(a)
          /\ \A i \in 1 .. Len(t) : queue2[i] = t[i]
          /\ \A i \in 1 .. Len(a) : queue2[Len(t) + i] = a[i]
          /\ ToSet(queue2) = ToSet(t) \cup ToSet(a)
      BY <3>1, ConcatIs
    <3>. QED  BY <2>6, <3>2
  <2>. HIDE DEF out2, queue2
  <2>13. h \notin ToSet(out) /\ N(h) \subseteq ToSet(out)
    BY <2>4, <2>7, <2>9
  <2>14. \A c \in R : c \notin ToSet(out) \cup ToSet(queue)
    BY <2>3, <2>4, <2>5, <2>13
  <2>15. Apart(out2)
    <3>1. \A i \in 1 .. Len(out) : out[i] # h
      BY <2>8, <2>13 DEF ToSet
    <3>2. \A i \in 1 .. Len(out2) : i \in 1 .. Len(out) \/ i = Len(out) + 1
      BY <2>8, <2>11
    <3>. QED  BY <2>4, <2>11, <3>1, <3>2 DEF Apart
  <2>16. Apart(queue2)
    <3>1. \A i \in 1 .. Len(queue2) : \/ i \in 1 .. Len(t) /\ queue2[i] = t[i] /\ queue2[i] \in ToSet(queue)
                                      \/ /\ i - Len(t) \in 1 .. Len(a) /\ queue2[i] = a[i - Len(t)]
                                         /\ i = Len(t) + (i - Len(t)) /\ queue2[i] \in R
      <4>1. ASSUME NEW i \in 1 .. Len(queue2), i \in 1 .. Len(t) PROVE queue2[i] = t[i] /\ queue2[i] \in ToSet(queue)
        BY <2>8, <2>9, <2>12, <4>1 DEF ToSet
      <4>2. ASSUME NEW i \in 1 .. Len(queue2), i \notin 1 .. Len(t)
            PROVE  /\ i - Len(t) \in 1 .. Len(a) /\ queue2[i] = a[i - Len(t)]
                   /\ i = Len(t) + (i - Len(t)) /\ queue2[i] \in R
        <5>1. i - Len(t) \in 1 .. Len(a) /\ i = Len(t) + (i - Len(t))
          BY <2>8, <2>12, <4>2
        <5>2. queue2[i] = a[i - Len(t)]
          BY <2>12, <5>1
        <5>3. a[i - Len(t)] \in R
          BY <2>6, <2>8, <5>1 DEF ToSet
        <5>. QED  BY <5>1, <5>2, <5>3
      <4>. QED  BY <4>1, <4>2
    <3>2. ASSUME NEW i \in 1 .. Len(queue2), NEW j \in 1 .. Len(queue2), queue2[i] = queue2[j] PROVE i = j
      <4>1. CASE i \in 1 .. Len(t) /\ queue2[i] = t[i] /\ queue2[i] \in ToSet(queue)
        <5>1. j \in 1 .. Len(t) /\ queue2[j] = t[j]
          BY <2>14, <3>1, <3>2, <4>1
        <5>. QED  BY <2>10, <3>2, <4>1, <5>1 DEF Apart
      <4>2. CASE /\ i - Len(t) \in 1 .. Len(a) /\ queue2[i] = a[i - Len(t)]
                 /\ i = Len(t) + (i - Len(t)) /\ queue2[i] \in R
        <5>1. /\ j - Len(t) \in 1 .. Len(a) /\ queue2[j] = a[j - Len(t)]
              /\ j = Len(t) + (j - Len(t))
          BY <2>14, <3>1, <3>2, <4>2
        <5>2. i - Len(t) = j - Len(t)
          BY <2>6, <3>2, <4>2, <5>1 DEF Apart
        <5>. QED  BY <4>2, <5>1, <5>2
      <4>. QED  BY <3>1, <4>1, <4>2
    <3>. QED  BY <3>2 DEF Apart
  <2>17. ToSet(out2) \cap ToSet(queue2) = {}
    BY <2>4, <2>9, <2>10, <2>11, <2>12, <2>14, <2>13
  <2>18. ASSUME NEW m \in M PROVE m \in ToSet(out2) \cup ToSet(queue2) <=> N(m) \subseteq ToSet(out2)
    <3>1. m \in ToSet(out2) \cup ToSet(queue2) <=> m \in ToSet(out) \cup ToSet(queue) \/ m \in R
      BY <2>9, <2>11, <2>12
    <3>2. m \in ToSet(out) \cup ToSet(queue) <=> N(m) \subseteq ToSet(out)
      BY <2>4
    <3>3. m \in R <=> h \in N(m) /\ N(m) \subseteq ToSet(out) \cup {h}
      BY <2>3
    <3>4. N(m) \subseteq ToSet(out) \cup {h} <=> N(m) \subseteq ToSet(out) \/ (h \in N(m) /\ N(m) \subseteq ToSet(out) \cup {h})
      OBVIOUS
    <3>. QED  BY <2>11, <3>1, <3>2, <3>3, <3>4
  <2>19. ASSUME NEW i \in 1 .. Len(out2), NEW b \in N(out2[i]) PROVE \E j \in 1 .. i - 1 : out2[j] = b
    <3>1. CASE i \in 1 .. Len(out)
      <4>1. PICK j \in 1 .. i - 1 : out[j] = b
        BY <2>4, <2>11, <2>19, <3>1
      <4>2. j \in 1 .. Len(out)
        BY <2>8, <3>1
      <4>. QED  BY <2>11, <4>1, <4>2
    <3>2. CASE i = Len(out) + 1
      <4>1. b \in ToSet(out)
        BY <2>11, <2>13, <2>19, <3>2
      <4>2. PICK j \in 1 .. Len(out) : out[j] = b
        BY <2>8, <4>1 DEF ToSet
      <4>3. j \in 1 .. i - 1
        BY <2>8, <3>2
      <4>. QED  BY <2>11, <4>2, <4>3
    <3>3. i \in 1 .. Len(out) \/ i = Len(out) + 1
      BY <2>8, <2>11
    <3>. QED  BY <3>1, <3>2, <3>3
  <2>20. Len(out2) = k
    BY <2>4, <2>11
  <2>21. TakeModule(d, s).out = out2 /\ TakeModule(d, s).queue = queue2
    BY <2>1
  <2>22. Taken(out2, queue2, d, k)
    BY <2>11, <2>12, <2>15, <2>16, <2>17, <2>18, <2>19, <2>20 DEF Taken, M, N
  <2>. QED  BY <2>21, <2>22
<1>. QED  BY <1>1, <1>2

Takes(g, d) ==
  LET m == Cardinality(Modules(d))
  IN /\ \A k \in 1 .. m : g[k] = TakeModule(d, g[k - 1])
     /\ g[0] = [out |-> <<>>, queue |-> Ascending({b \in Modules(d) : NeedsOf(d, b) = {}})]
     /\ OrderModules(d) = IF Len(g[m].out) = m THEN g[m].out ELSE Ascending(Modules(d))
\* The modules are taken one by one.
LEMMA TakesRun ==
  ASSUME NEW d, AnyPlan(d)
  PROVE  \E g : Takes(g, d)
<1>. DEFINE M == Modules(d)
            Z == Seq(M)
            m == Cardinality(M)
            Free0 == {b \in M : NeedsOf(d, b) = {}}
<1>20. M \in SUBSET Nat /\ IsFiniteSet(M) /\ m \in Nat
  BY FilesAre
<1>. HIDE DEF M
<1>21. ASSUME NEW R \in SUBSET M PROVE Ascending(R) \in Z
  <2>1. R \in SUBSET Nat /\ IsFiniteSet(R)
    BY <1>20, FS_Subset
  <2>. DEFINE a == Ascending(R)
  <2>2. a \in Seq(R)
    BY <2>1, AscendingIs
  <2>. HIDE DEF a
  <2>3. Len(a) \in Nat /\ a = [i \in 1 .. Len(a) |-> a[i]] /\ \A i \in 1 .. Len(a) : a[i] \in R
    BY <2>2
  <2>4. \A i \in 1 .. Len(a) : a[i] \in M
    BY <2>3
  <2>5. a \in Z
    BY <2>3, <2>4
  <2>. QED  BY <2>5 DEF a
<1>. HIDE DEF m
<1>. DEFINE N == m
            D == [out : Z, queue : Z]
            base == [out |-> <<>>, queue |-> Ascending(Free0)]
            Step(r, n) == TakeModule(d, r)
            F == [e \in (1 .. N) \X D |-> Step(e[2], e[1])]
            IsRun(h) == h = [n \in 0 .. N |-> IF n = 0 THEN base ELSE Step(h[n - 1], n)]
<1>1. N \in Nat
  BY <1>20
<1>2. base \in D
  <2>1. Ascending(Free0) \in Z
    BY <1>21
  <2>2. <<>> \in Z
    OBVIOUS
  <2>. HIDE DEF Free0, Z
  <2>. QED  BY <2>1, <2>2
<1>3. ASSUME NEW n \in 1 .. N, NEW r \in D PROVE Step(r, n) \in D
  <2>. DEFINE h == Head(r.queue)
              R == Freed(d, h, ToSet(r.out))
  <2>1. CASE r.queue = <<>>
    BY <2>1 DEF TakeModule
  <2>2. CASE r.queue # <<>>
    <3>1. r.out \in Z /\ r.queue \in Z
      OBVIOUS
    <3>2. h \in M /\ Tail(r.queue) \in Z
      BY <2>2, <3>1
    <3>3. R \in SUBSET M
      BY DEF Freed, M
    <3>4. Ascending(R) \in Z
      BY <1>21, <3>3
    <3>. HIDE DEF h, R
    <3>5. Append(r.out, h) \in Z
      BY <3>1, <3>2
    <3>6. Tail(r.queue) \o Ascending(R) \in Z
      BY <3>2, <3>4
    <3>7. TakeModule(d, r) = [out |-> Append(r.out, h), queue |-> Tail(r.queue) \o Ascending(R)]
      BY <2>2 DEF TakeModule, h, R
    <3>. HIDE DEF Z
    <3>. QED  BY <3>5, <3>6, <3>7
  <2>. QED  BY <2>1, <2>2
<1>. DEFINE g == CHOOSE h : IsRun(h)
<1>4. OrderModules(d) = IF Len(g[N].out) = N THEN g[N].out ELSE Ascending(M)
  BY Zenon DEF OrderModules, m, M
<1>. HIDE DEF N, D, base, Step
<1>5. F \in [(1 .. N) \X D -> D] /\ \A n \in 1 .. N, r \in D : F[<<n, r>>] = Step(r, n)
  BY <1>3
<1>. HIDE DEF F
<1>6. PICK f : Follows(f, N, D, base, F)
  BY <1>1, <1>2, <1>5, Recursion
<1>7. IsRun(f)
  <2>1. ASSUME NEW n \in 0 .. N PROVE f[n] = IF n = 0 THEN base ELSE Step(f[n - 1], n)
    <3>1. CASE n = 0
      BY <1>6, <3>1 DEF Follows
    <3>2. CASE n # 0
      <4>1. n \in 1 .. N /\ n - 1 \in 0 .. N
        BY <1>1, <3>2
      <4>. QED  BY <1>5, <1>6, <3>2, <4>1 DEF Follows
    <3>. QED  BY <3>1, <3>2
  <2>. QED  BY <1>6, <2>1 DEF Follows
<1>8. IsRun(g)
  <2>1. \E h : IsRun(h)
    <3>. HIDE DEF IsRun
    <3>. QED  BY <1>7
  <2>. HIDE DEF IsRun
  <2>. QED  BY <2>1
<1>. HIDE DEF g
<1>9. g[0] = base /\ DOMAIN g = 0 .. N /\ g = [n \in 0 .. N |-> g[n]]
  BY <1>1, <1>8
<1>10. ASSUME NEW n \in 1 .. N PROVE g[n] = Step(g[n - 1], n)
  <2>1. n \in 0 .. N /\ n # 0
    BY <1>1
  <2>. QED  BY <1>8, <2>1
<1>11. g \in [0 .. N -> D]
  <2>. DEFINE T == {n \in 0 .. N : g[n] \in D}
  <2>1. 0 \in T
    BY <1>1, <1>2, <1>9
  <2>2. ASSUME NEW n \in 1 .. N, n - 1 \in T PROVE n \in T
    <3>1. n \in 0 .. N
      BY <1>1
    <3>. QED  BY <1>3, <1>10, <2>2, <3>1
  <2>3. \A n \in 0 .. N : n \in T
    <3>. HIDE DEF T
    <3>. QED  BY <1>1, <2>1, <2>2, UpTo
  <2>. QED  BY <1>9, <2>3
<1>. QED  BY <1>4, <1>9, <1>10 DEF N, base, Step, Takes, m, M

\* A ring of modules, each needing one of the others.
ModuleRing(d) == \E C \in SUBSET Modules(d) : C # {} /\ \A a \in C : \E b \in C : b \in NeedsOf(d, a)

\* Every module once, after those it needs unless they need each other in a ring.
LEMMA ModulesAre ==
  ASSUME NEW d, AnyPlan(d)
  PROVE  /\ Listing(OrderModules(d), Modules(d))
         /\ ~ModuleRing(d) => \A i \in 1 .. Len(OrderModules(d)) : \A b \in NeedsOf(d, OrderModules(d)[i]) :
              \E j \in 1 .. i - 1 : OrderModules(d)[j] = b
<1>. DEFINE M == Modules(d)
            m == Cardinality(M)
<1>1. M \in SUBSET Nat /\ IsFiniteSet(M) /\ m \in Nat
  BY FilesAre
<1>2. PICK g : Takes(g, d)
  BY TakesRun
<1>3. /\ \A k \in 1 .. m : g[k] = TakeModule(d, g[k - 1])
      /\ g[0] = [out |-> <<>>, queue |-> Ascending({b \in M : NeedsOf(d, b) = {}})]
      /\ OrderModules(d) = IF Len(g[m].out) = m THEN g[m].out ELSE Ascending(M)
  BY <1>2 DEF Takes
<1>. DEFINE T == {k \in 0 .. m : Taken(g[k].out, g[k].queue, d, k)}
<1>4. 0 \in T
  <2>. DEFINE R == {b \in M : NeedsOf(d, b) = {}}
              a == Ascending(R)
  <2>1. R \in SUBSET M /\ R \in SUBSET Nat /\ IsFiniteSet(R)
    BY <1>1, FS_Subset
  <2>2. \A b \in M : b \in R <=> NeedsOf(d, b) \subseteq {}
    OBVIOUS
  <2>3. g[0].out = <<>> /\ g[0].queue = a
    BY <1>3
  <2>. HIDE DEF R, M
  <2>4. a \in Seq(R) /\ ToSet(a) = R /\ Apart(a)
    BY <2>1, AscendingIs DEF Apart
  <2>. HIDE DEF a
  <2>5. a \in Seq(M)
    <3>1. Len(a) \in Nat /\ a = [i \in 1 .. Len(a) |-> a[i]] /\ \A i \in 1 .. Len(a) : a[i] \in R
      BY <2>4
    <3>2. \A i \in 1 .. Len(a) : a[i] \in M
      BY <2>1, <3>1
    <3>. QED  BY <3>1, <3>2
  <2>. DEFINE none == <<>>
  <2>6. none \in Seq(M) /\ Len(none) = 0 /\ ToSet(none) = {} /\ Apart(none)
    BY DEF ToSet, Apart
  <2>. HIDE DEF none
  <2>7. Taken(none, a, d, 0)
    <3>1. \A i \in 1 .. Len(none) : FALSE
      BY <2>6
    <3>. QED  BY <2>2, <2>4, <2>5, <2>6, <3>1 DEF Taken, M
  <2>. QED  BY <1>1, <2>3, <2>7 DEF none
<1>5. ASSUME NEW k \in 1 .. m, k - 1 \in T PROVE k \in T
  <2>1. k \in Nat \ {0} /\ k \in 0 .. m
    BY <1>1
  <2>2. Taken(TakeModule(d, g[k - 1]).out, TakeModule(d, g[k - 1]).queue, d, k)
    BY <1>5, <2>1, TakenNext
  <2>. QED  BY <1>3, <2>1, <2>2
<1>6. Taken(g[m].out, g[m].queue, d, m)
  <2>1. \A k \in 0 .. m : k \in T
    <3>. HIDE DEF T, m
    <3>. QED  BY <1>1, <1>4, <1>5, UpTo
  <2>. QED  BY <1>1, <2>1
<1>. DEFINE out == g[m].out
            queue == g[m].queue
<1>7. /\ out \in Seq(M) /\ queue \in Seq(M) /\ Apart(out)
      /\ \A b \in M : b \in ToSet(out) \cup ToSet(queue) <=> NeedsOf(d, b) \subseteq ToSet(out)
      /\ \A i \in 1 .. Len(out) : \A b \in NeedsOf(d, out[i]) : \E j \in 1 .. i - 1 : out[j] = b
      /\ Len(out) = m \/ queue = <<>>
  BY <1>6 DEF Taken
<1>. HIDE DEF out, queue, M, m
<1>8. Cardinality(ToSet(out)) = Len(out) /\ (Len(out) = m <=> ToSet(out) = M)
  BY <1>1, <1>7, ListingIs DEF m
<1>9. Listing(Ascending(M), M)
  BY <1>1, AscendingIs DEF Listing, Apart
<1>10. Listing(OrderModules(d), M)
  BY <1>3, <1>7, <1>8, <1>9 DEF Listing, out
<1>11. ASSUME ~ModuleRing(d) PROVE Len(out) = m
  <2>1. CASE queue = <<>>
    <3>. DEFINE C == M \ ToSet(out)
    <3>1. ToSet(queue) = {}
      BY <2>1 DEF ToSet
    <3>2. \A b \in C : \E c \in C : c \in NeedsOf(d, b)
      <4>1. \A b : NeedsOf(d, b) \subseteq M
        BY DEF NeedsOf, M
      <4>. QED  BY <1>7, <3>1, <4>1
    <3>3. C = {}
      BY <1>11, <3>2 DEF ModuleRing, M
    <3>4. ToSet(out) \subseteq M
      BY <1>7 DEF ToSet
    <3>. QED  BY <1>8, <3>3, <3>4
  <2>. QED  BY <1>7, <2>1
<1>12. ASSUME ~ModuleRing(d) PROVE OrderModules(d) = out
  BY <1>3, <1>11, <1>12 DEF out
<1>. QED  BY <1>7, <1>10, <1>12 DEF M

\* Files after the files they import.
ReadyRun(g, d) ==
  LET m == Cardinality(Actionable(d))
  IN /\ \A k \in 1 .. m : g[k] = TakeReady(d, g[k - 1])
     /\ g[0] = <<>>
     /\ TopologicalOrder(d) = g[m] \o Ascending(Actionable(d) \ ToSet(g[m]))
\* The files are taken one by one.
LEMMA ReadyRuns ==
  ASSUME NEW d, AnyPlan(d)
  PROVE  \E g : ReadyRun(g, d)
<1>. DEFINE A == Actionable(d)
            m == Cardinality(A)
<1>20. A \in SUBSET Nat /\ IsFiniteSet(A) /\ m \in Nat
  BY FilesAre
<1>. HIDE DEF A, m
<1>. DEFINE N == m
            D == Seq(A)
            base == <<>>
            Step(r, n) == TakeReady(d, r)
            F == [e \in (1 .. N) \X D |-> Step(e[2], e[1])]
            IsRun(h) == h = [n \in 0 .. N |-> IF n = 0 THEN base ELSE Step(h[n - 1], n)]
<1>1. N \in Nat
  BY <1>20
<1>2. base \in D
  OBVIOUS
<1>3. ASSUME NEW n \in 1 .. N, NEW r \in D PROVE Step(r, n) \in D
  <2>1. CASE Ready(d, r) = {}
    BY <2>1 DEF TakeReady
  <2>2. CASE Ready(d, r) # {}
    <3>. DEFINE R == Ready(d, r)
                f == Min(R)
    <3>1. R \in SUBSET A
      BY DEF Ready, A
    <3>. HIDE DEF R
    <3>2. R \in SUBSET Nat /\ IsFiniteSet(R) /\ R # {}
      BY <1>20, <2>2, <3>1, FS_Subset DEF R
    <3>3. f \in R
      BY <3>2, LeastIs
    <3>. HIDE DEF f
    <3>4. f \in A
      BY <3>1, <3>3
    <3>5. Append(r, f) \in Seq(A)
      BY <3>4
    <3>. QED  BY <2>2, <3>5 DEF TakeReady, R, f
  <2>. QED  BY <2>1, <2>2
<1>. DEFINE g == CHOOSE h : IsRun(h)
<1>4. TopologicalOrder(d) = g[N] \o Ascending(A \ ToSet(g[N]))
  BY Zenon DEF TopologicalOrder, m, A
<1>. HIDE DEF N, D, base, Step
<1>5. F \in [(1 .. N) \X D -> D] /\ \A n \in 1 .. N, r \in D : F[<<n, r>>] = Step(r, n)
  BY <1>3
<1>. HIDE DEF F
<1>6. PICK f : Follows(f, N, D, base, F)
  BY <1>1, <1>2, <1>5, Recursion
<1>7. IsRun(f)
  <2>1. ASSUME NEW n \in 0 .. N PROVE f[n] = IF n = 0 THEN base ELSE Step(f[n - 1], n)
    <3>1. CASE n = 0
      BY <1>6, <3>1 DEF Follows
    <3>2. CASE n # 0
      <4>1. n \in 1 .. N /\ n - 1 \in 0 .. N
        BY <1>1, <3>2
      <4>. QED  BY <1>5, <1>6, <3>2, <4>1 DEF Follows
    <3>. QED  BY <3>1, <3>2
  <2>. QED  BY <1>6, <2>1 DEF Follows
<1>8. IsRun(g)
  <2>1. \E h : IsRun(h)
    <3>. HIDE DEF IsRun
    <3>. QED  BY <1>7
  <2>. HIDE DEF IsRun
  <2>. QED  BY <2>1
<1>. HIDE DEF g
<1>9. g[0] = base /\ DOMAIN g = 0 .. N /\ g = [n \in 0 .. N |-> g[n]]
  BY <1>1, <1>8
<1>10. ASSUME NEW n \in 1 .. N PROVE g[n] = Step(g[n - 1], n)
  <2>1. n \in 0 .. N /\ n # 0
    BY <1>1
  <2>. QED  BY <1>8, <2>1
<1>11. g \in [0 .. N -> D]
  <2>. DEFINE T == {n \in 0 .. N : g[n] \in D}
  <2>1. 0 \in T
    BY <1>1, <1>2, <1>9
  <2>2. ASSUME NEW n \in 1 .. N, n - 1 \in T PROVE n \in T
    <3>1. n \in 0 .. N
      BY <1>1
    <3>. QED  BY <1>3, <1>10, <2>2, <3>1
  <2>3. \A n \in 0 .. N : n \in T
    <3>. HIDE DEF T
    <3>. QED  BY <1>1, <2>1, <2>2, UpTo
  <2>. QED  BY <1>9, <2>3
<1>. QED  BY <1>4, <1>9, <1>10 DEF N, base, Step, ReadyRun, m, A

Imports(d, f, g) == <<f, g>> \in d.imports
FileRing(d) == \E C \in SUBSET Actionable(d) : C # {} /\ \A f \in C : \E g \in C : Imports(d, f, g)
ReadySoFar(out, d, k) ==
  /\ out \in Seq(Actionable(d)) /\ Apart(out)
  /\ \A i \in 1 .. Len(out) : \A g \in Actionable(d) : Imports(d, out[i], g) => \E j \in 1 .. i - 1 : out[j] = g
  /\ Len(out) = k \/ Ready(d, out) = {}

\* A file is ready when all it imports is taken.
LEMMA ReadyIs ==
  ASSUME NEW d, AnyPlan(d), NEW out
  PROVE  Ready(d, out) = {f \in Actionable(d) \ ToSet(out) :
                            \A g \in Actionable(d) : Imports(d, f, g) => g \in ToSet(out)}
<1>1. ASSUME NEW f \in Actionable(d) \ ToSet(out)
      PROVE  (\A e \in d.imports : e[1] = f /\ e[2] \in Actionable(d) => e[2] \in ToSet(out))
               <=> \A g \in Actionable(d) : Imports(d, f, g) => g \in ToSet(out)
  <2>1. ASSUME \A e \in d.imports : e[1] = f /\ e[2] \in Actionable(d) => e[2] \in ToSet(out),
               NEW g \in Actionable(d), Imports(d, f, g)
        PROVE  g \in ToSet(out)
    <3>1. <<f, g>> \in d.imports /\ <<f, g>>[1] = f /\ <<f, g>>[2] = g
      BY <2>1 DEF Imports
    <3>. QED  BY <2>1, <3>1
  <2>2. ASSUME \A g \in Actionable(d) : Imports(d, f, g) => g \in ToSet(out),
               NEW e \in d.imports, e[1] = f, e[2] \in Actionable(d)
        PROVE  e[2] \in ToSet(out)
    <3>1. e \in Nat \X Nat
      BY DEF AnyPlan
    <3>2. e = <<f, e[2]>>
      BY <2>2, <3>1
    <3>3. Imports(d, f, e[2])
      BY <3>2 DEF Imports
    <3>. QED  BY <2>2, <3>3
  <2>. QED  BY <2>1, <2>2
<1>. QED  BY <1>1, Zenon DEF Ready

\* Taking a file keeps what holds of the files taken so far.
LEMMA ChosenNext ==
  ASSUME NEW d, AnyPlan(d), NEW k \in Nat \ {0}, NEW out, ReadySoFar(out, d, k - 1)
  PROVE  ReadySoFar(TakeReady(d, out), d, k)
<1>1. CASE Ready(d, out) = {}
  BY <1>1 DEF TakeReady, ReadySoFar
<1>2. CASE Ready(d, out) # {}
  <2>. DEFINE A == Actionable(d)
              R == Ready(d, out)
              f == Min(R)
              out2 == Append(out, f)
  <2>1. A \in SUBSET Nat /\ IsFiniteSet(A)
    BY FilesAre
  <2>2. R = {h \in A \ ToSet(out) : \A g \in A : Imports(d, h, g) => g \in ToSet(out)}
    BY ReadyIs
  <2>3. TakeReady(d, out) = out2
    BY <1>2 DEF TakeReady
  <2>4. /\ out \in Seq(A) /\ Apart(out) /\ Len(out) = k - 1
        /\ \A i \in 1 .. Len(out) : \A g \in A : Imports(d, out[i], g) => \E j \in 1 .. i - 1 : out[j] = g
    BY <1>2 DEF ReadySoFar
  <2>. HIDE DEF A, R
  <2>5. R \in SUBSET Nat /\ IsFiniteSet(R) /\ R # {} /\ R \in SUBSET A
    BY <1>2, <2>1, <2>2, FS_Subset DEF R
  <2>6. f \in R
    BY <2>5, LeastIs
  <2>. HIDE DEF f
  <2>7. f \in A /\ f \notin ToSet(out) /\ \A g \in A : Imports(d, f, g) => g \in ToSet(out)
    BY <2>2, <2>6
  <2>8. Len(out) \in Nat /\ DOMAIN out = 1 .. Len(out)
    BY <2>4
  <2>9. /\ out2 \in Seq(A) /\ Len(out2) = Len(out) + 1 /\ out2[Len(out) + 1] = f
        /\ \A i \in 1 .. Len(out) : out2[i] = out[i]
    BY <2>4, <2>7, AppendIs
  <2>. HIDE DEF out2
  <2>10. \A i \in 1 .. Len(out2) : i \in 1 .. Len(out) \/ i = Len(out) + 1
    BY <2>8, <2>9
  <2>11. Apart(out2)
    <3>1. \A i \in 1 .. Len(out) : out[i] # f
      BY <2>7, <2>8 DEF ToSet
    <3>. QED  BY <2>4, <2>9, <2>10, <3>1 DEF Apart
  <2>12. ASSUME NEW i \in 1 .. Len(out2), NEW g \in A, Imports(d, out2[i], g) PROVE \E j \in 1 .. i - 1 : out2[j] = g
    <3>1. CASE i \in 1 .. Len(out)
      <4>1. PICK j \in 1 .. i - 1 : out[j] = g
        BY <2>4, <2>9, <2>12, <3>1
      <4>2. j \in 1 .. Len(out)
        BY <2>8, <3>1
      <4>. QED  BY <2>9, <4>1, <4>2
    <3>2. CASE i = Len(out) + 1
      <4>1. PICK j \in 1 .. Len(out) : out[j] = g
        BY <2>7, <2>8, <2>9, <2>12, <3>2 DEF ToSet
      <4>2. j \in 1 .. i - 1
        BY <2>8, <3>2
      <4>. QED  BY <2>9, <4>1, <4>2
    <3>. QED  BY <2>10, <3>1, <3>2
  <2>13. Len(out2) = k
    BY <2>4, <2>9
  <2>. QED  BY <2>3, <2>9, <2>11, <2>12, <2>13 DEF ReadySoFar, A
<1>. QED  BY <1>1, <1>2

\* Every file once, after those it imports unless imports form a ring.
LEMMA TopologyIs ==
  ASSUME NEW d, AnyPlan(d)
  PROVE  /\ Listing(TopologicalOrder(d), Actionable(d))
         /\ ~FileRing(d) => \A i \in 1 .. Len(TopologicalOrder(d)) : \A g \in Actionable(d) :
              Imports(d, TopologicalOrder(d)[i], g) => \E j \in 1 .. i - 1 : TopologicalOrder(d)[j] = g
<1>. DEFINE A == Actionable(d)
            m == Cardinality(A)
            order == TopologicalOrder(d)
<1>1. A \in SUBSET Nat /\ IsFiniteSet(A) /\ m \in Nat
  BY FilesAre
<1>2. PICK h : ReadyRun(h, d)
  BY ReadyRuns
<1>3. /\ \A k \in 1 .. m : h[k] = TakeReady(d, h[k - 1])
      /\ h[0] = <<>> /\ order = h[m] \o Ascending(A \ ToSet(h[m]))
  BY <1>2 DEF ReadyRun
<1>. DEFINE T == {k \in 0 .. m : ReadySoFar(h[k], d, k)}
<1>4. 0 \in T
  <2>. DEFINE none == <<>>
  <2>1. none \in Seq(A) /\ Len(none) = 0 /\ Apart(none)
    BY DEF Apart
  <2>. HIDE DEF none
  <2>2. \A i \in 1 .. Len(none) : FALSE
    BY <2>1
  <2>3. ReadySoFar(none, d, 0)
    BY <2>1, <2>2 DEF ReadySoFar
  <2>. QED  BY <1>1, <1>3, <2>3 DEF none
<1>5. ASSUME NEW k \in 1 .. m, k - 1 \in T PROVE k \in T
  <2>1. k \in Nat \ {0} /\ k \in 0 .. m
    BY <1>1
  <2>2. ReadySoFar(TakeReady(d, h[k - 1]), d, k)
    BY <1>5, <2>1, ChosenNext
  <2>. QED  BY <1>3, <2>1, <2>2
<1>6. ReadySoFar(h[m], d, m)
  <2>1. \A k \in 0 .. m : k \in T
    <3>. HIDE DEF T, m
    <3>. QED  BY <1>1, <1>4, <1>5, UpTo
  <2>. QED  BY <1>1, <2>1
<1>. DEFINE out == h[m]
            rest == A \ ToSet(out)
            a == Ascending(rest)
<1>7. /\ out \in Seq(A) /\ Apart(out) /\ (Len(out) = m \/ Ready(d, out) = {})
      /\ \A i \in 1 .. Len(out) : \A g \in A : Imports(d, out[i], g) => \E j \in 1 .. i - 1 : out[j] = g
  BY <1>6 DEF ReadySoFar
<1>8. order = out \o a
  BY <1>3
<1>9. Ready(d, out) = {f \in A \ ToSet(out) : \A g \in A : Imports(d, f, g) => g \in ToSet(out)}
  BY ReadyIs
<1>. HIDE DEF out, A, m, order
<1>10. rest \in SUBSET Nat /\ IsFiniteSet(rest) /\ rest \in SUBSET A
  BY <1>1, FS_Subset
<1>11. Len(out) = m <=> ToSet(out) = A
  BY <1>1, <1>7, ListingIs DEF m
<1>12. ~FileRing(d) => rest = {}
  <2>1. ASSUME Ready(d, out) = {}, ~FileRing(d) PROVE rest = {}
    <3>1. \A f \in rest : \E g \in rest : Imports(d, f, g)
      BY <1>9, <2>1
    <3>. HIDE DEF rest
    <3>. QED  BY <1>10, <2>1, <3>1 DEF FileRing, A
  <2>. QED  BY <1>7, <1>11, <2>1
<1>13. ToSet(out) \subseteq A
  BY <1>7 DEF ToSet
<1>14. ToSet(out) \cup rest = A /\ ToSet(out) \cap rest = {}
  BY <1>13
<1>. HIDE DEF rest
<1>15. a \in Seq(rest) /\ ToSet(a) = rest /\ Apart(a)
  BY <1>10, AscendingIs DEF Apart
<1>. HIDE DEF a
<1>16. a \in Seq(A) /\ Len(a) \in Nat /\ DOMAIN a = 1 .. Len(a) /\ \A i \in 1 .. Len(a) : a[i] \in rest
  <2>1. Len(a) \in Nat /\ DOMAIN a = 1 .. Len(a) /\ a = [i \in 1 .. Len(a) |-> a[i]] /\ \A i \in 1 .. Len(a) : a[i] \in rest
    BY <1>15
  <2>2. \A i \in 1 .. Len(a) : a[i] \in A
    BY <1>10, <2>1
  <2>. QED  BY <2>1, <2>2
<1>17. /\ order \in Seq(A) /\ Len(order) = Len(out) + Len(a) /\ Len(out) \in Nat
       /\ \A i \in 1 .. Len(out) : order[i] = out[i]
       /\ \A i \in 1 .. Len(a) : order[Len(out) + i] = a[i]
       /\ ToSet(order) = ToSet(out) \cup ToSet(a)
  BY <1>7, <1>8, <1>16, ConcatIs
<1>18. \A i \in 1 .. Len(order) :
         \/ i \in 1 .. Len(out) /\ order[i] = out[i] /\ order[i] \in ToSet(out)
         \/ i - Len(out) \in 1 .. Len(a) /\ order[i] = a[i - Len(out)] /\ order[i] \in rest
  <2>1. ASSUME NEW i \in 1 .. Len(order), i \in 1 .. Len(out) PROVE order[i] = out[i] /\ order[i] \in ToSet(out)
    <3>1. DOMAIN out = 1 .. Len(out)
      BY <1>7
    <3>. QED  BY <1>17, <2>1, <3>1 DEF ToSet
  <2>2. ASSUME NEW i \in 1 .. Len(order), i \notin 1 .. Len(out)
        PROVE  i - Len(out) \in 1 .. Len(a) /\ order[i] = a[i - Len(out)] /\ order[i] \in rest
    <3>1. i - Len(out) \in 1 .. Len(a) /\ i = Len(out) + (i - Len(out))
      BY <1>16, <1>17, <2>2
    <3>2. order[i] = a[i - Len(out)]
      BY <1>17, <3>1
    <3>. QED  BY <1>16, <3>1, <3>2
  <2>. QED  BY <2>1, <2>2
<1>19. Apart(order)
  <2>1. ASSUME NEW i \in 1 .. Len(order), NEW k \in 1 .. Len(order), order[i] = order[k] PROVE i = k
    <3>1. CASE i \in 1 .. Len(out) /\ order[i] = out[i] /\ order[i] \in ToSet(out)
      <4>1. k \in 1 .. Len(out) /\ order[k] = out[k]
        BY <1>14, <1>18, <2>1, <3>1
      <4>. QED  BY <1>7, <2>1, <3>1, <4>1 DEF Apart
    <3>2. CASE i - Len(out) \in 1 .. Len(a) /\ order[i] = a[i - Len(out)] /\ order[i] \in rest
      <4>1. k - Len(out) \in 1 .. Len(a) /\ order[k] = a[k - Len(out)]
        BY <1>14, <1>18, <2>1, <3>2
      <4>2. i - Len(out) = k - Len(out)
        BY <1>15, <2>1, <3>2, <4>1 DEF Apart
      <4>. QED  BY <1>17, <4>2
    <3>. QED  BY <1>18, <3>1, <3>2
  <2>. QED  BY <2>1 DEF Apart
<1>20. Listing(order, A)
  BY <1>14, <1>15, <1>17, <1>19 DEF Listing
<1>21. ASSUME ~FileRing(d), NEW i \in 1 .. Len(order), NEW g \in A, Imports(d, order[i], g)
       PROVE  \E j \in 1 .. i - 1 : order[j] = g
  <2>1. i \in 1 .. Len(out) /\ order[i] = out[i]
    BY <1>12, <1>18, <1>21
  <2>2. PICK j \in 1 .. i - 1 : out[j] = g
    BY <1>7, <1>21, <2>1
  <2>3. j \in 1 .. Len(out)
    BY <1>17, <2>1
  <2>. QED  BY <1>17, <2>2, <2>3
<1>. QED  BY <1>20, <1>21 DEF A, order

\* Ranks tell files apart, and put what is imported first.
Ranks(rank, d) ==
  /\ DOMAIN rank = Actionable(d) /\ \A f \in Actionable(d) : rank[f] \in Nat
  /\ \A f, g \in Actionable(d) : rank[f] = rank[g] => f = g
  /\ ~FileRing(d) => \A f, g \in Actionable(d) : Imports(d, f, g) => rank[g] < rank[f]

\* Ranks tell files apart, and rise along imports unless they form a ring.
LEMMA RanksAre ==
  ASSUME NEW d, AnyPlan(d)
  PROVE  Ranks(RankOf(d), d)
<1>. DEFINE A == Actionable(d)
            order == TopologicalOrder(d)
            place(f) == CHOOSE i \in DOMAIN order : order[i] = f
            rank == RankOf(d)
<1>1. A \in SUBSET Nat
  BY FilesAre
<1>2. Listing(order, A)
      /\ (~FileRing(d) => \A i \in 1 .. Len(order) : \A g \in A : Imports(d, order[i], g) => \E j \in 1 .. i - 1 : order[j] = g)
  BY TopologyIs
<1>3. rank = [f \in A |-> IF d.imports = {} THEN f ELSE place(f)]
  BY DEF RankOf
<1>. HIDE DEF A, order
<1>4. DOMAIN order = 1 .. Len(order) /\ Len(order) \in Nat /\ Apart(order)
      /\ \A f \in A : \E i \in 1 .. Len(order) : order[i] = f
  BY <1>2 DEF Listing, ToSet
<1>5. ASSUME NEW f \in A PROVE place(f) \in 1 .. Len(order) /\ order[place(f)] = f
  BY <1>4
<1>. HIDE DEF place, rank
<1>6. CASE d.imports = {}
  <2>1. rank = [f \in A |-> f]
    BY <1>3, <1>6
  <2>2. \A f, g : ~Imports(d, f, g)
    BY <1>6 DEF Imports
  <2>. QED  BY <1>1, <2>1, <2>2 DEF Ranks, A, rank
<1>7. CASE d.imports # {}
  <2>1. rank = [f \in A |-> place(f)]
    BY <1>3, <1>7
  <2>2. DOMAIN rank = A /\ \A f \in A : rank[f] = place(f) /\ rank[f] \in 1 .. Len(order) /\ order[rank[f]] = f
    BY <1>5, <2>1
  <2>3. \A f \in A : rank[f] \in Nat
    BY <1>4, <2>2
  <2>4. \A f, g \in A : rank[f] = rank[g] => f = g
    BY <2>2
  <2>5. ASSUME ~FileRing(d), NEW f \in A, NEW g \in A, Imports(d, f, g) PROVE rank[g] < rank[f]
    <3>1. PICK j \in 1 .. rank[f] - 1 : order[j] = g
      BY <1>2, <2>2, <2>5
    <3>2. j \in 1 .. Len(order) /\ j < rank[f]
      BY <1>4, <2>2
    <3>3. rank[g] = j
      BY <1>4, <2>2, <3>1, <3>2 DEF Apart
    <3>. QED  BY <3>2, <3>3
  <2>. QED  BY <2>2, <2>3, <2>4, <2>5 DEF Ranks, A, rank
<1>. QED  BY <1>6, <1>7

InBatch(d, f, module, slot, bucket) ==
  /\ f \in Actionable(d) /\ d.file[f].module = module /\ d.file[f].category = slot.category
  /\ LayerOf(d.file[f]) = slot.layer /\ BucketOf(d.file[f]) = bucket

\* Score, bucket and layer of a file; a bucket is never laxer than the level.
LEMMA ScoresAreNumbers ==
  ASSUME NEW file \in DraftRecord
  PROVE  ScoreOf(file) \in Nat /\ BucketOf(file) \in 1 .. 3 /\ LayerOf(file) \in 0 .. 2
         /\ BucketOf(file) >= file.level /\ (file.shadow => BucketOf(file) = 3)
<1>1. file.score \in Nat /\ file.level \in 0 .. 3 /\ file.layer \in 0 .. 2 /\ file.shadow \in BOOLEAN
  BY DEF DraftRecord
<1>. QED  BY <1>1 DEF ScoreOf, BucketOf, LayerOf

\* A batch holds the files of its module, slot and bucket, the safer ones first.
LEMMA BatchIs ==
  ASSUME NEW d, AnyPlan(d), NEW rank, Ranks(rank, d), NEW module, NEW slot, NEW bucket
  PROVE  LET b == BatchFor(d, rank, module, slot, bucket)
         IN /\ b.layer = slot.layer /\ b.level = bucket
            /\ b.files \in Seq(Actionable(d)) /\ Apart(b.files)
            /\ \A f : f \in ToSet(b.files) <=> InBatch(d, f, module, slot, bucket)
            /\ \A i, k \in 1 .. Len(b.files) : i < k <=> SaferFirst(d, rank, b.files[i], b.files[k])
<1>. DEFINE A == Actionable(d)
            F == {f \in DOMAIN rank :
                    /\ d.file[f].module = module /\ d.file[f].category = slot.category
                    /\ LayerOf(d.file[f]) = slot.layer /\ BucketOf(d.file[f]) = bucket}
            before == {e \in F \X F : SaferFirst(d, rank, e[1], e[2])}
            b == BatchFor(d, rank, module, slot, bucket)
            s == Sorted(F, before)
<1>1. b = [layer |-> slot.layer, module |-> module, category |-> slot.category, level |-> bucket, files |-> s]
  BY Zenon DEF BatchFor, OrderedBy
<1>2. b.layer = slot.layer /\ b.level = bucket /\ b.files = s
  BY <1>1
<1>3. DOMAIN rank = A /\ (\A f \in A : rank[f] \in Nat) /\ (\A f, g \in A : rank[f] = rank[g] => f = g)
      /\ (\A f \in A : ScoreOf(d.file[f]) \in Nat) /\ IsFiniteSet(A)
  BY FilesAre, ScoresAreNumbers DEF Ranks
<1>4. \A f : f \in F <=> InBatch(d, f, module, slot, bucket)
  BY <1>3 DEF InBatch
<1>5. F \in SUBSET A /\ IsFiniteSet(F)
  BY <1>3, FS_Subset
<1>. HIDE DEF A, F
<1>6. \A f, g \in F : <<f, g>> \in before <=> SaferFirst(d, rank, f, g)
  OBVIOUS
<1>. HIDE DEF before, b
<1>7. Orders(before, F)
  <2>1. ASSUME NEW f \in F PROVE ScoreOf(d.file[f]) \in Nat /\ rank[f] \in Nat
    BY <1>3, <1>5
  <2>. DEFINE S(f) == ScoreOf(d.file[f])
  <2>2. \A f, g \in F : <<f, g>> \in before <=> S(f) < S(g) \/ (S(f) = S(g) /\ rank[f] < rank[g])
    BY <1>6 DEF SaferFirst
  <2>3. \A f \in F : S(f) \in Nat /\ rank[f] \in Nat
    BY <2>1
  <2>4. \A f, g \in F : rank[f] = rank[g] => f = g
    BY <1>3, <1>5
  <2>. HIDE DEF S
  <2>5. \A f \in F : <<f, f>> \notin before
    BY <2>2, <2>3
  <2>6. ASSUME NEW f \in F, NEW g \in F PROVE f = g \/ <<f, g>> \in before \/ <<g, f>> \in before
    <3>1. S(f) \in Nat /\ S(g) \in Nat /\ rank[f] \in Nat /\ rank[g] \in Nat /\ (rank[f] = rank[g] => f = g)
      BY <2>3, <2>4
    <3>. QED  BY <2>2, <3>1
  <2>7. ASSUME NEW f \in F, NEW g \in F, NEW h \in F, <<f, g>> \in before, <<g, h>> \in before
        PROVE  <<f, h>> \in before
    <3>1. S(f) \in Nat /\ S(g) \in Nat /\ S(h) \in Nat /\ rank[f] \in Nat /\ rank[g] \in Nat /\ rank[h] \in Nat
      BY <2>3
    <3>2. /\ S(f) < S(g) \/ (S(f) = S(g) /\ rank[f] < rank[g])
          /\ S(g) < S(h) \/ (S(g) = S(h) /\ rank[g] < rank[h])
      BY <2>2, <2>7
    <3>3. S(f) < S(h) \/ (S(f) = S(h) /\ rank[f] < rank[h])
      BY <3>1, <3>2
    <3>. QED  BY <2>2, <3>3
  <2>. QED  BY <2>5, <2>6, <2>7 DEF Orders
<1>8. Sorts(s, F, before)
  BY <1>5, <1>7, SortedIs
<1>. HIDE DEF s
<1>9. /\ s \in Seq(F) /\ ToSet(s) = F /\ Apart(s) /\ Len(s) \in Nat
      /\ \A i \in 1 .. Len(s) : s[i] \in F
      /\ \A i, k \in 1 .. Len(s) : i < k <=> <<s[i], s[k]>> \in before
  BY <1>8 DEF Sorts, Apart
<1>10. s \in Seq(A)
  <2>1. s = [i \in 1 .. Len(s) |-> s[i]] /\ \A i \in 1 .. Len(s) : s[i] \in A
    BY <1>5, <1>9
  <2>. QED  BY <1>9, <2>1
<1>11. \A i, k \in 1 .. Len(s) : i < k <=> SaferFirst(d, rank, s[i], s[k])
  BY <1>6, <1>9
<1>. QED  BY <1>2, <1>4, <1>9, <1>10, <1>11 DEF A, b

Slot(category, layer) == [category |-> category, layer |-> layer]
SlotSet == [category : {"B", "C", "D_MISSING"}, layer : 0 .. 2]

\* The seven slots differ, and every actionable file has one.
LEMMA SlotsAre ==
  /\ Slots \in Seq(SlotSet) /\ Len(Slots) = 7 /\ Apart(Slots)
  /\ \A file \in DraftRecord : file.category \in {"B", "C", "D_MISSING"} =>
       \E i \in 1 .. 7 : Slots[i].category = file.category /\ Slots[i].layer = LayerOf(file)
<1>. DEFINE pair(l) == <<Slot("B", l), Slot("C", l)>>
            first == <<Slot("D_MISSING", 0), Slot("B", 0), Slot("C", 0)>>
            pairs == [i \in DOMAIN LayerOrder |-> pair(LayerOrder[i])]
            tail == FlattenSeq(pairs)
<1>1. Slots = first \o tail
  BY DEF Slots, Slot
<1>2. DOMAIN LayerOrder = 1 .. 2 /\ LayerOrder[1] = 1 /\ LayerOrder[2] = 2
  BY DEF LayerOrder
<1>3. Slot("D_MISSING", 0) \in SlotSet /\ \A l \in 0 .. 2 : Slot("B", l) \in SlotSet /\ Slot("C", l) \in SlotSet
  BY DEF Slot, SlotSet
<1>. DEFINE E == Seq(SlotSet)
<1>4. \A l \in 0 .. 2 : pair(l) \in E /\ Len(pair(l)) = 2 /\ pair(l)[1] = Slot("B", l) /\ pair(l)[2] = Slot("C", l)
  BY <1>3
<1>5. first \in E /\ Len(first) = 3 /\ first[1] = Slot("D_MISSING", 0) /\ first[2] = Slot("B", 0) /\ first[3] = Slot("C", 0)
  BY <1>3
<1>. HIDE DEF pair, first
<1>6. pairs \in Seq(E) /\ Len(pairs) = 2 /\ pairs[1] = pair(1) /\ pairs[2] = pair(2)
  <2>. HIDE DEF E
  <2>. QED  BY <1>2, <1>4
<1>. HIDE DEF pairs
<1>7. PICK g : /\ g \in [0 .. Len(pairs) -> E] /\ g[0] = <<>>
               /\ \A n \in 1 .. Len(pairs) : g[n] = g[n - 1] \o pairs[n]
               /\ tail = g[Len(pairs)]
  BY <1>6, FlattenIs
<1>8. g[0] = <<>> /\ g[1] = g[0] \o pair(1) /\ g[2] = g[1] \o pair(2) /\ tail = g[2]
  <2>1. 1 \in 1 .. Len(pairs) /\ 2 \in 1 .. Len(pairs)
    BY <1>6
  <2>2. g[1] = g[1 - 1] \o pairs[1] /\ g[2] = g[2 - 1] \o pairs[2]
    BY <1>7, <2>1
  <2>3. 1 - 1 = 0 /\ 2 - 1 = 1
    OBVIOUS
  <2>. QED  BY <1>6, <1>7, <2>2, <2>3
<1>. HIDE DEF tail
<1>9. g[1] = pair(1)
  <2>1. pair(1) \in Seq(SlotSet)
    BY <1>4
  <2>. QED  BY <1>8, <2>1
<1>10. tail \in E /\ Len(tail) = 4 /\ tail[1] = Slot("B", 1) /\ tail[2] = Slot("C", 1)
       /\ tail[3] = Slot("B", 2) /\ tail[4] = Slot("C", 2)
  <2>. DEFINE u == pair(1)
              v == pair(2)
  <2>1. u \in Seq(SlotSet) /\ v \in Seq(SlotSet) /\ Len(u) = 2 /\ Len(v) = 2 /\ u[1] = Slot("B", 1) /\ u[2] = Slot("C", 1)
        /\ v[1] = Slot("B", 2) /\ v[2] = Slot("C", 2)
    BY <1>4
  <2>. HIDE DEF u, v
  <2>. DEFINE w == u \o v
  <2>5. w = u \o v
    OBVIOUS
  <2>. HIDE DEF w
  <2>2. /\ w \in Seq(SlotSet) /\ Len(w) = Len(u) + Len(v)
        /\ \A i \in 1 .. Len(u) : w[i] = u[i]
        /\ \A i \in 1 .. Len(v) : w[Len(u) + i] = v[i]
        /\ ToSet(w) = ToSet(u) \cup ToSet(v)
    <3>1. u \in Seq(SlotSet) /\ v \in Seq(SlotSet)
      BY <2>1
    <3>. QED  BY <2>5, <3>1, ConcatIs
  <2>3. w \in Seq(SlotSet) /\ Len(w) = 4 /\ w[1] = u[1] /\ w[2] = u[2] /\ w[2 + 1] = v[1] /\ w[2 + 2] = v[2]
    BY <2>1, <2>2
  <2>4. tail = w
    BY <1>8, <1>9, <2>5 DEF u, v
  <2>. QED  BY <2>1, <2>3, <2>4
<1>11. /\ Slots \in Seq(SlotSet) /\ Len(Slots) = 7
       /\ Slots[1] = Slot("D_MISSING", 0) /\ Slots[2] = Slot("B", 0) /\ Slots[3] = Slot("C", 0)
       /\ Slots[4] = Slot("B", 1) /\ Slots[5] = Slot("C", 1) /\ Slots[6] = Slot("B", 2) /\ Slots[7] = Slot("C", 2)
  <2>. DEFINE w == first \o tail
  <2>4. w = first \o tail /\ first \in Seq(SlotSet) /\ tail \in Seq(SlotSet)
    BY <1>5, <1>10
  <2>. HIDE DEF w
  <2>1. /\ w \in Seq(SlotSet) /\ Len(w) = Len(first) + Len(tail)
        /\ \A i \in 1 .. Len(first) : w[i] = first[i]
        /\ \A i \in 1 .. Len(tail) : w[Len(first) + i] = tail[i]
        /\ ToSet(w) = ToSet(first) \cup ToSet(tail)
    BY <2>4, ConcatIs
  <2>2. /\ w \in Seq(SlotSet) /\ Len(w) = 7 /\ w[1] = first[1] /\ w[2] = first[2] /\ w[3] = first[3]
        /\ w[3 + 1] = tail[1] /\ w[3 + 2] = tail[2] /\ w[3 + 3] = tail[3] /\ w[3 + 4] = tail[4]
    BY <1>5, <1>10, <2>1
  <2>3. Slots = w
    BY <1>1, <2>4
  <2>. QED  BY <1>5, <1>10, <2>2, <2>3
<1>. DEFINE C(i) == CASE i = 1 -> "D_MISSING" [] i \in {2, 4, 6} -> "B" [] i \in {3, 5, 7} -> "C"
            L(i) == CASE i \in {1, 2, 3} -> 0 [] i \in {4, 5} -> 1 [] i \in {6, 7} -> 2
<1>12. \A i \in 1 .. 7 : Slots[i].category = C(i) /\ Slots[i].layer = L(i)
  <2>1. \A c, l : Slot(c, l).category = c /\ Slot(c, l).layer = l
    BY DEF Slot
  <2>2. ASSUME NEW i \in 1 .. 7 PROVE i = 1 \/ i = 2 \/ i = 3 \/ i = 4 \/ i = 5 \/ i = 6 \/ i = 7
    OBVIOUS
  <2>. QED  BY <1>11, <2>1, <2>2
<1>13. Apart(Slots)
  <2>1. \A i, k \in 1 .. 7 : C(i) = C(k) /\ L(i) = L(k) => i = k
    OBVIOUS
  <2>. HIDE DEF C, L
  <2>2. \A i, k \in 1 .. 7 : Slots[i] = Slots[k] => C(i) = C(k) /\ L(i) = L(k)
    BY <1>12
  <2>. QED  BY <1>11, <2>1, <2>2 DEF Apart
<1>14. ASSUME NEW file \in DraftRecord, file.category \in {"B", "C", "D_MISSING"}
       PROVE  \E i \in 1 .. 7 : Slots[i].category = file.category /\ Slots[i].layer = LayerOf(file)
  <2>1. LayerOf(file) \in {0, 1, 2} /\ (file.category = "D_MISSING" => LayerOf(file) = 0)
    BY <1>14 DEF DraftRecord, LayerOf
  <2>2. \E i \in 1 .. 7 : C(i) = file.category /\ L(i) = LayerOf(file)
    <3>1. CASE file.category = "D_MISSING"
      <4>1. 1 \in 1 .. 7 /\ C(1) = "D_MISSING" /\ L(1) = 0
        OBVIOUS
      <4>. QED  BY <2>1, <3>1, <4>1
    <3>2. CASE file.category = "B"
      <4>1. {2, 4, 6} \subseteq 1 .. 7 /\ C(2) = "B" /\ L(2) = 0 /\ C(4) = "B" /\ L(4) = 1 /\ C(6) = "B" /\ L(6) = 2
        OBVIOUS
      <4>. HIDE DEF C, L
      <4>. QED  BY <2>1, <3>2, <4>1
    <3>3. CASE file.category = "C"
      <4>1. {3, 5, 7} \subseteq 1 .. 7 /\ C(3) = "C" /\ L(3) = 0 /\ C(5) = "C" /\ L(5) = 1 /\ C(7) = "C" /\ L(7) = 2
        OBVIOUS
      <4>. HIDE DEF C, L
      <4>. QED  BY <2>1, <3>3, <4>1
    <3>. QED  BY <1>14, <3>1, <3>2, <3>3
  <2>. HIDE DEF C, L
  <2>. QED  BY <1>12, <2>2
<1>. QED  BY <1>11, <1>13, <1>14

\* A list of batches, by module first; where each comes from.
MadeBatch(d, m, s, k) == BatchFor(d, RankOf(d), OrderModules(d)[m], Slots[s], k)
MadeBatches(d) ==
  {MadeBatch(d, e[1], e[2], e[3]) : e \in (1 .. Len(OrderModules(d))) \X (1 .. 7) \X (1 .. 3)}
From(t, d, ms, ss, ks) ==
  /\ \A p \in 1 .. Len(t) : /\ ms[p] \in 1 .. Len(OrderModules(d)) /\ ss[p] \in 1 .. 7 /\ ks[p] \in 1 .. 3
                            /\ t[p] = MadeBatch(d, ms[p], ss[p], ks[p])
  /\ \A p, q \in 1 .. Len(t) : ms[p] = ms[q] /\ ss[p] = ss[q] /\ ks[p] = ks[q] => p = q
  /\ \A p, q \in 1 .. Len(t) : p < q => ms[p] <= ms[q]
Holding(t, ms, ss, ks, m, s, k) == \E p \in 1 .. Len(t) : ms[p] = m /\ ss[p] = s /\ ks[p] = k
AllBatches(d) ==
  FlattenSeq([m \in DOMAIN OrderModules(d) |->
    FlattenSeq([s \in DOMAIN Slots |->
      [bucket \in 1 .. 3 |-> BatchFor(d, RankOf(d), OrderModules(d)[m], Slots[s], bucket)]])])

\* There is one batch for each module, slot and bucket, by module first.
LEMMA AllBatchesAre ==
  ASSUME NEW d, AnyPlan(d)
  PROVE  /\ AllBatches(d) \in Seq(MadeBatches(d))
         /\ \E ms, ss, ks : /\ From(AllBatches(d), d, ms, ss, ks)
                            /\ \A m \in 1 .. Len(OrderModules(d)), s \in 1 .. 7, k \in 1 .. 3 :
                                 Holding(AllBatches(d), ms, ss, ks, m, s, k)
<1>. DEFINE n == Len(OrderModules(d))
            D == MadeBatches(d)
            E == Seq(D)
            P(m, s) == [k \in 1 .. 3 |-> MadeBatch(d, m, s, k)]
            SP(m) == [s \in 1 .. 7 |-> P(m, s)]
            Q(m) == FlattenSeq(SP(m))
            QQ == [m \in 1 .. n |-> Q(m)]
            all == AllBatches(d)
<1>1. n \in Nat /\ DOMAIN OrderModules(d) = 1 .. n /\ DOMAIN Slots = 1 .. 7
  BY ModulesAre, SlotsAre DEF Listing
<1>2. all = FlattenSeq(QQ)
  BY <1>1 DEF AllBatches, MadeBatch
<1>3. ASSUME NEW m \in 1 .. n, NEW s \in 1 .. 7, NEW k \in 1 .. 3 PROVE MadeBatch(d, m, s, k) \in D
  <2>1. <<m, s, k>> \in (1 .. n) \X (1 .. 7) \X (1 .. 3)
    OBVIOUS
  <2>2. <<m, s, k>>[1] = m /\ <<m, s, k>>[2] = s /\ <<m, s, k>>[3] = k
    OBVIOUS
  <2>. QED  BY <2>1, <2>2 DEF MadeBatches
<1>. HIDE DEF n, D
<1>4. ASSUME NEW m \in 1 .. n, NEW s \in 1 .. 7
      PROVE  P(m, s) \in E /\ Len(P(m, s)) = 3 /\ \A k \in 1 .. 3 : P(m, s)[k] = MadeBatch(d, m, s, k)
  <2>1. \A k \in 1 .. 3 : MadeBatch(d, m, s, k) \in D
    BY <1>3
  <2>. QED  BY <2>1
<1>. HIDE DEF P
<1>5. ASSUME NEW m \in 1 .. n
      PROVE  SP(m) \in Seq(E) /\ Len(SP(m)) = 7 /\ \A s \in 1 .. 7 : SP(m)[s] = P(m, s)
  <2>. HIDE DEF E
  <2>. QED  BY <1>4
<1>. HIDE DEF SP
<1>6. ASSUME NEW m \in 1 .. n
      PROVE  Q(m) \in E /\ \E row, col : Laid(Q(m), SP(m), 7, row, col)
  BY <1>5, FlatIs
<1>. HIDE DEF Q
<1>. DEFINE spread(m) == CHOOSE e : Laid(Q(m), SP(m), 7, e[1], e[2])
            slotAt(m, c) == spread(m)[1][c]
            bucketAt(m, c) == spread(m)[2][c]
<1>7. ASSUME NEW m \in 1 .. n PROVE Laid(Q(m), SP(m), 7, spread(m)[1], spread(m)[2])
  <2>1. PICK row, col : Laid(Q(m), SP(m), 7, row, col)
    BY <1>6
  <2>. DEFINE e == <<row, col>>
  <2>2. Laid(Q(m), SP(m), 7, e[1], e[2])
    BY <2>1
  <2>. HIDE DEF e
  <2>. QED  BY <2>2
<1>. HIDE DEF spread
<1>8. ASSUME NEW m \in 1 .. n
      PROVE  /\ \A c \in 1 .. Len(Q(m)) : /\ slotAt(m, c) \in 1 .. 7 /\ bucketAt(m, c) \in 1 .. 3
                                          /\ Q(m)[c] = MadeBatch(d, m, slotAt(m, c), bucketAt(m, c))
             /\ \A s \in 1 .. 7, k \in 1 .. 3 : \E c \in 1 .. Len(Q(m)) : slotAt(m, c) = s /\ bucketAt(m, c) = k
             /\ \A b, c \in 1 .. Len(Q(m)) : slotAt(m, b) = slotAt(m, c) /\ bucketAt(m, b) = bucketAt(m, c) => b = c
  <2>. DEFINE row == spread(m)[1]
              col == spread(m)[2]
  <2>1. Laid(Q(m), SP(m), 7, row, col)
    BY <1>7
  <2>. HIDE DEF row, col
  <2>2. \A s \in 1 .. 7 : SP(m)[s] = P(m, s) /\ Len(P(m, s)) = 3 /\ \A k \in 1 .. 3 : P(m, s)[k] = MadeBatch(d, m, s, k)
    BY <1>4, <1>5
  <2>3. \A c \in 1 .. Len(Q(m)) : row[c] \in 1 .. 7 /\ col[c] \in 1 .. 3 /\ Q(m)[c] = MadeBatch(d, m, row[c], col[c])
    <3>1. ASSUME NEW c \in 1 .. Len(Q(m))
          PROVE  row[c] \in 1 .. 7 /\ col[c] \in 1 .. 3 /\ Q(m)[c] = MadeBatch(d, m, row[c], col[c])
      <4>. DEFINE r == row[c]
                  k == col[c]
      <4>1. r \in 1 .. 7 /\ k \in 1 .. Len(SP(m)[r]) /\ Q(m)[c] = SP(m)[r][k]
        BY <2>1 DEF Laid
      <4>. HIDE DEF r, k
      <4>2. SP(m)[r] = P(m, r) /\ Len(SP(m)[r]) = 3
        BY <2>2, <4>1
      <4>3. k \in 1 .. 3
        BY <4>1, <4>2
      <4>4. Q(m)[c] = MadeBatch(d, m, r, k)
        BY <2>2, <4>1, <4>2, <4>3
      <4>. QED  BY <4>1, <4>3, <4>4 DEF r, k
    <3>. QED  BY <3>1
  <2>4. \A s \in 1 .. 7, k \in 1 .. 3 : \E c \in 1 .. Len(Q(m)) : row[c] = s /\ col[c] = k
    <3>1. ASSUME NEW s \in 1 .. 7, NEW k \in 1 .. 3 PROVE k \in 1 .. Len(SP(m)[s])
      BY <2>2
    <3>. QED  BY <2>1, <3>1 DEF Laid
  <2>5. ASSUME NEW b \in 1 .. Len(Q(m)), NEW c \in 1 .. Len(Q(m)), row[b] = row[c], col[b] = col[c] PROVE b = c
    <3>1. ~(row[b] < row[c] \/ (row[b] = row[c] /\ col[b] < col[c]))
          /\ ~(row[c] < row[b] \/ (row[c] = row[b] /\ col[c] < col[b]))
      BY <2>3, <2>5
    <3>2. ~(b < c) /\ ~(c < b)
      BY <2>1, <3>1 DEF Laid
    <3>. QED  BY <3>2
  <2>. QED  BY <2>3, <2>4, <2>5 DEF row, col
<1>. HIDE DEF slotAt, bucketAt
<1>9. QQ \in Seq(E) /\ Len(QQ) = n /\ \A m \in 1 .. n : QQ[m] = Q(m)
  <2>. HIDE DEF E
  <2>. QED  BY <1>1, <1>6
<1>. HIDE DEF QQ
<1>10. all \in Seq(D) /\ \E row, col : Laid(all, QQ, n, row, col)
  BY <1>2, <1>9, FlatIs
<1>11. PICK row, col : Laid(all, QQ, n, row, col)
  BY <1>10
<1>. HIDE DEF all
<1>. DEFINE N == Len(all)
            ms == [p \in 1 .. N |-> row[p]]
            ss == [p \in 1 .. N |-> slotAt(row[p], col[p])]
            ks == [p \in 1 .. N |-> bucketAt(row[p], col[p])]
<1>12. /\ \A p \in 1 .. N : row[p] \in 1 .. n /\ col[p] \in 1 .. Len(Q(row[p])) /\ all[p] = Q(row[p])[col[p]]
       /\ \A m \in 1 .. n : \A c \in 1 .. Len(Q(m)) : \E p \in 1 .. N : row[p] = m /\ col[p] = c
       /\ \A p, q \in 1 .. N : p < q <=> row[p] < row[q] \/ (row[p] = row[q] /\ col[p] < col[q])
  BY <1>9, <1>11 DEF Laid
<1>13. N \in Nat /\ \A m \in 1 .. n : Len(Q(m)) \in Nat
  BY <1>6, <1>10
<1>. HIDE DEF N
<1>14. \A p \in 1 .. N : ms[p] = row[p] /\ ss[p] = slotAt(row[p], col[p]) /\ ks[p] = bucketAt(row[p], col[p])
  OBVIOUS
<1>. HIDE DEF ms, ss, ks
<1>15. ASSUME NEW p \in 1 .. N
       PROVE  ms[p] \in 1 .. n /\ ss[p] \in 1 .. 7 /\ ks[p] \in 1 .. 3 /\ all[p] = MadeBatch(d, ms[p], ss[p], ks[p])
  <2>. DEFINE m == row[p]
              c == col[p]
  <2>1. m \in 1 .. n /\ c \in 1 .. Len(Q(m)) /\ all[p] = Q(m)[c]
    BY <1>12
  <2>2. ms[p] = m /\ ss[p] = slotAt(m, c) /\ ks[p] = bucketAt(m, c)
    BY <1>14
  <2>. HIDE DEF m, c
  <2>3. slotAt(m, c) \in 1 .. 7 /\ bucketAt(m, c) \in 1 .. 3 /\ Q(m)[c] = MadeBatch(d, m, slotAt(m, c), bucketAt(m, c))
    BY <1>8, <2>1
  <2>. QED  BY <2>1, <2>2, <2>3
<1>16. ASSUME NEW p \in 1 .. N, NEW q \in 1 .. N, ms[p] = ms[q], ss[p] = ss[q], ks[p] = ks[q] PROVE p = q
  <2>1. row[p] = row[q] /\ col[p] \in 1 .. Len(Q(row[p])) /\ col[q] \in 1 .. Len(Q(row[p])) /\ row[p] \in 1 .. n
        /\ slotAt(row[p], col[p]) = slotAt(row[p], col[q]) /\ bucketAt(row[p], col[p]) = bucketAt(row[p], col[q])
    BY <1>12, <1>14, <1>16
  <2>2. col[p] = col[q]
    BY <1>8, <2>1
  <2>3. row[p] \in Int /\ col[p] \in Int
    BY <1>1, <1>13, <2>1
  <2>4. ~(p < q) /\ ~(q < p)
    BY <1>12, <2>1, <2>2, <2>3
  <2>. QED  BY <1>13, <2>4
<1>17. ASSUME NEW p \in 1 .. N, NEW q \in 1 .. N, p < q PROVE ms[p] <= ms[q]
  <2>1. row[p] < row[q] \/ row[p] = row[q]
    BY <1>12, <1>17
  <2>2. row[p] \in Int /\ row[q] \in Int
    BY <1>1, <1>12
  <2>. QED  BY <1>14, <2>1, <2>2
<1>18. ASSUME NEW m \in 1 .. n, NEW s \in 1 .. 7, NEW k \in 1 .. 3 PROVE Holding(all, ms, ss, ks, m, s, k)
  <2>1. PICK c \in 1 .. Len(Q(m)) : slotAt(m, c) = s /\ bucketAt(m, c) = k
    BY <1>8
  <2>2. PICK p \in 1 .. N : row[p] = m /\ col[p] = c
    BY <1>12, <2>1
  <2>. QED  BY <1>14, <2>1, <2>2 DEF Holding, N
<1>19. From(all, d, ms, ss, ks)
  BY <1>15, <1>16, <1>17 DEF From, n, N
<1>. QED  BY <1>10, <1>18, <1>19 DEF all, D, n

\* The plan keeps those that hold a file.
LEMMA BatchListIs ==
  ASSUME NEW d, AnyPlan(d)
  PROVE  /\ Batches(d) \in Seq(MadeBatches(d))
         /\ \E ms, ss, ks : /\ From(Batches(d), d, ms, ss, ks)
                            /\ \A m \in 1 .. Len(OrderModules(d)), s \in 1 .. 7, k \in 1 .. 3 :
                                 MadeBatch(d, m, s, k).files # <<>> => Holding(Batches(d), ms, ss, ks, m, s, k)
<1>. DEFINE all == AllBatches(d)
            places == {b \in DOMAIN all : all[b].files # <<>>}
            t == Batches(d)
            n == Len(OrderModules(d))
            N == Len(t)
<1>1. t = KeptAt(all, places)
  BY Zenon DEF Batches, AllBatches
<1>2. all \in Seq(MadeBatches(d)) /\ DOMAIN all = 1 .. Len(all) /\ Len(all) \in Nat
  BY AllBatchesAre
<1>3. PICK ms, ss, ks : /\ From(all, d, ms, ss, ks)
                        /\ \A m \in 1 .. n, s \in 1 .. 7, k \in 1 .. 3 : Holding(all, ms, ss, ks, m, s, k)
  BY AllBatchesAre
<1>. HIDE DEF all, t
<1>4. places \in SUBSET DOMAIN all /\ \A b \in 1 .. Len(all) : b \in places <=> all[b].files # <<>>
  BY <1>2
<1>. HIDE DEF places
<1>5. t \in Seq(MadeBatches(d)) /\ \E spot : Keeps(t, all, places, spot)
  BY <1>1, <1>2, <1>4, KeptIs
<1>6. PICK spot : Keeps(t, all, places, spot)
  BY <1>5
<1>7. N \in Nat
  BY <1>5
<1>. DEFINE mt == [p \in 1 .. N |-> ms[spot[p]]]
            st == [p \in 1 .. N |-> ss[spot[p]]]
            kt == [p \in 1 .. N |-> ks[spot[p]]]
<1>8. \A p \in 1 .. N : mt[p] = ms[spot[p]] /\ st[p] = ss[spot[p]] /\ kt[p] = ks[spot[p]]
  OBVIOUS
<1>9. /\ \A p \in 1 .. N : spot[p] \in places /\ spot[p] \in 1 .. Len(all) /\ t[p] = all[spot[p]]
      /\ \A i \in places : \E p \in 1 .. N : spot[p] = i
      /\ \A p, q \in 1 .. N : p < q <=> spot[p] < spot[q]
  BY <1>2, <1>4, <1>6 DEF Keeps
<1>. HIDE DEF mt, st, kt, N, n
<1>10. ASSUME NEW p \in 1 .. N
       PROVE  mt[p] \in 1 .. n /\ st[p] \in 1 .. 7 /\ kt[p] \in 1 .. 3 /\ t[p] = MadeBatch(d, mt[p], st[p], kt[p])
  BY <1>3, <1>8, <1>9 DEF From, n
<1>11. ASSUME NEW p \in 1 .. N, NEW q \in 1 .. N, mt[p] = mt[q], st[p] = st[q], kt[p] = kt[q] PROVE p = q
  <2>1. spot[p] = spot[q] /\ spot[p] \in Int
    <3>. DEFINE i == spot[p]
                k == spot[q]
    <3>1. i \in 1 .. Len(all) /\ k \in 1 .. Len(all) /\ i \in Int
      BY <1>2, <1>9
    <3>2. ms[i] = ms[k] /\ ss[i] = ss[k] /\ ks[i] = ks[k]
      BY <1>8, <1>11
    <3>. HIDE DEF i, k
    <3>3. i = k
      BY <1>3, <3>1, <3>2 DEF From
    <3>. QED  BY <3>1, <3>3 DEF i, k
  <2>2. ~(p < q) /\ ~(q < p)
    BY <1>9, <2>1
  <2>. QED  BY <1>7, <2>2
<1>12. ASSUME NEW p \in 1 .. N, NEW q \in 1 .. N, p < q PROVE mt[p] <= mt[q]
  BY <1>3, <1>8, <1>9, <1>12 DEF From
<1>13. ASSUME NEW m \in 1 .. n, NEW s \in 1 .. 7, NEW k \in 1 .. 3, MadeBatch(d, m, s, k).files # <<>>
       PROVE  Holding(t, mt, st, kt, m, s, k)
  <2>1. PICK i \in 1 .. Len(all) : ms[i] = m /\ ss[i] = s /\ ks[i] = k
    <3>1. Holding(all, ms, ss, ks, m, s, k)
      BY <1>3
    <3>. QED  BY <3>1 DEF Holding
  <2>2. all[i] = MadeBatch(d, m, s, k)
    BY <1>3, <2>1 DEF From
  <2>3. PICK p \in 1 .. N : spot[p] = i
    BY <1>4, <1>9, <1>13, <2>2
  <2>. QED  BY <1>8, <2>1, <2>3 DEF Holding, N
<1>14. From(t, d, mt, st, kt)
  BY <1>10, <1>11, <1>12 DEF From, n, N
<1>. QED  BY <1>5, <1>13, <1>14 DEF t, n

\* Where the files of a layer stand: by batch, then by place.
Stands(t, batches, l, box, place) ==
  /\ \A p \in 1 .. Len(t) : /\ box[p] \in 1 .. Len(batches) /\ batches[box[p]].layer = l
                            /\ place[p] \in 1 .. Len(batches[box[p]].files)
                            /\ t[p] = batches[box[p]].files[place[p]]
  /\ \A b \in 1 .. Len(batches) : batches[b].layer = l =>
       \A c \in 1 .. Len(batches[b].files) : \E p \in 1 .. Len(t) : box[p] = b /\ place[p] = c
  /\ \A p, q \in 1 .. Len(t) : p < q <=> box[p] < box[q] \/ (box[p] = box[q] /\ place[p] < place[q])
LayerBatches(batches, l) == KeptAt(batches, {b \in DOMAIN batches : batches[b].layer = l})
LayerFiles(batches, l) == FlattenSeq([b \in DOMAIN LayerBatches(batches, l) |-> LayerBatches(batches, l)[b].files])

\* The files of a layer stand by batch, then by place in it.
LEMMA LayerStands ==
  ASSUME NEW A, NEW D, \A b \in D : b.layer \in 0 .. 2 /\ b.files \in Seq(A), NEW batches \in Seq(D), NEW l
  PROVE  /\ LayerFiles(batches, l) \in Seq(A)
         /\ \E box, place : Stands(LayerFiles(batches, l), batches, l, box, place)
<1>. DEFINE places == {b \in DOMAIN batches : batches[b].layer = l}
            in == KeptAt(batches, places)
            E == Seq(A)
            lists == [b \in DOMAIN in |-> in[b].files]
            t == FlattenSeq(lists)
<1>1. LayerFiles(batches, l) = t
  BY DEF LayerFiles, LayerBatches
<1>2. DOMAIN batches = 1 .. Len(batches) /\ Len(batches) \in Nat /\ \A b \in 1 .. Len(batches) : batches[b] \in D
  OBVIOUS
<1>3. places \in SUBSET DOMAIN batches /\ \A b \in 1 .. Len(batches) : b \in places <=> batches[b].layer = l
  BY <1>2
<1>. HIDE DEF places
<1>4. in \in Seq(D) /\ \E spot : Keeps(in, batches, places, spot)
  BY <1>3, KeptIs
<1>. HIDE DEF in
<1>5. DOMAIN in = 1 .. Len(in) /\ Len(in) \in Nat /\ \A b \in 1 .. Len(in) : in[b] \in D /\ in[b].files \in E
  BY <1>4
<1>6. lists \in Seq(E) /\ Len(lists) = Len(in) /\ \A b \in 1 .. Len(in) : lists[b] = in[b].files
  <2>. HIDE DEF E
  <2>. QED  BY <1>5
<1>. HIDE DEF lists
<1>7. t \in Seq(A) /\ \E row, col : Laid(t, lists, Len(lists), row, col)
  BY <1>6, FlatIs
<1>8. PICK spot : Keeps(in, batches, places, spot)
  BY <1>4
<1>9. PICK row, col : Laid(t, lists, Len(lists), row, col)
  BY <1>7
<1>. HIDE DEF t
<1>10. /\ \A k \in 1 .. Len(in) : spot[k] \in 1 .. Len(batches) /\ batches[spot[k]].layer = l /\ in[k] = batches[spot[k]]
       /\ \A b \in 1 .. Len(batches) : batches[b].layer = l => \E k \in 1 .. Len(in) : spot[k] = b
       /\ \A k, m \in 1 .. Len(in) : k < m <=> spot[k] < spot[m]
  BY <1>2, <1>3, <1>8 DEF Keeps
<1>. DEFINE N == Len(t)
            box == [p \in 1 .. N |-> spot[row[p]]]
            place == [p \in 1 .. N |-> col[p]]
<1>11. \A p \in 1 .. N : box[p] = spot[row[p]] /\ place[p] = col[p]
  OBVIOUS
<1>. HIDE DEF N, box, place
<1>12. /\ \A p \in 1 .. N : row[p] \in 1 .. Len(in) /\ col[p] \in 1 .. Len(lists[row[p]]) /\ t[p] = lists[row[p]][col[p]]
       /\ \A k \in 1 .. Len(in) : \A c \in 1 .. Len(lists[k]) : \E p \in 1 .. N : row[p] = k /\ col[p] = c
       /\ \A p, q \in 1 .. N : p < q <=> row[p] < row[q] \/ (row[p] = row[q] /\ col[p] < col[q])
  BY <1>6, <1>9 DEF Laid, N
<1>13. ASSUME NEW p \in 1 .. N
       PROVE  /\ box[p] \in 1 .. Len(batches) /\ batches[box[p]].layer = l
              /\ place[p] \in 1 .. Len(batches[box[p]].files)
              /\ t[p] = batches[box[p]].files[place[p]]
  <2>. DEFINE r == row[p]
              c == col[p]
  <2>1. r \in 1 .. Len(in) /\ c \in 1 .. Len(lists[r]) /\ t[p] = lists[r][c] /\ box[p] = spot[r] /\ place[p] = c
    BY <1>11, <1>12
  <2>. HIDE DEF r, c
  <2>2. lists[r] = batches[spot[r]].files /\ spot[r] \in 1 .. Len(batches) /\ batches[spot[r]].layer = l
    BY <1>6, <1>10, <2>1
  <2>. QED  BY <2>1, <2>2
<1>14. ASSUME NEW b \in 1 .. Len(batches), batches[b].layer = l, NEW c \in 1 .. Len(batches[b].files)
       PROVE  \E p \in 1 .. N : box[p] = b /\ place[p] = c
  <2>1. PICK k \in 1 .. Len(in) : spot[k] = b
    BY <1>10, <1>14
  <2>2. lists[k] = batches[b].files
    BY <1>6, <1>10, <2>1
  <2>3. PICK p \in 1 .. N : row[p] = k /\ col[p] = c
    BY <1>12, <2>2
  <2>. QED  BY <1>11, <2>1, <2>3
<1>15. ASSUME NEW p \in 1 .. N, NEW q \in 1 .. N
       PROVE  p < q <=> box[p] < box[q] \/ (box[p] = box[q] /\ place[p] < place[q])
  <2>1. row[p] \in 1 .. Len(in) /\ row[q] \in 1 .. Len(in) /\ box[p] = spot[row[p]] /\ box[q] = spot[row[q]]
        /\ place[p] = col[p] /\ place[q] = col[q]
    BY <1>11, <1>12
  <2>. DEFINE i == row[p]
              k == row[q]
  <2>2. i \in 1 .. Len(in) /\ k \in 1 .. Len(in)
    BY <2>1
  <2>. HIDE DEF i, k
  <2>3. i < k <=> spot[i] < spot[k]
    BY <1>10, <2>2
  <2>4. i = k <=> spot[i] = spot[k]
    <3>1. i \in Int /\ k \in Int /\ spot[i] \in Int /\ spot[k] \in Int
      BY <1>2, <1>5, <1>10, <2>2
    <3>2. k < i <=> spot[k] < spot[i]
      BY <1>10, <2>2
    <3>. QED  BY <2>3, <3>1, <3>2
  <2>5. p < q <=> i < k \/ (i = k /\ col[p] < col[q])
    BY <1>12 DEF i, k
  <2>6. box[p] = spot[i] /\ box[q] = spot[k]
    BY <2>1 DEF i, k
  <2>. QED  BY <2>1, <2>3, <2>4, <2>5, <2>6
<1>16. Stands(t, batches, l, box, place)
  BY <1>13, <1>14, <1>15 DEF Stands, N
<1>. QED  BY <1>1, <1>7, <1>16

\* Where the files stand in the order of the merge: by layer first.
Merges(t, batches, box, place) ==
  /\ \A p \in 1 .. Len(t) : /\ box[p] \in 1 .. Len(batches) /\ place[p] \in 1 .. Len(batches[box[p]].files)
                            /\ t[p] = batches[box[p]].files[place[p]]
  /\ \A b \in 1 .. Len(batches) :
       \A c \in 1 .. Len(batches[b].files) : \E p \in 1 .. Len(t) : box[p] = b /\ place[p] = c
  /\ \A p, q \in 1 .. Len(t) :
       p < q <=> \/ batches[box[p]].layer < batches[box[q]].layer
                 \/ /\ batches[box[p]].layer = batches[box[q]].layer
                    /\ box[p] < box[q] \/ (box[p] = box[q] /\ place[p] < place[q])

\* The files stand by layer, then by batch, then by place in it.
LEMMA MergeOrderIs ==
  ASSUME NEW A, NEW D, \A b \in D : b.layer \in 0 .. 2 /\ b.files \in Seq(A), NEW batches \in Seq(D)
  PROVE  /\ MergeOrder(batches) \in Seq(A)
         /\ \E box, place : Merges(MergeOrder(batches), batches, box, place)
<1>. DEFINE F(l) == LayerFiles(batches, l)
            E == Seq(A)
            lists == [l \in 1 .. 3 |-> F(l - 1)]
            t == MergeOrder(batches)
<1>1. t = FlattenSeq(lists)
  BY Zenon DEF MergeOrder, LayerFiles, LayerBatches
<1>2. \A l : F(l) \in Seq(A) /\ \E box, place : Stands(F(l), batches, l, box, place)
  BY LayerStands
<1>. HIDE DEF F, t
<1>3. lists \in Seq(E) /\ Len(lists) = 3 /\ \A l \in 1 .. 3 : lists[l] = F(l - 1)
  <2>1. \A l : F(l) \in E
    BY <1>2
  <2>. HIDE DEF E
  <2>. QED  BY <2>1
<1>. HIDE DEF lists
<1>4. t \in Seq(A) /\ \E row, col : Laid(t, lists, 3, row, col)
  BY <1>1, <1>3, FlatIs
<1>5. PICK row, col : Laid(t, lists, 3, row, col)
  BY <1>4
<1>. DEFINE stand(l) == CHOOSE e : Stands(F(l), batches, l, e[1], e[2])
            boxIn(l, c) == stand(l)[1][c]
            placeIn(l, c) == stand(l)[2][c]
<1>6. ASSUME NEW l PROVE Stands(F(l), batches, l, stand(l)[1], stand(l)[2])
  <2>1. PICK box, place : Stands(F(l), batches, l, box, place)
    BY <1>2
  <2>. DEFINE e == <<box, place>>
  <2>2. Stands(F(l), batches, l, e[1], e[2])
    BY <2>1
  <2>. HIDE DEF e
  <2>. QED  BY <2>2
<1>. HIDE DEF stand
<1>7. ASSUME NEW l
      PROVE  /\ \A c \in 1 .. Len(F(l)) : /\ boxIn(l, c) \in 1 .. Len(batches) /\ batches[boxIn(l, c)].layer = l
                                          /\ placeIn(l, c) \in 1 .. Len(batches[boxIn(l, c)].files)
                                          /\ F(l)[c] = batches[boxIn(l, c)].files[placeIn(l, c)]
             /\ \A b \in 1 .. Len(batches) : batches[b].layer = l =>
                  \A c \in 1 .. Len(batches[b].files) : \E k \in 1 .. Len(F(l)) : boxIn(l, k) = b /\ placeIn(l, k) = c
             /\ \A p, q \in 1 .. Len(F(l)) :
                  p < q <=> boxIn(l, p) < boxIn(l, q) \/ (boxIn(l, p) = boxIn(l, q) /\ placeIn(l, p) < placeIn(l, q))
  BY <1>6 DEF Stands
<1>. HIDE DEF boxIn, placeIn
<1>. DEFINE N == Len(t)
            box == [p \in 1 .. N |-> boxIn(row[p] - 1, col[p])]
            place == [p \in 1 .. N |-> placeIn(row[p] - 1, col[p])]
<1>8. \A p \in 1 .. N : box[p] = boxIn(row[p] - 1, col[p]) /\ place[p] = placeIn(row[p] - 1, col[p])
  OBVIOUS
<1>. HIDE DEF N, box, place
<1>9. /\ \A p \in 1 .. N : row[p] \in 1 .. 3 /\ col[p] \in 1 .. Len(lists[row[p]]) /\ t[p] = lists[row[p]][col[p]]
      /\ \A l \in 1 .. 3 : \A c \in 1 .. Len(lists[l]) : \E p \in 1 .. N : row[p] = l /\ col[p] = c
      /\ \A p, q \in 1 .. N : p < q <=> row[p] < row[q] \/ (row[p] = row[q] /\ col[p] < col[q])
  BY <1>5 DEF Laid, N
<1>10. ASSUME NEW p \in 1 .. N
       PROVE  LET l == row[p] - 1 IN
              /\ row[p] = l + 1 /\ l \in 0 .. 2 /\ col[p] \in 1 .. Len(F(l)) /\ t[p] = F(l)[col[p]]
              /\ box[p] = boxIn(l, col[p]) /\ place[p] = placeIn(l, col[p])
              /\ box[p] \in 1 .. Len(batches) /\ batches[box[p]].layer = l
              /\ place[p] \in 1 .. Len(batches[box[p]].files)
              /\ t[p] = batches[box[p]].files[place[p]]
  <2>. DEFINE l == row[p] - 1
              c == col[p]
  <2>1. row[p] = l + 1 /\ l \in 0 .. 2 /\ lists[row[p]] = F(l)
    BY <1>3, <1>9
  <2>2. c \in 1 .. Len(F(l)) /\ t[p] = F(l)[c]
    BY <1>9, <2>1
  <2>3. box[p] = boxIn(l, c) /\ place[p] = placeIn(l, c)
    BY <1>8
  <2>. HIDE DEF l, c
  <2>4. boxIn(l, c) \in 1 .. Len(batches) /\ batches[boxIn(l, c)].layer = l
        /\ placeIn(l, c) \in 1 .. Len(batches[boxIn(l, c)].files)
        /\ F(l)[c] = batches[boxIn(l, c)].files[placeIn(l, c)]
    BY <1>7, <2>2
  <2>. QED  BY <2>1, <2>2, <2>3, <2>4 DEF l, c
<1>11. ASSUME NEW b \in 1 .. Len(batches), NEW c \in 1 .. Len(batches[b].files)
       PROVE  \E p \in 1 .. N : box[p] = b /\ place[p] = c
  <2>. DEFINE l == batches[b].layer
  <2>1. batches[b] \in D
    OBVIOUS
  <2>2. l \in 0 .. 2
    BY <2>1
  <2>3. PICK k \in 1 .. Len(F(l)) : boxIn(l, k) = b /\ placeIn(l, k) = c
    BY <1>7
  <2>. HIDE DEF l
  <2>4. l + 1 \in 1 .. 3 /\ (l + 1) - 1 = l
    BY <2>2
  <2>5. lists[l + 1] = F(l)
    BY <1>3, <2>4
  <2>6. PICK p \in 1 .. N : row[p] = l + 1 /\ col[p] = k
    BY <1>9, <2>4, <2>5
  <2>. QED  BY <1>8, <2>3, <2>4, <2>6
<1>12. ASSUME NEW p \in 1 .. N, NEW q \in 1 .. N
       PROVE  p < q <=> \/ batches[box[p]].layer < batches[box[q]].layer
                        \/ /\ batches[box[p]].layer = batches[box[q]].layer
                           /\ box[p] < box[q] \/ (box[p] = box[q] /\ place[p] < place[q])
  <2>. DEFINE l == row[p] - 1
              m == row[q] - 1
  <2>1. /\ row[p] = l + 1 /\ l \in 0 .. 2 /\ col[p] \in 1 .. Len(F(l))
        /\ box[p] = boxIn(l, col[p]) /\ place[p] = placeIn(l, col[p]) /\ batches[box[p]].layer = l
    BY <1>10
  <2>2. /\ row[q] = m + 1 /\ m \in 0 .. 2 /\ col[q] \in 1 .. Len(F(m))
        /\ box[q] = boxIn(m, col[q]) /\ place[q] = placeIn(m, col[q]) /\ batches[box[q]].layer = m
    BY <1>10
  <2>. HIDE DEF l, m
  <2>3. p < q <=> l < m \/ (l = m /\ col[p] < col[q])
    BY <1>9, <2>1, <2>2
  <2>4. ASSUME l = m PROVE col[p] < col[q] <=> box[p] < box[q] \/ (box[p] = box[q] /\ place[p] < place[q])
    BY <1>7, <2>1, <2>2, <2>4
  <2>. QED  BY <2>1, <2>2, <2>3, <2>4
<1>13. Merges(t, batches, box, place)
  BY <1>10, <1>11, <1>12 DEF Merges, N
<1>. QED  BY <1>4, <1>13 DEF t

\* A slot is a category and a layer.
LEMMA SlotIs == \A s \in 1 .. 7 : Slots[s] \in SlotSet
<1>1. ASSUME NEW S, NEW w \in Seq(S), NEW s \in 1 .. Len(w) PROVE w[s] \in S
  OBVIOUS
<1> QED BY <1>1, SlotsAre, Zenon

MadeWell(b, d, m, s, k) ==
  /\ b.layer = Slots[s].layer /\ b.layer \in 0 .. 2 /\ b.level = k
  /\ b.files \in Seq(Actionable(d)) /\ Apart(b.files)
  /\ \A f : f \in ToSet(b.files) <=> InBatch(d, f, OrderModules(d)[m], Slots[s], k)
  /\ \A i, j \in 1 .. Len(b.files) : i < j <=> SaferFirst(d, RankOf(d), b.files[i], b.files[j])

(* A batch of the plan holds exactly the files of its module, slot and       *)
(* bucket, each once, the safer ones first (_split_by_risk_level).           *)
LEMMA MadeIs ==
  ASSUME NEW d, AnyPlan(d), NEW m \in 1 .. Len(OrderModules(d)), NEW s \in 1 .. 7, NEW k \in 1 .. 3
  PROVE  MadeWell(MadeBatch(d, m, s, k), d, m, s, k)
<1> DEFINE slot == Slots[s]
           module == OrderModules(d)[m]
           b == BatchFor(d, RankOf(d), module, slot, k)
<1>2. slot \in SlotSet
  BY SlotIs, Zenon
<1>3. slot.layer \in 0 .. 2
  <2> HIDE DEF slot
  <2> QED BY <1>2 DEF SlotSet
<1>4. Ranks(RankOf(d), d)
  BY RanksAre
<1>5. LET c == BatchFor(d, RankOf(d), module, slot, k)
      IN /\ c.layer = slot.layer /\ c.level = k
         /\ c.files \in Seq(Actionable(d)) /\ Apart(c.files)
         /\ \A f : f \in ToSet(c.files) <=> InBatch(d, f, module, slot, k)
         /\ \A i, j \in 1 .. Len(c.files) : i < j <=> SaferFirst(d, RankOf(d), c.files[i], c.files[j])
  <2> HIDE DEF slot, module
  <2> QED BY <1>4, BatchIs, Zenon
<1>6. b = MadeBatch(d, m, s, k)
  BY DEF MadeBatch
<1>7. /\ b.layer = slot.layer /\ b.level = k
      /\ b.files \in Seq(Actionable(d)) /\ Apart(b.files)
      /\ \A f : f \in ToSet(b.files) <=> InBatch(d, f, module, slot, k)
      /\ \A i, j \in 1 .. Len(b.files) : i < j <=> SaferFirst(d, RankOf(d), b.files[i], b.files[j])
  BY <1>5, Zenon
<1>8. MadeWell(b, d, m, s, k)
  <2> HIDE DEF b
  <2> QED BY <1>3, <1>7, Zenon DEF MadeWell
<1> QED BY <1>6, <1>8, Zenon

AtHome(d, f, m, s, k) ==
  /\ m \in 1 .. Len(OrderModules(d)) /\ s \in 1 .. 7 /\ k \in 1 .. 3
  /\ InBatch(d, f, OrderModules(d)[m], Slots[s], k)

(* Every file the plan is about has one module, slot and bucket, so there is *)
(* exactly one batch it can be in.                                           *)
LEMMA HasHome ==
  ASSUME NEW d, AnyPlan(d), NEW f \in Actionable(d)
  PROVE  \E m, s, k : AtHome(d, f, m, s, k)
<1> DEFINE file == d.file[f]
           order == OrderModules(d)
<1>1. file \in DraftRecord /\ file.module \in Modules(d)
  BY FilesAre
<1>2. Listing(order, Modules(d))
  BY ModulesAre
<1>3. PICK m \in 1 .. Len(order) : order[m] = file.module
  <2> HIDE DEF order, file
  <2> QED BY <1>1, <1>2 DEF Listing, ToSet
<1>4. file.category \in {"B", "C", "D_MISSING"}
  BY DEF Actionable
<1>5. PICK s \in 1 .. 7 : Slots[s].category = file.category /\ Slots[s].layer = LayerOf(file)
  BY <1>1, <1>4, SlotsAre, Zenon
<1>6. BucketOf(file) \in 1 .. 3
  BY <1>1, ScoresAreNumbers, Zenon
<1>7. AtHome(d, f, m, s, BucketOf(file))
  BY <1>3, <1>5, <1>6, Zenon DEF AtHome, InBatch
<1> QED BY <1>7

\* The batch a file belongs in is the only one.
LEMMA OneHome ==
  ASSUME NEW d, AnyPlan(d), NEW f, NEW m, NEW s, NEW k, NEW n, NEW r, NEW j,
         AtHome(d, f, m, s, k), AtHome(d, f, n, r, j)
  PROVE  m = n /\ s = r /\ k = j
<1>1. Apart(OrderModules(d)) /\ Apart(Slots) /\ Slots \in Seq(SlotSet) /\ Len(Slots) = 7
  BY ModulesAre, SlotsAre DEF Listing
<1>2. m = n
  <2> DEFINE order == OrderModules(d)
  <2>1. m \in 1 .. Len(order) /\ n \in 1 .. Len(order) /\ order[m] = order[n]
    BY Zenon DEF AtHome, InBatch
  <2> QED BY <1>1, <2>1, Zenon DEF Apart
<1>3. k = j
  BY DEF AtHome, InBatch
<1>4. s \in 1 .. 7 /\ r \in 1 .. 7 /\ Slots[s] \in SlotSet /\ Slots[r] \in SlotSet
  BY SlotIs, Zenon DEF AtHome
<1>5. Slots[s].category = Slots[r].category /\ Slots[s].layer = Slots[r].layer
  BY DEF AtHome, InBatch
<1>6. \A a, b \in SlotSet : a.category = b.category /\ a.layer = b.layer => a = b
  BY DEF SlotSet
<1>7. Slots[s] = Slots[r]
  BY <1>4, <1>5, <1>6, Zenon
<1>8. s = r
  BY <1>1, <1>4, <1>7 DEF Apart
<1> QED BY <1>2, <1>3, <1>8

\* Two files the plan treats alike are at home in the same batch.
LEMMA SameHome ==
  ASSUME NEW d, NEW f, NEW g \in Actionable(d), NEW m, NEW s, NEW k,
         AtHome(d, f, m, s, k), d.file[f] = d.file[g]
  PROVE  AtHome(d, g, m, s, k)
BY Zenon DEF AtHome, InBatch

\* Where the plan's order t takes each file from: batch, module, slot and bucket.
PlanLaid(t, d, ms, ss, ks, box, place) ==
  /\ t \in Seq(Actionable(d)) /\ Batches(d) \in Seq(MadeBatches(d))
  /\ From(Batches(d), d, ms, ss, ks)
  /\ \A m \in 1 .. Len(OrderModules(d)), s \in 1 .. 7, k \in 1 .. 3 :
       MadeBatch(d, m, s, k).files # <<>> => Holding(Batches(d), ms, ss, ks, m, s, k)
  /\ Merges(t, Batches(d), box, place)

\* Every plan has such places.
LEMMA PlanIsLaid ==
  ASSUME NEW d, AnyPlan(d)
  PROVE  \E ms, ss, ks, box, place : PlanLaid(MergeOrder(Batches(d)), d, ms, ss, ks, box, place)
<1> DEFINE D == MadeBatches(d)
           A == Actionable(d)
           batches == Batches(d)
<1>1. \A b \in D : b.layer \in 0 .. 2 /\ b.files \in Seq(A)
  <2> SUFFICES ASSUME NEW b \in D PROVE b.layer \in 0 .. 2 /\ b.files \in Seq(A)
    BY Zenon
  <2>1. PICK e \in (1 .. Len(OrderModules(d))) \X (1 .. 7) \X (1 .. 3) : b = MadeBatch(d, e[1], e[2], e[3])
    BY DEF MadeBatches
  <2>2. e[1] \in 1 .. Len(OrderModules(d)) /\ e[2] \in 1 .. 7 /\ e[3] \in 1 .. 3
    BY <2>1
  <2>3. MadeWell(b, d, e[1], e[2], e[3])
    BY <2>1, <2>2, MadeIs, Zenon
  <2> QED BY <2>3, Zenon DEF MadeWell
<1>2. batches \in Seq(D)
  BY BatchListIs
<1>3. PICK ms, ss, ks : /\ From(batches, d, ms, ss, ks)
                        /\ \A m \in 1 .. Len(OrderModules(d)), s \in 1 .. 7, k \in 1 .. 3 :
                             MadeBatch(d, m, s, k).files # <<>> => Holding(batches, ms, ss, ks, m, s, k)
  BY BatchListIs, Zenon
<1>4. /\ MergeOrder(batches) \in Seq(A)
      /\ \E box, place : Merges(MergeOrder(batches), batches, box, place)
  <2> HIDE DEF D, A, batches
  <2> QED BY <1>1, <1>2, MergeOrderIs, Zenon
<1>5. PICK box, place : Merges(MergeOrder(batches), batches, box, place)
  BY <1>4
<1>6. PlanLaid(MergeOrder(batches), d, ms, ss, ks, box, place)
  BY <1>2, <1>3, <1>4, <1>5, Zenon DEF PlanLaid
<1> QED BY <1>6

\* A file of the order and the batch it comes from.
LEMMA PlaceIs ==
  ASSUME NEW d, AnyPlan(d), NEW t, NEW ms, NEW ss, NEW ks, NEW box, NEW place,
         PlanLaid(t, d, ms, ss, ks, box, place), NEW p \in 1 .. Len(t)
  PROVE  /\ t[p] \in Actionable(d) /\ box[p] \in 1 .. Len(Batches(d))
         /\ place[p] \in 1 .. Len(Batches(d)[box[p]].files)
         /\ t[p] = Batches(d)[box[p]].files[place[p]]
         /\ AtHome(d, t[p], ms[box[p]], ss[box[p]], ks[box[p]])
         /\ MadeWell(Batches(d)[box[p]], d, ms[box[p]], ss[box[p]], ks[box[p]])
<1> DEFINE b == Batches(d)[box[p]]
           m == ms[box[p]]
           s == ss[box[p]]
           k == ks[box[p]]
<1>1. /\ box[p] \in 1 .. Len(Batches(d)) /\ place[p] \in 1 .. Len(b.files) /\ t[p] = b.files[place[p]]
  BY Zenon DEF PlanLaid, Merges
<1>2. /\ m \in 1 .. Len(OrderModules(d)) /\ s \in 1 .. 7 /\ k \in 1 .. 3 /\ b = MadeBatch(d, m, s, k)
  BY <1>1, Zenon DEF PlanLaid, From
<1>3. MadeWell(b, d, m, s, k)
  <2> HIDE DEF b, m, s, k
  <2> QED BY <1>2, MadeIs, Zenon
<1>4. b.files \in Seq(Actionable(d)) /\ \A f : f \in ToSet(b.files) <=> InBatch(d, f, OrderModules(d)[m], Slots[s], k)
  BY <1>3, Zenon DEF MadeWell
<1>5. t[p] \in ToSet(b.files) /\ t[p] \in Actionable(d)
  <2> DEFINE w == b.files
  <2>1. w \in Seq(Actionable(d)) /\ place[p] \in 1 .. Len(w) /\ t[p] = w[place[p]]
    BY <1>1, <1>4
  <2>2. t[p] \in Actionable(d) /\ t[p] \in ToSet(w)
    <3> HIDE DEF w
    <3> QED BY <2>1 DEF ToSet
  <2> QED BY <2>2
<1>6. AtHome(d, t[p], m, s, k)
  BY <1>2, <1>4, <1>5, Zenon DEF AtHome
<1> QED BY <1>1, <1>3, <1>5, <1>6

\* The batch a file is at home in is part of the plan, and holds it.
LEMMA HomeBatch ==
  ASSUME NEW d, AnyPlan(d), NEW t, NEW ms, NEW ss, NEW ks, NEW box, NEW place,
         PlanLaid(t, d, ms, ss, ks, box, place), NEW f, NEW m, NEW s, NEW k, AtHome(d, f, m, s, k)
  PROVE  \E b \in 1 .. Len(Batches(d)) :
           /\ ms[b] = m /\ ss[b] = s /\ ks[b] = k
           /\ f \in ToSet(Batches(d)[b].files) /\ Batches(d)[b].level = k
<1> DEFINE batch == MadeBatch(d, m, s, k)
<1>1. MadeWell(batch, d, m, s, k)
  BY MadeIs DEF AtHome
<1>2. f \in ToSet(batch.files) /\ batch.level = k /\ batch.files \in Seq(Actionable(d))
  BY <1>1, Zenon DEF MadeWell, AtHome
<1>3. batch.files # <<>>
  <2> DEFINE w == batch.files
  <2>1. w \in Seq(Actionable(d)) /\ f \in ToSet(w)
    BY <1>2
  <2>2. w # <<>>
    <3> HIDE DEF w
    <3> QED BY <2>1 DEF ToSet
  <2> QED BY <2>2
<1>4. Holding(Batches(d), ms, ss, ks, m, s, k)
  BY <1>3, Zenon DEF PlanLaid, AtHome
<1>5. PICK b \in 1 .. Len(Batches(d)) : ms[b] = m /\ ss[b] = s /\ ks[b] = k
  BY <1>4, Zenon DEF Holding
<1>6. Batches(d)[b] = batch
  BY <1>5, Zenon DEF PlanLaid, From
<1> QED BY <1>2, <1>5, <1>6, Zenon

(* Every undecided file is merged exactly once (_build_layered_plan and the  *)
(* order auto_merge takes the batches in).                                   *)
LEMMA OrderIsWhole ==
  ASSUME NEW d, AnyPlan(d), NEW t, NEW ms, NEW ss, NEW ks, NEW box, NEW place,
         PlanLaid(t, d, ms, ss, ks, box, place)
  PROVE  ToSet(t) = Actionable(d) /\ Len(t) = Cardinality(Actionable(d)) /\ Apart(t)
<1> DEFINE A == Actionable(d)
<1>1. t \in Seq(A) /\ IsFiniteSet(A)
  BY FilesAre, Zenon DEF PlanLaid
<1>a. ASSUME NEW p \in 1 .. Len(t)
      PROVE  /\ box[p] \in 1 .. Len(Batches(d)) /\ place[p] \in 1 .. Len(Batches(d)[box[p]].files)
             /\ t[p] = Batches(d)[box[p]].files[place[p]]
             /\ AtHome(d, t[p], ms[box[p]], ss[box[p]], ks[box[p]])
             /\ MadeWell(Batches(d)[box[p]], d, ms[box[p]], ss[box[p]], ks[box[p]])
  BY PlaceIs
<1>2. ASSUME NEW f \in A PROVE f \in ToSet(t)
  <2>1. PICK m, s, k : AtHome(d, f, m, s, k)
    BY HasHome
  <2>2. PICK b \in 1 .. Len(Batches(d)) : f \in ToSet(Batches(d)[b].files)
    <3>1. \E b \in 1 .. Len(Batches(d)) :
            /\ ms[b] = m /\ ss[b] = s /\ ks[b] = k
            /\ f \in ToSet(Batches(d)[b].files) /\ Batches(d)[b].level = k
      BY <2>1, HomeBatch
    <3> QED BY <3>1, Zenon
  <2> DEFINE w == Batches(d)[b].files
  <2>3. MadeWell(Batches(d)[b], d, ms[b], ss[b], ks[b])
    <3>1. /\ ms[b] \in 1 .. Len(OrderModules(d)) /\ ss[b] \in 1 .. 7 /\ ks[b] \in 1 .. 3
          /\ Batches(d)[b] = MadeBatch(d, ms[b], ss[b], ks[b])
      BY <2>2, Zenon DEF PlanLaid, From
    <3> QED BY <3>1, MadeIs, Zenon
  <2>4. w \in Seq(A) /\ f \in ToSet(w)
    BY <2>2, <2>3, Zenon DEF MadeWell
  <2>5. PICK c \in 1 .. Len(w) : w[c] = f
    <3> HIDE DEF w
    <3> QED BY <2>4 DEF ToSet
  <2>6. PICK p \in 1 .. Len(t) : box[p] = b /\ place[p] = c
    BY <2>5, Zenon DEF PlanLaid, Merges
  <2>7. t[p] = f
    BY <1>a, <2>5, <2>6, Zenon
  <2> QED BY <1>1, <2>6, <2>7 DEF ToSet
<1>3. ASSUME NEW p \in 1 .. Len(t), NEW q \in 1 .. Len(t), t[p] = t[q] PROVE p = q
  <2>1. /\ AtHome(d, t[p], ms[box[p]], ss[box[p]], ks[box[p]])
        /\ AtHome(d, t[p], ms[box[q]], ss[box[q]], ks[box[q]])
        /\ box[p] \in 1 .. Len(Batches(d)) /\ box[q] \in 1 .. Len(Batches(d))
    BY <1>3, <1>a, Zenon
  <2>2. ms[box[p]] = ms[box[q]] /\ ss[box[p]] = ss[box[q]] /\ ks[box[p]] = ks[box[q]]
    BY <2>1, OneHome, Zenon
  <2>3. box[p] = box[q]
    BY <2>1, <2>2, Zenon DEF PlanLaid, From
  <2> DEFINE w == Batches(d)[box[p]].files
  <2>4. Apart(w) /\ place[p] \in 1 .. Len(w) /\ place[q] \in 1 .. Len(w) /\ w[place[p]] = w[place[q]]
    <3>1. /\ place[p] \in 1 .. Len(w) /\ t[p] = w[place[p]]
          /\ MadeWell(Batches(d)[box[p]], d, ms[box[p]], ss[box[p]], ks[box[p]])
      BY <1>a
    <3>2. place[q] \in 1 .. Len(w) /\ t[q] = w[place[q]]
      BY <1>a, <2>3
    <3> QED BY <3>1, <3>2, <1>3, Zenon DEF MadeWell
  <2>5. place[p] = place[q]
    BY <2>4, Zenon DEF Apart
  <2>6. ~(p < q) /\ ~(q < p)
    <3> DEFINE B == Batches(d)
               After(a, b) == \/ B[box[a]].layer < B[box[b]].layer
                              \/ /\ B[box[a]].layer = B[box[b]].layer
                                 /\ box[a] < box[b] \/ (box[a] = box[b] /\ place[a] < place[b])
    <3>1. (p < q <=> After(p, q)) /\ (q < p <=> After(q, p))
      BY Zenon DEF PlanLaid, Merges
    <3>2. B[box[p]].layer \in 0 .. 2
      BY <1>a, Zenon DEF MadeWell
    <3>3. box[p] \in Nat /\ place[p] \in Nat
      BY <1>a
    <3>4. ~After(p, q) /\ ~After(q, p)
      <4>1. B[box[p]] = B[box[q]]
        BY <2>3
      <4> HIDE DEF B
      <4> QED BY <2>3, <2>5, <3>2, <3>3, <4>1
    <3> QED BY <3>1, <3>4, Zenon
  <2> QED BY <1>1, <2>6
<1>4. A \subseteq ToSet(t) /\ ToSet(t) \subseteq A /\ Apart(t)
  BY <1>1, <1>2, <1>3 DEF Apart, ToSet
<1>5. ToSet(t) = A
  BY <1>4, Zenon
<1>6. Len(t) = Cardinality(A)
  <2> HIDE DEF A
  <2> QED BY <1>1, <1>4, <1>5, ListingIs, Zenon
<1> QED BY <1>4, <1>5, <1>6

Earlier(t, f, g) == \E i, j \in DOMAIN t : i < j /\ t[i] = f /\ t[j] = g

\* A module stands after the modules it needs, unless they need each other in a ring.
LEMMA NeededFirst ==
  ASSUME NEW d, AnyPlan(d), ~ModuleRing(d), NEW t, NEW ms, NEW ss, NEW ks, NEW box, NEW place,
         PlanLaid(t, d, ms, ss, ks, box, place), NEW p \in 1 .. Len(t), NEW q \in 1 .. Len(t),
         d.file[t[q]].module \in d.needs[d.file[t[p]].module],
         LayerOf(d.file[t[p]]) = LayerOf(d.file[t[q]])
  PROVE  q < p
<1> DEFINE B == Batches(d)
           order == OrderModules(d)
           m == ms[box[p]]
           n == ms[box[q]]
<1>1. /\ box[p] \in 1 .. Len(B) /\ AtHome(d, t[p], m, ss[box[p]], ks[box[p]])
      /\ MadeWell(B[box[p]], d, m, ss[box[p]], ks[box[p]]) /\ t[p] \in Actionable(d)
  BY PlaceIs
<1>2. /\ box[q] \in 1 .. Len(B) /\ AtHome(d, t[q], n, ss[box[q]], ks[box[q]])
      /\ MadeWell(B[box[q]], d, n, ss[box[q]], ks[box[q]]) /\ t[q] \in Actionable(d)
  BY PlaceIs
<1>3. /\ m \in 1 .. Len(order) /\ n \in 1 .. Len(order)
      /\ order[m] = d.file[t[p]].module /\ order[n] = d.file[t[q]].module
  BY <1>1, <1>2, Zenon DEF AtHome, InBatch
<1>4. d.file[t[q]].module \in NeedsOf(d, order[m])
  BY <1>2, <1>3, FilesAre DEF NeedsOf
<1>5. PICK j \in 1 .. m - 1 : order[j] = order[n]
  <2>1. \A i \in 1 .. Len(order) : \A b \in NeedsOf(d, order[i]) : \E j \in 1 .. i - 1 : order[j] = b
    BY ModulesAre
  <2> HIDE DEF order, m, n
  <2> QED BY <2>1, <1>3, <1>4, Zenon
<1>6. order \in Seq(Modules(d)) /\ Apart(order)
  BY ModulesAre DEF Listing
<1>7. Len(order) \in Nat
  <2> HIDE DEF order
  <2> QED BY <1>6
<1>8. j \in 1 .. Len(order) /\ j < m
  <2> HIDE DEF order, m
  <2> QED BY <1>3, <1>7
<1>9. j = n
  BY <1>3, <1>5, <1>6, <1>8, Zenon DEF Apart
<1>10. n < m
  BY <1>8, <1>9
<1>11. box[p] < box[q] => m <= n
  BY <1>1, <1>2, Zenon DEF PlanLaid, From
<1>12. box[q] < box[p]
  <2>1. box[p] # box[q]
    <3> SUFFICES ASSUME box[p] = box[q] PROVE FALSE
      OBVIOUS
    <3>1. m = n
      OBVIOUS
    <3> HIDE DEF m, n, order
    <3> QED BY <3>1, <1>3, <1>10
  <2> HIDE DEF m, n, order, B
  <2> QED BY <2>1, <1>1, <1>2, <1>3, <1>10, <1>11
<1>13. B[box[p]].layer = LayerOf(d.file[t[p]]) /\ B[box[q]].layer = LayerOf(d.file[t[q]])
  BY <1>1, <1>2, Zenon DEF MadeWell, AtHome, InBatch
<1>14. B[box[p]].layer = B[box[q]].layer
  BY <1>13, Zenon
<1> QED BY <1>12, <1>14, Zenon DEF PlanLaid, Merges

\* Of two files that are alike the imported one is taken first, unless imports form a ring.
LEMMA ImportedFirst ==
  ASSUME NEW d, AnyPlan(d), ~FileRing(d), NEW t, NEW ms, NEW ss, NEW ks, NEW box, NEW place,
         PlanLaid(t, d, ms, ss, ks, box, place), NEW p \in 1 .. Len(t), NEW q \in 1 .. Len(t),
         Imports(d, t[p], t[q]), d.file[t[p]] = d.file[t[q]]
  PROVE  q < p
<1> DEFINE B == Batches(d)
           m == ms[box[p]]
           s == ss[box[p]]
           k == ks[box[p]]
           files == B[box[p]].files
<1>1. /\ box[p] \in 1 .. Len(B) /\ AtHome(d, t[p], m, s, k) /\ place[p] \in 1 .. Len(files)
      /\ t[p] = files[place[p]] /\ MadeWell(B[box[p]], d, m, s, k) /\ t[p] \in Actionable(d)
  BY PlaceIs
<1>2. /\ box[q] \in 1 .. Len(B) /\ AtHome(d, t[q], ms[box[q]], ss[box[q]], ks[box[q]])
      /\ place[q] \in 1 .. Len(B[box[q]].files) /\ t[q] = B[box[q]].files[place[q]]
      /\ t[q] \in Actionable(d)
  BY PlaceIs
<1>3. AtHome(d, t[q], m, s, k)
  BY <1>1, <1>2, SameHome, Zenon
<1>4. ms[box[q]] = m /\ ss[box[q]] = s /\ ks[box[q]] = k
  <2> HIDE DEF m, s, k
  <2> QED BY <1>2, <1>3, OneHome, Zenon
<1>5. box[p] = box[q]
  BY <1>1, <1>2, <1>4, Zenon DEF PlanLaid, From
<1>6. place[q] \in 1 .. Len(files) /\ t[q] = files[place[q]]
  BY <1>2, <1>5
<1> DEFINE rank == RankOf(d)
<1>7. rank[t[q]] < rank[t[p]]
  BY <1>1, <1>2, RanksAre, Zenon DEF Ranks
<1>8. SaferFirst(d, rank, t[q], t[p])
  <2>1. ScoreOf(d.file[t[q]]) = ScoreOf(d.file[t[p]])
    BY Zenon
  <2> QED BY <1>7, <2>1, Zenon DEF SaferFirst
<1>9. place[q] < place[p] <=> SaferFirst(d, rank, files[place[q]], files[place[p]])
  BY <1>1, <1>6, Zenon DEF MadeWell
<1>10. place[q] < place[p]
  BY <1>1, <1>6, <1>8, <1>9, Zenon
<1>11. B[box[p]].layer = B[box[q]].layer
  BY <1>5
<1> QED BY <1>5, <1>10, <1>11, Zenon DEF PlanLaid, Merges

(* What the plan promises: every undecided file once, in a batch no laxer    *)
(* than its level, after the modules and the files it depends on.            *)
LEMMA PlanIs ==
  ASSUME NEW d, AnyPlan(d), NEW t, t = MergeOrder(Batches(d))
  PROVE  /\ ToSet(t) = Actionable(d) /\ Len(t) = Cardinality(Actionable(d))
         /\ \A f \in Actionable(d) : \E b \in DOMAIN Batches(d) :
              /\ f \in ToSet(Batches(d)[b].files) /\ Batches(d)[b].level >= d.file[f].level
              /\ d.file[f].shadow => Batches(d)[b].level = 3
         /\ ~ModuleRing(d) => \A f, g \in Actionable(d) :
              d.file[g].module \in d.needs[d.file[f].module] /\ LayerOf(d.file[f]) = LayerOf(d.file[g]) =>
                Earlier(t, g, f)
         /\ ~FileRing(d) => \A f, g \in Actionable(d) :
              Imports(d, f, g) /\ d.file[f] = d.file[g] => Earlier(t, g, f)
<1> DEFINE A == Actionable(d)
<1>1. PICK ms, ss, ks, box, place : PlanLaid(t, d, ms, ss, ks, box, place)
  BY PlanIsLaid
<1>2. ToSet(t) = A /\ Len(t) = Cardinality(A) /\ Apart(t)
  BY <1>1, OrderIsWhole
<1>3. t \in Seq(A) /\ DOMAIN t = 1 .. Len(t)
  BY <1>1 DEF PlanLaid
<1>4. \A f \in A : \E p \in 1 .. Len(t) : t[p] = f
  BY <1>2, <1>3 DEF ToSet
<1>5. ASSUME NEW f \in A
      PROVE  \E b \in DOMAIN Batches(d) :
               /\ f \in ToSet(Batches(d)[b].files) /\ Batches(d)[b].level >= d.file[f].level
               /\ d.file[f].shadow => Batches(d)[b].level = 3
  <2>1. PICK m, s, k : AtHome(d, f, m, s, k)
    BY HasHome
  <2>2. PICK b \in 1 .. Len(Batches(d)) : f \in ToSet(Batches(d)[b].files) /\ Batches(d)[b].level = k
    <3>1. \E b \in 1 .. Len(Batches(d)) :
            /\ ms[b] = m /\ ss[b] = s /\ ks[b] = k
            /\ f \in ToSet(Batches(d)[b].files) /\ Batches(d)[b].level = k
      BY <1>1, <2>1, HomeBatch
    <3> QED BY <3>1, Zenon
  <2>3. d.file[f] \in DraftRecord
    BY FilesAre
  <2>4. k >= d.file[f].level /\ (d.file[f].shadow => k = 3)
    <3>1. k = BucketOf(d.file[f])
      BY <2>1, Zenon DEF AtHome, InBatch
    <3> QED BY <2>3, <3>1, ScoresAreNumbers, Zenon
  <2>5. DOMAIN Batches(d) = 1 .. Len(Batches(d))
    <3> DEFINE w == Batches(d)
    <3>1. w \in Seq(MadeBatches(d))
      BY <1>1 DEF PlanLaid
    <3>2. DOMAIN w = 1 .. Len(w)
      <4> HIDE DEF w
      <4> QED BY <3>1
    <3> QED BY <3>2
  <2> QED BY <2>2, <2>4, <2>5, Zenon
<1>6. ASSUME ~ModuleRing(d), NEW f \in A, NEW g \in A, d.file[g].module \in d.needs[d.file[f].module],
             LayerOf(d.file[f]) = LayerOf(d.file[g])
      PROVE  Earlier(t, g, f)
  <2>1. PICK p \in 1 .. Len(t) : t[p] = f
    BY <1>4
  <2>2. PICK q \in 1 .. Len(t) : t[q] = g
    BY <1>4
  <2>3. q < p
    BY <1>1, <1>6, <2>1, <2>2, NeededFirst
  <2> QED BY <1>3, <2>1, <2>2, <2>3, Zenon DEF Earlier
<1>7. ASSUME ~FileRing(d), NEW f \in A, NEW g \in A, Imports(d, f, g), d.file[f] = d.file[g]
      PROVE  Earlier(t, g, f)
  <2>1. PICK p \in 1 .. Len(t) : t[p] = f
    BY <1>4
  <2>2. PICK q \in 1 .. Len(t) : t[q] = g
    BY <1>4
  <2>3. q < p
    BY <1>1, <1>7, <2>1, <2>2, ImportedFirst
  <2> QED BY <1>3, <2>1, <2>2, <2>3, Zenon DEF Earlier
<1> QED BY <1>2, <1>5, <1>6, <1>7, Zenon

\* The rings the plan gives up on, seen from the files.
LEMMA RingOfModules ==
  ASSUME NEW d, AnyPlan(d), ModuleRing(d),
         NEW arrows, \A f, g \in Actionable(d) :
                       d.file[g].module \in d.needs[d.file[f].module] => <<f, g>> \in arrows
  PROVE  \E C \in SUBSET Actionable(d) : C # {} /\ \A f \in C : \E g \in C : <<f, g>> \in arrows
<1> DEFINE A == Actionable(d)
<1>1. PICK M \in SUBSET Modules(d) : M # {} /\ \A a \in M : \E b \in M : b \in NeedsOf(d, a)
  BY DEF ModuleRing
<1> DEFINE C == {f \in A : d.file[f].module \in M}
<1>2. ASSUME NEW a \in M PROVE \E f \in C : d.file[f].module = a
  BY <1>1 DEF Modules
<1>3. C # {}
  BY <1>1, <1>2
<1>4. ASSUME NEW f \in C PROVE \E g \in C : <<f, g>> \in arrows
  <2>1. PICK b \in M : b \in NeedsOf(d, d.file[f].module)
    BY <1>1
  <2>2. PICK g \in C : d.file[g].module = b
    BY <1>2
  <2>3. d.file[g].module \in d.needs[d.file[f].module] /\ f \in A /\ g \in A
    BY <2>1, <2>2 DEF NeedsOf
  <2>4. <<f, g>> \in arrows
    <3> HIDE DEF A, C
    <3> QED BY <2>3, Zenon DEF A
  <2> QED BY <2>4
<1>5. C \in SUBSET A
  OBVIOUS
<1> QED
  <2> HIDE DEF C, A
  <2>1. C \in SUBSET A /\ C # {} /\ \A f \in C : \E g \in C : <<f, g>> \in arrows
    BY <1>3, <1>4, <1>5
  <2> QED BY <2>1, Zenon DEF A

(* Each chunk of upstream's version is paired with exactly one chunk of the   *)
(* fork's, and the pairs keep upstream's order: align_chunks, for any number  *)
(* of chunks of any length.  The middle of a later chunk comes later, and the *)
(* first of the nearest is taken.                                             *)
THEOREM UpstreamIsCovered == ToolsSpec => []UpstreamCovered
<1>1. ASSUME CaseInv, Asked("align"), NEW x, x = question.align
      PROVE  /\ \A j \in DOMAIN x.upstream : \E i \in DOMAIN answer.align :
                  j \in answer.align[i] /\ \A k \in DOMAIN answer.align : j \in answer.align[k] => k = i
             /\ \A i, k \in DOMAIN answer.align : i < k =>
                  \A j \in answer.align[i], m \in answer.align[k] : j < m
  <2>1. x \in AlignCase /\ answer.align = AlignChunks(x)
    BY <1>1 DEF CaseInv
  <2>2. x \in AnyAlign
    <3>1. ChunkSizes \subseteq AnySizes
      <4>1. ASSUME NEW n \in 1 .. 3, NEW s \in [1 .. n -> {1, 3}] PROVE s \in AnySizes
        <5>1. s \in Seq(Nat \ {0}) /\ Len(s) = n
          OBVIOUS
        <5>. QED  BY <5>1 DEF AnySizes
      <4>. QED  BY <4>1 DEF ChunkSizes
    <3>. QED  BY <2>1, <3>1 DEF AlignCase, AnyAlign
  <2>. QED  BY <2>1, <2>2, ChunksCovered
<1>2. CaseInv => UpstreamCovered
  BY <1>1, Zenon DEF UpstreamCovered
<1>. QED  BY <1>2, CasesHold, PTL

(* A conversation that is compressed keeps its ends as they are, and fits but *)
(* for the notice of what was dropped unless there is nothing but them:       *)
(* ContextCompressor, for conversations of any length and any budget.         *)
THEOREM EndsAreKept == ToolsSpec => []EndsKept
<1>1. CaseInv /\ Asked("compress") =>
        LET x == question.compress
            n == Len(x.sizes)
            c == answer.compress
            total == Total([i \in 1 .. n |-> IF i \in c.kept THEN c.sizes[i] ELSE 0]) + c.notice
        IN /\ 1 .. n \ Middle(n) \subseteq c.kept
           /\ Middle(n) # {} => \A i \in 1 .. n \ Middle(n) : c.sizes[i] = x.sizes[i]
           /\ \/ total <= x.budget + (IF c.kept = 1 .. n THEN 0 ELSE Notice)
              \/ c.kept \cap Middle(n) = {}
  <2>. SUFFICES ASSUME CaseInv, Asked("compress") PROVE
        LET x == question.compress
            n == Len(x.sizes)
            c == answer.compress
            total == Total([i \in 1 .. n |-> IF i \in c.kept THEN c.sizes[i] ELSE 0]) + c.notice
        IN /\ 1 .. n \ Middle(n) \subseteq c.kept
           /\ Middle(n) # {} => \A i \in 1 .. n \ Middle(n) : c.sizes[i] = x.sizes[i]
           /\ \/ total <= x.budget + (IF c.kept = 1 .. n THEN 0 ELSE Notice)
              \/ c.kept \cap Middle(n) = {}
    BY Zenon
  <2>1. question.compress \in ChatCase /\ answer.compress = Compress(question.compress)
    BY DEF CaseInv
  <2>2. ChatCase \subseteq AnyChat
    <3>1. ASSUME NEW n \in 3 .. 5, NEW s \in [1 .. n -> {1, 3, 8}] PROVE s \in Seq(Nat)
      OBVIOUS
    <3>2. UNION {[1 .. n -> {1, 3, 8}] : n \in 3 .. 5} \subseteq Seq(Nat)
      BY <3>1
    <3>3. SUBSET {2, 3} \subseteq SUBSET Nat /\ {4, 9} \subseteq Nat
      OBVIOUS
    <3>. QED  BY <3>2, <3>3 DEF ChatCase, AnyChat
  <2>3. question.compress \in AnyChat
    BY <2>1, <2>2
  <2>. QED  BY <2>1, <2>3, ChatKeepsItsEnds
<1>2. CaseInv => EndsKept
  BY <1>1, Zenon DEF EndsKept
<1>. QED  BY <1>2, CasesHold, PTL

(* Splitting a batch that is too large loses no file, repeats none and keeps  *)
(* the order of a directory, and each part is within the limits unless one    *)
(* file alone is not: Coordinator.enforce_batch_limits, for any number of     *)
(* files of any size and any limits.                                          *)
THEOREM BatchesAreWhole == ToolsSpec => []BatchesKeepOrder
<1>1. CaseInv /\ Asked("batches") =>
        LET x == question.batches
            flat == FlattenSeq(answer.batches)
        IN /\ Len(flat) = Len(x.files) /\ ToSet(flat) = DOMAIN x.files
           /\ \A i, k \in DOMAIN flat :
                i < k /\ (x.grouped => x.files[flat[i]].dir = x.files[flat[k]].dir) => flat[i] < flat[k]
           /\ \A batch \in ToSet(answer.batches) :
                /\ Len(batch) <= x.maxFiles
                /\ x.hinted => TokensOf(x, batch) <= x.maxTokens \/ Len(batch) = 1
                /\ x.grouped => \A i, k \in ToSet(batch) : x.files[i].dir = x.files[k].dir
  <2>. SUFFICES ASSUME CaseInv, Asked("batches") PROVE
        LET x == question.batches
            flat == FlattenSeq(answer.batches)
        IN /\ Len(flat) = Len(x.files) /\ ToSet(flat) = DOMAIN x.files
           /\ \A i, k \in DOMAIN flat :
                i < k /\ (x.grouped => x.files[flat[i]].dir = x.files[flat[k]].dir) => flat[i] < flat[k]
           /\ \A batch \in ToSet(answer.batches) :
                /\ Len(batch) <= x.maxFiles
                /\ x.hinted => TokensOf(x, batch) <= x.maxTokens \/ Len(batch) = 1
                /\ x.grouped => \A i, k \in ToSet(batch) : x.files[i].dir = x.files[k].dir
    BY Zenon
  <2>1. question.batches \in BatchCase /\ answer.batches = EnforceBatchLimits(question.batches)
    BY DEF CaseInv
  <2>2. BatchCase \subseteq AnyBatch({"a", "b"})
    <3>. DEFINE given == [dir : {"a", "b"}, tokens : {1, 3}]
                any == [dir : {"a", "b"}, tokens : Nat]
    <3>1. given \subseteq any
      OBVIOUS
    <3>. HIDE DEF given, any
    <3>2. ASSUME NEW n \in 1 .. 3, NEW s \in [1 .. n -> given] PROVE s \in Seq(any)
      BY <3>1
    <3>3. UNION {[1 .. n -> given] : n \in 1 .. 3} \subseteq Seq(any)
      BY <3>2
    <3>4. 1 .. 2 \subseteq Nat \ {0} /\ {2, 4} \subseteq Nat
      OBVIOUS
    <3>. QED  BY <3>3, <3>4 DEF BatchCase, AnyBatch, given, any
  <2>3. question.batches \in AnyBatch({"a", "b"})
    BY <2>1, <2>2
  <2>. QED  BY <2>1, <2>3, BatchesAre
<1>2. CaseInv => BatchesKeepOrder
  BY <1>1, Zenon DEF BatchesKeepOrder
<1>. QED  BY <1>2, CasesHold, PTL

(* A file shown in stages is cut into chunks that leave out no line but blank *)
(* ones and repeat none, with the text of their lines where no character of a *)
(* parsed file is wide; what is counted fits the budget, what is rendered is  *)
(* bounded by it, and no chunk is shown at the cost of a more relevant one:   *)
(* build_staged_content, for files of any length, any diff and any budget.    *)
THEOREM StagesFit == ToolsSpec => []StagedFits
<1>1. CaseInv /\ Asked("stage") =>
        LET x == question.stage
            staged == answer.stage
            chunks == staged.chunks
            narrow == x.wide = {} \/ ~x.parsed
        IN /\ \A i, k \in DOMAIN chunks : i < k => chunks[i][2] < chunks[k][1]
           /\ \A l \in DOMAIN x.lines : Blank(x, l) \/ \E c \in ToSet(chunks) : l \in c[1] .. c[2]
           /\ narrow => \A c \in ToSet(chunks), l \in DOMAIN x.lines :
                l \in Content(x, c) <=> ~Blank(x, l) /\ l \in c[1] .. c[2]
           /\ staged.tokens <= x.budget
           /\ narrow => staged.rendered <= 2 * x.budget + 1 + Cardinality(Methods(x))
           /\ \A i, k \in DOMAIN chunks : staged.scores[i] < staged.scores[k] => staged.levels[i] <= staged.levels[k]
  <2>. SUFFICES ASSUME CaseInv, Asked("stage") PROVE
        LET x == question.stage
            staged == answer.stage
            chunks == staged.chunks
            narrow == x.wide = {} \/ ~x.parsed
        IN /\ \A i, k \in DOMAIN chunks : i < k => chunks[i][2] < chunks[k][1]
           /\ \A l \in DOMAIN x.lines : Blank(x, l) \/ \E c \in ToSet(chunks) : l \in c[1] .. c[2]
           /\ narrow => \A c \in ToSet(chunks), l \in DOMAIN x.lines :
                l \in Content(x, c) <=> ~Blank(x, l) /\ l \in c[1] .. c[2]
           /\ staged.tokens <= x.budget
           /\ narrow => staged.rendered <= 2 * x.budget + 1 + Cardinality(Methods(x))
           /\ \A i, k \in DOMAIN chunks : staged.scores[i] < staged.scores[k] => staged.levels[i] <= staged.levels[k]
    BY Zenon
  <2>1. question.stage \in StagedCase /\ answer.stage = StageContent(question.stage)
    BY DEF CaseInv
  <2>2. question.stage.lines \in Seq(LineClass) /\ question.stage.budget \in Nat
    BY <2>1, SourceFilesAssumption DEF StagedCase
  <2>. QED  BY <2>1, <2>2, StagedIs
<1>2. CaseInv => StagedFits
  BY <1>1, Zenon DEF StagedFits
<1>. QED  BY <1>2, CasesHold, PTL

(* The plan holds each undecided file upstream changed exactly once, in no    *)
(* laxer batch than its level, a shadowed path with a person; and the merge   *)
(* takes a module after the modules it declares to need, and equal files      *)
(* after the files they import, layer by layer, unless they do so in a ring:  *)
(* _build_layered_plan, for any files, settings and imports.                  *)
THEOREM PlansKeepOrder == ToolsSpec => []PlanKeepsOrder
<1>1. CaseInv /\ Asked("draft") =>
        LET file == question.draft.file
            due == {f \in DOMAIN file : file[f].category \notin {"A", "D_EXTRA", "E"} /\ ~file[f].decided}
            layer == [f \in due |-> IF file[f].category = "D_MISSING" THEN 0 ELSE file[f].layer]
            needs(f, g) == file[g].module \in question.draft.needs[file[f].module]
            ring(arrows) == \E C \in SUBSET due : C # {} /\ \A f \in C : \E g \in C : <<f, g>> \in arrows
            needy == {e \in due \X due : needs(e[1], e[2])}
            Before(f, g) == \E i, j \in DOMAIN answer.draft.order :
                              i < j /\ answer.draft.order[i] = f /\ answer.draft.order[j] = g
        IN /\ ToSet(answer.draft.order) = due /\ Len(answer.draft.order) = Cardinality(due)
           /\ \A f \in due : \E b \in DOMAIN answer.draft.batches :
                /\ f \in ToSet(answer.draft.batches[b].files) /\ answer.draft.batches[b].level >= file[f].level
                /\ file[f].shadow => answer.draft.batches[b].level = 3
           /\ ~ring(needy) => \A e \in needy : layer[e[1]] = layer[e[2]] => Before(e[2], e[1])
           /\ ~ring(question.draft.imports) =>
                \A e \in question.draft.imports :
                  {e[1], e[2]} \subseteq due /\ file[e[1]] = file[e[2]] => Before(e[2], e[1])
  <2>. SUFFICES ASSUME CaseInv, Asked("draft") PROVE
        LET file == question.draft.file
            due == {f \in DOMAIN file : file[f].category \notin {"A", "D_EXTRA", "E"} /\ ~file[f].decided}
            layer == [f \in due |-> IF file[f].category = "D_MISSING" THEN 0 ELSE file[f].layer]
            needs(f, g) == file[g].module \in question.draft.needs[file[f].module]
            ring(arrows) == \E C \in SUBSET due : C # {} /\ \A f \in C : \E g \in C : <<f, g>> \in arrows
            needy == {e \in due \X due : needs(e[1], e[2])}
            Before(f, g) == \E i, j \in DOMAIN answer.draft.order :
                              i < j /\ answer.draft.order[i] = f /\ answer.draft.order[j] = g
        IN /\ ToSet(answer.draft.order) = due /\ Len(answer.draft.order) = Cardinality(due)
           /\ \A f \in due : \E b \in DOMAIN answer.draft.batches :
                /\ f \in ToSet(answer.draft.batches[b].files) /\ answer.draft.batches[b].level >= file[f].level
                /\ file[f].shadow => answer.draft.batches[b].level = 3
           /\ ~ring(needy) => \A e \in needy : layer[e[1]] = layer[e[2]] => Before(e[2], e[1])
           /\ ~ring(question.draft.imports) =>
                \A e \in question.draft.imports :
                  {e[1], e[2]} \subseteq due /\ file[e[1]] = file[e[2]] => Before(e[2], e[1])
    BY Zenon
  <2>. DEFINE d == question.draft
              file == d.file
              due == {f \in DOMAIN file : file[f].category \notin {"A", "D_EXTRA", "E"} /\ ~file[f].decided}
              layer == [f \in due |-> IF file[f].category = "D_MISSING" THEN 0 ELSE file[f].layer]
              ring(arrows) == \E C \in SUBSET due : C # {} /\ \A f \in C : \E g \in C : <<f, g>> \in arrows
              needy == {e \in due \X due : file[e[2]].module \in d.needs[file[e[1]].module]}
              order == answer.draft.order
              batches == answer.draft.batches
  <2>1. d \in DraftCase /\ batches = Batches(d) /\ order = MergeOrder(Batches(d))
    <3>1. d \in DraftCase /\ answer.draft = DraftPlan(d)
      BY DEF CaseInv
    <3>. QED  BY <3>1 DEF DraftPlan
  <2>2. AnyPlan(d)
    <3>1. d.file \in [1 .. 3 -> DraftFile] /\ d.imports \in ImportGraphs
      BY <2>1 DEF DraftCase
    <3>2. d.file \in [1 .. 3 -> DraftRecord]
      BY <3>1, DraftAssumption
    <3>3. ASSUME NEW S, NEW n \in Nat, NEW s \in [1 .. n -> S] PROVE s \in Seq(S)
      OBVIOUS
    <3>4. d.imports \subseteq Nat \X Nat
      BY <3>1, DraftAssumption, Zenon
    <3>5. d.file \in Seq(DraftRecord)
      <4>. HIDE DEF d
      <4>1. 3 \in Nat
        OBVIOUS
      <4>. QED  BY <3>2, <3>3, <4>1, Zenon
    <3>. QED  BY <3>4, <3>5, Zenon DEF AnyPlan
  <2>3. due = Actionable(d)
    <3>1. ASSUME NEW f \in DOMAIN file
          PROVE  file[f].category \notin {"A", "D_EXTRA", "E"} <=> file[f].category \in {"B", "C", "D_MISSING"}
      <4>1. file[f] \in DraftRecord
        BY <2>2 DEF AnyPlan
      <4>2. file[f].category \in {"A", "B", "C", "D_MISSING", "D_EXTRA", "E"}
        <5>. DEFINE r == file[f]
        <5>. HIDE DEF r
        <5>. QED  BY <4>1 DEF DraftRecord, r
      <4>. QED  BY <4>2
    <3>. QED  BY <3>1 DEF Actionable
  <2>4. /\ ToSet(order) = due /\ Len(order) = Cardinality(due)
        /\ \A f \in due : \E b \in DOMAIN batches :
             /\ f \in ToSet(batches[b].files) /\ batches[b].level >= d.file[f].level
             /\ d.file[f].shadow => batches[b].level = 3
        /\ ~ModuleRing(d) => \A f, g \in due :
             d.file[g].module \in d.needs[d.file[f].module] /\ LayerOf(d.file[f]) = LayerOf(d.file[g]) =>
               Earlier(order, g, f)
        /\ ~FileRing(d) => \A f, g \in due :
             Imports(d, f, g) /\ d.file[f] = d.file[g] => Earlier(order, g, f)
    <3>. HIDE DEF d, due, order, batches
    <3>. QED  BY <2>1, <2>2, <2>3, PlanIs, Zenon
  <2>5. ASSUME ~ring(needy), NEW e \in needy, layer[e[1]] = layer[e[2]] PROVE Earlier(order, e[2], e[1])
    <3>1. e[1] \in due /\ e[2] \in due /\ file[e[2]].module \in d.needs[file[e[1]].module]
      <4>. HIDE DEF due, file
      <4>. QED  BY <2>5
    <3>2. LayerOf(file[e[1]]) = LayerOf(file[e[2]])
      <4>. HIDE DEF due
      <4>. QED  BY <2>5, <3>1 DEF LayerOf
    <3>3. \A f, g \in due : d.file[g].module \in d.needs[d.file[f].module] => <<f, g>> \in needy
      OBVIOUS
    <3>4. ~ModuleRing(d)
      <4>. HIDE DEF d, due, needy
      <4>. QED  BY <2>2, <2>3, <2>5, <3>3, RingOfModules, Zenon
    <3>5. \A f, g \in due :
             file[g].module \in d.needs[file[f].module] /\ LayerOf(file[f]) = LayerOf(file[g]) => Earlier(order, g, f)
      BY <2>4, <3>4
    <3>. HIDE DEF d, file, due, order
    <3>. QED  BY <3>1, <3>2, <3>5, Zenon
  <2>6. ASSUME ~ring(d.imports), NEW e \in d.imports, {e[1], e[2]} \subseteq due, file[e[1]] = file[e[2]]
        PROVE  Earlier(order, e[2], e[1])
    <3>1. e = <<e[1], e[2]>>
      BY <2>2 DEF AnyPlan
    <3>2. Imports(d, e[1], e[2]) /\ e[1] \in due /\ e[2] \in due
      BY <2>6, <3>1 DEF Imports
    <3>3. ~FileRing(d)
      <4>. HIDE DEF d, due
      <4>. QED  BY <2>3, <2>6, Zenon DEF FileRing, Imports
    <3>. HIDE DEF d, due, order
    <3>. QED  BY <2>4, <2>6, <3>2, <3>3, Zenon
  <2>7. /\ ~ring(needy) => \A e \in needy : layer[e[1]] = layer[e[2]] => Earlier(order, e[2], e[1])
        /\ ~ring(d.imports) =>
             \A e \in d.imports :
               {e[1], e[2]} \subseteq due /\ file[e[1]] = file[e[2]] => Earlier(order, e[2], e[1])
    <3>. HIDE DEF d, file, due, order, needy, ring, layer
    <3>. QED  BY <2>5, <2>6, Zenon
  <2>8. /\ ToSet(order) = due /\ Len(order) = Cardinality(due)
        /\ \A f \in due : \E b \in DOMAIN batches :
             /\ f \in ToSet(batches[b].files) /\ batches[b].level >= file[f].level
             /\ file[f].shadow => batches[b].level = 3
        /\ ~ring(needy) => \A e \in needy : layer[e[1]] = layer[e[2]] => Earlier(order, e[2], e[1])
        /\ ~ring(d.imports) =>
             \A e \in d.imports :
               {e[1], e[2]} \subseteq due /\ file[e[1]] = file[e[2]] => Earlier(order, e[2], e[1])
    <3>. HIDE DEF d, due, order, batches, needy, ring, layer
    <3>. QED  BY <2>4, <2>7, Zenon
  <2>. QED  BY <2>8, Zenon DEF Earlier
<1>2. CaseInv => PlanKeepsOrder
  BY <1>1, Zenon DEF PlanKeepsOrder
<1>. QED  BY <1>2, CasesHold, PTL
=============================================================================
