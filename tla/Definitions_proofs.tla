------------------------ MODULE Definitions_proofs -------------------------
(***************************************************************************)
(* Theorems about what a script defines, for every set of names, hash      *)
(* values and numbers of buckets, every command, and any depth of the      *)
(* stacks.                                                                 *)
(*                                                                         *)
(* The hash table comes first: what linking, unlinking, resizing and the   *)
(* iterator do to the items and to what is found under each key.  Upon     *)
(* that stand the variables, the translations, the system variables and    *)
(* the functions, each as a value under every key, and the loops of UNSET, *)
(* PUSH and POP.  Then the invariant (DefInv), what follows from it, and   *)
(* that every step is one of the maps of DefinitionMaps.                   *)
(***************************************************************************)
EXTENDS Definitions, NatLemmas, SequenceTheorems, TLAPS

-----------------------------------------------------------------------------
(* Chains and buckets. *)

EntryOf(D) == [key : DOMAIN HashVal, hashval : Nat, data : D]
BucketsOf(n, D) == [1 .. n -> Seq(EntryOf(D))]

\* Every item has its key's hash value.
Hashed(e) == e.hashval = HashVal[e.key]

\* Of n buckets, every item is in the one of its hash value, and no two items have the same key.
Placed(buckets, n) ==
    \A j \in 1 .. n : \A i, k \in 1 .. Len(buckets[j]) :
        /\ Hashed(buckets[j][i]) /\ Bucket(buckets[j][i].hashval, n) = j
        /\ buckets[j][i].key = buckets[j][k].key => i = k

(* A hash value has one of the buckets.                                    *)
LEMMA BucketInRange ==
    ASSUME NEW n \in Nat \ {0}, NEW h \in Nat
    PROVE  Bucket(h, n) \in 1 .. n
<1>1. h % n \in 0 .. n - 1
  OBVIOUS
<1> QED
  BY <1>1 DEF Bucket

(* The items of a chain.                                                   *)
LEMMA ChainItems ==
    ASSUME NEW D, NEW chain \in Seq(EntryOf(D))
    PROVE  /\ DOMAIN chain = 1 .. Len(chain) /\ Len(chain) \in Nat
           /\ ToSet(chain) \subseteq EntryOf(D)
           /\ \A e : e \in ToSet(chain) <=> \E i \in 1 .. Len(chain) : e = chain[i]
<1>1. DOMAIN chain = 1 .. Len(chain) /\ Len(chain) \in Nat /\ \A i \in 1 .. Len(chain) : chain[i] \in EntryOf(D)
  OBVIOUS
<1> QED
  BY <1>1, Zenon DEF ToSet

(* The items of some buckets.                                              *)
LEMMA BucketItems ==
    ASSUME NEW D, NEW n \in Nat, NEW B \in BucketsOf(n, D)
    PROVE  /\ \A j \in 1 .. n : B[j] \in Seq(EntryOf(D)) /\ ToSet(B[j]) \subseteq EntryOf(D)
           /\ ItemsIn(B) \subseteq EntryOf(D)
           /\ \A e : e \in ItemsIn(B) <=> \E j \in 1 .. n : \E i \in 1 .. Len(B[j]) : e = B[j][i]
<1>1. DOMAIN B = 1 .. n /\ \A j \in 1 .. n : B[j] \in Seq(EntryOf(D))
  BY Zenon DEF BucketsOf
<1>2. \A j \in 1 .. n : ToSet(B[j]) \subseteq EntryOf(D)
      /\ \A e : e \in ToSet(B[j]) <=> \E i \in 1 .. Len(B[j]) : e = B[j][i]
  BY <1>1, ChainItems, Zenon
<1>3. \A e : e \in ItemsIn(B) <=> \E j \in 1 .. n : e \in ToSet(B[j])
  BY <1>1, Zenon DEF ItemsIn
<1>4. ItemsIn(B) \subseteq EntryOf(D)
  BY <1>2, <1>3, Zenon
<1>5. ASSUME NEW e PROVE e \in ItemsIn(B) <=> \E j \in 1 .. n : \E i \in 1 .. Len(B[j]) : e = B[j][i]
  <2>1. \A j \in 1 .. n : e \in ToSet(B[j]) <=> \E i \in 1 .. Len(B[j]) : e = B[j][i]
    BY <1>2, Zenon
  <2>2. e \in ItemsIn(B) <=> \E j \in 1 .. n : e \in ToSet(B[j])
    BY <1>3, Zenon
  <2> HIDE DEF EntryOf
  <2> QED
    BY <2>1, <2>2, Zenon
<1> QED
  BY <1>1, <1>2, <1>4, <1>5

(* An item put before a chain.                                             *)
LEMMA PutsBefore ==
    ASSUME NEW S, NEW e \in S, NEW s \in Seq(S)
    PROVE  /\ <<e>> \o s \in Seq(S) /\ Len(<<e>> \o s) = Len(s) + 1
           /\ (<<e>> \o s)[1] = e
           /\ \A i \in 2 .. Len(s) + 1 : (<<e>> \o s)[i] = s[i - 1] /\ i - 1 \in 1 .. Len(s)
<1>1. <<e>> \in Seq(S) /\ Len(<<e>>) = 1 /\ <<e>>[1] = e /\ Len(s) \in Nat
  OBVIOUS
<1>2. /\ <<e>> \o s \in Seq(S) /\ Len(<<e>> \o s) = 1 + Len(s)
      /\ \A i \in 1 .. 1 + Len(s) : (<<e>> \o s)[i] = IF i <= 1 THEN <<e>>[i] ELSE s[i - 1]
  BY <1>1, ConcatProperties
<1> DEFINE c == <<e>> \o s
<1> HIDE DEF c
<1> QED
  BY <1>1, <1>2 DEF c

(* An item is put at the head of a chain.                                  *)
LEMMA AtHeadTypes ==
    ASSUME NEW D, NEW n \in Nat \ {0}, NEW B \in BucketsOf(n, D), NEW e \in EntryOf(D)
    PROVE  AtHead(B, n, e) \in BucketsOf(n, D)
<1> DEFINE b == Bucket(e.hashval, n)
           c == <<e>> \o B[b]
<1>1. b \in 1 .. n
  <2>1. e.hashval \in Nat
    BY DEF EntryOf
  <2> QED
    BY <2>1, BucketInRange
<1>2. B[b] \in Seq(EntryOf(D))
  BY <1>1, Zenon DEF BucketsOf
<1>3. c \in Seq(EntryOf(D))
  BY <1>2, PutsBefore
<1>4. AtHead(B, n, e) = [B EXCEPT ![b] = c]
  BY Zenon DEF AtHead
<1> HIDE DEF b, c
<1> QED
  BY <1>1, <1>3, <1>4 DEF BucketsOf

(* A new item is put in the place of its hash value.                       *)
LEMMA PutsAtHead ==
    ASSUME NEW D, NEW n \in Nat \ {0}, NEW B \in BucketsOf(n, D), Placed(B, n),
           NEW e \in EntryOf(D), Hashed(e), \A f \in ItemsIn(B) : f.key # e.key
    PROVE  /\ AtHead(B, n, e) \in BucketsOf(n, D)
           /\ Placed(AtHead(B, n, e), n)
           /\ ItemsIn(AtHead(B, n, e)) = ItemsIn(B) \cup {e}
<1> DEFINE b == Bucket(e.hashval, n)
           s == B[b]
           c == <<e>> \o s
           C == AtHead(B, n, e)
<1>1. b \in 1 .. n
  <2>1. e.hashval \in Nat
    BY DEF EntryOf
  <2> QED
    BY <2>1, BucketInRange
<1>2. s \in Seq(EntryOf(D))
  BY <1>1, Zenon DEF BucketsOf
<1>3. /\ c \in Seq(EntryOf(D)) /\ Len(c) = Len(s) + 1 /\ c[1] = e /\ Len(s) \in Nat
      /\ \A i \in 2 .. Len(c) : c[i] = s[i - 1] /\ i - 1 \in 1 .. Len(s)
  <2>1. Len(s) \in Nat
    BY <1>2
  <2> HIDE DEF s
  <2> QED
    BY <1>2, <2>1, PutsBefore
<1>4. C = [B EXCEPT ![b] = c]
  BY Zenon DEF AtHead
<1> HIDE DEF b, c, C
<1>5. C \in BucketsOf(n, D) /\ C[b] = c /\ \A j \in 1 .. n : j # b => C[j] = B[j]
  BY <1>1, <1>3, <1>4 DEF BucketsOf
<1>6. \A f : f \in ItemsIn(B) <=> \E j \in 1 .. n : \E i \in 1 .. Len(B[j]) : f = B[j][i]
  <2>1. n \in Nat
    OBVIOUS
  <2> QED
    BY <2>1, BucketItems, Zenon
<1>7. \A f : f \in ItemsIn(C) <=> \E j \in 1 .. n : \E i \in 1 .. Len(C[j]) : f = C[j][i]
  <2>1. n \in Nat
    OBVIOUS
  <2> QED
    BY <1>5, <2>1, BucketItems
<1>8. \A f : (\E i \in 1 .. Len(c) : f = c[i]) <=> f = e \/ \E i \in 1 .. Len(s) : f = s[i]
  <2> HIDE DEF s
  <2>1. 1 \in 1 .. Len(c)
    BY <1>3
  <2>2. \A i \in 1 .. Len(c) : i = 1 \/ i \in 2 .. Len(c)
    BY <1>3
  <2>3. \A i \in 1 .. Len(s) : i + 1 \in 2 .. Len(c) /\ i + 1 \in 1 .. Len(c) /\ (i + 1) - 1 = i
    BY <1>3
  <2>4. \A i \in 1 .. Len(s) : c[i + 1] = s[i]
    BY <1>3, <2>3
  <2> QED
    <3> TAKE f
    <3>1. (\E i \in 1 .. Len(c) : f = c[i]) => f = e \/ \E i \in 1 .. Len(s) : f = s[i]
      BY <1>3, <2>2, Zenon
    <3>2. f = e => \E i \in 1 .. Len(c) : f = c[i]
      BY <1>3, <2>1, Zenon
    <3>3. (\E i \in 1 .. Len(s) : f = s[i]) => \E i \in 1 .. Len(c) : f = c[i]
      BY <2>3, <2>4, Zenon
    <3> QED
      BY <3>1, <3>2, <3>3
<1>9. ItemsIn(C) = ItemsIn(B) \cup {e}
  <2>1. ASSUME NEW f PROVE f \in ItemsIn(C) <=> f \in ItemsIn(B) \/ f = e
    <3>1. (\E i \in 1 .. Len(C[b]) : f = C[b][i]) <=> f = e \/ \E i \in 1 .. Len(B[b]) : f = B[b][i]
      BY <1>5, <1>8, Zenon DEF s
    <3>2. \A j \in 1 .. n : j # b =>
            ((\E i \in 1 .. Len(C[j]) : f = C[j][i]) <=> \E i \in 1 .. Len(B[j]) : f = B[j][i])
      BY <1>5, Zenon
    <3>3. /\ f \in ItemsIn(B) <=> \E j \in 1 .. n : \E i \in 1 .. Len(B[j]) : f = B[j][i]
          /\ f \in ItemsIn(C) <=> \E j \in 1 .. n : \E i \in 1 .. Len(C[j]) : f = C[j][i]
      BY <1>6, <1>7, Zenon
    <3> QED
      BY <1>1, <3>1, <3>2, <3>3, Zenon
  <2> QED
    BY <2>1, Zenon
<1>10. Placed(C, n)
  <2> SUFFICES ASSUME NEW j \in 1 .. n, NEW i \in 1 .. Len(C[j]), NEW k \in 1 .. Len(C[j])
               PROVE  /\ Hashed(C[j][i]) /\ Bucket(C[j][i].hashval, n) = j
                      /\ C[j][i].key = C[j][k].key => i = k
    BY Zenon DEF Placed
  <2>1. CASE j # b
    <3>1. C[j] = B[j]
      BY <1>5, <2>1, Zenon
    <3>2. i \in 1 .. Len(B[j]) /\ k \in 1 .. Len(B[j])
      BY <3>1
    <3>3. /\ Hashed(B[j][i]) /\ Bucket(B[j][i].hashval, n) = j
          /\ B[j][i].key = B[j][k].key => i = k
      BY <3>2, Zenon DEF Placed
    <3> QED
      BY <3>1, <3>3, Zenon
  <2>2. CASE j = b
    <3>1. i \in 1 .. Len(c) /\ k \in 1 .. Len(c) /\ C[j][i] = c[i] /\ C[j][k] = c[k]
      BY <1>5, <2>2
    <3>2. \A x, y \in 1 .. Len(s) : Hashed(s[x]) /\ Bucket(s[x].hashval, n) = b /\ (s[x].key = s[y].key => x = y)
      BY <1>1, Zenon DEF Placed, s
    <3>3. \A x \in 1 .. Len(s) : s[x].key # e.key
      BY <1>1, <1>6, Zenon DEF s
    <3> HIDE DEF s
    <3>4. i = 1 \/ (i \in 2 .. Len(c) /\ i - 1 \in 1 .. Len(s) /\ c[i] = s[i - 1])
      BY <1>3, <3>1
    <3>5. k = 1 \/ (k \in 2 .. Len(c) /\ k - 1 \in 1 .. Len(s) /\ c[k] = s[k - 1])
      BY <1>3, <3>1
    <3>6. Hashed(c[i]) /\ Bucket(c[i].hashval, n) = j
      BY <1>3, <2>2, <3>2, <3>4, Zenon DEF b
    <3>7. c[i].key = c[k].key => i = k
      <4>1. CASE i = 1 /\ k # 1
        BY <1>3, <3>3, <3>5, <4>1, Zenon
      <4>2. CASE i # 1 /\ k = 1
        BY <1>3, <3>3, <3>4, <4>2, Zenon
      <4>3. CASE i # 1 /\ k # 1
        <5>1. c[i].key = c[k].key => i - 1 = k - 1
          BY <3>2, <3>4, <3>5, <4>3, Zenon
        <5> QED
          BY <5>1
      <4> QED
        BY <4>1, <4>2, <4>3, Zenon
    <3> QED
      BY <3>1, <3>6, <3>7, Zenon
  <2> QED
    BY <2>1, <2>2
<1> QED
  BY <1>5, <1>9, <1>10 DEF C

(* Moving a chain moves its items one by one.                              *)
LEMMA MoveChainSteps ==
    ASSUME NEW D, NEW n \in Nat \ {0}, NEW B \in BucketsOf(n, D), NEW chain \in Seq(EntryOf(D))
    PROVE  \E f : /\ f \in [0 .. Len(chain) -> BucketsOf(n, D)] /\ f[0] = B
                  /\ \A i \in 1 .. Len(chain) : f[i] = AtHead(f[i - 1], n, chain[i])
                  /\ MoveChain(B, n, chain) = f[Len(chain)]
<1> DEFINE N == Len(chain)
           S == BucketsOf(n, D)
           a == B
           Round(i, x) == AtHead(x, n, chain[i])
           step == [p \in (1 .. N) \X S |-> Round(p[1], p[2])]
           g == CHOOSE f : f = [i \in 0 .. N |-> IF i = 0 THEN a ELSE Round(i, f[i - 1])]
<1>1. N \in Nat
  OBVIOUS
<1>2. a \in S
  OBVIOUS
<1>3. \A i \in 1 .. N, x \in S : Round(i, x) \in S
  BY AtHeadTypes
<1>4. MoveChain(B, n, chain) = g[N]
  BY Zenon DEF MoveChain
<1> HIDE DEF N, S, a, Round
<1>5. step \in [(1 .. N) \X S -> S]
  BY <1>3
<1>6. \A i \in 1 .. N, x \in S : step[<<i, x>>] = Round(i, x)
  OBVIOUS
<1> HIDE DEF step
<1>7. PICK f : Computes(f, N, S, a, step)
  BY <1>1, <1>2, <1>5, LoopComputes, Zenon
<1>8. f \in [0 .. N -> S] /\ f[0] = a /\ \A i \in 1 .. N : f[i] = step[<<i, f[i - 1]>>]
  BY <1>7, Zenon DEF Computes
<1>9. /\ 0 \in 0 .. N /\ N \in 0 .. N
      /\ \A i \in 1 .. N : i \in 0 .. N /\ i - 1 \in 0 .. N /\ i # 0
      /\ \A i \in 0 .. N : i = 0 \/ i \in 1 .. N
  BY <1>1
<1>10. \A i \in 1 .. N : f[i] = Round(i, f[i - 1])
  BY <1>6, <1>8, <1>9, Zenon
<1>11. f = [i \in 0 .. N |-> IF i = 0 THEN a ELSE Round(i, f[i - 1])]
  BY <1>8, <1>9, <1>10
<1>12. g = [i \in 0 .. N |-> IF i = 0 THEN a ELSE Round(i, g[i - 1])]
  BY <1>11, Zenon
<1> HIDE DEF g
<1>13. g[0] = a /\ \A i \in 1 .. N : g[i] = Round(i, g[i - 1])
  BY <1>9, <1>12, Zenon
<1>14. \A i \in 0 .. N : g[i] = f[i]
  <2> DEFINE Same == {i \in 0 .. N : g[i] = f[i]}
  <2>1. 0 \in Same
    BY <1>8, <1>9, <1>13
  <2>2. \A i \in 1 .. N : i - 1 \in Same => i \in Same
    BY <1>9, <1>10, <1>13, Zenon
  <2> HIDE DEF Same
  <2>3. 0 .. N \subseteq Same
    BY <1>1, <2>1, <2>2, UpTo, Zenon
  <2> QED
    BY <2>3 DEF Same
<1>15. MoveChain(B, n, chain) = f[N]
  BY <1>4, <1>9, <1>14, Zenon
<1> QED
  BY <1>8, <1>10, <1>15, Zenon DEF N, S, a, Round

(* A moved chain leaves buckets.                                           *)
LEMMA MoveChainTypes ==
    ASSUME NEW D, NEW n \in Nat \ {0}, NEW B \in BucketsOf(n, D), NEW chain \in Seq(EntryOf(D))
    PROVE  MoveChain(B, n, chain) \in BucketsOf(n, D)
<1>1. PICK f : /\ f \in [0 .. Len(chain) -> BucketsOf(n, D)] /\ f[0] = B
               /\ \A i \in 1 .. Len(chain) : f[i] = AtHead(f[i - 1], n, chain[i])
               /\ MoveChain(B, n, chain) = f[Len(chain)]
  BY MoveChainSteps
<1>2. Len(chain) \in 0 .. Len(chain)
  OBVIOUS
<1> QED
  BY <1>1, <1>2, Zenon

(* A chain's items are moved to their places, and nothing else is.         *)
LEMMA MovesChain ==
    ASSUME NEW D, NEW n \in Nat \ {0}, NEW B \in BucketsOf(n, D), Placed(B, n),
           NEW chain \in Seq(EntryOf(D)),
           \A i, k \in 1 .. Len(chain) : Hashed(chain[i]) /\ (chain[i].key = chain[k].key => i = k),
           \A i \in 1 .. Len(chain) : \A e \in ItemsIn(B) : e.key # chain[i].key
    PROVE  /\ MoveChain(B, n, chain) \in BucketsOf(n, D)
           /\ Placed(MoveChain(B, n, chain), n)
           /\ ItemsIn(MoveChain(B, n, chain)) = ItemsIn(B) \cup ToSet(chain)
<1> DEFINE N == Len(chain)
           Moved(i) == {chain[k] : k \in 1 .. i}
<1>1. N \in Nat /\ \A i \in 1 .. N : chain[i] \in EntryOf(D)
  OBVIOUS
<1>2. PICK f : /\ f \in [0 .. N -> BucketsOf(n, D)] /\ f[0] = B
               /\ \A i \in 1 .. N : f[i] = AtHead(f[i - 1], n, chain[i])
               /\ MoveChain(B, n, chain) = f[N]
  BY MoveChainSteps
<1>3. ToSet(chain) = Moved(N)
  BY ChainItems, Zenon DEF ToSet
<1> HIDE DEF N
<1>4. Moved(0) = {} /\ \A i \in 1 .. N : Moved(i) = Moved(i - 1) \cup {chain[i]}
  <2>1. Moved(0) = {}
    OBVIOUS
  <2>2. \A i \in 1 .. N : 1 .. i = (1 .. i - 1) \cup {i}
    BY <1>1
  <2> QED
    BY <2>1, <2>2
<1> DEFINE Good == {i \in 0 .. N : Placed(f[i], n) /\ ItemsIn(f[i]) = ItemsIn(B) \cup Moved(i)}
<1>5. 0 \in 0 .. N /\ N \in 0 .. N /\ \A i \in 1 .. N : i \in 0 .. N /\ i - 1 \in 0 .. N
  BY <1>1
<1>6. 0 \in Good
  BY <1>2, <1>4, <1>5, Zenon
<1>7. ASSUME NEW i \in 1 .. N, i - 1 \in Good PROVE i \in Good
  <2>1. /\ f[i - 1] \in BucketsOf(n, D) /\ Placed(f[i - 1], n)
        /\ ItemsIn(f[i - 1]) = ItemsIn(B) \cup Moved(i - 1)
    BY <1>2, <1>5, <1>7, Zenon
  <2>2. chain[i] \in EntryOf(D) /\ Hashed(chain[i]) /\ f[i] = AtHead(f[i - 1], n, chain[i])
    BY <1>1, <1>2, Zenon DEF N
  <2>3. \A e \in ItemsIn(f[i - 1]) : e.key # chain[i].key
    <3>1. \A k \in 1 .. i - 1 : k \in 1 .. N /\ k # i
      BY <1>1
    <3>2. \A k \in 1 .. i - 1 : chain[k].key # chain[i].key
      BY <3>1, Zenon DEF N
    <3>3. \A e \in ItemsIn(B) : e.key # chain[i].key
      BY Zenon DEF N
    <3>4. \A e \in Moved(i - 1) : e.key # chain[i].key
      BY <3>2, Zenon
    <3> HIDE DEF Moved
    <3> QED
      BY <2>1, <3>3, <3>4, Zenon
  <2> HIDE DEF Moved
  <2>4. Placed(f[i], n) /\ ItemsIn(f[i]) = ItemsIn(f[i - 1]) \cup {chain[i]}
    BY <2>1, <2>2, <2>3, PutsAtHead
  <2>5. ItemsIn(f[i]) = ItemsIn(B) \cup Moved(i)
    BY <1>4, <2>1, <2>4
  <2> QED
    BY <1>5, <2>4, <2>5, Zenon
<1>8. 0 .. N \subseteq Good
  <2> HIDE DEF Good
  <2> QED
    BY <1>1, <1>6, <1>7, UpTo
<1>9. Placed(f[N], n) /\ ItemsIn(f[N]) = ItemsIn(B) \cup Moved(N) /\ f[N] \in BucketsOf(n, D)
  BY <1>2, <1>5, <1>8, Zenon
<1> HIDE DEF Moved
<1> QED
  BY <1>2, <1>3, <1>9, Zenon DEF N

-----------------------------------------------------------------------------
(* Tables. *)

Sizes == 1 .. Len(bucket_choices)

\* A table of items that hold data of D: every item in its place, no key twice, and counted.
ShapesOf(D) ==
    {t \in [choice : Sizes, num_entries : Nat, buckets : UNION {BucketsOf(bucket_choices[c], D) : c \in Sizes}] :
        /\ t.buckets \in BucketsOf(NumBuckets(t), D) /\ Placed(t.buckets, NumBuckets(t))
        /\ IsFiniteSet(Items(t)) /\ t.num_entries = Cardinality(Items(t))}

(* What the shape of a table is.                                           *)
LEMMA Shape ==
    ASSUME NEW D, NEW t \in ShapesOf(D)
    PROVE  /\ t.choice \in Sizes /\ NumBuckets(t) \in Nat \ {0} /\ t.num_entries \in Nat
           /\ t.buckets \in BucketsOf(NumBuckets(t), D) /\ Placed(t.buckets, NumBuckets(t))
           /\ DOMAIN t.buckets = 1 .. NumBuckets(t)
           /\ IsFiniteSet(Items(t)) /\ t.num_entries = Cardinality(Items(t))
<1>1. t.choice \in Sizes /\ t.num_entries \in Nat
  BY DEF ShapesOf
<1>2. \A c \in Sizes : bucket_choices[c] \in Nat \ {0}
  BY HashAssumption, SMTT(30) DEF Sizes
<1>3. NumBuckets(t) \in Nat \ {0}
  BY <1>1, <1>2, Zenon DEF NumBuckets
<1>4. /\ t.buckets \in BucketsOf(NumBuckets(t), D) /\ Placed(t.buckets, NumBuckets(t))
      /\ IsFiniteSet(Items(t)) /\ t.num_entries = Cardinality(Items(t))
  BY Zenon DEF ShapesOf
<1>5. DOMAIN t.buckets = 1 .. NumBuckets(t)
  BY <1>4, Zenon DEF BucketsOf
<1> QED
  BY <1>1, <1>3, <1>4, <1>5, Zenon

(* The items of a table: each is found in the chain of its key.            *)
LEMMA TableItems ==
    ASSUME NEW D, NEW t \in ShapesOf(D)
    PROVE  /\ Items(t) \subseteq EntryOf(D)
           /\ \A e : e \in Items(t) <=> \E j \in 1 .. NumBuckets(t) : \E i \in 1 .. Len(t.buckets[j]) : e = t.buckets[j][i]
           /\ \A j \in 1 .. NumBuckets(t) : t.buckets[j] \in Seq(EntryOf(D))
           /\ \A e, x \in Items(t) : e.key = x.key => e = x
           /\ \A e \in Items(t) : Hashed(e) /\ \E i \in 1 .. Len(t.buckets[BucketOf(t, HashVal[e.key])]) :
                                                 e = t.buckets[BucketOf(t, HashVal[e.key])][i]
<1> DEFINE n == NumBuckets(t)
           B == t.buckets
<1>1. n \in Nat /\ B \in BucketsOf(n, D) /\ Placed(B, n)
  BY Shape
<1> HIDE DEF n, B
<1>2. /\ ItemsIn(B) \subseteq EntryOf(D)
      /\ \A e : e \in ItemsIn(B) <=> \E j \in 1 .. n : \E i \in 1 .. Len(B[j]) : e = B[j][i]
      /\ \A j \in 1 .. n : B[j] \in Seq(EntryOf(D))
  BY <1>1, BucketItems
<1>3. ASSUME NEW e \in ItemsIn(B)
      PROVE  Hashed(e) /\ Bucket(HashVal[e.key], n) \in 1 .. n
             /\ \E i \in 1 .. Len(B[Bucket(HashVal[e.key], n)]) : e = B[Bucket(HashVal[e.key], n)][i]
  <2>1. PICK j \in 1 .. n : \E i \in 1 .. Len(B[j]) : e = B[j][i]
    BY <1>2, Zenon
  <2>2. PICK i \in 1 .. Len(B[j]) : e = B[j][i]
    BY <2>1
  <2>3. Hashed(e) /\ Bucket(e.hashval, n) = j
    BY <1>1, <2>2, Zenon DEF Placed
  <2> QED
    BY <2>2, <2>3, Zenon DEF Hashed
<1>4. ASSUME NEW e \in ItemsIn(B), NEW x \in ItemsIn(B), e.key = x.key PROVE e = x
  <2> DEFINE j == Bucket(HashVal[e.key], n)
  <2>1. j \in 1 .. n
    BY <1>3, Zenon
  <2>2. PICK i \in 1 .. Len(B[j]) : e = B[j][i]
    BY <1>3, Zenon
  <2>3. PICK k \in 1 .. Len(B[j]) : x = B[j][k]
    BY <1>3, <1>4, Zenon
  <2> HIDE DEF j
  <2>4. i = k
    BY <1>1, <1>4, <2>1, <2>2, <2>3, Zenon DEF Placed
  <2> QED
    BY <2>2, <2>3, <2>4
<1> QED
  BY <1>2, <1>3, <1>4, Zenon DEF n, B, Items, BucketOf
(* Moving the chains of a table moves them one by one.                     *)
LEMMA MoveChainsSteps ==
    ASSUME NEW D, NEW t \in ShapesOf(D), NEW n \in Nat \ {0}
    PROVE  \E f : /\ f \in [0 .. NumBuckets(t) -> BucketsOf(n, D)] /\ f[0] = Empty(n)
                  /\ \A i \in 1 .. NumBuckets(t) : f[i] = MoveChain(f[i - 1], n, t.buckets[i])
                  /\ MoveChains(t, n, NumBuckets(t)) = f[NumBuckets(t)]
<1> DEFINE N == NumBuckets(t)
           S == BucketsOf(n, D)
           a == Empty(n)
           Round(i, x) == MoveChain(x, n, t.buckets[i])
           step == [p \in (1 .. N) \X S |-> Round(p[1], p[2])]
           g == CHOOSE f : f = [i \in 0 .. N |-> IF i = 0 THEN a ELSE Round(i, f[i - 1])]
<1>1. N \in Nat
  BY Shape
<1>2. a \in S
  <2>1. << >> \in Seq(EntryOf(D))
    OBVIOUS
  <2> QED
    BY <2>1, Zenon DEF Empty, BucketsOf
<1>3. \A i \in 1 .. N, x \in S : Round(i, x) \in S
  <2> SUFFICES ASSUME NEW i \in 1 .. N, NEW x \in S PROVE MoveChain(x, n, t.buckets[i]) \in S
    BY Zenon
  <2>1. x \in BucketsOf(n, D)
    BY DEF BucketsOf
  <2>2. i \in 1 .. NumBuckets(t)
    BY Shape
  <2> DEFINE c == t.buckets[i]
  <2>3. c \in Seq(EntryOf(D))
    BY <2>2, TableItems, Zenon
  <2> HIDE DEF c
  <2>4. MoveChain(x, n, c) \in BucketsOf(n, D)
    BY <2>1, <2>3, MoveChainTypes
  <2> QED
    BY <2>4, Zenon DEF BucketsOf, c
<1>4. MoveChains(t, n, NumBuckets(t)) = g[N]
  BY Zenon DEF MoveChains
<1> HIDE DEF N, S, a, Round
<1>5. step \in [(1 .. N) \X S -> S]
  BY <1>3
<1>6. \A i \in 1 .. N, x \in S : step[<<i, x>>] = Round(i, x)
  OBVIOUS
<1> HIDE DEF step
<1>7. PICK f : Computes(f, N, S, a, step)
  BY <1>1, <1>2, <1>5, LoopComputes, Zenon
<1>8. f \in [0 .. N -> S] /\ f[0] = a /\ \A i \in 1 .. N : f[i] = step[<<i, f[i - 1]>>]
  BY <1>7, Zenon DEF Computes
<1>9. /\ 0 \in 0 .. N /\ N \in 0 .. N
      /\ \A i \in 1 .. N : i \in 0 .. N /\ i - 1 \in 0 .. N /\ i # 0
      /\ \A i \in 0 .. N : i = 0 \/ i \in 1 .. N
  BY <1>1
<1>10. \A i \in 1 .. N : f[i] = Round(i, f[i - 1])
  BY <1>6, <1>8, <1>9, Zenon
<1>11. f = [i \in 0 .. N |-> IF i = 0 THEN a ELSE Round(i, f[i - 1])]
  BY <1>8, <1>9, <1>10
<1>12. g = [i \in 0 .. N |-> IF i = 0 THEN a ELSE Round(i, g[i - 1])]
  BY <1>11, Zenon
<1> HIDE DEF g
<1>13. g[0] = a /\ \A i \in 1 .. N : g[i] = Round(i, g[i - 1])
  BY <1>9, <1>12, Zenon
<1>14. \A i \in 0 .. N : g[i] = f[i]
  <2> DEFINE Same == {i \in 0 .. N : g[i] = f[i]}
  <2>1. 0 \in Same
    BY <1>8, <1>9, <1>13
  <2>2. \A i \in 1 .. N : i - 1 \in Same => i \in Same
    BY <1>9, <1>10, <1>13, Zenon
  <2> HIDE DEF Same
  <2>3. 0 .. N \subseteq Same
    BY <1>1, <2>1, <2>2, UpTo, Zenon
  <2> QED
    BY <2>3 DEF Same
<1>15. MoveChains(t, n, NumBuckets(t)) = f[N]
  BY <1>4, <1>9, <1>14, Zenon
<1> QED
  BY <1>8, <1>10, <1>15, Zenon DEF N, S, a, Round

(* Nothing is in empty buckets.                                            *)
LEMMA NothingInEmpty ==
    ASSUME NEW D, NEW n \in Nat \ {0}
    PROVE  Empty(n) \in BucketsOf(n, D) /\ Placed(Empty(n), n) /\ ItemsIn(Empty(n)) = {}
<1>1. << >> \in Seq(EntryOf(D)) /\ Len(<< >>) = 0 /\ 1 .. 0 = {}
  OBVIOUS
<1>2. DOMAIN Empty(n) = 1 .. n /\ \A j \in 1 .. n : Empty(n)[j] = << >>
  BY Zenon DEF Empty
<1>3. Empty(n) \in BucketsOf(n, D)
  BY <1>1, Zenon DEF Empty, BucketsOf
<1>4. Placed(Empty(n), n)
  BY <1>1, <1>2, Zenon DEF Placed
<1>5. ItemsIn(Empty(n)) = {}
  <2>1. n \in Nat
    OBVIOUS
  <2>2. \A e : e \in ItemsIn(Empty(n)) <=> \E j \in 1 .. n : \E i \in 1 .. Len(Empty(n)[j]) : e = Empty(n)[j][i]
    BY <1>3, <2>1, BucketItems
  <2>3. ASSUME NEW e \in ItemsIn(Empty(n)) PROVE FALSE
    <3>1. PICK j \in 1 .. n : \E i \in 1 .. Len(Empty(n)[j]) : e = Empty(n)[j][i]
      BY <2>2, <2>3, Zenon
    <3> QED
      BY <1>1, <1>2, <3>1, Zenon
  <2> QED
    BY <2>3, Zenon
<1> QED
  BY <1>3, <1>4, <1>5, Zenon

(* Moving all chains moves all items, each to its place.                   *)
LEMMA MovesAll ==
    ASSUME NEW D, NEW t \in ShapesOf(D), NEW n \in Nat \ {0}
    PROVE  LET moved == MoveChains(t, n, NumBuckets(t))
           IN  moved \in BucketsOf(n, D) /\ Placed(moved, n) /\ ItemsIn(moved) = Items(t)
<1> DEFINE N == NumBuckets(t)
           B == t.buckets
           Moved(j) == UNION {ToSet(B[k]) : k \in 1 .. j}
           moved == MoveChains(t, n, N)
<1>1. N \in Nat \ {0} /\ N \in 0 .. N /\ B \in BucketsOf(N, D) /\ Placed(B, N) /\ DOMAIN B = 1 .. N
  <2>1. N \in Nat \ {0} /\ B \in BucketsOf(N, D) /\ Placed(B, N) /\ DOMAIN B = 1 .. N
    BY Shape, Zenon
  <2> QED
    BY <2>1
<1>2. PICK f : /\ f \in [0 .. N -> BucketsOf(n, D)] /\ f[0] = Empty(n)
               /\ \A j \in 1 .. N : f[j] = MoveChain(f[j - 1], n, B[j])
               /\ moved = f[N]
  <2>1. \E f : /\ f \in [0 .. N -> BucketsOf(n, D)] /\ f[0] = Empty(n)
               /\ \A i \in 1 .. N : f[i] = MoveChain(f[i - 1], n, t.buckets[i])
               /\ MoveChains(t, n, N) = f[N]
    BY MoveChainsSteps, Zenon
  <2> QED
    BY <2>1, Zenon
<1>3. /\ \A j \in 1 .. N : B[j] \in Seq(EntryOf(D))
      /\ \A e : e \in Items(t) <=> \E j \in 1 .. N : \E i \in 1 .. Len(B[j]) : e = B[j][i]
      /\ \A e, x \in Items(t) : e.key = x.key => e = x
  BY TableItems, Zenon
<1> HIDE DEF N, B, moved
<1>4. \A j \in 1 .. N : \A e : e \in ToSet(B[j]) <=> \E i \in 1 .. Len(B[j]) : e = B[j][i]
  BY <1>3, ChainItems, Zenon
<1>5. Moved(N) = Items(t)
  BY <1>1, Zenon DEF Items, ItemsIn, B
<1>6. Moved(0) = {} /\ \A j \in 1 .. N : Moved(j) = Moved(j - 1) \cup ToSet(B[j])
  <2>1. 1 .. 0 = {}
    OBVIOUS
  <2>2. \A j \in 1 .. N : 1 .. j = (1 .. j - 1) \cup {j}
    BY <1>1
  <2>3. Moved(0) = {}
    BY <2>1, Zenon
  <2>4. ASSUME NEW j \in 1 .. N PROVE Moved(j) = Moved(j - 1) \cup ToSet(B[j])
    <3>1. 1 .. j = (1 .. j - 1) \cup {j}
      BY <2>2
    <3> QED
      BY <3>1, Zenon
  <2> QED
    BY <2>3, <2>4
<1> DEFINE Good == {j \in 0 .. N : Placed(f[j], n) /\ ItemsIn(f[j]) = Moved(j)}
<1>7. 0 \in 0 .. N /\ \A j \in 1 .. N : j \in 0 .. N /\ j - 1 \in 0 .. N
  BY <1>1
<1>8. 0 \in Good
  BY <1>2, <1>6, <1>7, NothingInEmpty, ZenonT(30)
<1>9. ASSUME NEW j \in 1 .. N, j - 1 \in Good PROVE j \in Good
  <2> DEFINE c == B[j]
  <2>1. /\ f[j - 1] \in BucketsOf(n, D) /\ Placed(f[j - 1], n) /\ ItemsIn(f[j - 1]) = Moved(j - 1)
    BY <1>2, <1>7, <1>9, Zenon DEF BucketsOf
  <2>2. c \in Seq(EntryOf(D)) /\ f[j] = MoveChain(f[j - 1], n, c)
    BY <1>2, <1>3, Zenon
  <2>3. \A i, k \in 1 .. Len(c) : Hashed(c[i]) /\ Bucket(c[i].hashval, N) = j /\ (c[i].key = c[k].key => i = k)
    BY <1>1, Zenon DEF Placed
  <2>4. ASSUME NEW i \in 1 .. Len(c), NEW e \in Moved(j - 1) PROVE e.key # c[i].key
    <3>1. PICK k \in 1 .. j - 1 : e \in ToSet(B[k])
      BY <2>4, Zenon
    <3>2. k \in 1 .. N /\ k # j
      BY <1>1
    <3>3. PICK h \in 1 .. Len(B[k]) : e = B[k][h]
      BY <1>4, <3>1, <3>2, Zenon
    <3>4. Hashed(e) /\ Bucket(e.hashval, N) = k
      BY <1>1, <3>2, <3>3, Zenon DEF Placed
    <3> QED
      BY <2>3, <3>2, <3>4, ZenonT(30) DEF Hashed
  <2>5. \A i \in 1 .. Len(c) : \A e \in ItemsIn(f[j - 1]) : e.key # c[i].key
    BY <2>1, <2>4, Zenon
  <2> HIDE DEF Moved
  <2>6. \A i, k \in 1 .. Len(c) : Hashed(c[i]) /\ (c[i].key = c[k].key => i = k)
    BY <2>3, Zenon
  <2>7. Placed(f[j], n) /\ ItemsIn(f[j]) = Moved(j - 1) \cup ToSet(c)
    <3> HIDE DEF c
    <3> QED
      BY <2>1, <2>2, <2>5, <2>6, MovesChain
  <2> QED
    BY <1>6, <1>7, <2>7, Zenon
<1>10. N \in Good
  <2>1. 0 .. N \subseteq Good
    <3>1. N \in Nat
      BY <1>1
    <3> HIDE DEF Good
    <3> QED
      BY <1>8, <1>9, <3>1, UpTo
  <2> QED
    BY <1>1, <2>1, Zenon
<1>11. moved \in BucketsOf(n, D) /\ Placed(moved, n) /\ ItemsIn(moved) = Items(t)
  BY <1>1, <1>2, <1>5, <1>10, Zenon DEF BucketsOf
<1> QED
  BY <1>11, Zenon DEF moved, N

(* Buckets and a count that make a table.                                  *)
LEMMA MakesTable ==
    ASSUME NEW D, NEW c \in Sizes, NEW B \in BucketsOf(bucket_choices[c], D), Placed(B, bucket_choices[c]),
           NEW m \in Nat, IsFiniteSet(ItemsIn(B)), m = Cardinality(ItemsIn(B))
    PROVE  [choice |-> c, num_entries |-> m, buckets |-> B] \in ShapesOf(D)
<1> DEFINE t == [choice |-> c, num_entries |-> m, buckets |-> B]
<1>1. t.choice = c /\ t.num_entries = m /\ t.buckets = B
  OBVIOUS
<1>2. t \in [choice : Sizes, num_entries : Nat, buckets : UNION {BucketsOf(bucket_choices[d], D) : d \in Sizes}]
  BY Zenon
<1> HIDE DEF t
<1> QED
  BY <1>1, <1>2, Zenon DEF ShapesOf, NumBuckets, Items, t

\* A table grows only when it must: no more than twice as many items as buckets.
Roomy(t) == t.num_entries <= 2 * NumBuckets(t) \/ t.choice = Len(bucket_choices)

TablesOf(D) == {t \in ShapesOf(D) : Roomy(t)}

(* An empty table.                                                         *)
LEMMA EmptyTable ==
    ASSUME NEW D
    PROVE  hash_table_init \in TablesOf(D) /\ Items(hash_table_init) = {}
<1> DEFINE t == hash_table_init
<1>1. 1 \in Sizes
  BY HashAssumption, SMTT(30) DEF Sizes
<1>2. bucket_choices[1] \in Nat \ {0}
  BY <1>1, HashAssumption, SMTT(30) DEF Sizes
<1>3. /\ Empty(bucket_choices[1]) \in BucketsOf(bucket_choices[1], D)
         /\ Placed(Empty(bucket_choices[1]), bucket_choices[1])
      /\ ItemsIn(Empty(bucket_choices[1])) = {}
  BY <1>2, NothingInEmpty
<1>4. IsFiniteSet({}) /\ Cardinality({}) = 0
  BY FS_EmptySet
<1>5. t \in ShapesOf(D)
  BY <1>1, <1>3, <1>4, MakesTable DEF hash_table_init
<1>6. t.choice = 1 /\ t.num_entries = 0 /\ t.buckets = Empty(bucket_choices[1])
  BY Zenon DEF hash_table_init
<1>7. Roomy(t)
  BY <1>2, <1>6 DEF Roomy, NumBuckets
<1> QED
  BY <1>3, <1>5, <1>6, <1>7, Zenon DEF TablesOf, Items

(* Changing the number of buckets leaves every item in the table.          *)
LEMMA Resizes ==
    ASSUME NEW D, NEW t \in ShapesOf(D), NEW dir \in Int
    PROVE  LET u == hash_table_resize(t, dir)
           IN  /\ u \in ShapesOf(D) /\ Items(u) = Items(t) /\ u.num_entries = t.num_entries
               /\ u.choice = IF t.choice + dir \in Sizes THEN t.choice + dir ELSE t.choice
<1> DEFINE u == hash_table_resize(t, dir)
           c == t.choice + dir
           B == MoveChains(t, bucket_choices[c], NumBuckets(t))
<1>1. DOMAIN bucket_choices = Sizes /\ \A d \in Sizes : bucket_choices[d] \in Nat \ {0}
  BY HashAssumption, SMTT(30) DEF Sizes
<1>2. t.choice \in Sizes /\ t.num_entries \in Nat /\ IsFiniteSet(Items(t)) /\ t.num_entries = Cardinality(Items(t))
  BY Shape, Zenon
<1>3. CASE c \notin Sizes
  <2>1. u = t
    BY <1>1, <1>3, Zenon DEF hash_table_resize
  <2> QED
    BY <1>2, <1>3, <2>1
<1>4. CASE c \in Sizes
  <2>1. B \in BucketsOf(bucket_choices[c], D) /\ Placed(B, bucket_choices[c]) /\ ItemsIn(B) = Items(t)
    <3>1. bucket_choices[c] \in Nat \ {0}
      BY <1>1, <1>4
    <3> HIDE DEF c
    <3> QED
      BY <3>1, MovesAll
  <2>2. t = [choice |-> t.choice, num_entries |-> t.num_entries, buckets |-> t.buckets]
    BY DEF ShapesOf
  <2>3. u = [t EXCEPT !.choice = c, !.buckets = B]
    BY <1>1, <1>4, Zenon DEF hash_table_resize
  <2>4. u = [choice |-> c, num_entries |-> t.num_entries, buckets |-> B]
    <3> HIDE DEF u, c, B
    <3> QED
      BY <2>2, <2>3
  <2> HIDE DEF u, c, B
  <2>5. u \in ShapesOf(D)
    BY <1>2, <1>4, <2>1, <2>4, MakesTable
  <2>6. Items(u) = Items(t) /\ u.num_entries = t.num_entries /\ u.choice = c
    BY <2>1, <2>4 DEF Items
  <2> QED
    BY <1>4, <2>5, <2>6 DEF u, c
<1> QED
  BY <1>3, <1>4

(* An entry is not NULL.                                                   *)
LEMMA EntryIsNotNull ==
    ASSUME NEW D, NEW e \in EntryOf(D)
    PROVE  /\ e # NULL /\ e.key \in DOMAIN HashVal /\ e.hashval \in Nat /\ e.data \in D
<1>1. DOMAIN e = {"key", "hashval", "data"} /\ DOMAIN NULL = {"null"}
  BY DEF EntryOf, NULL
<1>2. e # NULL
  BY <1>1
<1> QED
  BY <1>2 DEF EntryOf

(* A lookup finds the item with the key, if there is one.                  *)
LEMMA Finds ==
    ASSUME NEW D, NEW t \in ShapesOf(D), NEW k \in DOMAIN HashVal
    PROVE  LET f == hash_table_find(t, k)
           IN  /\ f = NULL <=> \A e \in Items(t) : e.key # k
               /\ f # NULL => f \in Items(t) /\ f.key = k
               /\ \A e \in Items(t) : e.key = k => f = e
<1> DEFINE f == hash_table_find(t, k)
           j == BucketOf(t, HashVal[k])
           chain == t.buckets[j]
           Found == {i \in DOMAIN chain : chain[i].key = k}
           Equal(i) == chain[i].key = k
           First(i) == Equal(i) /\ \A m \in 1 .. i - 1 : ~ Equal(m)
<1>1. j \in 1 .. NumBuckets(t)
  <2>1. NumBuckets(t) \in Nat \ {0} /\ HashVal[k] \in Nat
    BY Shape, HashAssumption
  <2> QED
    BY <2>1, BucketInRange DEF BucketOf
<1>2. chain \in Seq(EntryOf(D)) /\ DOMAIN chain = 1 .. Len(chain) /\ Len(chain) \in Nat
  <2>1. chain \in Seq(EntryOf(D))
    BY <1>1, TableItems, Zenon
  <2> HIDE DEF chain
  <2> QED
    BY <2>1
<1>3. /\ \A e : e \in Items(t) <=> \E h \in 1 .. NumBuckets(t) : \E i \in 1 .. Len(t.buckets[h]) : e = t.buckets[h][i]
      /\ \A e \in Items(t) : Hashed(e) /\ \E i \in 1 .. Len(t.buckets[BucketOf(t, HashVal[e.key])]) :
                                             e = t.buckets[BucketOf(t, HashVal[e.key])][i]
      /\ \A e, x \in Items(t) : e.key = x.key => e = x
  BY TableItems, Zenon
<1>4. f = IF \A i \in DOMAIN chain : ~ Equal(i) THEN NULL
          ELSE chain[CHOOSE i \in DOMAIN chain : First(i)]
  BY Zenon DEF hash_table_find
<1>5. \A i \in DOMAIN chain : chain[i] \in Items(t)
  BY <1>1, <1>2, <1>3, Zenon
<1>6. \A e \in Items(t) : e.key = k => \E i \in DOMAIN chain : e = chain[i] /\ Equal(i)
  <2> SUFFICES ASSUME NEW e \in Items(t), e.key = k PROVE \E i \in DOMAIN chain : e = chain[i] /\ Equal(i)
    BY Zenon
  <2>1. \E i \in 1 .. Len(t.buckets[BucketOf(t, HashVal[e.key])]) : e = t.buckets[BucketOf(t, HashVal[e.key])][i]
    BY <1>3, Zenon
  <2>2. t.buckets[BucketOf(t, HashVal[e.key])] = chain
    OBVIOUS
  <2> HIDE DEF chain
  <2>3. PICK i \in DOMAIN chain : e = chain[i]
    BY <1>2, <2>1, <2>2, Zenon
  <2> QED
    BY <2>3, Zenon
<1> HIDE DEF f, chain, Equal
<1>7. CASE \A i \in DOMAIN chain : ~ Equal(i)
  BY <1>4, <1>6, <1>7, Zenon DEF f
<1>8. CASE \E i \in DOMAIN chain : Equal(i)
  <2> DEFINE P == {i \in DOMAIN chain : Equal(i)}
  <2>1. P \in SUBSET Nat /\ P # {}
    BY <1>2, <1>8
  <2>2. PICK i \in P : \A m \in P : i <= m
    <3> HIDE DEF P
    <3> QED
      BY <2>1, LeastNumber
  <2>3. i \in DOMAIN chain /\ First(i)
    <3>1. \A m \in 1 .. i - 1 : m \in DOMAIN chain /\ ~(i <= m)
      BY <1>2, <2>2
    <3> QED
      BY <2>2, <3>1, Zenon
  <2> DEFINE at == CHOOSE x \in DOMAIN chain : First(x)
  <2>4. at \in DOMAIN chain /\ First(at)
    BY <2>3, Zenon
  <2>5. f = chain[at]
    BY <1>4, <1>8, Zenon
  <2> HIDE DEF at
  <2>6. f \in Items(t) /\ f.key = k
    BY <1>5, <2>4, <2>5, Zenon DEF Equal
  <2>7. f # NULL
    BY <2>6, TableItems, EntryIsNotNull, Zenon
  <2> QED
    BY <1>3, <2>6, <2>7, Zenon DEF f
<1> QED
  BY <1>7, <1>8, Zenon

(* A new item is linked into its table.                                    *)
LEMMA Links ==
    ASSUME NEW D, NEW t \in ShapesOf(D), NEW e \in EntryOf(D), Hashed(e), \A x \in Items(t) : x.key # e.key
    PROVE  LET u == Linked(t, e)
           IN  /\ u \in ShapesOf(D) /\ Items(u) = Items(t) \cup {e}
               /\ u.num_entries = t.num_entries + 1 /\ u.choice = t.choice
<1> DEFINE n == NumBuckets(t)
           B == AtHead(t.buckets, n, e)
           u == Linked(t, e)
<1>1. /\ t.choice \in Sizes /\ n \in Nat \ {0} /\ t.num_entries \in Nat
      /\ t.buckets \in BucketsOf(n, D) /\ Placed(t.buckets, n)
      /\ IsFiniteSet(Items(t)) /\ t.num_entries = Cardinality(Items(t))
  BY Shape, Zenon
<1>2. B \in BucketsOf(n, D) /\ Placed(B, n) /\ ItemsIn(B) = Items(t) \cup {e}
  <2> DEFINE C == t.buckets
  <2>1. C \in BucketsOf(n, D) /\ Placed(C, n) /\ \A x \in ItemsIn(C) : x.key # e.key
    BY <1>1, Zenon DEF Items
  <2> HIDE DEF C, n
  <2>2. AtHead(C, n, e) \in BucketsOf(n, D) /\ Placed(AtHead(C, n, e), n)
        /\ ItemsIn(AtHead(C, n, e)) = ItemsIn(C) \cup {e}
    BY <1>1, <2>1, PutsAtHead
  <2> QED
    BY <2>2, Zenon DEF C, Items
<1>3. IsFiniteSet(ItemsIn(B)) /\ Cardinality(ItemsIn(B)) = t.num_entries + 1
  BY <1>1, <1>2, FS_AddElement
<1>4. t = [choice |-> t.choice, num_entries |-> t.num_entries, buckets |-> t.buckets]
  BY DEF ShapesOf
<1>5. u = [t EXCEPT !.buckets = B, !.num_entries = t.num_entries + 1]
  BY <1>4 DEF Linked
<1> HIDE DEF B, u
<1>6. u = [choice |-> t.choice, num_entries |-> t.num_entries + 1, buckets |-> B]
  BY <1>4, <1>5
<1>7. u \in ShapesOf(D)
  <2>1. t.num_entries + 1 \in Nat
    BY <1>1
  <2> QED
    BY <1>1, <1>2, <1>3, <1>6, <2>1, MakesTable DEF NumBuckets
<1> QED
  BY <1>2, <1>6, <1>7 DEF Items, u

(* There are at most four times as many buckets in the next size, and more *)
(* than in this one.                                                       *)
LEMMA NextSize ==
    ASSUME NEW c \in Sizes, NEW d \in Sizes, d = c + 1
    PROVE  /\ bucket_choices[c] \in Nat \ {0} /\ bucket_choices[d] \in Nat \ {0}
           /\ bucket_choices[c] + 1 <= bucket_choices[d] /\ bucket_choices[d] <= 4 * bucket_choices[c]
<1>1. c \in 1 .. Len(bucket_choices) - 1
  BY HashAssumption, SMTT(30) DEF Sizes
<1>2. bucket_choices[c] \in Nat \ {0} /\ bucket_choices[d] \in Nat \ {0}
  BY HashAssumption, SMTT(30) DEF Sizes
<1>3. bucket_choices[c] < bucket_choices[c + 1] /\ bucket_choices[c + 1] <= 4 * bucket_choices[c]
  BY <1>1, HashAssumption
<1> QED
  BY <1>2, <1>3

(* An insertion adds the item, and makes room for it.                      *)
LEMMA Inserts ==
    ASSUME NEW D, NEW t \in TablesOf(D), NEW k \in DOMAIN HashVal, NEW d \in D, \A x \in Items(t) : x.key # k
    PROVE  LET u == hash_table_insert(t, k, d)
           IN  u \in TablesOf(D) /\ Items(u) = Items(t) \cup {Entry(k, d)}
<1> DEFINE e == Entry(k, d)
           v == Linked(t, e)
           u == hash_table_insert(t, k, d)
<1>1. t \in ShapesOf(D) /\ Roomy(t)
  BY Zenon DEF TablesOf
<1>2. e \in EntryOf(D) /\ Hashed(e) /\ e.key = k
  <2>1. HashVal[k] \in Nat
    BY HashAssumption
  <2> QED
    BY <2>1 DEF Entry, EntryOf, Hashed
<1> HIDE DEF e
<1>3. v \in ShapesOf(D) /\ Items(v) = Items(t) \cup {e} /\ v.num_entries = t.num_entries + 1 /\ v.choice = t.choice
  BY <1>1, <1>2, Links
<1>4. u = IF v.num_entries > 2 * NumBuckets(v) THEN hash_table_resize(v, 1) ELSE v
  BY Zenon DEF hash_table_insert, e
<1>5. t.num_entries \in Nat /\ t.choice \in Sizes /\ NumBuckets(v) = NumBuckets(t) /\ NumBuckets(t) \in Nat \ {0}
  BY <1>1, <1>3, Shape, Zenon DEF NumBuckets
<1> HIDE DEF v
<1>6. CASE v.num_entries > 2 * NumBuckets(v)
  <2> DEFINE w == hash_table_resize(v, 1)
  <2>1. /\ w \in ShapesOf(D) /\ Items(w) = Items(v) /\ w.num_entries = v.num_entries
        /\ w.choice = IF v.choice + 1 \in Sizes THEN v.choice + 1 ELSE v.choice
    BY <1>3, Resizes
  <2> HIDE DEF w
  <2>2. CASE v.choice + 1 \in Sizes
    <3> DEFINE c == t.choice
               b == c + 1
    <3>1. c \in Sizes /\ b \in Sizes /\ w.choice = b
      BY <1>3, <1>5, <2>1, <2>2
    <3>2. /\ bucket_choices[c] \in Nat \ {0} /\ bucket_choices[b] \in Nat \ {0}
          /\ bucket_choices[c] + 1 <= bucket_choices[b]
      BY <3>1, NextSize
    <3>3. NumBuckets(w) = bucket_choices[b] /\ NumBuckets(t) = bucket_choices[c]
      BY <3>1 DEF NumBuckets
    <3>4. t.num_entries <= 2 * NumBuckets(t)
      <4>1. c # Len(bucket_choices)
        BY <3>1, HashAssumption, SMTT(30) DEF Sizes
      <4> QED
        BY <1>1, <4>1 DEF Roomy
    <3>5. w.num_entries <= 2 * NumBuckets(w)
      BY <1>3, <1>5, <2>1, <3>2, <3>3, <3>4
    <3> QED
      BY <1>3, <1>4, <1>6, <2>1, <3>5, Zenon DEF Roomy, TablesOf, e, w
  <2>3. CASE v.choice + 1 \notin Sizes
    <3>1. w.choice = Len(bucket_choices)
      BY <1>3, <1>5, <2>1, <2>3, HashAssumption, SMTT(30) DEF Sizes
    <3> QED
      BY <1>3, <1>4, <1>6, <2>1, <3>1, Zenon DEF Roomy, TablesOf, e, w
  <2> QED
    BY <2>2, <2>3
<1>7. CASE ~(v.num_entries > 2 * NumBuckets(v))
  <2>1. Roomy(v)
    BY <1>3, <1>5, <1>7 DEF Roomy
  <2> QED
    BY <1>3, <1>4, <1>7, <2>1, Zenon DEF TablesOf, e
<1> QED
  BY <1>6, <1>7

(* An item is taken out of a chain.                                        *)
LEMMA Removes ==
    ASSUME NEW S, NEW s \in Seq(S), NEW p \in 1 .. Len(s)
    PROVE  /\ RemoveAt(s, p) \in Seq(S) /\ Len(RemoveAt(s, p)) = Len(s) - 1
           /\ \A i \in 1 .. Len(s) - 1 : RemoveAt(s, p)[i] = IF i < p THEN s[i] ELSE s[i + 1]
<1> DEFINE a == SubSeq(s, 1, p - 1)
           b == SubSeq(s, p + 1, Len(s))
           n == Len(s)
<1>1. n \in Nat /\ \A i \in 1 .. n : s[i] \in S
  OBVIOUS
<1>2. p \in Nat /\ 1 <= p /\ p <= n
  BY <1>1
<1>3. a \in Seq(S) /\ Len(a) = p - 1 /\ \A i \in 1 .. p - 1 : a[i] = s[i]
  <2>1. p - 1 \in Int /\ 1 \in Int /\ \A i \in 1 .. p - 1 : s[i] \in S
    BY <1>1, <1>2
  <2>2. /\ a \in Seq(S) /\ Len(a) = IF 1 <= p - 1 THEN (p - 1) - 1 + 1 ELSE 0
        /\ \A i \in 1 .. (p - 1) - 1 + 1 : a[i] = s[1 + i - 1]
    BY <2>1, SubSeqProperties
  <2> HIDE DEF a
  <2> QED
    BY <1>2, <2>2
<1>4. b \in Seq(S) /\ Len(b) = n - p /\ \A i \in 1 .. n - p : b[i] = s[p + i]
  <2>1. p + 1 \in Int /\ n \in Int /\ \A i \in p + 1 .. n : s[i] \in S
    BY <1>1, <1>2
  <2>2. /\ b \in Seq(S) /\ Len(b) = IF p + 1 <= n THEN n - (p + 1) + 1 ELSE 0
        /\ \A i \in 1 .. n - (p + 1) + 1 : b[i] = s[p + 1 + i - 1]
    BY <2>1, SubSeqProperties
  <2> HIDE DEF b, n
  <2> QED
    BY <1>1, <1>2, <2>2
<1> HIDE DEF a, b
<1>5. /\ a \o b \in Seq(S) /\ Len(a \o b) = Len(a) + Len(b)
      /\ \A i \in 1 .. Len(a) + Len(b) : (a \o b)[i] = IF i <= Len(a) THEN a[i] ELSE b[i - Len(a)]
  BY <1>3, <1>4, ConcatProperties
<1>6. RemoveAt(s, p) = a \o b
  BY Zenon DEF RemoveAt, a, b, n
<1> DEFINE c == a \o b
<1> HIDE DEF n, c
<1>7. c \in Seq(S) /\ Len(c) = n - 1
  BY <1>1, <1>2, <1>3, <1>4, <1>5 DEF c
<1>8. ASSUME NEW i \in 1 .. n - 1 PROVE c[i] = IF i < p THEN s[i] ELSE s[i + 1]
  <2>1. i \in Int /\ n \in Int
    BY <1>1
  <2>2. c[i] = IF i <= p - 1 THEN a[i] ELSE b[i - (p - 1)]
    <3>1. i \in 1 .. Len(a) + Len(b)
      BY <1>1, <1>2, <1>3, <1>4
    <3>2. c[i] = IF i <= Len(a) THEN a[i] ELSE b[i - Len(a)]
      BY <1>5, <3>1, Zenon DEF c
    <3> QED
      BY <1>3, <3>2
  <2>3. CASE i < p
    BY <1>2, <1>3, <2>1, <2>2, <2>3
  <2>4. CASE ~(i < p)
    <3>1. i - (p - 1) \in 1 .. n - p /\ p + (i - (p - 1)) = i + 1 /\ ~(i <= p - 1)
      BY <1>1, <1>2, <2>1, <2>4
    <3>2. b[i - (p - 1)] = s[p + (i - (p - 1))]
      BY <1>4, <3>1
    <3> QED
      BY <2>2, <2>4, <3>1, <3>2
  <2> QED
    BY <2>3, <2>4
<1> QED
  BY <1>6, <1>7, <1>8, Zenon DEF n, c

(* The place of an item in a chain.                                        *)
LEMMA PlaceOf ==
    ASSUME NEW S, NEW s \in Seq(S), NEW e, \E i \in 1 .. Len(s) : e = s[i]
    PROVE  Place(s, e) \in 1 .. Len(s) /\ s[Place(s, e)] = e
<1> DEFINE P == {i \in DOMAIN s : s[i] = e}
<1>1. P \in SUBSET Nat /\ P # {} /\ DOMAIN s = 1 .. Len(s)
  OBVIOUS
<1> HIDE DEF P
<1>2. Min(P) \in P
  BY <1>1, MinIsMember
<1> QED
  BY <1>1, <1>2, Zenon DEF Place, P

(* Where the items of a table are.                                         *)
LEMMA InItsPlace ==
    ASSUME NEW D, NEW t \in ShapesOf(D), NEW e \in Items(t)
    PROVE  /\ BucketOf(t, e.hashval) \in 1 .. NumBuckets(t)
           /\ t.buckets[BucketOf(t, e.hashval)] \in Seq(EntryOf(D))
           /\ Place(t.buckets[BucketOf(t, e.hashval)], e) \in 1 .. Len(t.buckets[BucketOf(t, e.hashval)])
           /\ t.buckets[BucketOf(t, e.hashval)][Place(t.buckets[BucketOf(t, e.hashval)], e)] = e
           /\ \A j \in 1 .. NumBuckets(t) : \A i \in 1 .. Len(t.buckets[j]) :
                t.buckets[j][i] = e => j = BucketOf(t, e.hashval) /\ i = Place(t.buckets[j], e)
<1> DEFINE n == NumBuckets(t)
           j == BucketOf(t, e.hashval)
           chain == t.buckets[j]
           p == Place(chain, e)
<1>1. n \in Nat \ {0} /\ Placed(t.buckets, n)
  BY Shape, Zenon
<1>2. e \in EntryOf(D) /\ Hashed(e) /\ \E i \in 1 .. Len(t.buckets[BucketOf(t, HashVal[e.key])]) :
                                                 e = t.buckets[BucketOf(t, HashVal[e.key])][i]
  BY TableItems, Zenon
<1>3. j \in 1 .. n
  BY <1>1, <1>2, EntryIsNotNull, BucketInRange DEF BucketOf
<1>4. chain \in Seq(EntryOf(D))
  BY <1>3, TableItems, Zenon
<1>5. \E i \in 1 .. Len(chain) : e = chain[i]
  BY <1>2, Zenon DEF Hashed
<1> HIDE DEF chain
<1>6. p \in 1 .. Len(chain) /\ chain[p] = e
  BY <1>4, <1>5, PlaceOf
<1> HIDE DEF p
<1>7. ASSUME NEW h \in 1 .. n, NEW i \in 1 .. Len(t.buckets[h]), t.buckets[h][i] = e
      PROVE  h = j /\ i = Place(t.buckets[h], e)
  <2>1. Bucket(e.hashval, n) = h
    BY <1>1, <1>7, Zenon DEF Placed
  <2>2. h = j
    BY <2>1, Zenon DEF BucketOf
  <2>3. i \in 1 .. Len(chain) /\ chain[i] = e
    BY <1>7, <2>2, Zenon DEF chain
  <2>4. \A x, y \in 1 .. Len(chain) : chain[x].key = chain[y].key => x = y
    BY <1>1, <1>3, Zenon DEF Placed, chain
  <2>5. i = p
    BY <1>6, <2>3, <2>4, Zenon
  <2> QED
    BY <2>2, <2>5, Zenon DEF chain, p
<1> QED
  BY <1>3, <1>4, <1>6, <1>7, Zenon DEF chain, p

(* The chains after an item is taken out of its own.                       *)
LEMMA UnlinksFrom ==
    ASSUME NEW D, NEW t \in ShapesOf(D), NEW e \in Items(t)
    PROVE  LET u == Unlinked(t, e)
               j == BucketOf(t, e.hashval)
               p == Place(t.buckets[j], e)
           IN  /\ u = [choice |-> t.choice, num_entries |-> t.num_entries - 1, buckets |-> u.buckets]
               /\ u.buckets \in BucketsOf(NumBuckets(t), D)
               /\ \A h \in 1 .. NumBuckets(t) : h # j => u.buckets[h] = t.buckets[h]
               /\ Len(u.buckets[j]) = Len(t.buckets[j]) - 1
               /\ \A i \in 1 .. Len(t.buckets[j]) - 1 :
                    u.buckets[j][i] = IF i < p THEN t.buckets[j][i] ELSE t.buckets[j][i + 1]
<1> DEFINE n == NumBuckets(t)
           B == t.buckets
           j == BucketOf(t, e.hashval)
           chain == B[j]
           p == Place(chain, e)
           r == RemoveAt(chain, p)
           u == Unlinked(t, e)
           C == [B EXCEPT ![j] = r]
<1>1. B \in BucketsOf(n, D) /\ t.num_entries \in Nat
  BY Shape, Zenon
<1>2. j \in 1 .. n /\ chain \in Seq(EntryOf(D)) /\ p \in 1 .. Len(chain) /\ chain[p] = e
  BY InItsPlace, ZenonT(30)
<1>3. e \in ToSet(chain)
  BY <1>2, ChainItems
<1>4. t = [choice |-> t.choice, num_entries |-> t.num_entries, buckets |-> B]
  BY DEF ShapesOf
<1>5. u = [t EXCEPT !.buckets[j] = r, !.num_entries = @ - 1]
  BY <1>3, Zenon DEF Unlinked
<1> HIDE DEF B, j, chain, p, u, r
<1>6. r \in Seq(EntryOf(D)) /\ Len(r) = Len(chain) - 1
      /\ \A i \in 1 .. Len(chain) - 1 : r[i] = IF i < p THEN chain[i] ELSE chain[i + 1]
  BY <1>2, Removes DEF r
<1>7. u = [choice |-> t.choice, num_entries |-> t.num_entries - 1, buckets |-> C]
  <2>1. u = [t EXCEPT !.buckets = C, !.num_entries = t.num_entries - 1]
    BY <1>4, <1>5 DEF B
  <2> HIDE DEF C
  <2> QED
    BY <1>4, <2>1
<1>8. C \in BucketsOf(n, D) /\ C[j] = r /\ \A h \in 1 .. n : h # j => C[h] = B[h]
  BY <1>1, <1>2, <1>6 DEF BucketsOf
<1> HIDE DEF C
<1>9. u.buckets = C
  BY <1>7
<1> QED
  BY <1>6, <1>7, <1>8, <1>9, Zenon DEF B, j, chain, p, u

(* Taking an item out leaves the others in their places.                   *)
LEMMA Unlinks ==
    ASSUME NEW D, NEW t \in ShapesOf(D), NEW e \in Items(t)
    PROVE  LET u == Unlinked(t, e)
           IN  /\ u \in ShapesOf(D) /\ Items(u) = Items(t) \ {e}
               /\ u.num_entries = t.num_entries - 1 /\ u.choice = t.choice
<1> DEFINE n == NumBuckets(t)
           B == t.buckets
           j == BucketOf(t, e.hashval)
           p == Place(B[j], e)
           u == Unlinked(t, e)
           C == u.buckets
<1>1. /\ t.choice \in Sizes /\ n \in Nat \ {0} /\ t.num_entries \in Nat /\ B \in BucketsOf(n, D) /\ Placed(B, n)
      /\ IsFiniteSet(Items(t)) /\ t.num_entries = Cardinality(Items(t))
  BY Shape, Zenon
<1>2. /\ u = [choice |-> t.choice, num_entries |-> t.num_entries - 1, buckets |-> C] /\ C \in BucketsOf(n, D)
      /\ \A h \in 1 .. n : h # j => C[h] = B[h]
      /\ Len(C[j]) = Len(B[j]) - 1
      /\ \A i \in 1 .. Len(B[j]) - 1 : C[j][i] = IF i < p THEN B[j][i] ELSE B[j][i + 1]
  BY UnlinksFrom, Zenon
<1>3. /\ j \in 1 .. n /\ B[j] \in Seq(EntryOf(D)) /\ p \in 1 .. Len(B[j]) /\ B[j][p] = e
      /\ \A h \in 1 .. n : \A i \in 1 .. Len(B[h]) : B[h][i] = e => h = j /\ i = Place(B[h], e)
  BY InItsPlace, ZenonT(30)
<1>4. /\ \A x : x \in Items(t) <=> \E h \in 1 .. n : \E i \in 1 .. Len(B[h]) : x = B[h][i]
  BY TableItems, Zenon
<1> HIDE DEF B, n, C, j, p, u
<1>5. \A x : x \in ItemsIn(C) <=> \E h \in 1 .. n : \E i \in 1 .. Len(C[h]) : x = C[h][i]
  <2>1. n \in Nat
    BY <1>1
  <2> QED
    BY <1>2, <2>1, BucketItems
(* An item at place i of the new chain was at place Old(i).                *)
<1> DEFINE Old(i) == IF i < p THEN i ELSE i + 1
<1>6. \A i \in 1 .. Len(C[j]) : /\ Old(i) \in 1 .. Len(B[j]) /\ Old(i) # p /\ C[j][i] = B[j][Old(i)]
                                /\ \A k \in 1 .. Len(C[j]) : Old(i) = Old(k) => i = k
  <2> DEFINE m == Len(B[j])
  <2>1. m \in Nat
    BY <1>3
  <2> HIDE DEF m
  <2> SUFFICES ASSUME NEW i \in 1 .. m - 1
               PROVE  /\ Old(i) \in 1 .. m /\ Old(i) # p /\ C[j][i] = B[j][Old(i)]
                      /\ \A k \in 1 .. m - 1 : Old(i) = Old(k) => i = k
    BY <1>2, Zenon DEF m
  <2>2. p \in 1 .. m
    BY <1>3, Zenon DEF m
  <2>3. C[j][i] = B[j][Old(i)]
    BY <1>2, Zenon DEF m
  <2>4. Old(i) \in 1 .. m /\ Old(i) # p /\ \A k \in 1 .. m - 1 : Old(i) = Old(k) => i = k
    BY <2>1, <2>2
  <2> QED
    BY <2>3, <2>4, Zenon
<1>7. \A i \in 1 .. Len(B[j]) : i # p => \E k \in 1 .. Len(C[j]) : Old(k) = i
  <2> DEFINE m == Len(B[j])
  <2>1. m \in Nat
    BY <1>3
  <2> HIDE DEF m
  <2> SUFFICES ASSUME NEW i \in 1 .. m, i # p PROVE \E k \in 1 .. m - 1 : Old(k) = i
    BY <1>2, Zenon DEF m
  <2>2. p \in 1 .. m
    BY <1>3, Zenon DEF m
  <2> DEFINE k == IF i < p THEN i ELSE i - 1
  <2>3. k \in 1 .. m - 1 /\ Old(k) = i
    BY <2>1, <2>2
  <2> QED
    BY <2>3
<1> HIDE DEF Old
<1>8. ASSUME NEW x PROVE x \in ItemsIn(C) <=> x \in Items(t) /\ x # e
  <2>1. ASSUME x \in ItemsIn(C) PROVE x \in Items(t) /\ x # e
    <3>1. PICK h \in 1 .. n : \E i \in 1 .. Len(C[h]) : x = C[h][i]
      BY <1>5, <2>1, Zenon
    <3>2. PICK i \in 1 .. Len(C[h]) : x = C[h][i]
      BY <3>1
    <3>3. CASE h = j
      <4>1. i \in 1 .. Len(C[j]) /\ x = C[j][i]
        BY <3>2, <3>3, Zenon
      <4>2. Old(i) \in 1 .. Len(B[j]) /\ Old(i) # p /\ x = B[j][Old(i)]
        BY <1>6, <4>1, Zenon
      <4>3. x \in Items(t)
        BY <1>3, <1>4, <4>2, Zenon
      <4>4. x # e
        BY <1>3, <4>2, Zenon DEF p
      <4> QED
        BY <4>3, <4>4
    <3>4. CASE h # j
      <4>1. i \in 1 .. Len(B[h]) /\ x = B[h][i]
        BY <1>2, <3>2, <3>4, Zenon
      <4> QED
        BY <1>3, <1>4, <3>4, <4>1, Zenon
    <3> QED
      BY <3>3, <3>4
  <2>2. ASSUME x \in Items(t), x # e PROVE x \in ItemsIn(C)
    <3>1. PICK h \in 1 .. n : \E i \in 1 .. Len(B[h]) : x = B[h][i]
      BY <1>4, <2>2, Zenon
    <3>2. PICK i \in 1 .. Len(B[h]) : x = B[h][i]
      BY <3>1
    <3>3. CASE h = j
      <4>1. i \in 1 .. Len(B[j]) /\ x = B[j][i] /\ i # p
        BY <1>3, <2>2, <3>2, <3>3, Zenon
      <4>2. PICK k \in 1 .. Len(C[j]) : Old(k) = i
        BY <1>7, <4>1, Zenon
      <4>3. x = C[j][k]
        BY <1>6, <4>1, <4>2, Zenon
      <4> QED
        BY <1>3, <1>5, <4>3, Zenon
    <3>4. CASE h # j
      <4>1. i \in 1 .. Len(C[h]) /\ x = C[h][i]
        BY <1>2, <3>2, <3>4, Zenon
      <4> QED
        BY <1>5, <4>1, Zenon
    <3> QED
      BY <3>3, <3>4
  <2> QED
    BY <2>1, <2>2
<1>9. ItemsIn(C) = Items(t) \ {e}
  BY <1>8
<1>10. Placed(C, n)
  <2> SUFFICES ASSUME NEW h \in 1 .. n, NEW i \in 1 .. Len(C[h]), NEW k \in 1 .. Len(C[h])
               PROVE  /\ Hashed(C[h][i]) /\ Bucket(C[h][i].hashval, n) = h
                      /\ C[h][i].key = C[h][k].key => i = k
    BY Zenon DEF Placed
  <2>1. CASE h # j
    <3>1. C[h] = B[h]
      BY <1>2, <2>1, Zenon
    <3>2. i \in 1 .. Len(B[h]) /\ k \in 1 .. Len(B[h])
      BY <3>1
    <3> QED
      BY <1>1, <3>1, <3>2, Zenon DEF Placed
  <2>2. CASE h = j
    <3>1. i \in 1 .. Len(C[j]) /\ k \in 1 .. Len(C[j])
      BY <2>2
    <3>2. /\ Old(i) \in 1 .. Len(B[j]) /\ C[h][i] = B[j][Old(i)] /\ Old(k) \in 1 .. Len(B[j]) /\ C[h][k] = B[j][Old(k)]
          /\ Old(i) = Old(k) => i = k
      BY <1>6, <2>2, <3>1, Zenon
    <3>3. /\ Hashed(B[j][Old(i)]) /\ Bucket(B[j][Old(i)].hashval, n) = j
          /\ B[j][Old(i)].key = B[j][Old(k)].key => Old(i) = Old(k)
      BY <1>1, <1>3, <3>2, Zenon DEF Placed
    <3> QED
      BY <2>2, <3>2, <3>3, Zenon
  <2> QED
    BY <2>1, <2>2
<1>11. IsFiniteSet(ItemsIn(C)) /\ Cardinality(ItemsIn(C)) = t.num_entries - 1 /\ Cardinality(ItemsIn(C)) \in Nat
  BY <1>1, <1>9, FS_RemoveElement, FS_CardinalityType
<1>12. u \in ShapesOf(D)
  <2>1. t.num_entries - 1 \in Nat
    BY <1>11
  <2>2. C \in BucketsOf(bucket_choices[t.choice], D) /\ Placed(C, bucket_choices[t.choice])
    BY <1>2, <1>10, Zenon DEF n, NumBuckets
  <2> QED
    BY <1>1, <1>2, <1>11, <2>1, <2>2, MakesTable
<1>13. u.choice = t.choice /\ u.num_entries = t.num_entries - 1
  BY <1>2
<1> QED
  BY <1>9, <1>12, <1>13, Zenon DEF Items, C, u

(* A deletion takes the item out, with or without a change of size.        *)
LEMMA Deletes ==
    ASSUME NEW D, NEW t \in TablesOf(D), NEW e \in Items(t)
    PROVE  /\ hash_table_delete_no_resize(t, e) \in TablesOf(D)
           /\ Items(hash_table_delete_no_resize(t, e)) = Items(t) \ {e}
           /\ hash_table_delete(t, e) \in TablesOf(D)
           /\ Items(hash_table_delete(t, e)) = Items(t) \ {e}
<1> DEFINE u == Unlinked(t, e)
           w == hash_table_resize(u, -1)
           v == hash_table_delete(t, e)
<1>1. t \in ShapesOf(D) /\ Roomy(t)
  BY Zenon DEF TablesOf
<1>2. u \in ShapesOf(D) /\ Items(u) = Items(t) \ {e} /\ u.num_entries = t.num_entries - 1 /\ u.choice = t.choice
  BY <1>1, Unlinks
<1>3. u.num_entries \in Nat /\ t.num_entries \in Nat /\ t.choice \in Sizes /\ NumBuckets(t) \in Nat \ {0}
      /\ NumBuckets(u) = NumBuckets(t)
  BY <1>1, <1>2, Shape, Zenon DEF NumBuckets
<1>4. v = IF u.num_entries < t.num_entries /\ u.choice > 1 /\ u.num_entries < NumBuckets(u) \div 2 THEN w ELSE u
  BY Zenon DEF hash_table_delete
<1>5. hash_table_delete_no_resize(t, e) = u
  BY Zenon DEF hash_table_delete_no_resize
<1>6. -1 \in Int
  OBVIOUS
<1>7. /\ w \in ShapesOf(D) /\ Items(w) = Items(u) /\ w.num_entries = u.num_entries
      /\ w.choice = IF u.choice + -1 \in Sizes THEN u.choice + -1 ELSE u.choice
  <2> HIDE DEF u
  <2> QED
    BY <1>2, <1>6, Resizes
<1> HIDE DEF u, v, w
<1>8. Roomy(u)
  BY <1>1, <1>2, <1>3 DEF Roomy
<1>9. CASE u.num_entries < t.num_entries /\ u.choice > 1 /\ u.num_entries < NumBuckets(u) \div 2
  <2> DEFINE d == t.choice
             c == d + -1
  <2>1. c \in Sizes /\ d \in Sizes /\ d = c + 1 /\ w.choice = c
    BY <1>2, <1>3, <1>7, <1>9, HashAssumption, SMTT(30) DEF Sizes
  <2>2. /\ bucket_choices[c] \in Nat \ {0} /\ bucket_choices[d] \in Nat \ {0}
        /\ bucket_choices[d] <= 4 * bucket_choices[c]
    BY <2>1, NextSize
  <2>3. NumBuckets(w) = bucket_choices[c] /\ NumBuckets(t) = bucket_choices[d]
    BY <2>1 DEF NumBuckets
  <2>4. w.num_entries <= 2 * NumBuckets(w)
    <3> DEFINE x == bucket_choices[c]  y == bucket_choices[d]  m == u.num_entries
    <3>1. m < y \div 2 /\ m \in Nat /\ x \in Nat /\ y \in Nat /\ y <= 4 * x
      BY <1>3, <1>9, <2>2, <2>3
    <3> HIDE DEF x, y, m
    <3>2. m <= 2 * x
      BY <3>1
    <3> QED
      BY <1>7, <2>3, <3>2 DEF x, y, m
  <2> QED
    BY <1>2, <1>4, <1>5, <1>7, <1>8, <1>9, <2>4, Zenon DEF Roomy, TablesOf, v
<1>10. CASE ~(u.num_entries < t.num_entries /\ u.choice > 1 /\ u.num_entries < NumBuckets(u) \div 2)
  BY <1>2, <1>4, <1>5, <1>8, <1>10, Zenon DEF TablesOf, v
<1> QED
  BY <1>9, <1>10

(* A pointer to an item changes its data, and nothing else.                *)
LEMMA Updates ==
    ASSUME NEW D, NEW t \in TablesOf(D), NEW e \in Items(t), NEW d \in D
    PROVE  /\ Update(t, e, d) \in TablesOf(D)
           /\ Items(Update(t, e, d)) = (Items(t) \ {e}) \cup {[e EXCEPT !.data = d]}
<1> DEFINE n == NumBuckets(t)
           B == t.buckets
           j == BucketOf(t, e.hashval)
           s == B[j]
           f == [e EXCEPT !.data = d]
           r == [i \in DOMAIN s |-> IF s[i] = e THEN f ELSE s[i]]
           C == [B EXCEPT ![j] = r]
           u == Update(t, e, d)
<1>1. t \in ShapesOf(D) /\ Roomy(t)
  BY Zenon DEF TablesOf
<1>2. /\ t.choice \in Sizes /\ n \in Nat \ {0} /\ t.num_entries \in Nat /\ B \in BucketsOf(n, D) /\ Placed(B, n)
      /\ IsFiniteSet(Items(t)) /\ t.num_entries = Cardinality(Items(t))
  BY <1>1, Shape, Zenon
<1>3. /\ j \in 1 .. n /\ s \in Seq(EntryOf(D))
      /\ \A h \in 1 .. n : \A i \in 1 .. Len(B[h]) : B[h][i] = e => h = j /\ i = Place(B[h], e)
  BY <1>1, InItsPlace, ZenonT(30)
<1>4. PICK p \in 1 .. Len(s) : s[p] = e
  <2>1. Place(s, e) \in 1 .. Len(s) /\ s[Place(s, e)] = e
    BY <1>1, InItsPlace, ZenonT(30)
  <2> QED
    BY <2>1, Zenon
<1>5. /\ \A x : x \in Items(t) <=> \E h \in 1 .. n : \E i \in 1 .. Len(B[h]) : x = B[h][i]
      /\ Items(t) \subseteq EntryOf(D) /\ \A x, y \in Items(t) : x.key = y.key => x = y
  BY <1>1, TableItems, Zenon
<1>6. f \in EntryOf(D) /\ f.key = e.key /\ f.hashval = e.hashval /\ f.data = d
  <2>1. e \in EntryOf(D)
    BY <1>5, Zenon
  <2> QED
    BY <2>1 DEF EntryOf
<1>7. t = [choice |-> t.choice, num_entries |-> t.num_entries, buckets |-> B]
  BY <1>1 DEF ShapesOf
<1>8. u = [t EXCEPT !.buckets = C]
  BY <1>7, Zenon DEF Update
<1> HIDE DEF B, j, s, f, u, C
<1>9. r \in Seq(EntryOf(D)) /\ Len(r) = Len(s) /\ \A i \in 1 .. Len(s) : r[i] = IF s[i] = e THEN f ELSE s[i]
  BY <1>3, <1>6
<1> HIDE DEF r
<1>10. u = [choice |-> t.choice, num_entries |-> t.num_entries, buckets |-> C]
  BY <1>7, <1>8
<1>11. C \in BucketsOf(n, D) /\ C[j] = r /\ \A h \in 1 .. n : h # j => C[h] = B[h]
  BY <1>2, <1>3, <1>9 DEF BucketsOf, C
<1>12. \A x : x \in ItemsIn(C) <=> \E h \in 1 .. n : \E i \in 1 .. Len(C[h]) : x = C[h][i]
  <2>1. n \in Nat
    BY <1>2
  <2> HIDE DEF n
  <2> QED
    BY <1>11, <2>1, BucketItems
<1> HIDE DEF n
<1>13. /\ \A h \in 1 .. n : 1 .. Len(C[h]) = 1 .. Len(B[h])
       /\ \A h \in 1 .. n : \A i \in 1 .. Len(B[h]) : C[h][i] = IF B[h][i] = e THEN f ELSE B[h][i]
  <2>1. ASSUME NEW h \in 1 .. n
        PROVE  /\ 1 .. Len(C[h]) = 1 .. Len(B[h])
               /\ \A i \in 1 .. Len(B[h]) : C[h][i] = IF B[h][i] = e THEN f ELSE B[h][i]
    <3>1. CASE h = j
      BY <1>9, <1>11, <3>1, Zenon DEF s
    <3>2. CASE h # j
      <4>1. \A i \in 1 .. Len(B[h]) : B[h][i] # e
        BY <1>3, <3>2, Zenon
      <4> QED
        BY <1>11, <3>2, <4>1, Zenon
    <3> QED
      BY <3>1, <3>2
  <2> QED
    BY <2>1, Zenon
<1>14. ASSUME NEW x PROVE x \in ItemsIn(C) <=> (x \in Items(t) /\ x # e) \/ x = f
  <2>1. ASSUME x \in ItemsIn(C) PROVE (x \in Items(t) /\ x # e) \/ x = f
    <3>1. PICK h \in 1 .. n : \E i \in 1 .. Len(C[h]) : x = C[h][i]
      BY <1>12, <2>1, Zenon
    <3>2. PICK i \in 1 .. Len(C[h]) : x = C[h][i]
      BY <3>1
    <3>3. i \in 1 .. Len(B[h]) /\ x = IF B[h][i] = e THEN f ELSE B[h][i]
      BY <1>13, <3>2, Zenon
    <3> QED
      BY <1>5, <3>3, Zenon
  <2>2. ASSUME x \in Items(t), x # e PROVE x \in ItemsIn(C)
    <3>1. PICK h \in 1 .. n : \E i \in 1 .. Len(B[h]) : x = B[h][i]
      BY <1>5, <2>2, Zenon
    <3>2. PICK i \in 1 .. Len(B[h]) : x = B[h][i]
      BY <3>1
    <3>3. i \in 1 .. Len(C[h]) /\ x = C[h][i]
      BY <1>13, <2>2, <3>2, Zenon
    <3> QED
      BY <1>12, <3>3, Zenon
  <2>3. f \in ItemsIn(C)
    <3>1. p \in 1 .. Len(C[j]) /\ C[j][p] = f
      BY <1>3, <1>4, <1>13, Zenon DEF s
    <3> QED
      BY <1>3, <1>12, <3>1, Zenon
  <2> QED
    BY <2>1, <2>2, <2>3
<1>15. ItemsIn(C) = (Items(t) \ {e}) \cup {f}
  BY <1>14
<1>16. Placed(C, n)
  <2> SUFFICES ASSUME NEW h \in 1 .. n, NEW i \in 1 .. Len(C[h]), NEW k \in 1 .. Len(C[h])
               PROVE  /\ Hashed(C[h][i]) /\ Bucket(C[h][i].hashval, n) = h
                      /\ C[h][i].key = C[h][k].key => i = k
    BY Zenon DEF Placed
  <2>1. i \in 1 .. Len(B[h]) /\ k \in 1 .. Len(B[h])
    BY <1>13, Zenon
  <2>2. C[h][i].key = B[h][i].key /\ C[h][i].hashval = B[h][i].hashval /\ C[h][k].key = B[h][k].key
    BY <1>6, <1>13, <2>1, Zenon
  <2>3. Hashed(B[h][i]) /\ Bucket(B[h][i].hashval, n) = h /\ (B[h][i].key = B[h][k].key => i = k)
    BY <1>2, <2>1, Zenon DEF Placed
  <2> QED
    BY <2>2, <2>3, Zenon DEF Hashed
<1>17. e \in Items(t)
  OBVIOUS
<1>18. f \notin Items(t) \ {e}
  BY <1>5, <1>6, <1>17, Zenon
<1>19. IsFiniteSet(ItemsIn(C)) /\ Cardinality(ItemsIn(C)) = t.num_entries
  <2> DEFINE R == Items(t) \ {e}
  <2>1. IsFiniteSet(R) /\ Cardinality(R) = t.num_entries - 1
    BY <1>2, <1>17, FS_RemoveElement
  <2> HIDE DEF R
  <2>2. IsFiniteSet(R \cup {f}) /\ Cardinality(R \cup {f}) = Cardinality(R) + 1
    BY <1>18, <2>1, FS_AddElement DEF R
  <2>3. Cardinality(R \cup {f}) = t.num_entries
    BY <1>2, <2>1, <2>2
  <2> QED
    BY <1>15, <2>2, <2>3, Zenon DEF R
<1>20. u \in ShapesOf(D)
  <2>1. C \in BucketsOf(bucket_choices[t.choice], D) /\ Placed(C, bucket_choices[t.choice])
    BY <1>11, <1>16, Zenon DEF n, NumBuckets
  <2> QED
    BY <1>2, <1>10, <1>19, <2>1, MakesTable
<1>21. u.choice = t.choice /\ u.num_entries = t.num_entries /\ u.buckets = C
  BY <1>10
<1>22. Roomy(u)
  BY <1>1, <1>21, Zenon DEF Roomy, NumBuckets
<1> QED
  BY <1>15, <1>20, <1>21, <1>22, Zenon DEF Items, TablesOf, u, f

(* Two tables with the same items under a key give the same answer to it.  *)
LEMMA FindsTheSame ==
    ASSUME NEW D, NEW t \in ShapesOf(D), NEW u \in ShapesOf(D), NEW k \in DOMAIN HashVal,
           \A e : e.key = k => (e \in Items(t) <=> e \in Items(u))
    PROVE  hash_table_find(t, k) = hash_table_find(u, k)
<1> DEFINE f == hash_table_find(t, k)
           g == hash_table_find(u, k)
<1>1. f = NULL <=> \A e \in Items(t) : e.key # k
  BY Finds, Zenon
<1>2. f # NULL => f \in Items(t) /\ f.key = k
  BY Finds, Zenon
<1>3. g = NULL <=> \A e \in Items(u) : e.key # k
  BY Finds, Zenon
<1>4. \A e \in Items(u) : e.key = k => g = e
  BY Finds, Zenon
<1> HIDE DEF f, g
<1>5. CASE f = NULL
  BY <1>1, <1>3, <1>5, Zenon DEF f, g
<1>6. CASE f # NULL
  BY <1>2, <1>4, <1>6, Zenon DEF f, g
<1> QED
  BY <1>5, <1>6

-----------------------------------------------------------------------------
(* The iterator. *)

\* Where an item is: its bucket, and its place in the chain.
Chain(t, e) == t.buckets[BucketOf(t, e.hashval)]
Before(t, e, x) ==
    \/ BucketOf(t, e.hashval) < BucketOf(t, x.hashval)
    \/ /\ BucketOf(t, e.hashval) = BucketOf(t, x.hashval)
       /\ Place(Chain(t, e), e) < Place(Chain(t, x), x)

\* What a loop over the table that is at an item has yet to see, at first everything.
Rest(t, cur) == IF cur = NULL THEN Items(t) ELSE {x \in Items(t) : Before(t, cur, x)}

(* The places of the items.                                                *)
LEMMA Places ==
    ASSUME NEW D, NEW t \in ShapesOf(D), NEW e \in Items(t)
    PROVE  /\ BucketOf(t, e.hashval) \in 1 .. NumBuckets(t)
           /\ Chain(t, e) \in Seq(EntryOf(D)) /\ Chain(t, e) = t.buckets[BucketOf(t, e.hashval)]
           /\ Place(Chain(t, e), e) \in 1 .. Len(Chain(t, e))
           /\ Chain(t, e)[Place(Chain(t, e), e)] = e
           /\ BucketOf(t, e.hashval) \in Nat /\ Place(Chain(t, e), e) \in Nat /\ Len(Chain(t, e)) \in Nat
<1> DEFINE b == BucketOf(t, e.hashval)
           c == t.buckets[b]
           p == Place(c, e)
<1>1. /\ b \in 1 .. NumBuckets(t) /\ c \in Seq(EntryOf(D)) /\ p \in 1 .. Len(c) /\ c[p] = e
  BY InItsPlace, ZenonT(30)
<1>2. Chain(t, e) = c
  BY Zenon DEF Chain
<1>3. NumBuckets(t) \in Nat
  BY Shape
<1> HIDE DEF b, c, p
<1>4. b \in Nat /\ p \in Nat /\ Len(c) \in Nat
  BY <1>1, <1>3
<1> QED
  BY <1>1, <1>2, <1>4, Zenon DEF b, c, p

(* An item has one place.                                                  *)
LEMMA OnlyPlace ==
    ASSUME NEW D, NEW t \in ShapesOf(D), NEW e \in Items(t)
    PROVE  \A j \in 1 .. NumBuckets(t) : \A i \in 1 .. Len(t.buckets[j]) :
             t.buckets[j][i] = e => BucketOf(t, e.hashval) = j /\ Place(Chain(t, e), e) = i
<1>1. \A j \in 1 .. NumBuckets(t) : \A i \in 1 .. Len(t.buckets[j]) :
        t.buckets[j][i] = e => j = BucketOf(t, e.hashval) /\ i = Place(t.buckets[j], e)
  BY InItsPlace, ZenonT(30)
<1> QED
  BY <1>1, Zenon DEF Chain

(* The first item from a bucket on: none is before it.                     *)
LEMMA FirstOfTheRest ==
    ASSUME NEW D, NEW t \in ShapesOf(D), NEW j \in Nat \ {0}
    PROVE  LET f == FirstFrom(t, j)
               From == {x \in Items(t) : j <= BucketOf(t, x.hashval)}
           IN  /\ From = {} => f = NULL
               /\ From # {} => f \in From /\ \A x \in From : x = f \/ Before(t, f, x)
<1> DEFINE f == FirstFrom(t, j)
           n == NumBuckets(t)
           From == {x \in Items(t) : j <= BucketOf(t, x.hashval)}
           nonempty == {i \in j .. n : t.buckets[i] # << >>}
           m == Min(nonempty)
           chain == t.buckets[m]
<1>1. n \in Nat
  BY Shape
<1>2. f = IF nonempty = {} THEN NULL ELSE Head(chain)
  BY Zenon DEF FirstFrom
<1>3. \A x \in From : BucketOf(t, x.hashval) \in nonempty
  <2> SUFFICES ASSUME NEW x \in From PROVE BucketOf(t, x.hashval) \in nonempty
    BY Zenon
  <2>1. /\ BucketOf(t, x.hashval) \in 1 .. n /\ Chain(t, x) = t.buckets[BucketOf(t, x.hashval)]
        /\ Place(Chain(t, x), x) \in 1 .. Len(Chain(t, x))
    BY Places, Zenon
  <2>2. Chain(t, x) # << >>
    BY <2>1
  <2>3. BucketOf(t, x.hashval) \in j .. n
    BY <1>1, <2>1
  <2> QED
    BY <2>1, <2>2, <2>3, Zenon
<1>4. CASE nonempty = {}
  <2>1. From = {}
    BY <1>3, <1>4, Zenon
  <2> QED
    BY <1>2, <1>4, <2>1, Zenon
<1>5. CASE nonempty # {}
  <2>1. nonempty \in SUBSET Nat
    BY <1>1
  <2> HIDE DEF nonempty
  <2>2. m \in nonempty /\ \A y \in nonempty : m <= y
    BY <1>5, <2>1, MinIsMember
  <2>3. m \in 1 .. n /\ j <= m /\ chain # << >>
    BY <1>1, <2>2 DEF nonempty
  <2>4. chain \in Seq(EntryOf(D))
    BY <2>3, TableItems, Zenon
  <2> HIDE DEF m
  <2>5. 1 \in 1 .. Len(chain) /\ Head(chain) = chain[1]
    <3> HIDE DEF chain
    <3> QED
      BY <2>3, <2>4
  <2>6. f = chain[1]
    BY <1>2, <1>5, <2>5, Zenon
  <2>7. f \in Items(t)
    BY <2>3, <2>5, <2>6, TableItems, Zenon
  <2> HIDE DEF f
  <2>8. BucketOf(t, f.hashval) = m /\ Place(Chain(t, f), f) = 1
    BY <2>3, <2>5, <2>6, <2>7, OnlyPlace, Zenon
  <2>9. f \in From
    BY <2>3, <2>7, <2>8, Zenon
  <2>10. ASSUME NEW x \in From, x # f PROVE Before(t, f, x)
    <3> DEFINE b == BucketOf(t, x.hashval)
               p == Place(Chain(t, x), x)
    <3>1. /\ x \in Items(t) /\ b \in 1 .. n /\ Chain(t, x) = t.buckets[b] /\ p \in 1 .. Len(Chain(t, x))
             /\ Chain(t, x)[p] = x
          /\ b \in Nat /\ p \in Nat /\ Len(Chain(t, x)) \in Nat
      BY Places, Zenon
    <3>2. m <= b
      BY <1>3, <2>2, Zenon
    <3>3. b = m => p # 1
      <4> SUFFICES ASSUME b = m, p = 1 PROVE FALSE
        BY Zenon
      <4>1. Chain(t, x) = chain
        BY <3>1, Zenon
      <4>2. chain[1] = x
        BY <3>1, <4>1, Zenon
      <4> QED
        BY <2>6, <2>10, <4>2
    <3>4. m \in Nat
      BY <1>1, <2>3
    <3> HIDE DEF b, p
    <3>5. m < b \/ (m = b /\ 1 < p)
      BY <3>1, <3>2, <3>3, <3>4
    <3> QED
      BY <2>8, <3>5, Zenon DEF Before, b, p
  <2>11. \A x \in From : x = f \/ Before(t, f, x)
    BY <2>10, Zenon
  <2> QED
    BY <2>9, <2>11, Zenon DEF f
<1> QED
  BY <1>4, <1>5

(* The order of the items.                                                 *)
LEMMA OrderOfItems ==
    ASSUME NEW D, NEW t \in ShapesOf(D), NEW x \in Items(t), NEW y \in Items(t), NEW z \in Items(t)
    PROVE  /\ ~ Before(t, x, x)
           /\ Before(t, x, y) /\ Before(t, y, z) => Before(t, x, z)
<1> DEFINE b(e) == BucketOf(t, e.hashval)
           p(e) == Place(Chain(t, e), e)
<1>1. /\ b(x) \in Nat /\ b(y) \in Nat /\ b(z) \in Nat
      /\ p(x) \in Nat /\ p(y) \in Nat /\ p(z) \in Nat
  BY Places, Zenon
<1>2. \A v, w : Before(t, v, w) <=> b(v) < b(w) \/ (b(v) = b(w) /\ p(v) < p(w))
  BY Zenon DEF Before
<1> HIDE DEF b, p
<1> QED
  BY <1>1, <1>2

(* The iterator goes to the first of the rest.                             *)
LEMMA NextOfTheRest ==
    ASSUME NEW D, NEW t \in ShapesOf(D), NEW cur \in Items(t) \cup {NULL}
    PROVE  LET f == hash_table_next(t, cur)
           IN  /\ Rest(t, cur) = {} => f = NULL
               /\ Rest(t, cur) # {} => /\ f \in Rest(t, cur) /\ f \in Items(t) /\ f # NULL
                                       /\ f \notin Rest(t, f)
                                       /\ Rest(t, cur) = {f} \cup Rest(t, f)
<1> DEFINE f == hash_table_next(t, cur)
           R == Rest(t, cur)
<1>1. R \subseteq Items(t)
  BY Zenon DEF Rest
<1>2. \A x \in Items(t) : x # NULL /\ Rest(t, x) = {y \in Items(t) : Before(t, x, y)}
  <2>1. \A x \in Items(t) : x # NULL
    BY TableItems, EntryIsNotNull, Zenon
  <2> QED
    BY <2>1, Zenon DEF Rest
<1> SUFFICES /\ R = {} => f = NULL
             /\ R # {} => f \in R /\ \A x \in R : x = f \/ Before(t, f, x)
  <2> SUFFICES ASSUME R # {}, f \in R, \A x \in R : x = f \/ Before(t, f, x)
               PROVE  /\ f \in Items(t) /\ f # NULL /\ f \notin Rest(t, f)
                      /\ R = {f} \cup Rest(t, f)
    BY Zenon
  <2> HIDE DEF f, R
  <2>1. f \in Items(t) /\ f # NULL /\ Rest(t, f) = {y \in Items(t) : Before(t, f, y)}
    BY <1>1, <1>2, Zenon
  <2>2. f \notin Rest(t, f)
    BY <2>1, OrderOfItems, Zenon
  <2>3. \A y \in Items(t) : Before(t, f, y) => y \in R
    <3> SUFFICES ASSUME NEW y \in Items(t), Before(t, f, y) PROVE y \in R
      BY Zenon
    <3>1. CASE cur = NULL
      BY <3>1, Zenon DEF R, Rest
    <3>2. CASE cur # NULL
      <4>1. cur \in Items(t) /\ R = {x \in Items(t) : Before(t, cur, x)}
        BY <3>2, Zenon DEF R, Rest
      <4>2. Before(t, cur, f)
        BY <4>1, Zenon
      <4>3. Before(t, cur, y)
        BY <2>1, <4>1, <4>2, OrderOfItems, Zenon
      <4> QED
        BY <4>1, <4>3, Zenon
    <3> QED
      BY <3>1, <3>2
  <2>4. R = {f} \cup Rest(t, f)
    BY <1>1, <2>1, <2>3
  <2> QED
    BY <2>1, <2>2, <2>4
<1>3. CASE cur = NULL
  <2>1. f = FirstFrom(t, 1) /\ R = Items(t)
    BY <1>3, Zenon DEF hash_table_next, Rest
  <2> DEFINE From == {x \in Items(t) : 1 <= BucketOf(t, x.hashval)}
             g == FirstFrom(t, 1)
  <2>2. From = Items(t)
    <3>1. \A x \in Items(t) : BucketOf(t, x.hashval) \in 1 .. NumBuckets(t)
      BY Places, Zenon
    <3>2. \A x \in Items(t) : 1 <= BucketOf(t, x.hashval)
      BY <3>1
    <3> QED
      BY <3>2, Zenon
  <2>3. 1 \in Nat \ {0}
    OBVIOUS
  <2>4. /\ From = {} => g = NULL
        /\ From # {} => g \in From /\ \A x \in From : x = g \/ Before(t, g, x)
    BY <2>3, FirstOfTheRest, Zenon
  <2> HIDE DEF From, f, g, R
  <2> QED
    BY <2>1, <2>2, <2>4, Zenon DEF g
<1>4. CASE cur # NULL
  <2> DEFINE b == BucketOf(t, cur.hashval)
             c == Chain(t, cur)
             p == Place(c, cur)
             From == {x \in Items(t) : b + 1 <= BucketOf(t, x.hashval)}
             g == FirstFrom(t, b + 1)
  <2>1. cur \in Items(t) /\ R = {x \in Items(t) : Before(t, cur, x)}
    BY <1>4, Zenon DEF Rest
  <2>2. /\ b \in 1 .. NumBuckets(t) /\ c \in Seq(EntryOf(D)) /\ c = t.buckets[b] /\ p \in 1 .. Len(c) /\ c[p] = cur
        /\ b \in Nat /\ p \in Nat /\ Len(c) \in Nat
    BY <2>1, Places, Zenon
  <2>3. f = IF p < Len(c) THEN c[p + 1] ELSE g
    BY <1>4, Zenon DEF hash_table_next, Chain
  <2>4. \A x \in Items(t) : /\ BucketOf(t, x.hashval) \in Nat /\ Place(Chain(t, x), x) \in 1 .. Len(Chain(t, x))
                            /\ Chain(t, x) = t.buckets[BucketOf(t, x.hashval)] /\ Len(Chain(t, x)) \in Nat
                            /\ Chain(t, x)[Place(Chain(t, x), x)] = x
    BY Places, Zenon
  <2>5. /\ From = {} => g = NULL
        /\ From # {} => g \in From /\ \A x \in From : x = g \/ Before(t, g, x)
    <3>1. b + 1 \in Nat \ {0}
      BY <2>2
    <3> HIDE DEF b
    <3> QED
      BY <3>1, FirstOfTheRest, Zenon
  <2>6. \A x \in Items(t) : Before(t, cur, x) <=> b < BucketOf(t, x.hashval) \/ (b = BucketOf(t, x.hashval)
        /\ p < Place(Chain(t, x), x))
    BY Zenon DEF Before
  <2> HIDE DEF b, c, p, f, g, R
  <2>7. CASE p < Len(c)
    <3>1. p + 1 \in 1 .. Len(c) /\ p < p + 1
      BY <2>2, <2>7
    <3>2. f = c[p + 1]
      BY <2>3, <2>7
    <3>3. f \in Items(t)
      <4>1. p + 1 \in 1 .. Len(t.buckets[b]) /\ f = t.buckets[b][p + 1]
        BY <2>2, <3>1, <3>2, Zenon
      <4> QED
        BY <2>2, <4>1, TableItems, Zenon
    <3>4. BucketOf(t, f.hashval) = b /\ Place(Chain(t, f), f) = p + 1
      BY <2>2, <3>1, <3>2, <3>3, OnlyPlace, Zenon
    <3>5. f \in R
      BY <2>1, <2>6, <3>1, <3>3, <3>4, Zenon
    <3>6. ASSUME NEW x \in R, x # f PROVE Before(t, f, x)
      <4> DEFINE h == BucketOf(t, x.hashval)
                 q == Place(Chain(t, x), x)
      <4>1. x \in Items(t) /\ (b < h \/ (b = h /\ p < q))
        BY <2>1, <2>6, <3>6, Zenon
      <4>2. h \in Nat /\ q \in 1 .. Len(Chain(t, x)) /\ Chain(t, x) = t.buckets[h] /\ Chain(t, x)[q] = x
            /\ Len(Chain(t, x)) \in Nat
        BY <2>4, <4>1, Zenon
      <4>3. b = h => q # p + 1
        <5> SUFFICES ASSUME b = h, q = p + 1 PROVE FALSE
          BY Zenon
        <5>1. Chain(t, x) = c
          BY <2>2, <4>2, Zenon
        <5> QED
          BY <3>2, <3>6, <4>2, <5>1, Zenon
      <4> HIDE DEF h, q
      <4>4. b < h \/ (b = h /\ p + 1 < q)
        BY <2>2, <4>1, <4>2, <4>3
      <4> QED
        BY <3>4, <4>4, Zenon DEF Before, h, q
    <3> QED
      BY <3>5, <3>6, Zenon
  <2>8. CASE ~(p < Len(c))
    <3>1. R = From
      <4>1. ASSUME NEW x \in Items(t) PROVE Before(t, cur, x) <=> b + 1 <= BucketOf(t, x.hashval)
        <5> DEFINE h == BucketOf(t, x.hashval)
                   q == Place(Chain(t, x), x)
        <5>1. h \in Nat /\ q \in 1 .. Len(Chain(t, x)) /\ Chain(t, x) = t.buckets[h] /\ Len(Chain(t, x)) \in Nat
          BY <2>4, Zenon
        <5>2. b = h => Chain(t, x) = c
          BY <2>2, <5>1, Zenon
        <5>3. Before(t, cur, x) <=> b < h \/ (b = h /\ p < q)
          BY <2>6, Zenon
        <5> HIDE DEF h, q
        <5>4. ~(b = h /\ p < q)
          BY <2>2, <2>8, <5>1, <5>2
        <5>5. b < h <=> b + 1 <= h
          BY <2>2, <5>1
        <5> QED
          BY <5>3, <5>4, <5>5, Zenon DEF h
      <4> QED
        BY <2>1, <4>1, Zenon
    <3>2. f = g
      BY <2>3, <2>8, Zenon
    <3> HIDE DEF From
    <3> QED
      BY <2>5, <3>1, <3>2, Zenon
  <2> QED
    BY <2>7, <2>8
<1> QED
  BY <1>3, <1>4

(* The iterator stays among the items.                                     *)
LEMMA NextIs ==
    ASSUME NEW D, NEW t \in ShapesOf(D), NEW cur \in Items(t) \cup {NULL}
    PROVE  hash_table_next(t, cur) \in Items(t) \cup {NULL}
<1>1. /\ Rest(t, cur) = {} => hash_table_next(t, cur) = NULL
      /\ Rest(t, cur) # {} => hash_table_next(t, cur) \in Items(t)
  BY NextOfTheRest, Zenon
<1> QED
  BY <1>1, Zenon

(* A loop over the iterator goes from item to item.                        *)
LEMMA SeesSteps ==
    ASSUME NEW D, NEW t \in ShapesOf(D)
    PROVE  \E f : /\ f \in [0 .. t.num_entries -> (Items(t) \cup {NULL})] /\ f[0] = hash_table_next(t, NULL)
                  /\ \A i \in 1 .. t.num_entries : f[i] = IF f[i - 1] = NULL THEN NULL ELSE hash_table_next(t, f[i - 1])
                  /\ (SeesEachItem(t) <=> {f[i] : i \in 0 .. t.num_entries - 1} = Items(t) /\ f[t.num_entries] = NULL)
<1> DEFINE N == t.num_entries
           S == (Items(t) \cup {NULL})
           a == hash_table_next(t, NULL)
           Round(i, x) == IF x = NULL THEN NULL ELSE hash_table_next(t, x)
           step == [p \in (1 .. N) \X S |-> Round(p[1], p[2])]
           g == CHOOSE f : f = [i \in 0 .. N |-> IF i = 0 THEN a ELSE Round(i, f[i - 1])]
<1>1. N \in Nat
  BY Shape
<1>2. a \in S
  BY NextIs, Zenon
<1>3. \A i \in 1 .. N, x \in S : Round(i, x) \in S
  BY NextIs, Zenon
<1>4. SeesEachItem(t) <=> {g[i] : i \in 0 .. N - 1} = Items(t) /\ g[N] = NULL
  BY Zenon DEF SeesEachItem
<1> HIDE DEF N, S, a, Round
<1>5. step \in [(1 .. N) \X S -> S]
  BY <1>3
<1>6. \A i \in 1 .. N, x \in S : step[<<i, x>>] = Round(i, x)
  OBVIOUS
<1> HIDE DEF step
<1>7. PICK f : Computes(f, N, S, a, step)
  BY <1>1, <1>2, <1>5, LoopComputes, Zenon
<1>8. f \in [0 .. N -> S] /\ f[0] = a /\ \A i \in 1 .. N : f[i] = step[<<i, f[i - 1]>>]
  BY <1>7, Zenon DEF Computes
<1>9. /\ 0 \in 0 .. N /\ N \in 0 .. N
      /\ \A i \in 1 .. N : i \in 0 .. N /\ i - 1 \in 0 .. N /\ i # 0
      /\ \A i \in 0 .. N : i = 0 \/ i \in 1 .. N
  BY <1>1
<1>10. \A i \in 1 .. N : f[i] = Round(i, f[i - 1])
  BY <1>6, <1>8, <1>9, Zenon
<1>11. f = [i \in 0 .. N |-> IF i = 0 THEN a ELSE Round(i, f[i - 1])]
  BY <1>8, <1>9, <1>10
<1>12. g = [i \in 0 .. N |-> IF i = 0 THEN a ELSE Round(i, g[i - 1])]
  BY <1>11, Zenon
<1> HIDE DEF g
<1>13. g[0] = a /\ \A i \in 1 .. N : g[i] = Round(i, g[i - 1])
  BY <1>9, <1>12, Zenon
<1>14. \A i \in 0 .. N : g[i] = f[i]
  <2> DEFINE Same == {i \in 0 .. N : g[i] = f[i]}
  <2>1. 0 \in Same
    BY <1>8, <1>9, <1>13
  <2>2. \A i \in 1 .. N : i - 1 \in Same => i \in Same
    BY <1>9, <1>10, <1>13, Zenon
  <2> HIDE DEF Same
  <2>3. 0 .. N \subseteq Same
    BY <1>1, <2>1, <2>2, UpTo, Zenon
  <2> QED
    BY <2>3 DEF Same
<1>15. SeesEachItem(t) <=> {f[i] : i \in 0 .. N - 1} = Items(t) /\ f[N] = NULL
  <2>1. \A i \in 0 .. N - 1 : i \in 0 .. N
    BY <1>1
  <2>2. {g[i] : i \in 0 .. N - 1} = {f[i] : i \in 0 .. N - 1}
    BY <1>14, <2>1, Zenon
  <2> QED
    BY <1>4, <1>9, <1>14, <2>2, Zenon
<1> QED
  BY <1>8, <1>10, <1>15, Zenon DEF N, S, a, Round

(* The rest of an item that is left is one less.                           *)
LEMMA OneLess ==
    ASSUME NEW D, NEW t \in ShapesOf(D), NEW cur \in Items(t) \cup {NULL}, NEW m \in Int,
           Cardinality(Rest(t, cur)) = m
    PROVE  LET f == hash_table_next(t, cur)
           IN  /\ m >= 0 /\ IsFiniteSet(Rest(t, cur))
               /\ m = 0 => f = NULL /\ Rest(t, cur) = {}
               /\ m # 0 => /\ f \in Items(t) /\ f # NULL /\ Rest(t, cur) = {f} \cup Rest(t, f)
                           /\ Cardinality(Rest(t, f)) = m - 1
<1> DEFINE f == hash_table_next(t, cur)
           R == Rest(t, cur)
           Q == Rest(t, f)
<1>1. IsFiniteSet(Items(t))
  BY Shape, Zenon
<1>2. R \subseteq Items(t) /\ Q \subseteq Items(t)
  BY Zenon DEF Rest
<1>3. /\ R = {} => f = NULL
      /\ R # {} => f \in R /\ f \in Items(t) /\ f # NULL /\ f \notin Q /\ R = {f} \cup Q
  BY NextOfTheRest, Zenon
<1>4. Cardinality(R) = m
  OBVIOUS
<1> HIDE DEF R, Q, f
<1>5. IsFiniteSet(R) /\ IsFiniteSet(Q)
  BY <1>1, <1>2, FS_Subset
<1>6. Cardinality(R) \in Nat /\ (Cardinality(R) = 0 <=> R = {})
  BY <1>5, FS_CardinalityType, FS_EmptySet
<1>7. CASE R = {}
  BY <1>3, <1>4, <1>5, <1>6, <1>7 DEF R, Q, f
<1>8. CASE R # {}
  <2>1. Cardinality(Q \cup {f}) = Cardinality(Q) + 1 /\ Cardinality(Q) \in Nat
    BY <1>3, <1>5, <1>8, FS_AddElement, FS_CardinalityType
  <2>2. Q \cup {f} = R
    BY <1>3, <1>8
  <2>3. Cardinality(Q) = m - 1 /\ m # 0 /\ m >= 0
    <3>1. Cardinality(Q \cup {f}) = Cardinality(R)
      BY <2>2, Zenon
    <3> DEFINE q == Cardinality(Q)
    <3>2. q \in Nat /\ m = q + 1
      BY <1>4, <2>1, <3>1
    <3> HIDE DEF q
    <3>3. q = m - 1 /\ m # 0 /\ m >= 0
      BY <3>2
    <3> QED
      BY <3>3 DEF q
  <2> QED
    BY <1>3, <1>5, <1>8, <2>3, Zenon DEF R, Q, f
<1> QED
  BY <1>7, <1>8

(* A loop over the iterator sees every item and then the end.              *)
LEMMA SeesAll ==
    ASSUME NEW D, NEW t \in ShapesOf(D)
    PROVE  SeesEachItem(t)
<1> DEFINE N == t.num_entries
<1>1. PICK f : /\ f \in [0 .. N -> (Items(t) \cup {NULL})] /\ f[0] = hash_table_next(t, NULL)
               /\ \A i \in 1 .. N : f[i] = IF f[i - 1] = NULL THEN NULL ELSE hash_table_next(t, f[i - 1])
               /\ (SeesEachItem(t) <=> {f[i] : i \in 0 .. N - 1} = Items(t) /\ f[N] = NULL)
  BY SeesSteps, Zenon
<1>2. N \in Nat /\ N = Cardinality(Items(t))
  BY Shape, Zenon
<1>3. 0 \in 0 .. N /\ N \in 0 .. N /\ \A i \in 1 .. N : i \in 0 .. N /\ i - 1 \in 0 .. N
  BY <1>2
<1> DEFINE Seen(i) == {f[k] : k \in 0 .. i}
           Good == {i \in 0 .. N :
                      IF f[i] = NULL THEN i = N /\ Seen(i - 1) = Items(t)
                      ELSE /\ Seen(i) \cup Rest(t, f[i]) = Items(t)
                           /\ Cardinality(Rest(t, f[i])) = N - i - 1}
<1>4. \A i \in 0 .. N : f[i] \in Items(t) \cup {NULL}
  BY <1>1, Zenon
<1>5. Rest(t, NULL) = Items(t)
  BY Zenon DEF Rest
<1>6. Seen(-1) = {} /\ Seen(0) = {f[0]} /\ \A i \in 1 .. N : Seen(i) = Seen(i - 1) \cup {f[i]}
  <2>1. 0 .. -1 = {} /\ 0 .. 0 = {0}
    OBVIOUS
  <2>2. ASSUME NEW i \in 1 .. N PROVE Seen(i) = Seen(i - 1) \cup {f[i]}
    <3>1. 0 .. i = (0 .. i - 1) \cup {i}
      BY <1>2
    <3> QED
      BY <3>1, Zenon
  <2>3. Seen(-1) = {} /\ Seen(0) = {f[0]}
    BY <2>1, Zenon
  <2> QED
    BY <2>2, <2>3, Zenon
<1> HIDE DEF N, Seen
<1>7. 0 \in Good
  <2>1. /\ N = 0 => f[0] = NULL /\ Items(t) = {}
        /\ N # 0 => f[0] # NULL /\ Items(t) = {f[0]} \cup Rest(t, f[0]) /\ Cardinality(Rest(t, f[0])) = N - 1
    <3>1. N \in Int /\ NULL \in Items(t) \cup {NULL} /\ Cardinality(Rest(t, NULL)) = N
      BY <1>2, <1>5
    <3> DEFINE h == hash_table_next(t, NULL)
    <3>2. /\ N = 0 => h = NULL /\ Rest(t, NULL) = {}
          /\ N # 0 => h # NULL /\ Rest(t, NULL) = {h} \cup Rest(t, h) /\ Cardinality(Rest(t, h)) = N - 1
      BY <3>1, OneLess, Zenon
    <3> QED
      BY <1>1, <1>5, <3>2, Zenon
  <2>2. CASE N = 0
    <3>1. f[0] = NULL /\ Seen(0 - 1) = Items(t)
      <4>1. 0 - 1 = -1
        OBVIOUS
      <4> QED
        BY <1>6, <2>1, <2>2, <4>1, Zenon
    <3> QED
      BY <1>3, <2>2, <3>1, Zenon
  <2>3. CASE N # 0
    <3>1. N - 0 - 1 = N - 1
      BY <1>2
    <3> QED
      BY <1>3, <1>6, <2>1, <2>3, <3>1, Zenon
  <2> QED
    BY <2>2, <2>3
<1>8. ASSUME NEW i \in 1 .. N, i - 1 \in Good PROVE i \in Good
  <2> DEFINE c == f[i - 1]
             h == hash_table_next(t, c)
             m == N - i
  <2>1. i \in 0 .. N /\ i - 1 \in 0 .. N /\ i - 1 # N /\ N - (i - 1) - 1 = m /\ m \in Int /\ (m = 0 <=> i = N)
        /\ N - i - 1 = m - 1
    BY <1>2
  <2>2. c # NULL /\ Seen(i - 1) \cup Rest(t, c) = Items(t) /\ Cardinality(Rest(t, c)) = m
    BY <1>8, <2>1, Zenon
  <2>3. c \in Items(t) \cup {NULL}
    BY <1>4, <2>1, Zenon
  <2>4. f[i] = h
    BY <1>1, <2>2, Zenon DEF N
  <2>5. /\ m = 0 => h = NULL /\ Rest(t, c) = {}
        /\ m # 0 => h # NULL /\ Rest(t, c) = {h} \cup Rest(t, h) /\ Cardinality(Rest(t, h)) = m - 1
    <3> HIDE DEF c, m
    <3> QED
      BY <2>1, <2>2, <2>3, OneLess, Zenon
  <2>6. Seen(i) = Seen(i - 1) \cup {h}
    BY <1>6, <2>4, Zenon
  <2>7. CASE m = 0
    <3>1. f[i] = NULL /\ i = N /\ Seen(i - 1) = Items(t)
      <4> HIDE DEF c, h, m
      <4> QED
        BY <2>1, <2>2, <2>4, <2>5, <2>7
    <3> QED
      BY <2>1, <3>1, Zenon
  <2>8. CASE m # 0
    <3>1. f[i] # NULL /\ Seen(i) \cup Rest(t, f[i]) = Items(t) /\ Cardinality(Rest(t, f[i])) = N - i - 1
      <4> HIDE DEF c, h, m
      <4> QED
        BY <2>1, <2>2, <2>4, <2>5, <2>6, <2>8
    <3> QED
      BY <2>1, <3>1, Zenon
  <2> QED
    BY <2>7, <2>8
<1>9. N \in Good
  <2>1. 0 .. N \subseteq Good
    <3> HIDE DEF Good
    <3> QED
      BY <1>2, <1>7, <1>8, UpTo
  <2> QED
    BY <1>3, <2>1, Zenon
<1>10. f[N] = NULL
  <2> SUFFICES ASSUME f[N] # NULL PROVE FALSE
    BY Zenon
  <2>1. Cardinality(Rest(t, f[N])) = N - N - 1
    BY <1>9, Zenon
  <2>2. N - N - 1 = -1 /\ -1 \in Int
    BY <1>2
  <2>3. f[N] \in Items(t) \cup {NULL}
    BY <1>3, <1>4, Zenon
  <2>4. -1 >= 0
    BY <2>1, <2>2, <2>3, OneLess
  <2> QED
    BY <2>4
<1>11. Seen(N - 1) = Items(t)
  BY <1>9, <1>10, Zenon
<1> QED
  BY <1>1, <1>10, <1>11, Zenon DEF Seen, N

(* What every table that is built this way keeps to.                       *)
LEMMA TablesAreWellFormed ==
    ASSUME NEW D, NEW t \in TablesOf(D)
    PROVE  WellFormed(t)
<1> DEFINE n == NumBuckets(t)
           B == t.buckets
<1>1. t \in ShapesOf(D) /\ Roomy(t)
  BY Zenon DEF TablesOf
<1>2. /\ DOMAIN B = 1 .. n /\ Placed(B, n) /\ t.num_entries = Cardinality(Items(t))
      /\ \A j \in 1 .. n : B[j] \in Seq(EntryOf(D))
  BY <1>1, Shape, TableItems, Zenon
<1>3. \A j \in 1 .. n : DOMAIN B[j] = 1 .. Len(B[j])
  BY <1>2, ChainItems, Zenon
<1> HIDE DEF B
<1>4. ASSUME NEW j \in DOMAIN B, NEW i \in DOMAIN B[j], NEW k \in DOMAIN B[j]
      PROVE  /\ B[j][i].hashval = HashVal[B[j][i].key] /\ BucketOf(t, B[j][i].hashval) = j
             /\ B[j][i].key = B[j][k].key => i = k
  <2>1. j \in 1 .. n /\ i \in 1 .. Len(B[j]) /\ k \in 1 .. Len(B[j])
    BY <1>2, <1>3, Zenon
  <2>2. Hashed(B[j][i]) /\ Bucket(B[j][i].hashval, n) = j /\ (B[j][i].key = B[j][k].key => i = k)
    BY <1>2, <2>1, Zenon DEF Placed
  <2> QED
    BY <2>2, Zenon DEF Hashed, BucketOf
<1>5. InPlace(t)
  BY <1>1, <1>2, <1>4, Zenon DEF InPlace, Roomy, B
<1> QED
  BY <1>1, <1>5, SeesAll, Zenon DEF WellFormed

(* When an item is taken out, the others of its chain move up.             *)
LEMMA PlacesAfter ==
    ASSUME NEW D, NEW t \in ShapesOf(D), NEW e \in Items(t), NEW x \in Items(t), x # e
    PROVE  LET u == Unlinked(t, e)
               p == Place(Chain(t, e), e)
               q == Place(Chain(t, x), x)
           IN  /\ x \in Items(u) /\ BucketOf(u, x.hashval) = BucketOf(t, x.hashval)
               /\ Place(Chain(u, x), x) = IF BucketOf(t, x.hashval) = BucketOf(t, e.hashval) /\ p < q THEN q - 1 ELSE q
               /\ BucketOf(t, x.hashval) = BucketOf(t, e.hashval) => p # q
<1> DEFINE u == Unlinked(t, e)
           n == NumBuckets(t)
           h == BucketOf(t, x.hashval)
           j == BucketOf(t, e.hashval)
           p == Place(Chain(t, e), e)
           q == Place(Chain(t, x), x)
           s == Chain(t, x)
           C == u.buckets
           r == IF h = j /\ p < q THEN q - 1 ELSE q
<1>1. /\ u \in ShapesOf(D) /\ Items(u) = Items(t) \ {e} /\ u.choice = t.choice
  BY Unlinks, Zenon
<1>2. NumBuckets(u) = n /\ \A k : BucketOf(u, k) = BucketOf(t, k)
  BY <1>1, Zenon DEF NumBuckets, BucketOf
<1>3. /\ h \in 1 .. n /\ s \in Seq(EntryOf(D)) /\ s = t.buckets[h] /\ q \in 1 .. Len(s) /\ s[q] = x
      /\ q \in Nat /\ Len(s) \in Nat
  BY Places, Zenon
<1>4. /\ j \in 1 .. n /\ Chain(t, e) = t.buckets[j] /\ p \in 1 .. Len(Chain(t, e)) /\ Chain(t, e)[p] = e /\ p \in Nat
  BY Places, Zenon
<1>5. /\ \A k \in 1 .. n : k # j => C[k] = t.buckets[k]
      /\ Len(C[j]) = Len(Chain(t, e)) - 1
      /\ \A i \in 1 .. Len(Chain(t, e)) - 1 : C[j][i] = IF i < p THEN Chain(t, e)[i] ELSE Chain(t, e)[i + 1]
  BY UnlinksFrom, Zenon DEF Chain
<1>6. x \in Items(u)
  BY <1>1, Zenon
<1>7. h = j => p # q
  <2> SUFFICES ASSUME h = j, p = q PROVE FALSE
    BY Zenon
  <2>1. s = Chain(t, e)
    BY <1>3, <1>4, Zenon
  <2> QED
    BY <1>3, <1>4, <2>1, Zenon
<1> HIDE DEF u, n, h, j, p, q, s, C
<1>8. r \in 1 .. Len(C[h]) /\ C[h][r] = x
  <2>1. CASE h # j
    BY <1>3, <1>5, <2>1, Zenon
  <2>2. CASE h = j
    <3>1. s = Chain(t, e)
      BY <1>3, <1>4, <2>2, Zenon
    <3>2. /\ Len(C[h]) = Len(s) - 1 /\ p \in 1 .. Len(s)
          /\ \A i \in 1 .. Len(s) - 1 : C[h][i] = IF i < p THEN s[i] ELSE s[i + 1]
      BY <1>4, <1>5, <2>2, <3>1, Zenon
    <3>3. CASE p < q
      <4>1. q - 1 \in 1 .. Len(s) - 1 /\ ~(q - 1 < p) /\ (q - 1) + 1 = q
        BY <1>3, <3>2, <3>3
      <4>2. C[h][q - 1] = s[(q - 1) + 1]
        BY <3>2, <4>1, Zenon
      <4> QED
        BY <1>3, <2>2, <3>2, <3>3, <4>1, <4>2, Zenon
    <3>4. CASE ~(p < q)
      <4>1. q \in 1 .. Len(s) - 1 /\ q < p
        BY <1>3, <1>4, <1>7, <2>2, <3>2, <3>4
      <4>2. C[h][q] = s[q]
        BY <3>2, <4>1, Zenon
      <4> QED
        BY <1>3, <2>2, <3>2, <3>4, <4>1, <4>2, Zenon
    <3> QED
      BY <3>3, <3>4
  <2> QED
    BY <2>1, <2>2
<1>9. Place(Chain(u, x), x) = r
  <2> HIDE DEF r
  <2>1. h \in 1 .. NumBuckets(u) /\ r \in 1 .. Len(u.buckets[h]) /\ u.buckets[h][r] = x
    BY <1>2, <1>3, <1>8, Zenon DEF C
  <2> QED
    BY <1>1, <1>6, <2>1, OnlyPlace, Zenon
<1> QED
  BY <1>2, <1>6, <1>7, <1>9, Zenon DEF u, h, j, p, q

(* What is left to see after an item does not change when an item that was *)
(* seen before is taken out.                                               *)
LEMMA RestAfter ==
    ASSUME NEW D, NEW t \in ShapesOf(D), NEW e \in Items(t), NEW x \in Rest(t, e)
    PROVE  x \in Items(Unlinked(t, e)) /\ Rest(Unlinked(t, e), x) = Rest(t, x)
<1> DEFINE u == Unlinked(t, e)
           b(y) == BucketOf(t, y.hashval)
           P(y) == Place(Chain(t, y), y)
           Q(y) == Place(Chain(u, y), y)
<1>1. e # NULL /\ x # NULL /\ x \in Items(t) /\ Before(t, e, x)
  BY TableItems, EntryIsNotNull, Zenon DEF Rest
<1>2. x # e
  BY <1>1, OrderOfItems, Zenon
<1>3. Items(u) = Items(t) \ {e}
  BY Unlinks, Zenon
<1>4. \A y \in Items(t) : y # e => /\ BucketOf(u, y.hashval) = b(y)
                                   /\ Q(y) = IF b(y) = b(e) /\ P(e) < P(y) THEN P(y) - 1 ELSE P(y)
                                   /\ b(y) = b(e) => P(e) # P(y)
  BY PlacesAfter, Zenon
<1>5. \A y \in Items(t) : b(y) \in Nat /\ P(y) \in Nat
  BY Places, Zenon
<1>6. \A y, z : Before(t, y, z) <=> b(y) < b(z) \/ (b(y) = b(z) /\ P(y) < P(z))
  BY Zenon DEF Before
<1>7. \A y, z : Before(u, y, z) <=> BucketOf(u, y.hashval) < BucketOf(u, z.hashval)
                                    \/ (BucketOf(u, y.hashval) = BucketOf(u, z.hashval) /\ Q(y) < Q(z))
  BY Zenon DEF Before
<1>8. Rest(t, x) = {y \in Items(t) : Before(t, x, y)} /\ Rest(u, x) = {y \in Items(u) : Before(u, x, y)}
  BY <1>1, Zenon DEF Rest
<1> HIDE DEF u, b, P, Q
<1>9. ~ Before(t, x, e)
  BY <1>1, <1>5, <1>6
<1>10. ASSUME NEW y \in Items(t), y # e PROVE Before(u, x, y) <=> Before(t, x, y)
  <2> DEFINE be == b(e)  bx == b(x)  by == b(y)  pe == P(e)  px == P(x)  py == P(y)  qx == Q(x)  qy == Q(y)
  <2>1. be \in Nat /\ bx \in Nat /\ by \in Nat /\ pe \in Nat /\ px \in Nat /\ py \in Nat
    BY <1>1, <1>5, Zenon
  <2>2. be < bx \/ (be = bx /\ pe < px)
    BY <1>1, <1>6, Zenon
  <2>3. qx = IF bx = be /\ pe < px THEN px - 1 ELSE px
    BY <1>1, <1>2, <1>4, Zenon
  <2>4. qy = IF by = be /\ pe < py THEN py - 1 ELSE py
    BY <1>4, <1>10, Zenon
  <2>5. by = be => pe # py
    BY <1>4, <1>10, Zenon
  <2>6. Before(t, x, y) <=> bx < by \/ (bx = by /\ px < py)
    BY <1>6, Zenon
  <2>7. Before(u, x, y) <=> bx < by \/ (bx = by /\ qx < qy)
    <3>1. BucketOf(u, x.hashval) = bx /\ BucketOf(u, y.hashval) = by
      BY <1>1, <1>2, <1>4, <1>10, Zenon
    <3> QED
      BY <1>7, <3>1, Zenon
  <2> HIDE DEF be, bx, by, pe, px, py, qx, qy
  <2>8. (bx < by \/ (bx = by /\ qx < qy)) <=> (bx < by \/ (bx = by /\ px < py))
    BY <2>1, <2>2, <2>3, <2>4, <2>5
  <2> QED
    BY <2>6, <2>7, <2>8, Zenon
<1> QED
  BY <1>1, <1>2, <1>3, <1>8, <1>9, <1>10, Zenon DEF u

\* A loop that deletes is at an item of its table, or at the end.
LoopOver(D) == {at \in [table : TablesOf(D), item : EntryOf(D) \cup {NULL}] :
                  at.item \in Items(at.table) \cup {NULL}}

\* A round of the loop.
NextRound(at, kept) ==
    [table |-> IF at.item.key \in kept THEN at.table ELSE hash_table_delete_no_resize(at.table, at.item),
     item  |-> hash_table_next(at.table, at.item)]

(* A round of the loop deletes the item or not, and is at the next one.    *)
LEMMA RoundOf ==
    ASSUME NEW D, NEW kept, NEW at \in LoopOver(D), at.item # NULL
    PROVE  LET z == NextRound(at, kept)
           IN  /\ z \in LoopOver(D) /\ z.item = hash_table_next(at.table, at.item)
               /\ at.item.key \in kept => Items(z.table) = Items(at.table)
               /\ at.item.key \notin kept => Items(z.table) = Items(at.table) \ {at.item}
               /\ z.item # NULL => Rest(z.table, z.item) = Rest(at.table, z.item)
<1> DEFINE t == at.table
           e == at.item
           u == IF e.key \in kept THEN t ELSE hash_table_delete_no_resize(t, e)
           f == hash_table_next(t, e)
<1>1. t \in TablesOf(D) /\ e \in Items(t)
  BY Zenon DEF LoopOver
<1> HIDE DEF t, e
<1>2. t \in ShapesOf(D) /\ Items(t) \subseteq EntryOf(D) /\ e \in Items(t) \cup {NULL}
  BY <1>1, TableItems, Zenon DEF TablesOf
<1>3. /\ Rest(t, e) = {} => f = NULL
      /\ Rest(t, e) # {} => f \in Rest(t, e) /\ f \in Items(t)
  BY <1>2, NextOfTheRest, Zenon
<1>4. /\ hash_table_delete_no_resize(t, e) \in TablesOf(D)
      /\ Items(hash_table_delete_no_resize(t, e)) = Items(t) \ {e}
      /\ hash_table_delete_no_resize(t, e) = Unlinked(t, e)
  BY <1>1, Deletes, Zenon DEF hash_table_delete_no_resize
<1>5. f # NULL => f \in Items(Unlinked(t, e)) /\ Rest(Unlinked(t, e), f) = Rest(t, f)
  BY <1>1, <1>2, <1>3, RestAfter, Zenon
<1> HIDE DEF f
<1>6. u \in TablesOf(D) /\ Items(u) = (IF e.key \in kept THEN Items(t) ELSE Items(t) \ {e})
      /\ (f # NULL => f \in Items(u) /\ Rest(u, f) = Rest(t, f))
  <2>1. CASE e.key \in kept
    BY <1>1, <1>3, <2>1, Zenon
  <2>2. CASE e.key \notin kept
    BY <1>4, <1>5, <2>2, Zenon
  <2> QED
    BY <2>1, <2>2
<1> HIDE DEF u
<1>7. f \in Items(u) \cup {NULL} /\ f \in EntryOf(D) \cup {NULL}
  BY <1>2, <1>3, <1>6, Zenon
<1>8. [table |-> u, item |-> f] \in LoopOver(D)
  <2> DEFINE z == [table |-> u, item |-> f]
  <2>1. z \in [table : TablesOf(D), item : EntryOf(D) \cup {NULL}] /\ z.table = u /\ z.item = f
    BY <1>6, <1>7
  <2> HIDE DEF z
  <2> QED
    BY <1>7, <2>1, Zenon DEF LoopOver, z
<1>9. NextRound(at, kept) = [table |-> u, item |-> f]
  BY Zenon DEF NextRound, t, e, u, f
<1>10. [table |-> u, item |-> f].table = u /\ [table |-> u, item |-> f].item = f
  OBVIOUS
<1> QED
  BY <1>6, <1>8, <1>9, <1>10, Zenon DEF t, e, f

(* A loop that deletes goes on from the item it was at.                    *)
LEMMA DeletingSteps ==
    ASSUME NEW D, NEW t \in TablesOf(D), NEW kept
    PROVE  \E f : /\ f \in [0 .. t.num_entries -> LoopOver(D)] /\ f[0] = [table |-> t, item |-> hash_table_next(t, NULL)]
                  /\ \A i \in 1 .. t.num_entries : f[i] = IF f[i - 1].item = NULL THEN f[i - 1]
                      ELSE NextRound(f[i - 1], kept)
                  /\ DeleteAllBut(t, kept) = f[t.num_entries].table
<1> DEFINE N == t.num_entries
           S == LoopOver(D)
           a == [table |-> t, item |-> hash_table_next(t, NULL)]
           Round(i, x) == IF x.item = NULL THEN x ELSE NextRound(x, kept)
           step == [p \in (1 .. N) \X S |-> Round(p[1], p[2])]
           g == CHOOSE f : f = [i \in 0 .. N |-> IF i = 0 THEN a ELSE Round(i, f[i - 1])]
<1>1. N \in Nat
  <2>1. t \in ShapesOf(D)
    BY Zenon DEF TablesOf
  <2> QED
    BY <2>1, Shape
<1>2. a \in S
  <2> DEFINE f == hash_table_next(t, NULL)
  <2>1. t \in ShapesOf(D)
    BY Zenon DEF TablesOf
  <2>2. f \in Items(t) \cup {NULL} /\ Items(t) \subseteq EntryOf(D)
    BY <2>1, NextIs, TableItems, Zenon
  <2> HIDE DEF f
  <2> DEFINE z == [table |-> t, item |-> f]
  <2>3. z \in [table : TablesOf(D), item : EntryOf(D) \cup {NULL}] /\ z.table = t /\ z.item = f
    BY <2>2
  <2> HIDE DEF z
  <2>4. z \in LoopOver(D)
    BY <2>2, <2>3, Zenon DEF LoopOver
  <2> QED
    BY <2>4, Zenon DEF z, f
<1>3. \A i \in 1 .. N, x \in S : Round(i, x) \in S
  <2> SUFFICES ASSUME NEW x \in S PROVE Round(1, x) \in S
    BY Zenon
  <2>1. CASE x.item = NULL
    BY <2>1, Zenon
  <2>2. CASE x.item # NULL
    BY <2>2, RoundOf, Zenon
  <2> QED
    BY <2>1, <2>2
<1>4. DeleteAllBut(t, kept) = g[N].table
  BY Zenon DEF DeleteAllBut, NextRound
<1> HIDE DEF N, S, a, Round
<1>5. step \in [(1 .. N) \X S -> S]
  BY <1>3
<1>6. \A i \in 1 .. N, x \in S : step[<<i, x>>] = Round(i, x)
  OBVIOUS
<1> HIDE DEF step
<1>7. PICK f : Computes(f, N, S, a, step)
  BY <1>1, <1>2, <1>5, LoopComputes, Zenon
<1>8. f \in [0 .. N -> S] /\ f[0] = a /\ \A i \in 1 .. N : f[i] = step[<<i, f[i - 1]>>]
  BY <1>7, Zenon DEF Computes
<1>9. /\ 0 \in 0 .. N /\ N \in 0 .. N
      /\ \A i \in 1 .. N : i \in 0 .. N /\ i - 1 \in 0 .. N /\ i # 0
      /\ \A i \in 0 .. N : i = 0 \/ i \in 1 .. N
  BY <1>1
<1>10. \A i \in 1 .. N : f[i] = Round(i, f[i - 1])
  BY <1>6, <1>8, <1>9, Zenon
<1>11. f = [i \in 0 .. N |-> IF i = 0 THEN a ELSE Round(i, f[i - 1])]
  BY <1>8, <1>9, <1>10
<1>12. g = [i \in 0 .. N |-> IF i = 0 THEN a ELSE Round(i, g[i - 1])]
  BY <1>11, Zenon
<1> HIDE DEF g
<1>13. g[0] = a /\ \A i \in 1 .. N : g[i] = Round(i, g[i - 1])
  BY <1>9, <1>12, Zenon
<1>14. \A i \in 0 .. N : g[i] = f[i]
  <2> DEFINE Same == {i \in 0 .. N : g[i] = f[i]}
  <2>1. 0 \in Same
    BY <1>8, <1>9, <1>13
  <2>2. \A i \in 1 .. N : i - 1 \in Same => i \in Same
    BY <1>9, <1>10, <1>13, Zenon
  <2> HIDE DEF Same
  <2>3. 0 .. N \subseteq Same
    BY <1>1, <2>1, <2>2, UpTo, Zenon
  <2> QED
    BY <2>3 DEF Same
<1>15. DeleteAllBut(t, kept) = f[N].table
  BY <1>4, <1>9, <1>14, Zenon
<1> QED
  BY <1>8, <1>10, <1>15, Zenon DEF N, S, a, Round

(* The loop deletes all items but the kept ones.                           *)
LEMMA KeepsOnly ==
    ASSUME NEW D, NEW t \in TablesOf(D), NEW kept
    PROVE  /\ DeleteAllBut(t, kept) \in TablesOf(D)
           /\ Items(DeleteAllBut(t, kept)) = {e \in Items(t) : e.key \in kept}
<1> DEFINE N == t.num_entries
<1>1. PICK f : /\ f \in [0 .. N -> LoopOver(D)] /\ f[0] = [table |-> t, item |-> hash_table_next(t, NULL)]
               /\ \A i \in 1 .. N : f[i] = IF f[i - 1].item = NULL THEN f[i - 1] ELSE NextRound(f[i - 1], kept)
               /\ DeleteAllBut(t, kept) = f[N].table
  BY DeletingSteps
<1>2. t \in ShapesOf(D)
  BY Zenon DEF TablesOf
<1>3. N \in Nat /\ N = Cardinality(Items(t))
  BY <1>2, Shape, Zenon
<1>4. 0 \in 0 .. N /\ N \in 0 .. N /\ \A i \in 1 .. N : i \in 0 .. N /\ i - 1 \in 0 .. N
  BY <1>3
<1> DEFINE u(i) == f[i].table
           c(i) == f[i].item
           Left(i) == /\ Items(u(i)) \subseteq Items(t)
                      /\ \A e \in Items(t) : e.key \in kept => e \in Items(u(i))
           Done(i) == \A e \in Items(u(i)) : e.key \in kept
           Going(i) == /\ \A e \in Items(u(i)) : e.key \in kept \/ e = c(i) \/ e \in Rest(u(i), c(i))
                       /\ Cardinality(Rest(u(i), c(i))) \in Int
                       /\ Cardinality(Rest(u(i), c(i))) <= N - i - 1
           Good == {i \in 0 .. N : Left(i) /\ IF c(i) = NULL THEN Done(i) ELSE Going(i)}
<1>5. \A i \in 0 .. N : /\ f[i] \in LoopOver(D) /\ u(i) \in TablesOf(D) /\ u(i) \in ShapesOf(D)
                        /\ c(i) \in Items(u(i)) \cup {NULL}
  <2>1. \A i \in 0 .. N : f[i] \in LoopOver(D)
    BY <1>1, Zenon
  <2>2. \A z \in LoopOver(D) : z.table \in TablesOf(D) /\ z.item \in Items(z.table) \cup {NULL}
    BY Zenon DEF LoopOver
  <2> QED
    BY <2>1, <2>2, Zenon DEF TablesOf
<1>6. ASSUME NEW at \in LoopOver(D), at.item # NULL
      PROVE  /\ NextRound(at, kept).item = hash_table_next(at.table, at.item)
             /\ at.item.key \in kept => Items(NextRound(at, kept).table) = Items(at.table)
             /\ at.item.key \notin kept => Items(NextRound(at, kept).table) = Items(at.table) \ {at.item}
             /\ NextRound(at, kept).item # NULL =>
                  Rest(NextRound(at, kept).table, NextRound(at, kept).item) = Rest(at.table, NextRound(at, kept).item)
  <2> HIDE DEF u, c
  <2> QED
    BY <1>6, RoundOf
<1> HIDE DEF N
<1>7. 0 \in Good
  <2> DEFINE g == hash_table_next(t, NULL)
  <2>1. u(0) = t /\ c(0) = g
    BY <1>1
  <2>2. Left(0)
    BY <2>1, Zenon
  <2>3. N \in Int /\ NULL \in Items(t) \cup {NULL} /\ Rest(t, NULL) = Items(t) /\ Cardinality(Rest(t, NULL)) = N
    <3>1. Rest(t, NULL) = Items(t)
      BY Zenon DEF Rest
    <3> QED
      BY <1>3, <3>1
  <2>4. /\ N = 0 => g = NULL /\ Rest(t, NULL) = {}
        /\ N # 0 => g # NULL /\ Rest(t, NULL) = {g} \cup Rest(t, g) /\ Cardinality(Rest(t, g)) = N - 1
    BY <1>2, <2>3, OneLess, Zenon
  <2> HIDE DEF g
  <2>5. CASE N = 0
    <3>1. c(0) = NULL /\ Done(0)
      BY <2>1, <2>3, <2>4, <2>5, Zenon
    <3> QED
      BY <1>4, <2>2, <3>1, Zenon
  <2>6. CASE N # 0
    <3>1. N - 1 \in Int /\ N - 1 <= N - 0 - 1
      BY <1>3
    <3>2. \A e \in Items(t) : e = g \/ e \in Rest(t, g)
      BY <2>3, <2>4, <2>6, Zenon
    <3>3. c(0) # NULL /\ Going(0)
      BY <2>1, <2>4, <2>6, <3>1, <3>2, Zenon
    <3> QED
      BY <1>4, <2>2, <3>3, Zenon
  <2> QED
    BY <2>5, <2>6
<1>8. ASSUME NEW i \in 1 .. N, i - 1 \in Good PROVE i \in Good
  <2> DEFINE v == u(i - 1)
             d == c(i - 1)
             w == u(i)
             g == hash_table_next(v, d)
  <2>1. i \in 0 .. N /\ i - 1 \in 0 .. N
    BY <1>4, Zenon
  <2>2. v \in TablesOf(D) /\ v \in ShapesOf(D) /\ d \in Items(v) \cup {NULL} /\ f[i - 1] \in LoopOver(D) /\ Left(i - 1)
    BY <1>5, <1>8, <2>1, Zenon
  <2>3. CASE d = NULL
    <3>1. f[i] = f[i - 1]
      BY <1>1, <2>3, Zenon DEF N
    <3>2. Done(i - 1)
      BY <1>8, <2>3, Zenon
    <3> QED
      BY <2>1, <2>2, <2>3, <3>1, <3>2, Zenon
  <2>4. CASE d # NULL
    <3>1. f[i] = NextRound(f[i - 1], kept)
      BY <1>1, <2>4, Zenon DEF N
    <3>2. /\ NextRound(f[i - 1], kept).item = g
          /\ Items(NextRound(f[i - 1], kept).table) = IF d.key \in kept THEN Items(v) ELSE Items(v) \ {d}
          /\ g # NULL => Rest(NextRound(f[i - 1], kept).table, g) = Rest(v, g)
      BY <1>6, <2>2, <2>4, Zenon
    <3>3. c(i) = g
      BY <3>1, <3>2, Zenon
    <3>4. /\ Items(w) = IF d.key \in kept THEN Items(v) ELSE Items(v) \ {d}
          /\ g # NULL => Rest(w, g) = Rest(v, g)
      BY <3>1, <3>2, <3>3, Zenon
    <3>5. Going(i - 1)
      BY <1>8, <2>4, Zenon
    <3> DEFINE R == Rest(v, d)
               m == Cardinality(R)
    <3>6. m \in Int /\ m <= N - (i - 1) - 1 /\ (\A e \in Items(v) : e.key \in kept \/ e = d \/ e \in R)
      BY <3>5, Zenon
    <3>7. /\ m = 0 => g = NULL /\ R = {}
          /\ m # 0 => g # NULL /\ R = {g} \cup Rest(v, g) /\ Cardinality(Rest(v, g)) = m - 1
      <4> HIDE DEF v, d
      <4> QED
        BY <2>2, <3>6, OneLess, Zenon
    <3>8. Left(i)
      <4>1. Items(v) \subseteq Items(t) /\ \A e \in Items(t) : e.key \in kept => e \in Items(v)
        BY <2>2, Zenon
      <4> HIDE DEF v, w, d
      <4>2. Items(w) \subseteq Items(t) /\ \A e \in Items(t) : e.key \in kept => e \in Items(w)
        BY <3>4, <4>1
      <4> QED
        BY <4>2, Zenon DEF w
    <3> HIDE DEF v, d, w, g, R, m
    <3>9. CASE m = 0
      <4>1. \A e \in Items(w) : e.key \in kept
        BY <3>4, <3>6, <3>7, <3>9
      <4>2. c(i) = NULL /\ Done(i)
        BY <3>3, <3>7, <3>9, <4>1, Zenon DEF w
      <4> QED
        BY <2>1, <3>8, <4>2, Zenon
    <3>10. CASE m # 0
      <4>1. \A e \in Items(w) : e.key \in kept \/ e = g \/ e \in Rest(w, g)
        BY <3>4, <3>6, <3>7, <3>10
      <4>2. g # NULL /\ Cardinality(Rest(w, g)) = m - 1
        BY <3>4, <3>7, <3>10, Zenon
      <4>3. m - 1 \in Int /\ m - 1 <= N - i - 1
        BY <1>3, <3>6
      <4>4. c(i) # NULL /\ Going(i)
        BY <3>3, <4>1, <4>2, <4>3, Zenon DEF w
      <4> QED
        BY <2>1, <3>8, <4>4, Zenon
    <3> QED
      BY <3>9, <3>10
  <2> QED
    BY <2>3, <2>4
<1>9. N \in Good
  <2>1. 0 .. N \subseteq Good
    <3> HIDE DEF Good
    <3> QED
      BY <1>3, <1>7, <1>8, UpTo
  <2> QED
    BY <1>4, <2>1, Zenon
<1>10. c(N) = NULL
  <2> SUFFICES ASSUME c(N) # NULL PROVE FALSE
    BY Zenon
  <2> DEFINE m == Cardinality(Rest(u(N), c(N)))
  <2>1. m \in Int /\ m <= N - N - 1
    BY <1>9, Zenon
  <2>2. m >= 0
    <3>1. u(N) \in ShapesOf(D) /\ c(N) \in Items(u(N)) \cup {NULL}
      BY <1>4, <1>5, Zenon
    <3> HIDE DEF u, c
    <3> QED
      BY <2>1, <3>1, OneLess
  <2> HIDE DEF m
  <2> QED
    BY <1>3, <2>1, <2>2
<1>11. Items(u(N)) = {e \in Items(t) : e.key \in kept}
  <2>1. Left(N) /\ Done(N)
    BY <1>9, <1>10, Zenon
  <2> QED
    BY <2>1, Zenon
<1> QED
  BY <1>1, <1>4, <1>5, <1>11, Zenon DEF N

-----------------------------------------------------------------------------
(* A table is a map: what each operation does to what is found. *)

(* What is found is an item with the key.                                  *)
LEMMA FoundItem ==
    ASSUME NEW D, NEW t \in TablesOf(D), NEW k \in DOMAIN HashVal, hash_table_find(t, k) # NULL
    PROVE  LET f == hash_table_find(t, k)
           IN  f \in Items(t) /\ f.key = k /\ f.data \in D
<1>1. t \in ShapesOf(D)
  BY Zenon DEF TablesOf
<1>2. hash_table_find(t, k) \in Items(t) /\ hash_table_find(t, k).key = k
  BY <1>1, Finds, Zenon
<1>3. hash_table_find(t, k).data \in D
  BY <1>1, <1>2, TableItems, EntryIsNotNull, Zenon
<1> QED
  BY <1>2, <1>3, Zenon

(* Two tables find the same where their items are the same.                *)
LEMMA SameFound ==
    ASSUME NEW D, NEW t \in TablesOf(D), NEW u \in TablesOf(D), NEW k \in DOMAIN HashVal,
           \A e : e.key = k => (e \in Items(t) <=> e \in Items(u))
    PROVE  hash_table_find(u, k) = hash_table_find(t, k)
<1>1. t \in ShapesOf(D) /\ u \in ShapesOf(D)
  BY Zenon DEF TablesOf
<1> QED
  BY <1>1, FindsTheSame, Zenon

(* The item in a table is what is found under its key.                     *)
LEMMA ItemIsFound ==
    ASSUME NEW D, NEW t \in TablesOf(D), NEW e \in Items(t)
    PROVE  e.key \in DOMAIN HashVal /\ hash_table_find(t, e.key) = e /\ e # NULL /\ e.data \in D
<1>1. t \in ShapesOf(D)
  BY Zenon DEF TablesOf
<1>2. e \in EntryOf(D)
  BY <1>1, TableItems, Zenon
<1>3. e.key \in DOMAIN HashVal /\ e # NULL /\ e.data \in D
  BY <1>2, EntryIsNotNull, Zenon
<1> QED
  BY <1>1, <1>3, Finds, Zenon

(* An insertion under a new key.                                           *)
LEMMA InsertMaps ==
    ASSUME NEW D, NEW t \in TablesOf(D), NEW k \in DOMAIN HashVal, NEW d \in D, hash_table_find(t, k) = NULL
    PROVE  LET u == hash_table_insert(t, k, d)
           IN  /\ u \in TablesOf(D) /\ Items(u) = Items(t) \cup {Entry(k, d)}
               /\ hash_table_find(u, k) # NULL /\ hash_table_find(u, k).data = d
               /\ \A m \in DOMAIN HashVal : m # k => hash_table_find(u, m) = hash_table_find(t, m)
<1> DEFINE u == hash_table_insert(t, k, d)
           e == Entry(k, d)
<1>1. \A x \in Items(t) : x.key # k
  <2>1. t \in ShapesOf(D)
    BY Zenon DEF TablesOf
  <2> QED
    BY <2>1, Finds, Zenon
<1>2. u \in TablesOf(D) /\ Items(u) = Items(t) \cup {e}
  BY <1>1, Inserts
<1>3. e.key = k /\ e.data = d
  BY DEF Entry
<1> HIDE DEF u, e
<1>4. hash_table_find(u, k) = e /\ e # NULL
  <2>1. e \in Items(u)
    BY <1>2
  <2> QED
    BY <1>2, <1>3, <2>1, ItemIsFound, Zenon
<1>5. ASSUME NEW m \in DOMAIN HashVal, m # k PROVE hash_table_find(u, m) = hash_table_find(t, m)
  <2>1. \A x : x.key = m => (x \in Items(t) <=> x \in Items(u))
    BY <1>2, <1>3, <1>5, Zenon
  <2> QED
    BY <1>2, <2>1, SameFound, Zenon
<1> QED
  BY <1>2, <1>3, <1>4, <1>5, Zenon DEF u, e

(* The deletion of what is found under a key, if there is something.       *)
Without(t, k) ==
    LET e == hash_table_find(t, k) IN IF e = NULL THEN t ELSE hash_table_delete(t, e)

(* After a deletion nothing is found under that key.                       *)
LEMMA DeleteMaps ==
    ASSUME NEW D, NEW t \in TablesOf(D), NEW k \in DOMAIN HashVal
    PROVE  LET u == Without(t, k)
           IN  /\ u \in TablesOf(D) /\ Items(u) = {x \in Items(t) : x.key # k}
               /\ hash_table_find(u, k) = NULL
               /\ \A m \in DOMAIN HashVal : m # k => hash_table_find(u, m) = hash_table_find(t, m)
<1> DEFINE e == hash_table_find(t, k)
           u == Without(t, k)
<1>1. t \in ShapesOf(D) /\ \A x, y \in Items(t) : x.key = y.key => x = y
  BY TableItems, Zenon DEF TablesOf
<1>2. u \in TablesOf(D) /\ Items(u) = {x \in Items(t) : x.key # k}
  <2>1. CASE e = NULL
    <3>1. u = t
      BY <2>1, Zenon DEF Without
    <3>2. \A x \in Items(t) : x.key # k
      BY <1>1, <2>1, Finds, Zenon
    <3> HIDE DEF u
    <3> QED
      BY <3>1, <3>2
  <2>2. CASE e # NULL
    <3>1. u = hash_table_delete(t, e)
      BY <2>2, Zenon DEF Without
    <3>2. e \in Items(t) /\ e.key = k
      BY <2>2, FoundItem, Zenon
    <3> HIDE DEF e, u
    <3>3. u \in TablesOf(D) /\ Items(u) = Items(t) \ {e}
      BY <3>1, <3>2, Deletes, ZenonT(30)
    <3>4. \A x \in Items(t) : x # e <=> x.key # k
      BY <1>1, <3>2, Zenon
    <3> QED
      BY <3>3, <3>4
  <2> QED
    BY <2>1, <2>2
<1> HIDE DEF u, e
<1>3. u \in ShapesOf(D)
  BY <1>2, Zenon DEF TablesOf
<1>4. hash_table_find(u, k) = NULL
  <2>1. \A x \in Items(u) : x.key # k
    BY <1>2, Zenon
  <2> QED
    BY <1>3, <2>1, Finds, Zenon
<1>5. ASSUME NEW m \in DOMAIN HashVal, m # k PROVE hash_table_find(u, m) = hash_table_find(t, m)
  <2>1. \A x : x.key = m => (x \in Items(t) <=> x \in Items(u))
    BY <1>2, <1>5, Zenon
  <2> QED
    BY <1>2, <2>1, SameFound, Zenon
<1> QED
  BY <1>2, <1>4, <1>5, Zenon DEF u

(* The change of what is found under a key.                                *)
LEMMA UpdateMaps ==
    ASSUME NEW D, NEW t \in TablesOf(D), NEW k \in DOMAIN HashVal, hash_table_find(t, k) # NULL, NEW d \in D
    PROVE  LET e == hash_table_find(t, k)
               u == Update(t, e, d)
           IN  /\ u \in TablesOf(D)
               /\ hash_table_find(u, k) # NULL /\ hash_table_find(u, k).data = d
               /\ \A m \in DOMAIN HashVal : m # k => hash_table_find(u, m) = hash_table_find(t, m)
<1> DEFINE e == hash_table_find(t, k)
           u == Update(t, e, d)
           f == [e EXCEPT !.data = d]
<1>1. e \in Items(t) /\ e.key = k
  BY FoundItem, Zenon
<1>2. e \in EntryOf(D)
  <2>1. t \in ShapesOf(D)
    BY Zenon DEF TablesOf
  <2> QED
    BY <1>1, <2>1, TableItems, Zenon
<1> HIDE DEF e
<1>3. u \in TablesOf(D) /\ Items(u) = (Items(t) \ {e}) \cup {f}
  BY <1>1, Updates
<1>4. f.key = k /\ f.data = d
  BY <1>1, <1>2 DEF EntryOf
<1> HIDE DEF u, f
<1>5. hash_table_find(u, k) = f /\ f # NULL
  <2>1. f \in Items(u)
    BY <1>3
  <2> QED
    BY <1>3, <1>4, <2>1, ItemIsFound, Zenon
<1>6. ASSUME NEW m \in DOMAIN HashVal, m # k PROVE hash_table_find(u, m) = hash_table_find(t, m)
  <2>1. \A x : x.key = m => (x \in Items(t) <=> x \in Items(u))
    BY <1>1, <1>3, <1>4, <1>6, Zenon
  <2> QED
    BY <1>3, <2>1, SameFound, Zenon
<1> QED
  BY <1>3, <1>4, <1>5, <1>6, Zenon DEF u, e

(* What is kept by the loop that deletes.                                  *)
LEMMA KeepMaps ==
    ASSUME NEW D, NEW t \in TablesOf(D), NEW kept
    PROVE  LET u == DeleteAllBut(t, kept)
           IN  /\ u \in TablesOf(D)
               /\ \A m \in DOMAIN HashVal :
                    hash_table_find(u, m) = IF m \in kept THEN hash_table_find(t, m) ELSE NULL
<1> DEFINE u == DeleteAllBut(t, kept)
<1>1. u \in TablesOf(D) /\ Items(u) = {e \in Items(t) : e.key \in kept}
  BY KeepsOnly, Zenon
<1> HIDE DEF u
<1>2. ASSUME NEW m \in DOMAIN HashVal, m \in kept PROVE hash_table_find(u, m) = hash_table_find(t, m)
  <2>1. \A x : x.key = m => (x \in Items(t) <=> x \in Items(u))
    BY <1>1, <1>2, Zenon
  <2> QED
    BY <1>1, <2>1, SameFound, Zenon
<1>3. ASSUME NEW m \in DOMAIN HashVal, m \notin kept PROVE hash_table_find(u, m) = NULL
  <2>1. \A x \in Items(u) : x.key # m
    BY <1>1, <1>3, Zenon
  <2>2. u \in ShapesOf(D)
    BY <1>1, Zenon DEF TablesOf
  <2> QED
    BY <2>1, <2>2, Finds, Zenon
<1> QED
  BY <1>1, <1>2, <1>3, Zenon DEF u

(* Nothing is found in an empty table.                                     *)
LEMMA NothingFound ==
    ASSUME NEW k \in DOMAIN HashVal
    PROVE  hash_table_find(hash_table_init, k) = NULL
<1>1. hash_table_init \in ShapesOf({}) /\ Items(hash_table_init) = {}
  BY EmptyTable, Zenon DEF TablesOf
<1> QED
  BY <1>1, Finds, Zenon

(* The keys of a table.                                                    *)
LEMMA KeysFound ==
    ASSUME NEW D, NEW t \in TablesOf(D)
    PROVE  /\ Keys(t) \subseteq DOMAIN HashVal
           /\ \A k \in DOMAIN HashVal : k \in Keys(t) <=> hash_table_find(t, k) # NULL
<1>1. \A e \in Items(t) : e.key \in DOMAIN HashVal /\ hash_table_find(t, e.key) = e /\ e # NULL
  BY ItemIsFound, Zenon
<1>2. \A k \in DOMAIN HashVal : hash_table_find(t, k) # NULL => hash_table_find(t, k) \in Items(t)
      /\ hash_table_find(t, k).key = k
  BY FoundItem, Zenon
<1> QED
  BY <1>1, <1>2, Zenon DEF Keys

\* Each of N rounds sets a value or keeps the one before it.
RoundsSet(N, M, w, d) ==
    /\ N \in Nat /\ M \in SUBSET (1 .. N)
    /\ \A n \in 1 .. N : w[n] = IF n \in M THEN d[n] ELSE w[n - 1]

\* The value is that of the last round that set it, or the first.
LastSet(N, M, w, d) ==
    /\ M = {} => w[N] = w[0]
    /\ \A i \in M : (\A j \in M : j <= i) => w[N] = d[i]

(* Of the rounds that set a value, the last counts.                        *)
(* Of the rounds that set a value, the last counts.                        *)
LEMMA LastCounts ==
    ASSUME NEW N, NEW M, NEW w, NEW d, RoundsSet(N, M, w, d)
    PROVE  LastSet(N, M, w, d)
<1> N \in Nat /\ M \in SUBSET (1 .. N)
  BY Zenon DEF RoundsSet
<1> DEFINE Good == {n \in 0 .. N : /\ (\A j \in M : j > n) => w[n] = w[0]
                                   /\ \A i \in M : i <= n /\ (\A j \in M : j <= n => j <= i) => w[n] = d[i]}
<1>1. 0 \in Good
  <2>1. 0 \in 0 .. N /\ \A i \in M : ~(i <= 0)
    OBVIOUS
  <2> QED
    BY <2>1, Zenon
<1>2. ASSUME NEW n \in 1 .. N, n - 1 \in Good PROVE n \in Good
  <2>1. \A j \in M : j \in Int
    OBVIOUS
  <2>2. n \in 0 .. N /\ n \in Int
    OBVIOUS
  <2>3. CASE n \in M
    <3>1. w[n] = d[n] /\ n <= n /\ ~(n > n)
      BY <2>2, <2>3 DEF RoundsSet
    <3>2. ASSUME NEW i \in M, i <= n, \A j \in M : j <= n => j <= i PROVE i = n
      <4>1. n <= i
        BY <2>3, <3>1, <3>2, Zenon
      <4> QED
        BY <2>1, <2>2, <3>2, <4>1
    <3>3. \A i \in M : i <= n /\ (\A j \in M : j <= n => j <= i) => w[n] = d[i]
      BY <3>1, <3>2, Zenon
    <3>4. ~ \A j \in M : j > n
      BY <2>3, <3>1, Zenon
    <3> QED
      BY <2>2, <3>3, <3>4, Zenon
  <2>4. CASE n \notin M
    <3>1. w[n] = w[n - 1]
      BY <2>4 DEF RoundsSet
    <3>2. \A j \in M : (j <= n <=> j <= n - 1) /\ (j > n <=> j > n - 1)
      <4> SUFFICES ASSUME NEW j \in M PROVE (j <= n <=> j <= n - 1) /\ (j > n <=> j > n - 1)
        BY Zenon
      <4>1. j \in Int /\ j # n
        BY <2>1, <2>4
      <4> QED
        BY <2>2, <4>1
    <3>3. (\A j \in M : j > n) => w[n] = w[0]
      BY <1>2, <3>1, <3>2, Zenon
    <3>4. ASSUME NEW i \in M, i <= n, \A j \in M : j <= n => j <= i PROVE w[n] = d[i]
      <4>1. i <= n - 1 /\ \A j \in M : j <= n - 1 => j <= i
        BY <3>2, <3>4, Zenon
      <4> QED
        BY <1>2, <3>1, <4>1, Zenon
    <3> QED
      BY <2>2, <3>3, <3>4, Zenon
  <2> QED
    BY <2>3, <2>4
<1>3. N \in Good
  <2>1. 0 .. N \subseteq Good
    <3> HIDE DEF Good
    <3> QED
      BY <1>1, <1>2, UpTo
  <2>2. N \in 0 .. N
    OBVIOUS
  <2> HIDE DEF Good
  <2> QED
    BY <2>1, <2>2
<1>4. \A j \in M : j <= N
  OBVIOUS
<1> QED
  BY <1>3, <1>4, Zenon DEF LastSet

-----------------------------------------------------------------------------
(* Variables. *)

VarData == [v : VarValues \cup {0}, preserve : BOOLEAN, is_constant : BOOLEAN]
Vtables == TablesOf(VarData)
Found(t, k) == hash_table_find(t, k)

(* The data of a variable is not NULL; a new one has such data.            *)
LEMMA DataOfVars ==
    /\ NULL \notin VarData /\ NewVar \in VarData
    /\ \A d \in VarData, val \in VarValues, b \in BOOLEAN :
         /\ [d EXCEPT !.v = val, !.is_constant = b] \in VarData
         /\ [d EXCEPT !.v = val, !.is_constant = b] = [v |-> val, preserve |-> d.preserve, is_constant |-> b]
    /\ \A d \in VarData :
         /\ [d EXCEPT !.preserve = TRUE] \in VarData
         /\ [d EXCEPT !.preserve = TRUE] = [v |-> d.v, preserve |-> TRUE, is_constant |-> d.is_constant]
         /\ [d EXCEPT !.is_constant = FALSE] \in VarData
         /\ [d EXCEPT !.is_constant = FALSE] = [v |-> d.v, preserve |-> d.preserve, is_constant |-> FALSE]
<1>1. \A d \in VarData : DOMAIN d = {"v", "preserve", "is_constant"}
  BY DEF VarData
<1>2. DOMAIN NULL = {"null"}
  BY DEF NULL
<1>3. NULL \notin VarData
  BY <1>1, <1>2
<1>4. NewVar \in VarData
  BY DEF NewVar, VarData
<1>5. ASSUME NEW d \in VarData
      PROVE  /\ [d EXCEPT !.preserve = TRUE] = [v |-> d.v, preserve |-> TRUE, is_constant |-> d.is_constant]
             /\ [d EXCEPT !.is_constant = FALSE] = [v |-> d.v, preserve |-> d.preserve, is_constant |-> FALSE]
             /\ d.v \in VarValues \cup {0} /\ d.preserve \in BOOLEAN /\ d.is_constant \in BOOLEAN
  <2>1. \A y : [d EXCEPT !.preserve = y] = [v |-> d.v, preserve |-> y, is_constant |-> d.is_constant]
    BY DEF VarData
  <2>2. \A y : [d EXCEPT !.is_constant = y] = [v |-> d.v, preserve |-> d.preserve, is_constant |-> y]
    BY DEF VarData
  <2>3. d.v \in VarValues \cup {0} /\ d.preserve \in BOOLEAN /\ d.is_constant \in BOOLEAN
    BY DEF VarData
  <2> QED
    BY <2>1, <2>2, <2>3, Zenon
<1>6. ASSUME NEW d \in VarData, NEW val \in VarValues, NEW b \in BOOLEAN
      PROVE  [d EXCEPT !.v = val, !.is_constant = b] = [v |-> val, preserve |-> d.preserve, is_constant |-> b]
  <2>1. \A y, z : [d EXCEPT !.v = y, !.is_constant = z] = [v |-> y, preserve |-> d.preserve, is_constant |-> z]
    <3> SUFFICES ASSUME NEW y, NEW z
                 PROVE  [d EXCEPT !.v = y, !.is_constant = z] = [v |-> y, preserve |-> d.preserve, is_constant |-> z]
      OBVIOUS
    <3> DEFINE f == [d EXCEPT !.v = y]
    <3>1. f = [v |-> y, preserve |-> d.preserve, is_constant |-> d.is_constant]
      BY DEF VarData
    <3>2. [d EXCEPT !.v = y, !.is_constant = z] = [f EXCEPT !.is_constant = z]
      OBVIOUS
    <3> HIDE DEF f
    <3>3. [f EXCEPT !.is_constant = z] = [v |-> y, preserve |-> d.preserve, is_constant |-> z]
      BY <3>1
    <3> QED
      BY <3>2, <3>3
  <2> QED
    BY <2>1, Zenon
<1>7. ASSUME NEW w \in VarValues \cup {0}, NEW p \in BOOLEAN, NEW b \in BOOLEAN
      PROVE  [v |-> w, preserve |-> p, is_constant |-> b] \in VarData
  BY DEF VarData
<1>8. TRUE \in BOOLEAN /\ FALSE \in BOOLEAN /\ \A val \in VarValues : val \in VarValues \cup {0}
  BY Zenon
<1>9. ASSUME NEW d \in VarData
      PROVE  [d EXCEPT !.preserve = TRUE] \in VarData /\ [d EXCEPT !.is_constant = FALSE] \in VarData
  <2>1. [v |-> d.v, preserve |-> TRUE, is_constant |-> d.is_constant] \in VarData
    BY <1>5, <1>7, <1>8, Zenon
  <2>2. [v |-> d.v, preserve |-> d.preserve, is_constant |-> FALSE] \in VarData
    BY <1>5, <1>7, <1>8, Zenon
  <2> QED
    BY <1>5, <2>1, <2>2, Zenon
<1>10. ASSUME NEW d \in VarData, NEW val \in VarValues, NEW b \in BOOLEAN
       PROVE  [d EXCEPT !.v = val, !.is_constant = b] \in VarData
  <2>1. [v |-> val, preserve |-> d.preserve, is_constant |-> b] \in VarData
    BY <1>5, <1>7, <1>8, Zenon
  <2> QED
    BY <1>6, <2>1, Zenon
<1> QED
  BY <1>3, <1>4, <1>5, <1>6, <1>9, <1>10, Zenon

(* The data written through a pointer, and nothing else.                   *)
LEMMA WriteMaps ==
    ASSUME NEW t \in Vtables, NEW n \in Names, NEW d \in VarData
    PROVE  LET u == Write(t, n, d)  k == Lower[n]
           IN  /\ u \in Vtables /\ Found(u, k) # NULL /\ Found(u, k).data = d
               /\ \A m \in DOMAIN HashVal : m # k => Found(u, m) = Found(t, m)
<1> DEFINE k == Lower[n]
           c == Created(t, n)
           u == Write(t, n, d)
<1>1. k \in DOMAIN HashVal
  BY NamesAssumption
<1>2. /\ c \in Vtables /\ Found(c, k) # NULL
      /\ \A m \in DOMAIN HashVal : m # k => Found(c, m) = Found(t, m)
  <2>1. CASE Found(t, k) # NULL
    BY <2>1, Zenon DEF Created, FindVar, Found
  <2>2. CASE Found(t, k) = NULL
    <3>1. c = hash_table_insert(t, k, NewVar)
      BY <2>2, Zenon DEF Created, FindVar, Found
    <3>2. NewVar \in VarData
      BY DataOfVars, Zenon
    <3> HIDE DEF c, k
    <3> QED
      BY <1>1, <2>2, <3>1, <3>2, InsertMaps DEF Vtables, Found
  <2> QED
    BY <2>1, <2>2
<1>3. u = Update(c, hash_table_find(c, k), d)
  BY Zenon DEF Write, FindVar
<1> HIDE DEF k, c, u
<1>4. /\ u \in Vtables /\ Found(u, k) # NULL /\ Found(u, k).data = d
      /\ \A m \in DOMAIN HashVal : m # k => Found(u, m) = Found(c, m)
  BY <1>1, <1>2, <1>3, UpdateMaps DEF Vtables, Found
<1> QED
  BY <1>2, <1>4, Zenon DEF k, u

\* The value of a variable, NULL for one there is not.
ValueIn(t, k) == DataOf(hash_table_find(t, k))

(* The value of a variable and the item it is in.                          *)
LEMMA Values ==
    ASSUME NEW t \in Vtables, NEW k \in DOMAIN HashVal
    PROVE  /\ ValueIn(t, k) \in VarData \cup {NULL}
           /\ hash_table_find(t, k) = NULL <=> ValueIn(t, k) = NULL
           /\ hash_table_find(t, k) # NULL => hash_table_find(t, k).data = ValueIn(t, k)
<1>1. hash_table_find(t, k) # NULL => hash_table_find(t, k).data \in VarData
  BY FoundItem, Zenon DEF Vtables
<1> QED
  BY <1>1, DataOfVars, Zenon DEF ValueIn, DataOf

(* A write changes the value of its variable only.                         *)
LEMMA WriteValues ==
    ASSUME NEW t \in Vtables, NEW n \in Names, NEW d \in VarData
    PROVE  LET u == Write(t, n, d)
           IN  /\ u \in Vtables /\ ValueIn(u, Lower[n]) = d
               /\ \A m \in DOMAIN HashVal : m # Lower[n] => ValueIn(u, m) = ValueIn(t, m)
BY WriteMaps, ZenonT(30) DEF ValueIn, DataOf, Found

(* SET: the value and the constness are new, the mark of PRESERVE stays.   *)
LEMMA SetValues ==
    ASSUME NEW t \in Vtables, NEW n \in Names, NEW val \in VarValues, NEW nonconst \in BOOLEAN
    PROVE  LET u == SetVar(t, n, val, nonconst)  was == ValueIn(t, Lower[n])
           IN  /\ u \in Vtables
               /\ ValueIn(u, Lower[n]) = [v |-> val, preserve |-> was # NULL /\ was.preserve, is_constant |-> ~ nonconst]
               /\ \A m \in DOMAIN HashVal : m # Lower[n] => ValueIn(u, m) = ValueIn(t, m)
<1> DEFINE k == Lower[n]
           c == Created(t, n)
           old == FindVar(c, n).data
           new == [v |-> val, preserve |-> old.preserve, is_constant |-> ~ nonconst]
<1>1. k \in DOMAIN HashVal
  BY NamesAssumption
<1>2. old \in VarData /\ old = IF Found(t, k) # NULL THEN ValueIn(t, k) ELSE NewVar
  <2>1. CASE Found(t, k) # NULL
    <3>1. old = Found(t, k).data
      BY <2>1, Zenon DEF Created, FindVar, Found
    <3>2. Found(t, k).data \in VarData /\ ValueIn(t, k) = Found(t, k).data
      BY <1>1, <2>1, FoundItem, Zenon DEF Vtables, Found, ValueIn, DataOf
    <3> QED
      BY <2>1, <3>1, <3>2, Zenon
  <2>2. CASE Found(t, k) = NULL
    <3>1. c = hash_table_insert(t, k, NewVar)
      BY <2>2, Zenon DEF Created, FindVar, Found
    <3>2. NewVar \in VarData
      BY DataOfVars, Zenon
    <3> HIDE DEF c
    <3>3. hash_table_find(c, k).data = NewVar
      <4> HIDE DEF k
      <4> QED
        BY <1>1, <2>2, <3>1, <3>2, InsertMaps DEF Vtables, Found
    <3> QED
      BY <2>2, <3>2, <3>3, Zenon DEF FindVar
  <2> QED
    BY <2>1, <2>2
<1>3. SetVar(t, n, val, nonconst) = Write(t, n, [old EXCEPT !.v = val, !.is_constant = ~ nonconst])
  BY Zenon DEF SetVar
<1>4. Found(t, k) = NULL <=> ValueIn(t, k) = NULL
  BY <1>1, Values, Zenon DEF Found
<1> HIDE DEF old
<1>5. [old EXCEPT !.v = val, !.is_constant = ~ nonconst] = new /\ new \in VarData
  <2>1. (~ nonconst) \in BOOLEAN
    BY Zenon
  <2> QED
    BY <1>2, <2>1, DataOfVars, ZenonT(30)
<1>6. SetVar(t, n, val, nonconst) = Write(t, n, new)
  BY <1>3, <1>5, Zenon
<1>7. new.preserve = (ValueIn(t, k) # NULL /\ ValueIn(t, k).preserve)
  <2>1. CASE ValueIn(t, k) = NULL
    <3>1. old = NewVar
      BY <1>2, <1>4, <2>1, Zenon
    <3> QED
      BY <2>1, <3>1 DEF NewVar
  <2>2. CASE ValueIn(t, k) # NULL
    <3>1. old = ValueIn(t, k) /\ old.preserve \in BOOLEAN
      BY <1>2, <1>4, <2>2 DEF VarData
    <3> QED
      BY <2>2, <3>1
  <2> QED
    BY <2>1, <2>2
<1>8. new = [v |-> val, preserve |-> ValueIn(t, k) # NULL /\ ValueIn(t, k).preserve, is_constant |-> ~ nonconst]
  <2>1. old.preserve = (ValueIn(t, k) # NULL /\ ValueIn(t, k).preserve)
    BY <1>7
  <2> QED
    BY <2>1, Zenon
<1> HIDE DEF new
<1>9. LET u == Write(t, n, new)
      IN  /\ u \in Vtables /\ ValueIn(u, Lower[n]) = new
          /\ \A m \in DOMAIN HashVal : m # Lower[n] => ValueIn(u, m) = ValueIn(t, m)
  BY <1>5, WriteValues
<1> QED
  BY <1>6, <1>8, <1>9 DEF k

(* PRESERVE: the mark is new; a variable there was not has the value 0.    *)
LEMMA PreserveValues ==
    ASSUME NEW t \in Vtables, NEW n \in Names
    PROVE  LET u == PreserveVar(t, n)  was == ValueIn(t, Lower[n])
           IN  /\ u \in Vtables
               /\ ValueIn(u, Lower[n]) = [v |-> IF was = NULL THEN 0 ELSE was.v, preserve |-> TRUE,
                                          is_constant |-> was = NULL \/ was.is_constant]
               /\ \A m \in DOMAIN HashVal : m # Lower[n] => ValueIn(u, m) = ValueIn(t, m)
<1> DEFINE k == Lower[n]
           c == Created(t, n)
           old == FindVar(c, n).data
           new == [v |-> old.v, preserve |-> TRUE, is_constant |-> old.is_constant]
<1>1. k \in DOMAIN HashVal
  BY NamesAssumption
<1>2. old \in VarData /\ old = IF Found(t, k) # NULL THEN ValueIn(t, k) ELSE NewVar
  <2>1. CASE Found(t, k) # NULL
    <3>1. old = Found(t, k).data
      BY <2>1, Zenon DEF Created, FindVar, Found
    <3>2. Found(t, k).data \in VarData /\ ValueIn(t, k) = Found(t, k).data
      BY <1>1, <2>1, FoundItem, Zenon DEF Vtables, Found, ValueIn, DataOf
    <3> QED
      BY <2>1, <3>1, <3>2, Zenon
  <2>2. CASE Found(t, k) = NULL
    <3>1. c = hash_table_insert(t, k, NewVar)
      BY <2>2, Zenon DEF Created, FindVar, Found
    <3>2. NewVar \in VarData
      BY DataOfVars, Zenon
    <3> HIDE DEF c
    <3>3. hash_table_find(c, k).data = NewVar
      <4> HIDE DEF k
      <4> QED
        BY <1>1, <2>2, <3>1, <3>2, InsertMaps DEF Vtables, Found
    <3> QED
      BY <2>2, <3>2, <3>3, Zenon DEF FindVar
  <2> QED
    BY <2>1, <2>2
<1>3. PreserveVar(t, n) = Write(t, n, [old EXCEPT !.preserve = TRUE])
  BY Zenon DEF PreserveVar
<1>4. Found(t, k) = NULL <=> ValueIn(t, k) = NULL
  BY <1>1, Values, Zenon DEF Found
<1> HIDE DEF old
<1>5. [old EXCEPT !.preserve = TRUE] = new /\ new \in VarData
  BY <1>2, DataOfVars, Zenon
<1>6. PreserveVar(t, n) = Write(t, n, new)
  BY <1>3, <1>5, Zenon
<1>7. /\ old.v = IF ValueIn(t, k) = NULL THEN 0 ELSE ValueIn(t, k).v
      /\ old.is_constant = (ValueIn(t, k) = NULL \/ ValueIn(t, k).is_constant)
  <2>1. CASE ValueIn(t, k) = NULL
    <3>1. old = NewVar
      BY <1>2, <1>4, <2>1, Zenon
    <3> QED
      BY <2>1, <3>1 DEF NewVar
  <2>2. CASE ValueIn(t, k) # NULL
    <3>1. old = ValueIn(t, k) /\ old.is_constant \in BOOLEAN
      BY <1>2, <1>4, <2>2 DEF VarData
    <3> QED
      BY <2>2, <3>1
  <2> QED
    BY <2>1, <2>2
<1>8. new = [v |-> IF ValueIn(t, k) = NULL THEN 0 ELSE ValueIn(t, k).v, preserve |-> TRUE,
             is_constant |-> ValueIn(t, k) = NULL \/ ValueIn(t, k).is_constant]
  BY <1>7, Zenon
<1> HIDE DEF new
<1>9. LET u == Write(t, n, new)
      IN  /\ u \in Vtables /\ ValueIn(u, Lower[n]) = new
          /\ \A m \in DOMAIN HashVal : m # Lower[n] => ValueIn(u, m) = ValueIn(t, m)
  BY <1>5, WriteValues
<1> DEFINE u == PreserveVar(t, n)
<1>10. u \in Vtables /\ ValueIn(u, k) = new /\ \A m \in DOMAIN HashVal : m # k => ValueIn(u, m) = ValueIn(t, m)
  BY <1>6, <1>9, Zenon DEF k
<1> HIDE DEF u, k
<1>11. ValueIn(u, k) = [v |-> IF ValueIn(t, k) = NULL THEN 0 ELSE ValueIn(t, k).v, preserve |-> TRUE,
                        is_constant |-> ValueIn(t, k) = NULL \/ ValueIn(t, k).is_constant]
  BY <1>8, <1>10, Zenon
<1> QED
  BY <1>10, <1>11, Zenon DEF u, k

(* UNSET of one variable.                                                  *)
LEMMA DeleteValues ==
    ASSUME NEW t \in Vtables, NEW n \in Names
    PROVE  LET u == DeleteVar(t, n)
           IN  /\ u \in Vtables /\ ValueIn(u, Lower[n]) = NULL
               /\ \A m \in DOMAIN HashVal : m # Lower[n] => ValueIn(u, m) = ValueIn(t, m)
<1>1. Lower[n] \in DOMAIN HashVal
  BY NamesAssumption
<1>2. DeleteVar(t, n) = Without(t, Lower[n])
  BY Zenon DEF DeleteVar, Without, FindVar
<1>3. LET u == Without(t, Lower[n])
      IN  /\ u \in TablesOf(VarData) /\ hash_table_find(u, Lower[n]) = NULL
          /\ \A m \in DOMAIN HashVal : m # Lower[n] => hash_table_find(u, m) = hash_table_find(t, m)
  BY <1>1, DeleteMaps DEF Vtables
<1> QED
  BY <1>2, <1>3, Zenon DEF Vtables, ValueIn, DataOf

(* UNSET deletes one variable after the other.                             *)
LEMMA UnsetSteps ==
    ASSUME NEW t \in Vtables, NEW names \in Seq(Names)
    PROVE  \E f : /\ f \in [0 .. Len(names) -> Vtables] /\ f[0] = t
                  /\ \A i \in 1 .. Len(names) : f[i] = DeleteVar(f[i - 1], names[i])
                  /\ Unset(t, names) = f[Len(names)]
<1> DEFINE N == Len(names)
           S == Vtables
           a == t
           Round(i, x) == DeleteVar(x, names[i])
           step == [p \in (1 .. N) \X S |-> Round(p[1], p[2])]
           g == CHOOSE f : f = [i \in 0 .. N |-> IF i = 0 THEN a ELSE Round(i, f[i - 1])]
<1>1. N \in Nat
  OBVIOUS
<1>2. a \in S
  OBVIOUS
<1>3. \A i \in 1 .. N, x \in S : Round(i, x) \in S
  <2>1. \A i \in 1 .. Len(names) : names[i] \in Names
    OBVIOUS
  <2> QED
    BY <2>1, DeleteValues, Zenon
<1>4. Unset(t, names) = g[N]
  BY Zenon DEF Unset
<1> HIDE DEF N, S, a, Round
<1>5. step \in [(1 .. N) \X S -> S]
  BY <1>3
<1>6. \A i \in 1 .. N, x \in S : step[<<i, x>>] = Round(i, x)
  OBVIOUS
<1> HIDE DEF step
<1>7. PICK f : Computes(f, N, S, a, step)
  BY <1>1, <1>2, <1>5, LoopComputes, Zenon
<1>8. f \in [0 .. N -> S] /\ f[0] = a /\ \A i \in 1 .. N : f[i] = step[<<i, f[i - 1]>>]
  BY <1>7, Zenon DEF Computes
<1>9. /\ 0 \in 0 .. N /\ N \in 0 .. N
      /\ \A i \in 1 .. N : i \in 0 .. N /\ i - 1 \in 0 .. N /\ i # 0
      /\ \A i \in 0 .. N : i = 0 \/ i \in 1 .. N
  BY <1>1
<1>10. \A i \in 1 .. N : f[i] = Round(i, f[i - 1])
  BY <1>6, <1>8, <1>9, Zenon
<1>11. f = [i \in 0 .. N |-> IF i = 0 THEN a ELSE Round(i, f[i - 1])]
  BY <1>8, <1>9, <1>10
<1>12. g = [i \in 0 .. N |-> IF i = 0 THEN a ELSE Round(i, g[i - 1])]
  BY <1>11, Zenon
<1> HIDE DEF g
<1>13. g[0] = a /\ \A i \in 1 .. N : g[i] = Round(i, g[i - 1])
  BY <1>9, <1>12, Zenon
<1>14. \A i \in 0 .. N : g[i] = f[i]
  <2> DEFINE Same == {i \in 0 .. N : g[i] = f[i]}
  <2>1. 0 \in Same
    BY <1>8, <1>9, <1>13
  <2>2. \A i \in 1 .. N : i - 1 \in Same => i \in Same
    BY <1>9, <1>10, <1>13, Zenon
  <2> HIDE DEF Same
  <2>3. 0 .. N \subseteq Same
    BY <1>1, <2>1, <2>2, UpTo, Zenon
  <2> QED
    BY <2>3 DEF Same
<1>15. Unset(t, names) = f[N]
  BY <1>4, <1>9, <1>14, Zenon
<1> QED
  BY <1>8, <1>10, <1>15, Zenon DEF N, S, a, Round

(* UNSET of several variables: what is set stays, or is gone.              *)
LEMMA UnsetValues ==
    ASSUME NEW t \in Vtables, NEW names \in Seq(Names)
    PROVE  /\ Unset(t, names) \in Vtables
           /\ \A m \in DOMAIN HashVal : ValueIn(Unset(t, names), m) \in {ValueIn(t, m), NULL}
<1> DEFINE N == Len(names)
<1>1. PICK f : /\ f \in [0 .. N -> Vtables] /\ f[0] = t
               /\ \A i \in 1 .. N : f[i] = DeleteVar(f[i - 1], names[i])
               /\ Unset(t, names) = f[N]
  BY UnsetSteps, Zenon
<1>2. N \in Nat /\ \A i \in 1 .. N : names[i] \in Names
  OBVIOUS
<1> HIDE DEF N
<1>3. 0 \in 0 .. N /\ N \in 0 .. N /\ \A i \in 1 .. N : i \in 0 .. N /\ i - 1 \in 0 .. N
  BY <1>2
<1> DEFINE Good == {i \in 0 .. N : \A m \in DOMAIN HashVal : ValueIn(f[i], m) \in {ValueIn(t, m), NULL}}
<1>4. 0 \in Good
  BY <1>1, <1>3, Zenon
<1>5. ASSUME NEW i \in 1 .. N, i - 1 \in Good PROVE i \in Good
  <2>1. f[i - 1] \in Vtables /\ f[i] = DeleteVar(f[i - 1], names[i]) /\ names[i] \in Names
    BY <1>1, <1>2, <1>3, Zenon DEF N
  <2>2. ASSUME NEW m \in DOMAIN HashVal PROVE ValueIn(f[i], m) \in {ValueIn(f[i - 1], m), NULL}
    BY <2>1, DeleteValues
  <2> QED
    BY <1>3, <1>5, <2>2, Zenon
<1>6. 0 .. N \subseteq Good
  <2> HIDE DEF Good
  <2> QED
    BY <1>2, <1>4, <1>5, UpTo
<1> QED
  BY <1>1, <1>3, <1>6, Zenon DEF N

(* A saved variable is restored.                                           *)
LEMMA RestoreValues ==
    ASSUME NEW t \in Vtables, NEW x, x.name \in Names, x.data \in VarData \cup {NULL}
    PROVE  LET u == Restore(t, x)
           IN  /\ u \in Vtables /\ ValueIn(u, Lower[x.name]) = x.data
               /\ \A m \in DOMAIN HashVal : m # Lower[x.name] => ValueIn(u, m) = ValueIn(t, m)
<1>1. CASE x.data = NULL
  <2>1. Restore(t, x) = DeleteVar(t, x.name)
    BY <1>1, Zenon DEF Restore
  <2>2. LET u == DeleteVar(t, x.name)
        IN  /\ u \in Vtables /\ ValueIn(u, Lower[x.name]) = NULL
            /\ \A m \in DOMAIN HashVal : m # Lower[x.name] => ValueIn(u, m) = ValueIn(t, m)
    BY DeleteValues
  <2> QED
    BY <1>1, <2>1, <2>2, Zenon
<1>2. CASE x.data # NULL
  <2>1. Restore(t, x) = Write(t, x.name, x.data)
    BY <1>2, Zenon DEF Restore
  <2>2. LET u == Write(t, x.name, x.data)
        IN  /\ u \in Vtables /\ ValueIn(u, Lower[x.name]) = x.data
            /\ \A m \in DOMAIN HashVal : m # Lower[x.name] => ValueIn(u, m) = ValueIn(t, m)
    BY <1>2, WriteValues
  <2> QED
    BY <2>1, <2>2, Zenon
<1> QED
  BY <1>1, <1>2

(* Between two passes only the preserved variables stay.                   *)
LEMMA DestroyValues ==
    ASSUME NEW t \in Vtables
    PROVE  LET u == DestroyVars(t)
           IN  /\ u \in Vtables
               /\ \A m \in DOMAIN HashVal :
                    ValueIn(u, m) = IF ValueIn(t, m) # NULL /\ ValueIn(t, m).preserve THEN ValueIn(t, m) ELSE NULL
<1> DEFINE kept == {k \in Keys(t) : hash_table_find(t, k).data.preserve}
           u == DeleteAllBut(t, kept)
<1>1. DestroyVars(t) = u
  BY Zenon DEF DestroyVars
<1>2. /\ u \in Vtables
      /\ \A m \in DOMAIN HashVal : hash_table_find(u, m) = IF m \in kept THEN hash_table_find(t, m) ELSE NULL
  <2> HIDE DEF kept
  <2> QED
    BY KeepMaps, Zenon DEF Vtables
<1>3. ASSUME NEW m \in DOMAIN HashVal PROVE m \in kept <=> ValueIn(t, m) # NULL /\ ValueIn(t, m).preserve
  <2>1. m \in Keys(t) <=> hash_table_find(t, m) # NULL
    BY KeysFound, Zenon DEF Vtables
  <2>2. /\ hash_table_find(t, m) = NULL <=> ValueIn(t, m) = NULL
        /\ hash_table_find(t, m) # NULL => hash_table_find(t, m).data = ValueIn(t, m)
    BY Values, Zenon
  <2> QED
    BY <2>1, <2>2, Zenon
<1>4. ASSUME NEW m \in DOMAIN HashVal
      PROVE ValueIn(u, m) = IF ValueIn(t, m) # NULL /\ ValueIn(t, m).preserve THEN ValueIn(t, m) ELSE NULL
  <2>1. hash_table_find(u, m) = IF m \in kept THEN hash_table_find(t, m) ELSE NULL
    BY <1>2, Zenon
  <2> HIDE DEF u, kept
  <2> QED
    BY <1>3, <2>1, Zenon DEF ValueIn, DataOf
<1> QED
  BY <1>1, <1>2, <1>4, Zenon

-----------------------------------------------------------------------------
(* Translations. *)

\* What a message can be translated to.
Texts == Messages \cup {English} \cup {s[2] : s \in {z \in SysSettings : SysVarArr[z[1]].kind = "trans"}}

Safe(k, text) == printf_formatters_are_safe(k, text)

\* No translation has other conversions than its message.
SafeTables == {t \in TablesOf(Texts) :
                 \A k \in DOMAIN HashVal : hash_table_find(t, k) # NULL => Safe(k, hash_table_find(t, k).data)}

(* What tr returns.                                                        *)
LEMMA Translated ==
    ASSUME NEW t \in SafeTables, NEW k \in Messages
    PROVE  /\ tr(t, k) \in Texts /\ Safe(k, tr(t, k))
           /\ tr(t, k) = IF hash_table_find(t, k) = NULL THEN k ELSE hash_table_find(t, k).data
<1>1. tr(t, k) = IF hash_table_find(t, k) = NULL THEN k ELSE hash_table_find(t, k).data
  BY Zenon DEF tr, FindTranslation
<1>2. k \in DOMAIN HashVal /\ k \in Texts
  BY NamesAssumption DEF Texts
<1>3. t \in TablesOf(Texts) /\ (hash_table_find(t, k) # NULL => Safe(k, hash_table_find(t, k).data))
  BY <1>2, Zenon DEF SafeTables
<1>4. Safe(k, k)
  BY Zenon DEF Safe, printf_formatters_are_safe
<1>5. hash_table_find(t, k) # NULL => hash_table_find(t, k).data \in Texts
  BY <1>2, <1>3, FoundItem, Zenon
<1> QED
  BY <1>1, <1>2, <1>3, <1>4, <1>5, Zenon

(* Without a translation, a message stands for itself.                     *)
LEMMA Untranslates ==
    ASSUME NEW t \in SafeTables, NEW k \in DOMAIN HashVal
    PROVE  LET u == RemoveTranslation(t, k)
           IN  /\ u \in SafeTables /\ hash_table_find(u, k) = NULL
               /\ \A m \in DOMAIN HashVal : m # k => hash_table_find(u, m) = hash_table_find(t, m)
<1> DEFINE u == Without(t, k)
<1>1. RemoveTranslation(t, k) = u
  BY Zenon DEF RemoveTranslation, FindTranslation, Without
<1>2. /\ t \in TablesOf(Texts)
      /\ \A m \in DOMAIN HashVal : hash_table_find(t, m) # NULL => Safe(m, hash_table_find(t, m).data)
  BY Zenon DEF SafeTables
<1>3. /\ u \in TablesOf(Texts) /\ hash_table_find(u, k) = NULL
      /\ \A m \in DOMAIN HashVal : m # k => hash_table_find(u, m) = hash_table_find(t, m)
  BY <1>2, DeleteMaps
<1> HIDE DEF u
<1>4. \A m \in DOMAIN HashVal : hash_table_find(u, m) # NULL => Safe(m, hash_table_find(u, m).data)
  BY <1>2, <1>3, Zenon
<1>5. u \in SafeTables
  BY <1>3, <1>4, Zenon DEF SafeTables
<1> QED
  BY <1>1, <1>3, <1>5, Zenon

(* A translation that is not safe is refused, any other is found.          *)
LEMMA Translates ==
    ASSUME NEW t \in SafeTables, NEW k \in DOMAIN HashVal, NEW text \in Texts
    PROVE  LET u == InsertTranslation(t, k, text)
           IN  /\ u \in SafeTables
               /\ \A m \in DOMAIN HashVal : m # k => hash_table_find(u, m) = hash_table_find(t, m)
               /\ Safe(k, text) => tr(u, k) = text
               /\ ~ Safe(k, text) => u = t
<1> DEFINE item == hash_table_find(t, k)
           removed == RemoveTranslation(t, k)
           u == InsertTranslation(t, k, text)
<1>1. /\ removed \in SafeTables /\ hash_table_find(removed, k) = NULL
      /\ \A m \in DOMAIN HashVal : m # k => hash_table_find(removed, m) = hash_table_find(t, m)
  BY Untranslates
<1>2. CASE ~ Safe(k, text)
  <2>1. u = t
    BY <1>2, Zenon DEF InsertTranslation, Safe
  <2> HIDE DEF u
  <2> QED
    BY <1>2, <2>1, Zenon DEF u
<1>3. CASE Safe(k, text) /\ item # NULL /\ item.data = text
  <2>1. u = t
    BY <1>3, Zenon DEF InsertTranslation, Safe, FindTranslation
  <2>2. tr(t, k) = text
    BY <1>3, Zenon DEF tr, FindTranslation
  <2> HIDE DEF u
  <2> QED
    BY <1>3, <2>1, <2>2, Zenon DEF u
<1>4. CASE Safe(k, text) /\ ~ (item # NULL /\ item.data = text) /\ k # LANGID /\ k = text
  <2>1. u = removed
    BY <1>4, Zenon DEF InsertTranslation, Safe, FindTranslation
  <2> HIDE DEF removed
  <2>2. tr(removed, k) = text
    BY <1>1, <1>4, Zenon DEF tr, FindTranslation
  <2> HIDE DEF u
  <2> QED
    BY <1>1, <1>4, <2>1, <2>2, Zenon DEF u
<1>5. CASE Safe(k, text) /\ ~ (item # NULL /\ item.data = text) /\ ~ (k # LANGID /\ k = text)
  <2>1. u = hash_table_insert(removed, k, text)
    BY <1>5, Zenon DEF InsertTranslation, Safe, FindTranslation
  <2> HIDE DEF removed
  <2>2. /\ removed \in TablesOf(Texts)
        /\ \A m \in DOMAIN HashVal : hash_table_find(removed, m) # NULL => Safe(m, hash_table_find(removed, m).data)
    BY <1>1, Zenon DEF SafeTables
  <2> HIDE DEF u
  <2>3. /\ u \in TablesOf(Texts)
        /\ hash_table_find(u, k) # NULL /\ hash_table_find(u, k).data = text
        /\ \A m \in DOMAIN HashVal : m # k => hash_table_find(u, m) = hash_table_find(removed, m)
    BY <1>1, <2>1, <2>2, InsertMaps
  <2>4. \A m \in DOMAIN HashVal : hash_table_find(u, m) # NULL => Safe(m, hash_table_find(u, m).data)
    BY <1>5, <2>2, <2>3, Zenon
  <2>5. u \in SafeTables
    BY <2>3, <2>4, Zenon DEF SafeTables
  <2>6. tr(u, k) = text
    BY <2>3, Zenon DEF tr, FindTranslation
  <2> QED
    BY <1>1, <1>5, <2>3, <2>5, <2>6, Zenon DEF u
<1> HIDE DEF u, item
<1> QED
  BY <1>2, <1>3, <1>4, <1>5, Zenon DEF u

(* Neither LANGID nor its first translation has a conversion.              *)
LEMMA EnglishIsSafe == Safe(LANGID, English)
<1> DEFINE Scan(s, i, was) == CASE was.in = "escape" -> [out |-> Append(was.out, s[i]),
                                                in  |-> IF s[i] \in Flags THEN "escape" ELSE "text"]
                       [] was.in = "text" /\ s[i] = "%" /\ i < Len(s) ->
                            [was EXCEPT !.in = IF s[i + 1] = "%" THEN "second %" ELSE "escape"]
                       [] OTHER -> [was EXCEPT !.in = "text"]
           start == [out |-> << >>, in |-> "text"]
<1>1. ASSUME NEW s, Len(s) = 1, s[1] # "%" PROVE get_printf_escapes(s) = << >>
  <2> DEFINE g == CHOOSE f : f = [i \in 0 .. Len(s) |-> IF i = 0 THEN start ELSE Scan(s, i, f[i - 1])]
             h == [i \in 0 .. 1 |-> start]
  <2>1. get_printf_escapes(s) = g[Len(s)].out
    BY Zenon DEF get_printf_escapes
  <2>2. Scan(s, 1, start) = start
    BY <1>1
  <2> HIDE DEF Scan
  <2>3. h = [i \in 0 .. 1 |-> IF i = 0 THEN start ELSE Scan(s, i, h[i - 1])]
    <3>1. ASSUME NEW i \in 0 .. 1 PROVE start = IF i = 0 THEN start ELSE Scan(s, i, h[i - 1])
      <4>1. CASE i = 0
        BY <4>1, Zenon
      <4>2. CASE i = 1
        <5>1. h[i - 1] = start
          BY <4>2
        <5> HIDE DEF h, start
        <5> QED
          BY <2>2, <4>2, <5>1
      <4> QED
        BY <4>1, <4>2
    <3> QED
      BY <3>1, Zenon
  <2>4. g = [i \in 0 .. Len(s) |-> IF i = 0 THEN start ELSE Scan(s, i, g[i - 1])]
    BY <1>1, <2>3, Zenon
  <2>5. g[0] = start /\ g[1] = Scan(s, 1, g[0])
    <3>1. 0 \in 0 .. Len(s) /\ 1 \in 0 .. Len(s) /\ 1 # 0 /\ 1 - 1 = 0
      BY <1>1
    <3> HIDE DEF g
    <3> QED
      BY <2>4, <3>1, Zenon
  <2> HIDE DEF g
  <2> QED
    BY <1>1, <2>1, <2>2, <2>5
<1>2. Len(LANGID) = 1 /\ LANGID[1] # "%" /\ Len(English) = 1 /\ English[1] # "%"
  BY DEF LANGID, English
<1> QED
  BY <1>1, <1>2, Zenon DEF Safe, printf_formatters_are_safe

(* The first table of translations.                                        *)
LEMMA FirstTranslation ==
    /\ InitTranslationTable \in SafeTables
    /\ \A m \in Messages : tr(InitTranslationTable, m) = IF m = LANGID THEN English ELSE m
<1> DEFINE t == hash_table_init
           u == InitTranslationTable
<1>1. LANGID \in DOMAIN HashVal /\ Messages \subseteq DOMAIN HashVal /\ English \in Texts
  BY NamesAssumption DEF Texts
<1>2. \A m \in DOMAIN HashVal : hash_table_find(t, m) = NULL
  BY NothingFound, Zenon
<1>3. t \in TablesOf(Texts)
  BY EmptyTable, Zenon
<1>4. u = InsertTranslation(t, LANGID, English)
  BY Zenon DEF InitTranslationTable
<1> HIDE DEF t, u
<1>5. t \in SafeTables
  BY <1>2, <1>3, Zenon DEF SafeTables
<1>6. /\ u \in SafeTables
      /\ \A m \in DOMAIN HashVal : m # LANGID => hash_table_find(u, m) = hash_table_find(t, m)
      /\ Safe(LANGID, English) => tr(u, LANGID) = English
  BY <1>1, <1>4, <1>5, Translates
<1>7. ASSUME NEW m \in Messages PROVE tr(u, m) = IF m = LANGID THEN English ELSE m
  <2>1. CASE m = LANGID
    BY <1>6, <2>1, EnglishIsSafe, Zenon
  <2>2. CASE m # LANGID
    <3>1. hash_table_find(u, m) = NULL
      BY <1>1, <1>2, <1>6, <2>2, Zenon
    <3> QED
      BY <2>2, <3>1, Zenon DEF tr, FindTranslation
  <2> QED
    BY <2>1, <2>2, Zenon
<1> QED
  BY <1>6, <1>7, Zenon DEF u

-----------------------------------------------------------------------------
(* System variables, and what PUSH-VARS saves. *)

PlainSys == {m \in DOMAIN SysVarArr : SysVarArr[m].kind # "trans"}

\* A number that a system variable may have.
Fits(n, val) ==
    /\ val \in Int
    /\ n = Limit => val \in Nat
    /\ n # Limit /\ SysVarArr[n].modifiable => val \in SysVarArr[n].min .. SysVarArr[n].max

SysStates == {s \in [PlainSys -> Int] : \A n \in PlainSys : Fits(n, s[n])}

\* What is saved can be set again; one name was saved with one value.
Saves ==
    {x \in [name : Names \cup DOMAIN SysVarArr, data : VarData \cup {NULL} \cup Texts \cup Int] :
        /\ ~ IsSysVar(x) => x.name \in Names /\ x.data \in VarData \cup {NULL}
        /\ IsSysVar(x) => SysVarArr[x.name].modifiable
        /\ IsSysVar(x) /\ x.name \in PlainSys => Fits(x.name, x.data)
        /\ IsSysVar(x) /\ x.name \notin PlainSys =>
             x.data \in Texts /\ Safe(SysVarArr[x.name].orig, x.data)}
SaveLists == {l \in Seq(Saves) : \A i, j \in 1 .. Len(l) : l[i].name = l[j].name => l[i].data = l[j].data}

(* A list of saved variables.                                              *)
LEMMA SavesOf ==
    ASSUME NEW pv \in SaveLists
    PROVE  /\ Len(pv) \in Nat /\ DOMAIN pv = 1 .. Len(pv)
           /\ \A i \in 1 .. Len(pv) :
                /\ pv[i] \in Saves /\ IsSysVar(pv[i]) = (pv[i].name \in DOMAIN SysVarArr)
                /\ ~ IsSysVar(pv[i]) => pv[i].name \in Names /\ pv[i].data \in VarData \cup {NULL}
                /\ IsSysVar(pv[i]) => SysVarArr[pv[i].name].modifiable
                /\ IsSysVar(pv[i]) /\ pv[i].name \in PlainSys => Fits(pv[i].name, pv[i].data)
                /\ IsSysVar(pv[i]) /\ pv[i].name \notin PlainSys =>
                     pv[i].data \in Texts /\ Safe(SysVarArr[pv[i].name].orig, pv[i].data)
           /\ \A i, j \in 1 .. Len(pv) : pv[i].name = pv[j].name => pv[i].data = pv[j].data
<1>1. pv \in Seq(Saves) /\ \A i, j \in 1 .. Len(pv) : pv[i].name = pv[j].name => pv[i].data = pv[j].data
  BY Zenon DEF SaveLists
<1>2. Len(pv) \in Nat /\ DOMAIN pv = 1 .. Len(pv) /\ \A i \in 1 .. Len(pv) : pv[i] \in Saves
  BY <1>1
<1>3. \A x \in Saves :
        /\ IsSysVar(x) = (x.name \in DOMAIN SysVarArr)
        /\ ~ IsSysVar(x) => x.name \in Names /\ x.data \in VarData \cup {NULL}
        /\ IsSysVar(x) => SysVarArr[x.name].modifiable
        /\ IsSysVar(x) /\ x.name \in PlainSys => Fits(x.name, x.data)
        /\ IsSysVar(x) /\ x.name \notin PlainSys => x.data \in Texts /\ Safe(SysVarArr[x.name].orig, x.data)
  <2>1. \A x : IsSysVar(x) = (x.name \in DOMAIN SysVarArr)
    BY Zenon DEF IsSysVar
  <2> QED
    BY <2>1, Zenon DEF Saves
<1> QED
  BY <1>1, <1>2, <1>3, Zenon

(* The loop of POP-VARS over the variables.                                *)
LEMMA RestoreVarsSteps ==
    ASSUME NEW t \in Vtables, NEW pv \in SaveLists
    PROVE  \E f : /\ f \in [0 .. Len(pv) -> Vtables] /\ f[0] = t
                  /\ \A i \in 1 .. Len(pv) : f[i] = IF IsSysVar(pv[i]) THEN f[i - 1] ELSE Restore(f[i - 1], pv[i])
                  /\ RestoreVars(t, pv) = f[Len(pv)]
<1> DEFINE N == Len(pv)
           S == Vtables
           a == t
           Round(i, x) == IF IsSysVar(pv[i]) THEN x ELSE Restore(x, pv[i])
           step == [p \in (1 .. N) \X S |-> Round(p[1], p[2])]
           g == CHOOSE f : f = [i \in 0 .. N |-> IF i = 0 THEN a ELSE Round(i, f[i - 1])]
<1>1. N \in Nat
  BY SavesOf, Zenon
<1>2. a \in S
  BY Zenon
<1>3. \A i \in 1 .. N, x \in S : Round(i, x) \in S
  <2> SUFFICES ASSUME NEW i \in 1 .. N, NEW x \in S PROVE Round(i, x) \in S
    OBVIOUS
  <2>1. ~ IsSysVar(pv[i]) => pv[i].name \in Names /\ pv[i].data \in VarData \cup {NULL}
    BY SavesOf, Zenon
  <2>2. CASE IsSysVar(pv[i])
    BY <2>2
  <2>3. CASE ~ IsSysVar(pv[i])
    <3>1. Restore(x, pv[i]) \in Vtables
      BY <2>1, <2>3, RestoreValues
    <3> QED
      BY <2>3, <3>1, Zenon
  <2> QED
    BY <2>2, <2>3
<1>4. RestoreVars(t, pv) = g[N]
  BY Zenon DEF RestoreVars
<1> HIDE DEF N, S, a, Round
<1>5. step \in [(1 .. N) \X S -> S]
  BY <1>3
<1>6. \A i \in 1 .. N, x \in S : step[<<i, x>>] = Round(i, x)
  OBVIOUS
<1> HIDE DEF step
<1>7. PICK f : Computes(f, N, S, a, step)
  BY <1>1, <1>2, <1>5, LoopComputes, Zenon
<1>8. f \in [0 .. N -> S] /\ f[0] = a /\ \A i \in 1 .. N : f[i] = step[<<i, f[i - 1]>>]
  BY <1>7, Zenon DEF Computes
<1>9. /\ 0 \in 0 .. N /\ N \in 0 .. N
      /\ \A i \in 1 .. N : i \in 0 .. N /\ i - 1 \in 0 .. N /\ i # 0
      /\ \A i \in 0 .. N : i = 0 \/ i \in 1 .. N
  BY <1>1
<1>10. \A i \in 1 .. N : f[i] = Round(i, f[i - 1])
  BY <1>6, <1>8, <1>9, Zenon
<1>11. f = [i \in 0 .. N |-> IF i = 0 THEN a ELSE Round(i, f[i - 1])]
  BY <1>8, <1>9, <1>10
<1>12. g = [i \in 0 .. N |-> IF i = 0 THEN a ELSE Round(i, g[i - 1])]
  BY <1>11, Zenon
<1> HIDE DEF g
<1>13. g[0] = a /\ \A i \in 1 .. N : g[i] = Round(i, g[i - 1])
  BY <1>9, <1>12, Zenon
<1>14. \A i \in 0 .. N : g[i] = f[i]
  <2> DEFINE Same == {i \in 0 .. N : g[i] = f[i]}
  <2>1. 0 \in Same
    BY <1>8, <1>9, <1>13
  <2>2. \A i \in 1 .. N : i - 1 \in Same => i \in Same
    BY <1>9, <1>10, <1>13, Zenon
  <2> HIDE DEF Same
  <2>3. 0 .. N \subseteq Same
    BY <1>1, <2>1, <2>2, UpTo, Zenon
  <2> QED
    BY <2>3 DEF Same
<1>15. RestoreVars(t, pv) = f[N]
  BY <1>4, <1>9, <1>14, Zenon
<1> QED
  BY <1>8, <1>10, <1>15, Zenon DEF N, S, a, Round

(* POP-VARS gives a variable the value it was saved with last, if it was.  *)
LEMMA RestoresVars ==
    ASSUME NEW t \in Vtables, NEW pv \in SaveLists
    PROVE  /\ RestoreVars(t, pv) \in Vtables
           /\ \A m \in DOMAIN HashVal :
                LET at == {i \in 1 .. Len(pv) : ~ IsSysVar(pv[i]) /\ Lower[pv[i].name] = m}
                IN  /\ at = {} => ValueIn(RestoreVars(t, pv), m) = ValueIn(t, m)
                    /\ \A i \in at : (\A j \in at : j <= i) => ValueIn(RestoreVars(t, pv), m) = pv[i].data
<1> DEFINE N == Len(pv)
           u == RestoreVars(t, pv)
<1>1. PICK f : /\ f \in [0 .. N -> Vtables] /\ f[0] = t
               /\ \A i \in 1 .. N : f[i] = IF IsSysVar(pv[i]) THEN f[i - 1] ELSE Restore(f[i - 1], pv[i])
               /\ u = f[N]
  BY RestoreVarsSteps, Zenon
<1>2. N \in Nat /\ \A i \in 1 .. N : ~ IsSysVar(pv[i]) => pv[i].name \in Names /\ pv[i].data \in VarData \cup {NULL}
  BY SavesOf, Zenon
<1> HIDE DEF N, u
<1>3. 0 \in 0 .. N /\ N \in 0 .. N /\ \A i \in 1 .. N : i \in 0 .. N /\ i - 1 \in 0 .. N
  BY <1>2
<1>4. ASSUME NEW m \in DOMAIN HashVal,
             NEW at, at = {i \in 1 .. N : ~ IsSysVar(pv[i]) /\ Lower[pv[i].name] = m}
      PROVE  /\ at = {} => ValueIn(u, m) = ValueIn(t, m)
             /\ \A i \in at : (\A j \in at : j <= i) => ValueIn(u, m) = pv[i].data
  <2> DEFINE w == [n \in 0 .. N |-> ValueIn(f[n], m)]
             d == [n \in 1 .. N |-> pv[n].data]
  <2>1. ASSUME NEW n \in 1 .. N PROVE w[n] = IF n \in at THEN d[n] ELSE w[n - 1]
    <3>1. w[n] = ValueIn(f[n], m) /\ w[n - 1] = ValueIn(f[n - 1], m) /\ d[n] = pv[n].data
      BY <1>3, Zenon
    <3>2. f[n] = IF IsSysVar(pv[n]) THEN f[n - 1] ELSE Restore(f[n - 1], pv[n])
      BY <1>1, Zenon
    <3>3. n \in at <=> ~ IsSysVar(pv[n]) /\ Lower[pv[n].name] = m
      BY <1>4, Zenon
    <3>4. f[n - 1] \in Vtables
      BY <1>1, <1>3, Zenon
    <3> HIDE DEF w, d
    <3>5. CASE IsSysVar(pv[n])
      BY <3>1, <3>2, <3>3, <3>5, Zenon
    <3>6. CASE ~ IsSysVar(pv[n])
      <4>1. pv[n].name \in Names /\ pv[n].data \in VarData \cup {NULL}
        BY <1>2, <3>6, Zenon
      <4>2. LET g == Restore(f[n - 1], pv[n])
            IN  /\ ValueIn(g, Lower[pv[n].name]) = pv[n].data
                /\ \A k \in DOMAIN HashVal : k # Lower[pv[n].name] => ValueIn(g, k) = ValueIn(f[n - 1], k)
        BY <3>4, <4>1, RestoreValues
      <4> QED
        BY <3>1, <3>2, <3>3, <3>6, <4>2, Zenon
    <3> QED
      BY <3>5, <3>6, Zenon
  <2>2. w[N] = ValueIn(u, m) /\ w[0] = ValueIn(t, m)
    BY <1>1, <1>3, Zenon
  <2>3. \A i \in at : d[i] = pv[i].data
    BY <1>4, Zenon
  <2>4. at \in SUBSET (1 .. N)
    BY <1>4, Zenon
  <2> HIDE DEF w, d
  <2>5. RoundsSet(N, at, w, d)
    BY <1>2, <2>1, <2>4 DEF RoundsSet
  <2>6. LastSet(N, at, w, d)
    BY <2>5, LastCounts, Zenon
  <2> QED
    BY <2>2, <2>3, <2>6, Zenon DEF LastSet
<1>5. u \in Vtables
  BY <1>1, <1>3, Zenon
<1> QED
  BY <1>4, <1>5, Zenon DEF N, u

(* The loop of POP-VARS over the translations.                             *)
LEMMA RestoreTranslationsSteps ==
    ASSUME NEW t \in SafeTables, NEW pv \in SaveLists
    PROVE  \E f : /\ f \in [0 .. Len(pv) -> SafeTables] /\ f[0] = t
                  /\ \A i \in 1 .. Len(pv) : f[i] = IF IsSysVar(pv[i])
                         THEN SetTranslatableVariable(f[i - 1], pv[i].name, pv[i].data) ELSE f[i - 1]
                  /\ RestoreTranslations(t, pv) = f[Len(pv)]
<1> DEFINE N == Len(pv)
           S == SafeTables
           a == t
           Round(i, x) == IF IsSysVar(pv[i]) THEN SetTranslatableVariable(x, pv[i].name, pv[i].data) ELSE x
           step == [p \in (1 .. N) \X S |-> Round(p[1], p[2])]
           g == CHOOSE f : f = [i \in 0 .. N |-> IF i = 0 THEN a ELSE Round(i, f[i - 1])]
<1>1. N \in Nat
  BY SavesOf, Zenon
<1>2. a \in S
  BY Zenon
<1>3. \A i \in 1 .. N, x \in S : Round(i, x) \in S
  <2> SUFFICES ASSUME NEW i \in 1 .. N, NEW x \in S PROVE Round(i, x) \in S
    OBVIOUS
  <2> DEFINE v == SysVarArr[pv[i].name]
  <2>1. CASE IsSysVar(pv[i]) /\ pv[i].name \notin PlainSys
    <3>1. /\ pv[i].name \in DOMAIN SysVarArr /\ v.modifiable /\ v.kind = "trans"
          /\ pv[i].data \in Texts
      BY <2>1, SavesOf, Zenon DEF PlainSys
    <3>2. v.orig \in DOMAIN HashVal
      BY <3>1, SysVarsAssumption, NamesAssumption
    <3>3. InsertTranslation(x, v.orig, pv[i].data) \in SafeTables
      BY <3>1, <3>2, Translates
    <3> QED
      BY <2>1, <3>1, <3>3, Zenon DEF SetTranslatableVariable
  <2>2. CASE IsSysVar(pv[i]) /\ pv[i].name \in PlainSys
    <3>1. v.kind # "trans"
      BY <2>2, Zenon DEF PlainSys
    <3> QED
      BY <2>2, <3>1, Zenon DEF SetTranslatableVariable
  <2>3. CASE ~ IsSysVar(pv[i])
    BY <2>3, Zenon
  <2> QED
    BY <2>1, <2>2, <2>3
<1>4. RestoreTranslations(t, pv) = g[N]
  BY Zenon DEF RestoreTranslations
<1> HIDE DEF N, S, a, Round
<1>5. step \in [(1 .. N) \X S -> S]
  BY <1>3
<1>6. \A i \in 1 .. N, x \in S : step[<<i, x>>] = Round(i, x)
  OBVIOUS
<1> HIDE DEF step
<1>7. PICK f : Computes(f, N, S, a, step)
  BY <1>1, <1>2, <1>5, LoopComputes, Zenon
<1>8. f \in [0 .. N -> S] /\ f[0] = a /\ \A i \in 1 .. N : f[i] = step[<<i, f[i - 1]>>]
  BY <1>7, Zenon DEF Computes
<1>9. /\ 0 \in 0 .. N /\ N \in 0 .. N
      /\ \A i \in 1 .. N : i \in 0 .. N /\ i - 1 \in 0 .. N /\ i # 0
      /\ \A i \in 0 .. N : i = 0 \/ i \in 1 .. N
  BY <1>1
<1>10. \A i \in 1 .. N : f[i] = Round(i, f[i - 1])
  BY <1>6, <1>8, <1>9, Zenon
<1>11. f = [i \in 0 .. N |-> IF i = 0 THEN a ELSE Round(i, f[i - 1])]
  BY <1>8, <1>9, <1>10
<1>12. g = [i \in 0 .. N |-> IF i = 0 THEN a ELSE Round(i, g[i - 1])]
  BY <1>11, Zenon
<1> HIDE DEF g
<1>13. g[0] = a /\ \A i \in 1 .. N : g[i] = Round(i, g[i - 1])
  BY <1>9, <1>12, Zenon
<1>14. \A i \in 0 .. N : g[i] = f[i]
  <2> DEFINE Same == {i \in 0 .. N : g[i] = f[i]}
  <2>1. 0 \in Same
    BY <1>8, <1>9, <1>13
  <2>2. \A i \in 1 .. N : i - 1 \in Same => i \in Same
    BY <1>9, <1>10, <1>13, Zenon
  <2> HIDE DEF Same
  <2>3. 0 .. N \subseteq Same
    BY <1>1, <2>1, <2>2, UpTo, Zenon
  <2> QED
    BY <2>3 DEF Same
<1>15. RestoreTranslations(t, pv) = f[N]
  BY <1>4, <1>9, <1>14, Zenon
<1> QED
  BY <1>8, <1>10, <1>15, Zenon DEF N, S, a, Round

(* POP-VARS gives a message the translation it was saved with last.        *)
LEMMA RestoresTranslations ==
    ASSUME NEW t \in SafeTables, NEW pv \in SaveLists
    PROVE  /\ RestoreTranslations(t, pv) \in SafeTables
           /\ \A m \in Messages :
                LET at == {i \in 1 .. Len(pv) : /\ IsSysVar(pv[i]) /\ pv[i].name \notin PlainSys
                                                /\ SysVarArr[pv[i].name].orig = m}
                IN  /\ at = {} => tr(RestoreTranslations(t, pv), m) = tr(t, m)
                    /\ \A i \in at : (\A j \in at : j <= i) => tr(RestoreTranslations(t, pv), m) = pv[i].data
<1> DEFINE N == Len(pv)
           u == RestoreTranslations(t, pv)
<1>1. PICK f : /\ f \in [0 .. N -> SafeTables] /\ f[0] = t
               /\ \A i \in 1 .. N :
                    f[i] = IF IsSysVar(pv[i])
                         THEN SetTranslatableVariable(f[i - 1], pv[i].name, pv[i].data) ELSE f[i - 1]
               /\ u = f[N]
  BY RestoreTranslationsSteps, Zenon
<1>2. N \in Nat
  BY SavesOf, Zenon
<1>3. \A i \in 1 .. N :
        /\ IsSysVar(pv[i]) = (pv[i].name \in DOMAIN SysVarArr)
        /\ IsSysVar(pv[i]) => SysVarArr[pv[i].name].modifiable
        /\ IsSysVar(pv[i]) /\ pv[i].name \notin PlainSys =>
             pv[i].data \in Texts /\ Safe(SysVarArr[pv[i].name].orig, pv[i].data)
  BY SavesOf, Zenon
<1> HIDE DEF N, u
<1>4. 0 \in 0 .. N /\ N \in 0 .. N /\ \A i \in 1 .. N : i \in 0 .. N /\ i - 1 \in 0 .. N
  BY <1>2
<1>5. ASSUME NEW m \in Messages,
             NEW at, at = {i \in 1 .. N : IsSysVar(pv[i]) /\ pv[i].name \notin PlainSys /\ SysVarArr[pv[i].name].orig = m}
      PROVE  /\ at = {} => tr(u, m) = tr(t, m)
             /\ \A i \in at : (\A j \in at : j <= i) => tr(u, m) = pv[i].data
  <2> DEFINE w == [n \in 0 .. N |-> tr(f[n], m)]
             d == [n \in 1 .. N |-> pv[n].data]
  <2>1. ASSUME NEW n \in 1 .. N PROVE w[n] = IF n \in at THEN d[n] ELSE w[n - 1]
    <3> DEFINE v == SysVarArr[pv[n].name]
    <3>1. w[n] = tr(f[n], m) /\ w[n - 1] = tr(f[n - 1], m) /\ d[n] = pv[n].data
      BY <1>4, Zenon
    <3>2. f[n] = IF IsSysVar(pv[n]) THEN SetTranslatableVariable(f[n - 1], pv[n].name, pv[n].data) ELSE f[n - 1]
      BY <1>1, Zenon
    <3>3. n \in at <=> IsSysVar(pv[n]) /\ pv[n].name \notin PlainSys /\ v.orig = m
      BY <1>5, Zenon
    <3>4. f[n - 1] \in SafeTables
      BY <1>1, <1>4, Zenon
    <3> HIDE DEF w, d
    <3>5. CASE ~ IsSysVar(pv[n])
      BY <3>1, <3>2, <3>3, <3>5, Zenon
    <3>6. CASE IsSysVar(pv[n]) /\ pv[n].name \in PlainSys
      <4>1. v.kind # "trans"
        BY <3>6, Zenon DEF PlainSys
      <4>2. f[n] = f[n - 1]
        BY <3>2, <3>6, <4>1, Zenon DEF SetTranslatableVariable
      <4> QED
        BY <3>1, <3>3, <3>6, <4>2, Zenon
    <3>7. CASE IsSysVar(pv[n]) /\ pv[n].name \notin PlainSys
      <4>1. /\ pv[n].name \in DOMAIN SysVarArr /\ v.modifiable /\ v.kind = "trans"
            /\ pv[n].data \in Texts /\ Safe(v.orig, pv[n].data)
        BY <1>3, <3>7, Zenon DEF PlainSys
      <4>2. v.orig \in DOMAIN HashVal /\ m \in DOMAIN HashVal
        BY <4>1, SysVarsAssumption, NamesAssumption
      <4>3. f[n] = InsertTranslation(f[n - 1], v.orig, pv[n].data)
        BY <3>2, <3>7, <4>1, Zenon DEF SetTranslatableVariable
      <4> HIDE DEF v
      <4>4. /\ \A k \in DOMAIN HashVal : k # v.orig => hash_table_find(f[n], k) = hash_table_find(f[n - 1], k)
            /\ tr(f[n], v.orig) = pv[n].data
        BY <3>4, <4>1, <4>2, <4>3, Translates
      <4>5. m # v.orig => tr(f[n], m) = tr(f[n - 1], m)
        BY <4>2, <4>4, Zenon DEF tr, FindTranslation
      <4> QED
        BY <3>1, <3>3, <3>7, <4>4, <4>5, Zenon
    <3> QED
      BY <3>5, <3>6, <3>7, Zenon
  <2>2. w[N] = tr(u, m) /\ w[0] = tr(t, m)
    BY <1>1, <1>4, Zenon
  <2>3. \A i \in at : d[i] = pv[i].data
    BY <1>5, Zenon
  <2>4. at \in SUBSET (1 .. N)
    BY <1>5, Zenon
  <2> HIDE DEF w, d
  <2>5. RoundsSet(N, at, w, d)
    BY <1>2, <2>1, <2>4 DEF RoundsSet
  <2>6. LastSet(N, at, w, d)
    BY <2>5, LastCounts, Zenon
  <2> QED
    BY <2>2, <2>3, <2>6, Zenon DEF LastSet
<1>6. u \in SafeTables
  BY <1>1, <1>4, Zenon
<1> QED
  BY <1>5, <1>6, Zenon DEF N, u

Lowered(new, old) == new = old \/ (0 < new /\ new < old)

(* The time limit stays a number; in an included file it is lowered only.  *)
LEMMA LimitsFit ==
    ASSUME NEW old \in Nat, NEW val \in Int, NEW top \in BOOLEAN
    PROVE  LET new == expr_time_limit_func(old, val, top)
           IN  new \in Nat /\ new \in {old, val} /\ (~ top => Lowered(new, old))
<1>1. CASE val < 0 \/ (~ top /\ (val = 0 \/ val >= old))
  <2>1. expr_time_limit_func(old, val, top) = old
    BY <1>1, Zenon DEF expr_time_limit_func
  <2> QED
    BY <2>1, Zenon DEF Lowered
<1>2. CASE ~ (val < 0 \/ (~ top /\ (val = 0 \/ val >= old)))
  <2>1. expr_time_limit_func(old, val, top) = val
    BY <1>2, Zenon DEF expr_time_limit_func
  <2>2. val \in Nat /\ (~ top => 0 < val /\ val < old)
    BY <1>2
  <2> QED
    BY <2>1, <2>2, Zenon DEF Lowered
<1> QED
  BY <1>1, <1>2

(* Setting a system variable.                                              *)
LEMMA SetsSysVar ==
    ASSUME NEW sys \in SysStates, NEW n \in DOMAIN SysVarArr, NEW val, n = Limit => val \in Int, TopLevel \in BOOLEAN
    PROVE  LET u == SetSysVar(sys, n, val)
           IN  /\ u \in SysStates
               /\ n \notin PlainSys => u = sys
               /\ n \in PlainSys => u = [sys EXCEPT ![n] = u[n]] /\ u[n] \in {sys[n], val}
               /\ \A m \in PlainSys : m # n => u[m] = sys[m]
               /\ n \in PlainSys /\ n # Limit /\ SysVarArr[n].modifiable /\ Fits(n, val) => u[n] = val
               /\ ~ TopLevel => Lowered(u[Limit], sys[Limit])
<1> DEFINE v == SysVarArr[n]
           u == SetSysVar(sys, n, val)
<1>1. /\ sys \in [PlainSys -> Int] /\ \A m \in PlainSys : Fits(m, sys[m])
      /\ v.modifiable \in BOOLEAN /\ (v.kind = "limit" <=> n = Limit)
      /\ n \in PlainSys <=> v.kind # "trans"
  BY SysVarsAssumption DEF SysStates, PlainSys
<1>2. CASE ~ v.modifiable \/ v.kind = "trans"
  <2>1. u = sys
    BY <1>1, <1>2 DEF SetSysVar
  <2>2. sys = [sys EXCEPT ![n] = sys[n]]
    BY <1>1
  <2> HIDE DEF u
  <2> QED
    BY <1>1, <1>2, <2>1, <2>2, Zenon DEF u, Lowered
<1>3. CASE v.modifiable /\ v.kind # "trans" /\ n = Limit
  <2> DEFINE new == expr_time_limit_func(sys[n], val, TopLevel)
  <2>1. v.kind = "limit" /\ n \in PlainSys
    BY <1>1, <1>3
  <2>2. u = [sys EXCEPT ![n] = new]
    BY <1>3, <2>1 DEF SetSysVar
  <2>3. sys[n] \in Nat
    BY <1>1, <1>3, <2>1, Zenon DEF Fits
  <2>4. new \in Nat /\ new \in {sys[n], val} /\ (~ TopLevel => Lowered(new, sys[n]))
    <3>1. val \in Int
      BY <1>3
    <3> QED
      BY <2>3, <3>1, LimitsFit
  <2> HIDE DEF new, u, v
  <2>5. u \in [PlainSys -> Int] /\ u[n] = new /\ \A m \in PlainSys : m # n => u[m] = sys[m]
    BY <1>1, <2>1, <2>2, <2>4
  <2>6. Fits(n, new)
    <3>1. new \in Int
      BY <2>4
    <3> QED
      BY <1>3, <2>4, <3>1, Zenon DEF Fits
  <2>7. u \in SysStates
    <3>1. \A m \in PlainSys : Fits(m, u[m])
      BY <1>1, <2>5, <2>6, Zenon
    <3> QED
      BY <2>5, <3>1, Zenon DEF SysStates
  <2>8. u = [sys EXCEPT ![n] = u[n]]
    BY <2>2, <2>5, Zenon
  <2> QED
    BY <1>3, <2>1, <2>4, <2>5, <2>7, <2>8, Zenon DEF u
<1>4. CASE v.modifiable /\ v.kind # "trans" /\ n # Limit
  <2>1. v.kind # "limit" /\ n \in PlainSys
    BY <1>1, <1>4
  <2>2. u = IF val \in v.min .. v.max THEN [sys EXCEPT ![n] = val] ELSE sys
    BY <1>4, <2>1 DEF SetSysVar
  <2>3. v.min \in Int /\ v.max \in Int
    BY <1>4, SysVarsAssumption
  <2>4. CASE val \in v.min .. v.max
    <3>1. val \in Int
      BY <2>3, <2>4
    <3>2. u = [sys EXCEPT ![n] = val]
      BY <2>2, <2>4, Zenon
    <3>3. Fits(n, val)
      BY <1>4, <2>4, <3>1, Zenon DEF Fits
    <3> HIDE DEF u, v
    <3>4. u \in [PlainSys -> Int] /\ u[n] = val /\ \A m \in PlainSys : m # n => u[m] = sys[m]
      BY <1>1, <2>1, <3>1, <3>2
    <3>5. u \in SysStates
      <4>1. \A m \in PlainSys : Fits(m, u[m])
        BY <1>1, <3>3, <3>4, Zenon
      <4> QED
        BY <3>4, <4>1, Zenon DEF SysStates
    <3>6. u[Limit] = sys[Limit]
      <4>1. Limit \in PlainSys
        BY SysVarsAssumption DEF PlainSys
      <4> QED
        BY <1>4, <3>4, <4>1, Zenon
    <3>7. u = [sys EXCEPT ![n] = u[n]]
      BY <3>2, <3>4, Zenon
    <3> QED
      BY <2>1, <3>4, <3>5, <3>6, <3>7, Zenon DEF u, Lowered
  <2>5. CASE val \notin v.min .. v.max
    <3>1. u = sys
      BY <2>2, <2>5, Zenon
    <3>2. sys = [sys EXCEPT ![n] = sys[n]]
      BY <1>1
    <3>3. ~ Fits(n, val)
      BY <1>4, <2>5, Zenon DEF Fits
    <3> HIDE DEF u
    <3> QED
      BY <2>1, <3>1, <3>2, <3>3, Zenon DEF u, Lowered
  <2> QED
    BY <2>4, <2>5
<1> QED
  BY <1>1, <1>2, <1>3, <1>4, Zenon

(* A time limit that was saved is a number.                                *)
LEMMA SavedLimit ==
    ASSUME NEW pv \in SaveLists
    PROVE  \A i \in 1 .. Len(pv) : IsSysVar(pv[i]) /\ pv[i].name = Limit => pv[i].data \in Int
<1>1. Limit \in PlainSys
  BY SysVarsAssumption DEF PlainSys
<1> QED
  BY <1>1, SavesOf, Zenon DEF Fits

(* The loop of POP-VARS over the system variables.                         *)
LEMMA RestoreSysVarsSteps ==
    ASSUME NEW sys \in SysStates, NEW pv \in SaveLists, TopLevel \in BOOLEAN
    PROVE  \E f : /\ f \in [0 .. Len(pv) -> SysStates] /\ f[0] = sys
                  /\ \A i \in 1 .. Len(pv) : f[i] = IF IsSysVar(pv[i])
                         THEN SetSysVar(f[i - 1], pv[i].name, pv[i].data) ELSE f[i - 1]
                  /\ RestoreSysVars(sys, pv) = f[Len(pv)]
<1> DEFINE N == Len(pv)
           S == SysStates
           a == sys
           Round(i, x) == IF IsSysVar(pv[i]) THEN SetSysVar(x, pv[i].name, pv[i].data) ELSE x
           step == [p \in (1 .. N) \X S |-> Round(p[1], p[2])]
           g == CHOOSE f : f = [i \in 0 .. N |-> IF i = 0 THEN a ELSE Round(i, f[i - 1])]
<1>1. N \in Nat
  BY SavesOf, Zenon
<1>2. a \in S
  BY Zenon
<1>3. \A i \in 1 .. N, x \in S : Round(i, x) \in S
  <2> SUFFICES ASSUME NEW i \in 1 .. N, NEW x \in S PROVE Round(i, x) \in S
    OBVIOUS
  <2>1. CASE IsSysVar(pv[i])
    <3>1. pv[i].name \in DOMAIN SysVarArr /\ (pv[i].name = Limit => pv[i].data \in Int)
      BY <2>1, SavedLimit, SavesOf, Zenon
    <3>2. SetSysVar(x, pv[i].name, pv[i].data) \in SysStates
      BY <3>1, SetsSysVar
    <3> QED
      BY <2>1, <3>2, Zenon
  <2>2. CASE ~ IsSysVar(pv[i])
    BY <2>2, Zenon
  <2> QED
    BY <2>1, <2>2
<1>4. RestoreSysVars(sys, pv) = g[N]
  BY Zenon DEF RestoreSysVars
<1> HIDE DEF N, S, a, Round
<1>5. step \in [(1 .. N) \X S -> S]
  BY <1>3
<1>6. \A i \in 1 .. N, x \in S : step[<<i, x>>] = Round(i, x)
  OBVIOUS
<1> HIDE DEF step
<1>7. PICK f : Computes(f, N, S, a, step)
  BY <1>1, <1>2, <1>5, LoopComputes, Zenon
<1>8. f \in [0 .. N -> S] /\ f[0] = a /\ \A i \in 1 .. N : f[i] = step[<<i, f[i - 1]>>]
  BY <1>7, Zenon DEF Computes
<1>9. /\ 0 \in 0 .. N /\ N \in 0 .. N
      /\ \A i \in 1 .. N : i \in 0 .. N /\ i - 1 \in 0 .. N /\ i # 0
      /\ \A i \in 0 .. N : i = 0 \/ i \in 1 .. N
  BY <1>1
<1>10. \A i \in 1 .. N : f[i] = Round(i, f[i - 1])
  BY <1>6, <1>8, <1>9, Zenon
<1>11. f = [i \in 0 .. N |-> IF i = 0 THEN a ELSE Round(i, f[i - 1])]
  BY <1>8, <1>9, <1>10
<1>12. g = [i \in 0 .. N |-> IF i = 0 THEN a ELSE Round(i, g[i - 1])]
  BY <1>11, Zenon
<1> HIDE DEF g
<1>13. g[0] = a /\ \A i \in 1 .. N : g[i] = Round(i, g[i - 1])
  BY <1>9, <1>12, Zenon
<1>14. \A i \in 0 .. N : g[i] = f[i]
  <2> DEFINE Same == {i \in 0 .. N : g[i] = f[i]}
  <2>1. 0 \in Same
    BY <1>8, <1>9, <1>13
  <2>2. \A i \in 1 .. N : i - 1 \in Same => i \in Same
    BY <1>9, <1>10, <1>13, Zenon
  <2> HIDE DEF Same
  <2>3. 0 .. N \subseteq Same
    BY <1>1, <2>1, <2>2, UpTo, Zenon
  <2> QED
    BY <2>3 DEF Same
<1>15. RestoreSysVars(sys, pv) = f[N]
  BY <1>4, <1>9, <1>14, Zenon
<1> QED
  BY <1>8, <1>10, <1>15, Zenon DEF N, S, a, Round

(* POP-VARS gives a system variable the value it was saved with last; the  *)
(* time limit may stay as it was, and in an included file is lowered only. *)
LEMMA RestoresSysVars ==
    ASSUME NEW sys \in SysStates, NEW pv \in SaveLists, TopLevel \in BOOLEAN
    PROVE  LET u == RestoreSysVars(sys, pv)
           IN  /\ u \in SysStates
               /\ ~ TopLevel => Lowered(u[Limit], sys[Limit])
               /\ \A m \in PlainSys :
                    LET at == {i \in 1 .. Len(pv) : IsSysVar(pv[i]) /\ pv[i].name = m}
                    IN  /\ at = {} => u[m] = sys[m]
                        /\ \A i \in at : (\A j \in at : j <= i) =>
                             u[m] = pv[i].data \/ (m = Limit /\ u[m] = sys[m])
<1> DEFINE N == Len(pv)
           u == RestoreSysVars(sys, pv)
<1>1. PICK f : /\ f \in [0 .. N -> SysStates] /\ f[0] = sys
               /\ \A i \in 1 .. N :
                    f[i] = IF IsSysVar(pv[i])
                         THEN SetSysVar(f[i - 1], pv[i].name, pv[i].data) ELSE f[i - 1]
               /\ u = f[N]
  BY RestoreSysVarsSteps, Zenon
<1>2. N \in Nat
  BY SavesOf, Zenon
<1>3. /\ \A i \in 1 .. N :
           /\ IsSysVar(pv[i]) => pv[i].name \in DOMAIN SysVarArr /\ SysVarArr[pv[i].name].modifiable
           /\ IsSysVar(pv[i]) /\ pv[i].name = Limit => pv[i].data \in Int
           /\ IsSysVar(pv[i]) /\ pv[i].name \in PlainSys => Fits(pv[i].name, pv[i].data)
      /\ \A i, j \in 1 .. N : pv[i].name = pv[j].name => pv[i].data = pv[j].data
  BY SavesOf, SavedLimit, Zenon
<1> HIDE DEF N, u
<1>4. 0 \in 0 .. N /\ N \in 0 .. N /\ \A i \in 1 .. N : i \in 0 .. N /\ i - 1 \in 0 .. N
  BY <1>2
<1>5. \A i \in 1 .. N : ~ IsSysVar(pv[i]) => f[i] = f[i - 1]
  BY <1>1, Zenon
<1>6. ASSUME NEW i \in 1 .. N, IsSysVar(pv[i])
      PROVE  /\ \A m \in PlainSys : m # pv[i].name => f[i][m] = f[i - 1][m]
             /\ pv[i].name \in PlainSys => f[i][pv[i].name] \in {f[i - 1][pv[i].name], pv[i].data}
             /\ pv[i].name \in PlainSys /\ pv[i].name # Limit => f[i][pv[i].name] = pv[i].data
             /\ ~ TopLevel => Lowered(f[i][Limit], f[i - 1][Limit])
  <2> DEFINE n == pv[i].name
             val == pv[i].data
             x == f[i - 1]
  <2>1. /\ n \in DOMAIN SysVarArr /\ SysVarArr[n].modifiable /\ (n = Limit => val \in Int)
        /\ n \in PlainSys => Fits(n, val)
    BY <1>3, <1>6, Zenon
  <2>2. x \in SysStates
    BY <1>1, <1>4, Zenon
  <2>3. f[i] = SetSysVar(x, n, val)
    BY <1>1, <1>6, Zenon
  <2> HIDE DEF n, val, x
  <2>4. LET w == SetSysVar(x, n, val)
        IN  /\ n \in PlainSys => w = [x EXCEPT ![n] = w[n]] /\ w[n] \in {x[n], val}
            /\ \A m \in PlainSys : m # n => w[m] = x[m]
            /\ n \in PlainSys /\ n # Limit /\ SysVarArr[n].modifiable /\ Fits(n, val) => w[n] = val
            /\ ~ TopLevel => Lowered(w[Limit], x[Limit])
    BY <2>1, <2>2, SetsSysVar
  <2> QED
    BY <2>1, <2>3, <2>4, Zenon DEF n, val, x
<1>7. u \in SysStates
  BY <1>1, <1>4, Zenon
<1>8. Limit \in PlainSys /\ \A i \in 0 .. N : f[i][Limit] \in Nat
  <2>1. Limit \in PlainSys
    BY SysVarsAssumption DEF PlainSys
  <2>2. \A s \in SysStates : s[Limit] \in Nat
    BY <2>1, Zenon DEF SysStates, Fits
  <2>3. \A i \in 0 .. N : f[i] \in SysStates
    BY <1>1, Zenon
  <2> QED
    BY <2>1, <2>2, <2>3, Zenon
<1>9. ~ TopLevel => Lowered(u[Limit], sys[Limit])
  <2> SUFFICES ASSUME ~ TopLevel PROVE Lowered(u[Limit], sys[Limit])
    BY Zenon
  <2> DEFINE w == [i \in 0 .. N |-> f[i][Limit]]
             Good == {i \in 0 .. N : Lowered(w[i], sys[Limit])}
  <2>1. \A i \in 0 .. N : w[i] = f[i][Limit] /\ w[i] \in Nat
    BY <1>8, Zenon
  <2>2. w[0] = sys[Limit] /\ w[N] = u[Limit]
    BY <1>1, <1>4, <2>1, Zenon
  <2>3. \A i \in 1 .. N : Lowered(w[i], w[i - 1])
    <3>1. ASSUME NEW i \in 1 .. N PROVE Lowered(f[i][Limit], f[i - 1][Limit])
      <4>1. CASE IsSysVar(pv[i])
        BY <1>6, <4>1, Zenon
      <4>2. CASE ~ IsSysVar(pv[i])
        BY <1>5, <4>2, Zenon DEF Lowered
      <4> QED
        BY <4>1, <4>2
    <3> QED
      BY <1>4, <2>1, <3>1, Zenon
  <2> HIDE DEF w
  <2>4. 0 \in Good
    BY <1>4, <2>2, Zenon DEF Lowered
  <2>5. ASSUME NEW i \in 1 .. N, i - 1 \in Good PROVE i \in Good
    <3> DEFINE a == w[i]
               b == w[i - 1]
               c == sys[Limit]
    <3>1. a \in Nat /\ b \in Nat /\ c \in Nat
      BY <1>4, <2>1, <2>2, Zenon
    <3>2. Lowered(a, b) /\ Lowered(b, c)
      BY <2>3, <2>5, Zenon
    <3> HIDE DEF a, b, c
    <3>3. Lowered(a, c)
      BY <3>1, <3>2 DEF Lowered
    <3> QED
      BY <1>4, <3>3, Zenon DEF a, c
  <2>6. 0 .. N \subseteq Good
    <3> HIDE DEF Good
    <3> QED
      BY <1>2, <2>4, <2>5, UpTo
  <2> QED
    BY <1>4, <2>2, <2>6, Zenon
<1>10. ASSUME NEW m \in PlainSys, NEW at, at = {i \in 1 .. N : IsSysVar(pv[i]) /\ pv[i].name = m}
       PROVE  /\ at = {} => u[m] = sys[m]
              /\ \A i \in at : (\A j \in at : j <= i) => u[m] = pv[i].data \/ (m = Limit /\ u[m] = sys[m])
  <2> DEFINE w == [n \in 0 .. N |-> f[n][m]]
             d == [n \in 1 .. N |-> pv[n].data]
  <2>1. w[N] = u[m] /\ w[0] = sys[m]
    BY <1>1, <1>4, Zenon
  <2>2. at \in SUBSET (1 .. N) /\ \A i \in at : d[i] = pv[i].data
    BY <1>10, Zenon
  <2>3. \A n \in 1 .. N : n \in at <=> IsSysVar(pv[n]) /\ pv[n].name = m
    BY <1>10, Zenon
  <2>4. \A n \in 1 .. N : w[n] = f[n][m] /\ w[n - 1] = f[n - 1][m] /\ d[n] = pv[n].data
    BY <1>4, Zenon
  <2> HIDE DEF w, d
  <2>5. ASSUME NEW n \in 1 .. N, n \notin at PROVE w[n] = w[n - 1]
    <3>1. CASE IsSysVar(pv[n])
      <4>1. pv[n].name # m
        BY <2>3, <2>5, <3>1, Zenon
      <4>2. f[n][m] = f[n - 1][m]
        BY <1>6, <3>1, <4>1, Zenon
      <4> QED
        BY <2>4, <4>2, Zenon
    <3>2. CASE ~ IsSysVar(pv[n])
      <4>1. f[n] = f[n - 1]
        BY <1>5, <3>2, Zenon
      <4> QED
        BY <2>4, <4>1, Zenon
    <3> QED
      BY <3>1, <3>2
  <2>6. CASE m # Limit
    <3>1. \A n \in 1 .. N : n \in at => w[n] = d[n]
      BY <1>6, <2>3, <2>4, <2>6, Zenon
    <3>2. RoundsSet(N, at, w, d)
      BY <1>2, <2>2, <2>5, <3>1, Zenon DEF RoundsSet
    <3>3. LastSet(N, at, w, d)
      BY <3>2, LastCounts, Zenon
    <3> QED
      BY <2>1, <2>2, <3>3, Zenon DEF LastSet
  <2>7. CASE m = Limit
    <3> DEFINE Good == {n \in 0 .. N : w[n] \in {w[0]} \cup {d[i] : i \in at}}
    <3>1. 0 \in Good
      BY <1>4, Zenon
    <3>2. ASSUME NEW n \in 1 .. N, n - 1 \in Good PROVE n \in Good
      <4>1. n \in at => w[n] \in {w[n - 1], d[n]}
        BY <1>6, <2>3, <2>4, Zenon
      <4>2. w[n] = w[n - 1] \/ w[n] \in {d[i] : i \in at}
        BY <2>5, <4>1, Zenon
      <4> QED
        BY <1>4, <3>2, <4>2, Zenon
    <3>3. 0 .. N \subseteq Good
      <4> HIDE DEF Good
      <4> QED
        BY <1>2, <3>1, <3>2, UpTo
    <3>4. w[N] = w[0] \/ \E i \in at : w[N] = d[i]
      BY <1>4, <3>3, Zenon
    <3>5. \A i, j \in at : d[i] = d[j]
      BY <1>3, <2>2, <2>3, Zenon
    <3> QED
      BY <2>1, <2>2, <2>7, <3>4, <3>5, Zenon
  <2> QED
    BY <2>6, <2>7
<1> QED
  BY <1>7, <1>9, <1>10, Zenon DEF N, u

-----------------------------------------------------------------------------
(* Functions. *)

\* Every function there is comes from a line that defines one.
Defined(c, p, b) == [file |-> c.file, line |-> c.line, body |-> c.body, been_pushed |-> p, is_constant |-> b]
FuncData == {Defined(c, p, b) : c \in FsetLines, p \in BOOLEAN, b \in BOOLEAN}
Ftables == TablesOf(FuncData)
BodyIn(t, k) == Body(DataOf(hash_table_find(t, k)))
Clones == [name : FuncNames, data : FuncData \cup {NULL}]

(* The data of a function; its marks are no part of what it is.            *)
LEMMA DataOfFuncs ==
    /\ NULL \notin FuncData
    /\ \A c \in FsetLines, b \in BOOLEAN :
         NewFunc(c, b) \in FuncData /\ Body(NewFunc(c, b)) = [file |-> c.file, line |-> c.line, body |-> c.body]
    /\ \A d \in FuncData :
         /\ [d EXCEPT !.is_constant = FALSE] \in FuncData /\ Body([d EXCEPT !.is_constant = FALSE]) = Body(d)
         /\ [d EXCEPT !.been_pushed = TRUE] \in FuncData /\ Body([d EXCEPT !.been_pushed = TRUE]) = Body(d)
         /\ Body(d) # NULL
         /\ \E c \in FsetLines : /\ d.file = c.file /\ d.line = c.line /\ d.body = c.body
                                 /\ Body(d) = [file |-> c.file, line |-> c.line, body |-> c.body]
<1> DEFINE W(c) == [file |-> c.file, line |-> c.line, body |-> c.body]
<1>1. ASSUME NEW c, NEW p, NEW b
      PROVE  /\ Defined(c, p, b) # NULL
             /\ Body(Defined(c, p, b)) = W(c)
             /\ W(c) # NULL
             /\ Defined(c, p, b).file = c.file /\ Defined(c, p, b).line = c.line /\ Defined(c, p, b).body = c.body
  <2>1. /\ DOMAIN Defined(c, p, b) = {"file", "line", "body", "been_pushed", "is_constant"}
        /\ DOMAIN W(c) = {"file", "line", "body"}
        /\ DOMAIN NULL = {"null"}
    BY DEF Defined, NULL
  <2>2. Defined(c, p, b) # NULL /\ W(c) # NULL
    BY <2>1
  <2>3. Defined(c, p, b).file = c.file /\ Defined(c, p, b).line = c.line /\ Defined(c, p, b).body = c.body
    BY DEF Defined
  <2>4. Body(Defined(c, p, b)) = W(c)
    BY <2>2, <2>3, Zenon DEF Body
  <2> QED
    BY <2>2, <2>3, <2>4
<1> HIDE DEF W
<1>2. \A c \in FsetLines, p, b \in BOOLEAN : Defined(c, p, b) \in FuncData
  BY DEF FuncData
<1>3. TRUE \in BOOLEAN /\ FALSE \in BOOLEAN
  BY Zenon
<1>4. NULL \notin FuncData
  BY <1>1 DEF FuncData
<1>5. ASSUME NEW c \in FsetLines, NEW b \in BOOLEAN
      PROVE  NewFunc(c, b) \in FuncData /\ Body(NewFunc(c, b)) = W(c)
  <2>1. NewFunc(c, b) = Defined(c, FALSE, b)
    BY Zenon DEF NewFunc, Defined
  <2>2. Defined(c, FALSE, b) \in FuncData
    BY <1>2, <1>3, Zenon
  <2>3. Body(Defined(c, FALSE, b)) = W(c)
    BY <1>1, Zenon
  <2> QED
    BY <2>1, <2>2, <2>3, Zenon
<1>6. ASSUME NEW d \in FuncData
      PROVE  /\ [d EXCEPT !.is_constant = FALSE] \in FuncData /\ Body([d EXCEPT !.is_constant = FALSE]) = Body(d)
             /\ [d EXCEPT !.been_pushed = TRUE] \in FuncData /\ Body([d EXCEPT !.been_pushed = TRUE]) = Body(d)
             /\ Body(d) # NULL
             /\ \E c \in FsetLines : /\ d.file = c.file /\ d.line = c.line /\ d.body = c.body
                                     /\ Body(d) = W(c)
  <2>1. PICK c \in FsetLines, p \in BOOLEAN, b \in BOOLEAN : d = Defined(c, p, b)
    BY DEF FuncData
  <2>2. Defined(c, p, FALSE) \in FuncData /\ Defined(c, TRUE, b) \in FuncData
    BY <1>2, <1>3, Zenon
  <2>3. \A y : [d EXCEPT !.is_constant = y] = Defined(c, p, y)
    BY <2>1 DEF Defined
  <2>4. \A y : [d EXCEPT !.been_pushed = y] = Defined(c, y, b)
    BY <2>1 DEF Defined
  <2>5. \A q, r : Body(Defined(c, q, r)) = W(c)
    BY <1>1, Zenon
  <2>6. /\ Body(d) = W(c) /\ Body(d) # NULL
        /\ d.file = c.file /\ d.line = c.line /\ d.body = c.body
    <3>1. /\ Body(Defined(c, p, b)) = W(c)
          /\ W(c) # NULL
          /\ Defined(c, p, b).file = c.file /\ Defined(c, p, b).line = c.line /\ Defined(c, p, b).body = c.body
      BY <1>1, Zenon
    <3> QED
      BY <2>1, <3>1
  <2>7. [d EXCEPT !.is_constant = FALSE] \in FuncData /\ Body([d EXCEPT !.is_constant = FALSE]) = Body(d)
    <3> DEFINE e == [d EXCEPT !.is_constant = FALSE]
    <3>1. e = Defined(c, p, FALSE)
      BY <2>3, Zenon
    <3> HIDE DEF e
    <3>2. e \in FuncData
      BY <2>2, <3>1, Zenon
    <3>3. Body(e) = Body(d)
      BY <2>5, <2>6, <3>1, Zenon
    <3> QED
      BY <3>2, <3>3, Zenon DEF e
  <2>8. [d EXCEPT !.been_pushed = TRUE] \in FuncData /\ Body([d EXCEPT !.been_pushed = TRUE]) = Body(d)
    <3> DEFINE e == [d EXCEPT !.been_pushed = TRUE]
    <3>1. e = Defined(c, TRUE, b)
      BY <2>4, Zenon
    <3> HIDE DEF e
    <3>2. e \in FuncData
      BY <2>2, <3>1, Zenon
    <3>3. Body(e) = Body(d)
      BY <2>5, <2>6, <3>1, Zenon
    <3> QED
      BY <3>2, <3>3, Zenon DEF e
  <2> QED
    BY <2>6, <2>7, <2>8, Zenon
<1> QED
  BY <1>4, <1>5, <1>6, Zenon DEF W

(* What a name stands for, and the item it is in.                          *)
LEMMA Bodies ==
    ASSUME NEW t \in Ftables, NEW k \in DOMAIN HashVal
    PROVE  /\ hash_table_find(t, k) = NULL => BodyIn(t, k) = NULL
           /\ hash_table_find(t, k) # NULL =>
                /\ hash_table_find(t, k).data \in FuncData /\ BodyIn(t, k) = Body(hash_table_find(t, k).data)
                /\ BodyIn(t, k) # NULL
<1>1. hash_table_find(t, k) # NULL => hash_table_find(t, k).data \in FuncData
  BY FoundItem, Zenon DEF Ftables
<1> QED
  BY <1>1, DataOfFuncs, Zenon DEF BodyIn, DataOf, Body

(* A change of the marks of a function changes none.                       *)
LEMMA MarksFuncs ==
    ASSUME NEW t \in Ftables, NEW k \in DOMAIN HashVal, hash_table_find(t, k) # NULL,
           NEW d \in FuncData, Body(d) = Body(hash_table_find(t, k).data)
    PROVE  LET u == Update(t, hash_table_find(t, k), d)
           IN  u \in Ftables /\ \A m \in DOMAIN HashVal : BodyIn(u, m) = BodyIn(t, m)
<1> DEFINE u == Update(t, hash_table_find(t, k), d)
<1>1. /\ u \in TablesOf(FuncData)
      /\ hash_table_find(u, k) # NULL /\ hash_table_find(u, k).data = d
      /\ \A m \in DOMAIN HashVal : m # k => hash_table_find(u, m) = hash_table_find(t, m)
  BY UpdateMaps DEF Ftables
<1> HIDE DEF u
<1>2. BodyIn(u, k) = BodyIn(t, k)
  BY <1>1, Zenon DEF BodyIn, DataOf
<1>3. \A m \in DOMAIN HashVal : m # k => BodyIn(u, m) = BodyIn(t, m)
  BY <1>1, Zenon DEF BodyIn
<1> QED
  BY <1>1, <1>2, <1>3, Zenon DEF u, Ftables

(* FUNSET.                                                                 *)
LEMMA UnsetsFuncs ==
    ASSUME NEW t \in Ftables, NEW k \in DOMAIN HashVal
    PROVE  LET u == FUnset(t, k)
           IN  /\ u \in Ftables /\ hash_table_find(u, k) = NULL /\ BodyIn(u, k) = NULL
               /\ \A m \in DOMAIN HashVal : m # k => hash_table_find(u, m) = hash_table_find(t, m)
               /\ \A m \in DOMAIN HashVal : m # k => BodyIn(u, m) = BodyIn(t, m)
<1> DEFINE u == Without(t, k)
<1>1. FUnset(t, k) = u
  BY Zenon DEF FUnset, FindUserFunc, Without
<1>2. /\ u \in TablesOf(FuncData) /\ hash_table_find(u, k) = NULL
      /\ \A m \in DOMAIN HashVal : m # k => hash_table_find(u, m) = hash_table_find(t, m)
  BY DeleteMaps DEF Ftables
<1> HIDE DEF u
<1>3. BodyIn(u, k) = NULL
  BY <1>2, Zenon DEF BodyIn, DataOf, Body
<1>4. \A m \in DOMAIN HashVal : m # k => BodyIn(u, m) = BodyIn(t, m)
  BY <1>2, Zenon DEF BodyIn
<1> QED
  BY <1>1, <1>2, <1>3, <1>4, Zenon DEF Ftables

(* A definition in the place of the one there is, if any.                  *)
LEMMA DefinesFuncs ==
    ASSUME NEW t \in Ftables, NEW k \in DOMAIN HashVal, NEW d \in FuncData
    PROVE  LET u == hash_table_insert(FUnset(t, k), k, d)
           IN  /\ u \in Ftables /\ BodyIn(u, k) = Body(d)
               /\ \A m \in DOMAIN HashVal : m # k => BodyIn(u, m) = BodyIn(t, m)
<1> DEFINE s == FUnset(t, k)
           u == hash_table_insert(s, k, d)
<1>1. /\ s \in Ftables /\ hash_table_find(s, k) = NULL
      /\ \A m \in DOMAIN HashVal : m # k => BodyIn(s, m) = BodyIn(t, m)
  BY UnsetsFuncs
<1> HIDE DEF s
<1>2. /\ u \in TablesOf(FuncData)
      /\ hash_table_find(u, k) # NULL /\ hash_table_find(u, k).data = d
      /\ \A m \in DOMAIN HashVal : m # k => hash_table_find(u, m) = hash_table_find(s, m)
  BY <1>1, InsertMaps DEF Ftables
<1> HIDE DEF u
<1>3. BodyIn(u, k) = Body(d)
  BY <1>2, Zenon DEF BodyIn, DataOf
<1>4. \A m \in DOMAIN HashVal : m # k => BodyIn(u, m) = BodyIn(t, m)
  BY <1>1, <1>2, Zenon DEF BodyIn
<1> QED
  BY <1>2, <1>3, <1>4, Zenon DEF u, s, Ftables

(* FRENAME.                                                                *)
LEMMA RenamesFuncs ==
    ASSUME NEW t \in Ftables, NEW k \in DOMAIN HashVal, NEW l \in DOMAIN HashVal
    PROVE  LET u == RenameUserFunc(t, k, l)
           IN  /\ u \in Ftables
               /\ k = l => u = t
               /\ k # l /\ BodyIn(t, k) = NULL => BodyIn(u, l) = NULL /\ BodyIn(u, k) = BodyIn(t, k)
               /\ k # l /\ BodyIn(t, k) # NULL => BodyIn(u, l) = BodyIn(t, k) /\ BodyIn(u, k) = NULL
               /\ \A m \in DOMAIN HashVal : m # k /\ m # l => BodyIn(u, m) = BodyIn(t, m)
<1> DEFINE f == hash_table_find(t, k)
           s == FUnset(t, l)
           u == RenameUserFunc(t, k, l)
<1>1. /\ s \in Ftables /\ hash_table_find(s, l) = NULL /\ BodyIn(s, l) = NULL
      /\ \A m \in DOMAIN HashVal : m # l => hash_table_find(s, m) = hash_table_find(t, m)
      /\ \A m \in DOMAIN HashVal : m # l => BodyIn(s, m) = BodyIn(t, m)
  BY UnsetsFuncs
<1>2. /\ f = NULL => BodyIn(t, k) = NULL
      /\ f # NULL => f.data \in FuncData /\ BodyIn(t, k) = Body(f.data) /\ BodyIn(t, k) # NULL
  BY Bodies, Zenon
<1>3. CASE k = l
  <2>1. u = t
    BY <1>3, Zenon DEF RenameUserFunc
  <2> HIDE DEF u
  <2> QED
    BY <1>3, <2>1, Zenon DEF u
<1>4. CASE k # l /\ f = NULL
  <2>1. u = s
    BY <1>4, Zenon DEF RenameUserFunc, FindUserFunc
  <2> HIDE DEF u, s
  <2> QED
    BY <1>1, <1>2, <1>4, <2>1, Zenon DEF u
<1>5. CASE k # l /\ f # NULL
  <2> DEFINE r == Without(s, k)
  <2>1. hash_table_find(s, k) = f
    BY <1>1, <1>5, Zenon
  <2>2. u = hash_table_insert(r, l, f.data)
    BY <1>5, <2>1, Zenon DEF RenameUserFunc, FindUserFunc, Without
  <2> HIDE DEF s, f
  <2>3. /\ r \in TablesOf(FuncData) /\ hash_table_find(r, k) = NULL
        /\ \A m \in DOMAIN HashVal : m # k => hash_table_find(r, m) = hash_table_find(s, m)
    BY <1>1, DeleteMaps DEF Ftables
  <2> HIDE DEF r, u
  <2>4. hash_table_find(r, l) = NULL
    BY <1>1, <1>5, <2>3, Zenon
  <2>5. /\ u \in TablesOf(FuncData)
        /\ hash_table_find(u, l) # NULL /\ hash_table_find(u, l).data = f.data
        /\ \A m \in DOMAIN HashVal : m # l => hash_table_find(u, m) = hash_table_find(r, m)
    BY <1>2, <1>5, <2>2, <2>3, <2>4, InsertMaps
  <2>6. BodyIn(u, l) = BodyIn(t, k)
    BY <1>2, <1>5, <2>5, Zenon DEF BodyIn, DataOf
  <2>7. BodyIn(u, k) = NULL
    BY <1>5, <2>3, <2>5, Zenon DEF BodyIn, DataOf, Body
  <2>8. \A m \in DOMAIN HashVal : m # k /\ m # l => BodyIn(u, m) = BodyIn(t, m)
    BY <1>1, <2>3, <2>5, Zenon DEF BodyIn
  <2> QED
    BY <1>2, <1>5, <2>5, <2>6, <2>7, <2>8, Zenon DEF u, Ftables
<1> QED
  BY <1>3, <1>4, <1>5

(* PUSH-FUNCS marks a function.                                            *)
LEMMA MarksPushed ==
    ASSUME NEW t \in Ftables, NEW k \in DOMAIN HashVal
    PROVE  LET u == MarkPushed(t, k)
           IN  u \in Ftables /\ \A m \in DOMAIN HashVal : BodyIn(u, m) = BodyIn(t, m)
<1> DEFINE f == hash_table_find(t, k)
<1>1. CASE f = NULL
  <2>1. MarkPushed(t, k) = t
    BY <1>1, Zenon DEF MarkPushed, FindUserFunc
  <2> QED
    BY <2>1, Zenon
<1>2. CASE f # NULL
  <2> DEFINE d == [f.data EXCEPT !.been_pushed = TRUE]
  <2>1. MarkPushed(t, k) = Update(t, f, d)
    BY <1>2, Zenon DEF MarkPushed, FindUserFunc
  <2>2. d \in FuncData /\ Body(d) = Body(f.data)
    BY <1>2, Bodies, DataOfFuncs, Zenon
  <2> HIDE DEF d
  <2>3. LET u == Update(t, f, d)
        IN  u \in Ftables /\ \A m \in DOMAIN HashVal : BodyIn(u, m) = BodyIn(t, m)
    BY <1>2, <2>2, MarksFuncs
  <2> QED
    BY <2>1, <2>3, Zenon
<1> QED
  BY <1>1, <1>2

\* Part of a PUSH-FUNCS: the table as far as it was marked, and the clones made.
Pushing == [table : Ftables, clones : Seq(Clones)]
PushStep(x, name) ==
    IF name \in Builtins THEN x
    ELSE [table |-> MarkPushed(x.table, name), clones |-> Append(x.clones, clone_userfunc(x.table, name))]

(* One function is cloned and marked.                                      *)
LEMMA PushSteps ==
    ASSUME NEW x \in Pushing, NEW name \in FuncNames
    PROVE  LET y == PushStep(x, name)
               c == clone_userfunc(x.table, name)
           IN  /\ y \in Pushing
               /\ \A m \in DOMAIN HashVal : BodyIn(y.table, m) = BodyIn(x.table, m)
               /\ y.clones = x.clones \/ (/\ y.clones = Append(x.clones, c) /\ c.name = name
                                         /\ Body(c.data) = BodyIn(x.table, name))
<1> DEFINE c == clone_userfunc(x.table, name)
           u == MarkPushed(x.table, name)
           y == PushStep(x, name)
<1>1. name \in DOMAIN HashVal
  BY FunctionsAssumption
<1>2. x.table \in Ftables /\ x.clones \in Seq(Clones)
  BY DEF Pushing
<1>3. u \in Ftables /\ \A m \in DOMAIN HashVal : BodyIn(u, m) = BodyIn(x.table, m)
  BY <1>1, <1>2, MarksPushed
<1>4. c = [name |-> name, data |-> DataOf(hash_table_find(x.table, name))]
  BY Zenon DEF clone_userfunc, FindUserFunc, DataOf
<1>5. DataOf(hash_table_find(x.table, name)) \in FuncData \cup {NULL}
  BY <1>1, <1>2, Bodies, Zenon DEF DataOf
<1>6. c \in Clones /\ c.name = name /\ Body(c.data) = BodyIn(x.table, name)
  BY <1>4, <1>5 DEF Clones, BodyIn
<1> HIDE DEF c, u
<1>7. CASE name \in Builtins
  <2>1. y = x
    BY <1>7, Zenon DEF PushStep
  <2> HIDE DEF y
  <2> QED
    BY <2>1, Zenon DEF y
<1>8. CASE name \notin Builtins
  <2>1. y = [table |-> u, clones |-> Append(x.clones, c)]
    BY <1>8, Zenon DEF PushStep, u, c
  <2>2. Append(x.clones, c) \in Seq(Clones)
    BY <1>2, <1>6
  <2> HIDE DEF y
  <2>3. y.table = u /\ y.clones = Append(x.clones, c)
    BY <2>1
  <2>4. y \in Pushing
    BY <1>3, <2>1, <2>2 DEF Pushing
  <2> QED
    BY <1>3, <1>6, <2>3, <2>4, Zenon DEF y, c
<1> QED
  BY <1>7, <1>8

(* The loop of PUSH-FUNCS.                                                 *)
LEMMA PushLoop ==
    ASSUME NEW t \in Ftables, NEW names \in Seq(FuncNames)
    PROVE  \E f : /\ f \in [0 .. Len(names) -> Pushing] /\ f[0] = [table |-> t, clones |-> << >>]
                  /\ \A i \in 1 .. Len(names) : f[i] = PushStep(f[i - 1], names[i])
                  /\ ClonesAndMarks(t, names) = f[Len(names)]
<1> DEFINE N == Len(names)
           S == Pushing
           a == [table |-> t, clones |-> << >>]
           Round(i, x) == PushStep(x, names[i])
           step == [p \in (1 .. N) \X S |-> Round(p[1], p[2])]
           g == CHOOSE f : f = [i \in 0 .. N |-> IF i = 0 THEN a ELSE Round(i, f[i - 1])]
<1>1. N \in Nat
  OBVIOUS
<1>2. a \in S
  BY DEF Pushing
<1>3. \A i \in 1 .. N, x \in S : Round(i, x) \in S
  <2>1. \A i \in 1 .. Len(names) : names[i] \in FuncNames
    OBVIOUS
  <2> QED
    BY <2>1, PushSteps
<1>4. ClonesAndMarks(t, names) = g[N]
  BY Zenon DEF ClonesAndMarks, PushStep
<1> HIDE DEF N, S, a, Round
<1>5. step \in [(1 .. N) \X S -> S]
  BY <1>3
<1>6. \A i \in 1 .. N, x \in S : step[<<i, x>>] = Round(i, x)
  OBVIOUS
<1> HIDE DEF step
<1>7. PICK f : Computes(f, N, S, a, step)
  BY <1>1, <1>2, <1>5, LoopComputes, Zenon
<1>8. f \in [0 .. N -> S] /\ f[0] = a /\ \A i \in 1 .. N : f[i] = step[<<i, f[i - 1]>>]
  BY <1>7, Zenon DEF Computes
<1>9. /\ 0 \in 0 .. N /\ N \in 0 .. N
      /\ \A i \in 1 .. N : i \in 0 .. N /\ i - 1 \in 0 .. N /\ i # 0
      /\ \A i \in 0 .. N : i = 0 \/ i \in 1 .. N
  BY <1>1
<1>10. \A i \in 1 .. N : f[i] = Round(i, f[i - 1])
  BY <1>6, <1>8, <1>9, Zenon
<1>11. f = [i \in 0 .. N |-> IF i = 0 THEN a ELSE Round(i, f[i - 1])]
  BY <1>8, <1>9, <1>10
<1>12. g = [i \in 0 .. N |-> IF i = 0 THEN a ELSE Round(i, g[i - 1])]
  BY <1>11, Zenon
<1> HIDE DEF g
<1>13. g[0] = a /\ \A i \in 1 .. N : g[i] = Round(i, g[i - 1])
  BY <1>9, <1>12, Zenon
<1>14. \A i \in 0 .. N : g[i] = f[i]
  <2> DEFINE Same == {i \in 0 .. N : g[i] = f[i]}
  <2>1. 0 \in Same
    BY <1>8, <1>9, <1>13
  <2>2. \A i \in 1 .. N : i - 1 \in Same => i \in Same
    BY <1>9, <1>10, <1>13, Zenon
  <2> HIDE DEF Same
  <2>3. 0 .. N \subseteq Same
    BY <1>1, <2>1, <2>2, UpTo, Zenon
  <2> QED
    BY <2>3 DEF Same
<1>15. ClonesAndMarks(t, names) = f[N]
  BY <1>4, <1>9, <1>14, Zenon
<1> QED
  BY <1>8, <1>10, <1>15, Zenon DEF N, S, a, Round

(* One function is restored.                                               *)
LEMMA RestoresFunc ==
    ASSUME NEW t \in Ftables, NEW c \in Clones
    PROVE  LET u == RestoreFunc(t, c)
           IN  /\ u \in Ftables /\ BodyIn(u, c.name) = Body(c.data)
               /\ \A m \in DOMAIN HashVal : m # c.name => BodyIn(u, m) = BodyIn(t, m)
<1>1. c.name \in DOMAIN HashVal /\ c.data \in FuncData \cup {NULL}
  BY FunctionsAssumption DEF Clones
<1>2. CASE c.data = NULL
  <2>1. RestoreFunc(t, c) = FUnset(t, c.name)
    BY <1>2, Zenon DEF RestoreFunc
  <2>2. Body(c.data) = NULL
    BY <1>2, Zenon DEF Body
  <2>3. LET u == FUnset(t, c.name)
        IN  /\ u \in Ftables /\ BodyIn(u, c.name) = NULL
            /\ \A m \in DOMAIN HashVal : m # c.name => BodyIn(u, m) = BodyIn(t, m)
    BY <1>1, UnsetsFuncs
  <2> QED
    BY <2>1, <2>2, <2>3, Zenon
<1>3. CASE c.data # NULL
  <2>1. RestoreFunc(t, c) = hash_table_insert(FUnset(t, c.name), c.name, c.data)
    BY <1>3, Zenon DEF RestoreFunc
  <2>2. LET u == hash_table_insert(FUnset(t, c.name), c.name, c.data)
        IN  /\ u \in Ftables /\ BodyIn(u, c.name) = Body(c.data)
            /\ \A m \in DOMAIN HashVal : m # c.name => BodyIn(u, m) = BodyIn(t, m)
    BY <1>1, <1>3, DefinesFuncs
  <2> QED
    BY <2>1, <2>2, Zenon
<1> QED
  BY <1>2, <1>3

(* The loop of POP-FUNCS.                                                  *)
LEMMA RestoreFuncsSteps ==
    ASSUME NEW t \in Ftables, NEW clones \in Seq(Clones)
    PROVE  \E f : /\ f \in [0 .. Len(clones) -> Ftables] /\ f[0] = t
                  /\ \A i \in 1 .. Len(clones) : f[i] = RestoreFunc(f[i - 1], clones[i])
                  /\ RestoreFuncs(t, clones) = f[Len(clones)]
<1> DEFINE N == Len(clones)
           S == Ftables
           a == t
           Round(i, x) == RestoreFunc(x, clones[i])
           step == [p \in (1 .. N) \X S |-> Round(p[1], p[2])]
           g == CHOOSE f : f = [i \in 0 .. N |-> IF i = 0 THEN a ELSE Round(i, f[i - 1])]
<1>1. N \in Nat
  OBVIOUS
<1>2. a \in S
  BY Zenon
<1>3. \A i \in 1 .. N, x \in S : Round(i, x) \in S
  <2> SUFFICES ASSUME NEW i \in 1 .. N, NEW x \in S PROVE Round(i, x) \in S
    OBVIOUS
  <2>1. clones[i] \in Clones
    OBVIOUS
  <2> QED
    BY <2>1, RestoresFunc
<1>4. RestoreFuncs(t, clones) = g[N]
  BY Zenon DEF RestoreFuncs
<1> HIDE DEF N, S, a, Round
<1>5. step \in [(1 .. N) \X S -> S]
  BY <1>3
<1>6. \A i \in 1 .. N, x \in S : step[<<i, x>>] = Round(i, x)
  OBVIOUS
<1> HIDE DEF step
<1>7. PICK f : Computes(f, N, S, a, step)
  BY <1>1, <1>2, <1>5, LoopComputes, Zenon
<1>8. f \in [0 .. N -> S] /\ f[0] = a /\ \A i \in 1 .. N : f[i] = step[<<i, f[i - 1]>>]
  BY <1>7, Zenon DEF Computes
<1>9. /\ 0 \in 0 .. N /\ N \in 0 .. N
      /\ \A i \in 1 .. N : i \in 0 .. N /\ i - 1 \in 0 .. N /\ i # 0
      /\ \A i \in 0 .. N : i = 0 \/ i \in 1 .. N
  BY <1>1
<1>10. \A i \in 1 .. N : f[i] = Round(i, f[i - 1])
  BY <1>6, <1>8, <1>9, Zenon
<1>11. f = [i \in 0 .. N |-> IF i = 0 THEN a ELSE Round(i, f[i - 1])]
  BY <1>8, <1>9, <1>10
<1>12. g = [i \in 0 .. N |-> IF i = 0 THEN a ELSE Round(i, g[i - 1])]
  BY <1>11, Zenon
<1> HIDE DEF g
<1>13. g[0] = a /\ \A i \in 1 .. N : g[i] = Round(i, g[i - 1])
  BY <1>9, <1>12, Zenon
<1>14. \A i \in 0 .. N : g[i] = f[i]
  <2> DEFINE Same == {i \in 0 .. N : g[i] = f[i]}
  <2>1. 0 \in Same
    BY <1>8, <1>9, <1>13
  <2>2. \A i \in 1 .. N : i - 1 \in Same => i \in Same
    BY <1>9, <1>10, <1>13, Zenon
  <2> HIDE DEF Same
  <2>3. 0 .. N \subseteq Same
    BY <1>1, <2>1, <2>2, UpTo, Zenon
  <2> QED
    BY <2>3 DEF Same
<1>15. RestoreFuncs(t, clones) = f[N]
  BY <1>4, <1>9, <1>14, Zenon
<1> QED
  BY <1>8, <1>10, <1>15, Zenon DEF N, S, a, Round

(* PUSH-FUNCS changes no function, and clones each as it is.               *)
LEMMA PushesFuncs ==
    ASSUME NEW t \in Ftables, NEW names \in Seq(FuncNames)
    PROVE  LET all == ClonesAndMarks(t, names)
           IN  /\ all.table \in Ftables /\ all.clones \in Seq(Clones)
               /\ \A m \in DOMAIN HashVal : BodyIn(all.table, m) = BodyIn(t, m)
               /\ \A i \in 1 .. Len(all.clones) : Body(all.clones[i].data) = BodyIn(t, all.clones[i].name)
<1> DEFINE N == Len(names)
           start == [table |-> t, clones |-> << >>]
           all == ClonesAndMarks(t, names)
           AsIs(x) == /\ \A m \in DOMAIN HashVal : BodyIn(x.table, m) = BodyIn(t, m)
                      /\ \A i \in 1 .. Len(x.clones) : Body(x.clones[i].data) = BodyIn(t, x.clones[i].name)
<1>1. PICK f : /\ f \in [0 .. N -> Pushing] /\ f[0] = start
               /\ \A i \in 1 .. N : f[i] = PushStep(f[i - 1], names[i])
               /\ all = f[N]
  BY PushLoop, Zenon
<1>2. N \in Nat /\ \A i \in 1 .. N : names[i] \in FuncNames
  OBVIOUS
<1> HIDE DEF N, all
<1>3. 0 \in 0 .. N /\ N \in 0 .. N /\ \A i \in 1 .. N : i \in 0 .. N /\ i - 1 \in 0 .. N
  BY <1>2
<1> DEFINE Good == {i \in 0 .. N : AsIs(f[i])}
<1>4. 0 \in Good
  <2>1. start.table = t /\ Len(start.clones) = 0
    OBVIOUS
  <2>2. ~ \E i \in 1 .. 0 : TRUE
    OBVIOUS
  <2> HIDE DEF start
  <2>3. AsIs(start)
    BY <2>1, <2>2, Zenon
  <2> QED
    BY <1>1, <1>3, <2>3, Zenon
<1>5. ASSUME NEW i \in 1 .. N, i - 1 \in Good PROVE i \in Good
  <2> DEFINE x == f[i - 1]
             y == f[i]
             name == names[i]
             c == clone_userfunc(x.table, name)
  <2>1. x \in Pushing /\ name \in FuncNames /\ y = PushStep(x, name)
    BY <1>1, <1>2, <1>3, Zenon
  <2>2. AsIs(x)
    BY <1>5, Zenon
  <2> HIDE DEF x, y, name, c
  <2>3. /\ \A m \in DOMAIN HashVal : BodyIn(y.table, m) = BodyIn(x.table, m)
        /\ y.clones = x.clones \/ (/\ y.clones = Append(x.clones, c) /\ c.name = name
                                   /\ Body(c.data) = BodyIn(x.table, name))
    BY <2>1, PushSteps DEF c
  <2>4. name \in DOMAIN HashVal
    BY <2>1, FunctionsAssumption
  <2>5. x.clones \in Seq(Clones)
    BY <2>1 DEF Pushing
  <2>6. \A m \in DOMAIN HashVal : BodyIn(y.table, m) = BodyIn(t, m)
    BY <2>2, <2>3, Zenon
  <2>7. CASE y.clones = x.clones
    BY <1>3, <2>2, <2>6, <2>7, Zenon DEF y
  <2>8. CASE /\ y.clones = Append(x.clones, c) /\ c.name = name
             /\ Body(c.data) = BodyIn(x.table, name)
    <3>1. /\ Len(y.clones) = Len(x.clones) + 1 /\ Len(x.clones) \in Nat
          /\ \A j \in 1 .. Len(x.clones) : y.clones[j] = x.clones[j]
          /\ y.clones[Len(x.clones) + 1] = c
      BY <2>5, <2>8
    <3>2. \A j \in 1 .. Len(y.clones) : j \in 1 .. Len(x.clones) \/ j = Len(x.clones) + 1
      BY <3>1
    <3>3. Body(c.data) = BodyIn(t, c.name)
      BY <2>2, <2>4, <2>8, Zenon
    <3>4. \A j \in 1 .. Len(y.clones) : Body(y.clones[j].data) = BodyIn(t, y.clones[j].name)
      BY <2>2, <3>1, <3>2, <3>3, Zenon
    <3> QED
      BY <1>3, <2>6, <3>4, Zenon DEF y
  <2> QED
    BY <2>3, <2>7, <2>8
<1>6. 0 .. N \subseteq Good
  <2> HIDE DEF Good
  <2> QED
    BY <1>2, <1>4, <1>5, UpTo
<1>7. AsIs(all)
  BY <1>1, <1>3, <1>6, Zenon
<1>8. all.table \in Ftables /\ all.clones \in Seq(Clones)
  <2>1. all \in Pushing
    BY <1>1, <1>3, Zenon
  <2> QED
    BY <2>1 DEF Pushing
<1> QED
  BY <1>7, <1>8, Zenon DEF all

(* POP-FUNCS gives a name the function it was saved with last, if it was.  *)
LEMMA RestoresFuncs ==
    ASSUME NEW t \in Ftables, NEW clones \in Seq(Clones)
    PROVE  /\ RestoreFuncs(t, clones) \in Ftables
           /\ \A m \in DOMAIN HashVal :
                LET at == {i \in 1 .. Len(clones) : clones[i].name = m}
                IN  /\ at = {} => BodyIn(RestoreFuncs(t, clones), m) = BodyIn(t, m)
                    /\ \A i \in at : (\A j \in at : j <= i) => BodyIn(RestoreFuncs(t, clones), m) = Body(clones[i].data)
<1> DEFINE N == Len(clones)
           u == RestoreFuncs(t, clones)
<1>1. PICK f : /\ f \in [0 .. N -> Ftables] /\ f[0] = t
               /\ \A i \in 1 .. N : f[i] = RestoreFunc(f[i - 1], clones[i])
               /\ u = f[N]
  BY RestoreFuncsSteps, Zenon
<1>2. N \in Nat /\ \A i \in 1 .. N : clones[i] \in Clones
  OBVIOUS
<1> HIDE DEF N, u
<1>3. 0 \in 0 .. N /\ N \in 0 .. N /\ \A i \in 1 .. N : i \in 0 .. N /\ i - 1 \in 0 .. N
  BY <1>2
<1>4. ASSUME NEW m \in DOMAIN HashVal, NEW at, at = {i \in 1 .. N : clones[i].name = m}
      PROVE  /\ at = {} => BodyIn(u, m) = BodyIn(t, m)
             /\ \A i \in at : (\A j \in at : j <= i) => BodyIn(u, m) = Body(clones[i].data)
  <2> DEFINE w == [n \in 0 .. N |-> BodyIn(f[n], m)]
             d == [n \in 1 .. N |-> Body(clones[n].data)]
  <2>1. ASSUME NEW n \in 1 .. N PROVE w[n] = IF n \in at THEN d[n] ELSE w[n - 1]
    <3>1. w[n] = BodyIn(f[n], m) /\ w[n - 1] = BodyIn(f[n - 1], m) /\ d[n] = Body(clones[n].data)
      BY <1>3, Zenon
    <3>2. f[n] = RestoreFunc(f[n - 1], clones[n])
      BY <1>1, Zenon
    <3>3. n \in at <=> clones[n].name = m
      BY <1>4, Zenon
    <3>4. f[n - 1] \in Ftables /\ clones[n] \in Clones
      BY <1>1, <1>2, <1>3, Zenon
    <3> HIDE DEF w, d
    <3>5. LET g == RestoreFunc(f[n - 1], clones[n])
          IN  /\ BodyIn(g, clones[n].name) = Body(clones[n].data)
              /\ \A k \in DOMAIN HashVal : k # clones[n].name => BodyIn(g, k) = BodyIn(f[n - 1], k)
      BY <3>4, RestoresFunc
    <3> QED
      BY <3>1, <3>2, <3>3, <3>5, Zenon
  <2>2. w[N] = BodyIn(u, m) /\ w[0] = BodyIn(t, m)
    BY <1>1, <1>3, Zenon
  <2>3. \A i \in at : d[i] = Body(clones[i].data)
    BY <1>4, Zenon
  <2>4. at \in SUBSET (1 .. N)
    BY <1>4, Zenon
  <2> HIDE DEF w, d
  <2>5. RoundsSet(N, at, w, d)
    BY <1>2, <2>1, <2>4 DEF RoundsSet
  <2>6. LastSet(N, at, w, d)
    BY <2>5, LastCounts, Zenon
  <2> QED
    BY <2>2, <2>3, <2>6, Zenon DEF LastSet
<1>5. u \in Ftables
  BY <1>1, <1>3, Zenon
<1> QED
  BY <1>4, <1>5, Zenon DEF N, u

(* A skipped SET marks a variable there is.                                *)
LEMMA SkipsSet ==
    ASSUME NEW t \in Vtables, NEW n \in Names, FindVar(t, n) # NULL
    PROVE  LET v == FindVar(t, n)
               u == Update(t, v, [v.data EXCEPT !.is_constant = FALSE])
               was == ValueIn(t, Lower[n])
           IN  /\ u \in Vtables /\ was # NULL /\ was \in VarData
               /\ ValueIn(u, Lower[n]) = [v |-> was.v, preserve |-> was.preserve, is_constant |-> FALSE]
               /\ \A m \in DOMAIN HashVal : m # Lower[n] => ValueIn(u, m) = ValueIn(t, m)
<1> DEFINE k == Lower[n]
           v == hash_table_find(t, k)
           d == [v.data EXCEPT !.is_constant = FALSE]
           u == Update(t, v, d)
<1>1. FindVar(t, n) = v /\ v # NULL
  BY Zenon DEF FindVar
<1>2. k \in DOMAIN HashVal
  BY NamesAssumption
<1> HIDE DEF k
<1>3. v.data \in VarData /\ v.data = ValueIn(t, k) /\ ValueIn(t, k) # NULL
  BY <1>1, <1>2, Values, FoundItem, Zenon DEF Vtables
<1>4. d \in VarData /\ d = [v |-> v.data.v, preserve |-> v.data.preserve, is_constant |-> FALSE]
  BY <1>3, DataOfVars, Zenon
<1> HIDE DEF d
<1>5. /\ u \in TablesOf(VarData)
      /\ hash_table_find(u, k) # NULL /\ hash_table_find(u, k).data = d
      /\ \A m \in DOMAIN HashVal : m # k => hash_table_find(u, m) = hash_table_find(t, m)
  <2>1. hash_table_find(t, k) # NULL /\ d \in VarData
    BY <1>1, <1>4, Zenon
  <2> QED
    BY <1>2, <2>1, UpdateMaps DEF Vtables
<1> HIDE DEF u
<1>6. ValueIn(u, k) = d /\ \A m \in DOMAIN HashVal : m # k => ValueIn(u, m) = ValueIn(t, m)
  BY <1>5, Zenon DEF ValueIn, DataOf
<1>7. ValueIn(u, k) = [v |-> ValueIn(t, k).v, preserve |-> ValueIn(t, k).preserve, is_constant |-> FALSE]
  BY <1>3, <1>4, <1>6, Zenon
<1> HIDE DEF v
<1> QED
  BY <1>1, <1>3, <1>5, <1>6, <1>7, Zenon DEF k, d, u, Vtables

-----------------------------------------------------------------------------
(* The invariant. *)

VariablesOK == /\ VHashTbl \in Vtables /\ TranslationTable \in SafeTables /\ sysvars \in SysStates
               /\ VarStack \in Seq(SaveLists) /\ TopLevel \in BOOLEAN
FunctionsOK == FuncHash \in Ftables /\ UserFuncStack \in Seq(Seq(Clones))
IssuedOK    == DedupeTable \in TablesOf({TRUE}) /\ issued \in Seq(Reminders)
               /\ IsFiniteSet(ToSet(issued)) /\ DedupeIsExact
DefInv      == VariablesOK /\ FunctionsOK /\ IssuedOK

(* What holds at first.                                                    *)
LEMMA DefInvInit == Init => DefInv
<1> SUFFICES ASSUME Init PROVE DefInv
  OBVIOUS
<1>1. /\ VHashTbl = hash_table_init /\ VarStack = << >> /\ FuncHash = hash_table_init /\ UserFuncStack = << >>
      /\ DedupeTable = hash_table_init /\ issued = << >> /\ TranslationTable = InitTranslationTable
      /\ sysvars = [n \in PlainSys |-> SysVarArr[n].initial] /\ TopLevel = TRUE
  BY Zenon DEF Init, InitVars, InitUserFunctions, InitDedupeTable, PlainSys
<1>2. VHashTbl \in Vtables /\ FuncHash \in Ftables /\ DedupeTable \in TablesOf({TRUE}) /\ Items(DedupeTable) = {}
  BY <1>1, EmptyTable, Zenon DEF Vtables, Ftables
<1>3. ASSUME NEW n \in PlainSys PROVE SysVarArr[n].initial \in Int /\ Fits(n, SysVarArr[n].initial)
  <2> DEFINE v == SysVarArr[n]
  <2>1. n \in DOMAIN SysVarArr /\ v.kind # "trans" /\ v.modifiable \in BOOLEAN
    BY SysVarsAssumption DEF PlainSys
  <2>2. CASE n = Limit
    <3>1. v.initial \in Nat
      BY <2>1, <2>2, SysVarsAssumption
    <3>2. v.initial \in Int
      BY <3>1
    <3> QED
      BY <2>2, <3>1, <3>2, Zenon DEF Fits
  <2>3. CASE n # Limit
    <3>1. v.initial \in Int /\ (v.modifiable => v.initial \in v.min .. v.max)
      BY <2>1, <2>3, SysVarsAssumption
    <3> QED
      BY <2>3, <3>1, Zenon DEF Fits
  <2> QED
    BY <2>2, <2>3
<1>4. sysvars \in SysStates
  <2>1. sysvars \in [PlainSys -> Int]
    BY <1>1, <1>3
  <2>2. \A n \in PlainSys : Fits(n, sysvars[n])
    BY <1>1, <1>3, Zenon
  <2> QED
    BY <2>1, <2>2, Zenon DEF SysStates
<1>5. VarStack \in Seq(SaveLists) /\ UserFuncStack \in Seq(Seq(Clones)) /\ issued \in Seq(Reminders)
  BY <1>1
<1>6. IsFiniteSet(ToSet(issued)) /\ DedupeIsExact
  <2>1. Keys(DedupeTable) = {} /\ ToSet(issued) = {} /\ Len(issued) = 0
    <3>1. Keys(DedupeTable) = {}
      BY <1>2, Zenon DEF Keys
    <3>2. ToSet(issued) = {} /\ Len(issued) = 0
      BY <1>1 DEF ToSet
    <3> QED
      BY <3>1, <3>2
  <2>2. IsFiniteSet({}) /\ Cardinality({}) = 0
    BY FS_EmptySet
  <2> QED
    BY <2>1, <2>2, Zenon DEF DedupeIsExact
<1>7. TopLevel \in BOOLEAN /\ TranslationTable \in SafeTables
  BY <1>1, FirstTranslation, Zenon
<1> QED
  BY <1>2, <1>4, <1>5, <1>6, <1>7, Zenon DEF DefInv, VariablesOK, FunctionsOK, IssuedOK

(* What PUSH-VARS saves of a variable.                                     *)
LEMMA SavesName ==
    ASSUME VariablesOK, NEW n \in Names \cup DOMAIN SysVarArr,
           n \in DOMAIN SysVarArr => SysVarArr[n].modifiable
    PROVE  Saved(n) \in Saves /\ Saved(n).name = n
<1> DEFINE x == Saved(n)
<1>1. x.name = n /\ x = [name |-> n, data |-> x.data]
  BY DEF Saved
<1>2. CASE n \in DOMAIN SysVarArr /\ n \in PlainSys
  <2>1. SysVarArr[n].kind # "trans"
    BY <1>2, Zenon DEF PlainSys
  <2>2. x.data = sysvars[n]
    BY <1>2, <2>1 DEF Saved, GetSysVar
  <2>3. Fits(n, x.data)
    BY <1>2, <2>2, Zenon DEF VariablesOK, SysStates
  <2>4. x.data \in Int
    BY <2>3, Zenon DEF Fits
  <2>5. IsSysVar(x)
    BY <1>1, <1>2, Zenon DEF IsSysVar
  <2>6. x \in [name : Names \cup DOMAIN SysVarArr, data : VarData \cup {NULL} \cup Texts \cup Int]
    <3> HIDE DEF x
    <3> QED
      BY <1>1, <2>4
  <2> HIDE DEF x
  <2>7. x \in Saves
    BY <1>1, <1>2, <2>3, <2>5, <2>6, Zenon DEF Saves
  <2> QED
    BY <1>1, <2>7, Zenon DEF x
<1>3. CASE n \in DOMAIN SysVarArr /\ n \notin PlainSys
  <2>1. SysVarArr[n].kind = "trans"
    BY <1>3, Zenon DEF PlainSys
  <2>2. x.data = tr(TranslationTable, SysVarArr[n].orig)
    BY <1>3, <2>1 DEF Saved, GetSysVar
  <2>3. SysVarArr[n].orig \in Messages
    BY <1>3, <2>1, SysVarsAssumption
  <2>4. x.data \in Texts /\ Safe(SysVarArr[n].orig, x.data)
    BY <2>2, <2>3, Translated, Zenon DEF VariablesOK
  <2>5. IsSysVar(x)
    BY <1>1, <1>3, Zenon DEF IsSysVar
  <2>6. x \in [name : Names \cup DOMAIN SysVarArr, data : VarData \cup {NULL} \cup Texts \cup Int]
    <3> HIDE DEF x
    <3> QED
      BY <1>1, <2>4
  <2> HIDE DEF x
  <2>7. x \in Saves
    BY <1>1, <1>3, <2>4, <2>5, <2>6, Zenon DEF Saves
  <2> QED
    BY <1>1, <2>7, Zenon DEF x
<1>4. CASE n \notin DOMAIN SysVarArr
  <2>1. x.data = ValueIn(VHashTbl, Lower[n])
    BY <1>4 DEF Saved, FindVar, ValueIn, DataOf
  <2>2. n \in Names /\ Lower[n] \in DOMAIN HashVal
    BY <1>4, NamesAssumption
  <2>3. x.data \in VarData \cup {NULL}
    BY <2>1, <2>2, Values, Zenon DEF VariablesOK
  <2>4. ~ IsSysVar(x)
    BY <1>1, <1>4, Zenon DEF IsSysVar
  <2>5. x \in [name : Names \cup DOMAIN SysVarArr, data : VarData \cup {NULL} \cup Texts \cup Int]
    <3> HIDE DEF x
    <3> QED
      BY <1>1, <2>3
  <2> HIDE DEF x
  <2>6. x \in Saves
    BY <1>1, <2>2, <2>3, <2>4, <2>5, Zenon DEF Saves
  <2> QED
    BY <1>1, <2>6, Zenon DEF x
<1> QED
  BY <1>2, <1>3, <1>4

(* PUSH-VARS.                                                              *)
LEMMA SavesVars ==
    ASSUME VariablesOK, NEW names \in Seq(Names \cup DOMAIN SysVarArr),
           \A n \in ToSet(names) \cap DOMAIN SysVarArr : SysVarArr[n].modifiable
    PROVE  [i \in DOMAIN names |-> Saved(names[i])] \in SaveLists
<1> DEFINE l == [i \in DOMAIN names |-> Saved(names[i])]
<1>1. ASSUME NEW i \in DOMAIN names PROVE names[i] \in ToSet(names) /\ names[i] \in Names \cup DOMAIN SysVarArr
  BY DEF ToSet
<1>2. ASSUME NEW i \in DOMAIN names PROVE Saved(names[i]) \in Saves /\ Saved(names[i]).name = names[i]
  <2>1. names[i] \in Names \cup DOMAIN SysVarArr /\ (names[i] \in DOMAIN SysVarArr => SysVarArr[names[i]].modifiable)
    BY <1>1, Zenon
  <2> QED
    BY <2>1, SavesName
<1>3. DOMAIN names = 1 .. Len(names) /\ Len(names) \in Nat
  OBVIOUS
<1>4. l \in Seq(Saves) /\ Len(l) = Len(names)
  BY <1>2, <1>3
<1>5. \A i \in DOMAIN names : l[i] = Saved(names[i])
  BY Zenon
<1> HIDE DEF l
<1>6. \A i, j \in 1 .. Len(l) : l[i].name = l[j].name => l[i].data = l[j].data
  <2> SUFFICES ASSUME NEW i \in DOMAIN names, NEW j \in DOMAIN names, l[i].name = l[j].name PROVE l[i].data = l[j].data
    BY <1>3, <1>4, Zenon
  <2>1. names[i] = names[j]
    BY <1>2, <1>5, Zenon
  <2> QED
    BY <1>5, <2>1, Zenon
<1>7. l \in SaveLists
  BY <1>4, <1>6, Zenon DEF SaveLists
<1> QED
  BY <1>7, Zenon DEF l

(* A stack is a sequence with its top at the head.                         *)
LEMMA Stacks ==
    ASSUME NEW S, NEW s \in Seq(S)
    PROVE  /\ \A x \in S : <<x>> \o s \in Seq(S)
           /\ \A x \in S : Head(<<x>> \o s) = x /\ Tail(<<x>> \o s) = s /\ <<x>> \o s # << >>
           /\ s # << >> => Head(s) \in S /\ Tail(s) \in Seq(S)
<1>1. ASSUME NEW x \in S
      PROVE  /\ <<x>> \o s \in Seq(S) /\ Head(<<x>> \o s) = x /\ Tail(<<x>> \o s) = s /\ <<x>> \o s # << >>
  <2> DEFINE u == <<x>> \o s
  <2>1. u \in Seq(S) /\ Len(u) = Len(s) + 1 /\ Len(s) \in Nat
    OBVIOUS
  <2>2. u[1] = x /\ \A i \in 1 .. Len(s) : u[i + 1] = s[i]
    OBVIOUS
  <2> HIDE DEF u
  <2>3. u # << >>
    BY <2>1
  <2>4. Tail(u) \in Seq(S) /\ Len(Tail(u)) = Len(s) /\ \A i \in 1 .. Len(s) : Tail(u)[i] = u[i + 1]
    BY <2>1, <2>3
  <2>5. \A i \in 1 .. Len(s) : Tail(u)[i] = s[i]
    BY <2>2, <2>4
  <2>6. Tail(u) = s
    BY <2>1, <2>4, <2>5, SeqEqual
  <2>7. Head(u) = x
    BY <2>2, <2>3
  <2> QED
    BY <2>1, <2>3, <2>6, <2>7 DEF u
<1>2. s # << >> => Head(s) \in S /\ Tail(s) \in Seq(S)
  OBVIOUS
<1> QED
  BY <1>1, <1>2

-----------------------------------------------------------------------------
(* Every command keeps the invariant. *)

(* SET, on a line that is read and on a line that is skipped.              *)
LEMMA DoSetKeeps ==
    ASSUME VariablesOK, NEW n \in Names, NEW val \in VarValues,
           NEW nonconst \in BOOLEAN, NEW ignoring \in BOOLEAN, NEW constant \in BOOLEAN,
           DoSet(n, val, nonconst, ignoring, constant), UNCHANGED TopLevel
    PROVE  VariablesOK'
<1>1. VHashTbl \in Vtables /\ UNCHANGED <<VarStack, sysvars, TranslationTable>>
  BY Zenon DEF DoSet, VariablesOK
<1>2. VHashTbl' \in Vtables
  <2>1. CASE ~ ignoring
    <3>1. VHashTbl' = SetVar(VHashTbl, n, val, nonconst \/ ~ constant)
      BY <2>1, Zenon DEF DoSet
    <3>2. (nonconst \/ ~ constant) \in BOOLEAN
      BY Zenon
    <3> DEFINE b == nonconst \/ ~ constant
    <3> HIDE DEF b
    <3>3. SetVar(VHashTbl, n, val, b) \in Vtables
      <4>1. b \in BOOLEAN
        BY <3>2, Zenon DEF b
      <4> QED
        BY <1>1, <4>1, SetValues
    <3> QED
      BY <3>1, <3>3, Zenon DEF b
  <2>2. CASE ignoring /\ (constant \/ FindVar(VHashTbl, n) = NULL)
    <3>1. VHashTbl' = VHashTbl
      BY <2>2, Zenon DEF DoSet
    <3> QED
      BY <1>1, <3>1, Zenon
  <2>3. CASE ignoring /\ ~ constant /\ FindVar(VHashTbl, n) # NULL
    <3> DEFINE v == FindVar(VHashTbl, n)
    <3>1. VHashTbl' = Update(VHashTbl, v, [v.data EXCEPT !.is_constant = FALSE])
      BY <2>3, Zenon DEF DoSet
    <3>2. Update(VHashTbl, v, [v.data EXCEPT !.is_constant = FALSE]) \in Vtables
      BY <1>1, <2>3, SkipsSet
    <3> QED
      BY <3>1, <3>2, Zenon
  <2> QED
    BY <2>1, <2>2, <2>3, Zenon
<1> QED
  BY <1>1, <1>2, Zenon DEF VariablesOK

(* SET of a system variable.                                               *)
LEMMA DoSetSysKeeps ==
    ASSUME VariablesOK, NEW s \in SysSettings, DoSetSys(s[1], s[2]), UNCHANGED TopLevel
    PROVE  VariablesOK'
<1> DEFINE n == s[1]
           val == s[2]
           v == SysVarArr[n]
<1>1. n \in DOMAIN SysVarArr /\ (n = Limit => val \in Int)
  BY SysVarsAssumption
<1>2. /\ sysvars' = SetSysVar(sysvars, n, val) /\ TranslationTable' = SetTranslatableVariable(TranslationTable, n, val)
      /\ UNCHANGED <<VHashTbl, VarStack>>
  BY Zenon DEF DoSetSys
<1>3. sysvars \in SysStates /\ TranslationTable \in SafeTables /\ TopLevel \in BOOLEAN
  BY Zenon DEF VariablesOK
<1>4. v.kind = "trans" => v.orig \in DOMAIN HashVal /\ val \in Texts
  <2> SUFFICES ASSUME v.kind = "trans" PROVE v.orig \in DOMAIN HashVal /\ val \in Texts
    BY Zenon
  <2>1. v.orig \in Messages
    BY <1>1, SysVarsAssumption
  <2>2. v.orig \in DOMAIN HashVal
    BY <2>1, NamesAssumption
  <2>3. val \in Texts
    BY DEF Texts
  <2> QED
    BY <2>2, <2>3
<1> HIDE DEF n, val
<1>5. SetSysVar(sysvars, n, val) \in SysStates
  BY <1>1, <1>3, SetsSysVar
<1>6. SetTranslatableVariable(TranslationTable, n, val) \in SafeTables
  <2>1. CASE v.modifiable /\ v.kind = "trans"
    <3>1. SetTranslatableVariable(TranslationTable, n, val) = InsertTranslation(TranslationTable, v.orig, val)
      BY <2>1, Zenon DEF SetTranslatableVariable
    <3>2. InsertTranslation(TranslationTable, v.orig, val) \in SafeTables
      BY <1>3, <1>4, <2>1, Translates
    <3> QED
      BY <3>1, <3>2, Zenon
  <2>2. CASE ~ (v.modifiable /\ v.kind = "trans")
    <3>1. SetTranslatableVariable(TranslationTable, n, val) = TranslationTable
      BY <2>2, Zenon DEF SetTranslatableVariable
    <3> QED
      BY <1>3, <3>1, Zenon
  <2> QED
    BY <2>1, <2>2
<1> QED
  BY <1>2, <1>5, <1>6, Zenon DEF VariablesOK

(* PUSH-VARS.                                                              *)
LEMMA PushVarsKeeps ==
    ASSUME VariablesOK, NEW names \in VarLists, PushVars(names), UNCHANGED TopLevel
    PROVE  VariablesOK'
<1> DEFINE l == [i \in DOMAIN names |-> Saved(names[i])]
<1>1. names \in Seq(Names \cup DOMAIN SysVarArr)
  BY NamesAssumption
<1>2. CASE \E n \in ToSet(names) \cap DOMAIN SysVarArr : ~ SysVarArr[n].modifiable
  <2>1. UNCHANGED <<VHashTbl, VarStack, sysvars, TranslationTable>>
    BY <1>2, Zenon DEF PushVars
  <2> QED
    BY <2>1, Zenon DEF VariablesOK
<1>3. CASE \A n \in ToSet(names) \cap DOMAIN SysVarArr : SysVarArr[n].modifiable
  <2>1. VarStack' = <<l>> \o VarStack /\ UNCHANGED <<VHashTbl, sysvars, TranslationTable>>
    BY <1>3, Zenon DEF PushVars
  <2>2. l \in SaveLists
    BY <1>1, <1>3, SavesVars
  <2> HIDE DEF l
  <2>3. VarStack' \in Seq(SaveLists)
    BY <2>1, <2>2, Stacks, Zenon DEF VariablesOK
  <2> QED
    BY <2>1, <2>3, Zenon DEF VariablesOK
<1> QED
  BY <1>2, <1>3, Zenon

(* POP-VARS.                                                               *)
LEMMA PopVarsKeeps ==
    ASSUME VariablesOK, PopVars, UNCHANGED TopLevel
    PROVE  VariablesOK'
<1>1. /\ VarStack # << >> /\ VarStack' = Tail(VarStack)
      /\ sysvars' = RestoreSysVars(sysvars, Head(VarStack))
      /\ TranslationTable' = RestoreTranslations(TranslationTable, Head(VarStack))
      /\ VHashTbl' = RestoreVars(VHashTbl, Head(VarStack))
  BY Zenon DEF PopVars
<1>2. Head(VarStack) \in SaveLists /\ VarStack' \in Seq(SaveLists)
  BY <1>1, Stacks, Zenon DEF VariablesOK
<1>3. sysvars' \in SysStates
  BY <1>1, <1>2, RestoresSysVars DEF VariablesOK
<1>4. TranslationTable' \in SafeTables
  BY <1>1, <1>2, RestoresTranslations DEF VariablesOK
<1>5. VHashTbl' \in Vtables
  BY <1>1, <1>2, RestoresVars DEF VariablesOK
<1> QED
  BY <1>2, <1>3, <1>4, <1>5, Zenon DEF VariablesOK

(* The commands about variables.                                           *)
LEMMA VarCommandsKeep ==
    ASSUME VariablesOK, VarCommand \/ SysVarCommand, UNCHANGED TopLevel
    PROVE  VariablesOK'
<1>1. Settable \subseteq Names /\ Contextual \subseteq Names /\ Preservable \subseteq Names
  BY NamesAssumption
<1>2. ASSUME NEW n \in Settable, NEW val \in VarValues, DoSet(n, val, FALSE, FALSE, TRUE) PROVE VariablesOK'
  <2>1. n \in Names /\ TRUE \in BOOLEAN /\ FALSE \in BOOLEAN
    BY <1>1, Zenon
  <2> QED
    BY <1>2, <2>1, DoSetKeeps, Zenon
<1>3. ASSUME NEW n \in Contextual, NEW val \in VarValues, NEW b \in BOOLEAN, DoSet(n, val, b, ~ b, FALSE) PROVE VariablesOK'
  <2>1. n \in Names /\ FALSE \in BOOLEAN /\ (~ b) \in BOOLEAN
    BY <1>1, Zenon
  <2> QED
    BY <1>3, <2>1, DoSetKeeps, Zenon
<1>4. ASSUME NEW n \in Settable, DoUnset(<<n>>) PROVE VariablesOK'
  <2>1. <<n>> \in Seq(Names)
    BY <1>1
  <2>2. VHashTbl' = Unset(VHashTbl, <<n>>) /\ UNCHANGED <<VarStack, sysvars, TranslationTable>>
    BY <1>4, Zenon DEF DoUnset
  <2>3. Unset(VHashTbl, <<n>>) \in Vtables
    BY <2>1, UnsetValues, Zenon DEF VariablesOK
  <2> QED
    BY <2>2, <2>3, Zenon DEF VariablesOK
<1>5. ASSUME NEW n \in Preservable, DoPreserve(n) PROVE VariablesOK'
  <2>1. n \in Names /\ VHashTbl \in Vtables
    BY <1>1, Zenon DEF VariablesOK
  <2>2. VHashTbl' = PreserveVar(VHashTbl, n) /\ UNCHANGED <<VarStack, sysvars, TranslationTable>>
    BY <1>5, Zenon DEF DoPreserve
  <2>3. PreserveVar(VHashTbl, n) \in Vtables
    BY <2>1, PreserveValues
  <2> QED
    BY <2>2, <2>3, Zenon DEF VariablesOK
<1> QED
  BY <1>2, <1>3, <1>4, <1>5, DoSetSysKeeps, PushVarsKeeps, PopVarsKeeps, Zenon DEF VarCommand, SysVarCommand

(* FSET.                                                                   *)
LEMMA DoFsetKeeps ==
    ASSUME FunctionsOK, NEW cmd \in FsetLines \cup SkippedFsets, NEW ignoring \in BOOLEAN, NEW constant \in BOOLEAN,
           cmd \in FsetLines \/ ignoring, DoFset(cmd, ignoring, constant)
    PROVE  FunctionsOK'
<1> DEFINE name == FuncLower[cmd.name]
           f == FindUserFunc(FuncHash, name)
<1>1. FuncHash \in Ftables /\ name \in DOMAIN HashVal /\ UserFuncStack' = UserFuncStack
  <2>1. name \in DOMAIN HashVal
    BY FunctionsAssumption
  <2> QED
    BY <2>1, Zenon DEF FunctionsOK, DoFset
<1>2. FuncHash' \in Ftables
  <2>1. CASE ignoring /\ (constant \/ f = NULL)
    <3>1. FuncHash' = FuncHash
      BY <2>1 DEF DoFset
    <3> QED
      BY <1>1, <3>1, Zenon
  <2>2. CASE ignoring /\ ~ constant /\ f # NULL
    <3> DEFINE d == [f.data EXCEPT !.is_constant = FALSE]
    <3>1. FuncHash' = Update(FuncHash, f, d)
      BY <2>2 DEF DoFset
    <3>2. f = hash_table_find(FuncHash, name)
      BY Zenon DEF FindUserFunc
    <3> HIDE DEF name, f
    <3>3. f.data \in FuncData
      BY <1>1, <2>2, <3>2, Bodies, Zenon
    <3>4. d \in FuncData /\ Body(d) = Body(f.data)
      BY <3>3, DataOfFuncs, Zenon
    <3> HIDE DEF d
    <3>5. Update(FuncHash, f, d) \in Ftables
      BY <1>1, <2>2, <3>2, <3>4, MarksFuncs
    <3> QED
      BY <3>1, <3>5, Zenon
  <2>3. CASE ~ ignoring /\ (SameLine(f, cmd) \/ name \in Builtins \/ ~ Parses(cmd))
    <3>1. FuncHash' = FuncHash
      BY <2>3 DEF DoFset
    <3> QED
      BY <1>1, <3>1, Zenon
  <2>4. CASE ~ ignoring /\ ~ (SameLine(f, cmd) \/ name \in Builtins \/ ~ Parses(cmd))
    <3>1. FuncHash' = hash_table_insert(FUnset(FuncHash, name), name, NewFunc(cmd, constant))
      BY <2>4 DEF DoFset
    <3>2. NewFunc(cmd, constant) \in FuncData
      BY <2>4, DataOfFuncs, Zenon
    <3> HIDE DEF name
    <3>3. hash_table_insert(FUnset(FuncHash, name), name, NewFunc(cmd, constant)) \in Ftables
      BY <1>1, <3>2, DefinesFuncs
    <3> QED
      BY <3>1, <3>3, Zenon
  <2> QED
    BY <2>1, <2>2, <2>3, <2>4, Zenon
<1> QED
  BY <1>1, <1>2, Zenon DEF FunctionsOK

(* The commands about functions.                                           *)
LEMMA FuncCommandsKeep ==
    ASSUME FunctionsOK, FuncCommand
    PROVE  FunctionsOK'
<1>1. FuncHash \in Ftables /\ UserFuncStack \in Seq(Seq(Clones))
  BY Zenon DEF FunctionsOK
<1>2. TRUE \in BOOLEAN /\ FALSE \in BOOLEAN
  BY Zenon
<1>3. ASSUME NEW cmd \in FsetLines, DoFset(cmd, FALSE, TRUE) PROVE FunctionsOK'
  <2>1. cmd \in FsetLines \cup SkippedFsets
    OBVIOUS
  <2> QED
    BY <1>2, <1>3, <2>1, DoFsetKeeps, Zenon
<1>4. ASSUME NEW cmd \in SkippedFsets, DoFset(cmd, TRUE, FALSE) PROVE FunctionsOK'
  <2>1. cmd \in FsetLines \cup SkippedFsets
    OBVIOUS
  <2> QED
    BY <1>2, <1>4, <2>1, DoFsetKeeps, Zenon
<1>5. ASSUME NEW n \in FuncNames, DoFunset(n) PROVE FunctionsOK'
  <2>1. FuncLower[n] \in DOMAIN HashVal
    BY FunctionsAssumption
  <2>2. FuncHash' = FUnset(FuncHash, FuncLower[n]) /\ UserFuncStack' = UserFuncStack
    BY <1>5, Zenon DEF DoFunset
  <2>3. FUnset(FuncHash, FuncLower[n]) \in Ftables
    BY <1>1, <2>1, UnsetsFuncs
  <2> QED
    BY <1>1, <2>2, <2>3, Zenon DEF FunctionsOK
<1>6. ASSUME NEW p \in Renames, DoFrename(p[1], p[2]) PROVE FunctionsOK'
  <2> DEFINE k == FuncLower[p[1]]
             l == FuncLower[p[2]]
  <2>1. k \in DOMAIN HashVal /\ l \in DOMAIN HashVal
    <3>1. p[1] \in FuncNames /\ p[2] \in FuncNames
      BY FunctionsAssumption
    <3> QED
      BY <3>1, FunctionsAssumption
  <2>2. FuncHash' \in {FuncHash, RenameUserFunc(FuncHash, k, l)} /\ UserFuncStack' = UserFuncStack
    BY <1>6 DEF DoFrename
  <2> HIDE DEF k, l
  <2>3. RenameUserFunc(FuncHash, k, l) \in Ftables
    BY <1>1, <2>1, RenamesFuncs
  <2> QED
    BY <1>1, <2>2, <2>3, Zenon DEF FunctionsOK
<1>7. ASSUME NEW names \in FuncLists, PushUserFuncs(names) PROVE FunctionsOK'
  <2> DEFINE all == ClonesAndMarks(FuncHash, names)
  <2>1. names \in Seq(FuncNames)
    BY FunctionsAssumption
  <2>2. FuncHash' = all.table /\ UserFuncStack' = IF all.clones = << >> THEN UserFuncStack
        ELSE <<all.clones>> \o UserFuncStack
    BY <1>7, Zenon DEF PushUserFuncs
  <2>3. all.table \in Ftables /\ all.clones \in Seq(Clones)
    BY <1>1, <2>1, PushesFuncs
  <2> HIDE DEF all
  <2>4. <<all.clones>> \o UserFuncStack \in Seq(Seq(Clones))
    BY <1>1, <2>3, Stacks, Zenon
  <2> QED
    BY <1>1, <2>2, <2>3, <2>4, Zenon DEF FunctionsOK
<1>8. ASSUME PopUserFuncs PROVE FunctionsOK'
  <2>1. /\ UserFuncStack # << >> /\ UserFuncStack' = Tail(UserFuncStack)
        /\ FuncHash' = RestoreFuncs(FuncHash, Head(UserFuncStack))
    BY <1>8, Zenon DEF PopUserFuncs
  <2>2. Head(UserFuncStack) \in Seq(Clones) /\ Tail(UserFuncStack) \in Seq(Seq(Clones))
    BY <1>1, <2>1, Stacks, Zenon
  <2>3. RestoreFuncs(FuncHash, Head(UserFuncStack)) \in Ftables
    BY <1>1, <2>2, RestoresFuncs, Zenon
  <2> QED
    BY <2>1, <2>2, <2>3, Zenon DEF FunctionsOK
<1> QED
  BY <1>3, <1>4, <1>5, <1>6, <1>7, <1>8, Zenon DEF FuncCommand

(* The commands about translations.                                        *)
LEMMA TransCommandsKeep ==
    ASSUME TranslationTable \in SafeTables, TransCommand
    PROVE  TranslationTable' \in SafeTables
<1>1. Messages \subseteq DOMAIN HashVal /\ LANGID \in DOMAIN HashVal /\ Messages \subseteq Texts /\ English \in Texts
  BY NamesAssumption DEF Texts
<1>2. ASSUME NEW o \in Messages, NEW m \in Messages, DoTranslate(o, m) PROVE TranslationTable' \in SafeTables
  <2>1. TranslationTable' = InsertTranslation(TranslationTable, o, m)
    BY <1>2, Zenon DEF DoTranslate
  <2>2. o \in DOMAIN HashVal /\ m \in Texts
    BY <1>1, Zenon
  <2>3. InsertTranslation(TranslationTable, o, m) \in SafeTables
    BY <2>2, Translates
  <2> QED
    BY <2>1, <2>3, Zenon
<1>3. ASSUME NEW o \in Messages, DoUntranslate(o) PROVE TranslationTable' \in SafeTables
  <2> DEFINE r == RemoveTranslation(TranslationTable, o)
  <2>1. r \in SafeTables
    <3>1. o \in DOMAIN HashVal
      BY <1>1, Zenon
    <3> QED
      BY <3>1, Untranslates
  <2>2. TranslationTable' \in {r, InsertTranslation(r, LANGID, English)}
    BY <1>3, Zenon DEF DoUntranslate
  <2> HIDE DEF r
  <2>3. InsertTranslation(r, LANGID, English) \in SafeTables
    BY <1>1, <2>1, Translates
  <2> QED
    BY <2>1, <2>2, <2>3, Zenon
<1>4. ASSUME ClearTranslationTable PROVE TranslationTable' \in SafeTables
  BY <1>4, FirstTranslation, Zenon DEF ClearTranslationTable
<1> QED
  BY <1>2, <1>3, <1>4, Zenon DEF TransCommand

(* A reminder is issued, and remembered.                                   *)
LEMMA IssueOnceKeeps ==
    ASSUME IssuedOK, NEW r \in Reminders, IssueOnce(r)
    PROVE  IssuedOK' /\ Keys(DedupeTable)' = Keys(DedupeTable) \cup {r} /\ r \notin Keys(DedupeTable)
<1> DEFINE t == DedupeTable
           u == hash_table_insert(t, r, TRUE)
<1>1. t \in TablesOf({TRUE}) /\ issued \in Seq(Reminders) /\ IsFiniteSet(ToSet(issued))
  BY Zenon DEF IssuedOK
<1>2. Cardinality(ToSet(issued)) = Len(issued) /\ Keys(t) = ToSet(issued)
  BY Zenon DEF IssuedOK, DedupeIsExact
<1>3. hash_table_find(t, r) = NULL /\ DedupeTable' = u /\ issued' = Append(issued, r)
  BY Zenon DEF IssueOnce, ShouldDedupe
<1>4. r \in DOMAIN HashVal
  BY NamesAssumption
<1>5. TRUE \in {TRUE}
  BY Zenon
<1>6. u \in TablesOf({TRUE}) /\ Items(u) = Items(t) \cup {Entry(r, TRUE)}
  <2> DEFINE D == {TRUE}
             d == TRUE
             w == hash_table_insert(t, r, d)
  <2>1. t \in TablesOf(D) /\ d \in D /\ hash_table_find(t, r) = NULL
    BY <1>1, <1>3, <1>5, Zenon
  <2> HIDE DEF t, d, D
  <2>2. w \in TablesOf(D) /\ Items(w) = Items(t) \cup {Entry(r, d)}
    BY <1>4, <2>1, InsertMaps
  <2> QED
    BY <2>2, Zenon DEF d, D, t
<1> HIDE DEF u
<1>7. Keys(u) = Keys(t) \cup {r}
  <2>1. Entry(r, TRUE).key = r
    BY DEF Entry
  <2> DEFINE e == Entry(r, TRUE)
  <2> HIDE DEF e
  <2>2. Items(u) = Items(t) \cup {e} /\ e.key = r
    BY <1>6, <2>1, Zenon DEF e
  <2> QED
    BY <2>2 DEF Keys
<1>8. r \notin Keys(t)
  BY <1>1, <1>3, <1>4, KeysFound, Zenon
<1>9. ToSet(issued') = ToSet(issued) \cup {r} /\ Len(issued') = Len(issued) + 1 /\ Len(issued) \in Nat
  BY <1>1, <1>3 DEF ToSet
<1>10. r \notin ToSet(issued)
  BY <1>2, <1>8, Zenon
<1> DEFINE S == ToSet(issued)
<1> HIDE DEF S
<1>11. IsFiniteSet(S \cup {r}) /\ Cardinality(S \cup {r}) = Cardinality(S) + 1
  <2>1. IsFiniteSet(S) /\ r \notin S
    BY <1>1, <1>10, Zenon DEF S
  <2> QED
    BY <2>1, FS_AddElement
<1>12. IsFiniteSet(ToSet(issued')) /\ Cardinality(ToSet(issued')) = Len(issued')
  <2>1. ToSet(issued') = S \cup {r} /\ Cardinality(S) = Len(issued)
    BY <1>2, <1>9, Zenon DEF S
  <2> QED
    BY <1>9, <1>11, <2>1, Zenon
<1>13. issued' \in Seq(Reminders)
  BY <1>1, <1>3
<1>14. Keys(DedupeTable') = ToSet(issued')
  BY <1>2, <1>3, <1>7, <1>9, Zenon
<1> QED
  BY <1>3, <1>6, <1>7, <1>8, <1>12, <1>13, <1>14, Zenon DEF IssuedOK, DedupeIsExact

(* The next pass.                                                          *)
LEMMA NewPassKeeps ==
    ASSUME DefInv, PerIterationInit
    PROVE  DefInv' /\ Keys(DedupeTable)' = {}
<1>1. /\ VHashTbl' = DestroyVars(VHashTbl) /\ VarStack' = << >> /\ UserFuncStack' = << >>
      /\ DedupeTable' = hash_table_init /\ issued' = << >> /\ TopLevel' = TRUE
      /\ UNCHANGED <<sysvars, TranslationTable, FuncHash>>
  BY Zenon DEF PerIterationInit
<1>2. VariablesOK /\ FunctionsOK
  BY Zenon DEF DefInv
<1>3. VHashTbl' \in Vtables
  <2>1. DestroyVars(VHashTbl) \in Vtables
    BY <1>2, DestroyValues DEF VariablesOK
  <2> QED
    BY <1>1, <2>1, Zenon
<1>4. VarStack' \in Seq(SaveLists) /\ UserFuncStack' \in Seq(Seq(Clones)) /\ issued' \in Seq(Reminders)
  BY <1>1
<1>5. VariablesOK' /\ FunctionsOK'
  <2>1. TopLevel' \in BOOLEAN
    BY <1>1, Zenon
  <2> QED
    BY <1>1, <1>2, <1>3, <1>4, <2>1, Zenon DEF VariablesOK, FunctionsOK
<1>6. DedupeTable' \in TablesOf({TRUE}) /\ Keys(DedupeTable') = {}
  <2>1. DedupeTable' \in TablesOf({TRUE}) /\ Items(DedupeTable') = {}
    BY <1>1, EmptyTable, Zenon
  <2> QED
    BY <2>1 DEF Keys
<1>7. ToSet(issued') = {} /\ Len(issued') = 0 /\ IsFiniteSet({}) /\ Cardinality({}) = 0
  <2>1. ToSet(issued') = {} /\ Len(issued') = 0
    BY <1>1 DEF ToSet
  <2> QED
    BY <2>1, FS_EmptySet
<1>8. IssuedOK'
  BY <1>4, <1>6, <1>7, Zenon DEF IssuedOK, DedupeIsExact
<1> QED
  BY <1>5, <1>6, <1>8, Zenon DEF DefInv

(* Every step keeps the invariant.                                         *)
LEMMA DefInvNext ==
    ASSUME DefInv, [Next]_<<script, definitions>>
    PROVE  DefInv'
<1>1. VariablesOK /\ FunctionsOK /\ IssuedOK
  BY Zenon DEF DefInv
<1>2. ASSUME UNCHANGED <<VHashTbl, VarStack, sysvars, TranslationTable, TopLevel>> PROVE VariablesOK'
  BY <1>1, <1>2, Zenon DEF VariablesOK
<1>3. ASSUME UNCHANGED <<FuncHash, UserFuncStack>> PROVE FunctionsOK'
  BY <1>1, <1>3, Zenon DEF FunctionsOK
<1>4. ASSUME UNCHANGED <<DedupeTable, issued>> PROVE IssuedOK'
  BY <1>1, <1>4, Zenon DEF IssuedOK, DedupeIsExact, Keys, Items, ItemsIn
<1>5. CASE (VarCommand \/ SysVarCommand) /\ UNCHANGED <<Functions, Issued, TopLevel>>
  <2>1. VariablesOK'
    BY <1>1, <1>5, VarCommandsKeep, Zenon
  <2>2. UNCHANGED <<FuncHash, UserFuncStack>> /\ UNCHANGED <<DedupeTable, issued>>
    BY <1>5, Zenon DEF Functions, Issued
  <2> QED
    BY <1>3, <1>4, <2>1, <2>2, Zenon DEF DefInv
<1>6. CASE FuncCommand /\ UNCHANGED <<Variables, Issued, TopLevel>>
  <2>1. FunctionsOK'
    BY <1>1, <1>6, FuncCommandsKeep, Zenon
  <2>2. UNCHANGED <<VHashTbl, VarStack, sysvars, TranslationTable, TopLevel>> /\ UNCHANGED <<DedupeTable, issued>>
    BY <1>6, Zenon DEF Variables, Issued
  <2> QED
    BY <1>2, <1>4, <2>1, <2>2, Zenon DEF DefInv
<1>7. CASE TransCommand /\ UNCHANGED <<VHashTbl, VarStack, sysvars, Functions, Issued, TopLevel>>
  <2>1. TranslationTable' \in SafeTables
    BY <1>1, <1>7, TransCommandsKeep, Zenon DEF VariablesOK
  <2>2. UNCHANGED <<VHashTbl, VarStack, sysvars, TopLevel>> /\ UNCHANGED <<FuncHash, UserFuncStack>>
        /\ UNCHANGED <<DedupeTable, issued>>
    BY <1>7, Zenon DEF Functions, Issued
  <2>3. VariablesOK'
    BY <1>1, <2>1, <2>2, Zenon DEF VariablesOK
  <2> QED
    BY <1>3, <1>4, <2>2, <2>3, Zenon DEF DefInv
<1>8. CASE (\E r \in Reminders : IssueOnce(r) \/ Suppress(r)) /\ UNCHANGED <<Variables, Functions, TopLevel>>
  <2>1. IssuedOK'
    <3>1. PICK r \in Reminders : IssueOnce(r) \/ Suppress(r)
      BY <1>8, Zenon
    <3>2. CASE IssueOnce(r)
      BY <1>1, <3>2, IssueOnceKeeps, Zenon
    <3>3. CASE Suppress(r)
      BY <1>4, <3>3, Zenon DEF Suppress
    <3> QED
      BY <3>1, <3>2, <3>3
  <2>2. UNCHANGED <<VHashTbl, VarStack, sysvars, TranslationTable, TopLevel>> /\ UNCHANGED <<FuncHash, UserFuncStack>>
    BY <1>8, Zenon DEF Variables, Functions
  <2> QED
    BY <1>2, <1>3, <2>1, <2>2, Zenon DEF DefInv
<1>9. CASE OtherFile /\ UNCHANGED <<Variables, Functions, Issued>>
  <2>1. UNCHANGED <<VHashTbl, VarStack, sysvars, TranslationTable>> /\ UNCHANGED <<FuncHash, UserFuncStack>>
        /\ UNCHANGED <<DedupeTable, issued>>
    BY <1>9, Zenon DEF Variables, Functions, Issued
  <2>2. TopLevel' \in BOOLEAN
    BY <1>1, <1>9, Zenon DEF OtherFile, VariablesOK
  <2>3. VariablesOK'
    BY <1>1, <2>1, <2>2, Zenon DEF VariablesOK
  <2> QED
    BY <1>3, <1>4, <2>1, <2>3, Zenon DEF DefInv
<1>10. CASE PerIterationInit
  BY <1>10, NewPassKeeps, Zenon
<1>11. CASE UNCHANGED <<script, definitions>>
  <2>1. UNCHANGED <<VHashTbl, VarStack, sysvars, TranslationTable, TopLevel>>
        /\ UNCHANGED <<FuncHash, UserFuncStack>> /\ UNCHANGED <<DedupeTable, issued>>
    BY <1>11, Zenon DEF definitions
  <2> QED
    BY <1>2, <1>3, <1>4, <2>1, Zenon DEF DefInv
<1> QED
  BY <1>5, <1>6, <1>7, <1>8, <1>9, <1>10, <1>11, Zenon DEF Next

(* The tables, the stacks and the issued reminders stay what they are.     *)
THEOREM DefinitionsInvariant == Spec => []DefInv
<1>1. DefInv /\ [Next]_<<script, definitions>> => DefInv'
  BY DefInvNext
<1> QED
  BY <1>1, DefInvInit, PTL DEF Spec

(* Every table keeps the shape that finding, inserting, deleting and the   *)
(* iterator rely on.                                                       *)
THEOREM TablesWellFormed == Spec => []TypeOK
<1>1. DefInv => TypeOK
  <2> SUFFICES ASSUME DefInv PROVE TypeOK
    OBVIOUS
  <2>1. VHashTbl \in TablesOf(VarData) /\ FuncHash \in TablesOf(FuncData) /\ DedupeTable \in TablesOf({TRUE})
    BY Zenon DEF DefInv, VariablesOK, FunctionsOK, IssuedOK, Vtables, Ftables
  <2>2. TranslationTable \in TablesOf(Texts)
    BY Zenon DEF DefInv, VariablesOK, SafeTables
  <2> QED
    BY <2>1, <2>2, TablesAreWellFormed, Zenon DEF TypeOK
<1> QED
  BY <1>1, DefinitionsInvariant, PTL

(* In a pass no reminder is issued twice, and exactly the issued ones are  *)
(* remembered.                                                             *)
THEOREM IssuedOnceInAPass == Spec => []DedupeIsExact
<1>1. DefInv => DedupeIsExact
  BY Zenon DEF DefInv, IssuedOK
<1> QED
  BY <1>1, DefinitionsInvariant, PTL

(* A function has the body of the line it names.                           *)
LEMMA InvFunctions == DefInv => FunctionsAsWritten
<1> SUFFICES ASSUME DefInv PROVE FunctionsAsWritten
  OBVIOUS
<1>1. FuncHash \in Ftables /\ UserFuncStack \in Seq(Seq(Clones))
  BY Zenon DEF DefInv, FunctionsOK
<1>2. ASSUME NEW cmd \in FsetLines, SameLine(FindUserFunc(FuncHash, FuncLower[cmd.name]), cmd)
      PROVE  FindUserFunc(FuncHash, FuncLower[cmd.name]).data.body = cmd.body
  <2> DEFINE k == FuncLower[cmd.name]
             f == hash_table_find(FuncHash, k)
  <2>1. k \in DOMAIN HashVal
    BY FunctionsAssumption
  <2>2. f # NULL /\ f.data.file = cmd.file /\ f.data.file # "[cmdline]" /\ f.data.line = cmd.line
    BY <1>2, Zenon DEF SameLine, FindUserFunc
  <2>3. f.data \in FuncData
    BY <1>1, <2>1, <2>2, Bodies, Zenon
  <2>4. PICK c \in FsetLines : f.data.file = c.file /\ f.data.line = c.line /\ f.data.body = c.body
    BY <2>3, DataOfFuncs, Zenon
  <2>5. c.body = cmd.body
    <3>1. c.file = cmd.file /\ c.line = cmd.line /\ c.file # "[cmdline]"
      BY <2>2, <2>4, Zenon
    <3> QED
      BY <3>1, FunctionsAssumption
  <2> QED
    BY <2>4, <2>5, Zenon DEF FindUserFunc
<1>3. ASSUME NEW f \in FuncData PROVE \E cmd \in FsetLines : f.file = cmd.file /\ f.line = cmd.line /\ f.body = cmd.body
  BY DataOfFuncs, Zenon
<1>4. ASSUME NEW e \in Items(FuncHash) PROVE e.data \in FuncData
  BY <1>1, ItemIsFound, Zenon DEF Ftables
<1>5. ASSUME NEW l \in ToSet(UserFuncStack), NEW x \in ToSet(l) PROVE x.data \in FuncData \cup {NULL}
  <2>1. l \in Seq(Clones)
    BY <1>1 DEF ToSet
  <2>2. x \in Clones
    BY <2>1 DEF ToSet
  <2> QED
    BY <2>2 DEF Clones
<1>6. ASSUME NEW f \in {e.data : e \in Items(FuncHash)} \cup {x.data : x \in UNION {ToSet(l) : l \in ToSet(UserFuncStack)}}
      PROVE  f = NULL \/ \E cmd \in FsetLines : f.file = cmd.file /\ f.line = cmd.line /\ f.body = cmd.body
  <2>1. f \in FuncData \cup {NULL}
    BY <1>4, <1>5
  <2> QED
    BY <1>3, <2>1, Zenon
<1> QED
  BY <1>2, <1>6, Zenon DEF FunctionsAsWritten

(* A line that FSET takes for done has the body of the definition in       *)
(* force; every function, saved ones included, is as its line wrote it.    *)
THEOREM FunctionsStayAsWritten == Spec => []FunctionsAsWritten
<1> QED
  BY InvFunctions, DefinitionsInvariant, PTL

-----------------------------------------------------------------------------
(* The time limit in included files. *)

(* No step raises the limit, or takes it away, in an included file.        *)
LEMMA LimitStep ==
    ASSUME DefInv, [Next]_<<script, definitions>>, ~ TopLevel
    PROVE  Lowered(sysvars'[Limit], sysvars[Limit])
<1>1. VariablesOK
  BY Zenon DEF DefInv
<1>2. CASE sysvars' = sysvars
  BY <1>2, Zenon DEF Lowered
<1>3. ASSUME NEW s \in SysSettings, DoSetSys(s[1], s[2]) PROVE Lowered(sysvars'[Limit], sysvars[Limit])
  <2> DEFINE n == s[1]
             val == s[2]
  <2>1. n \in DOMAIN SysVarArr /\ (n = Limit => val \in Int)
    BY SysVarsAssumption
  <2>2. sysvars' = SetSysVar(sysvars, n, val)
    BY <1>3, Zenon DEF DoSetSys
  <2>3. sysvars \in SysStates /\ TopLevel \in BOOLEAN
    BY <1>1, Zenon DEF VariablesOK
  <2> HIDE DEF n, val
  <2>4. Lowered(SetSysVar(sysvars, n, val)[Limit], sysvars[Limit])
    BY <2>1, <2>3, SetsSysVar
  <2> QED
    BY <2>2, <2>4, Zenon
<1>4. ASSUME PopVars PROVE Lowered(sysvars'[Limit], sysvars[Limit])
  <2>1. VarStack # << >> /\ sysvars' = RestoreSysVars(sysvars, Head(VarStack))
    BY <1>4, Zenon DEF PopVars
  <2>2. Head(VarStack) \in SaveLists /\ sysvars \in SysStates /\ TopLevel \in BOOLEAN
    BY <1>1, <2>1, Stacks, Zenon DEF VariablesOK
  <2>3. Lowered(RestoreSysVars(sysvars, Head(VarStack))[Limit], sysvars[Limit])
    BY <2>2, RestoresSysVars
  <2> QED
    BY <2>1, <2>3, Zenon
<1>5. CASE VarCommand \/ SysVarCommand
  <2>1. \/ sysvars' = sysvars
        \/ \E s \in SysSettings : DoSetSys(s[1], s[2])
        \/ PopVars
    BY <1>5, Zenon DEF VarCommand, SysVarCommand, DoSet, DoUnset, DoPreserve, PushVars
  <2> QED
    BY <1>2, <1>3, <1>4, <2>1, Zenon
<1>6. CASE ~ (VarCommand \/ SysVarCommand)
  <2>1. sysvars' = sysvars
    BY <1>6, Zenon DEF Next, PerIterationInit, Variables, definitions
  <2> QED
    BY <1>2, <2>1
<1> QED
  BY <1>5, <1>6

(* $ExpressionTimeLimit is only lowered while an included file is read.    *)
THEOREM LimitIsLoweredOnly == Spec => IncludedFilesOnlyLowerTheLimit
<1> DEFINE Step == ~ TopLevel => \/ sysvars'[Limit] = sysvars[Limit]
                                 \/ (0 < sysvars'[Limit] /\ sysvars'[Limit] < sysvars[Limit])
<1>1. DefInv /\ [Next]_<<script, definitions>> => [Step]_definitions
  BY LimitStep, Zenon DEF Lowered
<1> QED
  BY <1>1, DefinitionsInvariant, PTL DEF Spec, IncludedFilesOnlyLowerTheLimit

-----------------------------------------------------------------------------
(* The tables implement maps. *)

(* What does not change is the same map.                                   *)
LEMMA SameMaps ==
    /\ VHashTbl' = VHashTbl => VarsNow' = VarsNow
    /\ VarStack' = VarStack => SavedNow' = SavedNow
    /\ TranslationTable' = TranslationTable => TransNow' = TransNow
    /\ FuncHash' = FuncHash => FuncsNow' = FuncsNow
    /\ UserFuncStack' = UserFuncStack => ClonesNow' = ClonesNow
    /\ DedupeTable' = DedupeTable => Keys(DedupeTable)' = Keys(DedupeTable)
<1>1. VHashTbl' = VHashTbl => VarsNow' = VarsNow
  BY Zenon DEF VarsNow
<1>2. VarStack' = VarStack => SavedNow' = SavedNow
  BY Zenon DEF SavedNow
<1>3. TranslationTable' = TranslationTable => TransNow' = TransNow
  BY Zenon DEF TransNow
<1>4. FuncHash' = FuncHash => FuncsNow' = FuncsNow
  BY Zenon DEF FuncsNow
<1>5. UserFuncStack' = UserFuncStack => ClonesNow' = ClonesNow
  BY Zenon DEF ClonesNow
<1>6. DedupeTable' = DedupeTable => Keys(DedupeTable)' = Keys(DedupeTable)
  BY Zenon DEF Keys, Items, ItemsIn
<1> QED
  BY <1>1, <1>2, <1>3, <1>4, <1>5, <1>6

(* A map that differs in one place.                                        *)
LEMMA OneChange ==
    ASSUME NEW K, NEW f, NEW g, f = [k \in K |-> f[k]], g = [k \in K |-> g[k]], NEW n \in K,
           \A m \in K : m # n => g[m] = f[m]
    PROVE  \A x : x = g[n] => g = [f EXCEPT ![n] = x]
<1> SUFFICES ASSUME NEW x, x = g[n] PROVE g = [f EXCEPT ![n] = x]
  BY Zenon
<1> DEFINE h == [f EXCEPT ![n] = x]
<1>1. h = [k \in K |-> IF k = n THEN x ELSE f[k]]
  OBVIOUS
<1>2. \A k \in K : g[k] = IF k = n THEN x ELSE f[k]
  BY Zenon
<1> HIDE DEF h
<1>3. g = h
  BY <1>1, <1>2
<1> QED
  BY <1>3 DEF h

(* A map that differs in two places.                                       *)
LEMMA TwoChanges ==
    ASSUME NEW K, NEW f, NEW g, f = [k \in K |-> f[k]], g = [k \in K |-> g[k]], NEW n \in K, NEW p \in K, n # p,
           \A m \in K : m # n /\ m # p => g[m] = f[m]
    PROVE  \A x, y : x = g[n] /\ y = g[p] => g = [f EXCEPT ![n] = x, ![p] = y]
<1> SUFFICES ASSUME NEW x, NEW y, x = g[n], y = g[p] PROVE g = [f EXCEPT ![n] = x, ![p] = y]
  BY Zenon
<1> DEFINE h == [f EXCEPT ![n] = x]
           e == [f EXCEPT ![n] = x, ![p] = y]
<1>1. h = [k \in K |-> IF k = n THEN x ELSE f[k]]
  OBVIOUS
<1>2. e = [h EXCEPT ![p] = y]
  OBVIOUS
<1> HIDE DEF h, e
<1>3. e = [k \in K |-> IF k = p THEN y ELSE h[k]]
  BY <1>1, <1>2
<1>4. \A k \in K : g[k] = IF k = p THEN y ELSE h[k]
  <2>1. \A k \in K : h[k] = IF k = n THEN x ELSE f[k]
    BY <1>1
  <2> QED
    BY <2>1, Zenon
<1>5. g = e
  BY <1>3, <1>4
<1> QED
  BY <1>5 DEF e

(* What a list restores.                                                   *)
LEMMA RestoredIs ==
    ASSUME NEW map, NEW kind, NEW list, NEW N \in Nat, DOMAIN list = 1 .. N, NEW n \in DOMAIN map,
           NEW at, at = {i \in 1 .. N : list[i].kind = kind /\ list[i].name = n}
    PROVE  /\ at = {} => Maps!Restored(map, kind, list)[n] = map[n]
           /\ at # {} => \E i \in at : (\A j \in at : j <= i) /\ Maps!Restored(map, kind, list)[n] = list[i].value
<1> DEFINE best == CHOOSE i \in at : \A j \in at : j <= i
<1>1. Maps!Restored(map, kind, list)[n] = IF at = {} THEN map[n] ELSE list[best].value
  <2> DEFINE At(m) == {i \in DOMAIN list : list[i].kind = kind /\ list[i].name = m}
             R(m) == IF At(m) = {} THEN map[m] ELSE list[CHOOSE i \in At(m) : \A j \in At(m) : j <= i].value
  <2>1. at = At(n)
    BY Zenon
  <2>2. Maps!Restored(map, kind, list) = [m \in DOMAIN map |-> R(m)]
    BY DEF Maps!Restored
  <2>3. R(n) = IF at = {} THEN map[n] ELSE list[best].value
    BY <2>1
  <2> HIDE DEF R, best
  <2> QED
    BY <2>2, <2>3
<1>2. ASSUME at # {} PROVE best \in at /\ \A j \in at : j <= best
  <2>1. 1 \in Int /\ N \in Int /\ at \in SUBSET (1 .. N)
    OBVIOUS
  <2>2. Max(at) \in at /\ \A j \in at : Max(at) >= j
    BY <1>2, <2>1, MaxOfInterval
  <2> DEFINE b == Max(at)
  <2> HIDE DEF b
  <2>3. b \in at /\ \A j \in at : j <= b
    <3>1. \A j \in at : j \in Int
      BY <2>1
    <3> QED
      BY <2>2, <3>1 DEF b
  <2> QED
    BY <2>3, Zenon
<1> HIDE DEF best
<1> QED
  BY <1>1, <1>2, Zenon

(* The top of a stack, item by item.                                       *)
LEMMA MappedStack ==
    ASSUME NEW S, NEW s \in Seq(S), s # << >>, NEW e, NEW t, t = [i \in DOMAIN s |-> e[s[i]]]
    PROVE  t # << >> /\ Head(t) = e[Head(s)] /\ Tail(t) = [i \in DOMAIN Tail(s) |-> e[Tail(s)[i]]]
<1> DEFINE V == {e[x] : x \in S}
           u == [i \in DOMAIN Tail(s) |-> e[Tail(s)[i]]]
<1>1. Len(s) \in Nat /\ Len(s) > 0 /\ DOMAIN s = 1 .. Len(s)
  OBVIOUS
<1>2. Tail(s) \in Seq(S) /\ Len(Tail(s)) = Len(s) - 1 /\ \A i \in 1 .. Len(s) - 1 : Tail(s)[i] = s[i + 1]
  BY <1>1
<1>3. \A i \in 1 .. Len(s) : s[i] \in S
  OBVIOUS
<1>4. t \in Seq(V) /\ Len(t) = Len(s) /\ \A i \in 1 .. Len(s) : t[i] = e[s[i]]
  <2>1. t = [i \in 1 .. Len(s) |-> e[s[i]]]
    BY <1>1, Zenon
  <2>2. \A i \in 1 .. Len(s) : e[s[i]] \in V
    BY <1>3
  <2> HIDE DEF V
  <2> QED
    BY <1>1, <2>1, <2>2
<1>5. u \in Seq(V) /\ Len(u) = Len(s) - 1 /\ \A i \in 1 .. Len(s) - 1 : u[i] = e[s[i + 1]]
  <2>1. DOMAIN Tail(s) = 1 .. Len(s) - 1 /\ Len(s) - 1 \in Nat
    BY <1>1, <1>2
  <2>2. u = [i \in 1 .. Len(s) - 1 |-> e[s[i + 1]]]
    BY <1>2, <2>1
  <2>3. \A i \in 1 .. Len(s) - 1 : e[s[i + 1]] \in V
    <3>1. \A i \in 1 .. Len(s) - 1 : i + 1 \in 1 .. Len(s)
      BY <1>1
    <3> QED
      BY <1>3, <3>1
  <2> HIDE DEF V, u
  <2> QED
    BY <2>1, <2>2, <2>3
<1> HIDE DEF V, u
<1>6. t # << >>
  BY <1>1, <1>4
<1>7. Head(t) = e[Head(s)]
  <2>1. Head(t) = t[1] /\ Head(s) = s[1] /\ 1 \in 1 .. Len(s)
    BY <1>1, <1>4, <1>6
  <2> QED
    BY <1>4, <2>1
<1>8. Tail(t) = u
  <2>1. Tail(t) \in Seq(V) /\ Len(Tail(t)) = Len(s) - 1 /\ \A i \in 1 .. Len(s) - 1 : Tail(t)[i] = t[i + 1]
    BY <1>1, <1>4, <1>6
  <2>2. \A i \in 1 .. Len(s) - 1 : i + 1 \in 1 .. Len(s)
    BY <1>1
  <2>3. \A i \in 1 .. Len(s) - 1 : Tail(t)[i] = u[i]
    BY <1>4, <1>5, <2>1, <2>2
  <2> QED
    BY <1>5, <2>1, <2>3, SeqEqual
<1> QED
  BY <1>6, <1>7, <1>8 DEF u

(* The keys of the maps have hash values.                                  *)
LEMMA MapKeys ==
    /\ Folded \subseteq DOMAIN HashVal /\ (\A n \in Names : Lower[n] \in Folded)
    /\ FuncKeys \subseteq DOMAIN HashVal /\ (\A n \in FuncNames : n \in FuncKeys /\ FuncLower[n] \in FuncKeys)
    /\ Messages \subseteq DOMAIN HashVal
<1>1. Folded \subseteq DOMAIN HashVal /\ (\A n \in Names : Lower[n] \in Folded)
  BY NamesAssumption DEF Folded
<1>2. FuncKeys \subseteq DOMAIN HashVal /\ (\A n \in FuncNames : n \in FuncKeys /\ FuncLower[n] \in FuncKeys)
  BY FunctionsAssumption DEF FuncKeys
<1> QED
  BY <1>1, <1>2, NamesAssumption

(* What the maps are, now and after a step.                                *)
LEMMA TheMaps ==
    /\ VarsNow = [k \in Folded |-> ValueIn(VHashTbl, k)]
    /\ VarsNow' = [k \in Folded |-> ValueIn(VHashTbl', k)]
    /\ FuncsNow = [k \in FuncKeys |-> BodyIn(FuncHash, k)]
    /\ FuncsNow' = [k \in FuncKeys |-> BodyIn(FuncHash', k)]
    /\ TransNow = [m \in Messages |-> tr(TranslationTable, m)]
    /\ TransNow' = [m \in Messages |-> tr(TranslationTable', m)]
BY Zenon DEF VarsNow, FuncsNow, TransNow, ValueIn, BodyIn

(* Variables whose map changes under one name.                             *)
LEMMA OneVar ==
    ASSUME NEW k \in Folded,
           \A m \in DOMAIN HashVal : m # k => ValueIn(VHashTbl', m) = ValueIn(VHashTbl, m)
    PROVE  /\ DOMAIN VarsNow = Folded /\ VarsNow[k] = ValueIn(VHashTbl, k) /\ VarsNow'[k] = ValueIn(VHashTbl', k)
           /\ \A x : x = VarsNow'[k] => VarsNow' = [VarsNow EXCEPT ![k] = x]
<1> DEFINE f == VarsNow
           g == VarsNow'
           old(m) == ValueIn(VHashTbl, m)
           new(m) == ValueIn(VHashTbl', m)
<1>1. f = [m \in Folded |-> old(m)] /\ g = [m \in Folded |-> new(m)]
  BY TheMaps, Zenon
<1>2. \A m \in Folded : m # k => new(m) = old(m)
  BY MapKeys
<1> HIDE DEF f, g, old, new
<1>3. f = [m \in Folded |-> f[m]] /\ g = [m \in Folded |-> g[m]]
  BY <1>1
<1>4. \A m \in Folded : f[m] = old(m) /\ g[m] = new(m)
  BY <1>1
<1>5. \A m \in Folded : m # k => g[m] = f[m]
  BY <1>2, <1>4
<1>6. \A x : x = g[k] => g = [f EXCEPT ![k] = x]
  BY <1>3, <1>5, OneChange
<1>7. DOMAIN f = Folded
  BY <1>1
<1> QED
  BY <1>4, <1>6, <1>7 DEF f, g, old, new

(* SET assigns a value; the mark of PRESERVE stays.                        *)
LEMMA AssignsVar ==
    ASSUME NEW n \in Names, NEW val \in VarValues \cup {0}, NEW b \in BOOLEAN,
           LET was == ValueIn(VHashTbl, Lower[n])
           IN  ValueIn(VHashTbl', Lower[n]) = [v |-> val, preserve |-> was # NULL /\ was.preserve, is_constant |-> b],
           ValueIn(VHashTbl', Lower[n]) # NULL,
           \A m \in DOMAIN HashVal : m # Lower[n] => ValueIn(VHashTbl', m) = ValueIn(VHashTbl, m)
    PROVE  Maps!Assigned(VarsNow, VarsNow')
<1> DEFINE k == Lower[n]
           was == ValueIn(VHashTbl, k)
           is == ValueIn(VHashTbl', k)
           f == VarsNow
           g == VarsNow'
<1>1. k \in Folded
  BY MapKeys
<1>2. /\ DOMAIN f = Folded /\ f[k] = was /\ g[k] = is
      /\ \A x : x = g[k] => g = [f EXCEPT ![k] = x]
  BY <1>1, OneVar, Zenon
<1>3. is # NULL /\ is = [v |-> val, preserve |-> was # NULL /\ was.preserve, is_constant |-> b]
  OBVIOUS
<1> HIDE DEF k, was, is, f, g
<1>4. is.v = val /\ is.is_constant = b
  BY <1>3
<1>5. is = [v |-> is.v, is_constant |-> is.is_constant, preserve |-> was # NULL /\ was.preserve]
  BY <1>3, <1>4
<1>6. g = [f EXCEPT ![k] = [v |-> g[k].v, is_constant |-> g[k].is_constant, preserve |-> f[k] # NULL /\ f[k].preserve]]
  BY <1>2, <1>5, Zenon
<1>7. g[k] # NULL /\ g[k].v \in VarValues \cup {0}
  BY <1>2, <1>3, <1>4
<1>8. Maps!Assigned(f, g)
  BY <1>1, <1>2, <1>6, <1>7, Zenon DEF Maps!Assigned
<1> QED
  BY <1>8 DEF f, g

(* SET, on a line that is read and on a line that is skipped.              *)
LEMMA DoSetMaps ==
    ASSUME VariablesOK, NEW n \in Names, NEW val \in VarValues,
           NEW nonconst \in BOOLEAN, NEW ignoring \in BOOLEAN, NEW constant \in BOOLEAN,
           DoSet(n, val, nonconst, ignoring, constant)
    PROVE  Maps!Assigned(VarsNow, VarsNow') \/ VHashTbl' = VHashTbl
<1> DEFINE t == VHashTbl
           u == VHashTbl'
           k == Lower[n]
<1>1. t \in Vtables
  BY Zenon DEF VariablesOK
<1>2. k \in DOMAIN HashVal
  BY NamesAssumption
<1>3. ASSUME u \in Vtables, NEW d, ValueIn(u, k) = d, d = [v |-> d.v, preserve |-> d.preserve, is_constant |-> d.is_constant]
      PROVE  d # NULL /\ d \in VarData
  <2>1. d # NULL
    BY <1>3 DEF NULL
  <2>2. d \in VarData \cup {NULL}
    BY <1>2, <1>3, Values, Zenon
  <2> QED
    BY <2>1, <2>2
<1>4. CASE ~ ignoring
  <2> DEFINE b == nonconst \/ ~ constant
             was == ValueIn(t, k)
             w == SetVar(t, n, val, b)
  <2>1. b \in BOOLEAN /\ (~ b) \in BOOLEAN
    BY Zenon
  <2>2. u = w
    BY <1>4, Zenon DEF DoSet
  <2> HIDE DEF b
  <2>3. /\ w \in Vtables
        /\ ValueIn(w, k) = [v |-> val, preserve |-> was # NULL /\ was.preserve, is_constant |-> ~ b]
        /\ \A m \in DOMAIN HashVal : m # k => ValueIn(w, m) = ValueIn(t, m)
    BY <1>1, <2>1, SetValues
  <2>4. ValueIn(w, k) # NULL
    <3> DEFINE p == was # NULL /\ was.preserve
               c == ~ b
    <3>1. ValueIn(w, k) = [v |-> val, preserve |-> p, is_constant |-> c]
      BY <2>3, Zenon
    <3> HIDE DEF w, p, c
    <3> QED
      BY <3>1 DEF NULL
  <2> DEFINE c == ~ b
  <2>5. ValueIn(u, k) = [v |-> val, preserve |-> was # NULL /\ was.preserve, is_constant |-> c]
    BY <2>2, <2>3, Zenon
  <2>6. c \in BOOLEAN /\ ValueIn(u, k) # NULL /\ \A m \in DOMAIN HashVal : m # k => ValueIn(u, m) = ValueIn(t, m)
    BY <2>1, <2>2, <2>3, <2>4, Zenon
  <2> HIDE DEF c
  <2>7. val \in VarValues \cup {0}
    OBVIOUS
  <2> QED
    BY <2>5, <2>6, <2>7, AssignsVar, Zenon
<1>5. CASE ignoring /\ ~ (constant \/ FindVar(t, n) = NULL)
  <2> DEFINE v == FindVar(t, n)
             was == ValueIn(t, k)
  <2>1. u = Update(t, v, [v.data EXCEPT !.is_constant = FALSE])
    BY <1>5, Zenon DEF DoSet
  <2>2. /\ u \in Vtables /\ was # NULL /\ was \in VarData
        /\ ValueIn(u, k) = [v |-> was.v, preserve |-> was.preserve, is_constant |-> FALSE]
        /\ \A m \in DOMAIN HashVal : m # k => ValueIn(u, m) = ValueIn(t, m)
    BY <1>1, <1>5, <2>1, SkipsSet
  <2>3. was.v \in VarValues \cup {0} /\ was.preserve \in BOOLEAN
    BY <2>2 DEF VarData
  <2>4. ValueIn(u, k) # NULL
    BY <2>2 DEF NULL
  <2> DEFINE x == was.v
  <2>5. (was # NULL /\ was.preserve) = was.preserve
    BY <2>2, <2>3, Zenon
  <2>6. ValueIn(u, k) = [v |-> x, preserve |-> was # NULL /\ was.preserve, is_constant |-> FALSE]
    BY <2>2, <2>5, Zenon
  <2>7. x \in VarValues \cup {0} /\ FALSE \in BOOLEAN
    BY <2>3, Zenon
  <2> HIDE DEF x
  <2> QED
    BY <2>2, <2>4, <2>6, <2>7, AssignsVar, Zenon
<1>6. CASE ignoring /\ (constant \/ FindVar(t, n) = NULL)
  BY <1>6, Zenon DEF DoSet
<1> QED
  BY <1>4, <1>5, <1>6, Zenon

(* UNSET removes variables.                                                *)
LEMMA DoUnsetMaps ==
    ASSUME VariablesOK, NEW n \in Names, DoUnset(<<n>>)
    PROVE  Maps!Removed(VarsNow, VarsNow')
<1> DEFINE names == <<n>>
           f == VarsNow
           g == VarsNow'
<1>1. VHashTbl \in Vtables /\ VHashTbl' = Unset(VHashTbl, names)
  BY Zenon DEF VariablesOK, DoUnset
<1>2. names \in Seq(Names)
  OBVIOUS
<1> HIDE DEF names
<1>3. \A m \in DOMAIN HashVal : ValueIn(VHashTbl', m) \in {ValueIn(VHashTbl, m), NULL}
  BY <1>1, <1>2, UnsetValues
<1>4. f = [m \in Folded |-> ValueIn(VHashTbl, m)] /\ g = [m \in Folded |-> ValueIn(VHashTbl', m)]
  BY TheMaps, Zenon
<1> HIDE DEF f, g
<1>5. DOMAIN f = Folded /\ \A m \in Folded : g[m] \in {f[m], NULL}
  BY <1>3, <1>4, MapKeys
<1>6. Maps!Removed(f, g)
  BY <1>5, Zenon DEF Maps!Removed
<1> QED
  BY <1>6 DEF f, g

(* PRESERVE marks a variable, or makes one that is marked.                 *)
LEMMA DoPreserveMaps ==
    ASSUME VariablesOK, NEW n \in Names, DoPreserve(n)
    PROVE  Maps!Preserved(VarsNow, VarsNow')
<1> DEFINE t == VHashTbl
           u == VHashTbl'
           k == Lower[n]
           was == ValueIn(t, k)
           f == VarsNow
           g == VarsNow'
<1>1. t \in Vtables /\ u = PreserveVar(t, n)
  BY Zenon DEF VariablesOK, DoPreserve
<1>2. k \in Folded
  BY MapKeys
<1>3. /\ ValueIn(u, k) = [v |-> IF was = NULL THEN 0
         ELSE was.v, preserve |-> TRUE, is_constant |-> was = NULL \/ was.is_constant]
      /\ \A m \in DOMAIN HashVal : m # k => ValueIn(u, m) = ValueIn(t, m)
  BY <1>1, PreserveValues
<1>4. /\ DOMAIN f = Folded /\ f[k] = was /\ g[k] = ValueIn(u, k)
      /\ \A x : x = g[k] => g = [f EXCEPT ![k] = x]
  BY <1>2, <1>3, OneVar, Zenon
<1> HIDE DEF t, u, k, was, f, g
<1> DEFINE x == [v |-> IF f[k] = NULL THEN 0
    ELSE f[k].v, preserve |-> TRUE, is_constant |-> f[k] = NULL \/ f[k].is_constant]
<1>5. g[k] = x
  BY <1>3, <1>4, Zenon
<1>6. g = [f EXCEPT ![k] = x]
  BY <1>4, <1>5, Zenon
<1>7. Maps!Preserved(f, g)
  BY <1>2, <1>4, <1>6, Zenon DEF Maps!Preserved
<1> QED
  BY <1>7 DEF f, g

(* Translations that change for one message.                               *)
LEMMA OneTranslation ==
    ASSUME NEW k \in Messages,
           \A m \in DOMAIN HashVal : m # k => hash_table_find(TranslationTable', m) = hash_table_find(TranslationTable, m)
    PROVE  Maps!OneDiffers(TransNow, TransNow')
<1> DEFINE f == TransNow
           g == TransNow'
<1>1. f = [m \in Messages |-> tr(TranslationTable, m)] /\ g = [m \in Messages |-> tr(TranslationTable', m)]
  BY TheMaps, Zenon
<1>2. \A m \in Messages : m # k => tr(TranslationTable', m) = tr(TranslationTable, m)
  <2> SUFFICES ASSUME NEW m \in Messages, m # k PROVE tr(TranslationTable', m) = tr(TranslationTable, m)
    BY Zenon
  <2>1. hash_table_find(TranslationTable', m) = hash_table_find(TranslationTable, m)
    BY MapKeys
  <2> QED
    BY <2>1, Zenon DEF tr, FindTranslation
<1> HIDE DEF f, g
<1>3. DOMAIN f = Messages /\ DOMAIN g = Messages /\ \A m \in Messages : f[m] = tr(TranslationTable, m)
      /\ g[m] = tr(TranslationTable', m)
  BY <1>1
<1>4. \A m \in Messages \ {k} : g[m] = f[m]
  BY <1>2, <1>3
<1>5. Maps!OneDiffers(f, g)
  BY <1>3, <1>4, Zenon DEF Maps!OneDiffers
<1> QED
  BY <1>5 DEF f, g

(* SET of a system variable, or of a translation that is set like one.     *)
LEMMA DoSetSysMaps ==
    ASSUME VariablesOK, NEW s \in SysSettings, DoSetSys(s[1], s[2])
    PROVE  \/ Maps!Changed(sysvars, sysvars', PlainValues) /\ TranslationTable' = TranslationTable
           \/ Maps!OneDiffers(TransNow, TransNow') /\ sysvars' = sysvars
           \/ sysvars' = sysvars /\ TranslationTable' = TranslationTable
<1> DEFINE n == s[1]
           val == s[2]
           was == sysvars
           is == sysvars'
<1>1. n \in DOMAIN SysVarArr /\ (n = Limit => val \in Int)
  BY SysVarsAssumption
<1>2. is = SetSysVar(was, n, val) /\ TranslationTable' = SetTranslatableVariable(TranslationTable, n, val)
  BY Zenon DEF DoSetSys
<1>3. was \in SysStates /\ TopLevel \in BOOLEAN /\ TranslationTable \in SafeTables
  BY Zenon DEF VariablesOK
<1>4. SysVarArr[n].kind # "trans" => val \in PlainValues
  BY Zenon DEF PlainValues
<1>5. SysVarArr[n].kind = "trans" => val \in Texts
  BY Zenon DEF Texts
<1>6. SysVarArr[n].kind = "trans" => SysVarArr[n].orig \in Messages
  <2>1. \A m \in DOMAIN SysVarArr : SysVarArr[m].kind = "trans" => SysVarArr[m].orig \in Messages
    BY SysVarsAssumption
  <2> QED
    BY <1>1, <2>1
<1> HIDE DEF n, val
<1>7. CASE SysVarArr[n].kind # "trans"
  <2>1. n \in PlainSys
    BY <1>1, <1>7 DEF PlainSys
  <2>2. is = [was EXCEPT ![n] = is[n]] /\ is[n] \in {was[n], val}
    BY <1>1, <1>2, <1>3, <2>1, SetsSysVar
  <2>3. TranslationTable' = TranslationTable
    BY <1>2, <1>7, Zenon DEF SetTranslatableVariable
  <2>4. was = [m \in PlainSys |-> was[m]]
    BY <1>3 DEF SysStates
  <2>5. CASE is[n] = val
    <3> HIDE DEF was, is
    <3>1. n \in DOMAIN was
      BY <2>1, <2>4
    <3>2. is[n] \in PlainValues
      BY <1>4, <1>7, <2>5
    <3>3. Maps!Changed(was, is, PlainValues)
      BY <2>2, <3>1, <3>2, Zenon DEF Maps!Changed
    <3> QED
      BY <2>3, <3>3 DEF was, is
  <2>6. CASE is[n] = was[n]
    <3> HIDE DEF was, is
    <3>1. is = was
      BY <2>2, <2>4, <2>6
    <3> QED
      BY <2>3, <3>1 DEF was, is
  <2> QED
    BY <2>2, <2>5, <2>6
<1>8. CASE SysVarArr[n].kind = "trans"
  <2>1. n \notin PlainSys
    BY <1>8 DEF PlainSys
  <2>2. is = was
    BY <1>1, <1>2, <1>3, <2>1, SetsSysVar
  <2> DEFINE k == SysVarArr[n].orig
             u == InsertTranslation(TranslationTable, k, val)
  <2>3. k \in Messages /\ k \in DOMAIN HashVal /\ val \in Texts
    BY <1>5, <1>6, <1>8, MapKeys
  <2> HIDE DEF k
  <2>4. \A m \in DOMAIN HashVal : m # k => hash_table_find(u, m) = hash_table_find(TranslationTable, m)
    BY <1>3, <2>3, Translates
  <2>5. TranslationTable' = u \/ TranslationTable' = TranslationTable
    BY <1>2, Zenon DEF SetTranslatableVariable, k
  <2> HIDE DEF u
  <2>6. CASE TranslationTable' = u
    <3>1. \A m \in DOMAIN HashVal : m # k => hash_table_find(TranslationTable', m) = hash_table_find(TranslationTable, m)
      BY <2>4, <2>6, Zenon
    <3> QED
      BY <2>2, <2>3, <3>1, OneTranslation, Zenon
  <2> QED
    BY <2>2, <2>5, <2>6, Zenon
<1> QED
  BY <1>7, <1>8

(* TRANSLATE changes one translation, or all at once.                      *)
LEMMA TransCommandMaps ==
    ASSUME TranslationTable \in SafeTables, TransCommand
    PROVE  \/ Maps!OneDiffers(TransNow, TransNow')
           \/ TransNow' = [o \in DOMAIN TransNow |-> IF o = <<"LANGID">> THEN <<"en">> ELSE o]
<1> DEFINE t == TranslationTable
           u == TranslationTable'
           same(v, k) == \A m \in DOMAIN HashVal : m # k => hash_table_find(v, m) = hash_table_find(t, m)
<1>1. \A m \in Messages : m \in DOMAIN HashVal
  BY MapKeys
<1>2. ASSUME NEW o \in Messages, NEW m \in Messages, DoTranslate(o, m) PROVE Maps!OneDiffers(TransNow, TransNow')
  <2>1. u = InsertTranslation(t, o, m) /\ m \in Texts
    BY <1>2 DEF DoTranslate, Texts
  <2>2. o \in DOMAIN HashVal
    BY <1>1
  <2>3. same(InsertTranslation(t, o, m), o)
    BY <2>1, <2>2, Translates
  <2>4. same(u, o)
    BY <2>1, <2>3, Zenon
  <2> QED
    BY <2>4, OneTranslation, Zenon
<1>3. ASSUME NEW o \in Messages, DoUntranslate(o) PROVE Maps!OneDiffers(TransNow, TransNow')
  <2> DEFINE r == RemoveTranslation(t, o)
             w == InsertTranslation(r, LANGID, English)
  <2>1. u = IF o = LANGID THEN w ELSE r
    BY <1>3, Zenon DEF DoUntranslate
  <2>2. o \in DOMAIN HashVal
    BY <1>1
  <2>3. r \in SafeTables /\ same(r, o)
    BY <2>2, Untranslates
  <2> HIDE DEF r
  <2>4. ASSUME o = LANGID PROVE same(w, o)
    <3>1. English \in Texts /\ LANGID \in DOMAIN HashVal
      BY <2>2, <2>4 DEF Texts
    <3>2. \A m \in DOMAIN HashVal : m # LANGID => hash_table_find(w, m) = hash_table_find(r, m)
      BY <2>3, <3>1, Translates
    <3> QED
      BY <2>3, <2>4, <3>2, Zenon
  <2> HIDE DEF w
  <2>5. same(u, o)
    BY <2>1, <2>3, <2>4, Zenon
  <2> QED
    BY <2>5, OneTranslation, Zenon
<1>4. ASSUME ClearTranslationTable
      PROVE  TransNow' = [o \in DOMAIN TransNow |-> IF o = <<"LANGID">> THEN <<"en">> ELSE o]
  <2> DEFINE g == TransNow'
             f == TransNow
             i == InitTranslationTable
  <2>1. u = i
    BY <1>4, Zenon DEF ClearTranslationTable
  <2>2. \A m \in Messages : tr(i, m) = IF m = LANGID THEN English ELSE m
    BY FirstTranslation, Zenon
  <2>3. \A m \in Messages : tr(u, m) = IF m = LANGID THEN English ELSE m
    BY <2>1, <2>2, Zenon
  <2>4. f = [m \in Messages |-> tr(t, m)] /\ g = [m \in Messages |-> tr(u, m)]
    BY TheMaps, Zenon
  <2> HIDE DEF f, g, i
  <2>5. g = [o \in DOMAIN f |-> IF o = LANGID THEN English ELSE o]
    BY <2>3, <2>4
  <2> QED
    BY <2>5 DEF f, g, LANGID, English
<1> QED
  BY <1>2, <1>3, <1>4, Zenon DEF TransCommand

\* A value is the one that was saved last under a name, or else the one the map has.
IsRestored(map, kind, list, n, x) ==
    LET at == {i \in DOMAIN list : list[i].kind = kind /\ list[i].name = n}
    IN  (at = {} => x = map[n]) /\ \A i \in at : (\A j \in at : j <= i) => x = list[i].value

(* Such a value is what the saved part of the map restores.                *)
LEMMA RestoredOf ==
    ASSUME NEW K, NEW map, map = [n \in K |-> map[n]], NEW kind, NEW list, NEW N \in Nat, DOMAIN list = 1 .. N,
           NEW n \in K, NEW x, IsRestored(map, kind, list, n, x)
    PROVE  x = Maps!Restored(map, kind, list)[n]
<1>1. n \in DOMAIN map
  BY Zenon
<1> DEFINE r == Maps!Restored(map, kind, list)
           at == {i \in 1 .. N : list[i].kind = kind /\ list[i].name = n}
<1>2. at = {i \in 1 .. N : list[i].kind = kind /\ list[i].name = n}
  OBVIOUS
<1>3. (at = {} => x = map[n]) /\ \A i \in at : (\A j \in at : j <= i) => x = list[i].value
  <2> DEFINE all == {i \in DOMAIN list : list[i].kind = kind /\ list[i].name = n}
  <2>1. at = all
    BY Zenon
  <2>2. (all = {} => x = map[n]) /\ \A i \in all : (\A j \in all : j <= i) => x = list[i].value
    BY Zenon DEF IsRestored
  <2> HIDE DEF at, all
  <2> QED
    BY <2>1, <2>2, Zenon
<1> HIDE DEF at
<1>4. /\ at = {} => r[n] = map[n]
      /\ at # {} => \E i \in at : (\A j \in at : j <= i) /\ r[n] = list[i].value
  BY <1>1, <1>2, RestoredIs
<1> HIDE DEF r
<1>5. CASE at = {}
  BY <1>3, <1>4, <1>5, Zenon DEF r
<1>6. CASE at # {}
  <2>1. PICK i \in at : (\A j \in at : j <= i) /\ r[n] = list[i].value
    BY <1>4, <1>6, Zenon
  <2>2. x = list[i].value
    BY <1>3, <2>1, Zenon
  <2> QED
    BY <2>1, <2>2, Zenon DEF r
<1> QED
  BY <1>5, <1>6

\* A map that has what is restored under every key is what is restored.
RestoredMap(K, g, map, kind, list) ==
    (\A n \in K : g[n] = Maps!Restored(map, kind, list)[n]) => g = Maps!Restored(map, kind, list)

(* Two maps with the same keys and the same values are the same.           *)
LEMMA RestoredEverywhere ==
    ASSUME NEW K, NEW map, map = [n \in K |-> map[n]], NEW g, g = [n \in K |-> g[n]], NEW kind, NEW list
    PROVE  RestoredMap(K, g, map, kind, list)
<1> DEFINE At(m) == {i \in DOMAIN list : list[i].kind = kind /\ list[i].name = m}
           R(m) == IF At(m) = {} THEN map[m] ELSE list[CHOOSE i \in At(m) : \A j \in At(m) : j <= i].value
           r == Maps!Restored(map, kind, list)
<1>1. r = [m \in DOMAIN map |-> R(m)]
  BY DEF Maps!Restored
<1>2. DOMAIN map = K
  BY Zenon
<1> HIDE DEF R, r
<1>3. r = [m \in K |-> r[m]]
  BY <1>1, <1>2
<1>4. (\A n \in K : g[n] = r[n]) => g = r
  BY <1>3
<1> QED
  BY <1>4, Zenon DEF RestoredMap, r

(* What is saved of a variable, of a translation and of a system variable. *)
LEMMA SavedKinds ==
    ASSUME NEW x
    PROVE  /\ SavedAs(x).value = x.data
           /\ SavedAs(x).kind = "var" <=> ~ IsSysVar(x)
           /\ SavedAs(x).kind = "trans" <=> IsSysVar(x) /\ SysVarArr[x.name].kind = "trans"
           /\ SavedAs(x).kind = "sys" <=> IsSysVar(x) /\ SysVarArr[x.name].kind # "trans"
           /\ ~ IsSysVar(x) => SavedAs(x).name = Lower[x.name]
           /\ IsSysVar(x) /\ SysVarArr[x.name].kind = "trans" => SavedAs(x).name = SysVarArr[x.name].orig
           /\ IsSysVar(x) /\ SysVarArr[x.name].kind # "trans" => SavedAs(x).name = x.name
<1>1. CASE ~ IsSysVar(x)
  <2>1. SavedAs(x) = [kind |-> "var", name |-> Lower[x.name], value |-> x.data]
    BY <1>1 DEF SavedAs
  <2> QED
    BY <1>1, <2>1
<1>2. CASE IsSysVar(x) /\ SysVarArr[x.name].kind = "trans"
  <2>1. SavedAs(x) = [kind |-> "trans", name |-> SysVarArr[x.name].orig, value |-> x.data]
    BY <1>2 DEF SavedAs
  <2> QED
    BY <1>2, <2>1
<1>3. CASE IsSysVar(x) /\ SysVarArr[x.name].kind # "trans"
  <2>1. SavedAs(x) = [kind |-> "sys", name |-> x.name, value |-> x.data]
    BY <1>3 DEF SavedAs
  <2> QED
    BY <1>3, <2>1
<1> QED
  BY <1>1, <1>2, <1>3

ListAs == [l \in SaveLists |-> [j \in DOMAIN l |-> SavedAs(l[j])]]

(* The stack of the maps is the stack of the lists.                        *)
LEMMA SavedStack ==
    /\ VariablesOK => SavedNow = [i \in DOMAIN VarStack |-> ListAs[VarStack[i]]]
    /\ VariablesOK' => SavedNow' = [i \in DOMAIN VarStack' |-> ListAs[VarStack'[i]]]
<1>1. ASSUME NEW s \in Seq(SaveLists)
      PROVE  [i \in DOMAIN s |-> [j \in DOMAIN s[i] |-> SavedAs(s[i][j])]] = [i \in DOMAIN s |-> ListAs[s[i]]]
  <2>1. \A i \in DOMAIN s : s[i] \in SaveLists
    OBVIOUS
  <2>2. \A i \in DOMAIN s : ListAs[s[i]] = [j \in DOMAIN s[i] |-> SavedAs(s[i][j])]
    BY <2>1, Zenon DEF ListAs
  <2> QED
    BY <2>2, Zenon
<1>2. VariablesOK => VarStack \in Seq(SaveLists)
  BY Zenon DEF VariablesOK
<1>3. VariablesOK' => VarStack' \in Seq(SaveLists)
  BY Zenon DEF VariablesOK, SaveLists, Saves, IsSysVar, Fits, PlainSys, VarData, Texts, Safe, printf_formatters_are_safe
<1>4. VariablesOK => SavedNow = [i \in DOMAIN VarStack |-> ListAs[VarStack[i]]]
  BY <1>1, <1>2, Zenon DEF SavedNow
<1>5. VariablesOK' => SavedNow' = [i \in DOMAIN VarStack' |-> ListAs[VarStack'[i]]]
  BY <1>1, <1>3, Zenon DEF SavedNow
<1> QED
  BY <1>4, <1>5

\* An entry of a list that PUSH-VARS makes is the part of a map it says it is.
PartOfMaps(x) ==
    Maps!IsOf(x, VarsNow, "var") \/ Maps!IsOf(x, TransNow, "trans") \/ Maps!IsOf(x, sysvars, "sys")

(* What PUSH-VARS saves under a name is what the maps have.                *)
LEMMA SavesMaps ==
    ASSUME VariablesOK, NEW n \in Names \cup DOMAIN SysVarArr
    PROVE  PartOfMaps(SavedAs(Saved(n)))
<1> DEFINE x == Saved(n)
           y == SavedAs(x)
<1>1. /\ y.value = x.data
      /\ y.kind = "var" <=> ~ IsSysVar(x)
      /\ y.kind = "trans" <=> IsSysVar(x) /\ SysVarArr[x.name].kind = "trans"
      /\ y.kind = "sys" <=> IsSysVar(x) /\ SysVarArr[x.name].kind # "trans"
      /\ ~ IsSysVar(x) => y.name = Lower[x.name]
      /\ IsSysVar(x) /\ SysVarArr[x.name].kind = "trans" => y.name = SysVarArr[x.name].orig
      /\ IsSysVar(x) /\ SysVarArr[x.name].kind # "trans" => y.name = x.name
  BY SavedKinds
<1>2. CASE n \notin DOMAIN SysVarArr
  <2> DEFINE v == FindVar(VHashTbl, n)
             d == IF v = NULL THEN NULL ELSE v.data
  <2>1. x = [name |-> n, data |-> d]
    BY <1>2, Zenon DEF Saved
  <2>2. d = ValueIn(VHashTbl, Lower[n])
    BY Zenon DEF ValueIn, DataOf, FindVar
  <2>3. n \in Names /\ Lower[n] \in Folded
    BY <1>2, MapKeys
  <2> HIDE DEF d
  <2>4. x.name = n /\ x.data = d
    BY <2>1
  <2>5. DOMAIN VarsNow = Folded /\ VarsNow[Lower[n]] = ValueIn(VHashTbl, Lower[n])
    <3> DEFINE f == VarsNow
    <3>1. f = [k \in Folded |-> ValueIn(VHashTbl, k)]
      BY TheMaps, Zenon
    <3> HIDE DEF f
    <3>2. DOMAIN f = Folded /\ f[Lower[n]] = ValueIn(VHashTbl, Lower[n])
      BY <2>3, <3>1
    <3> QED
      BY <3>2 DEF f
  <2> HIDE DEF x, y
  <2>6. ~ IsSysVar(x)
    BY <1>2, <2>4, Zenon DEF IsSysVar
  <2>7. y.kind = "var" /\ y.name = Lower[n] /\ y.value = d
    BY <1>1, <2>4, <2>6, Zenon
  <2>8. Maps!IsOf(y, VarsNow, "var")
    BY <2>2, <2>3, <2>5, <2>7, Zenon DEF Maps!IsOf
  <2> QED
    BY <2>8, Zenon DEF PartOfMaps, x, y
<1>3. CASE n \in DOMAIN SysVarArr
  <2>1. x.name = n /\ x.data = GetSysVar(n)
    BY <1>3 DEF Saved
  <2>2. IsSysVar(x)
    BY <1>3, <2>1, Zenon DEF IsSysVar
  <2>3. CASE SysVarArr[n].kind = "trans"
    <3> DEFINE o == SysVarArr[n].orig
    <3>1. o \in Messages
      BY <1>3, <2>3, SysVarsAssumption
    <3>2. x.data = tr(TranslationTable, o)
      BY <2>1, <2>3, Zenon DEF GetSysVar
    <3>3. DOMAIN TransNow = Messages /\ TransNow[o] = tr(TranslationTable, o)
      <4> DEFINE f == TransNow
      <4>1. f = [m \in Messages |-> tr(TranslationTable, m)]
        BY TheMaps, Zenon
      <4> HIDE DEF f, o
      <4>2. DOMAIN f = Messages /\ f[o] = tr(TranslationTable, o)
        BY <3>1, <4>1
      <4> QED
        BY <4>2 DEF f
    <3> HIDE DEF x, y
    <3>4. y.kind = "trans" /\ y.name = o /\ y.value = x.data
      BY <1>1, <2>1, <2>2, <2>3, Zenon
    <3>5. Maps!IsOf(y, TransNow, "trans")
      BY <3>1, <3>2, <3>3, <3>4, Zenon DEF Maps!IsOf
    <3> QED
      BY <3>5, Zenon DEF PartOfMaps, x, y
  <2>4. CASE SysVarArr[n].kind # "trans"
    <3>1. n \in PlainSys
      BY <1>3, <2>4 DEF PlainSys
    <3>2. DOMAIN sysvars = PlainSys
      BY DEF VariablesOK, SysStates
    <3>3. x.data = sysvars[n]
      BY <2>1, <2>4, Zenon DEF GetSysVar
    <3> HIDE DEF x, y
    <3>4. y.kind = "sys" /\ y.name = n /\ y.value = x.data
      BY <1>1, <2>1, <2>2, <2>4, Zenon
    <3>5. Maps!IsOf(y, sysvars, "sys")
      BY <3>1, <3>2, <3>3, <3>4, Zenon DEF Maps!IsOf
    <3> QED
      BY <3>5, Zenon DEF PartOfMaps, x, y
  <2> QED
    BY <2>3, <2>4
<1> QED
  BY <1>2, <1>3

(* PUSH-VARS saves a part of the maps, or nothing.                         *)
LEMMA PushVarsMaps ==
    ASSUME VariablesOK, NEW names \in VarLists, PushVars(names), UNCHANGED TopLevel
    PROVE  \/ VarStack' = VarStack
           \/ /\ SavedNow' # << >> /\ Tail(SavedNow') = SavedNow
              /\ \A i \in DOMAIN Head(SavedNow') : PartOfMaps(Head(SavedNow')[i])
<1> DEFINE list == [i \in DOMAIN names |-> Saved(names[i])]
           item == [i \in DOMAIN names |-> SavedAs(Saved(names[i]))]
<1>1. names \in Seq(Names \cup DOMAIN SysVarArr)
  BY NamesAssumption
<1>2. CASE \E n \in ToSet(names) \cap DOMAIN SysVarArr : ~ SysVarArr[n].modifiable
  BY <1>2, Zenon DEF PushVars
<1>3. CASE ~ \E n \in ToSet(names) \cap DOMAIN SysVarArr : ~ SysVarArr[n].modifiable
  <2>1. VarStack' = <<list>> \o VarStack
    BY <1>3, Zenon DEF PushVars
  <2>2. \A n \in ToSet(names) \cap DOMAIN SysVarArr : SysVarArr[n].modifiable
    BY <1>3, Zenon
  <2>3. list \in SaveLists
    BY <1>1, <2>2, SavesVars
  <2>4. VarStack \in Seq(SaveLists)
    BY Zenon DEF VariablesOK
  <2>5. VariablesOK'
    BY PushVarsKeeps, Zenon
  <2>6. ListAs[list] = item
    <3>1. ListAs[list] = [j \in DOMAIN list |-> SavedAs(list[j])]
      BY <2>3, Zenon DEF ListAs
    <3>2. DOMAIN list = DOMAIN names /\ \A j \in DOMAIN names : list[j] = Saved(names[j])
      BY Zenon
    <3> HIDE DEF list
    <3> QED
      BY <3>1, <3>2, Zenon
  <2> DEFINE s == VarStack'
             t == SavedNow'
  <2>7. SavedNow = [i \in DOMAIN VarStack |-> ListAs[VarStack[i]]] /\ t = [i \in DOMAIN s |-> ListAs[s[i]]]
    BY <2>5, SavedStack, Zenon
  <2> HIDE DEF list
  <2>8. s \in Seq(SaveLists) /\ s # << >> /\ Head(s) = list /\ Tail(s) = VarStack
    BY <2>1, <2>3, <2>4, Stacks, Zenon
  <2> HIDE DEF s, t
  <2>9. t # << >> /\ Head(t) = ListAs[Head(s)] /\ Tail(t) = [i \in DOMAIN Tail(s) |-> ListAs[Tail(s)[i]]]
    BY <2>7, <2>8, MappedStack
  <2>10. Head(t) = item /\ Tail(t) = SavedNow
    BY <2>6, <2>7, <2>8, <2>9, Zenon
  <2>11. \A i \in DOMAIN item : PartOfMaps(item[i])
    <3>1. \A i \in DOMAIN names : names[i] \in Names \cup DOMAIN SysVarArr
      BY <1>1
    <3>2. \A i \in DOMAIN names : PartOfMaps(SavedAs(Saved(names[i])))
      BY <3>1, SavesMaps, Zenon
    <3> QED
      BY <3>2, Zenon
  <2> QED
    BY <2>9, <2>10, <2>11, Zenon DEF t
<1> QED
  BY <1>2, <1>3

(* The list that a PUSH-VARS made, as the maps see it.                     *)
LEMMA ListItems ==
    ASSUME NEW pv \in SaveLists, NEW list, list = ListAs[pv]
    PROVE  /\ Len(pv) \in Nat /\ DOMAIN list = 1 .. Len(pv)
           /\ \A i \in 1 .. Len(pv) : list[i] = SavedAs(pv[i]) /\ list[i].value = pv[i].data
<1>1. Len(pv) \in Nat /\ DOMAIN pv = 1 .. Len(pv)
  BY SavesOf, Zenon
<1>2. list = [j \in DOMAIN pv |-> SavedAs(pv[j])]
  BY Zenon DEF ListAs
<1>3. DOMAIN list = 1 .. Len(pv) /\ \A i \in 1 .. Len(pv) : list[i] = SavedAs(pv[i])
  BY <1>1, <1>2, Zenon
<1>4. \A i \in 1 .. Len(pv) : SavedAs(pv[i]).value = pv[i].data
  BY SavedKinds, ZenonT(30)
<1> QED
  BY <1>1, <1>3, <1>4, Zenon

(* POP-VARS gives the variables the values they were saved with.           *)
LEMMA PopsVars ==
    ASSUME VariablesOK, NEW pv \in SaveLists, VHashTbl' = RestoreVars(VHashTbl, pv), NEW list, list = ListAs[pv]
    PROVE  VarsNow' = Maps!Restored(VarsNow, "var", list)
<1> DEFINE f == VarsNow
           g == VarsNow'
           t == VHashTbl
           u == RestoreVars(VHashTbl, pv)
           N == Len(pv)
<1>1. /\ N \in Nat /\ DOMAIN list = 1 .. N
      /\ \A i \in 1 .. N : list[i] = SavedAs(pv[i]) /\ list[i].value = pv[i].data
  BY ListItems, Zenon
<1>2. f = [k \in Folded |-> ValueIn(t, k)] /\ g = [k \in Folded |-> ValueIn(u, k)]
  BY TheMaps, Zenon
<1>3. t \in Vtables
  BY Zenon DEF VariablesOK
<1> HIDE DEF f, g, t, u, N
<1>4. f = [k \in Folded |-> f[k]] /\ g = [k \in Folded |-> g[k]]
  BY <1>2
<1>5. ASSUME NEW m \in Folded PROVE g[m] = Maps!Restored(f, "var", list)[m]
  <2> DEFINE at == {i \in 1 .. N : ~ IsSysVar(pv[i]) /\ Lower[pv[i].name] = m}
  <2>1. m \in DOMAIN HashVal /\ f[m] = ValueIn(t, m) /\ g[m] = ValueIn(u, m)
    BY <1>2, <1>5, MapKeys
  <2>2. /\ at = {} => ValueIn(u, m) = ValueIn(t, m)
        /\ \A i \in at : (\A j \in at : j <= i) => ValueIn(u, m) = pv[i].data
    BY <1>3, <2>1, RestoresVars DEF u, t, N
  <2>3. at = {i \in 1 .. N : list[i].kind = "var" /\ list[i].name = m}
    <3>1. \A i \in 1 .. N : list[i].kind = "var" /\ list[i].name = m <=> ~ IsSysVar(pv[i]) /\ Lower[pv[i].name] = m
      BY <1>1, SavedKinds, ZenonT(30)
    <3> QED
      BY <3>1
  <2>4. \A i \in at : pv[i].data = list[i].value
    BY <1>1
  <2> HIDE DEF at
  <2>5. /\ at = {} => g[m] = f[m]
        /\ \A i \in at : (\A j \in at : j <= i) => g[m] = list[i].value
    BY <2>1, <2>2, <2>4, Zenon
  <2>6. IsRestored(f, "var", list, m, g[m])
    <3>1. at = {i \in DOMAIN list : list[i].kind = "var" /\ list[i].name = m}
      BY <1>1, <2>3, Zenon
    <3> QED
      BY <2>5, <3>1, Zenon DEF IsRestored
  <2> QED
    BY <1>1, <1>4, <1>5, <2>6, RestoredOf
<1>6. g = Maps!Restored(f, "var", list)
  <2>1. RestoredMap(Folded, g, f, "var", list)
    BY <1>4, RestoredEverywhere
  <2> QED
    BY <1>5, <2>1, Zenon DEF RestoredMap
<1> QED
  BY <1>6 DEF f, g

(* POP-VARS gives the messages the translations they were saved with.      *)
LEMMA PopsTranslations ==
    ASSUME VariablesOK, NEW pv \in SaveLists, TranslationTable' = RestoreTranslations(TranslationTable, pv),
           NEW list, list = ListAs[pv]
    PROVE  TransNow' = Maps!Restored(TransNow, "trans", list)
<1> DEFINE f == TransNow
           g == TransNow'
           t == TranslationTable
           u == RestoreTranslations(TranslationTable, pv)
           N == Len(pv)
<1>1. /\ N \in Nat /\ DOMAIN list = 1 .. N
      /\ \A i \in 1 .. N : list[i] = SavedAs(pv[i]) /\ list[i].value = pv[i].data
  BY ListItems, Zenon
<1>2. f = [k \in Messages |-> tr(t, k)] /\ g = [k \in Messages |-> tr(u, k)]
  BY TheMaps, Zenon
<1>3. t \in SafeTables
  BY Zenon DEF VariablesOK
<1> HIDE DEF f, g, t, u, N
<1>4. f = [k \in Messages |-> f[k]] /\ g = [k \in Messages |-> g[k]]
  BY <1>2
<1>5. ASSUME NEW m \in Messages PROVE g[m] = Maps!Restored(f, "trans", list)[m]
  <2> DEFINE at == {i \in 1 .. N : /\ IsSysVar(pv[i]) /\ pv[i].name \notin PlainSys
                                   /\ SysVarArr[pv[i].name].orig = m}
  <2>1. f[m] = tr(t, m) /\ g[m] = tr(u, m)
    BY <1>2, <1>5
  <2>2. /\ at = {} => tr(u, m) = tr(t, m)
        /\ \A i \in at : (\A j \in at : j <= i) => tr(u, m) = pv[i].data
    BY <1>3, RestoresTranslations DEF u, t, N
  <2>3. at = {i \in 1 .. N : list[i].kind = "trans" /\ list[i].name = m}
    <3>1. \A i \in 1 .. N : IsSysVar(pv[i]) => (pv[i].name \notin PlainSys <=> SysVarArr[pv[i].name].kind = "trans")
      BY DEF PlainSys, IsSysVar
    <3>2. \A i \in 1 .. N : list[i].kind = "trans" /\ list[i].name = m <=>
                              IsSysVar(pv[i]) /\ pv[i].name \notin PlainSys /\ SysVarArr[pv[i].name].orig = m
      BY <1>1, <3>1, SavedKinds, ZenonT(30)
    <3> QED
      BY <3>2
  <2>4. \A i \in at : pv[i].data = list[i].value
    BY <1>1
  <2> HIDE DEF at
  <2>5. /\ at = {} => g[m] = f[m]
        /\ \A i \in at : (\A j \in at : j <= i) => g[m] = list[i].value
    BY <2>1, <2>2, <2>4, Zenon
  <2>6. IsRestored(f, "trans", list, m, g[m])
    <3>1. at = {i \in DOMAIN list : list[i].kind = "trans" /\ list[i].name = m}
      BY <1>1, <2>3, Zenon
    <3> QED
      BY <2>5, <3>1, Zenon DEF IsRestored
  <2> QED
    BY <1>1, <1>4, <1>5, <2>6, RestoredOf
<1>6. g = Maps!Restored(f, "trans", list)
  <2>1. RestoredMap(Messages, g, f, "trans", list)
    BY <1>4, RestoredEverywhere
  <2> QED
    BY <1>5, <2>1, Zenon DEF RestoredMap
<1> QED
  BY <1>6 DEF f, g

(* POP-VARS gives the system variables the values they were saved with;    *)
(* the time limit may stay.                                                *)
LEMMA PopsSysVars ==
    ASSUME VariablesOK, NEW pv \in SaveLists, sysvars' = RestoreSysVars(sysvars, pv), NEW list, list = ListAs[pv]
    PROVE  \A n \in DOMAIN sysvars : \/ sysvars'[n] = Maps!Restored(sysvars, "sys", list)[n]
                                     \/ n = <<"$ExpressionTimeLimit">> /\ sysvars'[n] = sysvars[n]
<1> DEFINE f == sysvars
           u == RestoreSysVars(sysvars, pv)
           N == Len(pv)
<1>1. /\ N \in Nat /\ DOMAIN list = 1 .. N
      /\ \A i \in 1 .. N : list[i] = SavedAs(pv[i]) /\ list[i].value = pv[i].data
  BY ListItems, Zenon
<1>2. f \in SysStates /\ TopLevel \in BOOLEAN
  BY Zenon DEF VariablesOK
<1> HIDE DEF f, u, N
<1>3. f = [n \in PlainSys |-> f[n]] /\ DOMAIN f = PlainSys
  BY <1>2 DEF SysStates
<1>4. ASSUME NEW m \in PlainSys PROVE u[m] = Maps!Restored(f, "sys", list)[m] \/ (m = Limit /\ u[m] = f[m])
  <2> DEFINE at == {i \in 1 .. N : IsSysVar(pv[i]) /\ pv[i].name = m}
  <2>1. /\ at = {} => u[m] = f[m]
        /\ \A i \in at : (\A j \in at : j <= i) => u[m] = pv[i].data \/ (m = Limit /\ u[m] = f[m])
    BY <1>2, <1>4, RestoresSysVars DEF u, f, N
  <2>2. at = {i \in 1 .. N : list[i].kind = "sys" /\ list[i].name = m}
    <3>1. SysVarArr[m].kind # "trans" /\ m \in DOMAIN SysVarArr
      BY <1>4 DEF PlainSys
    <3>2. \A i \in 1 .. N : list[i].kind = "sys" /\ list[i].name = m <=> IsSysVar(pv[i]) /\ pv[i].name = m
      BY <1>1, <3>1, SavedKinds, ZenonT(30)
    <3> QED
      BY <3>2
  <2>3. \A i \in at : pv[i].data = list[i].value
    BY <1>1
  <2> HIDE DEF at
  <2>4. CASE m = Limit /\ u[m] = f[m]
    BY <2>4
  <2>5. CASE ~ (m = Limit /\ u[m] = f[m])
    <3>1. /\ at = {} => u[m] = f[m]
          /\ \A i \in at : (\A j \in at : j <= i) => u[m] = list[i].value
      BY <2>1, <2>3, <2>5, Zenon
    <3>2. at = {i \in DOMAIN list : list[i].kind = "sys" /\ list[i].name = m}
      BY <1>1, <2>2, Zenon
    <3>3. IsRestored(f, "sys", list, m, u[m])
      BY <3>1, <3>2, Zenon DEF IsRestored
    <3>4. u[m] = Maps!Restored(f, "sys", list)[m]
      BY <1>1, <1>3, <1>4, <3>3, RestoredOf
    <3> QED
      BY <3>4
  <2> QED
    BY <2>4, <2>5
<1>5. sysvars' = u
  BY DEF u
<1> QED
  BY <1>3, <1>4, <1>5, Zenon DEF f, Limit

(* POP-VARS restores the part of the maps that the last PUSH-VARS saved.   *)
LEMMA PopVarsMaps ==
    ASSUME VariablesOK, PopVars, UNCHANGED TopLevel, UNCHANGED <<FuncsNow, ClonesNow, Keys(DedupeTable)>>
    PROVE  Maps!PopVars
<1> DEFINE pv == Head(VarStack)
           t == SavedNow
<1>1. VarStack \in Seq(SaveLists) /\ VarStack # << >>
  BY Zenon DEF VariablesOK, PopVars
<1>2. pv \in SaveLists
  BY <1>1, Stacks, Zenon
<1>3. VariablesOK'
  BY PopVarsKeeps, Zenon
<1>4. t = [i \in DOMAIN VarStack |-> ListAs[VarStack[i]]] /\ SavedNow' = [i \in DOMAIN VarStack' |-> ListAs[VarStack'[i]]]
  BY <1>3, SavedStack, Zenon
<1>5. /\ sysvars' = RestoreSysVars(sysvars, pv) /\ TranslationTable' = RestoreTranslations(TranslationTable, pv)
      /\ VHashTbl' = RestoreVars(VHashTbl, pv) /\ VarStack' = Tail(VarStack)
  BY Zenon DEF PopVars
<1> HIDE DEF t
<1>6. t # << >> /\ Head(t) = ListAs[pv] /\ Tail(t) = [i \in DOMAIN Tail(VarStack) |-> ListAs[Tail(VarStack)[i]]]
  BY <1>1, <1>4, MappedStack
<1>7. SavedNow' = Tail(t)
  BY <1>4, <1>5, <1>6, Zenon
<1> HIDE DEF pv
<1>8. VarsNow' = Maps!Restored(VarsNow, "var", Head(t))
  BY <1>2, <1>5, <1>6, PopsVars, Zenon
<1>9. TransNow' = Maps!Restored(TransNow, "trans", Head(t))
  BY <1>2, <1>5, <1>6, PopsTranslations, Zenon
<1>10. \A n \in DOMAIN sysvars : \/ sysvars'[n] = Maps!Restored(sysvars, "sys", Head(t))[n]
                                 \/ n = <<"$ExpressionTimeLimit">> /\ sysvars'[n] = sysvars[n]
  BY <1>2, <1>5, <1>6, PopsSysVars, Zenon
<1>11. UNCHANGED <<FuncsNow, ClonesNow, Keys(DedupeTable)>>
  OBVIOUS
<1> QED
  BY <1>6, <1>7, <1>8, <1>9, <1>10, <1>11, Zenon DEF Maps!PopVars, t

(* Functions that change under one name.                                   *)
LEMMA OneFunc ==
    ASSUME NEW k \in FuncKeys, \A m \in DOMAIN HashVal : m # k => BodyIn(FuncHash', m) = BodyIn(FuncHash, m),
           BodyIn(FuncHash', k) \in {NULL} \cup FuncBodies
    PROVE  Maps!Changed(FuncsNow, FuncsNow', {NULL} \cup FuncBodies)
<1> DEFINE f == FuncsNow
           g == FuncsNow'
           old(m) == BodyIn(FuncHash, m)
           new(m) == BodyIn(FuncHash', m)
           V == {NULL} \cup FuncBodies
<1>1. f = [m \in FuncKeys |-> old(m)] /\ g = [m \in FuncKeys |-> new(m)]
  BY TheMaps, Zenon
<1>2. \A m \in FuncKeys : m # k => new(m) = old(m)
  BY MapKeys
<1>3. new(k) \in V
  BY Zenon
<1> HIDE DEF f, g, old, new, V
<1>4. f = [m \in FuncKeys |-> f[m]] /\ g = [m \in FuncKeys |-> g[m]] /\ DOMAIN f = FuncKeys
  BY <1>1
<1>5. \A m \in FuncKeys : f[m] = old(m) /\ g[m] = new(m)
  BY <1>1
<1>6. \A m \in FuncKeys : m # k => g[m] = f[m]
  BY <1>2, <1>5
<1>7. \A x : x = g[k] => g = [f EXCEPT ![k] = x]
  BY <1>4, <1>6, OneChange
<1>8. g[k] \in V /\ g = [f EXCEPT ![k] = g[k]]
  BY <1>3, <1>5, <1>7
<1>9. Maps!Changed(f, g, V)
  BY <1>4, <1>8, Zenon DEF Maps!Changed
<1> QED
  BY <1>9 DEF f, g, V

(* Functions that do not change.                                           *)
LEMMA SameFuncs ==
    ASSUME \A m \in DOMAIN HashVal : BodyIn(FuncHash', m) = BodyIn(FuncHash, m)
    PROVE  FuncsNow' = FuncsNow
<1> DEFINE f == FuncsNow
           g == FuncsNow'
<1>1. f = [m \in FuncKeys |-> BodyIn(FuncHash, m)] /\ g = [m \in FuncKeys |-> BodyIn(FuncHash', m)]
  BY TheMaps, Zenon
<1>2. \A m \in FuncKeys : BodyIn(FuncHash', m) = BodyIn(FuncHash, m)
  BY MapKeys
<1> HIDE DEF f, g
<1>3. g = f
  BY <1>1, <1>2
<1> QED
  BY <1>3 DEF f, g

(* FSET defines a function or leaves all as they are.                      *)
LEMMA DoFsetMaps ==
    ASSUME FunctionsOK, NEW cmd \in FsetLines \cup SkippedFsets, NEW ignoring \in BOOLEAN, NEW constant \in BOOLEAN,
           cmd \in FsetLines \/ ignoring, DoFset(cmd, ignoring, constant)
    PROVE  Maps!Changed(FuncsNow, FuncsNow', {NULL} \cup FuncBodies) \/ FuncsNow' = FuncsNow
<1> DEFINE t == FuncHash
           k == FuncLower[cmd.name]
           f == FindUserFunc(t, k)
<1>1. t \in Ftables
  BY Zenon DEF FunctionsOK
<1>2. k \in DOMAIN HashVal /\ k \in FuncKeys
  <2>1. cmd.name \in FuncNames
    BY FunctionsAssumption
  <2> QED
    BY <2>1, MapKeys
<1>3. FuncHash' = CASE ignoring -> IF constant \/ f = NULL THEN t
                                   ELSE Update(t, f, [f.data EXCEPT !.is_constant = FALSE])
                    [] ~ ignoring /\ (SameLine(f, cmd) \/ k \in Builtins \/ ~ Parses(cmd)) -> t
                    [] OTHER -> hash_table_insert(FUnset(t, k), k, NewFunc(cmd, constant))
  BY Zenon DEF DoFset
<1> HIDE DEF k
<1>4. CASE FuncHash' = t
  BY <1>4, SameMaps, Zenon
<1>5. CASE ignoring /\ ~ (constant \/ f = NULL)
  <2> DEFINE g == hash_table_find(t, k)
  <2>1. f = g
    BY Zenon DEF FindUserFunc
  <2>2. g # NULL /\ FuncHash' = Update(t, g, [g.data EXCEPT !.is_constant = FALSE])
    BY <1>3, <1>5, <2>1
  <2>3. g.data \in FuncData
    BY <1>1, <1>2, <2>2, Bodies
  <2> DEFINE d == [g.data EXCEPT !.is_constant = FALSE]
  <2>4. d \in FuncData /\ Body(d) = Body(g.data)
    BY <2>3, DataOfFuncs, Zenon
  <2> HIDE DEF d
  <2>5. \A m \in DOMAIN HashVal : BodyIn(Update(t, g, d), m) = BodyIn(t, m)
    BY <1>1, <1>2, <2>2, <2>4, MarksFuncs
  <2>6. FuncHash' = Update(t, g, d)
    BY <2>2, Zenon DEF d
  <2> QED
    BY <2>5, <2>6, SameFuncs, Zenon
<1>6. CASE ~ ignoring /\ ~ (SameLine(f, cmd) \/ k \in Builtins \/ ~ Parses(cmd))
  <2> DEFINE d == NewFunc(cmd, constant)
             u == hash_table_insert(FUnset(t, k), k, d)
  <2>1. FuncHash' = u
    BY <1>3, <1>6, Zenon
  <2>2. cmd \in FsetLines
    BY <1>6
  <2>3. d \in FuncData /\ Body(d) = [file |-> cmd.file, line |-> cmd.line, body |-> cmd.body]
    BY <2>2, DataOfFuncs, Zenon
  <2>4. Body(d) \in FuncBodies
    BY <2>2, <2>3, Zenon DEF FuncBodies
  <2> HIDE DEF d
  <2>5. /\ BodyIn(u, k) = Body(d)
        /\ \A m \in DOMAIN HashVal : m # k => BodyIn(u, m) = BodyIn(t, m)
    BY <1>1, <1>2, <2>3, DefinesFuncs
  <2> HIDE DEF u
  <2>6. BodyIn(FuncHash', k) \in {NULL} \cup FuncBodies
    BY <2>1, <2>4, <2>5
  <2>7. \A m \in DOMAIN HashVal : m # k => BodyIn(FuncHash', m) = BodyIn(t, m)
    BY <2>1, <2>5, Zenon
  <2> QED
    BY <1>2, <2>6, <2>7, OneFunc, Zenon
<1>7. \/ FuncHash' = t
      \/ ignoring /\ ~ (constant \/ f = NULL)
      \/ ~ ignoring /\ ~ (SameLine(f, cmd) \/ k \in Builtins \/ ~ Parses(cmd))
  <2> HIDE DEF t, f
  <2> QED
    BY <1>3, Zenon
<1> QED
  BY <1>4, <1>5, <1>6, <1>7, Zenon

(* FUNSET removes a function.                                              *)
LEMMA DoFunsetMaps ==
    ASSUME FunctionsOK, NEW n \in FuncNames, DoFunset(n)
    PROVE  Maps!Changed(FuncsNow, FuncsNow', {NULL} \cup FuncBodies)
<1> DEFINE t == FuncHash
           k == FuncLower[n]
           u == FUnset(t, k)
<1>1. t \in Ftables /\ FuncHash' = u
  BY Zenon DEF FunctionsOK, DoFunset
<1>2. k \in DOMAIN HashVal /\ k \in FuncKeys
  BY MapKeys
<1> HIDE DEF k
<1>3. BodyIn(u, k) = NULL /\ \A m \in DOMAIN HashVal : m # k => BodyIn(u, m) = BodyIn(t, m)
  BY <1>1, <1>2, UnsetsFuncs
<1> HIDE DEF u
<1>4. BodyIn(FuncHash', k) \in {NULL} \cup FuncBodies
  BY <1>1, <1>3
<1>5. \A m \in DOMAIN HashVal : m # k => BodyIn(FuncHash', m) = BodyIn(t, m)
  BY <1>1, <1>3, Zenon
<1> QED
  BY <1>2, <1>4, <1>5, OneFunc, Zenon

(* FRENAME moves a function to another name, or removes the other's.       *)
LEMMA DoFrenameMaps ==
    ASSUME FunctionsOK, NEW old \in FuncNames, NEW new \in FuncNames, DoFrename(old, new)
    PROVE  \/ Maps!Changed(FuncsNow, FuncsNow', {NULL} \cup FuncBodies)
           \/ Maps!Renamed(FuncsNow, FuncsNow')
           \/ FuncsNow' = FuncsNow
<1> DEFINE t == FuncHash
           k == FuncLower[old]
           l == FuncLower[new]
           u == RenameUserFunc(t, k, l)
<1>1. t \in Ftables /\ (FuncHash' = t \/ FuncHash' = u)
  BY Zenon DEF FunctionsOK, DoFrename
<1>2. k \in DOMAIN HashVal /\ k \in FuncKeys /\ l \in DOMAIN HashVal /\ l \in FuncKeys
  BY MapKeys
<1> HIDE DEF k, l
<1>3. /\ k = l => u = t
      /\ k # l /\ BodyIn(t, k) = NULL => BodyIn(u, l) = NULL /\ BodyIn(u, k) = BodyIn(t, k)
      /\ k # l /\ BodyIn(t, k) # NULL => BodyIn(u, l) = BodyIn(t, k) /\ BodyIn(u, k) = NULL
      /\ \A m \in DOMAIN HashVal : m # k /\ m # l => BodyIn(u, m) = BodyIn(t, m)
  BY <1>1, <1>2, RenamesFuncs
<1> HIDE DEF u
<1>4. CASE FuncHash' = t
  BY <1>4, SameMaps, Zenon
<1>5. CASE FuncHash' = u /\ k # l /\ BodyIn(t, k) = NULL
  <2>1. BodyIn(FuncHash', l) \in {NULL} \cup FuncBodies
    BY <1>3, <1>5
  <2>2. \A m \in DOMAIN HashVal : m # l => BodyIn(FuncHash', m) = BodyIn(t, m)
    BY <1>3, <1>5, Zenon
  <2> QED
    BY <1>2, <2>1, <2>2, OneFunc, Zenon
<1>6. CASE FuncHash' = u /\ k # l /\ BodyIn(t, k) # NULL
  <2> DEFINE f == FuncsNow
             g == FuncsNow'
             was(m) == BodyIn(t, m)
             is(m) == BodyIn(FuncHash', m)
  <2>1. f = [m \in FuncKeys |-> was(m)] /\ g = [m \in FuncKeys |-> is(m)]
    BY TheMaps, Zenon
  <2>2. is(l) = was(k) /\ is(k) = NULL /\ \A m \in FuncKeys : m # k /\ m # l => is(m) = was(m)
    <3>1. \A m \in FuncKeys : m \in DOMAIN HashVal
      BY MapKeys
    <3> QED
      BY <1>3, <1>6, <3>1, Zenon
  <2> HIDE DEF f, g, was, is
  <2>3. f = [m \in FuncKeys |-> f[m]] /\ g = [m \in FuncKeys |-> g[m]] /\ DOMAIN f = FuncKeys
    BY <2>1
  <2>4. \A m \in FuncKeys : f[m] = was(m) /\ g[m] = is(m)
    BY <2>1
  <2>5. (\A m \in FuncKeys : m # k /\ m # l => g[m] = f[m]) /\ g[k] = NULL /\ g[l] = f[k] /\ k # l
    BY <1>2, <1>6, <2>2, <2>4
  <2>6. \A x, y : x = g[k] /\ y = g[l] => g = [f EXCEPT ![k] = x, ![l] = y]
    BY <1>2, <2>3, <2>5, TwoChanges
  <2>7. g = [f EXCEPT ![k] = NULL, ![l] = f[k]]
    BY <2>5, <2>6
  <2>8. Maps!Renamed(f, g)
    BY <1>2, <2>3, <2>5, <2>7, Zenon DEF Maps!Renamed
  <2> QED
    BY <2>8 DEF f, g
<1> QED
  BY <1>1, <1>3, <1>4, <1>5, <1>6, Zenon

ClonesAs == [l \in Seq(Clones) |-> [j \in DOMAIN l |-> CloneAs(l[j])]]

(* The stack of the maps is the stack of the lists of clones.              *)
LEMMA CloneStack ==
    /\ FunctionsOK => ClonesNow = [i \in DOMAIN UserFuncStack |-> ClonesAs[UserFuncStack[i]]]
    /\ FunctionsOK' => ClonesNow' = [i \in DOMAIN UserFuncStack' |-> ClonesAs[UserFuncStack'[i]]]
<1>1. ASSUME NEW s \in Seq(Seq(Clones))
      PROVE  [i \in DOMAIN s |-> [j \in DOMAIN s[i] |-> CloneAs(s[i][j])]] = [i \in DOMAIN s |-> ClonesAs[s[i]]]
  <2>1. \A i \in DOMAIN s : s[i] \in Seq(Clones)
    OBVIOUS
  <2>2. \A i \in DOMAIN s : ClonesAs[s[i]] = [j \in DOMAIN s[i] |-> CloneAs(s[i][j])]
    BY <2>1, Zenon DEF ClonesAs
  <2> QED
    BY <2>2, Zenon
<1>2. FunctionsOK => UserFuncStack \in Seq(Seq(Clones))
  BY Zenon DEF FunctionsOK
<1>3. FunctionsOK' => UserFuncStack' \in Seq(Seq(Clones))
  BY Zenon DEF FunctionsOK
<1>4. FunctionsOK => ClonesNow = [i \in DOMAIN UserFuncStack |-> ClonesAs[UserFuncStack[i]]]
  BY <1>1, <1>2, Zenon DEF ClonesNow
<1>5. FunctionsOK' => ClonesNow' = [i \in DOMAIN UserFuncStack' |-> ClonesAs[UserFuncStack'[i]]]
  BY <1>1, <1>3, Zenon DEF ClonesNow
<1> QED
  BY <1>4, <1>5

(* PUSH-FUNCS saves functions as they are, and changes none.               *)
LEMMA PushUserFuncsMaps ==
    ASSUME FunctionsOK, NEW names \in Seq(FuncNames), PushUserFuncs(names)
    PROVE  /\ FuncsNow' = FuncsNow
           /\ \/ UserFuncStack' = UserFuncStack
              \/ /\ ClonesNow' # << >> /\ Tail(ClonesNow') = ClonesNow
                 /\ \A i \in DOMAIN Head(ClonesNow') : Maps!IsOf(Head(ClonesNow')[i], FuncsNow, "func")
<1> DEFINE all == ClonesAndMarks(FuncHash, names)
           list == all.clones
           table == all.table
<1>1. FuncHash \in Ftables /\ UserFuncStack \in Seq(Seq(Clones))
  BY Zenon DEF FunctionsOK
<1>2. FuncHash' = table /\ UserFuncStack' = IF list = << >> THEN UserFuncStack ELSE <<list>> \o UserFuncStack
  BY Zenon DEF PushUserFuncs
<1>3. /\ table \in Ftables /\ list \in Seq(Clones)
      /\ \A m \in DOMAIN HashVal : BodyIn(table, m) = BodyIn(FuncHash, m)
      /\ \A i \in 1 .. Len(list) : Body(list[i].data) = BodyIn(FuncHash, list[i].name)
  BY <1>1, PushesFuncs
<1> HIDE DEF all, list, table
<1>4. FuncsNow' = FuncsNow
  <2>1. \A m \in DOMAIN HashVal : BodyIn(FuncHash', m) = BodyIn(FuncHash, m)
    BY <1>2, <1>3, Zenon
  <2> QED
    BY <2>1, SameFuncs, Zenon
<1>5. CASE list = << >>
  BY <1>2, <1>4, <1>5, Zenon
<1>6. CASE list # << >>
  <2> DEFINE s == UserFuncStack'
             t == ClonesNow'
             f == FuncsNow
             item == [j \in DOMAIN list |-> CloneAs(list[j])]
  <2>1. s \in Seq(Seq(Clones)) /\ s # << >> /\ Head(s) = list /\ Tail(s) = UserFuncStack
    BY <1>1, <1>2, <1>3, <1>6, Stacks, Zenon
  <2>2. FunctionsOK'
    <3>1. FuncHash' \in Ftables
      BY <1>2, <1>3, Zenon
    <3> QED
      BY <2>1, <3>1, Zenon DEF FunctionsOK
  <2>3. ClonesNow = [i \in DOMAIN UserFuncStack |-> ClonesAs[UserFuncStack[i]]] /\ t = [i \in DOMAIN s |-> ClonesAs[s[i]]]
    BY <2>2, CloneStack, Zenon
  <2>4. ClonesAs[list] = item
    BY <1>3, Zenon DEF ClonesAs
  <2>5. f = [k \in FuncKeys |-> BodyIn(FuncHash, k)]
    BY TheMaps, Zenon
  <2> HIDE DEF s, t, f
  <2>6. t # << >> /\ Head(t) = ClonesAs[Head(s)] /\ Tail(t) = [i \in DOMAIN Tail(s) |-> ClonesAs[Tail(s)[i]]]
    BY <2>1, <2>3, MappedStack
  <2>7. Head(t) = item /\ Tail(t) = ClonesNow
    BY <2>1, <2>3, <2>4, <2>6, Zenon
  <2>8. ASSUME NEW i \in DOMAIN item PROVE Maps!IsOf(item[i], f, "func")
    <3>1. i \in 1 .. Len(list)
      BY <1>3, <2>8
    <3>2. list[i] \in Clones
      BY <1>3, <3>1
    <3>3. list[i].name \in FuncKeys
      <4>1. list[i].name \in FuncNames
        BY <3>2 DEF Clones
      <4> QED
        BY <4>1, MapKeys
    <3>4. DOMAIN f = FuncKeys /\ f[list[i].name] = BodyIn(FuncHash, list[i].name)
      BY <2>5, <3>3
    <3> DEFINE y == CloneAs(list[i])
    <3>5. y.kind = "func" /\ y.name = list[i].name /\ y.value = Body(list[i].data)
      BY DEF CloneAs
    <3>6. item[i] = y
      BY <2>8, Zenon
    <3> HIDE DEF y
    <3>7. Maps!IsOf(y, f, "func")
      BY <1>3, <3>1, <3>3, <3>4, <3>5, Zenon DEF Maps!IsOf
    <3> QED
      BY <3>6, <3>7, Zenon
  <2> QED
    BY <1>4, <2>6, <2>7, <2>8, Zenon DEF t, f
<1> QED
  BY <1>5, <1>6

(* POP-FUNCS restores the functions that the last PUSH-FUNCS saved.        *)
LEMMA PopUserFuncsMaps ==
    ASSUME FunctionsOK, FunctionsOK', PopUserFuncs
    PROVE  /\ ClonesNow # << >> /\ ClonesNow' = Tail(ClonesNow)
           /\ FuncsNow' = Maps!Restored(FuncsNow, "func", Head(ClonesNow))
<1> DEFINE pf == Head(UserFuncStack)
           c == ClonesNow
           list == ClonesAs[pf]
           f == FuncsNow
           g == FuncsNow'
           t == FuncHash
           u == RestoreFuncs(FuncHash, pf)
           N == Len(pf)
<1>1. UserFuncStack \in Seq(Seq(Clones)) /\ UserFuncStack # << >> /\ t \in Ftables
  BY Zenon DEF FunctionsOK, PopUserFuncs
<1>2. pf \in Seq(Clones)
  BY <1>1, Stacks, Zenon
<1>3. c = [i \in DOMAIN UserFuncStack |-> ClonesAs[UserFuncStack[i]]]
      /\ ClonesNow' = [i \in DOMAIN UserFuncStack' |-> ClonesAs[UserFuncStack'[i]]]
  BY CloneStack, Zenon
<1>4. FuncHash' = u /\ UserFuncStack' = Tail(UserFuncStack)
  BY Zenon DEF PopUserFuncs
<1> HIDE DEF c
<1>5. c # << >> /\ Head(c) = list /\ Tail(c) = [i \in DOMAIN Tail(UserFuncStack) |-> ClonesAs[Tail(UserFuncStack)[i]]]
  <2> DEFINE s == UserFuncStack
  <2>1. s \in Seq(Seq(Clones)) /\ s # << >> /\ c = [i \in DOMAIN s |-> ClonesAs[s[i]]]
    BY <1>1, <1>3, Zenon
  <2> HIDE DEF s, t, f, g, u, N
  <2>2. c # << >> /\ Head(c) = ClonesAs[Head(s)] /\ Tail(c) = [i \in DOMAIN Tail(s) |-> ClonesAs[Tail(s)[i]]]
    BY <2>1, MappedStack, SMTT(30)
  <2> QED
    BY <2>2, Zenon DEF s
<1>6. ClonesNow' = Tail(c)
  BY <1>3, <1>4, <1>5, Zenon
<1>7. N \in Nat /\ DOMAIN pf = 1 .. N
  BY <1>2
<1>8. list = [j \in DOMAIN pf |-> CloneAs(pf[j])]
  BY <1>2, Zenon DEF ClonesAs
<1>9. f = [k \in FuncKeys |-> BodyIn(t, k)] /\ g = [k \in FuncKeys |-> BodyIn(u, k)]
  BY <1>4, TheMaps, Zenon
<1> HIDE DEF f, g, t, u, N, list, pf
<1>10. f = [k \in FuncKeys |-> f[k]] /\ g = [k \in FuncKeys |-> g[k]]
  BY <1>9
<1>11. DOMAIN list = 1 .. N /\ \A i \in 1 .. N : list[i] = CloneAs(pf[i])
  BY <1>7, <1>8, Zenon
<1>12. \A i \in 1 .. N : list[i].kind = "func" /\ list[i].name = pf[i].name /\ list[i].value = Body(pf[i].data)
  BY <1>11 DEF CloneAs
<1>13. ASSUME NEW m \in FuncKeys PROVE g[m] = Maps!Restored(f, "func", list)[m]
  <2> DEFINE at == {i \in 1 .. N : pf[i].name = m}
  <2>1. m \in DOMAIN HashVal /\ f[m] = BodyIn(t, m) /\ g[m] = BodyIn(u, m)
    BY <1>9, <1>13, MapKeys
  <2>2. /\ at = {} => BodyIn(u, m) = BodyIn(t, m)
        /\ \A i \in at : (\A j \in at : j <= i) => BodyIn(u, m) = Body(pf[i].data)
    BY <1>1, <1>2, <2>1, RestoresFuncs DEF u, t, N
  <2>3. at = {i \in 1 .. N : list[i].kind = "func" /\ list[i].name = m}
    BY <1>12
  <2>4. \A i \in at : Body(pf[i].data) = list[i].value
    BY <1>12
  <2> HIDE DEF at
  <2>5. /\ at = {} => g[m] = f[m]
        /\ \A i \in at : (\A j \in at : j <= i) => g[m] = list[i].value
    BY <2>1, <2>2, <2>4, Zenon
  <2>6. IsRestored(f, "func", list, m, g[m])
    <3>1. at = {i \in DOMAIN list : list[i].kind = "func" /\ list[i].name = m}
      BY <1>11, <2>3, Zenon
    <3> QED
      BY <2>5, <3>1, Zenon DEF IsRestored
  <2> QED
    BY <1>7, <1>10, <1>11, <1>13, <2>6, RestoredOf
<1>14. g = Maps!Restored(f, "func", list)
  <2>1. RestoredMap(FuncKeys, g, f, "func", list)
    BY <1>10, RestoredEverywhere
  <2> QED
    BY <1>13, <2>1, Zenon DEF RestoredMap
<1> QED
  BY <1>5, <1>6, <1>14, Zenon DEF c, f, g

MapStep == Maps!Next \/ UNCHANGED Maps!all

(* SET, UNSET, PRESERVE, PUSH-VARS and POP-VARS are steps of the maps.     *)
LEMMA VarCommandsMap ==
    ASSUME DefInv, VarCommand \/ SysVarCommand, UNCHANGED <<Functions, Issued, TopLevel>>
    PROVE  MapStep
<1>1. VariablesOK
  BY Zenon DEF DefInv
<1>2. /\ FuncsNow' = FuncsNow /\ ClonesNow' = ClonesNow /\ Keys(DedupeTable)' = Keys(DedupeTable)
      /\ TopLevel' = TopLevel
  BY SameMaps, Zenon DEF Functions, Issued
<1>3. ASSUME UNCHANGED <<VarStack, sysvars, TranslationTable>>,
             \/ Maps!Assigned(VarsNow, VarsNow') \/ Maps!Removed(VarsNow, VarsNow')
             \/ Maps!Preserved(VarsNow, VarsNow') \/ VHashTbl' = VHashTbl
      PROVE  MapStep
  <2>1. SavedNow' = SavedNow /\ TransNow' = TransNow /\ sysvars' = sysvars
    BY <1>3, SameMaps, Zenon
  <2>2. CASE VHashTbl' = VHashTbl
    BY <1>2, <2>1, <2>2, SameMaps, Zenon DEF MapStep, Maps!all
  <2>3. CASE VHashTbl' # VHashTbl
    BY <1>2, <1>3, <2>1, <2>3, Zenon DEF MapStep, Maps!Next, Maps!SetVar
  <2> QED
    BY <2>2, <2>3
<1>4. ASSUME NEW l \in VarLists, PushVars(l) PROVE MapStep
  <2>1. /\ VarsNow' = VarsNow /\ TransNow' = TransNow /\ sysvars' = sysvars
        /\ VarStack' = VarStack => SavedNow' = SavedNow
    BY <1>4, SameMaps, Zenon DEF PushVars
  <2>2. \/ VarStack' = VarStack
        \/ /\ SavedNow' # << >> /\ Tail(SavedNow') = SavedNow
           /\ \A i \in DOMAIN Head(SavedNow') : PartOfMaps(Head(SavedNow')[i])
    BY <1>1, <1>2, <1>4, PushVarsMaps, Zenon
  <2>3. CASE VarStack' = VarStack
    BY <1>2, <2>1, <2>3, Zenon DEF MapStep, Maps!all
  <2>4. CASE VarStack' # VarStack
    BY <1>2, <2>1, <2>2, <2>4, Zenon DEF MapStep, Maps!Next, Maps!PushVars, PartOfMaps
  <2> QED
    BY <2>3, <2>4
<1>5. ASSUME PopVars PROVE MapStep
  <2>1. UNCHANGED <<FuncsNow, ClonesNow, Keys(DedupeTable)>>
    BY <1>2, Zenon
  <2> QED
    BY <1>1, <1>2, <1>5, <2>1, PopVarsMaps, Zenon DEF MapStep, Maps!Next
<1>6. CASE VarCommand
  <2>1. Settable \subseteq Names /\ Preservable \subseteq Names /\ Contextual \subseteq Names
    BY NamesAssumption
  <2>2. ASSUME NEW n \in Settable, NEW v \in VarValues, DoSet(n, v, FALSE, FALSE, TRUE) PROVE MapStep
    <3>1. n \in Names /\ FALSE \in BOOLEAN /\ TRUE \in BOOLEAN /\ UNCHANGED <<VarStack, sysvars, TranslationTable>>
      BY <2>1, <2>2 DEF DoSet
    <3>2. Maps!Assigned(VarsNow, VarsNow') \/ VHashTbl' = VHashTbl
      BY <1>1, <2>2, <3>1, DoSetMaps, Zenon
    <3> QED
      BY <1>3, <3>1, <3>2, Zenon
  <2>3. ASSUME NEW n \in Contextual, NEW v \in VarValues, NEW b \in BOOLEAN, DoSet(n, v, b, ~ b, FALSE) PROVE MapStep
    <3>1. n \in Names /\ FALSE \in BOOLEAN /\ (~ b) \in BOOLEAN /\ UNCHANGED <<VarStack, sysvars, TranslationTable>>
      BY <2>1, <2>3, Zenon DEF DoSet
    <3>2. Maps!Assigned(VarsNow, VarsNow') \/ VHashTbl' = VHashTbl
      BY <1>1, <2>3, <3>1, DoSetMaps, Zenon
    <3> QED
      BY <1>3, <3>1, <3>2, Zenon
  <2>4. ASSUME NEW n \in Settable, DoUnset(<<n>>) PROVE MapStep
    <3>1. n \in Names /\ UNCHANGED <<VarStack, sysvars, TranslationTable>>
      BY <2>1, <2>4, Zenon DEF DoUnset
    <3> QED
      BY <1>1, <1>3, <2>4, <3>1, DoUnsetMaps, Zenon
  <2>5. ASSUME NEW n \in Preservable, DoPreserve(n) PROVE MapStep
    <3>1. n \in Names /\ UNCHANGED <<VarStack, sysvars, TranslationTable>>
      BY <2>1, <2>5, Zenon DEF DoPreserve
    <3> QED
      BY <1>1, <1>3, <2>5, <3>1, DoPreserveMaps, Zenon
  <2> QED
    BY <1>4, <1>5, <1>6, <2>2, <2>3, <2>4, <2>5, Zenon DEF VarCommand
<1>7. CASE SysVarCommand
  <2>1. ASSUME NEW s \in SysSettings, DoSetSys(s[1], s[2]) PROVE MapStep
    <3>1. VarsNow' = VarsNow /\ SavedNow' = SavedNow
      BY <2>1, SameMaps, Zenon DEF DoSetSys
    <3>2. \/ Maps!Changed(sysvars, sysvars', PlainValues) /\ TranslationTable' = TranslationTable
          \/ Maps!OneDiffers(TransNow, TransNow') /\ sysvars' = sysvars
          \/ sysvars' = sysvars /\ TranslationTable' = TranslationTable
      BY <1>1, <2>1, DoSetSysMaps, Zenon
    <3>3. CASE Maps!Changed(sysvars, sysvars', PlainValues) /\ TranslationTable' = TranslationTable
      BY <1>2, <3>1, <3>3, SameMaps, Zenon DEF MapStep, Maps!Next, Maps!SetSystem
    <3>4. CASE Maps!OneDiffers(TransNow, TransNow') /\ sysvars' = sysvars
      BY <1>2, <3>1, <3>4, Zenon DEF MapStep, Maps!Next, Maps!Translate
    <3>5. CASE sysvars' = sysvars /\ TranslationTable' = TranslationTable
      BY <1>2, <3>1, <3>5, SameMaps, Zenon DEF MapStep, Maps!all
    <3> QED
      BY <3>2, <3>3, <3>4, <3>5
  <2> QED
    BY <1>4, <1>5, <1>7, <2>1, Zenon DEF SysVarCommand
<1> QED
  BY <1>6, <1>7

(* FSET, FUNSET, FRENAME, PUSH-FUNCS and POP-FUNCS are steps of the maps.  *)
LEMMA FuncCommandsMap ==
    ASSUME DefInv, FuncCommand, UNCHANGED <<Variables, Issued, TopLevel>>
    PROVE  MapStep
<1>1. FunctionsOK
  BY Zenon DEF DefInv
<1>2. /\ VarsNow' = VarsNow /\ SavedNow' = SavedNow /\ TransNow' = TransNow /\ sysvars' = sysvars
      /\ Keys(DedupeTable)' = Keys(DedupeTable)
  BY SameMaps, Zenon DEF Variables, Issued
<1>3. ASSUME UNCHANGED UserFuncStack,
             \/ Maps!Changed(FuncsNow, FuncsNow', {NULL} \cup FuncBodies)
             \/ Maps!Renamed(FuncsNow, FuncsNow') \/ FuncsNow' = FuncsNow
      PROVE  MapStep
  <2>1. ClonesNow' = ClonesNow
    BY <1>3, SameMaps, Zenon
  <2>2. CASE FuncsNow' = FuncsNow
    BY <1>2, <2>1, <2>2, Zenon DEF MapStep, Maps!all
  <2>3. CASE FuncsNow' # FuncsNow
    BY <1>2, <1>3, <2>1, <2>3, Zenon DEF MapStep, Maps!Next, Maps!Define
  <2> QED
    BY <2>2, <2>3
<1>4. FunctionsOK'
  BY <1>1, FuncCommandsKeep, Zenon
<1>5. ASSUME NEW cmd \in FsetLines \cup SkippedFsets, NEW b \in BOOLEAN, cmd \in FsetLines \/ b, DoFset(cmd, b, ~ b)
      PROVE  MapStep
  <2>1. (~ b) \in BOOLEAN /\ UNCHANGED UserFuncStack
    BY <1>5, Zenon DEF DoFset
  <2>2. Maps!Changed(FuncsNow, FuncsNow', {NULL} \cup FuncBodies) \/ FuncsNow' = FuncsNow
    BY <1>1, <1>5, <2>1, DoFsetMaps, Zenon
  <2> QED
    BY <1>3, <2>1, <2>2, Zenon
<1>6. ASSUME NEW cmd \in FsetLines, DoFset(cmd, FALSE, TRUE) PROVE MapStep
  BY <1>5, <1>6, Zenon
<1>7. ASSUME NEW cmd \in SkippedFsets, DoFset(cmd, TRUE, FALSE) PROVE MapStep
  BY <1>5, <1>7, Zenon
<1>8. ASSUME NEW n \in FuncNames, DoFunset(n) PROVE MapStep
  <2>1. UNCHANGED UserFuncStack
    BY <1>8, Zenon DEF DoFunset
  <2> QED
    BY <1>1, <1>3, <1>8, <2>1, DoFunsetMaps, Zenon
<1>9. ASSUME NEW p \in Renames, DoFrename(p[1], p[2]) PROVE MapStep
  <2> DEFINE a == p[1]
             b == p[2]
  <2>1. a \in FuncNames /\ b \in FuncNames
    BY FunctionsAssumption
  <2>2. DoFrename(a, b) /\ UNCHANGED UserFuncStack
    BY <1>9, Zenon DEF DoFrename
  <2> HIDE DEF a, b
  <2> QED
    BY <1>1, <1>3, <2>1, <2>2, DoFrenameMaps, Zenon
<1>10. ASSUME NEW l \in FuncLists, PushUserFuncs(l) PROVE MapStep
  <2>1. l \in Seq(FuncNames)
    BY FunctionsAssumption
  <2>2. /\ FuncsNow' = FuncsNow
        /\ \/ UserFuncStack' = UserFuncStack
           \/ /\ ClonesNow' # << >> /\ Tail(ClonesNow') = ClonesNow
              /\ \A i \in DOMAIN Head(ClonesNow') : Maps!IsOf(Head(ClonesNow')[i], FuncsNow, "func")
    BY <1>1, <1>10, <2>1, PushUserFuncsMaps, Zenon
  <2>3. CASE UserFuncStack' = UserFuncStack
    BY <1>2, <2>2, <2>3, SameMaps, Zenon DEF MapStep, Maps!all
  <2>4. CASE UserFuncStack' # UserFuncStack
    BY <1>2, <2>2, <2>4, Zenon DEF MapStep, Maps!Next, Maps!PushFuncs
  <2> QED
    BY <2>3, <2>4
<1>11. ASSUME PopUserFuncs PROVE MapStep
  <2>1. /\ ClonesNow # << >> /\ ClonesNow' = Tail(ClonesNow)
        /\ FuncsNow' = Maps!Restored(FuncsNow, "func", Head(ClonesNow))
    BY <1>1, <1>4, <1>11, PopUserFuncsMaps, Zenon
  <2> QED
    BY <1>2, <2>1, Zenon DEF MapStep, Maps!Next, Maps!PopFuncs
<1> QED
  BY <1>6, <1>7, <1>8, <1>9, <1>10, <1>11, Zenon DEF FuncCommand

(* The next pass keeps the preserved variables, functions and translations.*)
LEMMA NewPassMaps ==
    ASSUME DefInv, PerIterationInit
    PROVE  Maps!NewPass
<1> DEFINE f == VarsNow
           g == VarsNow'
           old(m) == ValueIn(VHashTbl, m)
           new(m) == ValueIn(VHashTbl', m)
<1>1. /\ VHashTbl' = DestroyVars(VHashTbl) /\ VarStack' = << >> /\ UserFuncStack' = << >>
      /\ sysvars' = sysvars /\ TranslationTable' = TranslationTable /\ FuncHash' = FuncHash
  BY Zenon DEF PerIterationInit
<1>2. Keys(DedupeTable)' = {}
  BY NewPassKeeps, Zenon
<1>3. TransNow' = TransNow /\ FuncsNow' = FuncsNow
  BY <1>1, SameMaps, Zenon
<1>4. SavedNow' = << >>
  BY <1>1 DEF SavedNow
<1>5. ClonesNow' = << >>
  BY <1>1 DEF ClonesNow
<1>6. VHashTbl \in Vtables
  BY Zenon DEF DefInv, VariablesOK
<1>7. \A m \in DOMAIN HashVal : new(m) = IF old(m) # NULL /\ old(m).preserve THEN old(m) ELSE NULL
  <2>1. \A m \in DOMAIN HashVal :
           ValueIn(DestroyVars(VHashTbl), m) = IF old(m) # NULL /\ old(m).preserve THEN old(m) ELSE NULL
    BY <1>6, DestroyValues
  <2> QED
    BY <1>1, <2>1, Zenon
<1>8. f = [m \in Folded |-> old(m)] /\ g = [m \in Folded |-> new(m)]
  BY TheMaps, Zenon
<1> HIDE DEF f, g, old, new
<1>9. DOMAIN f = Folded /\ \A m \in Folded : f[m] = old(m)
  BY <1>8
<1>10. \A m \in Folded : new(m) = IF f[m] # NULL /\ f[m].preserve THEN f[m] ELSE NULL
  BY <1>7, <1>9, MapKeys
<1>11. g = [m \in DOMAIN f |-> IF f[m] # NULL /\ f[m].preserve THEN f[m] ELSE NULL]
  BY <1>8, <1>9, <1>10, Zenon
<1>12. VarsNow' = Maps!Kept(VarsNow)
  BY <1>11, Zenon DEF Maps!Kept, f, g
<1> QED
  BY <1>1, <1>2, <1>3, <1>4, <1>5, <1>12, Zenon DEF Maps!NewPass

(* Every step is a step of the maps, or changes none of them.              *)
LEMMA StepMaps ==
    ASSUME DefInv, [Next]_<<script, definitions>>
    PROVE  [Maps!Next]_(Maps!all)
<1>1. CASE (VarCommand \/ SysVarCommand) /\ UNCHANGED <<Functions, Issued, TopLevel>>
  BY <1>1, VarCommandsMap, Zenon DEF MapStep
<1>2. CASE FuncCommand /\ UNCHANGED <<Variables, Issued, TopLevel>>
  BY <1>2, FuncCommandsMap, Zenon DEF MapStep
<1>3. CASE TransCommand /\ UNCHANGED <<VHashTbl, VarStack, sysvars, Functions, Issued, TopLevel>>
  <2>1. /\ VarsNow' = VarsNow /\ SavedNow' = SavedNow /\ sysvars' = sysvars /\ FuncsNow' = FuncsNow
        /\ ClonesNow' = ClonesNow /\ Keys(DedupeTable)' = Keys(DedupeTable)
    BY <1>3, SameMaps, Zenon DEF Functions, Issued
  <2>2. TranslationTable \in SafeTables
    BY Zenon DEF DefInv, VariablesOK
  <2>3. \/ Maps!OneDiffers(TransNow, TransNow')
        \/ TransNow' = [o \in DOMAIN TransNow |-> IF o = <<"LANGID">> THEN <<"en">> ELSE o]
    BY <1>3, <2>2, TransCommandMaps, Zenon
  <2> QED
    BY <2>1, <2>3, Zenon DEF Maps!Next, Maps!Translate, Maps!TranslateNothing
<1>4. CASE (\E r \in Reminders : IssueOnce(r) \/ Suppress(r)) /\ UNCHANGED <<Variables, Functions, TopLevel>>
  <2>1. /\ VarsNow' = VarsNow /\ SavedNow' = SavedNow /\ TransNow' = TransNow /\ sysvars' = sysvars
        /\ FuncsNow' = FuncsNow /\ ClonesNow' = ClonesNow
    BY <1>4, SameMaps, Zenon DEF Variables, Functions
  <2>2. ASSUME NEW r \in Reminders, IssueOnce(r) PROVE Maps!Next
    <3> DEFINE seen == Keys(DedupeTable)
               now == Keys(DedupeTable)'
    <3>1. now = seen \cup {r} /\ r \notin seen
      BY <2>2, IssueOnceKeeps, Zenon DEF DefInv
    <3> HIDE DEF seen, now
    <3>2. r \in now \ seen
      BY <3>1
    <3>3. \E x \in now \ seen : now = seen \cup {x}
      BY <3>1, <3>2, Zenon
    <3> QED
      BY <2>1, <3>3, Zenon DEF Maps!Next, Maps!Issue, now, seen
  <2>3. ASSUME NEW r \in Reminders, Suppress(r) PROVE UNCHANGED Maps!all
    <3>1. Keys(DedupeTable)' = Keys(DedupeTable)
      BY <2>3, SameMaps, Zenon DEF Suppress
    <3> QED
      BY <2>1, <3>1, Zenon DEF Maps!all
  <2> QED
    BY <1>4, <2>2, <2>3, Zenon
<1>5. CASE PerIterationInit
  BY <1>5, NewPassMaps, Zenon DEF Maps!Next
<1>6. CASE \/ OtherFile /\ UNCHANGED <<Variables, Functions, Issued>>
           \/ UNCHANGED <<script, definitions>>
  <2>1. UNCHANGED <<VHashTbl, VarStack, sysvars, TranslationTable, FuncHash, UserFuncStack, DedupeTable>>
    BY <1>6, Zenon DEF Variables, Functions, Issued, definitions
  <2>2. /\ VarsNow' = VarsNow /\ SavedNow' = SavedNow /\ TransNow' = TransNow /\ sysvars' = sysvars
        /\ FuncsNow' = FuncsNow /\ ClonesNow' = ClonesNow /\ Keys(DedupeTable)' = Keys(DedupeTable)
    BY <2>1, SameMaps, Zenon
  <2> QED
    BY <2>2, Zenon DEF Maps!all
<1> QED
  BY <1>1, <1>2, <1>3, <1>4, <1>5, <1>6, Zenon DEF Next

(* At first the maps are empty.                                            *)
LEMMA InitMaps == Init => Maps!Init
<1> SUFFICES ASSUME Init PROVE Maps!Init
  OBVIOUS
<1>1. VHashTbl = hash_table_init /\ VarStack = << >> /\ FuncHash = hash_table_init /\ UserFuncStack = << >>
      /\ DedupeTable = hash_table_init
  BY Zenon DEF Init, InitVars, InitUserFunctions, InitDedupeTable
<1>2. SavedNow = << >>
  BY <1>1 DEF SavedNow
<1>3. ClonesNow = << >>
  BY <1>1 DEF ClonesNow
<1>4. Keys(DedupeTable) = {}
  <2>1. Items(hash_table_init) = {}
    BY EmptyTable, Zenon
  <2> QED
    BY <1>1, <2>1 DEF Keys
<1>5. \A n \in DOMAIN VarsNow : VarsNow[n] = NULL
  <2> DEFINE f == VarsNow
  <2>1. f = [k \in Folded |-> ValueIn(VHashTbl, k)]
    BY TheMaps, Zenon
  <2>2. \A k \in Folded : ValueIn(VHashTbl, k) = NULL
    BY <1>1, MapKeys, NothingFound DEF ValueIn, DataOf
  <2> HIDE DEF f
  <2>3. \A n \in DOMAIN f : f[n] = NULL
    BY <2>1, <2>2
  <2> QED
    BY <2>3 DEF f
<1>6. \A n \in DOMAIN FuncsNow : FuncsNow[n] = NULL
  <2> DEFINE f == FuncsNow
  <2>1. f = [k \in FuncKeys |-> BodyIn(FuncHash, k)]
    BY TheMaps, Zenon
  <2>2. \A k \in FuncKeys : BodyIn(FuncHash, k) = NULL
    <3>1. \A k \in FuncKeys : hash_table_find(FuncHash, k) = NULL
      BY <1>1, MapKeys, NothingFound
    <3> QED
      BY <3>1, Zenon DEF BodyIn, Body, DataOf
  <2> HIDE DEF f
  <2>3. \A n \in DOMAIN f : f[n] = NULL
    BY <2>1, <2>2
  <2> QED
    BY <2>3 DEF f
<1> QED
  BY <1>2, <1>3, <1>4, <1>5, <1>6, Zenon DEF Maps!Init

(* The tables and stacks implement maps.                                   *)
THEOREM DefinitionsImplementMaps == Spec => ImplementsMaps
BY InitMaps, StepMaps, DefinitionsInvariant, PTL DEF Spec, ImplementsMaps, Maps!Spec
=============================================================================
