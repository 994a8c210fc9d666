----------------------------- MODULE HashTable -----------------------------
(***************************************************************************)
(* hashtab.c: the chained hash table under the variables, the functions,   *)
(* the translations and the issued reminders.  An item is linked into the  *)
(* chain of its hash value, which it keeps; the bucket array grows and     *)
(* shrinks through bucket_choices.                                         *)
(***************************************************************************)
EXTENDS Integers, FiniteSets, Sequences, SequencesExt

CONSTANTS bucket_choices, \* the numbers of buckets, ascending
          HashVal         \* the hash value of every key

\* The choices are not empty and grow, each to at most four times the one before.
ASSUME HashAssumption ==
    /\ bucket_choices \in Seq(Nat \ {0}) /\ bucket_choices # << >>
    /\ \A c \in 1 .. Len(bucket_choices) - 1 :
         bucket_choices[c] < bucket_choices[c + 1] /\ bucket_choices[c + 1] <= 4 * bucket_choices[c]
    /\ \A k \in DOMAIN HashVal : HashVal[k] \in Nat

NULL == [null |-> TRUE]

Entry(key, data) == [key |-> key, hashval |-> HashVal[key], data |-> data]

NumBuckets(t) == bucket_choices[t.choice]
Bucket(hashval, n) == (hashval % n) + 1
BucketOf(t, hashval) == Bucket(hashval, NumBuckets(t))

Empty(n) == [j \in 1 .. n |-> << >>]
hash_table_init == [choice |-> 1, num_entries |-> 0, buckets |-> Empty(bucket_choices[1])]

\* Everything in the table, and the keys it is found by.
ItemsIn(buckets) == UNION {ToSet(buckets[j]) : j \in DOMAIN buckets}
Items(t) == ItemsIn(t.buckets)
Keys(t) == {e.key : e \in Items(t)}

\* Of n buckets, one gets an item as the head of its chain.
AtHead(buckets, n, e) == [buckets EXCEPT ![Bucket(e.hashval, n)] = <<e>> \o @]

\* The n buckets after the items of a chain, from its head, were moved to them.
MoveChain(buckets, n, chain) ==
    LET moved[i \in 0 .. Len(chain)] == IF i = 0 THEN buckets ELSE AtHead(moved[i - 1], n, chain[i])
    IN  moved[Len(chain)]

\* The n buckets after the first chains of a table were moved to them, one after the other.
MoveChains(t, n, chains) ==
    LET moved[j \in 0 .. chains] ==
            IF j = 0 THEN Empty(n) ELSE MoveChain(moved[j - 1], n, t.buckets[j])
    IN  moved[chains]

\* The last chain is not moved.
FaultyResize(t, dir) ==
    IF t.choice + dir \notin DOMAIN bucket_choices THEN t
    ELSE LET n == bucket_choices[t.choice + dir]
         IN  [t EXCEPT !.choice = @ + dir, !.buckets = MoveChains(t, n, NumBuckets(t) - 1)]

hash_table_resize(t, dir) ==
    IF t.choice + dir \notin DOMAIN bucket_choices THEN t
    ELSE LET n == bucket_choices[t.choice + dir]
         IN  [t EXCEPT !.choice = @ + dir, !.buckets = MoveChains(t, n, NumBuckets(t))]

Linked(t, e) == [t EXCEPT !.buckets = AtHead(@, NumBuckets(t), e), !.num_entries = @ + 1]

hash_table_insert(t, key, data) ==
    LET u == Linked(t, Entry(key, data))
    IN  IF u.num_entries > 2 * NumBuckets(u) THEN hash_table_resize(u, 1) ELSE u

hash_table_find(t, key) ==
    LET chain == t.buckets[BucketOf(t, HashVal[key])]
        Equal(i) == chain[i].key = key
    IN  IF \A i \in DOMAIN chain : ~ Equal(i) THEN NULL
        ELSE chain[CHOOSE i \in DOMAIN chain : Equal(i) /\ \A k \in 1 .. i - 1 : ~ Equal(k)]

Place(chain, e) == Min({i \in DOMAIN chain : chain[i] = e})

\* An item is looked for in the chain of the hash value it was inserted with.
Unlinked(t, e) ==
    LET j == BucketOf(t, e.hashval)
    IN  IF e \in ToSet(t.buckets[j])
        THEN [t EXCEPT !.buckets[j] = RemoveAt(@, Place(@, e)), !.num_entries = @ - 1]
        ELSE t

hash_table_delete_no_resize(t, e) == Unlinked(t, e)

hash_table_delete(t, e) ==
    LET u == Unlinked(t, e)
    IN  IF u.num_entries < t.num_entries /\ u.choice > 1 /\ u.num_entries < NumBuckets(u) \div 2
        THEN hash_table_resize(u, -1) ELSE u

\* The holder of a pointer to an item changes it where it is.
Update(t, e, data) ==
    [t EXCEPT !.buckets[BucketOf(t, e.hashval)] =
        [i \in DOMAIN @ |-> IF @[i] = e THEN [e EXCEPT !.data = data] ELSE @[i]]]

(* The iterator: the next of the chain, else the head of the next chain    *)
(* that is not empty.                                                      *)
FirstFrom(t, j) ==
    LET nonempty == {i \in j .. NumBuckets(t) : t.buckets[i] # << >>}
    IN  IF nonempty = {} THEN NULL ELSE Head(t.buckets[Min(nonempty)])

hash_table_next(t, cur) ==
    IF cur = NULL THEN FirstFrom(t, 1)
    ELSE LET j == BucketOf(t, cur.hashval)
             chain == t.buckets[j]
             at == Place(chain, cur)
         IN  IF at < Len(chain) THEN chain[at + 1] ELSE FirstFrom(t, j + 1)

(* Deletes all items but the kept, fetching the successor before each      *)
(* deletion: the table and the item at hand after each round.              *)
DeleteAllBut(t, kept) ==
    LET loop[i \in 0 .. t.num_entries] ==
            IF i = 0 THEN [table |-> t, item |-> hash_table_next(t, NULL)]
            ELSE LET at == loop[i - 1]
                 IN  IF at.item = NULL THEN at
                     ELSE [table |-> IF at.item.key \in kept THEN at.table
                                     ELSE hash_table_delete_no_resize(at.table, at.item),
                           item  |-> hash_table_next(at.table, at.item)]
    IN  loop[t.num_entries].table

-----------------------------------------------------------------------------
(* What every user of a table relies on: an item is in the chain its key   *)
(* hashes to, once; the count is the number of items; and the chains stay  *)
(* short: at most twice as many items as buckets, as long as there is a    *)
(* larger size to go to.                                                   *)
InPlace(t) ==
    /\ DOMAIN t.buckets = 1 .. NumBuckets(t)
    /\ \A j \in DOMAIN t.buckets : \A i, k \in DOMAIN t.buckets[j] :
         LET e == t.buckets[j][i]
         IN  /\ e.hashval = HashVal[e.key] /\ BucketOf(t, e.hashval) = j
             /\ e.key = t.buckets[j][k].key => i = k
    /\ t.num_entries = Cardinality(Items(t))
    /\ t.num_entries <= 2 * NumBuckets(t) \/ t.choice = Len(bucket_choices)

(* A loop over the iterator sees each item, and then, after as many rounds *)
(* as there are items, the end.                                            *)
SeesEachItem(t) ==
    LET seen[i \in 0 .. t.num_entries] ==
            IF i = 0 THEN hash_table_next(t, NULL)
            ELSE LET e == seen[i - 1] IN IF e = NULL THEN NULL ELSE hash_table_next(t, e)
    IN  /\ {seen[i] : i \in 0 .. t.num_entries - 1} = Items(t)
        /\ seen[t.num_entries] = NULL

WellFormed(t) == InPlace(t) /\ SeesEachItem(t)

=============================================================================
