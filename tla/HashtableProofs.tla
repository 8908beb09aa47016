-------------------------- MODULE HashtableProofs --------------------------
(***************************************************************************)
(* Proofs about Hashtable, for any set of keys, any hashes and any size.   *)
(* An entry is where its variance says it is, and every bucket between its *)
(* home and its own has been used, which is why a search passes them all.  *)
(* That a carried entry keeps this true wherever it is stored follows from *)
(* the buckets that its insertion has passed: all of them hold entries.    *)
(* As the table is resized at three quarters, one bucket at least holds    *)
(* none, and so the insertion ends.                                        *)
(***************************************************************************)
EXTENDS Hashtable, FiniteSetTheorems, TLAPS

(* What a bucket, or a local variable with an entry, may hold.             *)
Entries == [value : Key \cup {NoKey}, hash : Nat, variance : Nat]
(* A resize has doubled the size.                                          *)
OldSize == IF Resizing THEN size \div 2 ELSE 0

(* How many buckets are filled before the table is resized.                *)
Threshold(n) == n - (n \div 4)

Types ==
    /\ size \in Nat \ {0} /\ used \in Int
    /\ values \in [0 .. size - 1 -> Entries]
    /\ contents \in SUBSET Key
    /\ carried \in Entries /\ index \in 0 .. size - 1 /\ turns \in 0 .. size - 1
    /\ pending \in Key \cup {NoKey}
    /\ old \in [0 .. OldSize - 1 -> Entries] /\ moved \in 0 .. OldSize
    /\ walk \in {"none", "apply", "clear"} /\ cursor \in 0 .. size /\ calling \in BOOLEAN
    /\ owed \in SUBSET Key /\ calls \in [Key -> Nat]

(* e buckets back.                                                         *)
Back(i, e, n) == IF e <= i THEN i - e ELSE i - e + n

(* Every entry is stored under its own hash.                               *)
Hashed(b) == b.value # NoKey => b.hash = Hash[b.value]
AllHashed ==
    /\ \A i \in DOMAIN values : Hashed(values[i])
    /\ \A i \in DOMAIN old : Hashed(old[i])
    /\ Hashed(carried)

(* The old buckets that a resize has still to move.                        *)
Waiting == {i \in DOMAIN old : moved <= i /\ old[i].value # NoKey}
InStored(k) == \E i \in Stored : values[i].value = k
InWaiting(k) == \E i \in Waiting : old[i].value = k

(* An entry of the table is in one place: a bucket, an old bucket, the     *)
(* locals of insert_direct or those of the caller of resize.               *)
Once ==
    /\ \A i, j \in Stored : values[i].value = values[j].value => i = j
    /\ \A i, j \in Waiting : old[i].value = old[j].value => i = j
    /\ \A i \in Stored : values[i].value # carried.value /\ values[i].value # pending
    /\ \A i \in Waiting : old[i].value # carried.value /\ old[i].value # pending
    /\ \A i \in Stored, j \in Waiting : values[i].value # old[j].value
    /\ Carrying => carried.value # pending

Whole ==
    \A k \in Key :
        k \in contents <=> InStored(k) \/ InWaiting(k) \/ k = carried.value \/ k = pending

(* There is room for all of them.                                          *)
Roomy == IsFiniteSet(contents) /\ Cardinality(contents) <= Threshold(size)
Counted == walk # "clear" => used = Cardinality(Stored)

(* An entry is found where its variance says, and on the way there no      *)
(* search ends.                                                            *)
Distance ==
    \A i \in Stored :
        /\ values[i].variance < size
        /\ Slot(Home(values[i].value, size), values[i].variance, size) = i

Reached == {i \in DOMAIN values : ~NeverUsed(values[i])}
Paths ==
    walk # "clear" =>
        \A i \in Stored : \A e \in 0 .. values[i].variance - 1 :
            Slot(Home(values[i].value, size), e, size) \in Reached

(* The insertion has come to its bucket over buckets that are all in use.  *)
Behind ==
    Carrying =>
        /\ carried.variance <= turns
        /\ Slot(Home(carried.value, size), carried.variance, size) = index
        /\ \A e \in 1 .. turns : Back(index, e, size) \in Stored

(* Insertions and walks exclude each other.                                *)
Idle ==
    /\ Inserting => walk = "none"
    /\ walk = "none" => cursor = 0 /\ ~calling /\ calls = [k \in Key |-> 0]
    /\ calling => cursor < size

(* How often an entry has been called back.                                *)
Times(b) == IF b THEN 1 ELSE 0

(* apply() has called back the entries behind the cursor.                  *)
Applied ==
    walk = "apply" =>
        /\ owed = contents
        /\ \A i \in Stored :
              calls[values[i].value] = Times(i < cursor \/ (i = cursor /\ calling))

(* clear() leaves an entry either stored, ahead of the cursor, or          *)
(* destroyed.                                                              *)
Clearing ==
    walk = "clear" =>
        /\ calling => values[cursor].value # NoKey
        /\ \A i \in Stored : i >= cursor
        /\ \A i \in Stored : calls[values[i].value] = Times(i = cursor /\ calling)
        /\ \A k \in owed \ contents : calls[k] = 1

AtMostOnce == \A k \in Key : calls[k] <= 1

(* Of the buckets and the insertion, and of the walk.                      *)
Table == AllHashed /\ Once /\ Whole /\ Roomy /\ Distance /\ Behind
Walked == Idle /\ Applied /\ Clearing /\ AtMostOnce
Inv == Types /\ Table /\ Counted /\ Paths /\ Walked

-----------------------------------------------------------------------------
(* Arithmetic of the buckets.                                              *)

LEMMA HomeType ==
    ASSUME NEW k \in Key, NEW n \in Nat \ {0}
    PROVE  Home(k, n) \in 0 .. n - 1
  BY KeyAssumption DEF Home

LEMMA SlotType ==
    ASSUME NEW n \in Nat \ {0}, NEW i \in 0 .. n - 1, NEW d \in 0 .. n
    PROVE  Slot(i, d, n) \in 0 .. n - 1
  BY DEF Slot

LEMMA BackType ==
    ASSUME NEW n \in Nat \ {0}, NEW i \in 0 .. n - 1, NEW d \in 0 .. n
    PROVE  Back(i, d, n) \in 0 .. n - 1
  BY DEF Back

(* One bucket further.                                                     *)
LEMMA SlotNext ==
    ASSUME NEW n \in Nat \ {0}, NEW i \in 0 .. n - 1, NEW d \in 0 .. n - 1
    PROVE  Slot(Slot(i, d, n), 1, n) = Slot(i, d + 1, n)
  BY DEF Slot

(* The buckets on the way to a bucket are the ones behind it.              *)
LEMMA SlotBehind ==
    ASSUME NEW n \in Nat \ {0}, NEW i \in 0 .. n - 1, NEW d \in 0 .. n - 1,
           NEW e \in 0 .. d - 1
    PROVE  /\ d - e \in 1 .. d
           /\ Slot(i, e, n) = Back(Slot(i, d, n), d - e, n)
  BY DEF Slot, Back

LEMMA BackNext ==
    ASSUME NEW n \in Nat \ {0}, NEW i \in 0 .. n - 1, NEW e \in 1 .. n - 1
    PROVE  /\ Back(Slot(i, 1, n), e, n) = Back(i, e - 1, n)
           /\ Back(i, 0, n) = i
  BY DEF Slot, Back

(* All buckets are behind a bucket, or are that bucket.                    *)
LEMMA BackReaches ==
    ASSUME NEW n \in Nat \ {0}, NEW i \in 0 .. n - 1, NEW j \in 0 .. n - 1
    PROVE  \E e \in 0 .. n - 1 : Back(i, e, n) = j
  <1>1. CASE j <= i
    <2>1. i - j \in 0 .. n - 1 /\ Back(i, i - j, n) = j
      BY <1>1 DEF Back
    <2> QED BY <2>1
  <1>2. CASE j > i
    <2>1. i - j + n \in 0 .. n - 1 /\ Back(i, i - j + n, n) = j
      BY <1>2 DEF Back
    <2> QED BY <2>1
  <1> QED BY <1>1, <1>2

LEMMA ThresholdDoubles ==
    ASSUME NEW n \in Nat \ {0}
    PROVE  /\ Threshold(n) \in 1 .. n
           /\ Threshold(n) + 1 <= Threshold(2 * n)
           /\ (2 * n) \div 2 = n
           /\ Threshold(2 * n) \in Nat
  BY DEF Threshold

-----------------------------------------------------------------------------
(* Counting.                                                               *)

LEMMA FewerThan ==
    ASSUME NEW S, NEW T, NEW x \in T, IsFiniteSet(T),
           NEW f \in Injection(S, T \ {x})
    PROVE  IsFiniteSet(S) /\ Cardinality(S) < Cardinality(T)
  <1>1. IsFiniteSet(T \ {x}) /\ Cardinality(T \ {x}) = Cardinality(T) - 1
    BY FS_RemoveElement
  <1>2. IsFiniteSet(S) /\ Cardinality(S) <= Cardinality(T \ {x})
    BY <1>1, FS_Injection
  <1>3. Cardinality(S) \in Nat /\ Cardinality(T) \in Nat
    BY <1>2, FS_CardinalityType
  <1> QED BY <1>1, <1>2, <1>3

LEMMA StoredFinite ==
    ASSUME Types
    PROVE  /\ IsFiniteSet(Stored)
           /\ Stored \subseteq 0 .. size - 1
           /\ Cardinality(0 .. size - 1) = size
  <1>1. Stored \subseteq 0 .. size - 1
    BY DEF Types, Stored
  <1>2. size \in Nat \ {0}
    BY DEF Types
  <1>3. IsFiniteSet(0 .. size - 1) /\ Cardinality(0 .. size - 1) = size
    BY <1>2, FS_Interval
  <1> QED BY <1>1, <1>3, FS_Subset

-----------------------------------------------------------------------------
(* The entries have the types the walks and insertions rely on.            *)

LEMMA BucketTypes ==
    /\ EmptyBucket \in Entries /\ Tombstone \in Entries
    /\ \A k \in Key \cup {NoKey}, h \in Nat, v \in Nat : Bucket(k, h, v) \in Entries
  BY DEF EmptyBucket, Tombstone, Bucket, Entries

LEMMA CarryTypes ==
    ASSUME Types, NEW k \in Key, NEW h \in Nat, Carry(k, h)
    PROVE  carried' \in Entries /\ index' \in 0 .. size - 1 /\ turns' \in 0 .. size - 1
  <1>1. carried' \in Entries
    BY BucketTypes DEF Carry
  <1>2. size \in Nat \ {0}
    BY DEF Types
  <1>3. h % size \in 0 .. size - 1
    BY <1>2
  <1> QED BY <1>1, <1>2, <1>3 DEF Carry

LEMMA OldSizeKept ==
    ASSUME UNCHANGED <<size, pending>>
    PROVE  OldSize' = OldSize
  BY DEF OldSize, Resizing

LEMMA InitTypes == Init => Types
  <1> SUFFICES ASSUME Init PROVE Types
    OBVIOUS
  <1>1. OldSize = 0
    BY DEF Init, OldSize, Resizing
  <1>2. InitSize \in Nat \ {0}
    BY SizeAssumption
  <1>3. values \in [0 .. size - 1 -> Entries]
    BY <1>2, BucketTypes DEF Init, EmptyTable
  <1>4. old \in [0 .. OldSize - 1 -> Entries]
    BY <1>1, BucketTypes DEF Init, EmptyTable
  <1>5. size \in Nat \ {0} /\ used \in Int /\ contents \in SUBSET Key
    BY <1>2 DEF Init
  <1>6. carried \in Entries /\ index \in 0 .. size - 1 /\ turns \in 0 .. size - 1
    BY <1>2, BucketTypes DEF Init
  <1>7. pending \in Key \cup {NoKey} /\ moved \in 0 .. OldSize
    BY <1>1 DEF Init
  <1>8. walk = "none" /\ cursor = 0 /\ calling = FALSE /\ owed = {}
    BY DEF Init
  <1>9. calls \in [Key -> Nat]
    BY DEF Init
  <1>10. cursor \in 0 .. size
    BY <1>5, <1>8
  <1>11. calling \in BOOLEAN
    BY <1>8
  <1>12. walk \in {"none", "apply", "clear"} /\ owed \in SUBSET Key
    BY <1>8
  <1> QED BY <1>3, <1>4, <1>5, <1>6, <1>7, <1>9, <1>10, <1>11, <1>12 DEF Types

LEMMA InsertTypes ==
    ASSUME Types, NEW k \in Key, Insert(k)
    PROVE  Types'
  <1>1. CASE Full
    <2>1. size' = 2 * size /\ used' = 0 /\ values' = EmptyTable(2 * size)
          /\ old' = values /\ moved' = 0 /\ pending' = k
      BY <1>1 DEF Insert
    <2>2. UNCHANGED <<carried, index, turns, walk, cursor, calling, owed, calls>>
      BY <1>1 DEF Insert, carryVars, walkVars
    <2>3. OldSize' = size
      BY <2>1, KeyAssumption DEF OldSize, Resizing, Types
    <2>4. values' \in [0 .. size' - 1 -> Entries]
      BY <2>1, BucketTypes DEF EmptyTable
    <2>5. contents' \in SUBSET Key
      BY DEF Insert, Types
    <2>6. size \in Nat \ {0} /\ walk = "none"
      BY DEF Insert, Types
    <2>7. old' \in [0 .. OldSize' - 1 -> Entries] /\ moved' \in 0 .. OldSize'
      BY <2>1, <2>3, <2>6 DEF Types
    <2>8. index' \in 0 .. size' - 1 /\ turns' \in 0 .. size' - 1 /\ cursor' \in 0 .. size'
      BY <2>1, <2>2, <2>6 DEF Types
    <2> QED BY <2>1, <2>2, <2>4, <2>5, <2>6, <2>7, <2>8 DEF Types
  <1>2. CASE ~Full
    <2>1. Carry(k, Hash[k]) /\ UNCHANGED <<size, used, values, old, moved, pending>>
      BY <1>2 DEF Insert, resizeVars
    <2>2. UNCHANGED <<walk, cursor, calling, owed, calls>>
      BY DEF Insert, walkVars
    <2>3. Hash[k] \in Nat
      BY KeyAssumption
    <2>4. carried' \in Entries /\ index' \in 0 .. size - 1 /\ turns' \in 0 .. size - 1
      BY <2>1, <2>3, CarryTypes
    <2>5. contents' \in SUBSET Key
      BY DEF Insert, Types
    <2>6. OldSize' = OldSize
      BY <2>1, OldSizeKept
    <2> QED BY <2>1, <2>2, <2>4, <2>5, <2>6 DEF Types
  <1> QED BY <1>1, <1>2

LEMMA RepopulateTypes ==
    ASSUME Types, Repopulate
    PROVE  Types'
  <1>1. UNCHANGED <<size, used, values, contents, old, pending, walk, cursor, calling, owed, calls>>
    BY DEF Repopulate, walkVars
  <1>2. OldSize' = OldSize
    BY <1>1, OldSizeKept
  <1>3. moved \in 0 .. OldSize - 1 /\ moved' = moved + 1 /\ OldSize \in Nat
    BY DEF Repopulate, Types, OldSize
  <1>4. old[moved] \in Entries
    BY <1>3 DEF Types
  <1>5. carried' \in Entries /\ index' \in 0 .. size - 1 /\ turns' \in 0 .. size - 1
    <2>1. CASE old[moved].value # NoKey
      <3>1. old[moved].value \in Key /\ old[moved].hash \in Nat
        BY <1>4, <2>1 DEF Entries
      <3>2. Carry(old[moved].value, old[moved].hash)
        BY <2>1 DEF Repopulate
      <3> QED BY <3>1, <3>2, CarryTypes
    <2>2. CASE old[moved].value = NoKey
      BY <2>2 DEF Repopulate, carryVars, Types
    <2> QED BY <2>1, <2>2
  <1>6. moved' \in 0 .. OldSize
    BY <1>3
  <1> QED BY <1>1, <1>2, <1>5, <1>6 DEF Types

LEMMA RepopulatedTypes ==
    ASSUME Types, Repopulated
    PROVE  Types'
  <1>1. UNCHANGED <<size, used, values, contents, walk, cursor, calling, owed, calls>>
    BY DEF Repopulated, walkVars
  <1>2. old' = EmptyTable(0) /\ moved' = 0 /\ pending' = NoKey
    BY DEF Repopulated
  <1>3. OldSize' = 0
    BY <1>2 DEF OldSize, Resizing
  <1>4. old' \in [0 .. OldSize' - 1 -> Entries]
    BY <1>2, <1>3, BucketTypes DEF EmptyTable
  <1>5. pending \in Key
    BY DEF Repopulated, Resizing, Types
  <1>6. Hash[pending] \in Nat /\ Carry(pending, Hash[pending])
    BY <1>5, KeyAssumption DEF Repopulated
  <1>7. carried' \in Entries /\ index' \in 0 .. size - 1 /\ turns' \in 0 .. size - 1
    BY <1>5, <1>6, CarryTypes
  <1> QED BY <1>1, <1>2, <1>3, <1>4, <1>7 DEF Types

LEMMA PlaceTypes ==
    ASSUME Types, Place
    PROVE  Types'
  <1>1. UNCHANGED <<size, contents, old, moved, pending, walk, cursor, calling, owed, calls>>
    BY DEF Place, resizeVars, walkVars
  <1>2. OldSize' = OldSize
    BY <1>1, OldSizeKept
  <1>3. values' \in [0 .. size - 1 -> Entries]
    BY DEF Place, Types
  <1>4. carried' \in Entries /\ index' \in 0 .. size - 1 /\ turns' \in 0 .. size - 1
    BY BucketTypes DEF Place, Types
  <1>5. used' \in Int
    BY DEF Place, Types
  <1> QED BY <1>1, <1>2, <1>3, <1>4, <1>5 DEF Types

(* The loop ends before it has made as many turns as there are buckets.    *)
LEMMA PassTypes ==
    ASSUME Types, Pass, turns + 1 < size
    PROVE  Types'
  <1>1. UNCHANGED <<size, used, contents, old, moved, pending, walk, cursor, calling, owed, calls>>
    BY DEF Pass, resizeVars, walkVars
  <1>2. OldSize' = OldSize
    BY <1>1, OldSizeKept
  <1>3. size \in Nat \ {0} /\ index \in 0 .. size - 1 /\ values[index] \in Entries
    BY DEF Types
  <1>4. \A b \in Entries : Aged(b) \in Entries
    BY DEF Aged, Entries
  <1>5. values' \in [0 .. size - 1 -> Entries] /\ carried' \in Entries
    BY <1>3, <1>4 DEF Pass, Types
  <1>6. index' \in 0 .. size - 1
    BY <1>3, SlotType DEF Pass
  <1>7. turns' \in 0 .. size - 1
    BY DEF Pass, Types
  <1> QED BY <1>1, <1>2, <1>5, <1>6, <1>7 DEF Types

LEMMA WalkTypes ==
    ASSUME Types,
           \/ StartWalk("apply") \/ StartWalk("clear")
           \/ Call \/ Skip
    PROVE  Types'
  <1>1. UNCHANGED <<size, used, values, contents, carried, index, turns, old, moved, pending>>
    BY DEF StartWalk, Call, Skip, carryVars, resizeVars
  <1>2. OldSize' = OldSize
    BY <1>1, OldSizeKept
  <1>3. walk' \in {"none", "apply", "clear"} /\ calling' \in BOOLEAN
    BY DEF StartWalk, Call, Skip, Types
  <1>4. owed' \in SUBSET Key
    BY DEF StartWalk, Call, Skip, Types
  <1>5. cursor' \in 0 .. size
    BY DEF StartWalk, Call, Skip, Types
  <1>6. calls' \in [Key -> Nat]
    <2>1. CASE Call
      <3>1. cursor \in 0 .. size - 1
        BY <2>1 DEF Call, Types
      <3>2. values[cursor].value \in Key
        BY <2>1, <3>1 DEF Call, Types, Entries
      <3> QED BY <2>1, <3>2 DEF Call, Types
    <2> QED BY <2>1 DEF StartWalk, Skip, Types
  <1> QED BY <1>1, <1>2, <1>3, <1>4, <1>5, <1>6 DEF Types

LEMMA SettleTypes ==
    ASSUME Types, Settle, cursor < size
    PROVE  Types'
  <1>1. UNCHANGED <<size, used, carried, index, turns, old, moved, pending, walk, owed, calls>>
    BY DEF Settle, carryVars, resizeVars
  <1>2. OldSize' = OldSize
    BY <1>1, OldSizeKept
  <1>3. values' \in [0 .. size - 1 -> Entries]
    BY BucketTypes DEF Settle, Types, Cleared
  <1>4. contents' \in SUBSET Key
    BY DEF Settle, Types
  <1>5. cursor' = cursor + 1 /\ calling' = FALSE
    BY DEF Settle
  <1>6. cursor' \in 0 .. size
    BY <1>5 DEF Types
  <1> QED BY <1>1, <1>2, <1>3, <1>4, <1>5, <1>6 DEF Types

LEMMA EndWalkTypes ==
    ASSUME Types, EndWalk
    PROVE  Types'
  <1>1. UNCHANGED <<size, values, contents, carried, index, turns, old, moved, pending, calling>>
    BY DEF EndWalk, carryVars, resizeVars
  <1>2. OldSize' = OldSize
    BY <1>1, OldSizeKept
  <1>3. used' \in Int /\ walk' = "none" /\ cursor' \in 0 .. size
    BY DEF EndWalk, Types
  <1>4. owed' = {} /\ calls' \in [Key -> Nat]
    BY DEF EndWalk
  <1> QED BY <1>1, <1>2, <1>3, <1>4 DEF Types

-----------------------------------------------------------------------------
(* What the actions do to the buckets.                                     *)

LEMMA StoredTypes ==
    ASSUME Types
    PROVE  /\ size \in Nat \ {0} /\ DOMAIN values = 0 .. size - 1
           /\ Stored \subseteq 0 .. size - 1
           /\ Stored \subseteq Reached
           /\ \A i \in 0 .. size - 1 :
                 values[i] \in Entries /\ (i \in Stored <=> values[i].value # NoKey)
           /\ \A i \in Stored : values[i].value \in Key /\ values[i].variance \in Nat
  BY DEF Types, Stored, Reached, NeverUsed, Entries

LEMMA WaitingTypes ==
    ASSUME Types
    PROVE  /\ DOMAIN old = 0 .. OldSize - 1
           /\ Waiting \subseteq 0 .. OldSize - 1
           /\ \A i \in Waiting : old[i].value \in Key /\ old[i].hash \in Nat
  BY DEF Types, Waiting, Entries

(* Outside of an insertion everything is in the buckets.                   *)
LEMMA NothingElsewhere ==
    ASSUME Types, ~Inserting
    PROVE  Waiting = {} /\ carried.value = NoKey /\ pending = NoKey
  <1>1. carried.value = NoKey /\ pending = NoKey
    BY DEF Inserting, Carrying, Resizing
  <1>2. OldSize = 0
    BY <1>1 DEF OldSize, Resizing
  <1> QED BY <1>1, <1>2, WaitingTypes

LEMMA BucketsKept ==
    ASSUME UNCHANGED <<size, values>>
    PROVE  Stored' = Stored /\ Reached' = Reached
  BY DEF Stored, Reached, NeverUsed

LEMMA WaitingKept ==
    ASSUME UNCHANGED <<old, moved>>
    PROVE  Waiting' = Waiting
  BY DEF Waiting

(* A bucket is overwritten.                                                *)
LEMMA BucketWritten ==
    ASSUME Types, NEW i \in 0 .. size - 1, NEW b \in Entries,
           values' = [values EXCEPT ![i] = b], size' = size
    PROVE  /\ Stored' = IF b.value # NoKey THEN Stored \cup {i} ELSE Stored \ {i}
           /\ ~NeverUsed(b) => Reached \subseteq Reached'
           /\ values'[i] = b
           /\ \A j \in Stored \ {i} : values'[j] = values[j]
           /\ DOMAIN values' = 0 .. size - 1
           /\ values' \in [0 .. size - 1 -> Entries]
  <1>1. values' \in [0 .. size - 1 -> Entries] /\ values'[i] = b
        /\ \A j \in (0 .. size - 1) \ {i} : values'[j] = values[j]
    BY DEF Types
  <1>2. DOMAIN values' = 0 .. size - 1 /\ DOMAIN values = 0 .. size - 1
    BY <1>1 DEF Types
  <1>3. Stored' = IF b.value # NoKey THEN Stored \cup {i} ELSE Stored \ {i}
    <2>1. \A j : j \in Stored' <=> j \in 0 .. size - 1 /\ values'[j].value # NoKey
      BY <1>2 DEF Stored
    <2>2. \A j : j \in Stored <=> j \in 0 .. size - 1 /\ values[j].value # NoKey
      BY <1>2 DEF Stored
    <2> QED BY <1>1, <2>1, <2>2
  <1>4. ~NeverUsed(b) => Reached \subseteq Reached'
    <2>1. \A j : j \in Reached' <=> j \in 0 .. size - 1 /\ ~NeverUsed(values'[j])
      BY <1>2 DEF Reached, NeverUsed
    <2>2. \A j : j \in Reached <=> j \in 0 .. size - 1 /\ ~NeverUsed(values[j])
      BY <1>2 DEF Reached
    <2> QED BY <1>1, <2>1, <2>2
  <1>5. Stored \subseteq 0 .. size - 1
    BY <1>2 DEF Stored
  <1> QED BY <1>1, <1>2, <1>3, <1>4, <1>5

-----------------------------------------------------------------------------
(* What the search finds.                                                  *)

LEMMA SearchFinds ==
    ASSUME Types, Distance, Paths, walk # "clear", NEW i \in Stored
    PROVE  Search(values[i].value)
  <1> DEFINE k == values[i].value
             d == values[i].variance
             h == Home(k, size)
  <1>1. k \in Key /\ d \in Nat /\ size \in Nat \ {0}
    BY StoredTypes
  <1>2. d \in 0 .. size - 1 /\ Slot(h, d, size) = i
    BY <1>1 DEF Distance
  <1>3. At(k, d).value = k
    BY <1>2 DEF At
  <1>4. \A e \in 0 .. d - 1 : ~NeverUsed(At(k, e))
    <2>1. \A e \in 0 .. d - 1 : Slot(h, e, size) \in Reached
      BY DEF Paths
    <2>2. \A e \in 0 .. d - 1 : At(k, e) = values[Slot(h, e, size)]
      BY DEF At
    <2> QED BY <2>1, <2>2 DEF Reached
  <1>5. d \in FoundAt(k)
    BY <1>2, <1>3, <1>4 DEF FoundAt
  <1> QED BY <1>5 DEF Search

LEMMA SearchFound ==
    ASSUME Types, NEW k \in Key, NEW d \in FoundAt(k)
    PROVE  /\ Slot(Home(k, size), d, size) \in Stored
           /\ values[Slot(Home(k, size), d, size)].value = k
  <1>1. d \in 0 .. size - 1 /\ At(k, d).value = k /\ size \in Nat \ {0}
    BY StoredTypes DEF FoundAt
  <1>2. Slot(Home(k, size), d, size) \in 0 .. size - 1
    BY <1>1, HomeType, SlotType
  <1>3. k # NoKey
    BY KeyAssumption
  <1> QED BY <1>1, <1>2, <1>3, StoredTypes DEF At

LEMMA DeleteEffect ==
    ASSUME Types, NEW k \in Key, Delete(k)
    PROVE  \E i \in Stored : values[i].value = k /\ values' = [values EXCEPT ![i] = Tombstone]
  <1>1. PICK d \in FoundAt(k) :
            values' = [values EXCEPT ![Slot(Home(k, size), d, size)] = Tombstone]
    BY DEF Delete, DeletedBucket
  <1> QED BY <1>1, SearchFound

-----------------------------------------------------------------------------
(* The entries and the buckets are as many.                                *)

KeyAt == [i \in Stored |-> values[i].value]

LEMMA AsManyEntries ==
    ASSUME Types, Once, Whole, Counted, ~Inserting, walk # "clear",
           IsFiniteSet(contents)
    PROVE  used = Cardinality(contents)
  <1>1. Waiting = {} /\ carried.value = NoKey /\ pending = NoKey
    BY NothingElsewhere
  <1>2. \A k \in Key : k \in contents <=> InStored(k)
    BY <1>1, KeyAssumption DEF Whole, InWaiting
  <1>3. contents \subseteq Key /\ \A i \in Stored : values[i].value \in Key
    BY StoredTypes DEF Types
  <1>4. \A i \in Stored : values[i].value \in contents
    BY <1>2, <1>3 DEF InStored
  <1>5. KeyAt \in [Stored -> contents] /\ IsInjective(KeyAt)
    BY <1>4 DEF KeyAt, IsInjective, Once
  <1>6. \A k \in contents : \E i \in Stored : KeyAt[i] = k
    BY <1>2, <1>3 DEF KeyAt, InStored
  <1>7. KeyAt \in Bijection(Stored, contents)
    BY <1>5, <1>6 DEF Bijection, Injection, Surjection
  <1>8. Cardinality(Stored) = Cardinality(contents)
    BY <1>7, StoredFinite, FS_Bijection DEF ExistsBijection
  <1> QED BY <1>8 DEF Counted

(* While an entry is carried a bucket is free.                             *)
LEMMA BucketFree ==
    ASSUME Types, Once, Whole, Roomy, Carrying
    PROVE  \E i \in 0 .. size - 1 : i \notin Stored
  <1>1. carried.value \in Key /\ size \in Nat \ {0}
    BY DEF Types, Carrying, Entries
  <1>2. carried.value \in contents
    BY <1>1 DEF Whole
  <1>3. \A i \in Stored : values[i].value \in contents \ {carried.value}
    BY StoredTypes DEF Whole, Once, InStored
  <1>4. KeyAt \in Injection(Stored, contents \ {carried.value})
    BY <1>3 DEF KeyAt, Injection, IsInjective, Once
  <1>5. IsFiniteSet(contents) /\ Cardinality(contents) \in Nat
    BY FS_CardinalityType DEF Roomy
  <1>6. Cardinality(Stored) < Cardinality(contents)
    BY <1>2, <1>4, <1>5, FewerThan
  <1>7. Cardinality(contents) <= size
    BY <1>1, <1>5, ThresholdDoubles DEF Roomy
  <1>8. Cardinality(Stored) # size
    BY <1>1, <1>5, <1>6, <1>7
  <1>9. Stored # 0 .. size - 1
    BY <1>8, StoredFinite
  <1> QED BY <1>9, StoredTypes

-----------------------------------------------------------------------------
(* What an action leaves alone.                                            *)

LEMMA TableKept ==
    ASSUME Table,
           UNCHANGED <<size, values, contents, carried, index, turns, old, moved, pending>>
    PROVE  Table'
  <1>1. Stored' = Stored /\ Waiting' = Waiting
    BY BucketsKept, WaitingKept
  <1>2. AllHashed'
    BY DEF Table, AllHashed, Hashed
  <1>3. Once'
    BY <1>1 DEF Table, Once, Carrying
  <1>4. Whole'
    BY <1>1 DEF Table, Whole, InStored, InWaiting
  <1>5. Roomy'
    BY DEF Table, Roomy
  <1>6. Distance'
    BY <1>1 DEF Table, Distance
  <1>7. Behind'
    BY <1>1 DEF Table, Behind, Carrying
  <1> QED BY <1>2, <1>3, <1>4, <1>5, <1>6, <1>7 DEF Table

LEMMA CountKept ==
    ASSUME Counted, Paths, UNCHANGED <<size, used, values>>,
           walk' # "clear" => walk # "clear"
    PROVE  Counted' /\ Paths'
  <1>1. Stored' = Stored /\ Reached' = Reached
    BY BucketsKept
  <1>2. Counted'
    BY <1>1 DEF Counted
  <1>3. Paths'
    BY <1>1 DEF Paths
  <1> QED BY <1>2, <1>3

(* No walk is on its way while entries are inserted.                       *)
LEMMA WalkedKept ==
    ASSUME Walked, walk = "none", UNCHANGED walkVars
    PROVE  Walked'
  <1>1. UNCHANGED <<walk, cursor, calling, owed, calls>>
    BY DEF walkVars
  <1>2. ~calling
    BY DEF Walked, Idle
  <1>3. Idle'
    BY <1>1, <1>2 DEF Walked, Idle
  <1>4. Applied' /\ Clearing'
    BY <1>1 DEF Applied, Clearing
  <1>5. AtMostOnce'
    BY <1>1 DEF Walked, AtMostOnce
  <1> QED BY <1>3, <1>4, <1>5 DEF Walked

(* An entry that is taken up begins at its home.                           *)
LEMMA CarryBehind ==
    ASSUME size \in Nat \ {0}, size' = size, NEW k \in Key, Carry(k, Hash[k])
    PROVE  Behind' /\ Hashed(carried')
  <1>1. carried'.value = k /\ carried'.variance = 0 /\ turns' = 0 /\ index' = Home(k, size)
    BY DEF Carry, Bucket, Home
  <1>2. Home(k, size) \in 0 .. size - 1
    BY HomeType
  <1>3. Slot(Home(k, size), 0, size) = Home(k, size)
    BY <1>2 DEF Slot
  <1>4. Slot(Home(carried'.value, size'), carried'.variance, size') = index'
    BY <1>1, <1>3
  <1>5. Hashed(carried')
    BY DEF Carry, Bucket, Hashed
  <1> QED BY <1>1, <1>4, <1>5 DEF Behind

-----------------------------------------------------------------------------
(* Each action keeps the invariant.                                        *)

LEMMA InitInv == Init => Inv
  <1> SUFFICES ASSUME Init PROVE Inv
    OBVIOUS
  <1>1. Types
    BY InitTypes
  <1>2. carried.value = NoKey /\ pending = NoKey /\ ~Inserting
    BY DEF Init, EmptyBucket, Bucket, Inserting, Carrying, Resizing
  <1>3. Waiting = {}
    BY <1>1, <1>2, NothingElsewhere
  <1>4. \A i \in DOMAIN values : values[i].value = NoKey
    BY DEF Init, EmptyTable, EmptyBucket, Bucket
  <1>5. Stored = {}
    BY <1>4 DEF Stored
  <1>6. AllHashed
    <2>1. DOMAIN old = {}
      BY DEF Init, EmptyTable
    <2> QED BY <1>2, <1>4, <2>1 DEF AllHashed, Hashed
  <1>7. Once
    BY <1>2, <1>3, <1>5 DEF Once, Carrying
  <1>8. Whole
    BY <1>2, <1>3, <1>5, KeyAssumption DEF Whole, InStored, InWaiting, Init
  <1>9. Roomy
    BY FS_EmptySet, SizeAssumption, ThresholdDoubles DEF Roomy, Init
  <1>10. Distance /\ Behind
    BY <1>2, <1>5 DEF Distance, Behind, Carrying
  <1>11. Counted /\ Paths
    BY <1>5, FS_EmptySet DEF Counted, Paths, Init
  <1>12. Idle
    BY DEF Init, Idle
  <1>13. Applied /\ Clearing
    BY DEF Init, Applied, Clearing
  <1>14. AtMostOnce
    BY DEF Init, AtMostOnce
  <1>15. Table
    BY <1>6, <1>7, <1>8, <1>9, <1>10 DEF Table
  <1> QED BY <1>1, <1>11, <1>12, <1>13, <1>14, <1>15 DEF Inv, Walked

LEMMA InsertKeeps ==
    ASSUME Inv, NEW k \in Key, Insert(k)
    PROVE  Inv'
  <1> USE DEF Inv
  <1>1. Types' /\ Types
    BY InsertTypes
  <1>2. walk = "none" /\ ~Inserting /\ k \notin contents /\ contents' = contents \cup {k}
    BY DEF Insert
  <1>3. Waiting = {} /\ carried.value = NoKey /\ pending = NoKey
    BY <1>1, <1>2, NothingElsewhere
  <1>4. \A x \in Key : x \in contents <=> InStored(x)
    BY <1>3, KeyAssumption DEF Table, Whole, InWaiting
  <1>5. k # NoKey /\ size \in Nat \ {0} /\ \A i \in Stored : values[i].value \in Key \ {k}
    BY <1>1, <1>2, <1>4, StoredTypes, KeyAssumption DEF InStored
  <1>6. used = Cardinality(contents)
    BY <1>1, <1>2, AsManyEntries DEF Table, Roomy
  <1>7. IsFiniteSet(contents') /\ Cardinality(contents') = used + 1
    BY <1>2, <1>6, FS_AddElement DEF Table, Roomy
  <1>8. Walked'
    BY <1>2, WalkedKept DEF Insert
  <1>9. walk' = "none"
    BY <1>2 DEF Insert, walkVars
  <1>10. CASE Full
    <2>1. size' = 2 * size /\ used' = 0 /\ values' = EmptyTable(2 * size)
          /\ old' = values /\ moved' = 0 /\ pending' = k /\ carried' = carried
      BY <1>10 DEF Insert, carryVars
    <2>2. \A i \in DOMAIN values' : values'[i].value = NoKey
      BY <2>1 DEF EmptyTable, EmptyBucket, Bucket
    <2>3. Stored' = {}
      BY <2>2 DEF Stored
    <2>4. Waiting' = Stored
      BY <1>1, <2>1, StoredTypes DEF Waiting, Stored
    <2>5. AllHashed'
      BY <2>1, <2>2 DEF AllHashed, Table, Hashed
    <2>6. Once'
      BY <1>3, <1>5, <2>1, <2>3, <2>4 DEF Table, Once, Carrying
    <2>7. Whole'
      <3>1. \A x \in Key : InWaiting(x)' <=> InStored(x)
        BY <2>1, <2>4 DEF InWaiting, InStored
      <3>2. \A x \in Key : ~InStored(x)'
        BY <2>3 DEF InStored
      <3> QED BY <1>2, <1>3, <1>4, <2>1, <3>1, <3>2, KeyAssumption DEF Whole
    <2>8. Roomy'
      <3>1. used = Threshold(size)
        BY <1>10 DEF Full, Threshold
      <3> QED BY <1>5, <1>7, <2>1, <3>1, ThresholdDoubles DEF Roomy
    <2>9. Distance' /\ Behind'
      BY <1>3, <2>1, <2>3 DEF Distance, Behind, Carrying
    <2>10. Counted' /\ Paths'
      BY <2>1, <2>3, FS_EmptySet DEF Counted, Paths
    <2> QED BY <1>1, <1>8, <2>5, <2>6, <2>7, <2>8, <2>9, <2>10 DEF Table
  <1>11. CASE ~Full
    <2>1. Carry(k, Hash[k]) /\ UNCHANGED <<size, used, values, old, moved, pending>>
      BY <1>11 DEF Insert, resizeVars
    <2>2. Stored' = Stored /\ Waiting' = {}
      BY <1>3, <2>1, BucketsKept, WaitingKept
    <2>3. carried'.value = k
      BY <2>1 DEF Carry, Bucket
    <2>4. AllHashed'
      BY <1>5, <2>1, CarryBehind DEF Table, AllHashed, Hashed
    <2>5. Once'
      BY <1>3, <1>5, <2>1, <2>2, <2>3 DEF Table, Once, Carrying
    <2>6. Whole'
      <3>1. \A x \in Key : InStored(x)' <=> InStored(x)
        BY <2>1, <2>2 DEF InStored
      <3>2. \A x \in Key : ~InWaiting(x)'
        BY <2>2 DEF InWaiting
      <3> QED BY <1>2, <1>3, <1>4, <2>1, <2>3, <3>1, <3>2, KeyAssumption DEF Whole
    <2>7. Roomy'
      <3>1. used # Threshold(size) /\ used <= Threshold(size)
        BY <1>6, <1>11 DEF Full, Threshold, Table, Roomy
      <3>2. used \in Int
        BY <1>1 DEF Types
      <3>3. Threshold(size) \in 1 .. size
        BY <1>5, ThresholdDoubles
      <3>4. used + 1 <= Threshold(size)
        BY <1>5, <3>1, <3>2, <3>3
      <3> QED BY <1>7, <2>1, <3>4 DEF Roomy
    <2>8. Distance'
      BY <2>1, <2>2 DEF Table, Distance
    <2>9. Behind'
      BY <1>5, <2>1, CarryBehind
    <2>10. Counted' /\ Paths'
      BY <1>2, <2>1, CountKept
    <2> QED BY <1>1, <1>8, <2>4, <2>5, <2>6, <2>7, <2>8, <2>9, <2>10 DEF Table
  <1> QED BY <1>10, <1>11

LEMMA RepopulateKeeps ==
    ASSUME Inv, Repopulate
    PROVE  Inv'
  <1> USE DEF Inv
  <1>1. Types /\ Types'
    BY RepopulateTypes
  <1>2. /\ UNCHANGED <<size, used, values, contents, old, pending>>
        /\ UNCHANGED <<walk, cursor, calling, owed, calls>>
        /\ moved' = moved + 1 /\ moved \in DOMAIN old
    BY DEF Repopulate, walkVars
  <1>3. carried.value = NoKey /\ Inserting
    BY DEF Repopulate, Carrying, Inserting
  <1>4. walk = "none"
    BY <1>3 DEF Walked, Idle
  <1>5. Stored' = Stored
    BY <1>2, BucketsKept
  <1>6. moved \in Int /\ DOMAIN old \subseteq Int /\ size \in Nat \ {0}
    <2>1. OldSize \in Int
      BY <1>1 DEF OldSize, Types
    <2> QED BY <1>1, <2>1, WaitingTypes DEF Types
  <1>7. Waiting' = Waiting \ {moved}
    BY <1>2, <1>6 DEF Waiting
  <1>8. moved \in Waiting <=> old[moved].value # NoKey
    BY <1>2, <1>6 DEF Waiting
  <1>9. Walked'
    BY <1>2, <1>4, WalkedKept DEF walkVars
  <1>10. Counted' /\ Paths'
    BY <1>2, CountKept
  <1>11. Roomy' /\ Distance'
    BY <1>2, <1>5 DEF Table, Roomy, Distance
  <1>12. CASE old[moved].value # NoKey
    <2>1. moved \in Waiting /\ old[moved].value \in Key
      BY <1>1, <1>8, <1>12, WaitingTypes
    <2>2. Carry(old[moved].value, old[moved].hash)
      BY <1>12 DEF Repopulate
    <2>3. carried'.value = old[moved].value
      BY <2>2 DEF Carry, Bucket
    <2>4. old[moved].hash = Hash[old[moved].value]
      BY <1>2, <1>12 DEF Table, AllHashed, Hashed
    <2>5. Behind' /\ Hashed(carried')
      BY <1>2, <1>6, <2>1, <2>2, <2>4, CarryBehind
    <2>6. AllHashed'
      BY <1>2, <2>5 DEF Table, AllHashed, Hashed
    <2>7. Once'
      BY <1>2, <1>5, <1>7, <2>1, <2>3 DEF Table, Once, Carrying
    <2>8. Whole'
      <3>1. \A k \in Key : InStored(k)' <=> InStored(k)
        BY <1>2, <1>5 DEF InStored
      <3>2. \A k \in Key : InWaiting(k) <=> InWaiting(k)' \/ k = old[moved].value
        BY <1>2, <1>7, <2>1 DEF InWaiting
      <3> QED BY <1>2, <1>3, <2>3, <3>1, <3>2, KeyAssumption DEF Table, Whole
    <2> QED BY <1>1, <1>9, <1>10, <1>11, <2>5, <2>7, <2>8, <2>6 DEF Table
  <1>13. CASE old[moved].value = NoKey
    <2>1. UNCHANGED <<carried, index, turns>>
      BY <1>13 DEF Repopulate, carryVars
    <2>2. Waiting' = Waiting
      BY <1>7, <1>8, <1>13
    <2>3. Behind' /\ AllHashed'
      BY <1>2, <1>3, <2>1 DEF Table, AllHashed, Hashed, Behind, Carrying
    <2>4. Once'
      BY <1>2, <1>5, <2>1, <2>2 DEF Table, Once, Carrying
    <2>5. Whole'
      BY <1>2, <1>5, <2>1, <2>2 DEF Table, Whole, InStored, InWaiting
    <2> QED BY <1>1, <1>9, <1>10, <1>11, <2>3, <2>4, <2>5 DEF Table
  <1> QED BY <1>12, <1>13

LEMMA RepopulatedKeeps ==
    ASSUME Inv, Repopulated
    PROVE  Inv'
  <1> USE DEF Inv
  <1>1. Types /\ Types'
    BY RepopulatedTypes
  <1>2. /\ UNCHANGED <<size, used, values, contents>>
        /\ UNCHANGED <<walk, cursor, calling, owed, calls>>
        /\ old' = EmptyTable(0) /\ moved' = 0 /\ pending' = NoKey
    BY DEF Repopulated, walkVars
  <1>3. carried.value = NoKey /\ Inserting
    BY DEF Repopulated, Carrying, Inserting
  <1>4. walk = "none"
    BY <1>3 DEF Walked, Idle
  <1>5. Stored' = Stored
    BY <1>2, BucketsKept
  <1>6. pending \in Key /\ pending # NoKey /\ size \in Nat \ {0}
    BY <1>1 DEF Repopulated, Resizing, Types
  <1>7. Waiting = {}
    <2>1. OldSize \in Nat
      BY <1>1 DEF OldSize, Types
    <2>2. \A i \in DOMAIN old : ~(moved <= i)
      BY <1>1, <2>1, WaitingTypes DEF Repopulated, Types
    <2> QED BY <2>2 DEF Waiting
  <1>8. Waiting' = {} /\ DOMAIN old' = {}
    BY <1>2 DEF Waiting, EmptyTable
  <1>9. Carry(pending, Hash[pending])
    BY DEF Repopulated
  <1>10. carried'.value = pending
    BY <1>9 DEF Carry, Bucket
  <1>11. Walked'
    BY <1>2, <1>4, WalkedKept DEF walkVars
  <1>12. Counted' /\ Paths'
    BY <1>2, CountKept
  <1>13. Roomy' /\ Distance'
    BY <1>2, <1>5 DEF Table, Roomy, Distance
  <1>14. Behind' /\ Hashed(carried')
    BY <1>2, <1>6, <1>9, CarryBehind
  <1>15. AllHashed'
    BY <1>2, <1>8, <1>14 DEF Table, AllHashed, Hashed
  <1>16. Once'
    BY <1>2, <1>5, <1>6, <1>8, <1>10, StoredTypes, KeyAssumption DEF Table, Once, Carrying
  <1>17. Whole'
    <2>1. \A k \in Key : InStored(k)' <=> InStored(k)
      BY <1>2, <1>5 DEF InStored
    <2>2. \A k \in Key : ~InWaiting(k) /\ ~InWaiting(k)'
      BY <1>7, <1>8 DEF InWaiting
    <2> QED BY <1>2, <1>3, <1>10, <2>1, <2>2, KeyAssumption DEF Table, Whole
  <1> QED BY <1>1, <1>11, <1>12, <1>13, <1>14, <1>15, <1>16, <1>17 DEF Table

(* The way of the carried entry, once it is stored.                        *)
LEMMA CarriedPath ==
    ASSUME Types, Behind, Carrying
    PROVE  /\ carried.variance \in 0 .. size - 1
           /\ \A e \in 0 .. carried.variance - 1 :
                 Slot(Home(carried.value, size), e, size) \in Stored
  <1> DEFINE h == Home(carried.value, size)
             d == carried.variance
  <1>1. carried.value \in Key /\ d \in Nat /\ size \in Nat \ {0} /\ turns \in 0 .. size - 1
    BY DEF Types, Carrying, Entries
  <1>2. d <= turns /\ Slot(h, d, size) = index
        /\ \A e \in 1 .. turns : Back(index, e, size) \in Stored
    BY DEF Behind
  <1>3. d \in 0 .. size - 1 /\ h \in 0 .. size - 1
    BY <1>1, <1>2, HomeType
  <1>4. ASSUME NEW e \in 0 .. d - 1
        PROVE  Slot(h, e, size) \in Stored
    <2>1. d - e \in 1 .. d /\ Slot(h, e, size) = Back(index, d - e, size)
      BY <1>1, <1>2, <1>3, SlotBehind
    <2>2. d - e \in 1 .. turns
      BY <1>1, <1>2, <2>1
    <2> QED BY <1>2, <2>1, <2>2
  <1> QED BY <1>3, <1>4

(* Storing the carried entry in its bucket, which is empty or whose entry  *)
(* goes on.                                                                *)
LEMMA StoreCarried ==
    ASSUME Inv, Carrying, values' = [values EXCEPT ![index] = carried],
           UNCHANGED <<size, walk>>
    PROVE  /\ Stored' = Stored \cup {index}
           /\ values'[index] = carried
           /\ \A j \in Stored \ {index} : values'[j] = values[j]
           /\ Distance' /\ Paths'
  <1> USE DEF Inv
  <1>1. carried \in Entries /\ index \in 0 .. size - 1 /\ carried.value # NoKey
    BY DEF Types, Carrying
  <1>2. /\ Stored' = Stored \cup {index}
        /\ values'[index] = carried
        /\ Reached \subseteq Reached'
        /\ \A j \in Stored \ {index} : values'[j] = values[j]
    BY <1>1, BucketWritten DEF NeverUsed
  <1>3. /\ carried.variance \in 0 .. size - 1
        /\ \A e \in 0 .. carried.variance - 1 :
              Slot(Home(carried.value, size), e, size) \in Stored
    BY CarriedPath DEF Table
  <1>4. Slot(Home(carried.value, size), carried.variance, size) = index
    BY DEF Table, Behind
  <1>5. Distance'
    <2>1. size \in Nat \ {0}
      BY StoredTypes
    <2>2. carried.variance < size
      BY <1>3, <2>1
    <2> SUFFICES ASSUME NEW i \in Stored'
                 PROVE  /\ values'[i].variance < size
                        /\ Slot(Home(values'[i].value, size), values'[i].variance, size) = i
      BY DEF Distance
    <2>3. CASE i = index
      BY <1>2, <1>4, <2>2, <2>3
    <2>4. CASE i # index
      BY <1>2, <2>4 DEF Table, Distance
    <2> QED BY <2>3, <2>4
  <1>6. Stored \subseteq Reached
    BY StoredTypes
  <1>7. Paths'
    <2> SUFFICES ASSUME walk # "clear", NEW i \in Stored',
                        NEW e \in 0 .. values'[i].variance - 1
                 PROVE  Slot(Home(values'[i].value, size), e, size) \in Reached'
      BY DEF Paths
    <2>1. CASE i = index
      BY <1>2, <1>3, <1>6, <2>1
    <2>2. CASE i # index
      BY <1>2, <2>2 DEF Paths
    <2> QED BY <2>1, <2>2
  <1> QED BY <1>2, <1>5, <1>7

LEMMA PlaceKeeps ==
    ASSUME Inv, Place
    PROVE  Inv'
  <1> USE DEF Inv
  <1>1. Types /\ Types'
    BY PlaceTypes
  <1>2. /\ Carrying /\ values[index].value = NoKey
        /\ values' = [values EXCEPT ![index] = carried]
        /\ UNCHANGED <<size, contents, old, moved, pending>>
        /\ UNCHANGED <<walk, cursor, calling, owed, calls>>
        /\ used' = used + 1
    BY DEF Place, resizeVars, walkVars
  <1>3. carried'.value = NoKey
    BY DEF Place, EmptyBucket, Bucket
  <1>4. index \in 0 .. size - 1 /\ index \notin Stored
    BY <1>1, <1>2 DEF Types, Stored
  <1>5. walk = "none"
    BY <1>2 DEF Walked, Idle, Inserting
  <1>6. /\ Stored' = Stored \cup {index}
        /\ values'[index] = carried
        /\ \A j \in Stored : values'[j] = values[j]
        /\ Distance' /\ Paths'
    BY <1>2, <1>4, StoreCarried
  <1>7. Waiting' = Waiting
    BY <1>2, WaitingKept
  <1>8. carried.value \in Key /\ carried.value # NoKey
    BY <1>1, <1>2 DEF Carrying, Types, Entries
  <1>9. Walked'
    BY <1>2, <1>5, WalkedKept DEF walkVars
  <1>10. Roomy' /\ Behind'
    BY <1>2, <1>3 DEF Table, Roomy, Behind, Carrying
  <1>11. AllHashed'
    BY <1>1, <1>2, <1>3 DEF Table, AllHashed, Hashed, Types
  <1>12. Counted'
    <2>1. IsFiniteSet(Stored) /\ Cardinality(Stored \cup {index}) = Cardinality(Stored) + 1
      BY <1>1, <1>4, StoredFinite, FS_AddElement
    <2> QED BY <1>2, <1>5, <1>6, <2>1 DEF Counted
  <1>13. Once'
    <2>1. \A i, j \in Stored' : values'[i].value = values'[j].value => i = j
      BY <1>6 DEF Table, Once
    <2>2. \A i \in Stored' : values'[i].value # carried'.value /\ values'[i].value # pending
      BY <1>1, <1>2, <1>3, <1>6, <1>8, StoredTypes, KeyAssumption DEF Table, Once
    <2>3. \A i \in Waiting : old[i].value # carried'.value /\ old[i].value # pending
      BY <1>1, <1>3, WaitingTypes, KeyAssumption DEF Table, Once
    <2>4. \A i \in Stored', j \in Waiting : values'[i].value # old[j].value
      BY <1>6 DEF Table, Once
    <2> QED BY <1>2, <1>3, <1>7, <2>1, <2>2, <2>3, <2>4 DEF Table, Once, Carrying
  <1>14. Whole'
    <2>1. \A k \in Key : InStored(k)' <=> InStored(k) \/ k = carried.value
      BY <1>6 DEF InStored
    <2>2. \A k \in Key : InWaiting(k)' <=> InWaiting(k)
      BY <1>2, <1>7 DEF InWaiting
    <2> QED BY <1>2, <1>3, <2>1, <2>2, KeyAssumption DEF Table, Whole
  <1> QED BY <1>1, <1>6, <1>9, <1>10, <1>11, <1>12, <1>13, <1>14 DEF Table

LEMMA PassKeeps ==
    ASSUME Inv, Pass
    PROVE  Inv'
  <1> USE DEF Inv
  <1> DEFINE b == values[index]
  <1>1. /\ Carrying /\ b.value # NoKey
        /\ UNCHANGED <<size, used, contents, old, moved, pending>>
        /\ UNCHANGED <<walk, cursor, calling, owed, calls>>
        /\ index' = Slot(index, 1, size) /\ turns' = turns + 1
    BY DEF Pass, resizeVars, walkVars
  <1>2. /\ size \in Nat \ {0} /\ index \in 0 .. size - 1 /\ turns \in 0 .. size - 1
        /\ b \in Entries /\ carried \in Entries
    BY DEF Types
  <1>3. index \in Stored
    BY <1>1, <1>2 DEF Types, Stored
  <1>4. \A e \in 1 .. turns + 1 : turns + 1 < size => Back(index', e, size) \in Stored
    <2> SUFFICES ASSUME NEW e \in 1 .. turns + 1, turns + 1 < size
                 PROVE  Back(index', e, size) \in Stored
      OBVIOUS
    <2>1. e \in 1 .. size - 1
      BY <1>2
    <2>2. Back(index', e, size) = Back(index, e - 1, size) /\ Back(index, 0, size) = index
      BY <1>1, <1>2, <2>1, BackNext
    <2>3. CASE e = 1
      BY <1>3, <2>2, <2>3
    <2>4. CASE e # 1
      <3>1. e - 1 \in 1 .. turns
        BY <1>2, <2>4
      <3> QED BY <1>1, <2>2, <3>1 DEF Table, Behind
    <2> QED BY <2>3, <2>4
  <1>5. turns + 1 < size
    <2> SUFFICES ASSUME turns + 1 = size PROVE FALSE
      BY <1>2
    <2>1. PICK j \in 0 .. size - 1 : j \notin Stored
      BY <1>1, BucketFree DEF Table
    <2>2. PICK e \in 0 .. size - 1 : Back(index, e, size) = j
      BY <1>2, BackReaches
    <2>3. CASE e = 0
      <3>1. Back(index, 0, size) = index
        BY <1>2 DEF Back
      <3> QED BY <1>3, <2>1, <2>2, <2>3, <3>1
    <2>4. CASE e # 0
      <3>1. e \in 1 .. turns
        BY <1>2, <2>4
      <3> QED BY <1>1, <2>1, <2>2, <3>1 DEF Table, Behind
    <2> QED BY <2>3, <2>4
  <1>6. Types'
    BY <1>5, PassTypes
  <1>7. walk = "none"
    BY <1>1 DEF Walked, Idle, Inserting
  <1>8. Walked'
    BY <1>1, <1>7, WalkedKept DEF walkVars
  <1>9. Waiting' = Waiting
    BY <1>1, WaitingKept
  <1>10. Roomy'
    BY <1>1 DEF Table, Roomy
  <1>11. b.value \in Key /\ carried.value \in Key /\ carried.value # NoKey
         /\ carried.variance \in Nat /\ b.variance \in Nat
    BY <1>1, <1>2 DEF Carrying, Entries
  <1>12. \A k \in Key : InWaiting(k)' <=> InWaiting(k)
    BY <1>1, <1>9 DEF InWaiting
  <1>13. CASE Richer(b)
    <2>1. values' = [values EXCEPT ![index] = carried] /\ carried' = Aged(b)
      BY <1>13 DEF Pass
    <2>2. /\ Stored' = Stored
          /\ values'[index] = carried
          /\ \A j \in Stored \ {index} : values'[j] = values[j]
          /\ Distance' /\ Paths'
      BY <1>1, <1>3, <2>1, StoreCarried
    <2>3. carried'.value = b.value /\ carried'.variance = b.variance + 1
      BY <1>2, <2>1 DEF Aged, Entries
    <2>4. AllHashed'
      <3>1. Hashed(b) /\ Hashed(carried)
        BY <1>2 DEF Table, AllHashed, Types
      <3>2. Hashed(carried')
        BY <1>2, <2>1, <2>3, <3>1 DEF Aged, Entries, Hashed
      <3>3. \A i \in DOMAIN values' : Hashed(values'[i])
        BY <1>2, <2>1, <3>1 DEF Table, AllHashed, Types
      <3> QED BY <1>1, <3>2, <3>3 DEF Table, AllHashed, Hashed
    <2>5. Once'
      <3>1. \A i, j \in Stored : values'[i].value = values'[j].value => i = j
        BY <2>2 DEF Table, Once
      <3>2. \A i \in Stored : values'[i].value # b.value /\ values'[i].value # pending
        BY <1>1, <1>3, <2>2 DEF Table, Once
      <3>3. \A i \in Waiting : old[i].value # b.value /\ old[i].value # pending
        BY <1>3 DEF Table, Once
      <3>4. \A i \in Stored, j \in Waiting : values'[i].value # old[j].value
        BY <2>2 DEF Table, Once
      <3>5. b.value # pending
        BY <1>3 DEF Table, Once
      <3> QED BY <1>1, <1>9, <2>2, <2>3, <3>1, <3>2, <3>3, <3>4, <3>5 DEF Table, Once
    <2>6. Whole'
      <3>1. \A k \in Key : InStored(k)' \/ k = b.value <=> InStored(k) \/ k = carried.value
        BY <1>3, <2>2 DEF InStored
      <3> QED BY <1>1, <1>12, <2>3, <3>1 DEF Table, Whole
    <2>7. Counted'
      BY <1>1, <2>2 DEF Counted
    <2>8. Behind'
      <3>1. b.variance + 1 <= turns + 1
        BY <1>1, <1>2, <1>11, <1>13 DEF Table, Behind, Richer
      <3>2. b.variance \in 0 .. size - 1 /\ Slot(Home(b.value, size), b.variance, size) = index
        BY <1>2, <1>3, <1>11 DEF Table, Distance
      <3>3. Slot(Home(b.value, size), b.variance + 1, size) = index'
        BY <1>1, <1>2, <1>11, <3>2, HomeType, SlotNext
      <3> QED BY <1>1, <1>4, <1>5, <2>2, <2>3, <3>1, <3>3 DEF Behind
    <2> QED BY <1>6, <1>8, <1>10, <2>2, <2>4, <2>5, <2>6, <2>7, <2>8 DEF Table
  <1>14. CASE ~Richer(b)
    <2>1. UNCHANGED values /\ carried' = Aged(carried)
      BY <1>14 DEF Pass
    <2>2. carried'.value = carried.value /\ carried'.variance = carried.variance + 1
      BY <1>2, <2>1 DEF Aged, Entries
    <2>3. Stored' = Stored
      BY <1>1, <2>1, BucketsKept
    <2>4. AllHashed' /\ Distance'
      <3>1. Hashed(carried')
        BY <1>2, <2>1, <2>2 DEF Aged, Entries, Hashed, Table, AllHashed
      <3> QED BY <1>1, <2>1, <2>3, <3>1 DEF Table, AllHashed, Hashed, Distance
    <2>5. Once'
      BY <1>1, <1>9, <2>1, <2>2, <2>3 DEF Table, Once, Carrying
    <2>6. Whole'
      <3>1. \A k \in Key : InStored(k)' <=> InStored(k)
        BY <2>1, <2>3 DEF InStored
      <3> QED BY <1>1, <1>12, <2>2, <3>1 DEF Table, Whole
    <2>7. Counted' /\ Paths'
      BY <1>1, <2>1, CountKept
    <2>8. Behind'
      <3>1. /\ carried.variance <= turns
            /\ Slot(Home(carried.value, size), carried.variance, size) = index
        BY <1>1 DEF Table, Behind
      <3>2. carried.variance \in 0 .. size - 1 /\ carried.variance + 1 <= turns + 1
        BY <1>2, <1>11, <3>1
      <3>3. Slot(Home(carried.value, size), carried.variance + 1, size) = index'
        BY <1>1, <1>2, <1>11, <3>1, <3>2, HomeType, SlotNext
      <3> QED BY <1>1, <1>4, <1>5, <2>2, <2>3, <3>2, <3>3 DEF Behind
    <2> QED BY <1>6, <1>8, <1>10, <2>4, <2>5, <2>6, <2>7, <2>8 DEF Table
  <1> QED BY <1>13, <1>14

(* An entry leaves the table: its bucket is a tombstone, or is empty.      *)
LEMMA EntryLeaves ==
    ASSUME Inv, ~Inserting, NEW i \in Stored, NEW b \in {EmptyBucket, Tombstone},
           values' = [values EXCEPT ![i] = b],
           contents' = contents \ {values[i].value},
           UNCHANGED <<size, carried, index, turns, old, moved, pending>>
    PROVE  /\ Stored' = Stored \ {i}
           /\ b = Tombstone => Reached \subseteq Reached'
           /\ \A j \in Stored' : values'[j] = values[j]
           /\ Table'
  <1> USE DEF Inv
  <1>1. b \in Entries /\ b.value = NoKey /\ (b = Tombstone => ~NeverUsed(b))
    BY BucketTypes DEF EmptyBucket, Tombstone, Bucket, NeverUsed
  <1>2. i \in 0 .. size - 1 /\ values[i].value \in Key
    BY StoredTypes
  <1>3. /\ Stored' = Stored \ {i}
        /\ b = Tombstone => Reached \subseteq Reached'
        /\ \A j \in Stored' : values'[j] = values[j]
    BY <1>1, <1>2, BucketWritten
  <1>4. Waiting = {} /\ Waiting' = {} /\ carried.value = NoKey /\ pending = NoKey
    BY NothingElsewhere, WaitingKept
  <1>5. AllHashed'
    BY <1>1, <1>2 DEF Table, AllHashed, Hashed, Types
  <1>6. Once'
    BY <1>3, <1>4 DEF Table, Once, Carrying
  <1>7. Whole'
    <2>1. \A k \in Key : InStored(k)' <=> InStored(k) /\ k # values[i].value
      BY <1>3 DEF Table, Once, InStored
    <2>2. \A k \in Key : ~InWaiting(k) /\ ~InWaiting(k)'
      BY <1>4 DEF InWaiting
    <2> QED BY <1>4, <2>1, <2>2, KeyAssumption DEF Table, Whole
  <1>8. Roomy'
    <2>1. /\ IsFiniteSet(contents')
          /\ Cardinality(contents') <= Cardinality(contents)
      BY FS_Subset DEF Table, Roomy
    <2>2. Cardinality(contents') \in Nat /\ Cardinality(contents) \in Nat
      BY <2>1, FS_CardinalityType DEF Table, Roomy
    <2>3. Threshold(size) \in 1 .. size /\ size \in Nat \ {0}
      BY StoredTypes, ThresholdDoubles
    <2> QED BY <2>1, <2>2, <2>3 DEF Table, Roomy
  <1>9. Distance' /\ Behind'
    BY <1>3, <1>4 DEF Table, Distance, Behind, Carrying
  <1> QED BY <1>3, <1>5, <1>6, <1>7, <1>8, <1>9 DEF Table

LEMMA DeleteKeeps ==
    ASSUME Inv, NEW k \in Key, Delete(k)
    PROVE  Inv'
  <1> USE DEF Inv
  <1>1. /\ ~Inserting /\ (walk = "none" \/ calling)
        /\ walk = "clear" => k # values[cursor].value
        /\ used' = used - 1 /\ contents' = contents \ {k}
        /\ calls' = [calls EXCEPT ![k] = IF walk = "clear" THEN @ + 1 ELSE @]
        /\ owed' = IF walk = "apply" THEN owed \ {k} ELSE owed
        /\ UNCHANGED <<size, carried, index, turns, old, moved, pending>>
        /\ UNCHANGED <<walk, cursor, calling>>
    BY DEF Delete, carryVars, resizeVars
  <1>2. PICK i \in Stored : values[i].value = k /\ values' = [values EXCEPT ![i] = Tombstone]
    BY DeleteEffect
  <1>3. /\ Stored' = Stored \ {i} /\ Reached \subseteq Reached'
        /\ \A j \in Stored' : values'[j] = values[j]
        /\ Table'
    BY <1>1, <1>2, EntryLeaves
  <1>4. \A j \in Stored' : values'[j].value \in Key /\ values'[j].value # k
    BY <1>2, <1>3, StoredTypes DEF Table, Once
  <1>5. Types'
    <2>1. values' \in [0 .. size - 1 -> Entries]
      BY <1>2, BucketTypes DEF Types
    <2>2. calls' \in [Key -> Nat]
      BY <1>1 DEF Types
    <2>3. OldSize' = OldSize
      BY <1>1, OldSizeKept
    <2>4. contents' \in SUBSET Key /\ owed' \in SUBSET Key
      BY <1>1 DEF Types
    <2>5. used' \in Int
      BY <1>1 DEF Types
    <2> QED BY <1>1, <2>1, <2>2, <2>3, <2>4, <2>5 DEF Types
  <1>6. Counted'
    <2>1. IsFiniteSet(Stored) /\ Cardinality(Stored \ {i}) = Cardinality(Stored) - 1
      BY <1>2, StoredFinite, FS_RemoveElement
    <2> QED BY <1>1, <1>3, <2>1 DEF Counted
  <1>7. Paths'
    BY <1>1, <1>3 DEF Paths
  <1>8. \A x \in Key : x # k => calls'[x] = calls[x]
    BY <1>1 DEF Types
  <1>9. calls'[k] = IF walk = "clear" THEN calls[k] + 1 ELSE calls[k]
    BY <1>1 DEF Types
  <1>10. walk = "clear" => i # cursor /\ calls[k] = 0
    BY <1>1, <1>2 DEF Walked, Clearing, Times
  <1>11. Idle'
    <2>1. walk = "none" => calls' = calls
      BY <1>1 DEF Types
    <2> QED BY <1>1, <2>1 DEF Walked, Idle, Inserting, Carrying, Resizing
  <1>12. Applied'
    <2> SUFFICES ASSUME walk = "apply" PROVE Applied'
      BY <1>1 DEF Applied
    <2>1. owed' = contents'
      BY <1>1 DEF Walked, Applied
    <2>2. \A j \in Stored' : calls'[values'[j].value] = calls[values[j].value]
      BY <1>3, <1>4, <1>8
    <2> QED BY <1>1, <1>3, <2>1, <2>2 DEF Walked, Applied
  <1>13. Clearing'
    <2> SUFFICES ASSUME walk = "clear" PROVE Clearing'
      BY <1>1 DEF Clearing
    <2>1. cursor \in Stored /\ cursor # i
      BY <1>1, <1>10 DEF Walked, Clearing, Idle, Types, Stored
    <2>2. values'[cursor].value # NoKey
      BY <1>3, <1>4, <2>1, KeyAssumption
    <2>3. \A j \in Stored' : calls'[values'[j].value] = calls[values[j].value]
      BY <1>3, <1>4, <1>8
    <2>4. \A x \in owed' \ contents' : calls'[x] = 1
      <3> SUFFICES ASSUME NEW x \in owed, x \notin contents \ {k}
                   PROVE  calls'[x] = 1
        BY <1>1
      <3>1. CASE x = k
        BY <1>9, <1>10, <3>1
      <3>2. CASE x # k
        BY <1>8, <3>2 DEF Types, Walked, Clearing
      <3> QED BY <3>1, <3>2
    <2> QED BY <1>1, <1>3, <2>2, <2>3, <2>4 DEF Walked, Clearing
  <1>14. AtMostOnce'
    BY <1>8, <1>9, <1>10 DEF Walked, AtMostOnce, Types
  <1> QED BY <1>3, <1>5, <1>6, <1>7, <1>11, <1>12, <1>13, <1>14 DEF Walked

LEMMA StartWalkKeeps ==
    ASSUME Inv, NEW kind \in {"apply", "clear"}, StartWalk(kind)
    PROVE  Inv'
  <1> USE DEF Inv
  <1>1. Types'
    BY WalkTypes
  <1>2. /\ walk = "none" /\ ~Inserting /\ walk' = kind /\ owed' = contents
        /\ UNCHANGED <<size, used, values, contents, carried, index, turns>>
        /\ UNCHANGED <<old, moved, pending, cursor, calling, calls>>
    BY DEF StartWalk, carryVars, resizeVars
  <1>3. Table' /\ Counted' /\ Paths'
    BY <1>2, TableKept, CountKept
  <1>4. Stored' = Stored
    BY <1>2, BucketsKept
  <1>5. cursor = 0 /\ ~calling /\ calls = [k \in Key |-> 0]
    BY <1>2 DEF Walked, Idle
  <1>6. \A i \in Stored : i >= 0 /\ calls[values[i].value] = 0
    BY <1>5, StoredTypes
  <1>7. Idle'
    BY <1>2, <1>5 DEF Idle, Inserting, Carrying, Resizing
  <1>8. Applied'
    <2>1. \A i \in Stored : ~(i < cursor \/ (i = cursor /\ calling))
      BY <1>5, StoredTypes
    <2> QED BY <1>2, <1>4, <1>6, <2>1 DEF Applied, Times
  <1>9. Clearing'
    BY <1>2, <1>4, <1>5, <1>6 DEF Clearing, Times
  <1>10. AtMostOnce'
    BY <1>2 DEF Walked, AtMostOnce
  <1> QED BY <1>1, <1>3, <1>7, <1>8, <1>9, <1>10 DEF Walked

LEMMA CallKeeps ==
    ASSUME Inv, Call
    PROVE  Inv'
  <1> USE DEF Inv
  <1>1. Types'
    BY WalkTypes
  <1>2. /\ walk # "none" /\ ~calling /\ cursor < size /\ values[cursor].value # NoKey
        /\ calling' = TRUE
        /\ calls' = [calls EXCEPT ![values[cursor].value] = @ + 1]
        /\ UNCHANGED <<size, used, values, contents, carried, index, turns>>
        /\ UNCHANGED <<old, moved, pending, walk, cursor, owed>>
    BY DEF Call, carryVars, resizeVars
  <1>3. Table' /\ Counted' /\ Paths'
    BY <1>2, TableKept, CountKept
  <1>4. Stored' = Stored
    BY <1>2, BucketsKept
  <1>5. cursor \in Stored /\ cursor \in Nat
    BY <1>2, StoredTypes DEF Types
  <1>6. PICK k \in Key : k = values[cursor].value
    BY <1>5, StoredTypes
  <1>7. calls'[k] = calls[k] + 1 /\ \A x \in Key : x # k => calls'[x] = calls[x]
    BY <1>2, <1>6 DEF Types
  <1>8. \A i \in Stored : i # cursor => values[i].value \in Key /\ values[i].value # k
    BY <1>5, <1>6, StoredTypes DEF Table, Once
  <1>9. calls[k] = 0
    <2>1. walk = "apply" \/ walk = "clear"
      BY <1>2 DEF Types
    <2>2. ~(cursor < cursor)
      BY <1>5
    <2> QED BY <1>2, <1>5, <1>6, <2>1, <2>2 DEF Walked, Applied, Clearing, Times
  <1>10. Idle'
    BY <1>2 DEF Walked, Idle, Inserting, Carrying, Resizing
  <1>11. Applied'
    <2> SUFFICES ASSUME walk = "apply" PROVE Applied'
      BY <1>2 DEF Applied
    <2>1. ASSUME NEW i \in Stored
          PROVE  calls'[values[i].value] = Times(i < cursor \/ (i = cursor /\ calling'))
      <3>1. CASE i = cursor
        BY <1>2, <1>6, <1>7, <1>9, <3>1 DEF Times
      <3>2. CASE i # cursor
        <4>1. calls'[values[i].value] = calls[values[i].value]
          BY <1>7, <1>8, <3>2
        <4> QED BY <3>2, <4>1 DEF Walked, Applied
      <3> QED BY <3>1, <3>2
    <2> QED BY <1>2, <1>4, <2>1 DEF Walked, Applied
  <1>12. Clearing'
    <2> SUFFICES ASSUME walk = "clear" PROVE Clearing'
      BY <1>2 DEF Clearing
    <2>1. ASSUME NEW i \in Stored
          PROVE  calls'[values[i].value] = Times(i = cursor /\ calling')
      <3>1. CASE i = cursor
        BY <1>2, <1>6, <1>7, <1>9, <3>1 DEF Times
      <3>2. CASE i # cursor
        <4>1. calls'[values[i].value] = calls[values[i].value]
          BY <1>7, <1>8, <3>2
        <4> QED BY <3>2, <4>1 DEF Walked, Clearing
      <3> QED BY <3>1, <3>2
    <2>2. k \in contents
      BY <1>5, <1>6 DEF Table, Whole, InStored
    <2>3. \A x \in owed \ contents : calls'[x] = 1
      BY <1>7, <2>2 DEF Types, Walked, Clearing
    <2> QED BY <1>2, <1>4, <2>1, <2>3 DEF Walked, Clearing
  <1>13. AtMostOnce'
    BY <1>7, <1>9 DEF Walked, AtMostOnce, Types
  <1> QED BY <1>1, <1>3, <1>10, <1>11, <1>12, <1>13 DEF Walked

LEMMA SkipKeeps ==
    ASSUME Inv, Skip
    PROVE  Inv'
  <1> USE DEF Inv
  <1>1. Types'
    BY WalkTypes
  <1>2. /\ walk # "none" /\ ~calling /\ cursor < size /\ values[cursor].value = NoKey
        /\ cursor' = cursor + 1
        /\ UNCHANGED <<size, used, values, contents, carried, index, turns>>
        /\ UNCHANGED <<old, moved, pending, walk, calling, owed, calls>>
    BY DEF Skip, carryVars, resizeVars
  <1>3. Table' /\ Counted' /\ Paths'
    BY <1>2, TableKept, CountKept
  <1>4. Stored' = Stored
    BY <1>2, BucketsKept
  <1>5. \A i \in Stored : i # cursor /\ i \in Int /\ cursor \in Int
    BY <1>2, StoredTypes DEF Types
  <1>6. \A i \in Stored : (i < cursor' <=> i < cursor) /\ (i >= cursor' <=> i >= cursor)
    BY <1>2, <1>5
  <1>7. Idle'
    BY <1>2 DEF Walked, Idle, Inserting, Carrying, Resizing
  <1>8. Applied'
    BY <1>2, <1>4, <1>6 DEF Walked, Applied
  <1>9. Clearing'
    BY <1>2, <1>4, <1>5, <1>6 DEF Walked, Clearing
  <1>10. AtMostOnce'
    BY <1>2 DEF Walked, AtMostOnce
  <1> QED BY <1>1, <1>3, <1>7, <1>8, <1>9, <1>10 DEF Walked

LEMMA SettleKeeps ==
    ASSUME Inv, Settle
    PROVE  Inv'
  <1> USE DEF Inv
  <1>1. /\ calling /\ calling' = FALSE /\ cursor' = cursor + 1
        /\ UNCHANGED <<size, used, carried, index, turns, old, moved, pending, walk, owed, calls>>
    BY DEF Settle, carryVars, resizeVars
  <1>2. cursor < size /\ walk # "none" /\ ~Inserting /\ cursor \in Nat
    BY <1>1 DEF Walked, Idle, Types
  <1>3. Types'
    BY <1>2, SettleTypes
  <1>4. Idle' /\ AtMostOnce'
    BY <1>1, <1>2 DEF Walked, Idle, AtMostOnce, Inserting, Carrying, Resizing
  <1>5. CASE walk = "clear"
    <2>1. /\ values' = [values EXCEPT ![cursor] = EmptyBucket]
          /\ contents' = contents \ {values[cursor].value}
      BY <1>5 DEF Settle, Cleared
    <2>2. cursor \in Stored
      BY <1>1, <1>2, <1>5, StoredTypes DEF Walked, Clearing
    <2>3. /\ Stored' = Stored \ {cursor}
          /\ \A j \in Stored' : values'[j] = values[j]
          /\ Table'
      BY <1>1, <1>2, <2>1, <2>2, EntryLeaves
    <2>4. Counted' /\ Paths' /\ Applied'
      BY <1>1, <1>5 DEF Counted, Paths, Applied
    <2>5. \A j \in Stored' : j >= cursor' /\ j # cursor
      BY <1>1, <1>2, <1>5, <2>3, StoredTypes DEF Walked, Clearing
    <2>6. \A j \in Stored' : calls'[values'[j].value] = 0
      BY <1>1, <1>5, <2>3, <2>5 DEF Walked, Clearing, Times
    <2>7. \A x \in owed \ contents' : calls[x] = 1
      BY <1>1, <1>5, <2>1, <2>2 DEF Walked, Clearing, Times
    <2>8. Clearing'
      BY <1>1, <2>5, <2>6, <2>7 DEF Clearing, Times
    <2> QED BY <1>3, <1>4, <2>3, <2>4, <2>8 DEF Walked
  <1>6. CASE walk = "apply"
    <2>1. UNCHANGED <<values, contents>>
      BY <1>6 DEF Settle
    <2>2. Table' /\ Counted' /\ Paths'
      BY <1>1, <2>1, TableKept, CountKept
    <2>3. Stored' = Stored /\ \A i \in Stored : i \in Int
      BY <1>1, <2>1, BucketsKept, StoredTypes
    <2>4. \A i \in Stored : (i < cursor' \/ (i = cursor' /\ calling'))
                              <=> (i < cursor \/ (i = cursor /\ calling))
      BY <1>1, <1>2, <2>3
    <2>5. Applied'
      BY <1>1, <2>1, <2>3, <2>4 DEF Walked, Applied
    <2>6. Clearing'
      BY <1>1, <1>6 DEF Clearing
    <2> QED BY <1>3, <1>4, <2>2, <2>5, <2>6 DEF Walked
  <1> QED BY <1>2, <1>5, <1>6 DEF Types

LEMMA EndWalkKeeps ==
    ASSUME Inv, EndWalk
    PROVE  Inv'
  <1> USE DEF Inv
  <1>1. Types'
    BY EndWalkTypes
  <1>2. /\ walk # "none" /\ cursor = size
        /\ used' = IF walk = "clear" THEN 0 ELSE used
        /\ walk' = "none" /\ cursor' = 0 /\ owed' = {} /\ calls' = [k \in Key |-> 0]
        /\ UNCHANGED <<size, values, contents, carried, index, turns>>
        /\ UNCHANGED <<old, moved, pending, calling>>
    BY DEF EndWalk, carryVars, resizeVars
  <1>3. Table'
    BY <1>2, TableKept
  <1>4. size \in Nat \ {0} /\ ~calling /\ ~Inserting
    BY <1>2, StoredTypes DEF Walked, Idle
  <1>5. Counted' /\ Paths'
    <2>1. CASE walk = "clear"
      <3>1. Stored = {}
        BY <1>2, <1>4, <2>1, StoredTypes DEF Walked, Clearing
      <3>2. Stored' = {}
        BY <1>2, <3>1, BucketsKept
      <3> QED BY <1>2, <2>1, <3>2, FS_EmptySet DEF Counted, Paths
    <2>2. CASE walk # "clear"
      BY <1>2, <2>2, CountKept
    <2> QED BY <2>1, <2>2
  <1>6. Idle'
    BY <1>2, <1>4 DEF Idle
  <1>7. Applied' /\ Clearing'
    BY <1>2 DEF Applied, Clearing
  <1>8. AtMostOnce'
    BY <1>2 DEF AtMostOnce
  <1> QED BY <1>1, <1>3, <1>5, <1>6, <1>7, <1>8 DEF Walked

LEMMA StutterKeeps ==
    ASSUME Inv, UNCHANGED vars
    PROVE  Inv'
  <1> USE DEF Inv
  <1>1. /\ UNCHANGED <<size, used, values, contents, carried, index, turns, old, moved, pending>>
        /\ UNCHANGED <<walk, cursor, calling, owed, calls>>
    BY DEF vars, carryVars, resizeVars, walkVars
  <1>2. OldSize' = OldSize /\ Stored' = Stored
    BY <1>1, OldSizeKept, BucketsKept
  <1>3. Types'
    BY <1>1, <1>2 DEF Types
  <1>4. Table' /\ Counted' /\ Paths'
    BY <1>1, TableKept, CountKept
  <1>5. Idle' /\ AtMostOnce'
    BY <1>1 DEF Walked, Idle, AtMostOnce, Inserting, Carrying, Resizing
  <1>6. Applied'
    BY <1>1, <1>2 DEF Walked, Applied
  <1>7. Clearing'
    BY <1>1, <1>2 DEF Walked, Clearing
  <1> QED BY <1>3, <1>4, <1>5, <1>6, <1>7 DEF Walked

LEMMA StepKeeps == Inv /\ [Next]_vars => Inv'
  <1> SUFFICES ASSUME Inv, [Next]_vars PROVE Inv'
    OBVIOUS
  <1>1. ASSUME NEW k \in Key, Insert(k) PROVE Inv'
    BY <1>1, InsertKeeps
  <1>2. ASSUME NEW k \in Key, Delete(k) PROVE Inv'
    BY <1>2, DeleteKeeps
  <1>3. CASE Repopulate
    BY <1>3, RepopulateKeeps
  <1>4. CASE Repopulated
    BY <1>4, RepopulatedKeeps
  <1>5. CASE Place
    BY <1>5, PlaceKeeps
  <1>6. CASE Pass
    BY <1>6, PassKeeps
  <1>7. CASE StartWalk("apply") \/ StartWalk("clear")
    BY <1>7, StartWalkKeeps
  <1>8. CASE Call
    BY <1>8, CallKeeps
  <1>9. CASE Settle
    BY <1>9, SettleKeeps
  <1>10. CASE Skip
    BY <1>10, SkipKeeps
  <1>11. CASE EndWalk
    BY <1>11, EndWalkKeeps
  <1>12. CASE UNCHANGED vars
    BY <1>12, StutterKeeps
  <1> QED BY <1>1, <1>2, <1>3, <1>4, <1>5, <1>6, <1>7, <1>8, <1>9, <1>10, <1>11, <1>12 DEF Next

LEMMA TableSound == Spec => []Inv
  <1> QED BY InitInv, StepKeeps, PTL DEF Spec

-----------------------------------------------------------------------------
(* Whatever the table holds is found, and nothing else: no sequence of     *)
(* insertions, deletions, resizes and apply() walks, with the swaps and    *)
(* the tombstones they leave, cuts the search for an entry short.          *)
THEOREM NeverLost == Spec => []SearchExact
  <1>1. Inv => SearchExact
    <2> SUFFICES ASSUME Inv, walk # "clear", ~Inserting, NEW k \in Key
                 PROVE  Search(k) <=> k \in contents
      BY DEF SearchExact
    <2> USE DEF Inv
    <2>1. k \in contents <=> InStored(k)
      BY NothingElsewhere, KeyAssumption DEF Table, Whole, InWaiting
    <2>2. ASSUME InStored(k) PROVE Search(k)
      BY <2>2, SearchFinds DEF Table, InStored
    <2>3. ASSUME Search(k) PROVE InStored(k)
      BY <2>3, SearchFound DEF Search, InStored
    <2> QED BY <2>1, <2>2, <2>3
  <1> QED BY <1>1, TableSound, PTL

(* The count of used buckets is the number of entries, and an insertion    *)
(* always finds a free bucket before it has gone round: the loop of        *)
(* ph_hashtable_insert_direct never drops the entry it carries.            *)
THEOREM AlwaysRoom == Spec => []UsedCounts
  <1>1. Inv => UsedCounts
    <2> SUFFICES ASSUME Inv PROVE UsedCounts
      OBVIOUS
    <2> USE DEF Inv
    <2>1. walk # "clear" => used = Cardinality(Stored)
      BY DEF Counted
    <2>2. walk # "clear" /\ ~Inserting => used = Cardinality(contents)
      BY AsManyEntries DEF Table, Roomy
    <2>3. turns < size
      BY DEF Types
    <2> QED BY <2>1, <2>2, <2>3 DEF UsedCounts
  <1> QED BY <1>1, TableSound, PTL

(* The variance of a bucket is how far its entry is from its home.         *)
THEOREM VarianceExact == Spec => []VarianceIsDistance
  <1>1. Inv => VarianceIsDistance
    BY DEF Inv, Table, Distance, VarianceIsDistance
  <1> QED BY <1>1, TableSound, PTL

(* apply() calls each entry back, and clear() destroys each, exactly once, *)
(* also when the callbacks delete other entries of the table.              *)
THEOREM EachCalledOnce == Spec => []CalledOnce
  <1>1. Inv => CalledOnce
    <2> SUFFICES ASSUME Inv PROVE CalledOnce
      OBVIOUS
    <2> USE DEF Inv
    <2>1. \A k \in Key : calls[k] <= 1
      BY DEF Walked, AtMostOnce
    <2>2. ASSUME walk # "none", cursor = size, NEW k \in owed
          PROVE  calls[k] = 1
      <3>1. ~calling /\ ~Inserting /\ size \in Nat \ {0}
        BY <2>2, StoredTypes DEF Walked, Idle
      <3>2. CASE walk = "apply"
        <4>1. k \in contents /\ k \in Key
          BY <3>2 DEF Walked, Applied, Types
        <4>2. PICK i \in Stored : values[i].value = k
          BY <3>1, <4>1, NothingElsewhere, KeyAssumption DEF Table, Whole, InWaiting, InStored
        <4>3. i < cursor
          BY <2>2, <3>1, StoredTypes
        <4> QED BY <3>2, <4>2, <4>3 DEF Walked, Applied, Times
      <3>3. CASE walk = "clear"
        <4>1. Stored = {}
          BY <2>2, <3>1, <3>3, StoredTypes DEF Walked, Clearing
        <4>2. k \notin contents
          BY <3>1, <4>1, NothingElsewhere, KeyAssumption
             DEF Table, Whole, InWaiting, InStored, Types
        <4> QED BY <3>3, <4>2 DEF Walked, Clearing
      <3> QED BY <2>2, <3>2, <3>3 DEF Types
    <2> QED BY <2>1, <2>2 DEF CalledOnce
  <1> QED BY <1>1, TableSound, PTL
=============================================================================
