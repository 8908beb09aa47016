----------------------------- MODULE Hashtable -----------------------------
(***************************************************************************)
(* ph_hashtable: open addressing with robin hood insertion, tombstones and *)
(* no backward shift.  It holds the actors by reference and by name, the   *)
(* workers of a supervisor and the classes copied between threads.         *)
(*                                                                         *)
(* A key stands for the pair (key, value) of an entry; Hash gives the hash *)
(* it is stored under.  ph_hashtable_apply and ph_hashtable_clear walk the *)
(* buckets and call back; a callback may delete entries of the same table, *)
(* as ph_actor_mark_for_removal does, so a walk is a sequence of steps.    *)
(* So is an insertion, one for each turn of its loops.                     *)
(***************************************************************************)
EXTENDS Integers, FiniteSets

CONSTANTS Key, NoKey, Hash, InitSize, MaxSize

ASSUME KeyAssumption == NoKey \notin Key /\ Hash \in [Key -> Nat]
ASSUME SizeAssumption == InitSize \in Nat \ {0} /\ MaxSize \in Nat

VARIABLES
    size,       \* the number of buckets, a power of two
    used,
    values,     \* the buckets, 0 .. size - 1
    contents,   \* what the table ought to hold
    carried,    \* the entry that ph_hashtable_insert_direct has in its locals,
    index,      \* the bucket it has reached with it
    turns,      \* and the turns of its loop
    old, moved, \* the buckets before a resize, and how many have been moved
    pending,    \* the entry that waits for the resize
    walk,       \* "none", "apply" or "clear"
    cursor,     \* the bucket the walk has reached
    calling,    \* it is in the callback for that bucket
    owed,       \* entries it must call back, unless a callback deletes them
    calls       \* how often it has called each entry back

carryVars == <<carried, index, turns>>
resizeVars == <<old, moved, pending>>
walkVars == <<walk, cursor, calling, owed, calls>>
vars == <<size, used, values, contents, carryVars, resizeVars, walkVars>>

Bucket(k, h, v) == [value |-> k, hash |-> h, variance |-> v]
EmptyBucket == Bucket(NoKey, 0, 0)
Tombstone == Bucket(NoKey, 1, 0)
EmptyTable(n) == [i \in 0 .. n - 1 |-> EmptyBucket]

Init ==
    /\ size = InitSize
    /\ used = 0
    /\ values = EmptyTable(InitSize)
    /\ contents = {}
    /\ carried = EmptyBucket /\ index = 0 /\ turns = 0
    /\ old = EmptyTable(0) /\ moved = 0 /\ pending = NoKey
    /\ walk = "none" /\ cursor = 0 /\ calling = FALSE
    /\ owed = {} /\ calls = [k \in Key |-> 0]

-----------------------------------------------------------------------------
Home(k, n) == Hash[k] % n

(* d buckets further, from the last one back to the first.                 *)
Slot(i, d, n) == IF i + d < n THEN i + d ELSE i + d - n

Carrying == carried.value # NoKey
Resizing == pending # NoKey
Inserting == Carrying \/ Resizing

(* The beginning of ph_hashtable_insert_direct.                            *)
Carry(k, hash) ==
    /\ carried' = Bucket(k, hash, 0)
    /\ index' = hash % size
    /\ turns' = 0

NeverFull == FALSE
Full == used = size - (size \div 4)

(* The callers have looked the key up, or made it, before they insert it.  *)
Insert(k) ==
    /\ walk = "none" /\ ~Inserting
    /\ k \notin contents
    /\ contents' = contents \cup {k}
    /\ IF Full
       THEN /\ 2 * size <= MaxSize
            /\ size' = 2 * size /\ used' = 0 /\ values' = EmptyTable(2 * size)
            /\ old' = values /\ moved' = 0 /\ pending' = k
            /\ UNCHANGED carryVars
       ELSE /\ Carry(k, Hash[k])
            /\ UNCHANGED <<size, used, values, resizeVars>>
    /\ UNCHANGED walkVars

(* ph_hashtable_repopulate inserts the old buckets in their order, and the *)
(* entry that caused the resize comes last.                                *)
Repopulate ==
    /\ Resizing /\ ~Carrying
    /\ moved \in DOMAIN old
    /\ moved' = moved + 1
    /\ IF old[moved].value # NoKey
       THEN Carry(old[moved].value, old[moved].hash)
       ELSE UNCHANGED carryVars
    /\ UNCHANGED <<size, used, values, contents, old, pending, walkVars>>

Repopulated ==
    /\ Resizing /\ ~Carrying
    /\ moved \notin DOMAIN old
    /\ Carry(pending, Hash[pending])
    /\ old' = EmptyTable(0) /\ moved' = 0 /\ pending' = NoKey
    /\ UNCHANGED <<size, used, values, contents, walkVars>>

(* A turn of the insertion loop: the entry stays in a bucket without one,  *)
(* or goes on to the next, and swaps with an entry that is nearer to its   *)
(* own home.  (The loop would give up after size turns.)                   *)
Place ==
    /\ Carrying /\ turns < size
    /\ values[index].value = NoKey
    /\ values' = [values EXCEPT ![index] = carried]
    /\ used' = used + 1
    /\ carried' = EmptyBucket /\ index' = 0 /\ turns' = 0
    /\ UNCHANGED <<size, contents, resizeVars, walkVars>>

Richer(b) == carried.variance > b.variance
NotAged(b) == b
Aged(b) == [b EXCEPT !.variance = @ + 1]
Pass ==
    LET b == values[index] IN
    /\ Carrying /\ turns < size
    /\ b.value # NoKey
    /\ IF Richer(b)
       THEN values' = [values EXCEPT ![index] = carried] /\ carried' = Aged(b)
       ELSE carried' = Aged(carried) /\ UNCHANGED values
    /\ index' = Slot(index, 1, size)
    /\ turns' = turns + 1
    /\ UNCHANGED <<size, used, contents, resizeVars, walkVars>>

(* The distances from k's home at which the search loop finds k: it passes *)
(* tombstones and stops at the first bucket that was never used.           *)
NoValue(b) == b.value = NoKey
NeverUsed(b) == b.value = NoKey /\ b.hash = 0
At(k, d) == values[Slot(Home(k, size), d, size)]
FoundAt(k) ==
    {d \in 0 .. size - 1 : At(k, d).value = k /\ \A e \in 0 .. d - 1 : ~NeverUsed(At(k, e))}
Search(k) == FoundAt(k) # {}

(* Deleting leaves a tombstone and calls the destructor; an entry whose    *)
(* search is cut short stays.  Outside a walk, or in one of its callbacks. *)
DeletedAsEmpty == EmptyBucket
DeletedBucket == Tombstone
Delete(k) ==
    /\ ~Inserting
    /\ walk = "none" \/ calling
    /\ walk = "clear" => k # values[cursor].value
    /\ Search(k)
    /\ \E d \in FoundAt(k) :
          values' = [values EXCEPT ![Slot(Home(k, size), d, size)] = DeletedBucket]
    /\ used' = used - 1
    /\ contents' = contents \ {k}
    /\ calls' = [calls EXCEPT ![k] = IF walk = "clear" THEN @ + 1 ELSE @]
    /\ owed' = IF walk = "apply" THEN owed \ {k} ELSE owed
    /\ UNCHANGED <<size, carryVars, resizeVars, walk, cursor, calling>>

-----------------------------------------------------------------------------
(* ph_hashtable_apply and ph_hashtable_clear.                              *)

StartWalk(kind) ==
    /\ walk = "none" /\ ~Inserting
    /\ walk' = kind
    /\ owed' = contents
    /\ UNCHANGED <<size, used, values, contents, carryVars, resizeVars, cursor, calling, calls>>

Call ==
    /\ walk # "none" /\ ~calling /\ cursor < size
    /\ values[cursor].value # NoKey
    /\ calling' = TRUE
    /\ calls' = [calls EXCEPT ![values[cursor].value] = @ + 1]
    /\ UNCHANGED <<size, used, values, contents, carryVars, resizeVars, walk, cursor, owed>>

(* After the callback, clear empties the bucket.                           *)
NotCleared(b) == b
Cleared(b) == EmptyBucket
Settle ==
    /\ calling
    /\ calling' = FALSE
    /\ cursor' = cursor + 1
    /\ IF walk = "clear"
       THEN /\ values' = [values EXCEPT ![cursor] = Cleared(@)]
            /\ contents' = contents \ {values[cursor].value}
       ELSE UNCHANGED <<values, contents>>
    /\ UNCHANGED <<size, used, carryVars, resizeVars, walk, owed, calls>>

Skip ==
    /\ walk # "none" /\ ~calling /\ cursor < size
    /\ values[cursor].value = NoKey
    /\ cursor' = cursor + 1
    /\ UNCHANGED <<size, used, values, contents, carryVars, resizeVars, walk, calling, owed, calls>>

EndWalk ==
    /\ walk # "none" /\ cursor = size
    /\ used' = IF walk = "clear" THEN 0 ELSE used
    /\ walk' = "none" /\ cursor' = 0
    /\ owed' = {} /\ calls' = [k \in Key |-> 0]
    /\ UNCHANGED <<size, values, contents, carryVars, resizeVars, calling>>

Next ==
    \/ \E k \in Key : Insert(k) \/ Delete(k)
    \/ Repopulate \/ Repopulated \/ Place \/ Pass
    \/ StartWalk("apply") \/ StartWalk("clear")
    \/ Call \/ Settle \/ Skip \/ EndWalk

Spec == Init /\ [][Next]_vars

-----------------------------------------------------------------------------
Stored == {i \in DOMAIN values : values[i].value # NoKey}

(* Outside a clear(), a search finds exactly the entries that were         *)
(* inserted and not deleted since, wherever swaps have moved them and      *)
(* whatever tombstones and wrapped probe sequences lie in between.         *)
SearchExact ==
    walk # "clear" /\ ~Inserting => \A k \in Key : Search(k) <=> k \in contents

(* The count that decides about resizing is the number of entries, and no  *)
(* entry is stored twice: there is always a bucket for the next one.       *)
UsedCounts ==
    /\ walk # "clear" => used = Cardinality(Stored)
    /\ walk # "clear" /\ ~Inserting => used = Cardinality(contents)
    /\ Carrying => turns < size

(* Robin hood: the recorded variance is the distance from home.            *)
VarianceIsDistance ==
    \A i \in Stored : Slot(Home(values[i].value, size), values[i].variance, size) = i

(* A walk calls back, or destroys, each entry exactly once, although its   *)
(* callbacks delete entries, and although clear() empties the buckets that *)
(* the searches of those deletions have to pass.                           *)
CalledOnce ==
    /\ \A k \in Key : calls[k] <= 1
    /\ walk # "none" /\ cursor = size => \A k \in owed : calls[k] = 1
=============================================================================
