------------------------------ MODULE Int32Map ------------------------------
(***************************************************************************)
(* The hash map of the suffix tree (csrc/suffix_decoding/int32_map.h):     *)
(* open addressing over a table whose size is a power of two, triangular   *)
(* probing, tombstones for erased keys, and rehashing that cleans, grows   *)
(* or shrinks the table.                                                   *)
(***************************************************************************)
EXTENDS Integers, Sequences, SequencesExt, FiniteSets, FiniteSetsExt, Functions

CONSTANTS
    Keys,       \* the keys used
    Vals,       \* the values used
    Hashes,     \* the values mix_hash_ may have
    Empty,      \* the content of a slot with KEY_EMPTY
    Tombstone,  \* the content of a slot with KEY_TOMBSTONE
    None,       \* end(), and "no call yet"
    Raised      \* what a call that finds the table full leaves

Int32MapAssumption == Hashes \subseteq Nat

VARIABLES
    hash,        \* mix_hash_
    slots,       \* slots_, from 0 to cap_ - 1: Empty, Tombstone or <<key, value>>
    size,        \* size_
    tombstones,  \* tombstones_
    ret          \* what the last call returned

vars == <<hash, slots, size, tombstones, ret>>

MIN_LOAD_PCT == 25
MAX_LOAD_PCT == 75
MIN_CAPACITY == 2

Cap(t) == Cardinality(DOMAIN t)
IsFilled(c) == c \notin {Empty, Tombstone}
Filled(t) == {i \in DOMAIN t : IsFilled(t[i])}
Fresh(cap) == [i \in 0 .. cap - 1 |-> Empty]

-----------------------------------------------------------------------------
(* Probing: the p-th slot looked at is p (p + 1) / 2 after the first.      *)
At(t, k, p) == (hash[k] + ((p * (p + 1)) \div 2)) % Cap(t)
Probes(t) == DOMAIN t

(* The probe that ends the search for k, the key itself or an empty slot.  *)
Ends(t, k) == {p \in Probes(t) : t[At(t, k, p)] = Empty \/ (IsFilled(t[At(t, k, p)]) /\ t[At(t, k, p)][1] = k)}
Tombs(t, k) == {p \in Probes(t) : t[At(t, k, p)] = Tombstone}
Stop(t, k) == IF Ends(t, k) = {} THEN Cap(t) ELSE Min(Ends(t, k))

Found(t, k) == t # << >> /\ Ends(t, k) # {} /\ IsFilled(t[At(t, k, Stop(t, k))])
Full(t, k) == t # << >> /\ Ends(t, k) = {} /\ Tombs(t, k) = {}

(* Where k is, or the best slot to insert it: the first tombstone before   *)
(* the end of the search, or else the empty slot.                          *)
Index(t, k) ==
    LET tombs == {p \in Tombs(t, k) : p < Stop(t, k)}
    IN  IF Found(t, k) \/ tombs = {} THEN At(t, k, Stop(t, k)) ELSE At(t, k, Min(tombs))

(* rehash_: the filled slots in their order, each to its first free slot.  *)
Place(t, c) == [t EXCEPT ![At(t, c[1], Min({p \in Probes(t) : ~IsFilled(t[At(t, c[1], p)])}))] = c]
Rehashed(t, cap) ==
    FoldLeft(Place, Fresh(cap), SelectSeq([i \in 1 .. Cap(t) |-> t[i - 1]], IsFilled))

-----------------------------------------------------------------------------

(* contains and find.                                                      *)
Find(k) ==
    /\ ret' = IF Full(slots, k) THEN Raised ELSE IF Found(slots, k) THEN slots[Index(slots, k)][2] ELSE None
    /\ UNCHANGED <<hash, slots, size, tombstones>>

(* emplace.  The table to insert into once a search has ended at an empty  *)
(* slot of table t: t itself, or a rehashed one when it would be too full. *)
Overloaded(t) == Cap(t) * MAX_LOAD_PCT < (size + tombstones + 1) * 100
Room(t) ==
    IF ~Overloaded(t) THEN t
    ELSE IF (size + 1) * 100 <= Cap(t) * MAX_LOAD_PCT THEN Rehashed(t, Cap(t))
    ELSE Rehashed(t, Cap(t) * 2)

(* What is left of the tombstones when one is written over.                *)
TombstonesAfterReuse == tombstones - 1

Emplace(k, v) ==
    LET t == IF slots = << >> THEN Fresh(MIN_CAPACITY) ELSE slots
        i == Index(t, k)
        r == Room(t)
    IN  /\ UNCHANGED hash
        /\ \/ /\ Found(t, k) \/ Full(t, k)
              /\ ret' = IF Full(t, k) THEN Raised ELSE t[i][2]
              /\ UNCHANGED <<slots, size, tombstones>>
           \/ /\ ~Found(t, k) /\ ~Full(t, k) /\ t[i] = Tombstone
              /\ slots' = [t EXCEPT ![i] = <<k, v>>]
              /\ tombstones' = TombstonesAfterReuse
              /\ size' = size + 1
              /\ ret' = v
           \/ /\ ~Found(t, k) /\ ~Full(t, k) /\ t[i] = Empty
              /\ slots' = [r EXCEPT ![Index(r, k)] = <<k, v>>]
              /\ tombstones' = IF Overloaded(t) THEN 0 ELSE tombstones
              /\ size' = size + 1
              /\ ret' = v

(* erase and maybe_rehash_after_erase_.                                    *)
ErasedToEmpty(i) == [slots EXCEPT ![i] = Empty]  \* wrong: cuts the probes of other keys
Erased(i) == [slots EXCEPT ![i] = Tombstone]
Sparse(n) == n * 100 < Cap(slots) * MIN_LOAD_PCT /\ Cap(slots) \div 2 >= MIN_CAPACITY

Erase(k) ==
    /\ ret' = IF Full(slots, k) THEN Raised ELSE Found(slots, k)
    /\ UNCHANGED hash
    /\ \/ /\ ~Found(slots, k)
          /\ UNCHANGED <<slots, size, tombstones>>
       \/ /\ Found(slots, k) /\ size = 1
          /\ slots' = << >> /\ size' = 0 /\ tombstones' = 0
       \/ /\ Found(slots, k) /\ size > 1 /\ Sparse(size - 1)
          /\ slots' = Rehashed(Erased(Index(slots, k)), Cap(slots) \div 2)
          /\ size' = size - 1 /\ tombstones' = 0
       \/ /\ Found(slots, k) /\ size > 1 /\ ~Sparse(size - 1)
          /\ slots' = Erased(Index(slots, k))
          /\ size' = size - 1 /\ tombstones' = tombstones + 1

Init ==
    /\ hash \in [Keys -> Hashes]
    /\ slots = << >>
    /\ size = 0
    /\ tombstones = 0
    /\ ret = None

Next == \E k \in Keys : Find(k) \/ Erase(k) \/ \E v \in Vals : Emplace(k, v)
Spec == Init /\ [][Next]_vars

-----------------------------------------------------------------------------

(* The counters count: the load factor is computed from them.              *)
TypeOK ==
    /\ hash \in [Keys -> Hashes]
    /\ size = Cardinality(Filled(slots))
    /\ tombstones = Cardinality({i \in DOMAIN slots : slots[i] = Tombstone})
    /\ slots = << >> \/ Cap(slots) >= MIN_CAPACITY
    /\ \A i \in Filled(slots) : slots[i] \in Keys \X Vals

(* A table keeps an empty slot, so that the search for a key that is not   *)
(* there ends: neither tombstones that are reused, nor a rehash in place,  *)
(* nor shrinking ever use the last one.                                    *)
SearchesEnd == slots # << >> => \E i \in DOMAIN slots : slots[i] = Empty

(* No key is in two slots, so iterating over the slots visits it once: a   *)
(* key is inserted into a tombstone only when it is not further on.        *)
KeysOnce == \A i, j \in Filled(slots) : slots[i][1] = slots[j][1] => i = j

(* Whatever its hashes and its past, the table is a map: a key that was    *)
(* stored is found, with its value, through rehashing and erasing others.  *)
Contents ==
    [k \in {slots[i][1] : i \in Filled(slots)} |-> slots[CHOOSE i \in Filled(slots) : slots[i][1] = k][2]]
Map == INSTANCE KeyMap WITH map <- Contents
ImplementsKeyMap == Map!Spec
=============================================================================
