--------------------------- MODULE ResponseCache ---------------------------
(***************************************************************************)
(* ResponseCache (src/src/cache.rs): entries by key, their insertion order *)
(* and the running byte count, all behind one mutex.  A response is its    *)
(* size; its lifetime ends at any time.  The hit and miss counters are     *)
(* left out.                                                               *)
(***************************************************************************)
EXTENDS Integers, Sequences, SequencesExt, FiniteSets, FiniteSetsExt, Functions

CONSTANTS
  CacheKeys,   \* keys
  MaxBytes,    \* max_bytes
  EntryShare   \* MAX_ENTRY_FRACTION

ASSUME CacheAssumption ==
  IsFiniteSet(CacheKeys) /\ MaxBytes \in Nat /\ EntryShare \in Nat \ {0}

VARIABLES
  entries,  \* per key: size of the stored response, 0 when there is none
  stale,    \* keys whose entry has expired
  order,    \* keys in insertion order
  bytes     \* the running size

cachevars == <<entries, stale, order, bytes>>

MaxEntry == MaxBytes \div EntryShare
Stored == {k \in CacheKeys : entries[k] > 0}

CacheTypeOK ==
  /\ entries \in [CacheKeys -> 0..MaxEntry] /\ stale \subseteq Stored
  /\ order \in Seq(CacheKeys) /\ bytes \in Nat

CacheInit ==
  /\ entries = [k \in CacheKeys |-> 0] /\ stale = {} /\ order = <<>> /\ bytes = 0

\* order.retain(|x| x != k)
Without(s, k) ==
  LET kept[i \in 0..Len(s)] ==
        IF i = 0 THEN <<>>
        ELSE IF s[i] = k THEN kept[i - 1] ELSE Append(kept[i - 1], s[i])
  IN  kept[Len(s)]

Sub(x, y) == IF x > y THEN x - y ELSE 0

\* get: a fresh entry is served, an expired one is removed on the way.
Get(k) ==
  /\ k \in stale
  /\ entries' = [entries EXCEPT ![k] = 0] /\ stale' = stale \ {k}
  /\ order' = Without(order, k) /\ bytes' = Sub(bytes, entries[k])

\* The i oldest keys, and the bytes their entries hold.
Oldest(o, i) == {o[j] : j \in 1..i}
Freed(o, e, i) == SumFunctionOnSet(e, Oldest(o, i))

\* How many of the oldest keys put pops before n more bytes fit; the old
\* entry of the key is already gone from o, e and b.
Evicted(o, e, b, n) ==
  LET fits == {i \in 0..Len(o) : Sub(b, Freed(o, e, i)) + n <= MaxBytes} IN
  IF fits = {} THEN Len(o) ELSE Min(fits)

PutKeepsOldOrder(k, n) ==
  LET e0 == [entries EXCEPT ![k] = 0]
      b0 == Sub(bytes, entries[k])
      cut == Evicted(order, e0, b0, n)
      gone == Oldest(order, cut) IN
  /\ n > 0 /\ n <= MaxEntry
  /\ entries' = [x \in CacheKeys |-> IF x = k THEN n ELSE IF x \in gone THEN 0 ELSE e0[x]]
  /\ stale' = stale \ (gone \cup {k})
  /\ order' = Append(SubSeq(order, cut + 1, Len(order)), k)
  /\ bytes' = Sub(b0, Freed(order, e0, cut)) + n

\* put: an empty or too large response is refused; the key's old entry is
\* taken out first, then the oldest entries until the new one fits.
Put(k, n) ==
  LET e0 == [entries EXCEPT ![k] = 0]
      b0 == Sub(bytes, entries[k])
      o0 == Without(order, k)
      cut == Evicted(o0, e0, b0, n)
      gone == Oldest(o0, cut) IN
  /\ n > 0 /\ n <= MaxEntry
  /\ entries' = [x \in CacheKeys |-> IF x = k THEN n ELSE IF x \in gone THEN 0 ELSE e0[x]]
  /\ stale' = stale \ (gone \cup {k})
  /\ order' = Append(SubSeq(o0, cut + 1, Len(o0)), k)
  /\ bytes' = Sub(b0, Freed(o0, e0, cut)) + n

EntryExpires(k) ==
  /\ k \in Stored \ stale /\ stale' = stale \cup {k}
  /\ UNCHANGED <<entries, order, bytes>>

\* relay_uncoalesced stores a response that parse_ttl gives a lifetime.  What
\* parse_ttl reads is not modelled: a response of any size may have one, and
\* EntryExpires may come at any time after.
StoreResponse(k, n) == Put(k, n)

CacheNext ==
  \E k \in CacheKeys :
    \/ Get(k) \/ EntryExpires(k)
    \/ \E n \in 1..MaxBytes : StoreResponse(k, n)

CacheSpec == CacheInit /\ [][CacheNext]_cachevars

-----------------------------------------------------------------------------
(* Properties *)

\* The running byte count is the sum of the stored sizes and stays within
\* max_bytes, and the eviction order names every stored key exactly once,
\* through replacement, expiry on read and eviction of several entries: the
\* saturating subtractions never hide a drift.
CacheAccounting ==
  /\ bytes = SumFunctionOnSet(entries, CacheKeys)
  /\ bytes <= MaxBytes
  /\ Len(order) = Cardinality(Stored) /\ ToSet(order) = Stored
=============================================================================
