------------------------------ MODULE TileCache ------------------------------
(***************************************************************************)
(* The process-local cache of TomTom traffic tiles: type tileCache of      *)
(* internal/traffic/tomtom/cache.go.  Every operator that changes the      *)
(* variables below is a piece of one critical section of tileCache.mutex;  *)
(* TrafficClient puts the pieces together into the steps that the          *)
(* goroutines of concurrent snapshots take.                                *)
(***************************************************************************)
EXTENDS Integers, FiniteSets, SequencesExt

CONSTANTS
  Tiles,         \* cache keys; the style is the constant flowStyle
  Bodies,        \* the response bodies the provider may serve for a tile
  Maximum,       \* Options.CacheEntries
  MaximumBytes,  \* Options.CacheBytes
  Ttl,           \* Options.CacheTTL
  NoEntry,       \* the zero cacheEntry: no data
  NoLeader       \* no download in progress

(***************************************************************************)
(* A body is abstracted to what the code tells apart: its length, the      *)
(* instant of its Expires header (0, Go's zero time, when there is none)   *)
(* and whether Decode accepts it.  NewClient refuses options that are not  *)
(* positive.                                                               *)
(***************************************************************************)
ASSUME CacheAssumption ==
  /\ Maximum \in Nat \ {0}
  /\ MaximumBytes \in Nat \ {0}
  /\ Ttl \in Nat \ {0}
  /\ \A body \in Bodies : /\ body.size \in Nat
                          /\ body.expires \in Nat
                          /\ body.decodes \in BOOLEAN
  /\ NoEntry \notin [body : Bodies, fetchedAt : Nat]

Entry == [body : Bodies, fetchedAt : Nat]

VARIABLES
  entries,    \* tile -> its stored entry, or NoEntry
  recent,     \* stored tiles, the most recently used first
  usedBytes,  \* running total of len(data) of the stored entries
  flights     \* tile -> the request whose goroutine downloads it, or NoLeader

store == <<entries, recent, usedBytes>>

Stored == {t \in Tiles : entries[t] # NoEntry}

SizeOf(entry) == IF entry = NoEntry THEN 0 ELSE entry.body.size

(* The bytes of the entries that the function stored holds for the tiles S. *)
Bytes(stored, S) == MapThenSumSet(LAMBDA t : SizeOf(stored[t]), S)

(* getLocked: an entry is served while it is at most Ttl old and the        *)
(* provider's own expiry, if any, has not been reached.                     *)
Servable(entry, at) ==
  /\ entry # NoEntry
  /\ at - entry.fetchedAt <= Ttl
  /\ entry.body.expires = 0 \/ at < entry.body.expires

(* getLocked, hit: the entry moves to the front of the LRU list.            *)
Touch(t) ==
  /\ recent' = Cons(t, RemoveFirst(recent, t))
  /\ UNCHANGED <<entries, usedBytes>>

\* Mutant of Discard: the running total keeps the bytes of a removed entry.
DiscardKeepsBytes(t) ==
  /\ entries' = [entries EXCEPT ![t] = NoEntry]
  /\ recent' = RemoveFirst(recent, t)
  /\ UNCHANGED usedBytes

(* removeLocked on the entry of t, if there is one: the expired branch of   *)
(* getLocked, and invalidate.                                               *)
Discard(t) ==
  /\ entries' = [entries EXCEPT ![t] = NoEntry]
  /\ recent' = RemoveFirst(recent, t)
  /\ usedBytes' = usedBytes - SizeOf(entries[t])

(* The condition of the eviction loop.                                      *)
Overfull(count, bytes) == count > Maximum \/ bytes > MaximumBytes

(***************************************************************************)
(* addLocked: a body larger than the whole cache is not stored; otherwise  *)
(* it replaces the tile's entry at the front of the list and the entries   *)
(* at the back are removed, one by one, while there are too many entries   *)
(* or too many bytes by the running total.                                 *)
(***************************************************************************)
Add(t, entry) ==
  LET order  == Cons(t, RemoveFirst(recent, t))
      placed == [entries EXCEPT ![t] = entry]
      total  == usedBytes - SizeOf(entries[t]) + SizeOf(entry)
      Back(n) == {order[i] : i \in Len(order) - n + 1 .. Len(order)}
      Fits(n) == ~ Overfull(Len(order) - n, total - Bytes(placed, Back(n)))
      n == Min({m \in 0 .. Len(order) : Fits(m)})
  IN IF entry.body.size > MaximumBytes
     THEN UNCHANGED store
     ELSE /\ entries' = [k \in Tiles |-> IF k \in Back(n) THEN NoEntry ELSE placed[k]]
          /\ recent' = SubSeq(order, 1, Len(order) - n)
          /\ usedBytes' = total - Bytes(placed, Back(n))

(* newTileCache *)
CacheInit ==
  /\ entries = [t \in Tiles |-> NoEntry]
  /\ recent = <<>>
  /\ usedBytes = 0
  /\ flights = [t \in Tiles |-> NoLeader]

-----------------------------------------------------------------------------
(* The map, the LRU list and the byte counter describe the same entries,    *)
(* and they respect both limits.  The three are updated separately by       *)
(* getLocked, addLocked, invalidate and removeLocked; if they drifted       *)
(* apart, the eviction loop would evict good tiles or never end.            *)
StoreConsistent ==
  /\ Len(recent) = Cardinality(Stored)
  /\ ToSet(recent) = Stored
  /\ usedBytes = Bytes(entries, Stored)
  /\ Len(recent) <= Maximum
  /\ usedBytes <= MaximumBytes
=============================================================================
