------------------------------- MODULE Cache -------------------------------
(***************************************************************************)
(* MemoryCache of agent_ctl/core/cache.py: get and set with a time to live *)
(* and eviction of the least recently used.  Both hold the lock all along, *)
(* so each is one step; both copy the response, so nobody else changes     *)
(* what is stored.  The OrderedDict is the order of its keys, least        *)
(* recently used first, and the entry of each.  Of a time only what is     *)
(* left until then matters: it counts down to -1, just past.               *)
(***************************************************************************)
EXTENDS Integers, Sequences, SequencesExt, FiniteSets

CONSTANTS CacheKeys, Responses, NoResponse,
          MaxTtl,       \* cache_ttl_s: the largest time to live, in ticks
          MaxEntries    \* max_entries; 0 stands for no bound

ASSUME CacheAssumption ==
  /\ MaxTtl \in Nat
  /\ MaxEntries \in Nat
  /\ NoResponse \notin Responses

VARIABLES lru,        \* keys of the entries, least recently used first
          entry,      \* per key: [resp, left], meaningful for keys in lru
          answer,     \* what the last get returned
          stored,     \* history, per key: the entry it was last given
          usedSince   \* history, per key: keys set or hit since it last was

cacheVars == <<lru, entry, answer, stored, usedSince>>

Entry == [resp : Responses \cup {NoResponse}, left : -1..MaxTtl]
NoEntry == [resp |-> NoResponse, left |-> -1]

CacheTypeOK ==
  /\ lru \in Seq(CacheKeys) /\ IsInjective(lru)
  /\ MaxEntries > 0 => Len(lru) <= MaxEntries
  /\ entry \in [CacheKeys -> Entry]
  /\ \A k \in CacheKeys : Contains(lru, k) <=> entry[k].resp # NoResponse
  /\ answer \in Responses \cup {NoResponse}
  /\ stored \in [CacheKeys -> Entry]
  /\ usedSince \in [CacheKeys -> SUBSET CacheKeys]

CacheInit ==
  /\ lru = <<>>
  /\ entry = [k \in CacheKeys |-> NoEntry]
  /\ answer = NoResponse
  /\ stored = [k \in CacheKeys |-> NoEntry]
  /\ usedSince = [k \in CacheKeys |-> {}]
----------------------------------------------------------------------------
(* Faulty: an entry is not served at the moment it expires. *)
ExpiredAtEnd(e) == e.left <= 0

(* monotonic() > expires_at. *)
Expired(e) == e.left < 0

(* Faulty: an entry keeps the place it was stored at. *)
UsedInPlace(s, k) == IF Contains(s, k) THEN s ELSE Append(s, k)

(* Inserted or moved to the end. *)
Used(s, k) == Append(RemoveFirst(s, k), k)

(* A set adds one key at most: the oldest goes if that is one too many. *)
KeptInBound(s) == IF MaxEntries > 0 /\ Len(s) > MaxEntries THEN Tail(s) ELSE s

(* Note that k has been used. *)
Use(k) == usedSince' = [j \in CacheKeys |-> IF j = k THEN {} ELSE usedSince[j] \cup {k}]

Miss(k) ==
  /\ ~Contains(lru, k)
  /\ answer' = NoResponse
  /\ UNCHANGED <<lru, entry, stored, usedSince>>

(* An expired entry is removed when it is asked for, not before. *)
GetExpired(k) ==
  /\ Contains(lru, k) /\ Expired(entry[k])
  /\ answer' = NoResponse
  /\ lru' = RemoveFirst(lru, k)
  /\ entry' = [entry EXCEPT ![k] = NoEntry]
  /\ UNCHANGED <<stored, usedSince>>

Hit(k) ==
  /\ Contains(lru, k) /\ ~Expired(entry[k])
  /\ answer' = entry[k].resp
  /\ lru' = Used(lru, k)
  /\ Use(k)
  /\ UNCHANGED <<entry, stored>>

Set(k, r, ttl) ==
  LET e == [resp |-> r, left |-> ttl] IN
  /\ lru' = KeptInBound(Used(lru, k))
  /\ entry' = [j \in CacheKeys |-> IF ~Contains(lru', j) THEN NoEntry
                                   ELSE IF j = k THEN e ELSE entry[j]]
  /\ stored' = [stored EXCEPT ![k] = e]
  /\ Use(k)
  /\ UNCHANGED answer

CacheTick ==
  LET Less(e) == [e EXCEPT !.left = IF @ < 0 THEN @ ELSE @ - 1] IN
  /\ entry' = [k \in CacheKeys |-> Less(entry[k])]
  /\ stored' = [k \in CacheKeys |-> Less(stored[k])]
  /\ UNCHANGED <<lru, answer, usedSince>>

CacheNext ==
  \/ CacheTick
  \/ \E k \in CacheKeys :
       \/ Miss(k) \/ GetExpired(k) \/ Hit(k)
       \/ \E r \in Responses, ttl \in 0..MaxTtl : Set(k, r, ttl)

CacheSpec == CacheInit /\ [][CacheNext]_cacheVars
----------------------------------------------------------------------------
(* What the cache owes its callers for a key it still has: the response    *)
(* stored last, up to and including the moment it expires.                 *)
Owed == [k \in CacheKeys |-> IF Contains(lru, k) /\ stored[k].left >= 0
                             THEN stored[k].resp ELSE NoResponse]

Forgetful == INSTANCE ForgetfulCache WITH known <- Owed

(* No call is answered with an expired response, one that a later set      *)
(* replaced, or one of another key; and an entry is served to its end.     *)
CacheImplements == Forgetful!Spec

(* A response is lost before it expires only to as many other keys as the  *)
(* cache has entries, all used since: a hit protects as well as a set, and *)
(* an unbounded cache loses nothing.                                       *)
RecentlyUsedKept ==
  \A k \in CacheKeys : stored[k].left >= 0 /\ ~Contains(lru, k) =>
    MaxEntries > 0 /\ Cardinality(usedSince[k]) >= MaxEntries
============================================================================
