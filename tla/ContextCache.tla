----------------------------- MODULE ContextCache -----------------------------
(***************************************************************************)
(* ollama.ContextCache, shared by the calls that name it: entries with a   *)
(* time to live, counted hits, and an eviction when it is full.  Put and   *)
(* Clear hold the write lock and are one step; Get holds the read lock     *)
(* only, and what it writes to the entry it found is shared with the other *)
(* Gets: it is one step for each access of the entry.                      *)
(***************************************************************************)
EXTENDS Integers, FiniteSets, FiniteSetsExt

CONSTANTS
    Clients,        \* goroutines that use the cache
    Contexts,       \* the message lists they ask with
    Keys, KeyOf,    \* generateCacheKey, a function from Contexts to Keys
    MaxSize, TTL,   \* NewContextCache's arguments
    MaxTime         \* bound: the clock

ASSUME CacheAssumption ==
    /\ KeyOf \in [Contexts -> Keys]
    /\ MaxSize \in Int /\ TTL \in Int /\ MaxTime \in Nat

VARIABLES
    now,            \* time.Now()
    entries,        \* the entries: a function from some of the keys
    reading,        \* the Get of a client: found, and what it is to write
    \* History variables:
    hits,           \* Gets that found the entry a key has now
    raced,          \* keys whose present entry two Gets had at once
    used            \* the last time a Get read at, or a Put, for each key

cacheVars == <<now, entries, reading, hits, raced, used>>

\* CacheEntry; its tokens are not in question here.
Entry == [messages : Contexts, created : 0..MaxTime, accessed : 0..MaxTime,
          count : Nat]
NotReading == [step |-> "none"]
Get == {NotReading} \cup
       [step : {"found", "touched"}, key : Keys, at : 0..MaxTime, count : Nat]

CacheInit ==
    /\ now = 0
    /\ entries = [k \in {} |-> NotReading]
    /\ reading = [c \in Clients |-> NotReading]
    /\ hits = [k \in Keys |-> 0] /\ raced = {}
    /\ used = [k \in Keys |-> 0]

Expired(e) == now - e.created > TTL
Found(m) == KeyOf[m] \in DOMAIN entries /\ ~Expired(entries[KeyOf[m]])
ReadersOf(k) == {c \in Clients : reading[c] # NotReading /\ reading[c].key = k}
Unlocked == \A c \in Clients : reading[c] = NotReading

Tick ==
    /\ now < MaxTime /\ now' = now + 1
    /\ UNCHANGED <<entries, reading, hits, raced, used>>

------------------------------------------------------------------------------
\* ContextCache.Get.

\* An entry that expired is neither returned nor removed.
GetMiss(c, m) ==
    /\ reading[c] = NotReading /\ ~Found(m)
    /\ UNCHANGED cacheVars

\* The entry, and the time it is read at.
GetFound(c, m) ==
    /\ reading[c] = NotReading /\ Found(m)
    /\ reading' = [reading EXCEPT ![c] =
                     [step |-> "found", key |-> KeyOf[m], at |-> now, count |-> 0]]
    /\ raced' = IF ReadersOf(KeyOf[m]) = {} THEN raced ELSE raced \cup {KeyOf[m]}
    /\ UNCHANGED <<now, entries, hits, used>>

\* entry.LastAccessed is set, and entry.AccessCount read,
Touch(c) ==
    /\ reading[c].step = "found"
    /\ LET k == reading[c].key IN
       /\ entries' = [entries EXCEPT ![k].accessed = reading[c].at]
       /\ reading' = [reading EXCEPT ![c].step = "touched",
                                     ![c].count = entries[k].count]
       /\ used' = [used EXCEPT ![k] = Max({@, reading[c].at})]
    /\ UNCHANGED <<now, hits, raced>>

\* and set to one more than what was read.
Count(c) ==
    /\ reading[c].step = "touched"
    /\ LET k == reading[c].key IN
       /\ entries' = [entries EXCEPT ![k].count = reading[c].count + 1]
       /\ hits' = [hits EXCEPT ![k] = @ + 1]
    /\ reading' = [reading EXCEPT ![c] = NotReading]
    /\ UNCHANGED <<now, raced, used>>

------------------------------------------------------------------------------
\* ContextCache.Put and Clear.

Live == {k \in DOMAIN entries : ~Expired(entries[k])}
Oldest(S) == {k \in S : \A j \in S : entries[k].accessed <= entries[j].accessed}

\* Mutant: the oldest entry is the one that was put first.
EvictExpiredOrFirst(kept) ==
    IF Cardinality(Live) >= MaxSize /\ Live # {}
    THEN \E k \in Live : /\ \A j \in Live : entries[k].created <= entries[j].created
                         /\ kept = Live \ {k}
    ELSE kept = Live

\* evictExpiredOrOldest: the keys it leaves. A map is gone through in any
\* order, so that any of the least recently accessed may go.
EvictExpiredOrOldest(kept) ==
    IF Cardinality(Live) >= MaxSize /\ Live # {}
    THEN \E k \in Oldest(Live) : kept = Live \ {k}
    ELSE kept = Live

\* Mutant: room is made only once the limit is passed.
MakeRoomLate(kept) ==
    IF Cardinality(DOMAIN entries) > MaxSize THEN EvictExpiredOrOldest(kept)
    ELSE kept = DOMAIN entries

\* The entry of the key itself may be what goes, or be there and another go.
MakeRoom(kept) ==
    IF Cardinality(DOMAIN entries) >= MaxSize THEN EvictExpiredOrOldest(kept)
    ELSE kept = DOMAIN entries

\* Mutant: the put is not counted as an access.
PutUncounted(m) ==
    /\ Unlocked
    /\ \E kept \in SUBSET DOMAIN entries :
         /\ MakeRoom(kept)
         /\ entries' = [k \in kept \cup {KeyOf[m]} |->
               IF k = KeyOf[m] THEN [messages |-> m, created |-> now,
                                     accessed |-> now, count |-> 0]
               ELSE entries[k]]
    /\ hits' = [hits EXCEPT ![KeyOf[m]] = 0]
    /\ raced' = raced \ {KeyOf[m]}
    /\ used' = [used EXCEPT ![KeyOf[m]] = now]
    /\ UNCHANGED <<now, reading>>

Put(m) ==
    /\ Unlocked
    /\ \E kept \in SUBSET DOMAIN entries :
         /\ MakeRoom(kept)
         /\ entries' = [k \in kept \cup {KeyOf[m]} |->
               IF k = KeyOf[m] THEN [messages |-> m, created |-> now,
                                     accessed |-> now, count |-> 1]
               ELSE entries[k]]
    /\ hits' = [hits EXCEPT ![KeyOf[m]] = 0]
    /\ raced' = raced \ {KeyOf[m]}
    /\ used' = [used EXCEPT ![KeyOf[m]] = now]
    /\ UNCHANGED <<now, reading>>

Clear ==
    /\ Unlocked
    /\ entries' = [k \in {} |-> NotReading]
    /\ hits' = [k \in Keys |-> 0] /\ raced' = {}
    /\ UNCHANGED <<now, reading, used>>

\* Stats: the number of entries, and the hits they count together; the put of
\* an entry is not one.
HitsOf(k) == entries[k].count - 1
Stats == [entries |-> Cardinality(DOMAIN entries),
          totalHits |-> MapThenSumSet(HitsOf, DOMAIN entries)]

------------------------------------------------------------------------------
\* Properties.

CacheTypeOK ==
    /\ now \in 0..MaxTime
    /\ DOMAIN entries \subseteq Keys
    /\ \A k \in DOMAIN entries :
         entries[k] \in Entry /\ KeyOf[entries[k].messages] = k
    /\ reading \in [Clients -> Get]
    /\ \A c \in Clients : reading[c] # NotReading => reading[c].key \in DOMAIN entries
    /\ hits \in [Keys -> Nat] /\ raced \subseteq Keys
    /\ used \in [Keys -> 0..MaxTime]

\* The cache never outgrows its capacity, but for the one entry that even a
\* cache without room holds.
WithinCapacity == Stats.entries <= Max({1, MaxSize})

\* What Stats adds up tells, of every entry, of no hit that was not one, whatever
\* Gets run at once, and of every hit when no two Gets had the entry at once.
HitsCounted ==
    \A k \in DOMAIN entries :
        HitsOf(k) <= hits[k] /\ (k \notin raced => HitsOf(k) = hits[k])

\* An entry that has not expired goes only when there is no room, alone, and,
\* if no two Gets ran at once, after every other was used last.
EvictsTheLeastRecent ==
    [][LET gone == Live \ DOMAIN entries' IN
       DOMAIN entries' # {} /\ gone # {} =>
         /\ Cardinality(gone) = 1 /\ Cardinality(Live) >= MaxSize
         /\ raced \cap Live = {} =>
              \A k \in gone, j \in Live \ gone : used[k] <= used[j]]_cacheVars
==============================================================================
