------------------------------ MODULE ChatProofs ------------------------------
(***************************************************************************)
(* Proofs about the chats of two model providers.                          *)
(*                                                                         *)
(* OllamaChat and the ContextCache its calls share, for any number of      *)
(* goroutines, keys and entries, any capacity and time to live; then       *)
(* OpenAIStream, for any streams a server may send.                        *)
(***************************************************************************)
EXTENDS OllamaChat, OpenAIStream, FiniteSetTheorems, SequenceTheorems, TLAPS

Reads(c, k) == reading[c] # NotReading /\ reading[c].key = k

\* A Get that has read the count is to write no more than one hit above the
\* truth; where it is alone, nothing it read has changed.
ReadInv(c) ==
    reading[c] # NotReading =>
        LET k == reading[c].key IN
        /\ reading[c].at <= now
        /\ reading[c].step = "touched" => reading[c].count - 1 <= hits[k]
        /\ k \notin raced =>
             /\ \A d \in Clients : Reads(d, k) => d = c
             /\ reading[c].step = "touched" => reading[c].count = entries[k].count
             /\ reading[c].step = "found" => used[k] <= reading[c].at

\* LastAccessed is the last access, but for entries two Gets had at once.
UsedInv ==
    /\ \A k \in Keys : used[k] <= now
    /\ \A k \in DOMAIN entries \ raced : entries[k].accessed = used[k]

CacheInv ==
    /\ CacheTypeOK /\ IsFiniteSet(DOMAIN entries) /\ WithinCapacity
    /\ HitsCounted /\ UsedInv
    /\ \A c \in Clients : ReadInv(c)

\* The answer as far as it was read.
ChatInv(c) ==
    LET whole == lines[c] = Lines(asked[c]) IN
    /\ pc[c] \in {"idle", "pull"} =>
         lines[c] = 0 /\ shown[c] = 0 /\ gathered[c] = 0 /\ content[c] = 0
    /\ pc[c] # "idle" =>
         /\ asked[c] \in Question /\ lines[c] <= Lines(asked[c])
         /\ gathered[c] = IF whole THEN asked[c].pieces
                          ELSE IF asked[c].streaming THEN lines[c] ELSE 0
         /\ content[c] = IF whole THEN asked[c].pieces ELSE 0
         /\ shown[c] = IF asked[c].streaming THEN gathered[c] ELSE 0
    /\ pc[c] \in {"look up", "hit", "store"} => cut[c] = (lines[c] < Lines(asked[c]))

IInv == CacheInv /\ TypeOK /\ \A c \in Clients : ChatInv(c)

------------------------------------------------------------------------------
\* The larger of two numbers, and the types of what the cache keeps.

LEMMA MaxOfTwo ==
    ASSUME NEW a \in Int, NEW b \in Int
    PROVE  Max({a, b}) = IF a >= b THEN a ELSE b
<1> DEFINE m == IF a >= b THEN a ELSE b
<1>1. m \in {a, b} /\ \A y \in {a, b} : m >= y
  OBVIOUS
<1>2. \A x \in {a, b} : (\A y \in {a, b} : x >= y) => x = m
  OBVIOUS
<1> HIDE DEF m
<1>3. Max({a, b}) \in {a, b} /\ \A y \in {a, b} : Max({a, b}) >= y
  BY <1>1 DEF Max
<1>4. Max({a, b}) = m
  BY <1>2, <1>3
<1> QED BY <1>4 DEF m

LEMMA CacheFacts ==
    ASSUME CacheTypeOK
    PROVE  /\ now \in Int /\ MaxTime \in Nat /\ now \in 0..MaxTime
           /\ \A k \in DOMAIN entries : /\ k \in Keys /\ entries[k] \in Entry
                                        /\ entries[k].accessed \in Int
                                        /\ entries[k].count \in Nat
                                        /\ KeyOf[entries[k].messages] = k
           /\ \A k \in Keys : /\ hits[k] \in Nat /\ used[k] \in 0..MaxTime
                              /\ used[k] \in Int
           /\ \A c \in Clients : reading[c] # NotReading =>
                /\ reading[c] \in [step : {"found", "touched"}, key : Keys,
                                   at : 0..MaxTime, count : Nat]
                /\ reading[c].step \in {"found", "touched"}
                /\ reading[c].key \in DOMAIN entries /\ reading[c].key \in Keys
                /\ reading[c].at \in 0..MaxTime /\ reading[c].at \in Int
                /\ reading[c].count \in Nat
           /\ \A c \in Clients : reading[c].step \in {"found", "touched"} =>
                reading[c] # NotReading
<1>1. MaxTime \in Nat
  BY CacheAssumption
<1>2. now \in 0..MaxTime /\ now \in Int
  BY <1>1 DEF CacheTypeOK
<1>3. \A k \in DOMAIN entries : /\ k \in Keys /\ entries[k] \in Entry
                                /\ entries[k].accessed \in Int
                                /\ entries[k].count \in Nat
                                /\ KeyOf[entries[k].messages] = k
  BY <1>1 DEF CacheTypeOK, Entry
<1>4. \A k \in Keys : hits[k] \in Nat /\ used[k] \in 0..MaxTime /\ used[k] \in Int
  BY <1>1 DEF CacheTypeOK
<1>5. ASSUME NEW c \in Clients, reading[c] # NotReading
      PROVE  /\ reading[c] \in [step : {"found", "touched"}, key : Keys,
                                at : 0..MaxTime, count : Nat]
             /\ reading[c].step \in {"found", "touched"}
             /\ reading[c].key \in DOMAIN entries /\ reading[c].key \in Keys
             /\ reading[c].at \in 0..MaxTime /\ reading[c].at \in Int
             /\ reading[c].count \in Nat
  <2>1. reading[c] \in [step : {"found", "touched"}, key : Keys,
                        at : 0..MaxTime, count : Nat]
    BY <1>5 DEF CacheTypeOK, Get
  <2>2. reading[c].key \in DOMAIN entries
    BY <1>5 DEF CacheTypeOK
  <2>3. reading[c].at \in 0..MaxTime
    BY <2>1
  <2>4. reading[c].at \in Int
    BY <1>1, <2>3
  <2> QED BY <2>1, <2>2, <2>3, <2>4
<1>6. \A c \in Clients : reading[c].step \in {"found", "touched"} => reading[c] # NotReading
  BY DEF NotReading
<1> QED BY <1>1, <1>2, <1>3, <1>4, <1>5, <1>6

\* A Get that a step leaves alone, and the entry it has found as well.
LEMMA OtherRead ==
    ASSUME NEW d \in Clients, ReadInv(d), now' = now, raced' = raced,
           NEW k, k = reading[d].key, reading'[d] = reading[d],
           hits'[k] = hits[k], used'[k] = used[k], entries'[k].count = entries[k].count,
           \A e \in Clients : reading'[e] # NotReading /\ reading'[e].key = k => Reads(e, k)
    PROVE  ReadInv(d)'
<1> SUFFICES ASSUME reading[d] # NotReading PROVE ReadInv(d)'
  BY DEF ReadInv
<1>1. /\ reading[d].at <= now
      /\ reading[d].step = "touched" => reading[d].count - 1 <= hits[k]
  BY DEF ReadInv
<1>2. k \notin raced =>
         /\ \A e \in Clients : Reads(e, k) => e = d
         /\ reading[d].step = "touched" => reading[d].count = entries[k].count
         /\ reading[d].step = "found" => used[k] <= reading[d].at
  BY DEF ReadInv
<1>3. \A e \in Clients : Reads(e, k)' => Reads(e, k)
  BY DEF Reads
<1> QED BY <1>1, <1>2, <1>3 DEF ReadInv

LEMMA CacheSame ==
    ASSUME CacheInv, UNCHANGED cacheVars
    PROVE  CacheInv'
<1>1. /\ now' = now /\ entries' = entries /\ reading' = reading /\ hits' = hits
      /\ raced' = raced /\ used' = used
  BY DEF cacheVars
<1> QED BY <1>1 DEF CacheInv, CacheTypeOK, WithinCapacity, Stats, HitsCounted, HitsOf, UsedInv,
                    ReadInv, Reads, Get, Entry

LEMMA TickKeeps ==
    ASSUME CacheInv, Tick
    PROVE  CacheInv'
<1>1. /\ now' = now + 1 /\ now < MaxTime /\ entries' = entries /\ reading' = reading
      /\ hits' = hits /\ raced' = raced /\ used' = used /\ CacheTypeOK
  BY DEF Tick, CacheInv
<1>2. now \in Int /\ now' \in 0..MaxTime /\ now <= now'
  BY <1>1, CacheFacts
<1>3. CacheTypeOK'
  BY <1>1, <1>2 DEF CacheTypeOK, Get, Entry
<1>4. UsedInv'
  <2>1. \A k \in Keys : used[k] <= now'
    BY <1>1, <1>2, CacheFacts DEF CacheInv, UsedInv
  <2> QED BY <1>1, <2>1 DEF CacheInv, UsedInv
<1>5. ASSUME NEW c \in Clients PROVE ReadInv(c)'
  <2>1. reading[c] # NotReading => reading[c].at <= now'
    BY <1>1, <1>2, <1>5, CacheFacts DEF CacheInv, ReadInv
  <2>2. ReadInv(c)
    BY <1>5 DEF CacheInv
  <2> QED BY <1>1, <2>1, <2>2 DEF ReadInv, Reads
<1>6. WithinCapacity' /\ HitsCounted' /\ IsFiniteSet(DOMAIN entries')
  BY <1>1 DEF CacheInv, WithinCapacity, Stats, HitsCounted, HitsOf
<1> QED BY <1>3, <1>4, <1>5, <1>6 DEF CacheInv

------------------------------------------------------------------------------
\* Get.

LEMMA GetFoundKeeps ==
    ASSUME CacheInv, NEW c \in Clients, NEW m \in Contexts, GetFound(c, m)
    PROVE  CacheInv' /\ reading'[c] # NotReading
<1> DEFINE k == KeyOf[m]
           r == [step |-> "found", key |-> k, at |-> now, count |-> 0]
<1>1. /\ reading[c] = NotReading /\ k \in DOMAIN entries
      /\ reading' = [reading EXCEPT ![c] = r]
      /\ raced' = IF ReadersOf(k) = {} THEN raced ELSE raced \cup {k}
      /\ now' = now /\ entries' = entries /\ hits' = hits /\ used' = used /\ CacheTypeOK
  BY DEF GetFound, Found, CacheInv
<1>2. k \in Keys
  BY <1>1 DEF CacheTypeOK
<1>3. r \in Get /\ r # NotReading /\ r.key = k /\ r.at = now /\ r.step = "found"
  BY <1>1, <1>2, CacheFacts DEF Get, NotReading
<1> HIDE DEF r
<1>4. /\ reading \in [Clients -> Get] /\ reading' \in [Clients -> Get] /\ reading'[c] = r
      /\ \A d \in Clients \ {c} : reading'[d] = reading[d]
  BY <1>1, <1>3 DEF CacheTypeOK
<1>5. raced \subseteq raced' /\ raced' \subseteq Keys
  BY <1>1, <1>2 DEF CacheTypeOK
<1>6. CacheTypeOK'
  <2>1. \A d \in Clients : reading'[d] # NotReading => reading'[d].key \in DOMAIN entries
    BY <1>1, <1>3, <1>4 DEF CacheTypeOK
  <2> QED BY <1>1, <1>4, <1>5, <2>1 DEF CacheTypeOK, Get, Entry
<1>7. WithinCapacity' /\ HitsCounted' /\ UsedInv' /\ IsFiniteSet(DOMAIN entries')
  BY <1>1, <1>5 DEF CacheInv, WithinCapacity, Stats, HitsCounted, HitsOf, UsedInv
<1>8. ASSUME NEW d \in Clients PROVE ReadInv(d)'
  <2>1. CASE d = c
    <3>1. now <= now
      BY <1>1, CacheFacts
    <3>2. used[k] <= now
      BY <1>2 DEF CacheInv, UsedInv
    <3>3. k \notin raced' => \A e \in Clients : Reads(e, k)' => e = c
      BY <1>1, <1>4 DEF ReadersOf, Reads
    <3> QED BY <1>1, <1>3, <1>4, <2>1, <3>1, <3>2, <3>3 DEF ReadInv
  <2>2. CASE d # c /\ reading[d] # NotReading
    <3>1. reading'[d] = reading[d] /\ ReadInv(d)
      BY <1>4, <1>8, <2>2 DEF CacheInv
    <3>2. reading[d].key = k => k \in raced'
      BY <1>1, <1>8, <2>2 DEF ReadersOf
    <3>3. reading[d].key # k => \A e \in Clients :
             reading'[e] # NotReading /\ reading'[e].key = reading[d].key
                => Reads(e, reading[d].key)
      BY <1>3, <1>4 DEF Reads
    <3> QED BY <1>1, <1>5, <3>1, <3>2, <3>3 DEF ReadInv, Reads
  <2>3. CASE d # c /\ reading[d] = NotReading
    BY <1>4, <1>8, <2>3 DEF ReadInv
  <2> QED BY <2>1, <2>2, <2>3
<1> QED BY <1>3, <1>4, <1>6, <1>7, <1>8 DEF CacheInv

LEMMA TouchKeeps ==
    ASSUME CacheInv, NEW c \in Clients, Touch(c)
    PROVE  CacheInv' /\ reading'[c] # NotReading
<1>0. PICK k : k = reading[c].key
  OBVIOUS
<1>1. /\ reading[c].step = "found" /\ now' = now /\ hits' = hits /\ raced' = raced
      /\ entries' = [entries EXCEPT ![k].accessed = reading[c].at]
      /\ reading' = [reading EXCEPT ![c].step = "touched", ![c].count = entries[k].count]
      /\ used' = [used EXCEPT ![k] = Max({@, reading[c].at})]
      /\ CacheTypeOK
  BY <1>0 DEF Touch, CacheInv
<1>2. /\ reading[c] # NotReading /\ k \in DOMAIN entries /\ k \in Keys
      /\ reading[c] \in [step : {"found", "touched"}, key : Keys,
                         at : 0..MaxTime, count : Nat]
      /\ reading[c].at \in 0..MaxTime /\ reading[c].at \in Int /\ used[k] \in 0..MaxTime
      /\ used[k] \in Int /\ entries[k].count \in Nat /\ entries[k] \in Entry /\ now \in Int
  BY <1>0, <1>1, CacheFacts
<1>3. /\ DOMAIN entries' = DOMAIN entries
      /\ \A j \in DOMAIN entries \ {k} : entries'[j] = entries[j]
      /\ entries'[k] \in Entry /\ entries'[k].messages = entries[k].messages
      /\ entries'[k].accessed = reading[c].at /\ entries'[k].count = entries[k].count
  BY <1>1, <1>2 DEF Entry
<1>4. /\ reading' \in [Clients -> Get]
      /\ \A d \in Clients \ {c} : reading'[d] = reading[d]
      /\ reading'[c] # NotReading /\ reading'[c].key = k /\ reading'[c].at = reading[c].at
      /\ reading'[c].step = "touched" /\ reading'[c].count = entries[k].count
  <2> DEFINE r == [reading[c] EXCEPT !.step = "touched", !.count = entries[k].count]
  <2>1. /\ r \in [step : {"found", "touched"}, key : Keys, at : 0..MaxTime, count : Nat]
        /\ r.key = reading[c].key /\ r.at = reading[c].at
        /\ r.step = "touched" /\ r.count = entries[k].count
    BY <1>2
  <2>2. reading \in [Clients -> Get] /\ reading' = [reading EXCEPT ![c] = r]
    BY <1>1 DEF CacheTypeOK
  <2> HIDE DEF r
  <2>3. r \in Get /\ r # NotReading
    BY <2>1 DEF Get, NotReading
  <2> QED BY <1>0, <2>1, <2>2, <2>3
<1>5. /\ used' \in [Keys -> 0..MaxTime] /\ \A j \in Keys \ {k} : used'[j] = used[j]
      /\ used'[k] = IF used[k] >= reading[c].at THEN used[k] ELSE reading[c].at
  <2>1. Max({used[k], reading[c].at}) = IF used[k] >= reading[c].at THEN used[k]
                                        ELSE reading[c].at
    BY <1>2, MaxOfTwo
  <2>2. used \in [Keys -> 0..MaxTime] /\ used' = [used EXCEPT ![k] = Max({used[k], reading[c].at})]
    BY <1>1 DEF CacheTypeOK
  <2>3. Max({used[k], reading[c].at}) \in 0..MaxTime
    BY <1>2, <2>1
  <2> QED BY <1>2, <2>1, <2>2, <2>3
<1>6. CacheTypeOK'
  <2>1. \A d \in Clients : reading'[d] # NotReading => reading'[d].key \in DOMAIN entries
    BY <1>1, <1>2, <1>4 DEF CacheTypeOK
  <2>2. \A j \in DOMAIN entries : entries'[j] \in Entry /\ KeyOf[entries'[j].messages] = j
    BY <1>1, <1>3 DEF CacheTypeOK
  <2> QED BY <1>1, <1>3, <1>4, <1>5, <2>1, <2>2 DEF CacheTypeOK, Get, Entry
<1>7. WithinCapacity' /\ HitsCounted' /\ IsFiniteSet(DOMAIN entries')
  <2>1. \A j \in DOMAIN entries : entries'[j].count = entries[j].count
    BY <1>3
  <2> QED BY <1>1, <1>3, <2>1 DEF CacheInv, WithinCapacity, Stats, HitsCounted, HitsOf
<1>8. ReadInv(c) /\ reading[c].at <= now
  BY <1>2 DEF CacheInv, ReadInv
<1>9. UsedInv'
  <2>1. \A j \in Keys : used[j] <= now
    BY DEF CacheInv, UsedInv
  <2>2. used'[k] <= now
    BY <1>2, <1>5, <1>8, <2>1
  <2>3. k \notin raced => used'[k] = reading[c].at
    <3>1. k \notin raced => used[k] <= reading[c].at
      BY <1>0, <1>1, <1>2, <1>8 DEF ReadInv
    <3> QED BY <1>2, <1>5, <3>1
  <2>4. \A j \in DOMAIN entries \ raced : j # k => entries'[j].accessed = used'[j]
    BY <1>1, <1>3, <1>5, CacheFacts DEF CacheInv, UsedInv
  <2> QED BY <1>1, <1>3, <1>5, <2>1, <2>2, <2>3, <2>4 DEF UsedInv
<1>10. ASSUME NEW d \in Clients, NEW e \in Clients
       PROVE  reading'[d] # NotReading <=> reading[d] # NotReading
  BY <1>2, <1>4
<1>11. \A d \in Clients : \A j : (reading'[d] # NotReading /\ reading'[d].key = j) <=> Reads(d, j)
  BY <1>0, <1>2, <1>4 DEF Reads
<1>12. ASSUME NEW d \in Clients PROVE ReadInv(d)'
  <2>1. CASE d = c
    <3>1. HitsOf(k) <= hits[k]
      BY <1>2 DEF CacheInv, HitsCounted
    <3>2. k \notin raced => \A e \in Clients : Reads(e, k) => e = c
      BY <1>0, <1>2, <1>8 DEF ReadInv
    <3> QED BY <1>1, <1>3, <1>4, <1>8, <1>11, <2>1, <3>1, <3>2 DEF ReadInv, Reads, HitsOf
  <2>2. CASE d # c /\ reading[d] # NotReading
    <3>1. reading'[d] = reading[d] /\ ReadInv(d) /\ reading[d].key \in Keys
      BY <1>1, <1>4, <1>12, <2>2, CacheFacts DEF CacheInv
    <3>2. CASE reading[d].key = k
      <4>1. k \in raced
        BY <1>0, <1>2, <1>8, <1>12, <2>2, <3>2 DEF ReadInv, Reads
      <4> QED BY <1>1, <2>2, <3>1, <3>2, <4>1 DEF ReadInv
    <3>3. CASE reading[d].key # k
      <4>1. reading[d].key \in DOMAIN entries
        BY <1>1, <2>2, CacheFacts
      <4>2. /\ entries'[reading[d].key] = entries[reading[d].key]
            /\ used'[reading[d].key] = used[reading[d].key]
        BY <1>3, <1>5, <3>1, <3>3, <4>1
      <4>3. \A e \in Clients :
               reading'[e] # NotReading /\ reading'[e].key = reading[d].key
                  => Reads(e, reading[d].key)
        BY <1>11
      <4> QED BY <1>1, <1>12, <3>1, <4>2, <4>3, OtherRead
    <3> QED BY <3>2, <3>3
  <2>3. CASE d # c /\ reading[d] = NotReading
    BY <1>4, <1>12, <2>3 DEF ReadInv
  <2> QED BY <2>1, <2>2, <2>3
<1> QED BY <1>4, <1>6, <1>7, <1>9, <1>12 DEF CacheInv

LEMMA CountKeeps ==
    ASSUME CacheInv, NEW c \in Clients, Count(c)
    PROVE  CacheInv' /\ reading'[c] = NotReading
<1>0. PICK k : k = reading[c].key
  OBVIOUS
<1>1. /\ reading[c].step = "touched" /\ now' = now /\ used' = used /\ raced' = raced
      /\ entries' = [entries EXCEPT ![k].count = reading[c].count + 1]
      /\ reading' = [reading EXCEPT ![c] = NotReading]
      /\ hits' = [hits EXCEPT ![k] = @ + 1]
      /\ CacheTypeOK
  BY <1>0 DEF Count, CacheInv
<1>2. /\ reading[c] # NotReading /\ k \in DOMAIN entries /\ k \in Keys
      /\ reading[c].count \in Nat /\ entries[k].count \in Nat /\ entries[k] \in Entry
      /\ hits[k] \in Nat
  BY <1>0, <1>1, CacheFacts
<1>3. /\ DOMAIN entries' = DOMAIN entries
      /\ \A j \in DOMAIN entries \ {k} : entries'[j] = entries[j]
      /\ entries'[k] \in Entry /\ entries'[k].messages = entries[k].messages
      /\ entries'[k].accessed = entries[k].accessed
      /\ entries'[k].count = reading[c].count + 1
  <2>1. reading[c].count + 1 \in Nat
    BY <1>2
  <2> QED BY <1>1, <1>2, <2>1 DEF Entry
<1>4. /\ reading' \in [Clients -> Get] /\ reading'[c] = NotReading
      /\ \A d \in Clients \ {c} : reading'[d] = reading[d]
  BY <1>1 DEF CacheTypeOK, Get
<1>5. /\ hits' \in [Keys -> Nat] /\ hits'[k] = hits[k] + 1
      /\ \A j \in Keys \ {k} : hits'[j] = hits[j]
  BY <1>1, <1>2 DEF CacheTypeOK
<1>6. CacheTypeOK'
  <2>1. \A d \in Clients : reading'[d] # NotReading => reading'[d].key \in DOMAIN entries
    BY <1>1, <1>4 DEF CacheTypeOK
  <2>2. \A j \in DOMAIN entries : entries'[j] \in Entry /\ KeyOf[entries'[j].messages] = j
    BY <1>1, <1>3 DEF CacheTypeOK
  <2> QED BY <1>1, <1>3, <1>4, <1>5, <2>1, <2>2 DEF CacheTypeOK, Get, Entry
<1>7. /\ reading[c].count - 1 <= hits[k]
      /\ k \notin raced => reading[c].count = entries[k].count
      /\ k \notin raced => \A d \in Clients : Reads(d, k) => d = c
  BY <1>0, <1>1, <1>2 DEF CacheInv, ReadInv
<1>8. WithinCapacity' /\ IsFiniteSet(DOMAIN entries')
  BY <1>3 DEF CacheInv, WithinCapacity, Stats
<1>9. HitsCounted'
  <2>1. HitsCounted
    BY DEF CacheInv
  <2>2. entries'[k].count - 1 <= hits'[k]
    BY <1>2, <1>3, <1>5, <1>7
  <2>3. k \notin raced => entries'[k].count - 1 = hits'[k]
    BY <1>2, <1>3, <1>5, <1>7, <2>1 DEF HitsCounted, HitsOf
  <2>4. \A j \in DOMAIN entries \ {k} : entries'[j] = entries[j] /\ hits'[j] = hits[j]
    BY <1>1, <1>3, <1>5, CacheFacts
  <2> QED BY <1>1, <1>3, <2>1, <2>2, <2>3, <2>4 DEF HitsCounted, HitsOf
<1>10. UsedInv'
  <2>1. \A j \in DOMAIN entries : entries'[j].accessed = entries[j].accessed
    BY <1>3
  <2> QED BY <1>1, <1>3, <2>1 DEF CacheInv, UsedInv
<1>11. ASSUME NEW d \in Clients PROVE ReadInv(d)'
  <2>1. CASE d = c \/ reading[d] = NotReading
    BY <1>4, <1>11, <2>1 DEF ReadInv
  <2>2. CASE d # c /\ reading[d] # NotReading
    <3>1. reading'[d] = reading[d] /\ ReadInv(d) /\ reading[d].key \in Keys
          /\ reading[d].key \in DOMAIN entries /\ reading[d].count \in Nat
      BY <1>1, <1>4, <1>11, <2>2, CacheFacts DEF CacheInv
    <3>2. CASE reading[d].key = k
      <4>1. k \in raced
        BY <1>7, <1>11, <2>2, <3>2 DEF Reads
      <4>2. reading[d].step = "touched" => reading[d].count - 1 <= hits'[k]
        BY <1>2, <1>5, <2>2, <3>1, <3>2 DEF ReadInv
      <4> QED BY <1>1, <2>2, <3>1, <3>2, <4>1, <4>2 DEF ReadInv
    <3>3. CASE reading[d].key # k
      <4>1. /\ entries'[reading[d].key] = entries[reading[d].key]
            /\ hits'[reading[d].key] = hits[reading[d].key]
        BY <1>3, <1>5, <3>1, <3>3
      <4>2. \A e \in Clients :
               reading'[e] # NotReading /\ reading'[e].key = reading[d].key
                  => Reads(e, reading[d].key)
        BY <1>4 DEF Reads
      <4> QED BY <1>1, <1>11, <3>1, <4>1, <4>2, OtherRead
    <3> QED BY <3>2, <3>3
  <2> QED BY <2>1, <2>2
<1> QED BY <1>4, <1>6, <1>8, <1>9, <1>10, <1>11 DEF CacheInv

------------------------------------------------------------------------------
\* Put and Clear.

\* What an eviction leaves has room for one more.
LEMMA RoomForOne ==
    ASSUME IsFiniteSet(DOMAIN entries), WithinCapacity,
           NEW kept \in SUBSET DOMAIN entries, MakeRoom(kept), NEW k
    PROVE  /\ IsFiniteSet(kept \cup {k})
           /\ Cardinality(kept \cup {k}) <= Max({1, MaxSize})
<1> DEFINE n == Cardinality(DOMAIN entries)
           live == Cardinality(Live)
<1>1. MaxSize \in Int /\ Max({1, MaxSize}) = IF 1 >= MaxSize THEN 1 ELSE MaxSize
  BY CacheAssumption, MaxOfTwo
<1>2. n \in Nat /\ n <= Max({1, MaxSize})
  BY FS_CardinalityType DEF WithinCapacity, Stats
<1>3. IsFiniteSet(Live) /\ live \in Nat /\ live <= n
  <2>1. Live \in SUBSET DOMAIN entries
    BY DEF Live
  <2>2. IsFiniteSet(Live) /\ live <= n
    BY <2>1, FS_Subset
  <2> QED BY <2>2, FS_CardinalityType
<1>4. IsFiniteSet(kept) /\ Cardinality(kept) \in Nat
  <2>1. IsFiniteSet(kept)
    BY FS_Subset
  <2> QED BY <2>1, FS_CardinalityType
<1>5. Cardinality(kept) + 1 <= Max({1, MaxSize})
  <2>1. CASE n < MaxSize /\ kept = DOMAIN entries
    BY <1>1, <1>2, <2>1
  <2>2. CASE \E j \in Oldest(Live) : kept = Live \ {j}
    <3>1. PICK j \in Live : kept = Live \ {j}
      BY <2>2 DEF Oldest
    <3>2. Cardinality(kept) = live - 1
      BY <1>3, <3>1, FS_RemoveElement
    <3> QED BY <1>1, <1>2, <1>3, <3>2
  <2>3. CASE kept = Live /\ ~(live >= MaxSize /\ Live # {})
    <3>1. Live = {} => live = 0
      BY FS_EmptySet
    <3> QED BY <1>1, <1>2, <1>3, <2>3, <3>1
  <2>4. ~(n >= MaxSize) => n < MaxSize
    BY <1>1, <1>2
  <2> QED BY <2>1, <2>2, <2>3, <2>4 DEF MakeRoom, EvictExpiredOrOldest
<1>6. /\ IsFiniteSet(kept \cup {k})
      /\ Cardinality(kept \cup {k}) = IF k \in kept THEN Cardinality(kept)
                                      ELSE Cardinality(kept) + 1
  BY <1>4, FS_AddElement
<1>7. Cardinality(kept \cup {k}) <= Cardinality(kept) + 1 /\ Cardinality(kept \cup {k}) \in Nat
  BY <1>4, <1>6
<1>8. Max({1, MaxSize}) \in Int
  BY <1>1
<1> QED BY <1>4, <1>5, <1>6, <1>7, <1>8

LEMMA PutKeeps ==
    ASSUME CacheInv, NEW m \in Contexts, Put(m)
    PROVE  CacheInv' /\ reading' = reading
<1> DEFINE k == KeyOf[m]
           e == [messages |-> m, created |-> now, accessed |-> now, count |-> 1]
<1>1. PICK kept \in SUBSET DOMAIN entries :
        /\ MakeRoom(kept)
        /\ entries' = [j \in kept \cup {k} |-> IF j = k THEN e ELSE entries[j]]
  BY DEF Put
<1>2. /\ Unlocked /\ now' = now /\ reading' = reading /\ raced' = raced \ {k}
      /\ hits' = [hits EXCEPT ![k] = 0] /\ used' = [used EXCEPT ![k] = now]
      /\ CacheTypeOK
  BY DEF Put, CacheInv
<1>3. k \in Keys /\ now \in 0..MaxTime /\ now \in Int
  BY <1>2, CacheAssumption, CacheFacts
<1>4. e \in Entry /\ e.messages = m /\ e.accessed = now /\ e.count = 1
  BY <1>3 DEF Entry
<1> HIDE DEF e
<1>5. /\ DOMAIN entries' = kept \cup {k} /\ entries'[k] = e
      /\ \A j \in kept \ {k} : entries'[j] = entries[j]
  BY <1>1
<1>6. /\ hits' \in [Keys -> Nat] /\ hits'[k] = 0 /\ \A j \in Keys \ {k} : hits'[j] = hits[j]
      /\ used' \in [Keys -> 0..MaxTime] /\ used'[k] = now
      /\ \A j \in Keys \ {k} : used'[j] = used[j]
  BY <1>2, <1>3 DEF CacheTypeOK
<1>7. \A c \in Clients : reading'[c] = NotReading
  BY <1>2 DEF Unlocked
<1>8. CacheTypeOK'
  <2>1. \A j \in DOMAIN entries' : entries'[j] \in Entry /\ KeyOf[entries'[j].messages] = j
    BY <1>2, <1>4, <1>5 DEF CacheTypeOK
  <2>2. DOMAIN entries' \subseteq Keys /\ raced' \subseteq Keys
    BY <1>2, <1>3, <1>5 DEF CacheTypeOK
  <2> QED BY <1>2, <1>3, <1>6, <1>7, <2>1, <2>2 DEF CacheTypeOK, Get, Entry
<1>9. IsFiniteSet(DOMAIN entries') /\ WithinCapacity'
  BY <1>1, <1>5, RoomForOne DEF CacheInv, WithinCapacity, Stats
<1>10. HitsCounted'
  <2>1. entries'[k].count - 1 = hits'[k] /\ entries'[k].count - 1 <= hits'[k]
    BY <1>4, <1>5, <1>6
  <2>2. \A j \in kept \ {k} : entries'[j] = entries[j] /\ hits'[j] = hits[j] /\ j \in DOMAIN entries
    BY <1>2, <1>5, <1>6, CacheFacts
  <2> QED BY <1>2, <1>5, <2>1, <2>2 DEF CacheInv, HitsCounted, HitsOf
<1>11. UsedInv'
  <2>1. \A j \in Keys : used'[j] <= now
    BY <1>3, <1>6 DEF CacheInv, UsedInv
  <2>2. \A j \in kept \ {k} : entries'[j] = entries[j] /\ used'[j] = used[j] /\ j \in DOMAIN entries
    BY <1>2, <1>5, <1>6, CacheFacts
  <2> QED BY <1>2, <1>4, <1>5, <1>6, <2>1, <2>2 DEF CacheInv, UsedInv
<1>12. \A c \in Clients : ReadInv(c)'
  BY <1>7 DEF ReadInv, NotReading
<1> QED BY <1>2, <1>8, <1>9, <1>10, <1>11, <1>12 DEF CacheInv

LEMMA ClearKeeps ==
    ASSUME CacheInv, Clear
    PROVE  CacheInv' /\ reading' = reading
<1>1. /\ Unlocked /\ now' = now /\ reading' = reading /\ used' = used /\ raced' = {}
      /\ hits' = [k \in Keys |-> 0] /\ DOMAIN entries' = {}
      /\ CacheTypeOK
  BY DEF Clear, CacheInv
<1>2. \A c \in Clients : reading'[c] = NotReading
  BY <1>1 DEF Unlocked
<1>3. CacheTypeOK' /\ HitsCounted' /\ UsedInv'
  BY <1>1, <1>2 DEF CacheInv, CacheTypeOK, HitsCounted, UsedInv, Get, Entry
<1>4. IsFiniteSet(DOMAIN entries') /\ Cardinality(DOMAIN entries') = 0
  BY <1>1, FS_EmptySet
<1>5. WithinCapacity'
  BY <1>4, CacheAssumption, MaxOfTwo DEF WithinCapacity, Stats
<1>6. \A c \in Clients : ReadInv(c)'
  BY <1>2 DEF ReadInv, NotReading
<1> QED BY <1>1, <1>3, <1>4, <1>5, <1>6 DEF CacheInv

LEMMA CacheStarts == CacheInit => CacheInv
<1> SUFFICES ASSUME CacheInit PROVE CacheInv
  OBVIOUS
<1>1. /\ now = 0 /\ DOMAIN entries = {} /\ reading = [c \in Clients |-> NotReading]
      /\ hits = [k \in Keys |-> 0] /\ raced = {} /\ used = [k \in Keys |-> 0]
  BY DEF CacheInit
<1>2. 0 \in 0..MaxTime
  BY CacheAssumption
<1>3. CacheTypeOK /\ HitsCounted /\ UsedInv
  BY <1>1, <1>2 DEF CacheTypeOK, HitsCounted, UsedInv, Get
<1>4. IsFiniteSet(DOMAIN entries) /\ Cardinality(DOMAIN entries) = 0
  BY <1>1, FS_EmptySet
<1>5. WithinCapacity
  BY <1>4, CacheAssumption, MaxOfTwo DEF WithinCapacity, Stats
<1>6. \A c \in Clients : ReadInv(c)
  BY <1>1 DEF ReadInv, NotReading
<1> QED BY <1>3, <1>4, <1>5, <1>6 DEF CacheInv

\* What a Put evicts is one entry, the least recently used one.
Evicts ==
    LET gone == Live \ DOMAIN entries' IN
    DOMAIN entries' # {} /\ gone # {} =>
      /\ Cardinality(gone) = 1 /\ Cardinality(Live) >= MaxSize
      /\ raced \cap Live = {} =>
           \A k \in gone, j \in Live \ gone : used[k] <= used[j]

LEMMA PutEvicts ==
    ASSUME CacheInv, NEW m \in Contexts, Put(m)
    PROVE  Evicts
<1>1. PICK kept \in SUBSET DOMAIN entries :
        MakeRoom(kept) /\ DOMAIN entries' = kept \cup {KeyOf[m]}
  BY DEF Put
<1> DEFINE gone == Live \ DOMAIN entries'
<1>2. Live \subseteq DOMAIN entries
  BY DEF Live
<1> SUFFICES ASSUME gone # {}
             PROVE  /\ Cardinality(gone) = 1 /\ Cardinality(Live) >= MaxSize
                    /\ raced \cap Live = {} =>
                         \A k \in gone, j \in Live \ gone : used[k] <= used[j]
  BY DEF Evicts
<1>3. EvictExpiredOrOldest(kept) /\ kept # Live
  BY <1>1, <1>2 DEF MakeRoom, EvictExpiredOrOldest
<1>4. PICK k \in Oldest(Live) : kept = Live \ {k} /\ Cardinality(Live) >= MaxSize
  BY <1>3 DEF EvictExpiredOrOldest
<1>5. gone = {k} /\ k \in Live
  BY <1>1, <1>4 DEF Oldest
<1>6. Cardinality(gone) = 1
  BY <1>5, FS_Singleton
<1>7. ASSUME raced \cap Live = {}, NEW j \in Live PROVE used[k] <= used[j]
  <2>1. entries[k].accessed <= entries[j].accessed
    BY <1>4, <1>7 DEF Oldest
  <2>2. entries[k].accessed = used[k] /\ entries[j].accessed = used[j]
    BY <1>2, <1>5, <1>7 DEF CacheInv, UsedInv
  <2> QED BY <2>1, <2>2
<1> QED BY <1>4, <1>5, <1>6, <1>7

------------------------------------------------------------------------------
\* The calls.

\* A client whose call a step leaves alone.
Apart(d) ==
    /\ pc'[d] = pc[d] /\ asked'[d] = asked[d] /\ lines'[d] = lines[d]
    /\ shown'[d] = shown[d] /\ gathered'[d] = gathered[d]
    /\ content'[d] = content[d] /\ cut'[d] = cut[d]

LEMMA ApartKeeps ==
    ASSUME NEW d, ChatInv(d), Apart(d)
    PROVE  ChatInv(d)'
BY DEF Apart, ChatInv, Lines

\* A question has at most a line for each piece and the last one.
LEMMA QuestionFacts ==
    ASSUME NEW q \in Question
    PROVE  /\ q.streaming \in BOOLEAN /\ q.messages \in Contexts
           /\ q.pieces \in 0..MaxChunks /\ q.pieces \in Int
           /\ Lines(q) \in Int /\ 1 <= Lines(q) /\ Lines(q) <= MaxChunks + 1
           /\ q.streaming => Lines(q) = q.pieces + 1
           /\ ~q.streaming => Lines(q) = 1
<1>1. q.streaming \in BOOLEAN /\ q.messages \in Contexts /\ q.pieces \in 0..MaxChunks
  BY DEF Question
<1>2. MaxChunks \in Int /\ q.pieces \in Int /\ 0 <= q.pieces /\ q.pieces <= MaxChunks
  BY <1>1, ChatAssumption
<1>3. CASE q.streaming
  BY <1>1, <1>2, <1>3 DEF Lines
<1>4. CASE ~q.streaming
  BY <1>1, <1>2, <1>4 DEF Lines
<1> QED BY <1>3, <1>4

\* A call that is under way, as numbers.
LEMMA CallFacts ==
    ASSUME IInv, NEW c \in Clients
    PROVE  /\ lines[c] \in 0..MaxChunks + 1 /\ lines[c] \in Int /\ MaxChunks \in Nat
           /\ shown[c] \in Int /\ gathered[c] \in Int /\ content[c] \in Int
           /\ pc[c] # "idle" => asked[c] \in Question
<1>1. TypeOK /\ ChatInv(c)
  BY DEF IInv
<1>2. /\ lines[c] \in 0..MaxChunks + 1 /\ shown[c] \in 0..MaxChunks
      /\ gathered[c] \in 0..MaxChunks /\ content[c] \in 0..MaxChunks
  BY <1>1 DEF TypeOK
<1>3. MaxChunks \in Nat
  BY ChatAssumption
<1>4. pc[c] # "idle" => asked[c] \in Question
  BY <1>1 DEF ChatInv
<1>5. \A n \in 0..MaxChunks : n \in Int
  BY <1>3
<1> QED BY <1>2, <1>3, <1>4, <1>5

\* The place of a Get: where the call is that runs it.
LEMMA HitIsReading ==
    ASSUME IInv, NEW c \in Clients, NEW place,
           pc' = [pc EXCEPT ![c] = place],
           place = "hit" <=> reading'[c] # NotReading,
           \A d \in Clients \ {c} : reading'[d] = reading[d]
    PROVE  \A d \in Clients : At(d, "hit")' <=> reading'[d] # NotReading
<1>1. \A d \in Clients : At(d, "hit") <=> reading[d] # NotReading
  BY DEF IInv, TypeOK
<1>2. pc \in [Clients -> {"idle", "pull", "chat", "look up", "hit", "store"}]
  BY DEF IInv, TypeOK
<1>3. pc'[c] = place /\ \A d \in Clients \ {c} : pc'[d] = pc[d]
  BY <1>2
<1> QED BY <1>1, <1>3 DEF At

LEMMA ReturnKeeps ==
    ASSUME IInv, NEW c \in Clients, Return(c), CacheInv', reading'[c] = NotReading,
           \A d \in Clients \ {c} : reading'[d] = reading[d]
    PROVE  IInv'
<1>1. TypeOK
  BY DEF IInv
<1>2. /\ pc' = [pc EXCEPT ![c] = "idle"] /\ asked' = [asked EXCEPT ![c] = NotAsked]
      /\ lines' = [lines EXCEPT ![c] = 0] /\ shown' = [shown EXCEPT ![c] = 0]
      /\ gathered' = [gathered EXCEPT ![c] = 0] /\ content' = [content EXCEPT ![c] = 0]
      /\ cut' = [cut EXCEPT ![c] = FALSE] /\ calls' = calls
  BY DEF Return, Go
<1>3. 0 \in 0..MaxChunks /\ 0 \in 0..MaxChunks + 1
  BY ChatAssumption
<1>4. \A d \in Clients : At(d, "hit")' <=> reading'[d] # NotReading
  BY <1>2, HitIsReading
<1>5. TypeOK'
  BY <1>1, <1>2, <1>3, <1>4 DEF TypeOK, CacheInv, At, Question
<1>6. /\ pc'[c] = "idle" /\ lines'[c] = 0 /\ shown'[c] = 0 /\ gathered'[c] = 0
      /\ content'[c] = 0
  BY <1>1, <1>2 DEF TypeOK
<1>7. \A d \in Clients \ {c} : Apart(d)
  BY <1>1, <1>2 DEF TypeOK, Apart
<1>8. \A d \in Clients : ChatInv(d)'
  <2>1. ChatInv(c)'
    BY <1>6 DEF ChatInv
  <2>2. ASSUME NEW d \in Clients \ {c} PROVE ChatInv(d)'
    BY <1>7, ApartKeeps DEF IInv
  <2> QED BY <2>1, <2>2
<1> QED BY <1>5, <1>8 DEF IInv

\* A call that only goes on to another place.
LEMMA MoveKeeps ==
    ASSUME IInv, NEW c \in Clients, NEW place, Go(c, place), UNCHANGED callVars,
           CacheInv', place = "hit" <=> reading'[c] # NotReading,
           \A d \in Clients \ {c} : reading'[d] = reading[d],
           \/ pc[c] = "pull" /\ place = "chat"
           \/ pc[c] \in {"look up", "hit"} /\ place \in {"hit", "store"}
    PROVE  IInv'
<1>1. TypeOK
  BY DEF IInv
<1>2. /\ pc' = [pc EXCEPT ![c] = place] /\ asked' = asked /\ lines' = lines
      /\ shown' = shown /\ gathered' = gathered /\ content' = content /\ cut' = cut
      /\ calls' = calls
  BY DEF Go, callVars
<1>3. \A d \in Clients : At(d, "hit")' <=> reading'[d] # NotReading
  BY <1>2, HitIsReading
<1>4. TypeOK'
  BY <1>1, <1>2, <1>3 DEF TypeOK, CacheInv, At, Question
<1>5. pc'[c] = place
  BY <1>1, <1>2 DEF TypeOK
<1>6. \A d \in Clients \ {c} : Apart(d)
  BY <1>1, <1>2 DEF TypeOK, Apart
<1>7. \A d \in Clients : ChatInv(d)'
  <2>1. ChatInv(c)'
    BY <1>2, <1>5 DEF IInv, ChatInv, Lines
  <2>2. ASSUME NEW d \in Clients \ {c} PROVE ChatInv(d)'
    BY <1>6, ApartKeeps DEF IInv
  <2> QED BY <2>1, <2>2
<1> QED BY <1>4, <1>7 DEF IInv

\* A step of the cache that no call makes, or that leaves the calls where they are.
LEMMA CacheStepKeeps ==
    ASSUME IInv, UNCHANGED <<pc, callVars>>, CacheInv',
           \A d \in Clients : reading'[d] # NotReading <=> reading[d] # NotReading
    PROVE  IInv'
<1>1. TypeOK
  BY DEF IInv
<1>2. /\ pc' = pc /\ asked' = asked /\ lines' = lines
      /\ shown' = shown /\ gathered' = gathered /\ content' = content /\ cut' = cut
      /\ calls' = calls
  BY DEF callVars
<1>3. TypeOK'
  BY <1>1, <1>2 DEF TypeOK, CacheInv, At, Question
<1>4. ASSUME NEW d \in Clients PROVE ChatInv(d)'
  <2>1. Apart(d)
    BY <1>2 DEF Apart
  <2> QED BY <2>1, ApartKeeps DEF IInv
<1> QED BY <1>3, <1>4 DEF IInv

LEMMA BeginKeeps ==
    ASSUME IInv, NEW c \in Clients, Begin(c)
    PROVE  IInv'
<1>1. TypeOK /\ calls \in 0..MaxCalls /\ ChatInv(c)
  BY DEF IInv, TypeOK
<1>2. /\ pc[c] = "idle" /\ calls < MaxCalls /\ calls' = calls + 1
      /\ pc' = [pc EXCEPT ![c] = "pull"]
      /\ lines' = lines /\ shown' = shown /\ gathered' = gathered
      /\ content' = content /\ cut' = cut
  BY DEF Begin, At, Go
<1>3. PICK q \in Question : asked' = [asked EXCEPT ![c] = q]
  BY DEF Begin
<1>4. CacheInv' /\ reading' = reading
  BY CacheSame DEF IInv, Begin, cacheVars
<1>5. \A d \in Clients : At(d, "hit")' <=> reading'[d] # NotReading
  <2>1. reading[c] = NotReading
    BY <1>1, <1>2 DEF TypeOK, At
  <2> QED BY <1>2, <1>4, <2>1, HitIsReading
<1>6. calls' \in 0..MaxCalls
  BY <1>1, <1>2, ChatAssumption
<1>7. TypeOK'
  BY <1>1, <1>2, <1>3, <1>4, <1>5, <1>6 DEF TypeOK, CacheInv, At, Question
<1>8. pc'[c] = "pull" /\ asked'[c] = q
  BY <1>1, <1>2, <1>3 DEF TypeOK
<1>9. \A d \in Clients \ {c} : Apart(d)
  BY <1>1, <1>2, <1>3 DEF TypeOK, Apart
<1>10. ChatInv(c)'
  <2>1. lines[c] = 0 /\ shown[c] = 0 /\ gathered[c] = 0 /\ content[c] = 0
    BY <1>1, <1>2 DEF ChatInv
  <2>2. Lines(q) \in Int /\ 1 <= Lines(q)
    BY QuestionFacts
  <2>3. 0 <= Lines(q) /\ 0 # Lines(q)
    BY <2>2
  <2>4. Lines(asked'[c]) = Lines(q)
    BY <1>8
  <2> QED BY <1>2, <1>8, <2>1, <2>3, <2>4 DEF ChatInv, Lines
<1>11. \A d \in Clients : ChatInv(d)'
  BY <1>9, <1>10, ApartKeeps DEF IInv
<1> QED BY <1>4, <1>7, <1>11 DEF IInv

\* What a line adds, as numbers: of n lines of the L that q is answered in.
LEMMA LineAdds ==
    ASSUME NEW q \in Question, NEW n \in Int, n >= 0, n < Lines(q),
           NEW g, g = IF q.streaming THEN n ELSE 0,
           NEW s, s = IF q.streaming THEN g ELSE 0,
           NEW new, new = IF ~q.streaming THEN q.pieces
                          ELSE IF n + 1 = Lines(q) THEN 0 ELSE 1
    PROVE  /\ g + new = IF n + 1 = Lines(q) THEN q.pieces
                        ELSE IF q.streaming THEN n + 1 ELSE 0
           /\ g + new \in 0..MaxChunks
           /\ q.streaming => s + new = g + new
           /\ ~q.streaming => s = 0
           /\ n + 1 \in 0..MaxChunks + 1 /\ n + 1 <= Lines(q)
<1>1. /\ q.pieces \in Int /\ 0 <= q.pieces /\ q.pieces <= MaxChunks /\ MaxChunks \in Int
      /\ Lines(q) \in Int /\ Lines(q) <= MaxChunks + 1 /\ q.streaming \in BOOLEAN
      /\ q.streaming => Lines(q) = q.pieces + 1
      /\ ~q.streaming => Lines(q) = 1
  BY QuestionFacts, ChatAssumption
<1>2. CASE q.streaming
  BY <1>1, <1>2
<1>3. CASE ~q.streaming
  BY <1>1, <1>3
<1> QED BY <1>2, <1>3

LEMMA ReadLineKeeps ==
    ASSUME IInv, NEW c \in Clients, ReadLine(c)
    PROVE  IInv'
<1>1. TypeOK /\ ChatInv(c) /\ pc[c] = "chat" /\ asked[c] \in Question
      /\ lines[c] \in Int /\ lines[c] >= 0
  BY CallFacts DEF IInv, ReadLine, At
<1>2. PICK q \in Question : q = asked[c]
  BY <1>1
<1>3. PICK new : new = IF ~q.streaming THEN q.pieces
                       ELSE IF lines[c] + 1 = Lines(q) THEN 0 ELSE 1
  OBVIOUS
<1>4. lines[c] < Lines(q) /\ lines' = [lines EXCEPT ![c] = lines[c] + 1]
      /\ pc' = pc /\ asked' = asked /\ cut' = cut /\ calls' = calls
  BY <1>2 DEF ReadLine
<1>5. lines'[c] = lines[c] + 1
  BY <1>1, <1>4 DEF TypeOK
<1>6. /\ shown' = IF q.streaming THEN [shown EXCEPT ![c] = shown[c] + new] ELSE shown
      /\ gathered' = [gathered EXCEPT ![c] = gathered[c] + new]
      /\ content' = [content EXCEPT ![c] = IF lines[c] + 1 = Lines(q)
                                           THEN gathered[c] + new ELSE content[c]]
  BY <1>2, <1>3, <1>5 DEF ReadLine
<1>7. CacheInv' /\ reading' = reading
  BY CacheSame DEF IInv, ReadLine, cacheVars
<1>8. /\ gathered[c] = IF q.streaming THEN lines[c] ELSE 0
      /\ content[c] = 0
      /\ shown[c] = IF q.streaming THEN gathered[c] ELSE 0
  <2>1. lines[c] # Lines(q)
    BY <1>1, <1>4, QuestionFacts
  <2> QED BY <1>1, <1>2, <2>1 DEF ChatInv
<1>9. /\ gathered[c] + new = IF lines[c] + 1 = Lines(q) THEN q.pieces
                             ELSE IF q.streaming THEN lines[c] + 1 ELSE 0
      /\ gathered[c] + new \in 0..MaxChunks
      /\ q.streaming => shown[c] + new = gathered[c] + new
      /\ ~q.streaming => shown[c] = 0
      /\ lines[c] + 1 \in 0..MaxChunks + 1 /\ lines[c] + 1 <= Lines(q)
  BY <1>1, <1>3, <1>4, <1>8, LineAdds
<1>10. /\ gathered'[c] = gathered[c] + new
       /\ shown'[c] = IF q.streaming THEN gathered[c] + new ELSE 0
       /\ content'[c] = IF lines[c] + 1 = Lines(q) THEN q.pieces ELSE 0
  BY <1>1, <1>6, <1>8, <1>9 DEF TypeOK
<1>11. TypeOK'
  <2>1. /\ lines' \in [Clients -> 0..MaxChunks + 1]
        /\ gathered' \in [Clients -> 0..MaxChunks]
    BY <1>1, <1>4, <1>6, <1>9 DEF TypeOK
  <2>2. shown' \in [Clients -> 0..MaxChunks]
    BY <1>1, <1>6, <1>9 DEF TypeOK
  <2>3. content' \in [Clients -> 0..MaxChunks]
    BY <1>1, <1>6, <1>9 DEF TypeOK
  <2> QED BY <1>1, <1>4, <1>7, <2>1, <2>2, <2>3 DEF TypeOK, CacheInv, At, Question
<1>12. \A d \in Clients \ {c} : Apart(d)
  BY <1>1, <1>4, <1>6 DEF TypeOK, Apart
<1>13. ChatInv(c)'
  <2>1. pc'[c] = "chat" /\ asked'[c] = q /\ Lines(asked'[c]) = Lines(q)
    BY <1>1, <1>2, <1>4
  <2> QED BY <1>5, <1>9, <1>10, <2>1 DEF ChatInv, Lines
<1>14. \A d \in Clients : ChatInv(d)'
  BY <1>12, <1>13, ApartKeeps DEF IInv
<1> QED BY <1>7, <1>11, <1>14 DEF IInv

LEMMA ReadEndsKeeps ==
    ASSUME IInv, NEW c \in Clients, ReadEnds(c)
    PROVE  IInv'
<1>1. TypeOK /\ ChatInv(c) /\ pc[c] = "chat"
  BY DEF IInv, ReadEnds, At
<1>2. /\ pc' = [pc EXCEPT ![c] = "look up"]
      /\ cut' = [cut EXCEPT ![c] = lines[c] < Lines(asked[c])]
      /\ lines' = lines /\ shown' = shown /\ gathered' = gathered
      /\ content' = content /\ asked' = asked /\ calls' = calls
  BY DEF ReadEnds, Go
<1>3. CacheInv' /\ reading' = reading
  BY CacheSame DEF IInv, ReadEnds, cacheVars
<1>4. \A d \in Clients : At(d, "hit")' <=> reading'[d] # NotReading
  <2>1. reading[c] = NotReading
    BY <1>1 DEF TypeOK, At
  <2> QED BY <1>2, <1>3, <2>1, HitIsReading
<1>5. TypeOK'
  <2>1. PICK short \in BOOLEAN : short = (lines[c] < Lines(asked[c]))
    <3>1. lines[c] \in Int /\ Lines(asked[c]) \in Int
      BY <1>1, CallFacts, QuestionFacts
    <3>2. (lines[c] < Lines(asked[c])) \in BOOLEAN
      BY <3>1, SMT
    <3> QED BY <3>2
  <2>2. cut' \in [Clients -> BOOLEAN]
    <3>1. cut' = [cut EXCEPT ![c] = short] /\ cut \in [Clients -> BOOLEAN]
      BY <1>1, <1>2, <2>1 DEF TypeOK
    <3> QED BY <3>1
  <2> QED BY <1>1, <1>2, <1>3, <1>4, <2>2 DEF TypeOK, CacheInv, At, Question
<1>6. \A d \in Clients \ {c} : Apart(d)
  BY <1>1, <1>2 DEF TypeOK, Apart
<1>7. ChatInv(c)'
  <2>1. pc'[c] = "look up" /\ cut'[c] = (lines[c] < Lines(asked[c]))
    BY <1>1, <1>2 DEF TypeOK
  <2> QED BY <1>1, <1>2, <2>1 DEF ChatInv, Lines
<1>8. \A d \in Clients : ChatInv(d)'
  BY <1>6, <1>7, ApartKeeps DEF IInv
<1> QED BY <1>3, <1>5, <1>8 DEF IInv

\* A client's Get is under way exactly while its call is where the entry is written.
LEMMA AtIsReading ==
    ASSUME IInv, NEW c \in Clients
    PROVE  pc[c] = "hit" <=> reading[c] # NotReading
BY DEF IInv, TypeOK, At

LEMMA CallKeeps ==
    ASSUME IInv, NEW c \in Clients, CallStep(c)
    PROVE  IInv'
<1>1. /\ CacheInv /\ TypeOK /\ reading \in [Clients -> Get]
  BY DEF IInv, TypeOK, CacheInv, CacheTypeOK
<1>2. CASE Refuse(c)
  <2>1. CacheInv' /\ reading' = reading /\ Return(c)
    BY <1>1, <1>2, CacheSame DEF Refuse, cacheVars
  <2>2. reading'[c] = NotReading
    BY <1>2, <2>1, AtIsReading DEF Refuse, At
  <2> QED BY <2>1, <2>2, ReturnKeeps
<1>3. CASE Request(c)
  <2>1. CacheInv' /\ reading' = reading
    BY <1>1, <1>3, CacheSame DEF Request, cacheVars
  <2>2. reading'[c] = NotReading /\ pc[c] = "pull"
    BY <1>3, <2>1, AtIsReading DEF Request, At
  <2>3. Go(c, "chat") /\ UNCHANGED callVars
    BY <1>3 DEF Request
  <2> QED BY <2>1, <2>2, <2>3, MoveKeeps
<1>4. CASE ReadLine(c)
  BY <1>4, ReadLineKeeps
<1>5. CASE ReadFails(c)
  <2>1. CacheInv' /\ reading' = reading /\ Return(c)
    BY <1>1, <1>5, CacheSame DEF ReadFails, cacheVars
  <2>2. reading'[c] = NotReading
    BY <1>5, <2>1, AtIsReading DEF ReadFails, At
  <2> QED BY <2>1, <2>2, ReturnKeeps
<1>6. CASE ReadEnds(c)
  BY <1>6, ReadEndsKeeps
<1>7. CASE Miss(c)
  <2>1. CacheInv' /\ reading' = reading
    BY <1>1, <1>7, CacheSame DEF Miss, GetMiss, cacheVars
  <2>2. reading'[c] = NotReading /\ pc[c] = "look up"
    BY <1>7, <2>1 DEF Miss, GetMiss, At
  <2>3. Go(c, "store") /\ UNCHANGED callVars
    BY <1>7 DEF Miss
  <2> QED BY <2>1, <2>2, <2>3, MoveKeeps
<1>8. CASE Find(c)
  <2>1. pc[c] = "look up" /\ GetFound(c, asked[c].messages)
        /\ Go(c, "hit") /\ UNCHANGED callVars
    BY <1>8 DEF Find, At
  <2>2. asked[c].messages \in Contexts
    BY <2>1, CallFacts, QuestionFacts
  <2>3. CacheInv' /\ reading'[c] # NotReading
    BY <1>1, <2>1, <2>2, GetFoundKeeps
  <2>4. \A d \in Clients \ {c} : reading'[d] = reading[d]
    BY <1>1, <2>1 DEF GetFound
  <2> QED BY <2>1, <2>3, <2>4, MoveKeeps
<1>9. CASE TouchEntry(c)
  <2>1. pc[c] = "hit" /\ Touch(c) /\ UNCHANGED <<pc, callVars>>
    BY <1>9 DEF TouchEntry, At
  <2>2. CacheInv' /\ reading'[c] # NotReading
    BY <1>1, <2>1, TouchKeeps
  <2>3. \A d \in Clients \ {c} : reading'[d] = reading[d]
    BY <1>1, <2>1 DEF Touch
  <2>4. reading[c] # NotReading
    BY <2>1, AtIsReading
  <2>5. \A d \in Clients : reading'[d] # NotReading <=> reading[d] # NotReading
    BY <2>2, <2>3, <2>4
  <2> QED BY <2>1, <2>2, <2>5, CacheStepKeeps
<1>10. CASE Hit(c)
  <2>1. Count(c) /\ Return(c)
    BY <1>10 DEF Hit
  <2>2. CacheInv' /\ reading'[c] = NotReading
    BY <1>1, <2>1, CountKeeps
  <2>3. \A d \in Clients \ {c} : reading'[d] = reading[d]
    BY <1>1, <2>1 DEF Count
  <2> QED BY <2>1, <2>2, <2>3, ReturnKeeps
<1>11. CASE Store(c)
  <2>1. pc[c] = "store" /\ Put(asked[c].messages) /\ Return(c)
    BY <1>11 DEF Store, At
  <2>2. asked[c].messages \in Contexts
    BY <2>1, CallFacts, QuestionFacts
  <2>3. CacheInv' /\ reading' = reading
    BY <1>1, <2>1, <2>2, PutKeeps
  <2>4. reading'[c] = NotReading
    BY <2>1, <2>3, AtIsReading
  <2> QED BY <2>1, <2>3, <2>4, ReturnKeeps
<1> QED BY <1>2, <1>3, <1>4, <1>5, <1>6, <1>7, <1>8, <1>9, <1>10, <1>11 DEF CallStep

LEMMA StepIInv == IInv /\ [Next]_vars => IInv'
<1> SUFFICES ASSUME IInv, [Next]_vars PROVE IInv'
  OBVIOUS
<1>1. CacheInv
  BY DEF IInv
<1>2. ASSUME NEW c \in Clients, Begin(c) PROVE IInv'
  BY <1>2, BeginKeeps
<1>3. ASSUME NEW c \in Clients, CallStep(c) PROVE IInv'
  BY <1>3, CallKeeps
<1>4. CASE ClearCache
  <2>1. CacheInv' /\ reading' = reading /\ UNCHANGED <<pc, callVars>>
    BY <1>1, <1>4, ClearKeeps DEF ClearCache
  <2> QED BY <2>1, CacheStepKeeps
<1>5. CASE TimePasses
  <2>1. CacheInv' /\ reading' = reading /\ UNCHANGED <<pc, callVars>>
    BY <1>1, <1>5, TickKeeps DEF TimePasses, Tick
  <2> QED BY <2>1, CacheStepKeeps
<1>6. CASE UNCHANGED vars
  <2>1. CacheInv' /\ reading' = reading /\ UNCHANGED <<pc, callVars>>
    BY <1>1, <1>6, CacheSame DEF vars, cacheVars
  <2> QED BY <2>1, CacheStepKeeps
<1> QED BY <1>2, <1>3, <1>4, <1>5, <1>6 DEF Next, Over

LEMMA InitIInv == Init => IInv
<1> SUFFICES ASSUME Init PROVE IInv
  OBVIOUS
<1>1. CacheInv
  BY CacheStarts DEF Init
<1>2. 0 \in 0..MaxChunks /\ 0 \in 0..MaxChunks + 1 /\ 0 \in 0..MaxCalls
  BY ChatAssumption
<1>3. \A c \in Clients : At(c, "hit") <=> reading[c] # NotReading
  BY DEF Init, CacheInit, At
<1>4. TypeOK
  BY <1>1, <1>2, <1>3 DEF Init, TypeOK, CacheInv
<1>5. \A c \in Clients : ChatInv(c)
  BY DEF Init, ChatInv
<1> QED BY <1>1, <1>4, <1>5 DEF IInv

------------------------------------------------------------------------------
\* The inductive invariant of the calls and of the cache they share.
THEOREM Invariant == Spec => []IInv
<1> QED BY InitIInv, StepIInv, PTL DEF Spec

\* Every variable stays in its type; in particular an entry is kept under the key
\* its messages make, and a call writes to an entry only that is still there.
THEOREM TypeCorrect == Spec => []TypeOK
<1>1. IInv => TypeOK
  BY DEF IInv
<1> QED BY <1>1, Invariant, PTL

\* Whatever goroutines share it, ContextCache holds at most MaxSize entries, and
\* one where MaxSize leaves no room: every Put makes room before it stores.
THEOREM CapacityKept == Spec => []WithinCapacity
<1>1. IInv => WithinCapacity
  BY DEF IInv, CacheInv
<1> QED BY <1>1, Invariant, PTL

\* AccessCount, which Gets write under the read lock only, can lose hits of Gets
\* that had the entry at once, but counts none that was not one.
THEOREM HitsAreHits == Spec => []HitsCounted
<1>1. IInv => HitsCounted
  BY DEF IInv, CacheInv
<1> QED BY <1>1, Invariant, PTL

\* GenerateContent returns without an error the whole answer or, when the body
\* broke off and the scanner's error was not asked for, nothing of it.
THEOREM WholeOrNothing == Spec => []AllOrNothing
<1>1. ASSUME IInv, NEW c \in Clients, pc[c] \in {"look up", "hit", "store"}
      PROVE  IF cut[c] THEN content[c] = 0
             ELSE /\ content[c] = asked[c].pieces
                  /\ asked[c].streaming => shown[c] = content[c]
  <2>1. ChatInv(c) /\ pc[c] # "idle" /\ asked[c] \in Question
    BY <1>1, CallFacts DEF IInv
  <2>2. lines[c] \in Int /\ Lines(asked[c]) \in Int /\ lines[c] <= Lines(asked[c])
    BY <1>1, <2>1, CallFacts, QuestionFacts DEF ChatInv
  <2>3. cut[c] <=> lines[c] # Lines(asked[c])
    <3>1. cut[c] = (lines[c] < Lines(asked[c]))
      BY <1>1, <2>1 DEF ChatInv
    <3>2. lines[c] < Lines(asked[c]) <=> lines[c] # Lines(asked[c])
      BY <2>2
    <3> QED BY <3>1, <3>2, Zenon
  <2> QED BY <2>1, <2>3 DEF ChatInv
<1>2. IInv => AllOrNothing
  BY <1>1 DEF AllOrNothing
<1> QED BY <1>2, Invariant, PTL

\* The entry that evictExpiredOrOldest gives up before its time is one, in a cache
\* that is full, and, unless Gets raced, the least recently used.
THEOREM EvictionIsLeastRecent == Spec => EvictsTheLeastRecent
<1>1. IInv /\ [Next]_vars => [Evicts]_cacheVars
  <2> SUFFICES ASSUME IInv, [Next]_vars PROVE Evicts \/ UNCHANGED cacheVars
    OBVIOUS
  <2>1. CacheInv /\ CacheTypeOK
    BY DEF IInv, CacheInv
  <2>2. ASSUME DOMAIN entries' = DOMAIN entries PROVE Evicts
    BY <2>2 DEF Evicts, Live
  <2>3. ASSUME NEW c \in Clients, Store(c) PROVE Evicts
    <3>1. asked[c].messages \in Contexts
      BY <2>3, CallFacts, QuestionFacts DEF Store, At
    <3> QED BY <2>1, <2>3, <3>1, PutEvicts DEF Store
  <2>4. ASSUME NEW c \in Clients, TouchEntry(c) \/ Hit(c) PROVE Evicts
    BY <2>2, <2>4 DEF TouchEntry, Touch, Hit, Count
  <2>5. ASSUME NEW c \in Clients, Find(c) PROVE Evicts
    BY <2>2, <2>5 DEF Find, GetFound
  <2>6. ASSUME NEW c \in Clients, \/ Begin(c) \/ Refuse(c) \/ Request(c) \/ ReadLine(c)
                                  \/ ReadFails(c) \/ ReadEnds(c) \/ Miss(c)
        PROVE  UNCHANGED cacheVars
    BY <2>6 DEF Begin, Refuse, Request, ReadLine, ReadFails, ReadEnds, Miss, GetMiss
  <2>7. CASE ClearCache
    BY <2>7 DEF ClearCache, Clear, Evicts
  <2>8. CASE TimePasses
    BY <2>2, <2>8 DEF TimePasses, Tick
  <2>9. CASE UNCHANGED vars
    BY <2>9 DEF vars
  <2> QED BY <2>3, <2>4, <2>5, <2>6, <2>7, <2>8, <2>9 DEF Next, CallStep, Over
<1>2. IInv /\ [Next]_vars =>
        [LET gone == Live \ DOMAIN entries' IN
         DOMAIN entries' # {} /\ gone # {} =>
           /\ Cardinality(gone) = 1 /\ Cardinality(Live) >= MaxSize
           /\ raced \cap Live = {} =>
                \A k \in gone, j \in Live \ gone : used[k] <= used[j]]_cacheVars
  BY <1>1 DEF Evicts
<1> QED BY <1>2, Invariant, PTL DEF Spec, EvictsTheLeastRecent
------------------------------------------------------------------------------
(***************************************************************************)
(* OpenAIStream.  Its goroutine and its caller share no variable with the  *)
(* calls above; the two specifications are proved about side by side.      *)
(***************************************************************************)

\* The lines of the deltas received, the one it is at included.
Pending == caller \in {"tools", "func"}
Received == IF Pending THEN Append(StreamedLines, taken) ELSE StreamedLines
\* What was received of the stream so far: every delta up to line n, and no line
\* of these was the end marker.
Upto(n) == {i \in Deltas : i <= n}
Unfinished(n) == \A d \in 1..n : Kind(d) # "done"
TakenInv ==
    /\ reader = "not started" => pos = 0 /\ taken = 0 /\ streamed = <<>>
    /\ reader \in {"scan", "send error"} => InOrder(Received, Upto(pos)) /\ Unfinished(pos)
    /\ reader = "send" => /\ held = pos /\ Kind(held) \notin {"skip", "done"}
                          /\ InOrder(Received, Upto(pos - 1)) /\ Unfinished(pos)
    /\ InOrder(Received, Upto(taken))
\* Who has not returned is at work.
PlaceInv ==
    /\ caller = "request" <=> reader = "not started" /\ result = "none"
    /\ caller # "returned" <=> result = "none"
    /\ result = "nil" => reader = "closed"
\* A channel closed before its time was closed for a context that ended.
ClosedInv ==
    reader = "closed" /\ ~cancelled /\ result \in {"none", "nil"} => InOrder(Received, Deltas)

FinishInv ==
    /\ taken # 0 => response.finish = stream.lines[taken].finish
    /\ ~Pending /\ streamed # <<>> => taken # 0 /\ Last(streamed).line = taken
TextInv == InOrder(response.text, {i \in ToSet(Received) : stream.lines[i].content})
GivenInv == \A s \in ToSet(streamed) : s.chunk = Chunk(stream.lines[s.line])
\* The parts of tool calls it has dealt with.
PartInv ==
    /\ taken = 0 => part = 0
    /\ taken # 0 => /\ part <= Len(stream.lines[taken].calls)
                    /\ caller # "tools" => part = Len(stream.lines[taken].calls)
PartsTaken ==
    {p \in Parts(Deltas) : p[1] < taken \/ (p[1] = taken /\ p[2] <= part)}
TakenPartsInv == \A c \in 1..Len(response.tools) : ToSet(response.tools[c]) \subseteq PartsTaken
\* While calls come in turn, each that has begun has its own parts.
CallsInv ==
    /\ \A c \in 1..Len(response.tools) :
          /\ PartsInOrder(response.tools[c], {p \in PartsTaken : CallOf(p) = c})
          /\ \E p \in PartsTaken : CallOf(p) = c
    /\ \A p \in PartsTaken : CallOf(p) \in 1..Len(response.tools)
AnswerInv ==
    /\ FinishInv /\ TextInv /\ GivenInv /\ PartInv /\ TakenPartsInv
    /\ CallsInTurn => CallsInv
StreamIInv == StreamTypeOK /\ TakenInv /\ PlaceInv /\ ClosedInv /\ AnswerInv
------------------------------------------------------------------------------

LEMMA EmptyInOrder == InOrder(<<>>, {})
<1>1. DOMAIN <<>> = {}
  BY EmptySeq, LenProperties
<1>2. ToSet(<<>>) = {}
  BY <1>1 DEF ToSet
<1> QED BY <1>1, <1>2 DEF InOrder

\* A sequence one longer: the same members and the new one.
LEMMA AppendFacts ==
    ASSUME NEW T, NEW q \in Seq(T), NEW x \in T
    PROVE  /\ Append(q, x) \in Seq(T) /\ Len(Append(q, x)) = Len(q) + 1
           /\ Len(q) \in Nat /\ DOMAIN q = 1..Len(q) /\ DOMAIN Append(q, x) = 1..(Len(q) + 1)
           /\ Append(q, x)[Len(q) + 1] = x /\ \A i \in 1..Len(q) : Append(q, x)[i] = q[i]
           /\ ToSet(Append(q, x)) = ToSet(q) \cup {x}
           /\ Last(Append(q, x)) = x
<1> DEFINE r == Append(q, x)
<1>n. PICK n \in Nat : n = Len(q)
  BY LenProperties
<1>1. /\ r \in Seq(T) /\ Len(r) = n + 1 /\ DOMAIN q = 1..n /\ DOMAIN r = 1..(n + 1)
      /\ r[n + 1] = x /\ \A i \in 1..n : r[i] = q[i]
  BY <1>n, AppendProperties, LenProperties
<1> HIDE DEF r
<1>2. ToSet(r) = ToSet(q) \cup {x}
  <2>1. ToSet(r) = {r[i] : i \in 1..(n + 1)} /\ ToSet(q) = {q[i] : i \in 1..n}
    BY <1>1 DEF ToSet
  <2>2. \A i \in 1..(n + 1) : i \in 1..n \/ i = n + 1
    OBVIOUS
  <2>3. (n + 1) \in 1..(n + 1) /\ \A i \in 1..n : i \in 1..(n + 1)
    OBVIOUS
  <2>4. \A i \in 1..(n + 1) : r[i] \in {q[j] : j \in 1..n} \cup {x}
    BY <1>1, <2>2
  <2>5. x \in {r[i] : i \in 1..(n + 1)}
    BY <1>1, <2>3
  <2>6. \A i \in 1..n : q[i] \in {r[j] : j \in 1..(n + 1)}
    BY <1>1, <2>3
  <2> QED BY <2>1, <2>4, <2>5, <2>6
<1>3. Last(r) = x
  BY <1>1 DEF Last
<1> QED BY <1>n, <1>1, <1>2, <1>3 DEF r

LEMMA AppendInOrder ==
    ASSUME NEW q \in Seq(Nat), NEW S, InOrder(q, S), NEW x \in Nat, \A y \in S : y < x
    PROVE  InOrder(Append(q, x), S \cup {x})
<1> DEFINE r == Append(q, x)
<1>n. PICK n \in Nat : n = Len(q)
  BY LenProperties
<1>1. /\ DOMAIN q = 1..n /\ DOMAIN r = 1..(n + 1) /\ ToSet(r) = ToSet(q) \cup {x}
      /\ r[n + 1] = x /\ \A i \in 1..n : r[i] = q[i]
  BY <1>n, AppendFacts
<1>2. /\ ToSet(q) = S /\ \A i, j \in 1..n : i < j => q[i] < q[j]
      /\ \A i \in 1..n : q[i] \in S
  BY <1>1 DEF InOrder, ToSet
<1> HIDE DEF r
<1>3. ASSUME NEW i \in 1..(n + 1), NEW j \in 1..(n + 1), i < j PROVE r[i] < r[j]
  <2>1. i \in 1..n
    BY <1>3
  <2>2. CASE j \in 1..n
    BY <1>1, <1>2, <1>3, <2>1, <2>2
  <2>3. CASE j = n + 1
    BY <1>1, <1>2, <2>1, <2>3
  <2> QED BY <2>2, <2>3
<1> QED BY <1>1, <1>2, <1>3 DEF InOrder, r

LEMMA AppendPartsInOrder ==
    ASSUME NEW s \in Seq(Part), NEW S, PartsInOrder(s, S), NEW p \in Part,
           \A q \in S : Before(q, p)
    PROVE  PartsInOrder(Append(s, p), S \cup {p})
<1> DEFINE r == Append(s, p)
<1>n. PICK n \in Nat : n = Len(s)
  BY LenProperties
<1>1. /\ DOMAIN s = 1..n /\ DOMAIN r = 1..(n + 1) /\ ToSet(r) = ToSet(s) \cup {p}
      /\ r[n + 1] = p /\ \A i \in 1..n : r[i] = s[i]
  BY <1>n, AppendFacts
<1>2. /\ ToSet(s) = S /\ \A i, j \in 1..n : i < j => Before(s[i], s[j])
      /\ \A i \in 1..n : s[i] \in S
  BY <1>1 DEF PartsInOrder, ToSet
<1> HIDE DEF r
<1>3. ASSUME NEW i \in 1..(n + 1), NEW j \in 1..(n + 1), i < j PROVE Before(r[i], r[j])
  <2>1. i \in 1..n
    BY <1>3
  <2>2. CASE j \in 1..n
    BY <1>1, <1>2, <1>3, <2>1, <2>2
  <2>3. CASE j = n + 1
    BY <1>1, <1>2, <2>1, <2>3
  <2> QED BY <2>2, <2>3
<1> QED BY <1>1, <1>2, <1>3 DEF PartsInOrder, r

LEMMA OnePartInOrder ==
    ASSUME NEW p PROVE PartsInOrder(<<p>>, {p})
<1>1. ToSet(<<p>>) = {p} /\ DOMAIN <<p>> = {1}
  BY DEF ToSet
<1> QED BY <1>1 DEF PartsInOrder

LEMMA LineFacts ==
    ASSUME NEW l \in Line
    PROVE  /\ l.kind \in {"skip", "done", "usage", "delta"}
           /\ l.calls \in Seq(Call) /\ Len(l.calls) \in Nat
           /\ l.finish \in {"", "stop", "tool_calls", "function_call"}
<1>1. l.calls \in Seq(Call)
  BY DEF Line
<1> QED BY <1>1, LenProperties DEF Line

LEMMA StreamFacts ==
    ASSUME StreamsAreStreams, StreamTypeOK
    PROVE  /\ MaxLines \in Nat /\ stream.lines \in Seq(Line)
           /\ Len(stream.lines) \in Nat /\ Len(stream.lines) <= MaxLines
           /\ DOMAIN stream.lines = 1..Len(stream.lines)
           /\ \A i \in 1..Len(stream.lines) :
                stream.lines[i] \in Line
           /\ pos \in Nat /\ pos <= Len(stream.lines)
           /\ held \in Nat /\ held <= pos
           /\ taken \in Nat /\ taken <= pos /\ part \in Nat
<1>1. stream \in Streams /\ MaxLines \in Nat
  BY DEF StreamTypeOK, StreamsAreStreams
<1>2. stream.lines \in Seq(Line) /\ Len(stream.lines) <= MaxLines
  BY <1>1 DEF StreamsAreStreams, IsStream
<1>3. Len(stream.lines) \in Nat /\ DOMAIN stream.lines = 1..Len(stream.lines)
  BY <1>2, LenProperties
<1>4. \A i \in 1..Len(stream.lines) : stream.lines[i] \in Line
  BY <1>2, ElementOfSeq
<1>5. /\ pos \in Nat /\ pos <= Len(stream.lines) /\ held \in Nat /\ held <= pos
      /\ taken \in Nat /\ taken <= pos /\ part \in Nat
  <2>1. pos \in 0..Len(stream.lines) /\ held \in 0..pos /\ taken \in 0..pos /\ part \in Nat
    BY DEF StreamTypeOK
  <2>2. pos \in Nat /\ pos <= Len(stream.lines)
    BY <1>3, <2>1
  <2> QED BY <2>1, <2>2
<1> QED BY <1>1, <1>2, <1>3, <1>4, <1>5

\* The lines StreamingFunc was called for, and with the one it is at.
LEMMA ReceivedFacts ==
    ASSUME StreamsAreStreams, StreamTypeOK
    PROVE  /\ StreamedLines \in Seq(Nat) /\ Len(StreamedLines) = Len(streamed)
           /\ DOMAIN StreamedLines = DOMAIN streamed
           /\ ToSet(StreamedLines) = {s.line : s \in ToSet(streamed)}
           /\ Received \in Seq(Nat)
           /\ ToSet(Received) = ToSet(StreamedLines) \cup (IF Pending THEN {taken} ELSE {})
<1>1. MaxLines \in Nat /\ taken \in Nat
  BY StreamFacts
<1>2. streamed \in Seq([line : 1..MaxLines, chunk : {"content", "function", "calls"}])
  BY DEF StreamTypeOK
<1>n. PICK n \in Nat : n = Len(streamed)
  BY <1>2, LenProperties
<1>3. DOMAIN streamed = 1..n
  BY <1>2, <1>n, LenProperties
<1>4. \A k \in 1..n : streamed[k].line \in Nat
  <2>1. \A k \in 1..n : streamed[k] \in [line : 1..MaxLines, chunk : {"content", "function", "calls"}]
    BY <1>2, <1>n, ElementOfSeq
  <2> QED BY <1>1, <2>1
<1>5. StreamedLines \in [1..n -> Nat]
  BY <1>3, <1>4 DEF StreamedLines
<1>6. StreamedLines \in Seq(Nat) /\ Len(StreamedLines) = n /\ DOMAIN StreamedLines = 1..n
  <2>1. PICK u : u = StreamedLines
    OBVIOUS
  <2>2. u \in [1..n -> Nat]
    BY <1>5, <2>1
  <2>3. u \in Seq(Nat) /\ DOMAIN u = 1..n
    BY <2>2, SeqDef
  <2>4. Len(u) = n
    BY <2>3, LenProperties
  <2> QED BY <2>1, <2>3, <2>4
<1>7. ToSet(StreamedLines) = {s.line : s \in ToSet(streamed)}
  BY <1>3, <1>6 DEF ToSet, StreamedLines
<1>8. /\ Received \in Seq(Nat)
      /\ ToSet(Received) = ToSet(StreamedLines) \cup (IF Pending THEN {taken} ELSE {})
  <2>1. PICK u : u = StreamedLines
    OBVIOUS
  <2>2. Received = IF Pending THEN Append(u, taken) ELSE u
    BY <2>1 DEF Received
  <2>3. Append(u, taken) \in Seq(Nat) /\ ToSet(Append(u, taken)) = ToSet(u) \cup {taken}
    BY <1>1, <1>6, <2>1, AppendFacts
  <2> QED BY <1>6, <2>1, <2>2, <2>3, Zenon
<1> QED BY <1>n, <1>3, <1>6, <1>7, <1>8

LEMMA StreamedAppend ==
    ASSUME StreamsAreStreams, StreamTypeOK,
           NEW e \in [line : 1..MaxLines, chunk : {"content", "function", "calls"}],
           streamed' = Append(streamed, e)
    PROVE  StreamedLines' = Append(StreamedLines, e.line)
<1>n. PICK n \in Nat : n = Len(streamed)
  BY LenProperties DEF StreamTypeOK
<1>1. /\ DOMAIN streamed' = 1..(n + 1) /\ DOMAIN streamed = 1..n
      /\ streamed'[n + 1] = e /\ \A k \in 1..n : streamed'[k] = streamed[k]
  <2>1. streamed \in Seq([line : 1..MaxLines, chunk : {"content", "function", "calls"}])
    BY DEF StreamTypeOK
  <2>2. PICK u : u = Append(streamed, e)
    OBVIOUS
  <2>3. /\ DOMAIN u = 1..(n + 1) /\ DOMAIN streamed = 1..n
        /\ u[n + 1] = e /\ \A k \in 1..n : u[k] = streamed[k]
    BY ONLY <1>n, <2>1, <2>2, AppendFacts,
            e \in [line : 1..MaxLines, chunk : {"content", "function", "calls"}]
  <2>4. streamed' = u
    BY <2>2
  <2> QED BY <2>3, <2>4
<1>2. PICK u : u = StreamedLines
  OBVIOUS
<1>3. PICK v : v = Append(u, e.line)
  OBVIOUS
<1>4. u \in Seq(Nat) /\ Len(u) = n /\ \A k \in 1..n : u[k] = streamed[k].line
  BY <1>n, <1>1, <1>2, ReceivedFacts DEF StreamedLines
<1>5. /\ v \in Seq(Nat) /\ DOMAIN v = 1..(n + 1) /\ v[n + 1] = e.line
      /\ \A k \in 1..n : v[k] = u[k]
  <2>1. e.line \in Nat
    BY StreamFacts
  <2> QED BY <1>3, <1>4, <2>1, AppendFacts
<1>6. v = [k \in 1..(n + 1) |-> v[k]]
  BY <1>5, SeqDef
<1>7. StreamedLines' = [k \in 1..(n + 1) |-> streamed'[k].line]
  BY <1>1 DEF StreamedLines
<1>8. ASSUME NEW k \in 1..(n + 1) PROVE streamed'[k].line = v[k]
  <2>1. k \in 1..n \/ k = n + 1
    OBVIOUS
  <2> QED BY <1>1, <1>4, <1>5, <2>1
<1>9. StreamedLines' = v
  BY <1>6, <1>7, <1>8, Zenon
<1> QED BY <1>2, <1>3, <1>9

\* Nothing of the stream and of what was streamed changes.
LEMMA ViewStep ==
    ASSUME UNCHANGED stream
    PROVE  /\ \A i : Kind(i)' = Kind(i)
           /\ Deltas' = Deltas
           /\ \A n : Upto(n)' = Upto(n)
           /\ \A n : Unfinished(n)' = Unfinished(n)
BY DEF Kind, Deltas, Upto, Unfinished

\* The lines up to the next one.
LEMMA NextLine ==
    ASSUME StreamsAreStreams, StreamTypeOK, NEW n \in Nat, n < Len(stream.lines), Unfinished(n)
    PROVE  /\ Kind(n + 1) \in {"skip", "usage"} => Upto(n + 1) = Upto(n) /\ Unfinished(n + 1)
           /\ Kind(n + 1) = "done" => Upto(n) = Deltas
           /\ Kind(n + 1) = "delta" => Upto(n + 1) = Upto(n) \cup {n + 1} /\ Unfinished(n + 1)
           /\ \A i \in Upto(n) : i < n + 1
           /\ Kind(n + 1) \in {"skip", "done", "usage", "delta"}
<1>1. Len(stream.lines) \in Nat /\ DOMAIN stream.lines = 1..Len(stream.lines)
  BY StreamFacts
<1>2. n + 1 \in 1..Len(stream.lines)
  BY <1>1
<1>3. \A d \in 1..(n + 1) : d \in 1..n \/ d = n + 1
  OBVIOUS
<1>4. \A i \in Deltas : i \in 1..Len(stream.lines) /\ Kind(i) = "delta"
                         /\ \A d \in 1..i : Kind(d) # "done"
  BY <1>1 DEF Deltas
<1>5. \A i \in 1..Len(stream.lines) :
         Kind(i) = "delta" /\ (\A d \in 1..i : Kind(d) # "done") => i \in Deltas
  BY <1>1 DEF Deltas
<1>6. \A i \in Upto(n) : i < n + 1
  BY <1>1, <1>4 DEF Upto
<1>7. Kind(n + 1) # "done" => Unfinished(n + 1)
  BY <1>3 DEF Unfinished
<1>8. ASSUME Kind(n + 1) \in {"skip", "usage"} PROVE Upto(n + 1) = Upto(n)
  <2>1. n + 1 \notin Deltas
    BY <1>4, <1>8
  <2>2. \A i \in Deltas : i <= n + 1 => i <= n
    BY <1>1, <1>4, <2>1
  <2>3. \A i \in Deltas : i <= n => i <= n + 1
    BY <1>1, <1>4
  <2> QED BY <2>2, <2>3 DEF Upto
<1>9. ASSUME Kind(n + 1) = "done" PROVE Upto(n) = Deltas
  <2>1. ASSUME NEW i \in Deltas PROVE i <= n
    <3>1. i \in Nat /\ ~(n + 1 \in 1..i)
      BY <1>4, <1>9, <2>1
    <3> QED BY <3>1
  <2> QED BY <2>1 DEF Upto
<1>10. ASSUME Kind(n + 1) = "delta"
       PROVE  Upto(n + 1) = Upto(n) \cup {n + 1}
  <2>1. n + 1 \in Deltas
    BY <1>2, <1>5, <1>7, <1>10 DEF Unfinished
  <2>2. \A i \in Deltas : i <= n + 1 <=> i <= n \/ i = n + 1
    BY <1>1, <1>4
  <2> QED BY <2>1, <2>2 DEF Upto
<1>11. Kind(n + 1) \in {"skip", "done", "usage", "delta"}
  <2>1. stream.lines[n + 1] \in Line
    BY <1>2, StreamFacts
  <2> QED BY <2>1, LineFacts DEF Kind
<1> QED BY <1>6, <1>7, <1>8, <1>9, <1>10, <1>11

\* Nothing comes before the first line, and nothing after the end of the body.
LEMMA EndsUpto ==
    ASSUME StreamsAreStreams, StreamTypeOK
    PROVE  Upto(0) = {} /\ Unfinished(0) /\ Upto(Len(stream.lines)) = Deltas
<1>1. \A i \in Deltas : i \in Nat /\ i <= Len(stream.lines) /\ ~(i <= 0)
  BY StreamFacts DEF Deltas
<1> QED BY <1>1 DEF Upto, Unfinished

------------------------------------------------------------------------------
\* Frames: what a step leaves alone.

\* Who is not in the middle of a delta stays out of it.
Aside == caller' = caller \/ (~Pending /\ caller' \notin {"tools", "func"})

LEMMA ReceivedFrame ==
    ASSUME UNCHANGED <<taken, streamed>>, Aside
    PROVE  Received' = Received /\ Pending' = Pending /\ StreamedLines' = StreamedLines
<1>1. Pending' = Pending
  BY DEF Aside, Pending
<1>2. StreamedLines' = StreamedLines
  BY DEF StreamedLines
<1> QED BY <1>1, <1>2 DEF Received

LEMMA PartsFrame ==
    ASSUME UNCHANGED stream
    PROVE  /\ Parts(Deltas)' = Parts(Deltas)
           /\ \A p : PartOf(p)' = PartOf(p) /\ CallOf(p)' = CallOf(p) /\ Opens(p)' = Opens(p)
           /\ CallsInTurn' = CallsInTurn
<1>1. \A i : PartsOf(i)' = PartsOf(i)
  BY DEF PartsOf
<1>2. Parts(Deltas)' = Parts(Deltas)
  BY <1>1, ViewStep DEF Parts
<1>3. \A p : PartOf(p)' = PartOf(p)
  BY DEF PartOf
<1>4. \A p : CallOf(p)' = CallOf(p) /\ Opens(p)' = Opens(p)
  BY <1>3 DEF CallOf, Opens
<1> QED BY <1>2, <1>3, <1>4 DEF CallsInTurn

\* The steps of the goroutine, and those of the caller outside a delta, leave the
\* answer alone.
LEMMA AnswerFrame ==
    ASSUME AnswerInv, UNCHANGED <<stream, answerVars>>, Aside
    PROVE  AnswerInv'
<1>1. UNCHANGED <<stream, taken, part, response, streamed>>
  BY DEF answerVars
<1>2. Received' = Received /\ Pending' = Pending
  BY <1>1, ReceivedFrame
<1>3. FinishInv' /\ TextInv' /\ GivenInv'
  BY <1>1, <1>2 DEF AnswerInv, FinishInv, TextInv, GivenInv
<1>4. PartInv'
  BY <1>1 DEF AnswerInv, PartInv, Aside, Pending
<1>5. PartsTaken' = PartsTaken
  BY <1>1, PartsFrame DEF PartsTaken
<1>6. TakenPartsInv'
  BY <1>1, <1>5 DEF AnswerInv, TakenPartsInv
<1>7. CallsInTurn' => CallsInv'
  <2>1. CallsInTurn' => CallsInTurn
    BY <1>1, PartsFrame
  <2>2. ASSUME CallsInv PROVE CallsInv'
    <3>1. \A p : CallOf(p)' = CallOf(p)
      BY <1>1, PartsFrame
    <3>2. \A c : {p \in PartsTaken : CallOf(p) = c}' = {p \in PartsTaken : CallOf(p) = c}
      BY <1>5, <3>1
    <3> QED BY <1>1, <1>5, <2>2, <3>1, <3>2 DEF CallsInv
  <2> QED BY <2>1, <2>2 DEF AnswerInv
<1> QED BY <1>3, <1>4, <1>6, <1>7 DEF AnswerInv

\* What was received and the stream stay, and so does where the reader is.
LEMMA TakenFrame ==
    ASSUME StreamIInv, UNCHANGED <<stream, pos, held, taken, streamed>>, Received' = Received,
           reader' = reader \/ reader' = "closed"
    PROVE  TakenInv'
<1>1. /\ \A n : Upto(n)' = Upto(n)
      /\ \A n : Unfinished(n)' = Unfinished(n)
      /\ \A i : Kind(i)' = Kind(i)
  BY ViewStep
<1>2. TakenInv
  BY DEF StreamIInv
<1> QED BY <1>1, <1>2 DEF TakenInv, Upto, Unfinished, Deltas, Kind

------------------------------------------------------------------------------
\* The steps of the goroutine.

LEMMA ScanLineStep ==
    ASSUME StreamsAreStreams, StreamIInv, ScanLine PROVE StreamIInv'
<1>1. /\ reader = "scan" /\ pos < Len(stream.lines) /\ pos' = pos + 1
      /\ UNCHANGED <<stream, cancelled, caller, taken, part, response, streamed, result>>
      /\ Kind(pos + 1) = stream.lines[pos + 1].kind
  BY DEF ScanLine, Kind, answerVars
<1>2. /\ StreamTypeOK /\ pos \in Nat /\ held \in Nat /\ Len(stream.lines) \in Nat
      /\ taken \in Nat /\ taken <= pos
  BY StreamFacts DEF StreamIInv
<1>3. held = 0
  BY <1>1, <1>2 DEF StreamTypeOK
<1>4. InOrder(Received, Upto(pos)) /\ Unfinished(pos) /\ InOrder(Received, Upto(taken))
  BY <1>1 DEF StreamIInv, TakenInv
<1>5. /\ Kind(pos + 1) \in {"skip", "usage"} => Upto(pos + 1) = Upto(pos) /\ Unfinished(pos + 1)
      /\ Kind(pos + 1) = "done" => Upto(pos) = Deltas
      /\ Kind(pos + 1) = "delta" => Unfinished(pos + 1)
      /\ Kind(pos + 1) \in {"skip", "done", "usage", "delta"}
  BY <1>1, <1>2, <1>4, NextLine
<1>6. AnswerInv' /\ Received' = Received
  BY <1>1, AnswerFrame, ReceivedFrame DEF StreamIInv, Aside, answerVars
<1>7. /\ \A n : Upto(n)' = Upto(n)
      /\ \A n : Unfinished(n)' = Unfinished(n)
      /\ Deltas' = Deltas
      /\ \A i : Kind(i)' = Kind(i)
  BY <1>1, ViewStep
<1>8. InOrder(Received', Upto(taken)')
  <2>1. Upto(taken)' = Upto(taken)
    BY <1>1 DEF Upto, Deltas, Kind
  <2> QED BY <1>4, <1>6, <2>1
<1>9. caller # "request" /\ result \in {"none", "request", "func", "read", "panic"}
  BY <1>1 DEF StreamIInv, PlaceInv, StreamTypeOK
<1>10. PICK p \in 1..Len(stream.lines) : p = pos + 1
  BY <1>1, <1>2
<1>14. pos' = p /\ p - 1 = pos /\ p # 0
  BY <1>1, <1>2, <1>10
<1>15. ASSUME held' = 0 \/ held' = p, held' # 0 <=> reader' = "send",
              reader' \in {"scan", "send", "closed"}
       PROVE  StreamTypeOK'
  <2>1. pos' \in 0..Len(stream'.lines) /\ held' \in 0..pos' /\ taken' \in 0..pos'
    BY <1>1, <1>2, <1>14, <1>15
  <2>2. UNCHANGED <<cancelled, caller, part, response, streamed, result>> /\ stream' \in Streams
    BY <1>1, <1>2 DEF StreamTypeOK
  <2> QED BY <1>2, <1>15, <2>1, <2>2 DEF StreamTypeOK
<1>11. CASE (ReaderDone \/ Kind(pos + 1) = "done") /\ reader' = "closed" /\ held' = held
  <2>1. StreamTypeOK'
    BY <1>3, <1>11, <1>15
  <2>2. TakenInv'
    BY <1>1, <1>8, <1>11 DEF TakenInv, Upto
  <2>3. PlaceInv'
    BY <1>1, <1>9, <1>11 DEF StreamIInv, PlaceInv
  <2>4. ClosedInv'
    <3>1. ASSUME ~cancelled, result \in {"none", "nil"} PROVE InOrder(Received, Deltas)
      <4>1. ~ReaderDone
        BY <1>9, <3>1 DEF ReaderDone, StreamIInv, PlaceInv
      <4> QED BY <1>4, <1>5, <1>11, <4>1
    <3> QED BY <1>1, <1>6, <1>7, <3>1 DEF ClosedInv
  <2> QED BY <1>6, <2>1, <2>2, <2>3, <2>4 DEF StreamIInv
<1>12. CASE ~ReaderDone /\ Kind(pos + 1) = "skip" /\ UNCHANGED <<reader, held>>
  <2>1. StreamTypeOK'
    BY <1>1, <1>3, <1>12, <1>15
  <2>2. TakenInv'
    <3>1. InOrder(Received, Upto(pos + 1)) /\ Unfinished(pos + 1)
      BY <1>4, <1>5, <1>12
    <3>2. InOrder(Received', Upto(p)') /\ Unfinished(p)'
      BY <1>6, <1>7, <1>10, <3>1
    <3> QED BY <1>1, <1>7, <1>8, <1>12, <1>14, <3>2 DEF TakenInv, Upto, Unfinished
  <2>3. PlaceInv' /\ ClosedInv'
    BY <1>1, <1>9, <1>12 DEF StreamIInv, PlaceInv, ClosedInv
  <2> QED BY <1>6, <2>1, <2>2, <2>3 DEF StreamIInv
<1>13. CASE ~ReaderDone /\ Kind(pos + 1) \notin {"skip", "done"}
            /\ reader' = "send" /\ held' = pos + 1
  <2>1. StreamTypeOK'
    BY <1>10, <1>13, <1>14, <1>15
  <2>2. TakenInv'
    <3>1. InOrder(Received, Upto(p - 1)) /\ Unfinished(p) /\ Kind(p) \notin {"skip", "done"}
      BY <1>4, <1>5, <1>10, <1>13, <1>14
    <3>2. InOrder(Received', Upto(p - 1)') /\ Unfinished(p)' /\ Kind(p)' \notin {"skip", "done"}
      BY <1>6, <1>7, <3>1
    <3>3. held' = p
      BY <1>10, <1>13
    <3> QED BY <1>1, <1>7, <1>8, <1>13, <1>14, <3>2, <3>3 DEF TakenInv, Upto, Unfinished, Kind
  <2>3. PlaceInv' /\ ClosedInv'
    BY <1>1, <1>9, <1>13 DEF StreamIInv, PlaceInv, ClosedInv
  <2> QED BY <1>6, <2>1, <2>2, <2>3 DEF StreamIInv
<1> QED BY <1>1, <1>11, <1>12, <1>13 DEF ScanLine

LEMMA ScanEndsStep ==
    ASSUME StreamsAreStreams, StreamIInv, ScanEnds PROVE StreamIInv'
<1>1. /\ reader = "scan" /\ pos = Len(stream.lines) /\ reader' = "closed"
      /\ UNCHANGED <<stream, pos, held, cancelled, caller, taken, part, response, streamed, result>>
  BY DEF ScanEnds, answerVars
<1>2. StreamTypeOK /\ InOrder(Received, Upto(pos))
  BY <1>1 DEF StreamIInv, TakenInv
<1>3. InOrder(Received, Deltas)
  BY <1>1, <1>2, EndsUpto
<1>4. StreamTypeOK'
  BY <1>1, <1>2 DEF StreamTypeOK
<1>5. AnswerInv' /\ Received' = Received
  BY <1>1, AnswerFrame, ReceivedFrame DEF StreamIInv, Aside, answerVars
<1>6. TakenInv'
  BY <1>1, <1>5, TakenFrame
<1>7. PlaceInv'
  BY <1>1 DEF StreamIInv, PlaceInv
<1>8. ClosedInv'
  <2>1. Deltas' = Deltas
    BY <1>1, ViewStep
  <2> QED BY <1>1, <1>3, <1>5, <2>1 DEF ClosedInv
<1> QED BY <1>4, <1>5, <1>6, <1>7, <1>8 DEF StreamIInv

LEMMA ScanFailsStep ==
    ASSUME StreamsAreStreams, StreamIInv, ScanFails PROVE StreamIInv'
<1>1. /\ reader = "scan" /\ reader' = "send error"
      /\ UNCHANGED <<stream, pos, held, cancelled, caller, taken, part, response, streamed, result>>
  BY DEF ScanFails, answerVars
<1>2. StreamTypeOK'
  BY <1>1 DEF StreamIInv, StreamTypeOK
<1>3. AnswerInv' /\ Received' = Received
  BY <1>1, AnswerFrame, ReceivedFrame DEF StreamIInv, Aside, answerVars
<1>4. TakenInv'
  <2>1. /\ \A n : Upto(n)' = Upto(n)
        /\ \A n : Unfinished(n)' = Unfinished(n)
    BY <1>1, ViewStep
  <2> QED BY <1>1, <1>3, <2>1 DEF StreamIInv, TakenInv, Upto, Unfinished, Deltas, Kind
<1>5. PlaceInv' /\ ClosedInv'
  BY <1>1 DEF StreamIInv, PlaceInv, ClosedInv
<1> QED BY <1>2, <1>3, <1>4, <1>5 DEF StreamIInv

LEMMA StopOnDoneStep ==
    ASSUME StreamsAreStreams, StreamIInv, StopOnDone PROVE StreamIInv'
<1>1. /\ reader \in {"send", "send error"} /\ ReaderDone /\ reader' = "closed" /\ held' = 0
      /\ UNCHANGED <<stream, pos, cancelled, caller, taken, part, response, streamed, result>>
  BY DEF StopOnDone, answerVars
<1>2. StreamTypeOK'
  <2>1. 0 \in 0..pos
    BY StreamFacts DEF StreamIInv
  <2> QED BY <1>1, <2>1 DEF StreamIInv, StreamTypeOK
<1>3. AnswerInv' /\ Received' = Received
  BY <1>1, AnswerFrame, ReceivedFrame DEF StreamIInv, Aside, answerVars
<1>4. TakenInv'
  <2>1. \A n : Upto(n)' = Upto(n)
    BY <1>1, ViewStep
  <2> QED BY <1>1, <1>3, <2>1 DEF StreamIInv, TakenInv, Upto, Deltas, Kind
<1>5. PlaceInv' /\ ClosedInv'
  BY <1>1 DEF StreamIInv, PlaceInv, ClosedInv, ReaderDone
<1> QED BY <1>2, <1>3, <1>4, <1>5 DEF StreamIInv

------------------------------------------------------------------------------
\* The steps of the caller outside a delta.

LEMMA CreateChatStep ==
    ASSUME StreamsAreStreams, StreamIInv, CreateChat PROVE StreamIInv'
<1>1. /\ caller = "request" /\ reader = "not started" /\ result = "none"
      /\ UNCHANGED <<stream, pos, held, cancelled, taken, part, response, streamed>>
      /\ \/ caller' = "returned" /\ result' = "request" /\ reader' = reader
         \/ caller' = "receive" /\ reader' = "scan" /\ result' = result
  BY DEF CreateChat, ReturnResult, StreamIInv, PlaceInv, answerVars
<1>2. StreamTypeOK'
  BY <1>1 DEF StreamIInv, StreamTypeOK
<1>3. AnswerInv' /\ Received' = Received
  BY <1>1, AnswerFrame, ReceivedFrame DEF StreamIInv, Aside, Pending, answerVars
<1>4. TakenInv'
  <2>1. /\ \A n : Upto(n)' = Upto(n)
        /\ \A n : Unfinished(n)' = Unfinished(n)
    BY <1>1, ViewStep
  <2>2. pos = 0 /\ taken = 0 /\ InOrder(Received, Upto(0)) /\ Unfinished(0)
    BY <1>1, EndsUpto DEF StreamIInv, TakenInv
  <2> QED BY <1>1, <1>3, <2>1, <2>2 DEF StreamIInv, TakenInv, Upto, Unfinished, Deltas, Kind
<1>5. PlaceInv' /\ ClosedInv'
  BY <1>1 DEF StreamIInv, PlaceInv, ClosedInv
<1> QED BY <1>2, <1>3, <1>4, <1>5 DEF StreamIInv

LEMMA ReceiveErrorStep ==
    ASSUME StreamsAreStreams, StreamIInv, ReceiveError PROVE StreamIInv'
<1>1. /\ caller = "receive" /\ reader = "send error" /\ reader' = "closed"
      /\ caller' = "returned" /\ result' = "read"
      /\ UNCHANGED <<stream, pos, held, cancelled, taken, part, response, streamed>>
  BY DEF ReceiveError, ReturnResult, answerVars
<1>2. StreamTypeOK'
  BY <1>1 DEF StreamIInv, StreamTypeOK
<1>3. AnswerInv' /\ Received' = Received
  BY <1>1, AnswerFrame, ReceivedFrame DEF StreamIInv, Aside, Pending, answerVars
<1>4. PlaceInv' /\ ClosedInv'
  BY <1>1 DEF StreamIInv, PlaceInv, ClosedInv
<1> QED BY <1>1, <1>2, <1>3, <1>4, TakenFrame DEF StreamIInv

LEMMA AnswerStep ==
    ASSUME StreamsAreStreams, StreamIInv, Answer PROVE StreamIInv'
<1>1. /\ caller = "receive" /\ result = "none" /\ reader = "closed"
      /\ caller' = "returned" /\ result' \in {"nil", "panic"}
      /\ UNCHANGED <<stream, pos, reader, held, cancelled, taken, part, response, streamed>>
  BY DEF Answer, ReturnResult, StreamIInv, PlaceInv, answerVars
<1>2. StreamTypeOK'
  BY <1>1 DEF StreamIInv, StreamTypeOK
<1>3. AnswerInv' /\ Received' = Received
  BY <1>1, AnswerFrame, ReceivedFrame DEF StreamIInv, Aside, Pending, answerVars
<1>4. PlaceInv' /\ ClosedInv'
  BY <1>1, <1>3 DEF StreamIInv, PlaceInv, ClosedInv, Deltas, Kind
<1> QED BY <1>1, <1>2, <1>3, <1>4, TakenFrame DEF StreamIInv

LEMMA CancelStep ==
    ASSUME StreamsAreStreams, StreamIInv, Cancel PROVE StreamIInv'
<1>1. /\ cancelled' = TRUE
      /\ UNCHANGED <<stream, pos, reader, held, caller, taken, part, response, streamed, result>>
  BY DEF Cancel, answerVars
<1>2. StreamTypeOK'
  BY <1>1 DEF StreamIInv, StreamTypeOK
<1>3. AnswerInv' /\ Received' = Received
  BY <1>1, AnswerFrame, ReceivedFrame DEF StreamIInv, Aside, answerVars
<1>4. PlaceInv' /\ ClosedInv'
  BY <1>1 DEF StreamIInv, PlaceInv, ClosedInv
<1> QED BY <1>1, <1>2, <1>3, <1>4, TakenFrame DEF StreamIInv

LEMMA StutterStep ==
    ASSUME StreamIInv, UNCHANGED streamVars PROVE StreamIInv'
<1>1. UNCHANGED <<stream, pos, reader, held, cancelled, caller, taken, part, response, streamed,
                  result>>
  BY DEF streamVars, answerVars
<1>2. StreamTypeOK'
  BY <1>1 DEF StreamIInv, StreamTypeOK
<1>3. AnswerInv' /\ Received' = Received
  BY <1>1, AnswerFrame, ReceivedFrame DEF StreamIInv, Aside, answerVars
<1>4. PlaceInv' /\ ClosedInv'
  BY <1>1, <1>3 DEF StreamIInv, PlaceInv, ClosedInv, Deltas, Kind
<1> QED BY <1>1, <1>2, <1>3, <1>4, TakenFrame DEF StreamIInv

------------------------------------------------------------------------------
\* A payload is received.

LEMMA PartsFacts ==
    ASSUME StreamsAreStreams, StreamTypeOK
    PROVE  /\ \A p \in Parts(Deltas) :
                /\ p[1] \in Deltas /\ p[1] \in 1..Len(stream.lines)
                /\ p[2] \in 1..Len(stream.lines[p[1]].calls)
                /\ p = <<p[1], p[2]>> /\ p \in Part /\ CallOf(p) \in Nat \ {0}
           /\ \A i \in Deltas : \A k \in 1..Len(stream.lines[i].calls) : <<i, k>> \in Parts(Deltas)
           /\ \A i \in Deltas : Len(stream.lines[i].calls) \in Nat
<1>1. /\ MaxLines \in Nat /\ Len(stream.lines) \in Nat /\ Len(stream.lines) <= MaxLines
      /\ \A i \in Deltas : i \in 1..Len(stream.lines)
  BY StreamFacts DEF Deltas
<1>2. \A i \in Deltas : stream.lines[i].calls \in Seq(Call) /\ Len(stream.lines[i].calls) \in Nat
  BY <1>1, StreamFacts, LineFacts
<1>3. ASSUME NEW i \in Deltas, NEW k \in 1..Len(stream.lines[i].calls)
      PROVE  /\ <<i, k>> \in Parts(Deltas) /\ <<i, k>> \in Part /\ CallOf(<<i, k>>) \in Nat \ {0}
  <2>1. <<i, k>> \in Parts(Deltas)
    BY <1>3 DEF Parts, PartsOf
  <2>2. i \in 1..MaxLines /\ k \in Nat \ {0}
    BY <1>1, <1>2, <1>3
  <2>3. stream.lines[i].calls[k] \in Call
    BY <1>2, <1>3, ElementOfSeq
  <2>4. CallOf(<<i, k>>) \in 1..MaxLines
    BY <2>3 DEF CallOf, PartOf, Call
  <2> QED BY <1>1, <2>1, <2>2, <2>4 DEF Part
<1>4. ASSUME NEW p \in Parts(Deltas)
      PROVE  /\ p[1] \in Deltas /\ p[2] \in 1..Len(stream.lines[p[1]].calls)
             /\ p = <<p[1], p[2]>>
  BY DEF Parts, PartsOf
<1>5. ASSUME NEW p \in Parts(Deltas) PROVE p \in Part /\ CallOf(p) \in Nat \ {0}
  <2>1. PICK i \in Deltas, k \in 1..Len(stream.lines[p[1]].calls) : p = <<i, k>> /\ i = p[1]
    BY <1>4
  <2> QED BY <1>3, <2>1
<1> QED BY <1>1, <1>2, <1>3, <1>4, <1>5

\* Once a delta is dealt with, the parts taken are those of the lines received.
LEMMA TakenIsUpto ==
    ASSUME StreamsAreStreams, StreamTypeOK, PartInv, caller # "tools"
    PROVE  PartsTaken = Parts(Upto(taken))
<1>1. taken \in Nat /\ \A p \in Parts(Deltas) : p[1] \in Nat /\ p[1] # 0
  BY StreamFacts, PartsFacts
<1>2. ASSUME NEW p \in Parts(Deltas)
      PROVE  p[1] < taken \/ (p[1] = taken /\ p[2] <= part) <=> p[1] <= taken
  <2>1. p[1] = taken => p[2] <= part
    <3>1. p[2] \in 1..Len(stream.lines[p[1]].calls) /\ Len(stream.lines[p[1]].calls) \in Nat
      BY PartsFacts
    <3>2. p[1] = taken => part = Len(stream.lines[p[1]].calls)
      BY <1>1 DEF PartInv
    <3> QED BY <3>1, <3>2
  <2> QED BY <1>1, <2>1
<1>3. PartsTaken = {p \in Parts(Deltas) : p[1] <= taken}
  BY <1>2 DEF PartsTaken
<1>4. \A p : p \in Parts(Upto(taken)) <=> p \in Parts(Deltas) /\ p[1] <= taken
  BY DEF Parts, PartsOf, Upto
<1> QED BY <1>3, <1>4

\* A payload without choices: nothing of the answer changes.
LEMMA ReceiveUsage ==
    ASSUME StreamsAreStreams, StreamIInv, Receive, Kind(held) = "usage" PROVE StreamIInv'
<1>1. /\ caller = "receive" /\ reader = "send" /\ reader' = "scan" /\ held' = 0
      /\ UNCHANGED <<stream, pos, cancelled, caller, taken, part, response, streamed, result>>
  BY DEF Receive, Kind, answerVars
<1>2. StreamTypeOK /\ pos \in Nat /\ pos <= Len(stream.lines) /\ held # 0 /\ held \in Nat
  BY <1>1, StreamFacts DEF StreamIInv, StreamTypeOK
<1>3. held = pos /\ InOrder(Received, Upto(pos - 1)) /\ Unfinished(pos)
  BY <1>1 DEF StreamIInv, TakenInv
<1>4. PICK m \in Nat : m = pos - 1
  BY <1>2, <1>3
<1>5. pos = m + 1 /\ m < Len(stream.lines) /\ Len(stream.lines) \in Nat
  BY <1>2, <1>4, StreamFacts
<1>6. InOrder(Received, Upto(pos))
  <2>1. Unfinished(m)
    BY <1>3, <1>5 DEF Unfinished
  <2>2. Upto(m + 1) = Upto(m)
    BY <1>2, <1>3, <1>5, <2>1, NextLine
  <2> QED BY <1>3, <1>4, <1>5, <2>2
<1>7. StreamTypeOK'
  <2>1. 0 \in 0..pos
    BY <1>2
  <2> QED BY <1>1, <2>1 DEF StreamIInv, StreamTypeOK
<1>8. AnswerInv' /\ Received' = Received
  BY <1>1, AnswerFrame, ReceivedFrame DEF StreamIInv, Aside, answerVars
<1>9. TakenInv'
  <2>1. /\ \A n : Upto(n)' = Upto(n)
        /\ \A n : Unfinished(n)' = Unfinished(n)
    BY <1>1, ViewStep
  <2> QED BY <1>1, <1>3, <1>6, <1>8, <2>1 DEF StreamIInv, TakenInv, Upto, Unfinished, Deltas, Kind
<1>10. PlaceInv' /\ ClosedInv'
  BY <1>1 DEF StreamIInv, PlaceInv, ClosedInv
<1> QED BY <1>7, <1>8, <1>9, <1>10 DEF StreamIInv

LEMMA ResponseFacts ==
    ASSUME StreamTypeOK
    PROVE  /\ response = [text |-> response.text, tools |-> response.tools,
                          function |-> response.function, finish |-> response.finish]
           /\ response.text \in Seq(1..MaxLines) /\ response.tools \in Seq(Seq(Part))
           /\ response.function \in Seq(1..MaxLines)
           /\ response.finish \in {"", "stop", "tool_calls", "function_call"}
BY DEF StreamTypeOK

LEMMA CombineFacts ==
    ASSUME StreamTypeOK, NEW i
    PROVE  /\ Combine(response, i).finish = stream.lines[i].finish
           /\ Combine(response, i).function = response.function
           /\ Combine(response, i).text =
                IF stream.lines[i].content THEN Append(response.text, i) ELSE response.text
           /\ Combine(response, i).tools = response.tools
           /\ Combine(response, i) =
                [text |-> Combine(response, i).text, tools |-> Combine(response, i).tools,
                 function |-> Combine(response, i).function,
                 finish |-> Combine(response, i).finish]
BY ResponseFacts DEF Combine, UpdateFunctionCall

\* A delta is received: its text is in the answer, the parts of its calls are not.
LEMMA ReceiveDelta ==
    ASSUME StreamsAreStreams, StreamIInv, Receive, Kind(held) # "usage" PROVE StreamIInv'
<1>1. /\ caller = "receive" /\ reader = "send" /\ reader' = "scan" /\ held' = 0
      /\ response' = Combine(response, held) /\ taken' = held /\ part' = 0
      /\ caller' = "tools" /\ UNCHANGED <<stream, pos, cancelled, streamed, result>>
  BY DEF Receive, Kind
<1>2. StreamTypeOK /\ pos \in Nat /\ pos <= Len(stream.lines) /\ held # 0 /\ held \in Nat
      /\ Len(stream.lines) \in Nat /\ Len(stream.lines) <= MaxLines /\ MaxLines \in Nat
      /\ DOMAIN stream.lines = 1..Len(stream.lines) /\ taken \in Nat /\ Received \in Seq(Nat)
  BY <1>1, StreamFacts, ReceivedFacts DEF StreamIInv, StreamTypeOK
<1>3. /\ held = pos /\ Kind(held) \notin {"skip", "done"}
      /\ InOrder(Received, Upto(pos - 1)) /\ Unfinished(pos) /\ InOrder(Received, Upto(taken))
  BY <1>1 DEF StreamIInv, TakenInv
<1>4. PICK p \in 1..Len(stream.lines) : p = pos
  BY <1>2, <1>3
<1>5. p \in 1..MaxLines /\ p \in Nat /\ p - 1 \in Nat /\ p = (p - 1) + 1 /\ p - 1 < Len(stream.lines)
  BY <1>2, <1>4
<1>6. /\ Kind(p) = "delta"
      /\ Upto(p) = Upto(p - 1) \cup {p}
      /\ \A i \in Upto(p - 1) : i < p
  <2>1. Unfinished(p - 1)
    BY <1>3, <1>4, <1>5 DEF Unfinished
  <2>2. PICK m \in Nat : m = p - 1
    BY <1>5
  <2>3. p = m + 1 /\ m < Len(stream.lines) /\ Unfinished(m)
    BY <1>5, <2>1, <2>2
  <2>4. Kind(p) \in {"skip", "done", "usage", "delta"}
    BY <1>2, <2>3, NextLine
  <2>5. Kind(p) = "delta"
    BY <1>3, <1>4, <2>4
  <2> QED BY <1>2, <2>2, <2>3, <2>5, NextLine
<1>7. InOrder(Received, Upto(p - 1)) /\ Unfinished(p)
  BY <1>3, <1>4
<1>8. Received' = Append(Received, p) /\ Pending' /\ InOrder(Received', Upto(p))
  <2>1. ~Pending /\ Pending'
    BY <1>1 DEF Pending
  <2>2. StreamedLines' = StreamedLines
    BY <1>1 DEF StreamedLines
  <2>3. Received' = Append(Received, p)
    BY <1>1, <1>3, <1>4, <2>1, <2>2 DEF Received
  <2> QED BY <1>2, <1>5, <1>6, <1>7, <2>1, <2>3, AppendInOrder
<1>9. ToSet(Received') = ToSet(Received) \cup {p} /\ \A y \in ToSet(Received) : y < p
  BY <1>6, <1>7, <1>8 DEF InOrder
<1>10. /\ response'.finish = stream.lines[p].finish
       /\ response'.function = response.function
       /\ response'.text = IF stream.lines[p].content THEN Append(response.text, p)
                           ELSE response.text
       /\ response'.tools = response.tools
       /\ response' = [text |-> response'.text, tools |-> response'.tools,
                       function |-> response'.function, finish |-> response'.finish]
  <2>1. response' = Combine(response, p)
    BY <1>1, <1>3, <1>4
  <2> QED BY <1>2, <1>6, <2>1, CombineFacts
<1>11. /\ response.text \in Seq(1..MaxLines) /\ response.tools \in Seq(Seq(Part))
       /\ response.function \in Seq(1..MaxLines)
  BY <1>2, ResponseFacts
<1>12. /\ \A n : Upto(n)' = Upto(n)
       /\ \A n : Unfinished(n)' = Unfinished(n)
       /\ Deltas' = Deltas
       /\ \A i : Kind(i)' = Kind(i)
  BY <1>1, ViewStep
<1>13. StreamTypeOK'
  <2>1. response'.text \in Seq(1..MaxLines)
    <3>1. Append(response.text, p) \in Seq(1..MaxLines)
      BY <1>5, <1>11, AppendProperties
    <3> QED BY <1>10, <1>11, <3>1
  <2>3. response'.finish \in {"", "stop", "tool_calls", "function_call"}
    <3>1. stream.lines[p] \in Line
      BY <1>2, StreamFacts
    <3> QED BY <1>10, <3>1, LineFacts
  <2>4. response' \in [text : Seq(1..MaxLines), tools : Seq(Seq(Part)),
                       function : Seq(1..MaxLines),
                       finish : {"", "stop", "tool_calls", "function_call"}]
    <3>1. PICK a, b, c, d : a = response'.text /\ b = response'.tools
                            /\ c = response'.function /\ d = response'.finish
      OBVIOUS
    <3>2. response' = [text |-> a, tools |-> b, function |-> c, finish |-> d]
      BY <1>10, <3>1
    <3>3. a \in Seq(1..MaxLines) /\ b \in Seq(Seq(Part)) /\ c \in Seq(1..MaxLines)
          /\ d \in {"", "stop", "tool_calls", "function_call"}
      BY <1>10, <1>11, <2>1, <2>3, <3>1
    <3> QED BY <3>2, <3>3
  <2>5. 0 \in 0..pos' /\ p \in 0..pos' /\ taken' = p /\ part' \in Nat
    BY <1>1, <1>2, <1>3, <1>4, <1>5
  <2> QED BY <1>1, <1>2, <2>4, <2>5 DEF StreamTypeOK
<1>14. TakenInv'
  <2>1. InOrder(Received', Upto(p)') /\ Unfinished(p)' /\ pos' = p /\ taken' = p
    BY <1>1, <1>3, <1>4, <1>7, <1>8, <1>12
  <2> QED BY <1>1, <2>1 DEF TakenInv, Upto, Unfinished, Deltas, Kind
<1>15. PlaceInv' /\ ClosedInv'
  BY <1>1 DEF StreamIInv, PlaceInv, ClosedInv
<1>16. FinishInv' /\ GivenInv'
  BY <1>1, <1>3, <1>4, <1>8, <1>10 DEF StreamIInv, AnswerInv, FinishInv, GivenInv
<1>17. TextInv'
  <2>1. InOrder(response.text, {i \in ToSet(Received) : stream.lines[i].content})
    BY DEF StreamIInv, AnswerInv, TextInv
  <2>2. {i \in ToSet(Received') : stream'.lines[i].content} =
          {i \in ToSet(Received) : stream.lines[i].content}
             \cup (IF stream.lines[p].content THEN {p} ELSE {})
    BY <1>1, <1>9
  <2>3. CASE stream.lines[p].content
    <3>1. response.text \in Seq(Nat)
      <4>1. 1..MaxLines \subseteq Nat
        BY <1>2
      <4> QED BY <1>11, <4>1, SeqMonotonic
    <3>2. \A y \in {i \in ToSet(Received) : stream.lines[i].content} : y < p
      BY <1>9
    <3>3. InOrder(Append(response.text, p),
                  {i \in ToSet(Received) : stream.lines[i].content} \cup {p})
      BY <1>5, <2>1, <3>1, <3>2, AppendInOrder
    <3> QED BY <1>10, <2>2, <2>3, <3>3 DEF TextInv
  <2>4. CASE ~stream.lines[p].content
    BY <1>10, <2>1, <2>2, <2>4 DEF TextInv
  <2> QED BY <2>3, <2>4
<1>18. PartInv'
  <2>1. Len(stream.lines[p].calls) \in Nat
    BY <1>2, StreamFacts, LineFacts
  <2> QED BY <1>1, <1>3, <1>4, <2>1 DEF PartInv
<1>19. PartsTaken' = PartsTaken
  <2>1. PartsTaken = Parts(Upto(p - 1))
    <3>1. Upto(taken) = Upto(p - 1)
      BY <1>3, <1>7 DEF InOrder
    <3> QED BY <1>1, <1>2, <3>1, TakenIsUpto DEF StreamIInv, AnswerInv
  <2>2. PartsTaken' = {q \in Parts(Deltas) : q[1] < p \/ (q[1] = p /\ q[2] <= 0)}
    BY <1>1, <1>3, <1>4, PartsFrame DEF PartsTaken
  <2>3. \A q \in Parts(Deltas) : q[1] < p \/ (q[1] = p /\ q[2] <= 0) <=> q[1] <= p - 1
    <3>1. \A q \in Parts(Deltas) : q[1] \in Nat /\ ~(q[2] <= 0)
      <4>1. \A q \in Parts(Deltas) : q[1] \in 1..Len(stream.lines)
              /\ q[1] \in Deltas /\ q[2] \in 1..Len(stream.lines[q[1]].calls)
        BY <1>2, PartsFacts
      <4>2. \A i \in Deltas : Len(stream.lines[i].calls) \in Nat
        BY <1>2, PartsFacts
      <4> QED BY <1>2, <4>1, <4>2
    <3> QED BY <1>5, <3>1
  <2>4. \A q : q \in Parts(Upto(p - 1)) <=> q \in Parts(Deltas) /\ q[1] <= p - 1
    BY DEF Parts, PartsOf, Upto
  <2> QED BY <2>1, <2>2, <2>3, <2>4
<1>20. TakenPartsInv' /\ (CallsInTurn' => CallsInv')
  <2>1. \A q : CallOf(q)' = CallOf(q)
    BY <1>1, PartsFrame
  <2>2. CallsInTurn' => CallsInTurn
    BY <1>1, PartsFrame
  <2>3. \A c : {q \in PartsTaken : CallOf(q) = c}' = {q \in PartsTaken : CallOf(q) = c}
    BY <1>19, <2>1
  <2>4. CallsInv => CallsInv'
    BY <1>10, <1>19, <2>1, <2>3 DEF CallsInv
  <2> QED BY <1>10, <1>19, <2>2, <2>4 DEF StreamIInv, AnswerInv, TakenPartsInv
<1> QED BY <1>13, <1>14, <1>15, <1>16, <1>17, <1>18, <1>20 DEF StreamIInv, AnswerInv

------------------------------------------------------------------------------
\* The parts of a delta's tool calls.

LEMMA OpenCallFacts ==
    ASSUME NEW tools \in Seq(Seq(Part)), NEW p \in Part, Opens(p),
           NEW u, u = AppendToolCall(tools, p)
    PROVE  /\ u \in Seq(Seq(Part)) /\ Len(u) = Len(tools) + 1 /\ u[Len(tools) + 1] = <<p>>
           /\ \A c \in 1..Len(tools) : u[c] = tools[c]
<1>1. <<p>> \in Seq(Part)
  OBVIOUS
<1>2. u = Append(tools, <<p>>)
  BY DEF AppendToolCall
<1> QED BY <1>1, <1>2, AppendProperties, LenProperties

LEMMA ExtendCallFacts ==
    ASSUME NEW tools \in Seq(Seq(Part)), NEW p \in Part, ~Opens(p),
           NEW u, u = AppendToolCall(tools, p)
    PROVE  /\ u \in Seq(Seq(Part)) /\ Len(u) = Len(tools)
           /\ Len(tools) > 0 => u[Len(tools)] = Append(tools[Len(tools)], p)
           /\ \A c \in 1..(Len(tools) - 1) : u[c] = tools[c]
<1>n. PICK n \in Nat : n = Len(tools)
  BY LenProperties
<1>1. DOMAIN tools = 1..n
  BY <1>n, LenProperties
<1>2. CASE tools = <<>>
  <2>1. u = tools /\ n = 0
    BY <1>n, <1>2, EmptySeq DEF AppendToolCall
  <2> QED BY <1>n, <1>1, <2>1
<1>3. CASE tools # <<>>
  <2>1. n \in 1..n
    BY <1>n, <1>1, <1>3, EmptySeq
  <2>2. tools[n] \in Seq(Part)
    BY <1>n, <2>1, ElementOfSeq
  <2>3. Append(tools[n], p) \in Seq(Part)
    BY <2>2, AppendProperties
  <2>4. u = [tools EXCEPT ![n] = Append(@, p)]
    BY <1>n, <1>3 DEF AppendToolCall
  <2>5. u \in Seq(Seq(Part)) /\ Len(u) = n
    BY <1>n, <2>1, <2>3, <2>4, ExceptSeq
  <2>6. u[n] = Append(tools[n], p) /\ \A c \in 1..n : c # n => u[c] = tools[c]
    BY <1>1, <2>1, <2>4
  <2>7. \A c \in 1..(n - 1) : c \in 1..n /\ c # n
    OBVIOUS
  <2> QED BY <1>n, <2>5, <2>6, <2>7
<1> QED BY <1>2, <1>3

\* The part it takes next comes after those it has taken, with none between.
LEMMA NextPart ==
    ASSUME StreamsAreStreams, StreamIInv, caller = "tools",
           part < Len(stream.lines[taken].calls), NEW q, q = <<taken, part + 1>>
    PROVE  /\ q \in Parts(Deltas) /\ q \in Part
           /\ \A p \in PartsTaken : Before(p, q) /\ p \in Parts(Deltas)
           /\ \A p \in Parts(Deltas) : Before(p, q) <=> p \in PartsTaken
           /\ {p \in Parts(Deltas) : p[1] < taken \/ (p[1] = taken /\ p[2] <= part + 1)}
                = PartsTaken \cup {q}
<1>1. StreamTypeOK /\ taken \in Nat /\ part \in Nat
  BY StreamFacts DEF StreamIInv
<1>2. taken \in Deltas
  <2>1. taken \in ToSet(Received)
    BY <1>1, ReceivedFacts DEF Pending
  <2> QED BY <2>1 DEF StreamIInv, TakenInv, InOrder, Upto
<1>3. q \in Parts(Deltas) /\ q \in Part
  <2>1. part + 1 \in 1..Len(stream.lines[taken].calls)
    BY <1>1, <1>2, PartsFacts
  <2> QED BY <1>1, <1>2, <2>1, PartsFacts
<1>4. \A p \in Parts(Deltas) : p[1] \in Nat /\ p[2] \in Nat /\ p = <<p[1], p[2]>>
  <2>1. \A p \in Parts(Deltas) : p \in Part /\ p = <<p[1], p[2]>>
    BY <1>1, PartsFacts
  <2>2. MaxLines \in Nat
    BY <1>1, StreamFacts
  <2> QED BY <2>1, <2>2 DEF Part
<1>5. q[1] = taken /\ q[2] = part + 1
  OBVIOUS
<1>6. ASSUME NEW p \in Parts(Deltas) PROVE Before(p, q) <=> p \in PartsTaken
  BY <1>1, <1>4, <1>5 DEF Before, PartsTaken
<1>7. ASSUME NEW p \in Parts(Deltas)
      PROVE  p[1] < taken \/ (p[1] = taken /\ p[2] <= part + 1) <=> p \in PartsTaken \/ p = q
  <2>1. p[1] = taken /\ p[2] = part + 1 <=> p = q
    BY <1>4, <1>5
  <2> QED BY <1>1, <1>4, <2>1 DEF PartsTaken
<1>8. \A p \in PartsTaken : p \in Parts(Deltas)
  BY DEF PartsTaken
<1> QED BY <1>3, <1>6, <1>7, <1>8

\* The part opens a call: when calls come in turn, it is the next one.
LEMMA OpenCallStep ==
    ASSUME StreamsAreStreams, StreamTypeOK, CallsInTurn, CallsInv,
           NEW q \in Parts(Deltas), q \in Part, Opens(q),
           \A p \in Parts(Deltas) : Before(p, q) <=> p \in PartsTaken,
           NEW n \in Nat, n = Len(response.tools)
    PROVE  CallOf(q) = n + 1
<1>1. \A p \in Parts(Deltas) : CallOf(p) \in Nat \ {0}
  BY PartsFacts
<1>2. \A p \in PartsTaken : p \in Parts(Deltas) /\ Before(p, q) /\ CallOf(p) \in 1..n
  BY DEF PartsTaken, CallsInv
<1>3. \A p \in PartsTaken : CallOf(p) < CallOf(q)
  BY <1>2 DEF CallsInTurn
<1>4. CallOf(q) > n
  <2>1. CASE n = 0
    BY <1>1, <2>1
  <2>2. CASE n # 0
    <3>1. n \in 1..n
      BY <2>2
    <3>2. PICK p \in PartsTaken : CallOf(p) = n
      BY <3>1 DEF CallsInv
    <3> QED BY <1>1, <1>2, <1>3, <3>2
  <2> QED BY <2>1, <2>2
<1>5. CallOf(q) = 1 \/ \E p \in PartsTaken : CallOf(p) >= CallOf(q) - 1
  BY DEF CallsInTurn
<1> QED BY <1>1, <1>2, <1>4, <1>5

\* The part is arguments: when calls come in turn, of the call begun last.
LEMMA ExtendCallStep ==
    ASSUME StreamsAreStreams, StreamTypeOK, CallsInTurn, CallsInv,
           NEW q \in Parts(Deltas), q \in Part, ~Opens(q),
           \A p \in Parts(Deltas) : Before(p, q) <=> p \in PartsTaken,
           NEW n \in Nat, n = Len(response.tools)
    PROVE  CallOf(q) = n /\ n \in 1..n
<1>1. \A p \in Parts(Deltas) : CallOf(p) \in Nat \ {0}
  BY PartsFacts
<1>2. \A p \in PartsTaken : p \in Parts(Deltas) /\ Before(p, q) /\ CallOf(p) \in 1..n
  BY DEF PartsTaken, CallsInv
<1>3. \A p \in PartsTaken : CallOf(p) <= CallOf(q)
  BY <1>2 DEF CallsInTurn
<1>4. PICK p \in PartsTaken : ~(CallOf(p) < CallOf(q))
  BY DEF CallsInTurn
<1>5. CallOf(q) \in 1..n
  BY <1>1, <1>2, <1>3, <1>4
<1>6. PICK r \in PartsTaken : CallOf(r) = n
  <2>1. n \in 1..n
    BY <1>5
  <2> QED BY <2>1 DEF CallsInv
<1>7. n <= CallOf(q)
  BY <1>3, <1>6
<1> QED BY <1>5, <1>7

\* With it, each call has its own parts.
LEMMA CallsStep ==
    ASSUME StreamsAreStreams, StreamIInv, CallsInTurn, caller = "tools", UNCHANGED stream,
           part < Len(stream.lines[taken].calls), NEW q, q = <<taken, part + 1>>,
           response'.tools = AppendToolCall(response.tools, q), PartsTaken' = PartsTaken \cup {q}
    PROVE  CallsInv'
<1>1. StreamTypeOK /\ CallsInv
  BY DEF StreamIInv, AnswerInv
<1>n. PICK n \in Nat : n = Len(response.tools)
  BY <1>1, ResponseFacts, LenProperties
<1>t. PICK t : t = response.tools
  OBVIOUS
<1>u. PICK u : u = AppendToolCall(t, q)
  OBVIOUS
<1>2. response'.tools = u /\ t \in Seq(Seq(Part)) /\ Len(t) = n
  BY <1>1, <1>n, <1>t, <1>u, ResponseFacts
<1>3. /\ q \in Parts(Deltas) /\ q \in Part
      /\ \A p \in PartsTaken : Before(p, q)
      /\ \A p \in Parts(Deltas) : Before(p, q) <=> p \in PartsTaken
  BY NextPart
<1>4. PICK S : S = [c \in Nat |-> {p \in PartsTaken : CallOf(p) = c}]
  OBVIOUS
<1>5. /\ \A c \in 1..n : PartsInOrder(t[c], S[c]) /\ \E p \in PartsTaken : CallOf(p) = c
      /\ \A p \in PartsTaken : CallOf(p) \in 1..n
      /\ \A c \in Nat : S[c] = {p \in PartsTaken : CallOf(p) = c}
  <2>1. \A c \in 1..n : c \in Nat
    OBVIOUS
  <2> QED BY <1>1, <1>n, <1>t, <1>4, <2>1 DEF CallsInv
<1>6. \A p : CallOf(p)' = CallOf(p)
  BY PartsFrame
<1>7. \A c \in Nat : {p \in PartsTaken' : CallOf(p)' = c} = S[c] \cup (IF CallOf(q) = c THEN {q} ELSE {})
  BY <1>5, <1>6
<1>8. SUFFICES ASSUME NEW m \in Nat, m = Len(u)
               PROVE  /\ \A c \in 1..m : /\ PartsInOrder(u[c], S[c] \cup (IF CallOf(q) = c THEN {q} ELSE {}))
                                         /\ \E p \in PartsTaken \cup {q} : CallOf(p) = c
                      /\ \A p \in PartsTaken \cup {q} : CallOf(p) \in 1..m
  <2>1. u \in Seq(Seq(Part))
    BY <1>2, <1>3, <1>u, OpenCallFacts, ExtendCallFacts
  <2>2. PICK m \in Nat : m = Len(u)
    BY <2>1, LenProperties
  <2>3. \A c \in 1..m : PartsInOrder(u[c], {p \in PartsTaken' : CallOf(p)' = c})
    <3>1. \A c \in 1..m : c \in Nat
      OBVIOUS
    <3>2. \A c \in 1..m : PartsInOrder(u[c], S[c] \cup (IF CallOf(q) = c THEN {q} ELSE {}))
      BY <1>8, <2>2
    <3> QED BY <1>7, <3>1, <3>2
  <2>4. /\ \A c \in 1..m : \E p \in PartsTaken' : CallOf(p)' = c
        /\ \A p \in PartsTaken' : CallOf(p)' \in 1..m
    BY <1>6, <1>8, <2>2
  <2>5. Len(response'.tools) = m
    BY <1>2, <2>2
  <2> QED BY <1>2, <2>3, <2>4, <2>5 DEF CallsInv
<1>9. CASE Opens(q)
  <2>1. CallOf(q) = n + 1
    BY <1>1, <1>3, <1>9, <1>n, OpenCallStep
  <2>2. m = n + 1 /\ u[n + 1] = <<q>> /\ \A c \in 1..n : u[c] = t[c]
    BY <1>2, <1>3, <1>8, <1>9, <1>u, OpenCallFacts
  <2>3. S[n + 1] = {}
    BY <1>5
  <2>4. \A c \in 1..(n + 1) : c \in 1..n \/ c = n + 1
    OBVIOUS
  <2>5. \A c \in 1..n : c \in 1..(n + 1) /\ c # n + 1
    OBVIOUS
  <2>6. PartsInOrder(<<q>>, {q})
    BY OnePartInOrder
  <2>7. \A c \in 1..(n + 1) : PartsInOrder(u[c], S[c] \cup (IF CallOf(q) = c THEN {q} ELSE {}))
    <3>1. ASSUME NEW c \in 1..n PROVE PartsInOrder(u[c], S[c] \cup (IF CallOf(q) = c THEN {q} ELSE {}))
      BY <1>5, <2>1, <2>2, <2>5
    <3>2. PartsInOrder(u[n + 1], S[n + 1] \cup {q})
      BY <2>2, <2>3, <2>6
    <3> QED BY <2>1, <2>4, <3>1, <3>2
  <2>8. \A c \in 1..(n + 1) : \E p \in PartsTaken \cup {q} : CallOf(p) = c
    BY <1>5, <2>1, <2>4
  <2>9. \A p \in PartsTaken \cup {q} : CallOf(p) \in 1..(n + 1)
    BY <1>5, <2>1, <2>5
  <2> QED BY <2>2, <2>7, <2>8, <2>9
<1>10. CASE ~Opens(q)
  <2>1. CallOf(q) = n /\ n \in 1..n
    BY <1>1, <1>3, <1>10, <1>n, ExtendCallStep
  <2>2. m = n /\ u[n] = Append(t[n], q) /\ \A c \in 1..(n - 1) : u[c] = t[c]
    <3>1. /\ Len(u) = Len(t) /\ (Len(t) > 0 => u[Len(t)] = Append(t[Len(t)], q))
          /\ \A c \in 1..(Len(t) - 1) : u[c] = t[c]
      <4>1. t \in Seq(Seq(Part)) /\ q \in Part
        BY <1>2, <1>3
      <4> QED BY ONLY <1>10, <1>u, <4>1, ExtendCallFacts
    <3> QED BY <1>2, <1>8, <2>1, <3>1
  <2>3. \A c \in 1..n : c \in 1..(n - 1) \/ c = n
    OBVIOUS
  <2>4. \A c \in 1..(n - 1) : c \in 1..n /\ c # n
    OBVIOUS
  <2>5. PartsInOrder(Append(t[n], q), S[n] \cup {q})
    <3>1. t[n] \in Seq(Part)
      BY <1>2, <2>1, ElementOfSeq
    <3>2. \A p \in S[n] : Before(p, q)
      BY <1>3, <1>5
    <3> QED BY <1>3, <1>5, <2>1, <3>1, <3>2, AppendPartsInOrder
  <2>6. \A c \in 1..n : PartsInOrder(u[c], S[c] \cup (IF CallOf(q) = c THEN {q} ELSE {}))
    <3>1. ASSUME NEW c \in 1..(n - 1)
          PROVE  PartsInOrder(u[c], S[c] \cup (IF CallOf(q) = c THEN {q} ELSE {}))
      BY <1>5, <2>1, <2>2, <2>4
    <3> QED BY <2>1, <2>2, <2>3, <2>5, <3>1
  <2>7. \A p \in PartsTaken \cup {q} : CallOf(p) \in 1..n
    BY <1>5, <2>1
  <2> QED BY <1>5, <2>2, <2>6, <2>7
<1> QED BY <1>9, <1>10

\* One turn of the loop over a delta's tool calls.
LEMMA TakePartStep ==
    ASSUME StreamsAreStreams, StreamIInv, UpdateToolCalls,
           part < Len(stream.lines[taken].calls), part' = part + 1
    PROVE  StreamIInv'
<1>1. /\ caller = "tools" /\ caller' = caller
      /\ response' = [response EXCEPT !.tools = AppendToolCall(@, <<taken, part + 1>>)]
      /\ UNCHANGED <<stream, pos, reader, held, cancelled, taken, streamed, result>>
  <2>1. part \in Nat
    BY StreamFacts DEF StreamIInv
  <2>2. part' # part
    BY <2>1
  <2> QED BY <2>2 DEF UpdateToolCalls
<1>2. StreamTypeOK /\ part \in Nat
  BY StreamFacts DEF StreamIInv
<1>q. PICK q : q = <<taken, part + 1>>
  OBVIOUS
<1>t. PICK t : t = response.tools
  OBVIOUS
<1>u. PICK u : u = AppendToolCall(t, q)
  OBVIOUS
<1>3. t \in Seq(Seq(Part)) /\ q \in Part /\ q \in Parts(Deltas)
  BY <1>1, <1>2, <1>q, <1>t, ResponseFacts, NextPart
<1>4. u \in Seq(Seq(Part))
  BY <1>3, <1>u, OpenCallFacts, ExtendCallFacts
<1>5. /\ response'.tools = u /\ response'.text = response.text
      /\ response'.finish = response.finish
      /\ response' = [text |-> response.text, tools |-> u,
                      function |-> response.function, finish |-> response.finish]
  BY <1>1, <1>2, <1>q, <1>t, <1>u, ResponseFacts
<1>6. StreamTypeOK'
  <2>1. response' \in [text : Seq(1..MaxLines), tools : Seq(Seq(Part)),
                       function : Seq(1..MaxLines),
                       finish : {"", "stop", "tool_calls", "function_call"}]
    <3>1. PICK a, b, c : a = response.text /\ b = response.function /\ c = response.finish
      OBVIOUS
    <3>2. response' = [text |-> a, tools |-> u, function |-> b, finish |-> c]
      BY <1>5, <3>1
    <3>3. /\ a \in Seq(1..MaxLines) /\ b \in Seq(1..MaxLines)
          /\ c \in {"", "stop", "tool_calls", "function_call"}
      BY <1>2, <3>1, ResponseFacts
    <3> QED BY <1>4, <3>2, <3>3
  <2>2. part' \in Nat
    BY <1>2
  <2> QED BY <1>1, <1>2, <2>1, <2>2 DEF StreamTypeOK
<1>7. Received' = Received /\ Pending' = Pending
  BY <1>1, ReceivedFrame DEF Aside
<1>8. TakenInv'
  BY <1>1, <1>7, TakenFrame
<1>9. PlaceInv' /\ ClosedInv'
  BY <1>1, <1>7 DEF StreamIInv, PlaceInv, ClosedInv, Deltas, Kind
<1>10. FinishInv' /\ TextInv' /\ GivenInv'
  BY <1>1, <1>5, <1>7 DEF StreamIInv, AnswerInv, FinishInv, TextInv, GivenInv
<1>11. PartInv'
  <2>1. taken # 0
    <3>1. taken \in ToSet(Received)
      BY <1>1, <1>2, ReceivedFacts DEF Pending
    <3>2. taken \in Deltas
      BY <3>1 DEF StreamIInv, TakenInv, InOrder, Upto
    <3> QED BY <1>2, <3>2, StreamFacts DEF Deltas
  <2>2. Len(stream.lines[taken].calls) \in Nat
    <3>1. taken \in 1..Len(stream.lines)
      BY <1>2, <2>1, StreamFacts
    <3> QED BY <1>2, <3>1, StreamFacts, LineFacts
  <2> QED BY <1>1, <1>2, <2>1, <2>2 DEF PartInv
<1>12. PartsTaken' = PartsTaken \cup {q}
  <2>1. PartsTaken' = {p \in Parts(Deltas) : p[1] < taken \/ (p[1] = taken /\ p[2] <= part + 1)}
    BY <1>1, PartsFrame DEF PartsTaken
  <2> QED BY <1>1, <1>q, <2>1, NextPart
<1>13. TakenPartsInv'
  <2>1. \A c \in 1..Len(t) : ToSet(t[c]) \subseteq PartsTaken
    BY <1>t DEF StreamIInv, AnswerInv, TakenPartsInv
  <2>n. PICK n \in Nat : n = Len(t)
    BY <1>3, LenProperties
  <2>2. CASE Opens(q)
    <3>1. Len(u) = n + 1 /\ u[n + 1] = <<q>> /\ \A c \in 1..n : u[c] = t[c]
      BY <1>3, <1>u, <2>n, <2>2, OpenCallFacts
    <3>2. ToSet(<<q>>) = {q}
      BY OnePartInOrder DEF PartsInOrder
    <3>3. \A c \in 1..(n + 1) : c \in 1..n \/ c = n + 1
      OBVIOUS
    <3>4. \A c \in 1..(n + 1) : ToSet(u[c]) \subseteq PartsTaken \cup {q}
      BY <2>1, <2>n, <3>1, <3>2, <3>3
    <3> QED BY <1>5, <1>12, <3>1, <3>4 DEF TakenPartsInv
  <2>3. CASE ~Opens(q)
    <3>1. /\ Len(u) = n
          /\ n > 0 => u[n] = Append(t[n], q)
          /\ \A c \in 1..(n - 1) : u[c] = t[c]
      BY <1>3, <1>u, <2>n, <2>3, ExtendCallFacts
    <3>2. \A c \in 1..n : (c \in 1..(n - 1) \/ c = n) /\ n > 0
      OBVIOUS
    <3>3. n > 0 => ToSet(Append(t[n], q)) = ToSet(t[n]) \cup {q}
      <4>1. ASSUME n > 0 PROVE t[n] \in Seq(Part)
        BY <1>3, <2>n, <4>1, ElementOfSeq
      <4> QED BY <1>3, <4>1, AppendFacts
    <3>4. ASSUME NEW c \in 1..n PROVE ToSet(u[c]) \subseteq PartsTaken \cup {q}
      <4>1. ToSet(t[c]) \subseteq PartsTaken
        BY <2>1, <2>n
      <4> QED BY <3>1, <3>2, <3>3, <4>1
    <3> QED BY <1>5, <1>12, <3>1, <3>4 DEF TakenPartsInv
  <2> QED BY <2>2, <2>3
<1>14. CallsInTurn' => CallsInv'
  <2>1. CallsInTurn' => CallsInTurn
    BY <1>1, PartsFrame
  <2>2. CallsInTurn => CallsInv'
    BY <1>1, <1>5, <1>12, <1>q, <1>t, <1>u, CallsStep
  <2> QED BY <2>1, <2>2
<1> QED BY <1>6, <1>8, <1>9, <1>10, <1>11, <1>13, <1>14 DEF StreamIInv, AnswerInv

\* The loop is over.
LEMMA EndPartsStep ==
    ASSUME StreamsAreStreams, StreamIInv, caller = "tools", caller' = "func",
           part = Len(stream.lines[taken].calls),
           UNCHANGED <<stream, pos, reader, held, cancelled, taken, part, response, streamed, result>>
    PROVE  StreamIInv'
<1>1. StreamTypeOK'
  BY DEF StreamIInv, StreamTypeOK
<1>2. Received' = Received /\ Pending' = Pending
  BY DEF Received, Pending, StreamedLines
<1>3. TakenInv'
  BY <1>2, TakenFrame
<1>4. PlaceInv' /\ ClosedInv'
  BY <1>2 DEF StreamIInv, PlaceInv, ClosedInv, Deltas, Kind
<1>5. FinishInv' /\ TextInv' /\ GivenInv' /\ PartInv'
  BY <1>2 DEF StreamIInv, AnswerInv, FinishInv, TextInv, GivenInv, PartInv
<1>6. PartsTaken' = PartsTaken /\ (CallsInTurn' => CallsInTurn) /\ \A p : CallOf(p)' = CallOf(p)
  BY PartsFrame DEF PartsTaken
<1>7. \A c : {p \in PartsTaken : CallOf(p) = c}' = {p \in PartsTaken : CallOf(p) = c}
  BY <1>6
<1>8. TakenPartsInv' /\ (CallsInv => CallsInv')
  BY <1>6, <1>7 DEF StreamIInv, AnswerInv, TakenPartsInv, CallsInv
<1> QED BY <1>1, <1>3, <1>4, <1>5, <1>6, <1>8 DEF StreamIInv, AnswerInv

LEMMA UpdateToolCallsStep ==
    ASSUME StreamsAreStreams, StreamIInv, UpdateToolCalls PROVE StreamIInv'
<1>1. CASE part < Len(stream.lines[taken].calls) /\ part' = part + 1
  BY <1>1, TakePartStep
<1>2. CASE part = Len(stream.lines[taken].calls) /\ caller' = "func" /\ UNCHANGED <<part, response>>
  BY <1>2, EndPartsStep DEF UpdateToolCalls
<1> QED BY <1>1, <1>2 DEF UpdateToolCalls

\* StreamingFunc is called for the delta.
LEMMA StreamingFuncStep ==
    ASSUME StreamsAreStreams, StreamIInv, StreamingFunc PROVE StreamIInv'
<1>1. /\ caller = "func" /\ result = "none" /\ reader # "not started"
      /\ streamed' = Append(streamed, [line |-> taken, chunk |-> Chunk(stream.lines[taken])])
      /\ UNCHANGED <<stream, pos, reader, held, cancelled, taken, part, response>>
      /\ \/ caller' = "receive" /\ result' = result
         \/ caller' = "returned" /\ result' = "func"
  BY DEF StreamingFunc, ReturnResult, StreamIInv, PlaceInv
<1>e. PICK e : e = [line |-> taken, chunk |-> Chunk(stream.lines[taken])]
  OBVIOUS
<1>2. StreamTypeOK /\ taken \in 1..MaxLines
  <2>1. StreamTypeOK
    BY DEF StreamIInv
  <2>2. taken \in ToSet(Received)
    BY <1>1, <2>1, ReceivedFacts DEF Pending
  <2>3. taken \in Deltas
    BY <2>2 DEF StreamIInv, TakenInv, InOrder, Upto
  <2> QED BY <2>1, <2>3, StreamFacts DEF Deltas
<1>3. e \in [line : 1..MaxLines, chunk : {"content", "function", "calls"}]
  BY <1>2, <1>e DEF Chunk
<1>4. /\ streamed \in Seq([line : 1..MaxLines, chunk : {"content", "function", "calls"}])
      /\ streamed' = Append(streamed, e)
  BY <1>1, <1>2, <1>e DEF StreamTypeOK
<1>5. /\ streamed' \in Seq([line : 1..MaxLines, chunk : {"content", "function", "calls"}])
      /\ ToSet(streamed') = ToSet(streamed) \cup {e} /\ Last(streamed') = e
  <2>1. PICK T : T = [line : 1..MaxLines, chunk : {"content", "function", "calls"}]
    OBVIOUS
  <2>2. streamed \in Seq(T) /\ e \in T
    BY <1>3, <1>4, <2>1
  <2>3. /\ Append(streamed, e) \in Seq(T)
        /\ ToSet(Append(streamed, e)) = ToSet(streamed) \cup {e}
        /\ Last(Append(streamed, e)) = e
    BY ONLY <2>2, AppendFacts
  <2> QED BY <1>4, <2>1, <2>3
<1>6. Received' = Received /\ Pending /\ ~Pending'
  <2>1. StreamedLines' = Append(StreamedLines, e.line)
    BY <1>2, <1>3, <1>4, StreamedAppend
  <2>2. Pending /\ ~Pending'
    BY <1>1 DEF Pending
  <2>3. e.line = taken
    BY <1>e
  <2> QED BY <2>1, <2>2, <2>3 DEF Received
<1>7. StreamTypeOK'
  BY <1>1, <1>2, <1>5 DEF StreamTypeOK
<1>8. TakenInv'
  <2>1. /\ \A n : Upto(n)' = Upto(n)
        /\ \A n : Unfinished(n)' = Unfinished(n)
        /\ \A i : Kind(i)' = Kind(i)
    BY <1>1, ViewStep
  <2> QED BY <1>1, <1>6, <2>1 DEF StreamIInv, TakenInv, Upto, Unfinished, Deltas, Kind
<1>9. PlaceInv' /\ ClosedInv'
  BY <1>1, <1>6 DEF StreamIInv, PlaceInv, ClosedInv, Deltas, Kind
<1>10. FinishInv'
  <2>1. taken # 0 /\ Last(streamed').line = taken
    <3>1. \A x \in 1..MaxLines : x # 0
      BY <1>2, StreamFacts
    <3> QED BY <1>2, <1>5, <1>e, <3>1
  <2> QED BY <1>1, <2>1 DEF StreamIInv, AnswerInv, FinishInv
<1>11. TextInv'
  BY <1>1, <1>6 DEF StreamIInv, AnswerInv, TextInv
<1>12. GivenInv'
  <2>1. \A s \in ToSet(streamed) : s.chunk = Chunk(stream.lines[s.line])
    BY DEF StreamIInv, AnswerInv, GivenInv
  <2>2. e.chunk = Chunk(stream.lines[e.line])
    BY <1>e
  <2>3. \A s \in ToSet(streamed') : s.chunk = Chunk(stream.lines[s.line])
    BY <1>5, <2>1, <2>2
  <2>4. stream' = stream
    BY <1>1
  <2> QED BY <2>3, <2>4 DEF GivenInv
<1>13. PartInv'
  BY <1>1 DEF StreamIInv, AnswerInv, PartInv
<1>14. PartsTaken' = PartsTaken /\ (CallsInTurn' => CallsInTurn) /\ \A p : CallOf(p)' = CallOf(p)
  <2>1. UNCHANGED <<stream, taken, part>>
    BY <1>1
  <2> QED BY <2>1, PartsFrame DEF PartsTaken
<1>15. \A c : {p \in PartsTaken : CallOf(p) = c}' = {p \in PartsTaken : CallOf(p) = c}
  BY <1>14
<1>16. TakenPartsInv' /\ (CallsInv => CallsInv')
  BY <1>1, <1>14, <1>15 DEF StreamIInv, AnswerInv, TakenPartsInv, CallsInv
<1> QED BY <1>7, <1>8, <1>9, <1>10, <1>11, <1>12, <1>13, <1>14, <1>16 DEF StreamIInv, AnswerInv

------------------------------------------------------------------------------

LEMMA InitStreamIInv ==
    ASSUME StreamsAreStreams, StreamInit PROVE StreamIInv
<1>1. /\ stream \in Streams /\ pos = 0 /\ reader = "not started" /\ held = 0
      /\ cancelled = FALSE /\ caller = "request" /\ taken = 0 /\ part = 0
      /\ streamed = <<>> /\ result = "none"
      /\ response = [text |-> <<>>, tools |-> <<>>, function |-> <<>>, finish |-> ""]
  BY DEF StreamInit, EmptyResponse
<1>2. Len(stream.lines) \in Nat
  <2>1. stream.lines \in Seq(Line)
    BY <1>1 DEF StreamsAreStreams, IsStream
  <2> QED BY <2>1, LenProperties
<1>3. StreamTypeOK
  <2>1. response \in [text : Seq(1..MaxLines), tools : Seq(Seq(Part)),
                      function : Seq(1..MaxLines),
                      finish : {"", "stop", "tool_calls", "function_call"}]
    BY <1>1, EmptySeq
  <2>2. pos \in 0..Len(stream.lines) /\ held \in 0..pos /\ taken \in 0..pos
    <3>1. \A m \in Nat : 0 \in 0..m
      OBVIOUS
    <3> QED BY <1>1, <1>2, <3>1
  <2>3. streamed \in Seq([line : 1..MaxLines, chunk : {"content", "function", "calls"}])
    BY <1>1, EmptySeq
  <2> QED BY <1>1, <2>1, <2>2, <2>3 DEF StreamTypeOK
<1>4. StreamedLines = <<>> /\ Received = <<>> /\ ~Pending /\ ToSet(<<>>) = {}
  <2>1. Len(StreamedLines) = 0 /\ StreamedLines \in Seq(Nat)
    BY <1>1, <1>3, ReceivedFacts
  <2>2. StreamedLines = <<>>
    BY <2>1, EmptySeq
  <2> QED BY <1>1, <2>2, EmptyInOrder DEF Received, Pending, InOrder
<1>5. TakenInv
  BY <1>1, <1>3, <1>4, EndsUpto, EmptyInOrder DEF TakenInv
<1>6. PlaceInv /\ ClosedInv
  BY <1>1 DEF PlaceInv, ClosedInv
<1>7. FinishInv /\ GivenInv /\ PartInv
  BY <1>1, <1>4 DEF FinishInv, GivenInv, PartInv
<1>8. TextInv
  <2>1. {i \in ToSet(Received) : stream.lines[i].content} = {}
    BY <1>4
  <2>2. response.text = <<>>
    BY <1>1
  <2> QED BY <2>1, <2>2, EmptyInOrder DEF TextInv
<1>9. PartsTaken = {}
  <2>1. \A p \in Parts(Deltas) : p[1] \in Nat \ {0}
    BY <1>3, StreamFacts, PartsFacts
  <2>2. taken = 0
    BY <1>1
  <2>3. \A p \in Parts(Deltas) : ~(p[1] < taken \/ (p[1] = taken /\ p[2] <= part))
    BY <2>1, <2>2
  <2> QED BY <2>3 DEF PartsTaken
<1>10. TakenPartsInv /\ CallsInv
  <2>1. response.tools = <<>> /\ Len(response.tools) = 0
    BY <1>1, EmptySeq
  <2> QED BY <1>9, <2>1 DEF TakenPartsInv, CallsInv
<1> QED BY <1>3, <1>5, <1>6, <1>7, <1>8, <1>10 DEF StreamIInv, AnswerInv

LEMMA StepStreamIInv ==
    ASSUME StreamsAreStreams, StreamIInv, [StreamNext]_streamVars PROVE StreamIInv'
<1>1. CASE Receive
  BY <1>1, ReceiveUsage, ReceiveDelta
<1>2. CASE Ended
  BY <1>2, StutterStep DEF Ended
<1> QED BY <1>1, <1>2, ScanLineStep, ScanEndsStep, ScanFailsStep, StopOnDoneStep, CreateChatStep,
           UpdateToolCallsStep, StreamingFuncStep, ReceiveErrorStep, AnswerStep, CancelStep,
           StutterStep
        DEF StreamNext, ReaderStep, CallerStep

\* What the goroutine and its caller maintain, whatever the server sends.
THEOREM StreamInvariant ==
    ASSUME StreamsAreStreams PROVE StreamSpec => []StreamIInv
<1>1. StreamInit => StreamIInv
  BY InitStreamIInv
<1>2. StreamIInv /\ [StreamNext]_streamVars => StreamIInv'
  BY StepStreamIInv
<1> QED BY <1>1, <1>2, PTL DEF StreamSpec

\* The state is well-typed: the held line is one scanned, the parts are lines'.
THEOREM StreamTypeCorrect ==
    ASSUME StreamsAreStreams PROVE StreamSpec => []StreamTypeOK
<1>1. StreamIInv => StreamTypeOK
  BY DEF StreamIInv
<1> QED BY <1>1, StreamInvariant, PTL

\* GenerateContent answers what StreamingFunc was called for, a beginning of the
\* stream; what is not given to it is the text of a delta with calls.  And where the
\* calls come in turn, updateToolCalls gives each its own parts.
THEOREM AnswersInTurn ==
    ASSUME StreamsAreStreams PROVE StreamSpec => []AnswersWhatItStreamed
<1>1. ASSUME StreamIInv, result = "nil" PROVE AnswersWhatItStreamed
  <2>1. StreamTypeOK /\ caller = "returned" /\ ~Pending /\ Received = StreamedLines
    BY <1>1 DEF StreamIInv, PlaceInv, Pending, Received
  <2>2. InOrder(StreamedLines, Upto(taken)) /\ taken \in 0..Len(stream.lines)
    <3>1. taken \in 0..Len(stream.lines)
      BY <2>1, StreamFacts
    <3> QED BY <1>1, <2>1, <3>1 DEF StreamIInv, TakenInv
  <2>3. InOrder(response.text, {i \in ToSet(StreamedLines) : stream.lines[i].content})
    BY <1>1, <2>1 DEF StreamIInv, AnswerInv, TextInv
  <2>4. ASSUME NEW i \in ToSet(StreamedLines) PROVE Given(i, Chunk(stream.lines[i]))
    <3>1. PICK s \in ToSet(streamed) : s.line = i
      BY <2>1, ReceivedFacts
    <3>2. s.chunk = Chunk(stream.lines[i])
      BY <1>1, <3>1 DEF StreamIInv, AnswerInv, GivenInv
    <3>3. s = [line |-> s.line, chunk |-> s.chunk]
      <4>1. s \in [line : 1..MaxLines, chunk : {"content", "function", "calls"}]
        <5>1. streamed \in Seq([line : 1..MaxLines, chunk : {"content", "function", "calls"}])
          BY <2>1 DEF StreamTypeOK
        <5>2. PICK k \in DOMAIN streamed : s = streamed[k]
          BY <3>1 DEF ToSet
        <5>3. DOMAIN streamed = 1..Len(streamed)
          BY <5>1, LenProperties
        <5> QED BY <5>1, <5>2, <5>3, ElementOfSeq
      <4> QED BY <4>1
    <3> QED BY <3>1, <3>2, <3>3 DEF Given
  <2>5. ASSUME NEW i \in ToSet(response.text)
        PROVE  Given(i, "content") \/ stream.lines[i].function \/ stream.lines[i].calls # <<>>
    <3>1. i \in ToSet(StreamedLines)
      BY <2>3 DEF InOrder
    <3> QED BY <2>4, <3>1 DEF Chunk
  <2>6. PartsTaken = Parts(ToSet(StreamedLines))
    <3>1. ToSet(StreamedLines) = Upto(taken)
      BY <2>2 DEF InOrder
    <3> QED BY <1>1, <2>1, <3>1, TakenIsUpto DEF StreamIInv, AnswerInv
  <2>n. PICK n \in Nat : n = Len(response.tools) /\ DOMAIN response.tools = 1..n
    BY <2>1, ResponseFacts, LenProperties
  <2>7. ASSUME NEW c \in DOMAIN response.tools, NEW p \in ToSet(response.tools[c])
        PROVE  Given(p[1], "calls")
    <3>1. p \in PartsTaken
      BY <1>1, <2>n DEF StreamIInv, AnswerInv, TakenPartsInv
    <3>2. p[1] \in ToSet(StreamedLines)
      BY <2>6, <3>1 DEF Parts, PartsOf
    <3>3. stream.lines[p[1]].calls # <<>>
      <4>1. p[1] \in Deltas /\ p[2] \in 1..Len(stream.lines[p[1]].calls)
        BY <2>1, <3>1, PartsFacts DEF PartsTaken
      <4>2. Len(stream.lines[p[1]].calls) # 0
        BY <2>1, <4>1, PartsFacts
      <4> QED BY <4>2, EmptySeq
    <3> QED BY <2>4, <3>2, <3>3 DEF Chunk
  <2>8. ASSUME CallsInTurn PROVE OwnParts
    <3>1. CallsInv
      BY <1>1, <2>8 DEF StreamIInv, AnswerInv
    <3> QED BY <2>6, <3>1 DEF OwnParts, CallsInv
  <2> QED BY <2>2, <2>3, <2>5, <2>7, <2>8 DEF AnswersWhatItStreamed, Upto
<1>2. StreamIInv => AnswersWhatItStreamed
  BY <1>1 DEF AnswersWhatItStreamed
<1> QED BY <1>2, StreamInvariant, PTL

\* Only a cancellation cuts an answer short without an error: the channel is
\* otherwise closed at the end marker or the end of the body.
THEOREM WholeStream ==
    ASSUME StreamsAreStreams PROVE StreamSpec => []WholeUnlessCancelled
<1>1. ASSUME StreamIInv, result = "nil", ~cancelled
      PROVE  /\ InOrder(StreamedLines, Deltas)
             /\ streamed # <<>> => response.finish = stream.lines[Last(streamed).line].finish
  <2>1. caller = "returned" /\ reader = "closed" /\ ~Pending /\ Received = StreamedLines
    BY <1>1 DEF StreamIInv, PlaceInv, Pending, Received
  <2> QED BY <1>1, <2>1 DEF StreamIInv, ClosedInv, AnswerInv, FinishInv
<1>2. StreamIInv => WholeUnlessCancelled
  BY <1>1 DEF WholeUnlessCancelled
<1> QED BY <1>2, StreamInvariant, PTL
==============================================================================
