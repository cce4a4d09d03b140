------------------------- MODULE KnowledgeBaseProofs -------------------------
(***************************************************************************)
(* Proofs about KnowledgeBase, for any number of calls that share a bucket *)
(* and any documents, batch size, concurrency and retries.                 *)
(***************************************************************************)
EXTENDS KnowledgeBase, FiniteSetTheorems, TLAPS

\* What call c uploaded is in the bucket, or was taken out by a removal.
Kept(c) == DOMAIN bucket \cup lost[c]
\* Object o of the bucket is not one c wrote.
Gone(c, o) == o \in DOMAIN bucket => bucket[o] # c

MetadataInv(c) == \A d \in Added(c) : worker[c][d] = "metadata" => d \in WithMetadata
\* A goroutine has put in place what it has got past.
UploadInv(c) ==
    At(c, "upload") => \A d \in Added(c) :
        /\ worker[c][d] \in {"metadata", "done"} => Body(d) \in Kept(c)
        /\ worker[c][d] = "done" => ObjectsOf(d) \subseteq Kept(c)
LoadedInv(c) ==
    pc[c] \in Loaded \cup {"ingest"} => \A d \in Added(c) : ObjectsOf(d) \subseteq Kept(c)
\* A removal likewise.
RemoveInv(c) ==
    pc[c] \in {"remove", "ingest failed"} => \A d \in Added(c) :
        /\ worker[c][d] \in {"metadata", "done"} => Gone(c, Body(d))
        /\ worker[c][d] = "done" => \A o \in ObjectsOf(d) : Gone(c, o)
\* A job is of a call that started it; one that has completed has found the
\* documents.
JobInv(c) ==
    /\ job[c] # "none" => pc[c] \in {"check", "start failed", "check failed", "ok"}
    /\ pc[c] = "ok" => job[c] = "complete"
    /\ job[c] = "complete" => \A d \in Added(c) : d \in index \/ Body(d) \in lost[c]
TriesInv(c) ==
    /\ pc[c] \notin {"check", "check failed", "ok"} => attempt[c] = 0
    /\ At(c, "check") => attempt[c] < MaxRetries

CallInv(c) == /\ MetadataInv(c) /\ UploadInv(c) /\ LoadedInv(c) /\ RemoveInv(c)
              /\ JobInv(c) /\ TriesInv(c)
IInv == TypeOK /\ \A c \in Calls : CallInv(c)

------------------------------------------------------------------------------
\* The objects in the bucket.

LEMMA ObjectFacts ==
    ASSUME NEW d
    PROVE  /\ Body(d) \in ObjectsOf(d)
           /\ \A o \in ObjectsOf(d) : o = Body(d) \/ (d \in WithMetadata /\ o = Metadata(d))
           /\ d \in WithMetadata => Metadata(d) \in ObjectsOf(d)
  BY DEF ObjectsOf

LEMMA WriteFacts ==
    ASSUME NEW c \in Calls, NEW o, Write(c, o), lost \in [Calls -> SUBSET Objects]
    PROVE  /\ DOMAIN bucket' = DOMAIN bucket \cup {o}
           /\ \A x \in DOMAIN bucket' : bucket'[x] = IF x = o THEN c ELSE bucket[x]
           /\ lost' \in [Calls -> SUBSET Objects]
           /\ \A k \in Calls : Kept(k) \subseteq Kept(k)'
           /\ o \in Kept(c)'
           /\ \A k \in Calls \ {c} : /\ lost'[k] = lost[k]
                                     /\ \A x : Gone(k, x) => Gone(k, x)'
<1>1. /\ DOMAIN bucket' = DOMAIN bucket \cup {o}
      /\ \A x \in DOMAIN bucket' : bucket'[x] = IF x = o THEN c ELSE bucket[x]
  BY DEF Write
<1>2. /\ lost' \in [Calls -> SUBSET Objects]
      /\ lost'[c] = lost[c] \ {o}
      /\ \A k \in Calls \ {c} : lost'[k] = lost[k]
  BY DEF Write
<1>3. \A k \in Calls : Kept(k) \subseteq Kept(k)'
  BY <1>1, <1>2 DEF Kept
<1>4. o \in Kept(c)'
  BY <1>1 DEF Kept
<1>5. \A k \in Calls \ {c} : \A x : Gone(k, x) => Gone(k, x)'
  BY <1>1 DEF Gone
<1> QED BY <1>1, <1>2, <1>3, <1>4, <1>5

LEMMA EraseFacts ==
    ASSUME NEW o \in Objects, Erase(o), lost \in [Calls -> SUBSET Objects]
    PROVE  /\ DOMAIN bucket' = DOMAIN bucket \ {o}
           /\ \A x \in DOMAIN bucket' : bucket'[x] = bucket[x]
           /\ lost' \in [Calls -> SUBSET Objects]
           /\ \A k \in Calls : /\ Kept(k) \subseteq Kept(k)'
                               /\ lost[k] \subseteq lost'[k]
                               /\ \A x : Gone(k, x) => Gone(k, x)'
                               /\ Gone(k, o)'
<1>1. /\ DOMAIN bucket' = DOMAIN bucket \ {o}
      /\ \A x \in DOMAIN bucket' : bucket'[x] = bucket[x]
  BY DEF Erase
<1>2. /\ lost' \in [Calls -> SUBSET Objects]
      /\ \A k \in Calls : lost'[k] = lost[k] \cup {o}
  BY DEF Erase
<1> QED BY <1>1, <1>2 DEF Kept, Gone

------------------------------------------------------------------------------
\* What a step does to the places, and to the goroutines.

Places == Ended \cup {"list", "upload", "ingest", "remove", "start", "check"}
WorkerStates == {"none", "waiting", "body", "metadata", "done", "failed"}
WorkerOK == /\ DOMAIN worker = Calls
            /\ \A c \in Calls : worker[c] \in [Added(c) -> WorkerStates]
            /\ \A c \in Calls : Cardinality(Holding(c)) <= MaxConcurrency
RestOK == /\ batch \in [Calls -> Nat] /\ \A c \in Calls : batch[c] <= Len(DocsOf[c])
          /\ attempt \in [Calls -> 0..MaxRetries]
          /\ cancelled \in [Calls -> BOOLEAN]
BucketOK == /\ DOMAIN bucket \subseteq Objects /\ \A o \in DOMAIN bucket : bucket[o] \in Calls
            /\ lost \in [Calls -> SUBSET Objects]
ServiceOK == /\ job \in [Calls -> {"none", "running", "complete", "failed"}]
             /\ index \subseteq Docs

LEMMA TypeParts ==
    TypeOK <=> pc \in [Calls -> Places] /\ WorkerOK /\ RestOK /\ BucketOK /\ ServiceOK
  BY DEF TypeOK, Places, WorkerStates, WorkerOK, RestOK, BucketOK, ServiceOK

LEMMA AddedFacts ==
    ASSUME NEW c \in Calls
    PROVE  /\ IsFiniteSet(Added(c)) /\ Added(c) \subseteq Docs
           /\ DocsOf[c] \in Seq(Docs) /\ Len(DocsOf[c]) \in Nat
           /\ MaxConcurrency \in Nat \ {0} /\ BatchSize \in Nat \ {0} /\ MaxRetries \in Nat \ {0}
<1>1. DocsOf[c] \in Seq(Docs)
  BY KnowledgeBaseAssumption
<1>2. Added(c) = {DocsOf[c][i] : i \in 1..Len(DocsOf[c])} /\ Len(DocsOf[c]) \in Nat
  BY <1>1 DEF Added, ToSet
<1>3. DocsOf[c] \in Surjection(1..Len(DocsOf[c]), Added(c))
  BY <1>1, <1>2 DEF Surjection
<1>4. IsFiniteSet(1..Len(DocsOf[c]))
  BY <1>2, FS_Interval
<1>5. IsFiniteSet(Added(c))
  BY <1>3, <1>4, FS_Surjection
<1>6. /\ MaxConcurrency \in Nat \ {0} /\ BatchSize \in Nat \ {0} /\ MaxRetries \in Nat \ {0}
  BY KnowledgeBaseAssumption
<1> QED BY <1>1, <1>2, <1>5, <1>6

LEMMA GoStep ==
    ASSUME pc \in [Calls -> Places], NEW c \in Calls, NEW place \in Places, Go(c, place)
    PROVE  /\ pc' \in [Calls -> Places] /\ pc'[c] = place
           /\ \A k \in Calls \ {c} : pc'[k] = pc[k]
  BY DEF Go

LEMMA SpawnStep ==
    ASSUME WorkerOK, NEW c \in Calls, Spawn(c)
    PROVE  /\ WorkerOK'
           /\ \A d \in Added(c) : worker'[c][d] = "waiting"
           /\ \A k \in Calls \ {c} : worker'[k] = worker[k]
<1>1. /\ DOMAIN worker' = Calls /\ worker'[c] = [d \in Added(c) |-> "waiting"]
      /\ \A k \in Calls \ {c} : worker'[k] = worker[k]
  BY DEF Spawn, WorkerOK
<1>2. \A k \in Calls : worker'[k] \in [Added(k) -> WorkerStates]
  BY <1>1 DEF WorkerOK, WorkerStates
<1>3. ASSUME NEW k \in Calls PROVE Cardinality(Holding(k)') <= MaxConcurrency
  <2>1. CASE k = c
    <3>1. Holding(k)' = {}
      BY <1>1, <2>1 DEF Holding
    <3> QED BY <3>1, FS_EmptySet, AddedFacts
  <2>2. CASE k # c
    <3>1. Holding(k)' = Holding(k)
      BY <1>1, <2>2 DEF Holding
    <3> QED BY <3>1 DEF WorkerOK
  <2> QED BY <2>1, <2>2
<1> QED BY <1>1, <1>2, <1>3 DEF WorkerOK

\* A goroutine enters the semaphore only where there is room.
LEMMA WorkerStep ==
    ASSUME WorkerOK, NEW c \in Calls, NEW d \in Added(c), NEW state \in WorkerStates,
           Worker(c, d, state),
           d \in Holding(c) \/ Cardinality(Holding(c)) < MaxConcurrency
                            \/ state \notin {"body", "metadata"}
    PROVE  /\ WorkerOK' /\ worker'[c][d] = state
           /\ \A e \in Added(c) \ {d} : worker'[c][e] = worker[c][e]
           /\ \A k \in Calls \ {c} : worker'[k] = worker[k]
<1>1. /\ DOMAIN worker' = Calls /\ worker'[c] = [worker[c] EXCEPT ![d] = state]
      /\ \A k \in Calls \ {c} : worker'[k] = worker[k]
  BY DEF Worker, WorkerOK
<1>2. worker[c] \in [Added(c) -> WorkerStates]
  BY DEF WorkerOK
<1>3. /\ worker'[c] \in [Added(c) -> WorkerStates] /\ worker'[c][d] = state
      /\ \A e \in Added(c) \ {d} : worker'[c][e] = worker[c][e]
  BY <1>1, <1>2
<1>4. \A k \in Calls : worker'[k] \in [Added(k) -> WorkerStates]
  BY <1>1, <1>3 DEF WorkerOK
<1>5. Cardinality(Holding(c)') <= MaxConcurrency
  <2>1. Holding(c)' \subseteq Holding(c) \cup {d}
    BY <1>3 DEF Holding
  <2>2. IsFiniteSet(Holding(c))
    <3>1. Holding(c) \in SUBSET Added(c)
      BY DEF Holding
    <3> QED BY <3>1, AddedFacts, FS_Subset
  <2>3. Cardinality(Holding(c)) \in Nat /\ MaxConcurrency \in Nat
    BY <2>2, FS_CardinalityType, AddedFacts
  <2>4. CASE Holding(c)' \subseteq Holding(c)
    <3>1. Cardinality(Holding(c)') <= Cardinality(Holding(c)) /\ IsFiniteSet(Holding(c)')
      BY <2>2, <2>4, FS_Subset
    <3>2. Cardinality(Holding(c)') \in Nat
      BY <3>1, FS_CardinalityType
    <3>3. Cardinality(Holding(c)) <= MaxConcurrency
      BY DEF WorkerOK
    <3> QED BY <2>3, <3>1, <3>2, <3>3
  <2>5. CASE ~(Holding(c)' \subseteq Holding(c))
    <3>1. d \notin Holding(c) /\ state \in {"body", "metadata"}
      BY <1>3, <2>1, <2>5 DEF Holding
    <3>2. Cardinality(Holding(c)) < MaxConcurrency
      BY <3>1
    <3>3. /\ IsFiniteSet(Holding(c) \cup {d})
          /\ Cardinality(Holding(c) \cup {d}) = Cardinality(Holding(c)) + 1
      BY <2>2, <3>1, FS_AddElement
    <3>4. /\ Cardinality(Holding(c)') <= Cardinality(Holding(c) \cup {d})
          /\ IsFiniteSet(Holding(c)')
      BY <2>1, <3>3, FS_Subset
    <3>5. Cardinality(Holding(c)') \in Nat
      BY <3>4, FS_CardinalityType
    <3> QED BY <2>3, <3>2, <3>3, <3>4, <3>5
  <2> QED BY <2>4, <2>5
<1>6. \A k \in Calls \ {c} : Holding(k)' = Holding(k)
  BY <1>1 DEF Holding
<1>7. \A k \in Calls : Cardinality(Holding(k)') <= MaxConcurrency
  BY <1>5, <1>6 DEF WorkerOK
<1> QED BY <1>1, <1>3, <1>4, <1>7 DEF WorkerOK

\* What a step says of the others: a call's invariant outlives what other calls
\* do to the bucket.
LEMMA OtherCall ==
    ASSUME NEW k \in Calls, CallInv(k),
           pc'[k] = pc[k], worker'[k] = worker[k], attempt'[k] = attempt[k], job'[k] = job[k],
           Kept(k) \subseteq Kept(k)', \A x : Gone(k, x) => Gone(k, x)',
           job[k] = "complete" => \A d \in Added(k) : d \in index' \/ Body(d) \in lost'[k]
    PROVE  CallInv(k)'
<1>1. MetadataInv(k)' /\ UploadInv(k)' /\ LoadedInv(k)'
  BY DEF CallInv, MetadataInv, UploadInv, LoadedInv, At, Loaded
<1>2. RemoveInv(k)'
  BY DEF CallInv, RemoveInv
<1>3. JobInv(k)' /\ TriesInv(k)'
  BY DEF CallInv, JobInv, TriesInv, At
<1> QED BY <1>1, <1>2, <1>3 DEF CallInv

LEMMA CallStepKeeps ==
    ASSUME IInv, NEW c \in Calls, TypeOK', CallInv(c)',
           \A k \in Calls \ {c} : /\ pc'[k] = pc[k] /\ worker'[k] = worker[k]
                                  /\ attempt'[k] = attempt[k] /\ job'[k] = job[k]
                                  /\ Kept(k) \subseteq Kept(k)'
                                  /\ lost[k] \subseteq lost'[k]
                                  /\ \A x : Gone(k, x) => Gone(k, x)',
           index \subseteq index'
    PROVE  IInv'
<1> SUFFICES ASSUME NEW k \in Calls PROVE CallInv(k)'
  BY DEF IInv
<1>1. CASE k = c
  BY <1>1
<1>2. CASE k # c
  <2>1. CallInv(k) /\ JobInv(k)
    BY DEF IInv, CallInv
  <2>2. job[k] = "complete" => \A d \in Added(k) : d \in index' \/ Body(d) \in lost'[k]
    BY <1>2, <2>1 DEF JobInv
  <2> QED BY <1>2, <2>1, <2>2, OtherCall
<1> QED BY <1>1, <1>2

LEMMA QuietStep ==
    ASSUME IInv, NEW c \in Calls, UNCHANGED serviceVars,
           pc' \in [Calls -> Places], WorkerOK', RestOK', CallInv(c)',
           \A k \in Calls \ {c} : /\ pc'[k] = pc[k] /\ worker'[k] = worker[k]
                                  /\ attempt'[k] = attempt[k]
    PROVE  IInv'
<1>1. bucket' = bucket /\ job' = job /\ index' = index /\ lost' = lost
  BY DEF serviceVars
<1>2. TypeOK'
  <2>1. BucketOK' /\ ServiceOK'
    BY <1>1, TypeParts DEF IInv, BucketOK, ServiceOK
  <2> QED BY <2>1, TypeParts DEF TypeOK, Places, WorkerStates, WorkerOK, RestOK, BucketOK, ServiceOK
<1>3. \A k \in Calls : Kept(k)' = Kept(k) /\ \A x : Gone(k, x)' <=> Gone(k, x)
  BY <1>1 DEF Kept, Gone
<1> QED BY <1>1, <1>2, <1>3, CallStepKeeps

LEMMA ChoosePreserves ==
    ASSUME IInv, NEW c \in Calls, Choose(c)
    PROVE  IInv'
<1>1. /\ UNCHANGED serviceVars /\ At(c, "list") /\ pc \in [Calls -> Places] /\ WorkerOK
      /\ batch' = batch /\ attempt' = attempt /\ cancelled' = cancelled /\ job' = job
      /\ JobInv(c) /\ TriesInv(c) /\ RestOK
  BY TypeParts DEF Choose, IInv, CallInv, serviceVars
<1>2. /\ pc' \in [Calls -> Places] /\ pc'[c] \in {"upload", "refused"} /\ WorkerOK'
      /\ \A k \in Calls \ {c} : pc'[k] = pc[k] /\ worker'[k] = worker[k]
      /\ worker' = worker \/ \A d \in Added(c) : worker'[c][d] = "waiting"
      /\ pc'[c] = "upload" => \A d \in Added(c) : worker'[c][d] = "waiting"
  <2>1. CASE Go(c, "upload") /\ Spawn(c)
    BY <1>1, <2>1, GoStep, SpawnStep DEF Places
  <2>2. CASE Go(c, "refused") /\ UNCHANGED worker
    <3>1. "refused" \in Places /\ worker' = worker
      BY <2>2 DEF Places, Ended
    <3>2. WorkerOK'
      BY <1>1, <3>1 DEF WorkerOK, Holding
    <3> QED BY <1>1, <2>2, <3>1, <3>2, GoStep
  <2> QED BY <2>1, <2>2 DEF Choose
<1>3. RestOK'
  BY <1>1 DEF RestOK
<1>4. CallInv(c)'
  <2>1. MetadataInv(c)'
    BY <1>2 DEF IInv, CallInv, MetadataInv
  <2> QED BY <1>1, <1>2, <2>1 DEF CallInv, UploadInv, LoadedInv, RemoveInv, JobInv, TriesInv,
                                  At, Loaded
<1> QED BY <1>1, <1>2, <1>3, <1>4, QuietStep

LEMMA AcquirePreserves ==
    ASSUME IInv, NEW c \in Calls, NEW d \in Added(c), Acquire(c, d)
    PROVE  IInv'
<1>1. /\ UNCHANGED serviceVars /\ pc' = pc /\ pc \in [Calls -> Places] /\ WorkerOK
      /\ batch' = batch /\ attempt' = attempt /\ cancelled' = cancelled /\ RestOK
      /\ bucket' = bucket /\ lost' = lost /\ job' = job /\ index' = index
  BY TypeParts DEF Acquire, IInv, serviceVars
<1>2. PICK state \in {"failed", "body"} :
        /\ Worker(c, d, state)
        /\ Cardinality(Holding(c)) < MaxConcurrency \/ state \notin {"body", "metadata"}
  BY DEF Acquire
<1>3. /\ WorkerOK' /\ worker'[c][d] \in {"failed", "body"}
      /\ \A e \in Added(c) \ {d} : worker'[c][e] = worker[c][e]
      /\ \A k \in Calls \ {c} : worker'[k] = worker[k]
  BY <1>1, <1>2, WorkerStep DEF WorkerStates
<1>4. RestOK' /\ pc' \in [Calls -> Places]
  BY <1>1 DEF RestOK
<1>5. MetadataInv(c)' /\ UploadInv(c)' /\ RemoveInv(c)'
  <2>1. \A e \in Added(c) : worker'[c][e] \in {"metadata", "done"} => worker'[c][e] = worker[c][e]
    BY <1>3
  <2>2. MetadataInv(c) /\ UploadInv(c) /\ RemoveInv(c)
    BY DEF IInv, CallInv
  <2> QED BY <1>1, <2>1, <2>2 DEF MetadataInv, UploadInv, RemoveInv, At, Kept, Gone
<1>6. LoadedInv(c)' /\ JobInv(c)' /\ TriesInv(c)'
  BY <1>1 DEF IInv, CallInv, LoadedInv, JobInv, TriesInv, At, Loaded, Kept
<1> QED BY <1>1, <1>3, <1>4, <1>5, <1>6, QuietStep DEF CallInv

\* What a goroutine that has dealt with an object does next.
LEMMA ProceedStep ==
    ASSUME WorkerOK, NEW c \in Calls, NEW d \in Added(c), d \in Holding(c),
           Proceed(c, d) \/ Worker(c, d, "failed")
    PROVE  /\ WorkerOK'
           /\ \A e \in Added(c) \ {d} : worker'[c][e] = worker[c][e]
           /\ \A k \in Calls \ {c} : worker'[k] = worker[k]
           /\ worker'[c][d] \in {"metadata", "done", "failed"}
           /\ worker'[c][d] = "metadata" => d \in WithMetadata /\ ObjectOf(c, d) = Body(d)
           /\ worker'[c][d] = "done" =>
                 \/ worker[c][d] = "metadata" /\ ObjectOf(c, d) = Metadata(d)
                 \/ d \notin WithMetadata /\ ObjectOf(c, d) = Body(d)
<1>1. worker[c][d] \in {"body", "metadata"}
  BY DEF Holding
<1>2. PICK state \in WorkerStates :
        /\ Worker(c, d, state) /\ state \in {"metadata", "done", "failed"}
        /\ state = "metadata" => worker[c][d] # "metadata" /\ d \in WithMetadata
        /\ state = "done" => worker[c][d] = "metadata" \/ d \notin WithMetadata
  BY DEF Proceed, WorkerStates
<1>3. /\ WorkerOK' /\ worker'[c][d] = state
      /\ \A e \in Added(c) \ {d} : worker'[c][e] = worker[c][e]
      /\ \A k \in Calls \ {c} : worker'[k] = worker[k]
  BY <1>2, WorkerStep
<1>4. ObjectOf(c, d) = IF worker[c][d] = "body" THEN Body(d) ELSE Metadata(d)
  BY DEF ObjectOf
<1> QED BY <1>1, <1>2, <1>3, <1>4

LEMMA PutPreserves ==
    ASSUME IInv, NEW c \in Calls, NEW d \in Added(c), Put(c, d)
    PROVE  IInv'
<1>0. PICK o : o = ObjectOf(c, d)
  OBVIOUS
<1>1. /\ pc' = pc /\ pc \in [Calls -> Places] /\ WorkerOK /\ RestOK /\ BucketOK /\ ServiceOK
      /\ batch' = batch /\ attempt' = attempt /\ cancelled' = cancelled
      /\ job' = job /\ index' = index /\ At(c, "upload") /\ d \in Holding(c)
  BY TypeParts DEF Put, IInv
<1>2. CallInv(c)
  BY DEF IInv
<1>3. d \in Docs /\ o \in ObjectsOf(d) /\ o \in Objects
  <2>1. d \in Docs
    BY AddedFacts
  <2>2. o \in ObjectsOf(d)
    BY <1>0, <1>1, <1>2, ObjectFacts DEF ObjectOf, CallInv, MetadataInv, Holding
  <2> QED BY <2>1, <2>2 DEF Objects
<1>4. /\ WorkerOK' /\ worker'[c][d] \in {"metadata", "done", "failed"}
      /\ \A e \in Added(c) \ {d} : worker'[c][e] = worker[c][e]
      /\ \A k \in Calls \ {c} : worker'[k] = worker[k]
  BY <1>1, ProceedStep DEF Put
<1>5. /\ BucketOK' /\ \A k \in Calls : Kept(k) \subseteq Kept(k)'
      /\ \A k \in Calls \ {c} : lost'[k] = lost[k] /\ \A x : Gone(k, x) => Gone(k, x)'
  <2>1. CASE Write(c, o)
    <3>1. DOMAIN bucket' \subseteq Objects /\ \A x \in DOMAIN bucket' : bucket'[x] \in Calls
      <4>1. /\ DOMAIN bucket' = DOMAIN bucket \cup {o}
            /\ \A x \in DOMAIN bucket' : bucket'[x] = IF x = o THEN c ELSE bucket[x]
        BY <1>1, <2>1, WriteFacts DEF BucketOK
      <4>2. DOMAIN bucket \subseteq Objects /\ \A x \in DOMAIN bucket : bucket[x] \in Calls
        BY <1>1 DEF BucketOK
      <4> QED BY <1>3, <4>1, <4>2
    <3>2. /\ \A k \in Calls : Kept(k) \subseteq Kept(k)'
          /\ \A k \in Calls \ {c} : lost'[k] = lost[k] /\ \A x : Gone(k, x) => Gone(k, x)'
          /\ lost' \in [Calls -> SUBSET Objects]
      BY <1>1, <2>1, WriteFacts DEF BucketOK
    <3> QED BY <3>1, <3>2 DEF BucketOK, Objects
  <2>2. CASE UNCHANGED <<bucket, lost>>
    BY <1>1, <2>2 DEF BucketOK, Kept, Gone
  <2> QED BY <1>0, <2>1, <2>2 DEF Put
<1>6. /\ worker'[c][d] = "metadata" => Body(d) \in Kept(c)' /\ d \in WithMetadata
      /\ worker'[c][d] = "done" => ObjectsOf(d) \subseteq Kept(c)'
  <2>1. CASE Write(c, o) /\ (Proceed(c, d) \/ Worker(c, d, "failed"))
    <3>1. o \in Kept(c)'
      BY <1>1, <2>1, WriteFacts DEF BucketOK
    <3>2. worker[c][d] = "metadata" => Body(d) \in Kept(c)'
      BY <1>1, <1>2, <1>5 DEF CallInv, UploadInv
    <3> QED BY <1>0, <1>1, <2>1, <3>1, <3>2, ProceedStep, ObjectFacts
  <2>2. CASE Worker(c, d, "failed")
    <3>1. worker'[c][d] = "failed"
      BY <1>1, <2>2, WorkerStep DEF WorkerStates
    <3> QED BY <3>1
  <2> QED BY <1>0, <2>1, <2>2 DEF Put
<1>7. CallInv(c)'
  <2>1. MetadataInv(c)' /\ UploadInv(c)'
    <3>1. \A e \in Added(c) :
             /\ worker'[c][e] = "metadata" => e \in WithMetadata
             /\ worker'[c][e] \in {"metadata", "done"} => Body(e) \in Kept(c)'
             /\ worker'[c][e] = "done" => ObjectsOf(e) \subseteq Kept(c)'
      <4> SUFFICES ASSUME NEW e \in Added(c)
                   PROVE  /\ worker'[c][e] = "metadata" => e \in WithMetadata
                          /\ worker'[c][e] \in {"metadata", "done"} => Body(e) \in Kept(c)'
                          /\ worker'[c][e] = "done" => ObjectsOf(e) \subseteq Kept(c)'
        OBVIOUS
      <4>1. CASE e = d
        BY <1>6, <4>1, ObjectFacts
      <4>2. CASE e # d
        <5>1. worker'[c][e] = worker[c][e] /\ Kept(c) \subseteq Kept(c)'
          BY <1>4, <1>5, <4>2
        <5> QED BY <1>1, <1>2, <5>1 DEF CallInv, MetadataInv, UploadInv
      <4> QED BY <4>1, <4>2
    <3> QED BY <3>1 DEF MetadataInv, UploadInv, ObjectsOf, Body, Metadata
  <2>2. /\ pc'[c] = "upload" /\ job'[c] = "none" /\ attempt'[c] = 0
    <3>1. job[c] = "none" /\ attempt[c] = 0
      BY <1>1, <1>2 DEF CallInv, JobInv, TriesInv, At
    <3> QED BY <1>1, <3>1 DEF At
  <2>3. LoadedInv(c)' /\ RemoveInv(c)' /\ JobInv(c)' /\ TriesInv(c)'
    BY <2>2 DEF LoadedInv, RemoveInv, JobInv, TriesInv, At, Loaded
  <2> QED BY <2>1, <2>3 DEF CallInv
<1>8. TypeOK'
  <2>1. RestOK' /\ ServiceOK' /\ pc' \in [Calls -> Places]
    BY <1>1 DEF RestOK, ServiceOK
  <2> QED BY <1>4, <1>5, <2>1
          DEF TypeOK, Places, WorkerStates, WorkerOK, RestOK, BucketOK, ServiceOK
<1> QED BY <1>1, <1>4, <1>5, <1>7, <1>8, CallStepKeeps

LEMMA DeletePreserves ==
    ASSUME IInv, NEW c \in Calls, NEW d \in Added(c), Delete(c, d)
    PROVE  IInv'
<1>0. PICK o : o = ObjectOf(c, d)
  OBVIOUS
<1>1. /\ pc' = pc /\ pc \in [Calls -> Places] /\ WorkerOK /\ RestOK /\ BucketOK /\ ServiceOK
      /\ batch' = batch /\ attempt' = attempt /\ cancelled' = cancelled
      /\ job' = job /\ index' = index /\ At(c, "remove") /\ d \in Holding(c)
  BY TypeParts DEF Delete, IInv
<1>2. CallInv(c)
  BY DEF IInv
<1>3. o \in Objects
  <2>1. d \in Docs
    BY AddedFacts
  <2>2. o \in ObjectsOf(d)
    BY <1>0, <1>1, <1>2, ObjectFacts DEF ObjectOf, CallInv, MetadataInv, Holding
  <2> QED BY <2>1, <2>2 DEF Objects
<1>4. /\ WorkerOK' /\ worker'[c][d] \in {"metadata", "done", "failed"}
      /\ \A e \in Added(c) \ {d} : worker'[c][e] = worker[c][e]
      /\ \A k \in Calls \ {c} : worker'[k] = worker[k]
  BY <1>1, ProceedStep DEF Delete
<1>5. /\ BucketOK' /\ \A k \in Calls : Kept(k) \subseteq Kept(k)' /\ lost[k] \subseteq lost'[k]
      /\ \A k \in Calls : \A x : Gone(k, x) => Gone(k, x)'
  <2>1. CASE Erase(o)
    <3>1. DOMAIN bucket' \subseteq Objects /\ \A x \in DOMAIN bucket' : bucket'[x] \in Calls
      BY <1>1, <1>3, <2>1, EraseFacts DEF BucketOK
    <3>2. /\ \A k \in Calls : Kept(k) \subseteq Kept(k)' /\ lost[k] \subseteq lost'[k]
          /\ \A k \in Calls : \A x : Gone(k, x) => Gone(k, x)'
          /\ lost' \in [Calls -> SUBSET Objects]
      BY <1>1, <1>3, <2>1, EraseFacts DEF BucketOK
    <3> QED BY <3>1, <3>2 DEF BucketOK, Objects
  <2>2. CASE UNCHANGED <<bucket, lost>>
    BY <1>1, <2>2 DEF BucketOK, Kept, Gone
  <2> QED BY <1>0, <2>1, <2>2 DEF Delete
<1>6. /\ worker'[c][d] = "metadata" => Gone(c, Body(d))' /\ d \in WithMetadata
      /\ worker'[c][d] = "done" => \A x \in ObjectsOf(d) : Gone(c, x)'
  <2>1. CASE Erase(o) /\ (Proceed(c, d) \/ Worker(c, d, "failed"))
    <3>1. Gone(c, o)'
      BY <1>1, <1>3, <2>1, EraseFacts DEF BucketOK
    <3>2. worker[c][d] = "metadata" => Gone(c, Body(d))'
      BY <1>1, <1>2, <1>5 DEF CallInv, RemoveInv, At
    <3> QED BY <1>0, <1>1, <2>1, <3>1, <3>2, ProceedStep, ObjectFacts
  <2>2. CASE Worker(c, d, "failed")
    <3>1. worker'[c][d] = "failed"
      BY <1>1, <2>2, WorkerStep DEF WorkerStates
    <3> QED BY <3>1
  <2> QED BY <1>0, <2>1, <2>2 DEF Delete
<1>7. CallInv(c)'
  <2>1. MetadataInv(c)' /\ RemoveInv(c)'
    <3>1. \A e \in Added(c) :
             /\ worker'[c][e] = "metadata" => e \in WithMetadata
             /\ worker'[c][e] \in {"metadata", "done"} => Gone(c, Body(e))'
             /\ worker'[c][e] = "done" => \A x \in ObjectsOf(e) : Gone(c, x)'
      <4> SUFFICES ASSUME NEW e \in Added(c)
                   PROVE  /\ worker'[c][e] = "metadata" => e \in WithMetadata
                          /\ worker'[c][e] \in {"metadata", "done"} => Gone(c, Body(e))'
                          /\ worker'[c][e] = "done" => \A x \in ObjectsOf(e) : Gone(c, x)'
        OBVIOUS
      <4>1. CASE e = d
        BY <1>6, <4>1, ObjectFacts
      <4>2. CASE e # d
        <5>1. worker'[c][e] = worker[c][e] /\ \A x : Gone(c, x) => Gone(c, x)'
          BY <1>4, <1>5, <4>2
        <5> QED BY <1>1, <1>2, <5>1 DEF CallInv, MetadataInv, RemoveInv, At
      <4> QED BY <4>1, <4>2
    <3> QED BY <3>1 DEF MetadataInv, RemoveInv, ObjectsOf, Body, Metadata
  <2>2. /\ pc'[c] = "remove" /\ job'[c] = "none" /\ attempt'[c] = 0
    <3>1. job[c] = "none" /\ attempt[c] = 0
      BY <1>1, <1>2 DEF CallInv, JobInv, TriesInv, At
    <3> QED BY <1>1, <3>1 DEF At
  <2>3. UploadInv(c)' /\ LoadedInv(c)' /\ JobInv(c)' /\ TriesInv(c)'
    BY <2>2 DEF UploadInv, LoadedInv, JobInv, TriesInv, At, Loaded
  <2> QED BY <2>1, <2>3 DEF CallInv
<1>8. TypeOK'
  <2>1. RestOK' /\ ServiceOK' /\ pc' \in [Calls -> Places]
    BY <1>1 DEF RestOK, ServiceOK
  <2> QED BY <1>4, <1>5, <2>1
          DEF TypeOK, Places, WorkerStates, WorkerOK, RestOK, BucketOK, ServiceOK
<1> QED BY <1>1, <1>4, <1>5, <1>7, <1>8, CallStepKeeps

LEMMA UploadsEndPreserves ==
    ASSUME IInv, NEW c \in Calls, UploadsEnd(c)
    PROVE  IInv'
<1>1. /\ UNCHANGED serviceVars /\ pc \in [Calls -> Places] /\ WorkerOK /\ RestOK
      /\ worker' = worker /\ batch' = batch /\ attempt' = attempt /\ cancelled' = cancelled
      /\ bucket' = bucket /\ lost' = lost /\ job' = job /\ index' = index
      /\ At(c, "upload") /\ Joined(c) /\ CallInv(c)
  BY TypeParts DEF UploadsEnd, IInv, serviceVars
<1>2. /\ pc' \in [Calls -> Places] /\ \A k \in Calls \ {c} : pc'[k] = pc[k]
      /\ \/ pc'[c] = "upload failed"
         \/ pc'[c] = "ingest" /\ \A d \in Added(c) : worker[c][d] # "failed"
  BY <1>1, GoStep DEF UploadsEnd, Places, Ended
<1>3. WorkerOK' /\ RestOK'
  BY <1>1 DEF WorkerOK, RestOK, Holding
<1>4. pc'[c] = "ingest" => \A d \in Added(c) : ObjectsOf(d) \subseteq Kept(c)
  BY <1>1, <1>2 DEF Joined, CallInv, UploadInv
<1>5. CallInv(c)'
  <2>1. MetadataInv(c)' /\ LoadedInv(c)'
    BY <1>1, <1>2, <1>4 DEF CallInv, MetadataInv, LoadedInv, Loaded, Kept
  <2>2. UploadInv(c)' /\ RemoveInv(c)'
    BY <1>2 DEF UploadInv, RemoveInv, At
  <2>3. JobInv(c)' /\ TriesInv(c)'
    BY <1>1, <1>2 DEF CallInv, JobInv, TriesInv, At
  <2> QED BY <2>1, <2>2, <2>3 DEF CallInv
<1> QED BY <1>1, <1>2, <1>3, <1>5, QuietStep

LEMMA RemovalsEndPreserves ==
    ASSUME IInv, NEW c \in Calls, RemovalsEnd(c)
    PROVE  IInv'
<1>1. /\ UNCHANGED serviceVars /\ pc \in [Calls -> Places] /\ WorkerOK /\ RestOK
      /\ worker' = worker /\ batch' = batch /\ attempt' = attempt /\ cancelled' = cancelled
      /\ bucket' = bucket /\ lost' = lost /\ job' = job /\ index' = index
      /\ At(c, "remove") /\ CallInv(c)
  BY TypeParts DEF RemovalsEnd, IInv, serviceVars
<1>2. /\ pc' \in [Calls -> Places] /\ \A k \in Calls \ {c} : pc'[k] = pc[k]
      /\ pc'[c] = "ingest failed"
  BY <1>1, GoStep DEF RemovalsEnd, Places, Ended
<1>3. WorkerOK' /\ RestOK'
  BY <1>1 DEF WorkerOK, RestOK, Holding
<1>4. CallInv(c)'
  <2>1. MetadataInv(c)' /\ RemoveInv(c)'
    BY <1>1, <1>2 DEF CallInv, MetadataInv, RemoveInv, Gone, At
  <2>2. UploadInv(c)' /\ LoadedInv(c)'
    BY <1>2 DEF UploadInv, LoadedInv, Loaded, At
  <2>3. JobInv(c)' /\ TriesInv(c)'
    BY <1>1, <1>2 DEF CallInv, JobInv, TriesInv, At
  <2> QED BY <2>1, <2>2, <2>3 DEF CallInv
<1> QED BY <1>1, <1>2, <1>3, <1>4, QuietStep

LEMMA IngestEndsPreserves ==
    ASSUME IInv, NEW c \in Calls, IngestEnds(c)
    PROVE  IInv'
<1>1. /\ UNCHANGED serviceVars /\ pc \in [Calls -> Places] /\ WorkerOK /\ RestOK
      /\ worker' = worker /\ batch' = batch /\ attempt' = attempt /\ cancelled' = cancelled
      /\ bucket' = bucket /\ lost' = lost /\ job' = job /\ index' = index
      /\ At(c, "ingest") /\ CallInv(c)
  BY TypeParts DEF IngestEnds, IInv, serviceVars
<1>2. /\ pc' \in [Calls -> Places] /\ \A k \in Calls \ {c} : pc'[k] = pc[k]
      /\ pc'[c] = "start"
  BY <1>1, GoStep DEF IngestEnds, Places
<1>3. WorkerOK' /\ RestOK'
  BY <1>1 DEF WorkerOK, RestOK, Holding
<1>4. CallInv(c)'
  <2>1. MetadataInv(c)' /\ LoadedInv(c)'
    BY <1>1, <1>2 DEF CallInv, MetadataInv, LoadedInv, Loaded, Kept, At
  <2>2. UploadInv(c)' /\ RemoveInv(c)'
    BY <1>2 DEF UploadInv, RemoveInv, At
  <2>3. JobInv(c)' /\ TriesInv(c)'
    BY <1>1, <1>2 DEF CallInv, JobInv, TriesInv, At
  <2> QED BY <2>1, <2>2, <2>3 DEF CallInv
<1> QED BY <1>1, <1>2, <1>3, <1>4, QuietStep

LEMMA CheckPreserves ==
    ASSUME IInv, NEW c \in Calls, CheckIngestionJobStatus(c)
    PROVE  IInv'
<1>1. /\ UNCHANGED serviceVars /\ pc \in [Calls -> Places] /\ WorkerOK /\ RestOK
      /\ worker' = worker /\ batch' = batch /\ cancelled' = cancelled
      /\ bucket' = bucket /\ lost' = lost /\ job' = job /\ index' = index
      /\ At(c, "check") /\ CallInv(c)
  BY TypeParts DEF CheckIngestionJobStatus, IInv, serviceVars
<1>2. /\ MaxRetries \in Nat \ {0} /\ attempt \in [Calls -> 0..MaxRetries]
      /\ attempt[c] < MaxRetries /\ attempt[c] \in Nat
  <2>1. MaxRetries \in Nat \ {0} /\ attempt \in [Calls -> 0..MaxRetries]
    BY <1>1, AddedFacts DEF RestOK
  <2>2. attempt[c] < MaxRetries
    BY <1>1 DEF CallInv, TriesInv
  <2>3. attempt[c] \in 0..MaxRetries
    BY <2>1
  <2>4. attempt[c] \in Nat
    BY <2>3
  <2> QED BY <2>1, <2>2, <2>4
<1>9. {"ok", "check", "check failed"} \subseteq Places
  BY DEF Places, Ended
<1>3. /\ pc' \in [Calls -> Places] /\ \A k \in Calls \ {c} : pc'[k] = pc[k]
      /\ pc'[c] \in {"ok", "check", "check failed"}
      /\ pc'[c] = "ok" => job[c] = "complete"
      /\ \A k \in Calls \ {c} : attempt'[k] = attempt[k]
      /\ attempt' \in [Calls -> 0..MaxRetries]
      /\ pc'[c] = "check" => attempt'[c] < MaxRetries
  <2>1. CASE job[c] = "complete" /\ Go(c, "ok") /\ UNCHANGED attempt
    BY <1>1, <1>2, <1>9, <2>1, GoStep
  <2>2. CASE /\ attempt' = [attempt EXCEPT ![c] = @ + 1]
             /\ Go(c, IF attempt[c] + 1 = MaxRetries THEN "check failed" ELSE "check")
    <3>1. attempt[c] + 1 \in 0..MaxRetries
      BY <1>2
    <3>2. /\ attempt' \in [Calls -> 0..MaxRetries] /\ attempt'[c] = attempt[c] + 1
          /\ \A k \in Calls \ {c} : attempt'[k] = attempt[k]
      BY <1>2, <2>2, <3>1
    <3>3. CASE attempt[c] + 1 = MaxRetries
      <4>1. Go(c, "check failed")
        BY <2>2, <3>3
      <4>2. /\ pc' \in [Calls -> Places] /\ pc'[c] = "check failed"
            /\ \A k \in Calls \ {c} : pc'[k] = pc[k]
        BY <1>1, <1>9, <4>1, GoStep
      <4> QED BY <3>2, <4>2
    <3>4. CASE attempt[c] + 1 # MaxRetries
      <4>1. attempt[c] + 1 < MaxRetries
        BY <1>2, <3>4
      <4>2. Go(c, "check")
        BY <2>2, <3>4
      <4>3. /\ pc' \in [Calls -> Places] /\ pc'[c] = "check"
            /\ \A k \in Calls \ {c} : pc'[k] = pc[k]
        BY <1>1, <1>9, <4>2, GoStep
      <4> QED BY <3>2, <4>1, <4>3
    <3> QED BY <3>3, <3>4
  <2>3. CASE Go(c, "check failed") /\ UNCHANGED attempt
    <3>1. /\ pc' \in [Calls -> Places] /\ pc'[c] = "check failed"
          /\ \A k \in Calls \ {c} : pc'[k] = pc[k]
      BY <1>1, <1>9, <2>3, GoStep
    <3> QED BY <1>2, <2>3, <3>1
  <2> QED BY <2>1, <2>2, <2>3 DEF CheckIngestionJobStatus
<1>4. WorkerOK' /\ RestOK'
  BY <1>1, <1>3 DEF WorkerOK, RestOK, Holding
<1>5. CallInv(c)'
  <2>1. MetadataInv(c)' /\ LoadedInv(c)'
    BY <1>1, <1>3 DEF CallInv, MetadataInv, LoadedInv, Loaded, Kept, At
  <2>2. UploadInv(c)' /\ RemoveInv(c)'
    BY <1>3 DEF UploadInv, RemoveInv, At
  <2>3. JobInv(c)' /\ TriesInv(c)'
    BY <1>1, <1>3 DEF CallInv, JobInv, TriesInv, At
  <2> QED BY <2>1, <2>2, <2>3 DEF CallInv
<1> QED BY <1>1, <1>3, <1>4, <1>5, QuietStep

LEMMA CancelPreserves ==
    ASSUME IInv, NEW c \in Calls, Cancel(c)
    PROVE  IInv'
<1>1. /\ UNCHANGED serviceVars /\ pc \in [Calls -> Places] /\ WorkerOK /\ RestOK
      /\ pc' = pc /\ worker' = worker /\ batch' = batch /\ attempt' = attempt
      /\ cancelled' = [cancelled EXCEPT ![c] = TRUE]
      /\ bucket' = bucket /\ lost' = lost /\ job' = job /\ index' = index /\ CallInv(c)
  BY TypeParts DEF Cancel, IInv, serviceVars
<1>2. WorkerOK' /\ RestOK'
  BY <1>1 DEF WorkerOK, RestOK, Holding
<1>3. CallInv(c)'
  BY <1>1 DEF CallInv, MetadataInv, UploadInv, LoadedInv, RemoveInv, JobInv, TriesInv,
              Loaded, Kept, Gone, At
<1> QED BY <1>1, <1>2, <1>3, QuietStep

LEMMA BatchFacts ==
    ASSUME NEW c \in Calls, batch[c] \in Nat, batch[c] <= Len(DocsOf[c])
    PROVE  /\ BatchDocs(c) \subseteq Docs
           /\ BatchDocs(c) # {} => batch[c] + 1 <= Len(DocsOf[c])
<1>1. /\ DocsOf[c] \in Seq(Docs) /\ Len(DocsOf[c]) \in Nat /\ BatchSize \in Nat \ {0}
      /\ DOMAIN DocsOf[c] = 1..Len(DocsOf[c])
  BY AddedFacts
<1>2. BatchDocs(c) \subseteq Docs
  BY <1>1 DEF BatchDocs
<1>3. ASSUME BatchDocs(c) # {} PROVE batch[c] + 1 <= Len(DocsOf[c])
  <2>1. PICK j \in 1..Len(DocsOf[c]) : j > batch[c] * BatchSize
    BY <1>1, <1>3 DEF BatchDocs
  <2>2. batch[c] <= batch[c] * BatchSize /\ batch[c] * BatchSize \in Int
    BY <1>1
  <2> QED BY <1>1, <2>1, <2>2
<1> QED BY <1>2, <1>3

LEMMA IngestBatchPreserves ==
    ASSUME IInv, NEW c \in Calls, IngestBatch(c)
    PROVE  IInv'
<1>1. /\ pc' = pc /\ pc \in [Calls -> Places] /\ WorkerOK /\ RestOK /\ BucketOK /\ ServiceOK
      /\ worker' = worker /\ attempt' = attempt /\ cancelled' = cancelled
      /\ bucket' = bucket /\ lost' = lost /\ job' = job
      /\ batch' = [batch EXCEPT ![c] = @ + 1] /\ BatchDocs(c) # {} /\ CallInv(c)
      /\ index' = index \cup {d \in BatchDocs(c) : Body(d) \in DOMAIN bucket}
  BY TypeParts DEF IngestBatch, IInv, Accept
<1>2. batch \in [Calls -> Nat] /\ \A k \in Calls : batch[k] <= Len(DocsOf[k])
  BY <1>1 DEF RestOK
<1>3. BatchDocs(c) \subseteq Docs /\ batch[c] + 1 <= Len(DocsOf[c])
  BY <1>1, <1>2, BatchFacts
<1>4. RestOK'
  BY <1>1, <1>2, <1>3 DEF RestOK
<1>5. TypeOK'
  <2>1. BucketOK' /\ ServiceOK' /\ WorkerOK'
    BY <1>1, <1>3 DEF BucketOK, ServiceOK, WorkerOK, Holding, Objects
  <2> QED BY <1>1, <1>4, <2>1
          DEF TypeOK, Places, WorkerStates, WorkerOK, RestOK, BucketOK, ServiceOK
<1>6. \A k \in Calls : Kept(k)' = Kept(k) /\ \A x : Gone(k, x)' <=> Gone(k, x)
  BY <1>1 DEF Kept, Gone
<1>7. CallInv(c)'
  <2>1. job[c] = "complete" => \A d \in Added(c) : d \in index' \/ Body(d) \in lost'[c]
    BY <1>1 DEF CallInv, JobInv
  <2> QED BY <1>1, <1>6, <2>1, OtherCall
<1> QED BY <1>1, <1>5, <1>6, <1>7, CallStepKeeps

LEMMA IngestFailsPreserves ==
    ASSUME IInv, NEW c \in Calls, IngestFails(c)
    PROVE  IInv'
<1>1. /\ pc \in [Calls -> Places] /\ WorkerOK /\ RestOK /\ BucketOK /\ ServiceOK
      /\ batch' = batch /\ attempt' = attempt /\ cancelled' = cancelled
      /\ bucket' = bucket /\ lost' = lost /\ job' = job
      /\ At(c, "ingest") /\ Go(c, "remove") /\ Spawn(c) /\ CallInv(c)
      /\ index' \in {index, index \cup {d \in BatchDocs(c) : Body(d) \in DOMAIN bucket}}
  BY TypeParts DEF IngestFails, IInv, Accept
<1>2. batch[c] \in Nat /\ batch[c] <= Len(DocsOf[c])
  BY <1>1 DEF RestOK
<1>3. BatchDocs(c) \subseteq Docs
  BY <1>2, BatchFacts
<1>4. /\ pc' \in [Calls -> Places] /\ pc'[c] = "remove"
      /\ \A k \in Calls \ {c} : pc'[k] = pc[k]
  BY <1>1, GoStep DEF Places
<1>5. /\ WorkerOK' /\ \A d \in Added(c) : worker'[c][d] = "waiting"
      /\ \A k \in Calls \ {c} : worker'[k] = worker[k]
  BY <1>1, SpawnStep
<1>6. TypeOK'
  <2>1. BucketOK' /\ RestOK'
    BY <1>1 DEF BucketOK, RestOK, Objects
  <2>2. ServiceOK'
    BY <1>1, <1>3 DEF ServiceOK
  <2> QED BY <1>4, <1>5, <2>1, <2>2
          DEF TypeOK, Places, WorkerStates, WorkerOK, RestOK, BucketOK, ServiceOK
<1>7. \A k \in Calls : Kept(k)' = Kept(k) /\ \A x : Gone(k, x)' <=> Gone(k, x)
  BY <1>1 DEF Kept, Gone
<1>8. CallInv(c)'
  <2>1. MetadataInv(c)' /\ RemoveInv(c)'
    BY <1>5 DEF MetadataInv, RemoveInv
  <2>2. UploadInv(c)' /\ LoadedInv(c)'
    BY <1>4 DEF UploadInv, LoadedInv, Loaded, At
  <2>3. JobInv(c)' /\ TriesInv(c)'
    BY <1>1, <1>4 DEF CallInv, JobInv, TriesInv, At
  <2> QED BY <2>1, <2>2, <2>3 DEF CallInv
<1> QED BY <1>1, <1>4, <1>5, <1>6, <1>7, <1>8, CallStepKeeps

LEMMA StartPreserves ==
    ASSUME IInv, NEW c \in Calls, StartIngestionJob(c)
    PROVE  IInv'
<1>1. /\ pc \in [Calls -> Places] /\ WorkerOK /\ RestOK /\ BucketOK /\ ServiceOK
      /\ worker' = worker /\ batch' = batch /\ attempt' = attempt /\ cancelled' = cancelled
      /\ bucket' = bucket /\ lost' = lost /\ index' = index
      /\ At(c, "start") /\ CallInv(c)
  BY TypeParts DEF StartIngestionJob, IInv
<1>2. "check" \in Places /\ "start failed" \in Places
  BY DEF Places, Ended
<1>3. /\ pc' \in [Calls -> Places] /\ \A k \in Calls \ {c} : pc'[k] = pc[k]
      /\ pc'[c] \in {"check", "start failed"}
  BY <1>1, <1>2, GoStep DEF StartIngestionJob
<1>4. /\ job' \in [Calls -> {"none", "running", "complete", "failed"}]
      /\ \A k \in Calls \ {c} : job'[k] = job[k]
      /\ job'[c] # "complete"
  <2>1. job[c] = "none" /\ job \in [Calls -> {"none", "running", "complete", "failed"}]
    BY <1>1 DEF CallInv, JobInv, At, ServiceOK
  <2>2. job' = job \/ job' = [job EXCEPT ![c] = "running"]
    BY DEF StartIngestionJob
  <2> QED BY <2>1, <2>2
<1>5. TypeOK'
  <2>1. BucketOK' /\ RestOK' /\ ServiceOK' /\ WorkerOK'
    BY <1>1, <1>4 DEF BucketOK, RestOK, ServiceOK, WorkerOK, Holding, Objects
  <2> QED BY <1>3, <2>1
          DEF TypeOK, Places, WorkerStates, WorkerOK, RestOK, BucketOK, ServiceOK
<1>6. \A k \in Calls : Kept(k)' = Kept(k) /\ \A x : Gone(k, x)' <=> Gone(k, x)
  BY <1>1 DEF Kept, Gone
<1>7. CallInv(c)'
  <2>1. MetadataInv(c)' /\ LoadedInv(c)'
    BY <1>1, <1>3, <1>6 DEF CallInv, MetadataInv, LoadedInv, Loaded, At
  <2>2. UploadInv(c)' /\ RemoveInv(c)'
    BY <1>3 DEF UploadInv, RemoveInv, At
  <2>3. JobInv(c)'
    BY <1>3, <1>4 DEF JobInv
  <2>4. TriesInv(c)'
    <3>1. attempt[c] = 0 /\ 0 < MaxRetries
      BY <1>1, AddedFacts DEF CallInv, TriesInv, At
    <3> QED BY <1>1, <1>3, <3>1 DEF TriesInv, At
  <2> QED BY <2>1, <2>2, <2>3, <2>4 DEF CallInv
<1> QED BY <1>1, <1>3, <1>4, <1>5, <1>6, <1>7, CallStepKeeps

LEMMA JobEndsPreserves ==
    ASSUME IInv, NEW c \in Calls, JobEnds(c)
    PROVE  IInv'
<1>1. /\ pc \in [Calls -> Places] /\ WorkerOK /\ RestOK /\ BucketOK /\ ServiceOK
      /\ UNCHANGED callVars /\ bucket' = bucket /\ lost' = lost /\ job[c] = "running"
      /\ pc' = pc /\ worker' = worker /\ batch' = batch /\ attempt' = attempt
      /\ cancelled' = cancelled
  BY TypeParts DEF JobEnds, IInv, callVars
<1>2. \/ /\ job' = [job EXCEPT ![c] = "complete"]
         /\ index' = {d \in Docs : Body(d) \in DOMAIN bucket}
      \/ job' = [job EXCEPT ![c] = "failed"] /\ index' = index
  BY DEF JobEnds
<1>3. /\ job' \in [Calls -> {"none", "running", "complete", "failed"}]
      /\ \A k \in Calls \ {c} : job'[k] = job[k]
      /\ job'[c] \in {"complete", "failed"} /\ index' \subseteq Docs
  BY <1>1, <1>2 DEF ServiceOK
<1>4. TypeOK'
  <2>1. BucketOK' /\ RestOK' /\ ServiceOK' /\ WorkerOK'
    BY <1>1, <1>3 DEF BucketOK, RestOK, ServiceOK, WorkerOK, Holding, Objects
  <2> QED BY <1>1, <2>1
          DEF TypeOK, Places, WorkerStates, WorkerOK, RestOK, BucketOK, ServiceOK
<1>5. \A k \in Calls : Kept(k)' = Kept(k) /\ \A x : Gone(k, x)' <=> Gone(k, x)
  BY <1>1 DEF Kept, Gone
\* What its job finds are the documents of every call that has loaded them.
<1>6. ASSUME NEW k \in Calls, pc[k] \in Loaded,
             index' = {d \in Docs : Body(d) \in DOMAIN bucket}
      PROVE  \A d \in Added(k) : d \in index' \/ Body(d) \in lost'[k]
  <2>1. LoadedInv(k) /\ Added(k) \subseteq Docs
    BY AddedFacts DEF IInv, CallInv
  <2> QED BY <1>1, <1>6, <2>1, ObjectFacts DEF LoadedInv, Kept
<1>7. ASSUME NEW k \in Calls PROVE CallInv(k)'
  <2>1. CallInv(k)
    BY DEF IInv
  <2>2. job'[k] = "complete" => \A d \in Added(k) : d \in index' \/ Body(d) \in lost'[k]
    <3> SUFFICES ASSUME job'[k] = "complete"
                 PROVE  \A d \in Added(k) : d \in index' \/ Body(d) \in lost'[k]
      OBVIOUS
    <3>1. job[k] # "none"
      BY <1>1, <1>3
    <3>2. pc[k] \in Loaded
      BY <2>1, <3>1 DEF CallInv, JobInv, Loaded
    <3>3. CASE index' = {d \in Docs : Body(d) \in DOMAIN bucket}
      BY <1>6, <3>2, <3>3
    <3>4. CASE job' = [job EXCEPT ![c] = "failed"] /\ index' = index
      <4>1. k # c /\ job[k] = "complete"
        BY <1>1, <1>3, <3>4 DEF ServiceOK
      <4> QED BY <1>1, <2>1, <3>4, <4>1 DEF CallInv, JobInv
    <3> QED BY <1>2, <3>3, <3>4
  <2>3. JobInv(k)'
    <3>1. job'[k] # "none" => job[k] # "none"
      BY <1>1, <1>3
    <3>2. pc[k] = "ok" => job'[k] = "complete"
      BY <1>1, <1>3, <2>1 DEF CallInv, JobInv
    <3> QED BY <1>1, <2>1, <2>2, <3>1, <3>2 DEF CallInv, JobInv
  <2>4. /\ MetadataInv(k)' /\ UploadInv(k)' /\ LoadedInv(k)' /\ RemoveInv(k)' /\ TriesInv(k)'
    BY <1>1, <1>5, <2>1 DEF CallInv, MetadataInv, UploadInv, LoadedInv, RemoveInv, TriesInv,
                            Loaded, At
  <2> QED BY <2>3, <2>4 DEF CallInv
<1> QED BY <1>4, <1>7 DEF IInv

LEMMA InitIInv == Init => IInv
<1> SUFFICES ASSUME Init PROVE IInv
  OBVIOUS
<1>1. /\ pc = [c \in Calls |-> "list"]
      /\ worker = [c \in Calls |-> [d \in Added(c) |-> "none"]]
      /\ batch = [c \in Calls |-> 0] /\ attempt = [c \in Calls |-> 0]
      /\ cancelled = [c \in Calls |-> FALSE]
      /\ bucket = <<>> /\ index = {}
      /\ lost = [c \in Calls |-> {}] /\ job = [c \in Calls |-> "none"]
  BY DEF Init
<1>2. pc \in [Calls -> Places]
  BY <1>1 DEF Places
<1>3. WorkerOK
  <2>1. ASSUME NEW c \in Calls PROVE Cardinality(Holding(c)) <= MaxConcurrency
    <3>1. Holding(c) = {}
      BY <1>1, <2>1 DEF Holding
    <3> QED BY <2>1, <3>1, FS_EmptySet, AddedFacts
  <2>2. \A c \in Calls : worker[c] \in [Added(c) -> WorkerStates]
    BY <1>1 DEF WorkerStates
  <2> QED BY <1>1, <2>1, <2>2 DEF WorkerOK
<1>4. RestOK
  <2>1. \A c \in Calls : Len(DocsOf[c]) \in Nat /\ MaxRetries \in Nat
    BY AddedFacts
  <2>2. \A c \in Calls : batch[c] <= Len(DocsOf[c])
    BY <1>1, <2>1
  <2>3. attempt \in [Calls -> 0..MaxRetries]
    BY <1>1, <2>1
  <2> QED BY <1>1, <2>2, <2>3 DEF RestOK
<1>5. BucketOK /\ ServiceOK
  BY <1>1 DEF BucketOK, ServiceOK
<1>6. ASSUME NEW c \in Calls PROVE CallInv(c)
  BY <1>1, <1>6 DEF CallInv, MetadataInv, UploadInv, LoadedInv, RemoveInv, JobInv, TriesInv,
                    Loaded, At
<1> QED BY <1>2, <1>3, <1>4, <1>5, <1>6, TypeParts DEF IInv

LEMMA StutterPreserves ==
    ASSUME IInv, UNCHANGED vars
    PROVE  IInv'
<1>1. /\ pc' = pc /\ worker' = worker /\ batch' = batch /\ attempt' = attempt
      /\ cancelled' = cancelled
      /\ bucket' = bucket /\ job' = job /\ index' = index /\ lost' = lost
  BY DEF vars, callVars, serviceVars
<1>2. TypeOK'
  BY <1>1 DEF IInv, TypeOK, Holding, Objects
<1>3. ASSUME NEW k \in Calls PROVE CallInv(k)'
  BY <1>1, <1>3 DEF IInv, CallInv, MetadataInv, UploadInv, LoadedInv, RemoveInv, JobInv,
                    TriesInv, Loaded, At, Kept, Gone
<1> QED BY <1>2, <1>3 DEF IInv

LEMMA StepIInv == IInv /\ [Next]_vars => IInv'
<1> SUFFICES ASSUME IInv, [Next]_vars PROVE IInv'
  OBVIOUS
<1>1. ASSUME NEW c \in Calls, CallStep(c) PROVE IInv'
  BY <1>1, ChoosePreserves, UploadsEndPreserves, RemovalsEndPreserves, AcquirePreserves,
     PutPreserves, DeletePreserves, IngestBatchPreserves, IngestFailsPreserves,
     IngestEndsPreserves, StartPreserves, CheckPreserves DEF CallStep
<1>2. ASSUME NEW c \in Calls, JobEnds(c) \/ Cancel(c) PROVE IInv'
  BY <1>2, JobEndsPreserves, CancelPreserves
<1> QED BY <1>1, <1>2, StutterPreserves DEF Next, Over

------------------------------------------------------------------------------

\* The inductive invariant holds in every state, for any number of calls on one
\* bucket that add documents of the same names.
THEOREM Invariant == Spec => []IInv
  BY InitIInv, StepIInv, PTL DEF Spec

\* The state is of its type; no more than maxConcurrency goroutines of a call
\* are past its semaphore, however many documents it adds, no batch is asked
\* for beyond the documents and no job more often than maxRetries.
THEOREM TypeCorrect == Spec => []TypeOK
<1>1. IInv => TypeOK
  BY DEF IInv
<1> QED BY <1>1, Invariant, PTL

\* addDocuments reports its documents loaded only when each object of each of
\* them is in the bucket, and a nil error only when each can be searched, but for
\* what a failing call has taken out again since.
THEOREM DocumentsAdded == Spec => []AddedIsThere
<1>1. ASSUME IInv PROVE AddedIsThere
  BY <1>1 DEF IInv, CallInv, LoadedInv, JobInv, AddedIsThere, Kept
<1> QED BY <1>1, Invariant, PTL

\* When ingestion failed, a document whose removal ended well has left no object
\* of this call in the bucket, whatever other calls did to it meanwhile.
THEOREM Rollback == Spec => []RollbackClears
<1>1. ASSUME IInv PROVE RollbackClears
  BY <1>1 DEF IInv, CallInv, RemoveInv, RollbackClears, At, Gone
<1> QED BY <1>1, Invariant, PTL
==============================================================================
