---------------------------- MODULE KnowledgeBase ----------------------------
(***************************************************************************)
(* Adding documents to a Bedrock knowledge base: addDocuments uploads them *)
(* to the data source's bucket by a goroutine each, has them ingested in   *)
(* batches, takes them out of the bucket again if that fails, and starts   *)
(* and awaits a job that makes the bucket searchable.  Several calls share *)
(* one bucket, and names of documents if their callers chose them so.      *)
(***************************************************************************)
EXTENDS Integers, Sequences, FiniteSets, SequencesExt

CONSTANTS
    Calls,              \* calls of addDocuments, one data source
    Docs, DocsOf,       \* names, and the documents a call adds
    WithMetadata,       \* those that filterMetadata leaves metadata
    MaxConcurrency,     \* s3Config.maxConcurrency
    BatchSize,          \* batchSize
    MaxRetries          \* maxRetries of checkIngestionJobStatus

ASSUME KnowledgeBaseAssumption ==
    /\ DocsOf \in [Calls -> Seq(Docs)]
    /\ \A c \in Calls : IsInjective(DocsOf[c])
    /\ WithMetadata \subseteq Docs
    /\ {MaxConcurrency, BatchSize, MaxRetries} \subseteq Nat \ {0}

VARIABLES
    pc,         \* where a call is, or how it ended
    worker,     \* the goroutine of each of its documents
    batch,      \* batches ingested
    attempt,    \* times the job was asked for
    cancelled,  \* the caller cancelled the context
    bucket,     \* the objects in S3, each with the call that wrote it
    job,        \* the ingestion job of a call
    index,      \* the documents that can be searched
    lost        \* objects deleted since a call wrote them (history variable)

callVars == <<pc, worker, batch, attempt, cancelled>>
serviceVars == <<bucket, job, index, lost>>
vars == <<callVars, serviceVars>>

\* A document's object, and the one of its metadata.
Body(d) == <<d, "">>
Metadata(d) == <<d, ".metadata.json">>
ObjectsOf(d) == {Body(d)} \cup (IF d \in WithMetadata THEN {Metadata(d)} ELSE {})
Added(c) == ToSet(DocsOf[c])

Ended == {"refused", "upload failed", "ingest failed", "start failed",
          "check failed", "ok"}

Init ==
    /\ pc = [c \in Calls |-> "list"]
    /\ worker = [c \in Calls |-> [d \in Added(c) |-> "none"]]
    /\ batch = [c \in Calls |-> 0] /\ attempt = [c \in Calls |-> 0]
    /\ cancelled = [c \in Calls |-> FALSE]
    /\ bucket = <<>> /\ index = {}
    /\ lost = [c \in Calls |-> {}] /\ job = [c \in Calls |-> "none"]

At(c, place) == pc[c] = place
Go(c, place) == pc' = [pc EXCEPT ![c] = place]
Worker(c, d, state) == worker' = [worker EXCEPT ![c][d] = state]
\* One goroutine for each document.
Spawn(c) == worker' = [worker EXCEPT ![c] = [d \in Added(c) |-> "waiting"]]
Joined(c) == \A d \in Added(c) : worker[c][d] \in {"done", "failed"}

------------------------------------------------------------------------------
\* checkKnowledgeBase, listDataSources, and the choice of a data source.

Choose(c) ==
    /\ At(c, "list")
    /\ \/ Go(c, "upload") /\ Spawn(c)
       \/ Go(c, "refused") /\ UNCHANGED worker
    /\ UNCHANGED <<batch, attempt, cancelled, serviceVars>>

------------------------------------------------------------------------------
\* addToS3 and removeFromS3: the semaphore, and the objects of a document.

\* The context of the goroutines: an upload that fails cancels the others'.
Done(c) == \/ cancelled[c]
           \/ At(c, "upload") /\ \E d \in Added(c) : worker[c][d] = "failed"
Holding(c) == {d \in Added(c) : worker[c][d] \in {"body", "metadata"}}

Acquire(c, d) ==
    /\ worker[c][d] = "waiting"
    /\ \/ Done(c) /\ Worker(c, d, "failed")
       \/ /\ ~Done(c) /\ Cardinality(Holding(c)) < MaxConcurrency
          /\ Worker(c, d, "body")
    /\ UNCHANGED <<pc, batch, attempt, cancelled, serviceVars>>

\* After the first object comes the metadata, if any, and if the context lets it.
Proceed(c, d) ==
    Worker(c, d, IF worker[c][d] = "metadata" \/ d \notin WithMetadata THEN "done"
                 ELSE IF Done(c) THEN "failed" ELSE "metadata")
ObjectOf(c, d) == IF worker[c][d] = "body" THEN Body(d) ELSE Metadata(d)

Write(c, o) ==
    /\ bucket' = [x \in DOMAIN bucket \cup {o} |-> IF x = o THEN c ELSE bucket[x]]
    /\ lost' = [lost EXCEPT ![c] = @ \ {o}]
Erase(o) ==
    /\ bucket' = [x \in DOMAIN bucket \ {o} |-> bucket[x]]
    /\ lost' = [c \in Calls |-> lost[c] \cup {o}]

\* uploadS3Object: PutObject succeeds, or fails, before or after it took effect.
Put(c, d) ==
    /\ At(c, "upload") /\ d \in Holding(c)
    /\ \/ Write(c, ObjectOf(c, d)) /\ (Proceed(c, d) \/ Worker(c, d, "failed"))
       \/ UNCHANGED <<bucket, lost>> /\ Worker(c, d, "failed")
    /\ UNCHANGED <<pc, batch, attempt, cancelled, job, index>>

\* Mutant: the metadata stay.
DeleteBody(c, d) ==
    /\ At(c, "remove") /\ d \in Holding(c)
    /\ \/ Erase(Body(d)) /\ Worker(c, d, "done")
       \/ UNCHANGED <<bucket, lost>> /\ Worker(c, d, "failed")
    /\ UNCHANGED <<pc, batch, attempt, cancelled, job, index>>

\* removeS3Object: likewise.
Delete(c, d) ==
    /\ At(c, "remove") /\ d \in Holding(c)
    /\ \/ Erase(ObjectOf(c, d)) /\ (Proceed(c, d) \/ Worker(c, d, "failed"))
       \/ UNCHANGED <<bucket, lost>> /\ Worker(c, d, "failed")
    /\ UNCHANGED <<pc, batch, attempt, cancelled, job, index>>

\* Mutant: an upload that ended well answers for those still running.
UploadsEndEarly(c) ==
    /\ At(c, "upload") /\ \E d \in Added(c) : worker[c][d] \in {"done", "failed"}
    /\ Go(c, IF \E d \in Added(c) : worker[c][d] = "failed"
             THEN "upload failed" ELSE "ingest")
    /\ UNCHANGED <<worker, batch, attempt, cancelled, serviceVars>>

\* What was uploaded before one failed stays in the bucket.
UploadsEnd(c) ==
    /\ At(c, "upload") /\ Joined(c)
    /\ Go(c, IF \E d \in Added(c) : worker[c][d] = "failed"
             THEN "upload failed" ELSE "ingest")
    /\ UNCHANGED <<worker, batch, attempt, cancelled, serviceVars>>

RemovalsEnd(c) ==
    /\ At(c, "remove") /\ Joined(c)
    /\ Go(c, "ingest failed")
    /\ UNCHANGED <<worker, batch, attempt, cancelled, serviceVars>>

------------------------------------------------------------------------------
\* ingestDocuments.

BatchDocs(c) ==
    {DocsOf[c][i] : i \in {j \in DOMAIN DocsOf[c] : /\ j > batch[c] * BatchSize
                                                    /\ j <= (batch[c] + 1) * BatchSize}}
\* The service takes the documents of a batch out of the bucket.
Accept(c) == index' = index \cup {d \in BatchDocs(c) : Body(d) \in DOMAIN bucket}

IngestBatch(c) ==
    /\ At(c, "ingest") /\ BatchDocs(c) # {} /\ ~cancelled[c]
    /\ Accept(c)
    /\ batch' = [batch EXCEPT ![c] = @ + 1]
    /\ UNCHANGED <<pc, worker, attempt, cancelled, bucket, job, lost>>

\* Refused after all retries, or cancelled, or the answer is lost.
IngestFails(c) ==
    /\ At(c, "ingest") /\ BatchDocs(c) # {}
    /\ Accept(c) \/ UNCHANGED index
    /\ Go(c, "remove") /\ Spawn(c)
    /\ UNCHANGED <<batch, attempt, cancelled, bucket, job, lost>>

IngestEnds(c) ==
    /\ At(c, "ingest") /\ BatchDocs(c) = {}
    /\ Go(c, "start")
    /\ UNCHANGED <<worker, batch, attempt, cancelled, serviceVars>>

------------------------------------------------------------------------------
\* startIngestionJob and checkIngestionJobStatus.

StartIngestionJob(c) ==
    /\ At(c, "start")
    /\ \/ /\ ~cancelled[c] /\ Go(c, "check")
          /\ job' = [job EXCEPT ![c] = "running"]
       \/ /\ Go(c, "start failed")
          /\ job' \in {job, [job EXCEPT ![c] = "running"]}
    /\ UNCHANGED <<worker, batch, attempt, cancelled, bucket, index, lost>>

\* Mutant: asked for until it is complete.
CheckIngestionJobForEver(c) ==
    /\ At(c, "check")
    /\ Go(c, IF job[c] = "complete" THEN "ok" ELSE "check")
    /\ UNCHANGED <<worker, batch, attempt, cancelled, serviceVars>>

\* Asked for until it is complete, the tries are used up or one of them fails:
\* a job that failed is asked for as one that runs.
CheckIngestionJobStatus(c) ==
    /\ At(c, "check")
    /\ \/ ~cancelled[c] /\ job[c] = "complete" /\ Go(c, "ok") /\ UNCHANGED attempt
       \/ /\ ~cancelled[c] /\ job[c] # "complete"
          /\ attempt' = [attempt EXCEPT ![c] = @ + 1]
          /\ Go(c, IF attempt[c] + 1 = MaxRetries THEN "check failed" ELSE "check")
       \/ Go(c, "check failed") /\ UNCHANGED attempt
    /\ UNCHANGED <<worker, batch, cancelled, serviceVars>>

\* The service: a job makes the documents in the bucket, and no others, searchable.
JobEnds(c) ==
    /\ job[c] = "running"
    /\ \/ /\ job' = [job EXCEPT ![c] = "complete"]
          /\ index' = {d \in Docs : Body(d) \in DOMAIN bucket}
       \/ job' = [job EXCEPT ![c] = "failed"] /\ UNCHANGED index
    /\ UNCHANGED <<callVars, bucket, lost>>

------------------------------------------------------------------------------

Cancel(c) ==
    /\ ~cancelled[c] /\ pc[c] \notin Ended
    /\ cancelled' = [cancelled EXCEPT ![c] = TRUE]
    /\ UNCHANGED <<pc, worker, batch, attempt, serviceVars>>

CallStep(c) ==
    \/ Choose(c) \/ UploadsEnd(c) \/ RemovalsEnd(c)
    \/ \E d \in Added(c) : Acquire(c, d) \/ Put(c, d) \/ Delete(c, d)
    \/ IngestBatch(c) \/ IngestFails(c) \/ IngestEnds(c)
    \/ StartIngestionJob(c) \/ CheckIngestionJobStatus(c)

Over == (\A c \in Calls : pc[c] \in Ended) /\ UNCHANGED vars

Next == (\E c \in Calls : CallStep(c) \/ JobEnds(c) \/ Cancel(c)) \/ Over

Spec == Init /\ [][Next]_vars
\* Goroutines that can move do, and S3 and Bedrock answer or fail; an ingestion
\* job need not end.
FairSpec == Spec /\ \A c \in Calls : WF_vars(CallStep(c))

------------------------------------------------------------------------------
\* Properties.

Objects == UNION {ObjectsOf(d) : d \in Docs}
TypeOK ==
    /\ pc \in [Calls -> Ended \cup {"list", "upload", "ingest", "remove",
                                    "start", "check"}]
    /\ DOMAIN worker = Calls
    /\ \A c \in Calls : worker[c] \in
         [Added(c) -> {"none", "waiting", "body", "metadata", "done", "failed"}]
    /\ \A c \in Calls : Cardinality(Holding(c)) <= MaxConcurrency
    /\ batch \in [Calls -> Nat] /\ \A c \in Calls : batch[c] <= Len(DocsOf[c])
    /\ attempt \in [Calls -> 0..MaxRetries]
    /\ cancelled \in [Calls -> BOOLEAN]
    /\ DOMAIN bucket \subseteq Objects /\ \A o \in DOMAIN bucket : bucket[o] \in Calls
    /\ job \in [Calls -> {"none", "running", "complete", "failed"}]
    /\ index \subseteq Docs
    /\ lost \in [Calls -> SUBSET Objects]

\* "Documents are correctly loaded", say the two last errors, and so does a nil
\* error: all objects of all documents are in the bucket, and after a nil error
\* they can be searched, unless another call that failed took them out again.
Loaded == {"start", "check", "start failed", "check failed", "ok"}
AddedIsThere ==
    \A c \in Calls : pc[c] \in Loaded => \A d \in Added(c) :
        /\ ObjectsOf(d) \subseteq DOMAIN bucket \cup lost[c]
        /\ pc[c] = "ok" => d \in index \/ Body(d) \in lost[c]

\* When documents could not be ingested, those that could be removed have left
\* nothing of this call in the bucket, metadata included.
RollbackClears ==
    \A c \in Calls : At(c, "ingest failed") =>
        \A d \in Added(c) : worker[c][d] = "done" =>
            \A o \in ObjectsOf(d) \cap DOMAIN bucket : bucket[o] # c

\* Whatever fails, is cancelled or never completes, the call returns, and with
\* it every goroutine it started.
AddReturns ==
    \A c \in Calls : ~At(c, "list") ~>
        pc[c] \in Ended /\ (Joined(c) \/ At(c, "refused"))
==============================================================================
