----------------------------- MODULE Summaries -----------------------------
(***************************************************************************)
(* One call of GenerateFromCollection (internal/summary/service.go): from  *)
(* the messages of a collection to a saved summary that accounts for each  *)
(* of them.  The filter and the deduplicator make clusters of messages,    *)
(* the clusters are ordered so that no chat dominates, split into batches  *)
(* that goroutines send to the model (internal/summary/llm/openai.go), and *)
(* the answers are merged, checked and turned into rows.                   *)
(*                                                                         *)
(* Messages are numbered as ListMessages orders them, by date.  Of their   *)
(* text this module keeps whether the filter drops them and which pairs    *)
(* the deduplicator finds alike; of the model's answers it keeps which     *)
(* sources they name.  No two dates are equal, and no text of an answer is *)
(* only spaces.  Read positions and repeated calls are in Digest.          *)
(***************************************************************************)
EXTENDS Integers, FiniteSets

CONSTANTS
    MaxMessages,    \* the messages of the collection
    Chats,
    Slots,          \* maxBatchConcurrency (3 in the code)
    Retries,        \* further attempts of a request (2 in the code)
    MaxReduce,      \* topics that fit into one reduce request
    MaxTopics,      \* bound: topics in one answer, when the others have one each
    MaxFaults       \* bound: failed database calls

ASSUME SummariesAssumption ==
    /\ MaxMessages \in Nat
    /\ Slots \in Nat \ {0}
    /\ Retries \in Nat
    /\ MaxReduce \in Nat \ {0}
    /\ MaxTopics \in Nat \ {0}
    /\ MaxFaults \in Nat

VARIABLES
    \* the collected messages
    chatOf,
    dropped,    \* by the filter: empty, too short, advertisements, job posts
    alike,      \* pairs with the same text, a common URL, or similar words
    \* GenerateFromCollection
    pc,
    at,         \* the clusters in the order of the request, by their canonical message
    first,      \* the first index of the batch an index is in
    \* the goroutine of each batch, named by its first index
    phase, attempt,
    \* the merged result
    topics,     \* the source indexes of each topic
    excluded,   \* the source indexes excluded with a reason
    pass,
    \* the caller's context and the database
    cancelled,
    job,        \* status of the summary_jobs row
    saved,      \* the summary is committed
    faults

input    == <<chatOf, dropped, alike>>
batches  == <<phase, attempt>>
result   == <<topics, excluded>>
database == <<job, saved>>
vars     == <<input, pc, at, first, batches, result, pass, cancelled, database, faults>>

Messages  == 1..MaxMessages
Positions == 0..MaxMessages
Pairs     == {x \in SUBSET Messages : Cardinality(x) = 2}
TopicIds  == Positions \X (1..MaxTopics)
Nothing   == [i \in {} |-> i]
Control   == {"loaded", "processed", "splitting", "asking", "reducing", "validating",
              "classifying", "saving", "saved", "failing", "returned"}

Init == /\ chatOf \in [Messages -> Chats]
        /\ dropped \in SUBSET Messages
        /\ alike \in SUBSET Pairs
        /\ pc = "loaded"
        /\ at = Nothing
        /\ first = Nothing
        /\ phase = [b \in Positions |-> "waiting"]
        /\ attempt = [b \in Positions |-> 0]
        /\ topics = Nothing
        /\ excluded = {}
        /\ pass = 0
        /\ cancelled = FALSE
        /\ job = "none"
        /\ saved = FALSE
        /\ faults = 0

-----------------------------------------------------------------------------
\* The pipeline: filter, deduplicator and balancing.

Kept == Messages \ dropped

\* findCluster takes the first cluster whose canonical message is alike.  The
\* messages come by date, so the one that opened a cluster stays its canonical.
GroupDuplicates(kept, pairs) ==
    LET canonical[m \in Messages] ==
            LET home == {l \in kept : l < m /\ {l, m} \in pairs /\ canonical[l] = l}
            IN  IF home = {} THEN m ELSE CHOOSE l \in home : \A k \in home : l <= k
    IN  [m \in kept |-> canonical[m]]

Canonical  == GroupDuplicates(Kept, alike)
Cluster(l) == {m \in Kept : Canonical[m] = l}

\* A variant that looks no further back than the message before.
LeadersOfRuns == {m \in Kept : {m - 1, m} \notin alike}

Leaders == {Canonical[m] : m \in Kept}

Rivals(l) == {k \in Leaders : chatOf[k] = chatOf[l]}
Newer(l)  == Cardinality({k \in Rivals(l) : k > l})

Balanced == /\ Cardinality(Leaders) >= 3
            /\ \E k, l \in Leaders : chatOf[k] # chatOf[l]

\* A variant that takes the clusters by date.
PrecedesByDate(k, l) == k > l

\* balanceClustersByChat takes the newest cluster of each chat in turn, the chat
\* with the newest of all first.
Precedes(k, l) ==
    IF Balanced
    THEN \/ Newer(k) < Newer(l)
         \/ Newer(k) = Newer(l) /\ \E x \in Rivals(k) : \A y \in Rivals(l) : x > y
    ELSE k < l

IsOrder(f) == /\ \A l \in Leaders : \E i \in DOMAIN f : f[i] = l
              /\ \A i, j \in DOMAIN f : i < j => f[i] # f[j] /\ Precedes(f[i], f[j])

\* "no messages left after filtering"
NothingLeft ==
    /\ pc = "loaded" /\ Kept = {}
    /\ pc' = "returned"
    /\ UNCHANGED <<input, at, first, batches, result, pass, cancelled, database, faults>>

Process ==
    /\ pc = "loaded"
    /\ \E n \in Messages : \E f \in [0..(n - 1) -> Leaders] : IsOrder(f) /\ at' = f
    /\ pc' = "processed"
    /\ UNCHANGED <<input, first, batches, result, pass, cancelled, database, faults>>

-----------------------------------------------------------------------------
\* The database, and the context that is passed to it.

Fault == faults < MaxFaults /\ faults' = faults + 1

\* A call with the caller's context fails once that is cancelled.
CallFails == \/ cancelled /\ UNCHANGED faults
             \/ ~cancelled /\ Fault

Cancel ==
    /\ ~cancelled /\ pc # "returned"
    /\ cancelled' = TRUE
    /\ UNCHANGED <<input, pc, at, first, batches, result, pass, database, faults>>

CreateJob ==
    /\ pc = "processed" /\ ~cancelled
    /\ job' = "processing"
    /\ pc' = "splitting"
    /\ UNCHANGED <<input, at, first, batches, result, pass, cancelled, saved, faults>>

CreateJobFails ==
    /\ pc = "processed"
    /\ CallFails
    /\ pc' = "returned"
    /\ UNCHANGED <<input, at, first, batches, result, pass, cancelled, database>>

\* A variant that uses the caller's context.
MarkJobFailedInContext ==
    /\ pc = "failing"
    /\ job' = IF cancelled THEN job ELSE "failed"
    /\ pc' = "returned"
    /\ UNCHANGED <<input, at, first, batches, result, pass, cancelled, saved, faults>>

\* markJobFailed has a context of its own; its error is dropped.
MarkJobFailed ==
    /\ pc = "failing"
    /\ job' = "failed"
    /\ pc' = "returned"
    /\ UNCHANGED <<input, at, first, batches, result, pass, cancelled, saved, faults>>

MarkJobFailedFails ==
    /\ pc = "failing"
    /\ Fault
    /\ pc' = "returned"
    /\ UNCHANGED <<input, at, first, batches, result, pass, cancelled, database>>

-----------------------------------------------------------------------------
\* Summarize: batches.

Index    == DOMAIN at
Batches  == {first[i] : i \in DOMAIN first}
Batch(b) == {i \in DOMAIN first : first[i] = b}

\* splitSummaryMessages begins a new batch where the next message does not fit
\* into the current one, which may be anywhere.
Split ==
    /\ pc = "splitting"
    /\ \E f \in [Index -> Index] :
          /\ \A i \in Index : f[i] = i \/ (i > 0 /\ f[i] = f[i - 1])
          /\ first' = f
    /\ pc' = "asking"
    /\ UNCHANGED <<input, at, batches, result, pass, cancelled, database, faults>>

\* Inside a batch messages are numbered from zero.
Local(b) == {i - b : i \in Batch(b)}

\* A variant that adds the number of the batch, not its first index.
RemapByNumber(b, S) == {Cardinality({c \in Batches : c < b}) + l : l \in S \cap Local(b)}

Remap(b, S) == {b + l : l \in S \cap Local(b)}

\* A variant that only counts.
CoversByCount(T, X, S) ==
    /\ \A t \in DOMAIN T : T[t] \subseteq S
    /\ X \subseteq S
    /\ Cardinality(X) + Cardinality(UNION {T[t] : t \in DOMAIN T}) = Cardinality(S)

\* ValidateSummaryCoverage: every index is in range, and used or excluded.
Covers(T, X, S) == /\ \A t \in DOMAIN T : T[t] \subseteq S
                   /\ X \subseteq S
                   /\ \A i \in S : i \in X <=> ~\E t \in DOMAIN T : i \in T[t]

InFlight == {b \in Batches : phase[b] = "asking"}

\* A variant that never gives the slot of a failed request back.
TakeSlotForGood(b) ==
    /\ pc = "asking" /\ phase[b] = "waiting"
    /\ Cardinality({c \in Batches : phase[c] \in {"asking", "failed"}}) < Slots
    /\ phase' = [phase EXCEPT ![b] = "asking"]
    /\ UNCHANGED <<input, pc, at, first, attempt, result, pass, cancelled, database, faults>>

TakeSlot(b) ==
    /\ pc = "asking" /\ phase[b] = "waiting"
    /\ Cardinality(InFlight) < Slots
    /\ phase' = [phase EXCEPT ![b] = "asking"]
    /\ UNCHANGED <<input, pc, at, first, attempt, result, pass, cancelled, database, faults>>

Answered == {b \in Batches : phase[b] = "answered"}
Further  == Cardinality(DOMAIN topics) - Cardinality(Answered)

\* A complete answer, whose topics get identifiers of their own.
Answer(b) ==
    /\ pc = "asking" /\ phase[b] = "asking"
    /\ \E k \in 1..MaxTopics : \E T \in [1..k -> SUBSET Local(b)], X \in SUBSET Local(b) :
          /\ k + Further <= MaxTopics
          /\ Covers(T, X, Local(b))
          /\ topics' = [t \in DOMAIN topics \cup ({b} \X (1..k)) |->
                           IF t[1] = b THEN Remap(b, T[t[2]]) ELSE topics[t]]
          /\ excluded' = excluded \cup Remap(b, X)
    /\ phase' = [phase EXCEPT ![b] = "answered"]
    /\ UNCHANGED <<input, pc, at, first, attempt, pass, cancelled, database, faults>>

\* A temporary error, or an answer that cannot be parsed or is not complete.
AskAgain(b) ==
    /\ pc = "asking" /\ phase[b] = "asking" /\ ~cancelled
    /\ attempt[b] < Retries
    /\ attempt' = [attempt EXCEPT ![b] = @ + 1]
    /\ UNCHANGED <<input, pc, at, first, phase, result, pass, cancelled, database, faults>>

\* The attempts or the time of the request run out, its error is permanent, or
\* the context is cancelled, with a slot or without one.
BatchFails(b) ==
    /\ pc = "asking"
    /\ phase[b] = "asking" \/ (phase[b] = "waiting" /\ cancelled)
    /\ phase' = [phase EXCEPT ![b] = "failed"]
    /\ UNCHANGED <<input, pc, at, first, attempt, result, pass, cancelled, database, faults>>

\* wg.Wait.  A single batch is not merged, and its error is the error.
Join ==
    /\ pc = "asking"
    /\ \A b \in Batches : phase[b] \in {"answered", "failed"}
    /\ pc' = IF \A b \in Batches : phase[b] = "failed" THEN "failing"
             ELSE IF \E b \in Batches : Batches = {b} THEN "classifying"
             ELSE "reducing"
    /\ UNCHANGED <<input, at, first, batches, result, pass, cancelled, database, faults>>

-----------------------------------------------------------------------------
\* Summarize: the merge of the batches.

Before(t, u) == t[1] < u[1] \/ (t[1] = u[1] /\ t[2] <= u[2])

\* Every topic goes into a topic of its group, the one with the lowest index.
IsMerge(into) ==
    /\ \A t \in DOMAIN topics : Before(into[t], t) /\ into[into[t]] = into[t]
    /\ \A t \in DOMAIN topics : Cardinality({u \in DOMAIN topics : into[u] = t}) <= MaxReduce

Combine(into) == [t \in {u \in DOMAIN topics : into[u] = u} |->
                     UNION {topics[u] : u \in {v \in DOMAIN topics : into[v] = t}}]

OneRequest == Cardinality(DOMAIN topics) <= MaxReduce

\* mergeDuplicateTopics: one request over all topics, or two passes of several.
\* A request that fails, a group outside its request and a group without a common
\* name in all titles leave the topics as they are.  Which topics share a request
\* depends on their sizes in the first pass and on their titles in the second.
Reduce ==
    /\ pc = "reducing"
    /\ \E into \in [DOMAIN topics -> DOMAIN topics] :
          IsMerge(into) /\ topics' = Combine(into)
    /\ pass' = pass + 1
    /\ pc' = IF OneRequest \/ pass = 1 THEN "validating" ELSE "reducing"
    /\ UNCHANGED <<input, at, first, batches, excluded, cancelled, database, faults>>

Validate ==
    /\ pc = "validating"
    /\ pc' = IF Covers(topics, excluded, Index) THEN "classifying" ELSE "failing"
    /\ UNCHANGED <<input, at, first, batches, result, pass, cancelled, database, faults>>

-----------------------------------------------------------------------------
\* The summary and its rows.

Sources       == UNION {topics[t] : t \in DOMAIN topics}
MessagesOf(S) == UNION {Cluster(at[i]) : i \in S \cap Index}

\* "summary message coverage mismatch"
Classify ==
    /\ pc = "classifying"
    /\ pc' = IF Cardinality(MessagesOf(Sources)) + Cardinality(MessagesOf(excluded))
                    = Cardinality(Kept)
             THEN "saving" ELSE "failing"
    /\ UNCHANGED <<input, at, first, batches, result, pass, cancelled, database, faults>>

CreateSummary ==
    /\ pc = "saving" /\ ~cancelled
    /\ saved' = TRUE
    /\ pc' = "saved"
    /\ UNCHANGED <<input, at, first, batches, result, pass, cancelled, job, faults>>

CreateSummaryFails ==
    /\ pc = "saving"
    /\ CallFails
    /\ pc' = "failing"
    /\ UNCHANGED <<input, at, first, batches, result, pass, cancelled, database>>

CompleteJob ==
    /\ pc = "saved" /\ ~cancelled
    /\ job' = "completed"
    /\ pc' = "returned"
    /\ UNCHANGED <<input, at, first, batches, result, pass, cancelled, saved, faults>>

\* The caller is told of an error although the summary is there.
CompleteJobFails ==
    /\ pc = "saved"
    /\ CallFails
    /\ pc' = "returned"
    /\ UNCHANGED <<input, at, first, batches, result, pass, cancelled, database>>

-----------------------------------------------------------------------------
AskModel(b) == TakeSlot(b) \/ Answer(b) \/ AskAgain(b) \/ BatchFails(b)

Sequential == \/ NothingLeft \/ Process
              \/ CreateJob \/ CreateJobFails
              \/ Split \/ Join \/ Reduce \/ Validate \/ Classify
              \/ CreateSummary \/ CreateSummaryFails
              \/ CompleteJob \/ CompleteJobFails
              \/ MarkJobFailed \/ MarkJobFailedFails

Next == Sequential \/ (\E b \in Batches : AskModel(b)) \/ Cancel

\* The service goes on, and a request ends within its timeout.
Fairness == /\ WF_vars(Sequential)
            /\ \A b \in Positions : WF_vars(b \in Batches /\ AskModel(b))

Spec     == Init /\ [][Next]_vars
FairSpec == Spec /\ Fairness
=============================================================================
