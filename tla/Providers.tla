----------------------------- MODULE Providers -----------------------------
(***************************************************************************)
(* The provider services and the requests that pay for them: the settings   *)
(* and calls of src/embedding.rs and src/reranking.rs, and the retrieval    *)
(* and chat pipelines of src/api/rag.rs and src/api/rag_chat.rs.            *)
(*                                                                          *)
(* Handlers are tasks of several worker threads: a step is what runs        *)
(* between two locks or awaits, and between any two of a request's steps    *)
(* settings, keys and the collection may change.  A provider's reply may be *)
(* anything or never come; a client may leave whenever its request waits.   *)
(* A vector space is a profile: a provider, a model and dimensions.         *)
(***************************************************************************)
EXTENDS Integers, SequencesExt

CONSTANTS
    Scenarios,     \* what may happen in a life: requests, as many at a time as
                   \* there are slots, updates of the settings, and bounds:
                   \* how many updates, restarts and changes of the collection
    Openai, Voyage,
    Models, Dimensions,  \* by provider, by model; the first is the default
    DefaultConfig,       \* by service
    EnvironmentKeys,     \* by service: the keys every process starts with
    BatchSize,           \* texts in one provider request
    MaxGeneration,       \* MAX_GENERATION_REQUESTS
    Nothing              \* an absent value

Services == {"embedding", "reranking"}

Profiles == {[provider |-> p, model |-> m, dimensions |-> d] :
                p \in {Openai, Voyage}, m \in UNION {Range(Models[q]) : q \in {Openai, Voyage}},
                d \in UNION {Range(Dimensions[n]) : n \in DOMAIN Dimensions}}

Configs == [profile : Profiles, limit : Nat]

\* Texts to embed, perhaps for one profile; or a retrieval, perhaps with the
\* stages of a chat.
Requests == [kind : {"embed"}, inputs : Nat, expected : Profiles \cup {Nothing}]
            \cup [kind : {"retrieve", "chat"}, answer : BOOLEAN, rewrite : BOOLEAN,
                  rerank : BOOLEAN, vector : BOOLEAN]

ASSUME ProvidersAssumption ==
    /\ Openai # Voyage
    /\ {BatchSize, MaxGeneration} \subseteq Nat \ {0}
    /\ \A l \in Scenarios : {l.maxUpdates, l.maxRestarts, l.maxChanges} \subseteq Nat
    /\ \A w \in Services : EnvironmentKeys[w] \subseteq {Openai, Voyage}

\* An absent value is none of those it stands for.
ASSUME NothingIsAbsent == Nothing \notin Configs /\ Nothing \notin Profiles

\* Every model of a provider has its dimensions, and the settings a process
\* starts without a file are made of them.
ASSUME SettingsAssumption ==
    /\ \A p \in {Openai, Voyage} : Range(Models[p]) \subseteq DOMAIN Dimensions
    /\ DefaultConfig \in [Services -> Configs]

ASSUME ScenariosAssumption ==
    \A l \in Scenarios :
        /\ l.requests \subseteq Requests
        /\ \A u \in l.updates : /\ u[1] \in Services
                                /\ u[2].provider \in {Openai, Voyage, Nothing}
                                /\ u[2].limit \in Nat \cup {Nothing}

VARIABLES
    scenario,   \* the life this is
    config,     \* RuntimeState::config: a profile and a limit of requests
    keys,       \* RuntimeState::keys: the providers that have one
    file,       \* the settings file, by service
    synced,     \* and what a power loss leaves of it
    update,     \* the settings update under way
    settingsInFlight, inFlight,  \* the counters of each service
    generating, \* GENERATION_REQUESTS
    call,       \* the requests
    collection, \* the graph collection: its profile, and whether it has chunks
    kept,       \* what was acknowledged last, and attempted since
    spent       \* updates, restarts and changes so far

Slots == scenario.slots
settings == <<config, keys, file, synced, update, settingsInFlight, kept>>
requests == <<inFlight, generating, call>>
vars == <<scenario, settings, requests, collection, spent>>

-----------------------------------------------------------------------------
(* Settings.                                                                 *)

Idle == [at |-> "idle", change |-> Nothing, new |-> Nothing]

ValidProfile(profile) ==
    /\ profile.model \in Range(Models[profile.provider])
    /\ profile.dimensions \in Range(Dimensions[profile.model])

\* update_settings: a new provider resets the model, and either resets the
\* dimensions, unless the update names them.
Updated(old, change) ==
    LET Or(value, default) == IF value = Nothing THEN default ELSE value
        provider == Or(change.provider, old.profile.provider)
        model == Or(change.model, IF provider = old.profile.provider
                                  THEN old.profile.model ELSE Head(Models[provider]))
        same == provider = old.profile.provider /\ model = old.profile.model
        dimensions == Or(change.dimensions, IF same THEN old.profile.dimensions
                                            ELSE Head(Dimensions[model]))
    IN  [profile |-> [provider |-> provider, model |-> model, dimensions |-> dimensions],
         limit |-> Or(change.limit, old.limit)]

UpdateEnds(w) ==
    /\ update' = [update EXCEPT ![w] = Idle]
    /\ settingsInFlight' = [settingsInFlight EXCEPT ![w] = 0]

\* acquire_settings_update, then a closure that no longer needs its client.
StartUpdate(w, change) ==
    /\ settingsInFlight[w] = 0
    /\ <<w, change>> \in scenario.updates
    /\ spent.updates < scenario.maxUpdates
    /\ spent' = [spent EXCEPT !.updates = @ + 1]
    /\ settingsInFlight' = [settingsInFlight EXCEPT ![w] = 1]
    /\ update' = [update EXCEPT ![w] = [Idle EXCEPT !.at = "started", !.change = change]]
    /\ UNCHANGED <<scenario, config, keys, file, synced, kept, requests, collection>>

Apply(w) ==
    /\ update[w].at = "started"
    /\ LET new == Updated(config[w], update[w].change)
       IN  IF ValidProfile(new.profile) /\ update[w].change.key # "both"
           THEN /\ update' = [update EXCEPT ![w].at = "writing", ![w].new = new]
                /\ UNCHANGED settingsInFlight
           ELSE UpdateEnds(w)
    /\ UNCHANGED <<scenario, config, keys, file, synced, kept, requests, collection, spent>>

\* persist_config: a new file, written and synchronized, takes the name.
Rename(w) ==
    /\ update[w].at = "writing"
    /\ update' = [update EXCEPT ![w].at = "renamed"]
    /\ file' = [file EXCEPT ![w] = update[w].new]
    /\ kept' = [kept EXCEPT ![w] = @ \cup {update[w].new}]
    /\ UNCHANGED <<scenario, config, keys, synced, settingsInFlight, requests, collection, spent>>

\* A mutant of SyncDirectory: the rename may still be in memory alone.
SyncNothing(w) ==
    /\ update[w].at = "renamed"
    /\ update' = [update EXCEPT ![w].at = "synced"]
    /\ UNCHANGED <<scenario, config, keys, file, synced, kept, settingsInFlight, requests, collection, spent>>

SyncDirectory(w) ==
    /\ update[w].at = "renamed"
    /\ update' = [update EXCEPT ![w].at = "synced"]
    /\ synced' = [synced EXCEPT ![w] = file[w]]
    /\ UNCHANGED <<scenario, config, keys, file, kept, settingsInFlight, requests, collection, spent>>

\* Any step of it may fail; only the temporary file is taken back.
PersistFails(w) ==
    /\ update[w].at \in {"writing", "renamed"}
    /\ UpdateEnds(w)
    /\ UNCHANGED <<scenario, config, keys, file, synced, kept, requests, collection, spent>>

Keyed(w) == IF w = "reranking" THEN Voyage ELSE update[w].new.profile.provider

\* Keys and configuration under one write lock; the permit is dropped.
Publish(w) ==
    /\ update[w].at = "synced"
    /\ config' = [config EXCEPT ![w] = update[w].new]
    /\ keys' = [keys EXCEPT ![w] = CASE update[w].change.key = "set" -> @ \cup {Keyed(w)}
                                     [] update[w].change.key = "clear" -> @ \ {Keyed(w)}
                                     [] OTHER -> @]
    /\ UpdateEnds(w)
    /\ kept' = [kept EXCEPT ![w] = {update[w].new}]
    /\ call' = [s \in Slots |-> [call[s] EXCEPT !.changed = TRUE]]
    /\ UNCHANGED <<scenario, file, synced, inFlight, generating, collection, spent>>

-----------------------------------------------------------------------------
(* Requests.                                                                 *)

Free == [at |-> "free", request |-> Nothing, permit |-> FALSE, changed |-> FALSE,
         profile |-> Nothing, checks |-> <<>>, next |-> "free", config |-> Nothing,
         made |-> <<>>, paid |-> FALSE, result |-> "none"]

Generates(request) == request.kind = "chat" /\ (request.answer \/ request.rewrite)

\* Waiting for a service with one of its permits.
Using(w) == {s \in Slots : call[s].at = IF w = "embedding" THEN "embedding" ELSE "reranking"}
Holds(w, s) == IF s \in Using(w) THEN 1 ELSE 0

\* The request moves on, or is over: every guard it holds is dropped.
Goes(s, new) ==
    /\ call' = [call EXCEPT ![s] = new]
    /\ UNCHANGED <<scenario, settings, inFlight, generating, collection, spent>>

Over(s, result) ==
    /\ call' = [call EXCEPT ![s] = [Free EXCEPT !.at = "done", !.result = result,
                                                 !.paid = call[s].paid, !.changed = call[s].changed]]
    /\ inFlight' = [w \in Services |-> inFlight[w] - Holds(w, s)]
    /\ generating' = IF call[s].permit THEN generating - 1 ELSE generating
    /\ UNCHANGED <<scenario, settings, collection, spent>>

\* To a stage, by way of the checks that precede it.
Through(c, checks, stage) ==
    [c EXCEPT !.at = IF checks = <<>> THEN stage ELSE "checking", !.checks = checks, !.next = stage]
If(condition, check) == IF condition THEN <<check>> ELSE <<>>

\* retrieval_request and GenerationPermit::acquire; refused at the limit.
Arrive(s, request) ==
    /\ call[s].at = "free"
    /\ request \in scenario.requests
    /\ Generates(request) => generating < MaxGeneration
    /\ call' = [call EXCEPT ![s] = [Free EXCEPT
                    !.at = IF request.kind = "embed" THEN "capture" ELSE "preflight",
                    !.profile = IF request.kind = "embed" THEN request.expected ELSE Nothing,
                    !.request = request, !.permit = Generates(request)]]
    /\ generating' = IF Generates(request) THEN generating + 1 ELSE generating
    /\ UNCHANGED <<scenario, settings, inFlight, collection, spent>>

\* A mutant of RewriteChecks: the reranker's key is looked at later.
RewriteChecksEmbedding(request) ==
    If(request.vector, "profile") \o <<"generation">>

RewriteChecks(request) ==
    If(request.vector, "profile") \o If(request.rerank, "reranker") \o <<"generation">>

RetrieveChecks(request) ==
    If(request.answer, "generation") \o If(request.rerank, "reranker")

\* After the checks of retrieve_prepared: a query vector, unless it weighs nothing.
Retrieving(c) == Through(c, RetrieveChecks(c.request), IF c.request.vector THEN "capture" ELSE "search")

\* retrieval_preflight: a read of the collection and its filters, or an error.
Preflight(s) ==
    /\ call[s].at = "preflight"
    /\ LET c == [call[s] EXCEPT !.profile = collection.profile]
       IN  CASE ~collection.chunks -> Over(s, "answered")
             [] collection.chunks /\ c.request.rewrite -> Goes(s, Through(c, RewriteChecks(c.request), "rewrite"))
             [] OTHER -> Goes(s, Retrieving(c))

\* ensure_configured_for and the two ensure_configured.
Check(s) ==
    /\ call[s].at = "checking"
    /\ LET check == Head(call[s].checks)
           rest == Through(call[s], Tail(call[s].checks), call[s].next)
       IN  CASE check = "profile" /\ config["embedding"].profile # call[s].profile -> Over(s, "settings changed")
             [] check = "profile" /\ config["embedding"].profile.provider \notin keys["embedding"]
                    -> Over(s, "not configured")
             [] check = "reranker" /\ keys["reranking"] = {} -> Over(s, "not configured")
             [] check = "generation" /\ Openai \notin keys["embedding"] -> Over(s, "not configured")
             [] OTHER -> Goes(s, rest)

\* A paid call to the generation provider, if its input is not too long.
Send(s) ==
    /\ call[s].at \in {"rewrite", "answer"}
    /\ \/ Goes(s, [call[s] EXCEPT !.at = IF @ = "rewrite" THEN "rewriting" ELSE "answering", !.paid = TRUE])
       \/ Over(s, "failed")

\* Its end: a usable rewrite or answer; or an error, a timeout, a refusal.
RewriteEnds(s) ==
    /\ call[s].at = "rewriting"
    /\ Goes(s, Retrieving(call[s])) \/ Over(s, "failed")

AnswerEnds(s) ==
    /\ call[s].at = "answering"
    /\ Over(s, "answered") \/ Over(s, "failed")

\* generate: configuration and key under one lock.
Capture(s) ==
    /\ call[s].at = "capture"
    /\ LET c == config["embedding"]
       IN  CASE call[s].profile \notin {Nothing, c.profile} -> Over(s, "settings changed")
             [] c.profile.provider \notin keys["embedding"] -> Over(s, "not configured")
             [] OTHER -> Goes(s, [call[s] EXCEPT !.at = "acquire", !.config = c])

\* The counter of a service against the captured limit, in one atomic update.
Acquire(s, w, waiting) ==
    IF inFlight[w] < call[s].config.limit
    THEN /\ inFlight' = [inFlight EXCEPT ![w] = @ + 1]
         /\ call' = [call EXCEPT ![s].at = waiting, ![s].paid = TRUE]
         /\ UNCHANGED <<scenario, settings, generating, collection, spent>>
    ELSE Over(s, "busy")

AcquireEmbedding(s) == call[s].at = "acquire" /\ Acquire(s, "embedding", "embedding")

Inputs(request) == IF request.kind = "embed" THEN request.inputs ELSE 1
BatchOf(c) == LET left == Inputs(c.request) - Len(c.made) IN IF left < BatchSize THEN left ELSE BatchSize

\* What a provider may send: the indexes of its items, with or without sense.
Replies == UNION {[1..n -> 0..BatchSize] : n \in 0..BatchSize}
Complete(reply, count) == Len(reply) = count /\ Range(reply) = 0..count - 1

\* The vector of one text, in the space of the provider call that made it.
VectorOf(c, input) == [profile |-> c.config.profile, input |-> input]

\* A mutant of Ordered: as they came.
Unordered(c, reply) == [k \in 1..Len(reply) |-> VectorOf(c, Len(c.made) + reply[k] + 1)]

\* validate_embeddings puts each item at its index.
Ordered(c, reply) ==
    [k \in 1..Len(reply) |-> LET item == CHOOSE i \in 1..Len(reply) : reply[i] = k - 1
                             IN  VectorOf(c, Len(c.made) + reply[item] + 1)]

\* The service's permit is dropped on the way to the next stage.
Released(s, w, new) ==
    /\ call' = [call EXCEPT ![s] = new]
    /\ inFlight' = [inFlight EXCEPT ![w] = @ - 1]
    /\ UNCHANGED <<scenario, settings, generating, collection, spent>>

\* One batch of generate_batches: errors and a timeout end the request.
Batch(s, reply) ==
    /\ call[s].at = "embedding"
    /\ IF ~Complete(reply, BatchOf(call[s]))
       THEN Over(s, "failed")
       ELSE LET c == [call[s] EXCEPT !.made = @ \o Ordered(call[s], reply)]
            IN  CASE Len(c.made) < Inputs(c.request) -> Goes(s, c)
                  [] c.request.kind = "embed" /\ Len(c.made) = Inputs(c.request)
                        -> Released(s, "embedding", [c EXCEPT !.at = "done", !.result = "answered"])
                  [] c.request.kind # "embed" /\ Len(c.made) = Inputs(c.request)
                        -> Released(s, "embedding", [c EXCEPT !.at = "search", !.config = Nothing])

\* A mutant of Search: any vector of the right length will do.
SearchByLength(s) ==
    /\ call[s].at = "search"
    /\ IF collection.profile.dimensions # call[s].profile.dimensions
       THEN Over(s, "failed")
       ELSE \/ Goes(s, [call[s] EXCEPT !.at = "select"])
            \/ /\ call[s].request.rerank
               /\ Goes(s, [call[s] EXCEPT !.at = "rerank"])

\* graph_rag_candidates_with_options: the profile is compared again, with the
\* collection of that moment; without candidates nothing is reranked.
Search(s) ==
    /\ call[s].at = "search"
    /\ IF collection.profile # call[s].profile
       THEN Over(s, "failed")
       ELSE \/ Goes(s, [call[s] EXCEPT !.at = "select"])
            \/ /\ call[s].request.rerank
               /\ Goes(s, [call[s] EXCEPT !.at = "rerank"])

\* rerank: as generate, in one request.
CaptureReranker(s) ==
    /\ call[s].at = "rerank"
    /\ IF keys["reranking"] = {}
       THEN Over(s, "not configured")
       ELSE Goes(s, [call[s] EXCEPT !.at = "acquireReranker", !.config = config["reranking"]])

AcquireReranker(s) == call[s].at = "acquireReranker" /\ Acquire(s, "reranking", "reranking")

RerankEnds(s, reply) ==
    /\ call[s].at = "reranking"
    /\ IF Complete(reply, BatchSize)
       THEN Released(s, "reranking", [call[s] EXCEPT !.at = "select", !.config = Nothing])
       ELSE Over(s, "failed")

\* finalize over the snapshot; an answer needs a citation.
Select(s) ==
    /\ call[s].at = "select"
    /\ \/ Over(s, "answered")
       \/ /\ call[s].request.answer
          /\ Goes(s, Through(call[s], <<"generation">>, "answer"))

\* A mutant of Leave: the permits stay behind.
LeaveKeeping(s) ==
    /\ call[s].at # "free"
    /\ call' = [call EXCEPT ![s] = Free]
    /\ UNCHANGED <<scenario, settings, inFlight, generating, collection, spent>>

\* The answer is sent, or the client leaves and the request is dropped.
Leave(s) ==
    /\ call[s].at # "free"
    /\ call' = [call EXCEPT ![s] = Free]
    /\ inFlight' = [w \in Services |-> inFlight[w] - Holds(w, s)]
    /\ generating' = IF call[s].permit THEN generating - 1 ELSE generating
    /\ UNCHANGED <<scenario, settings, collection, spent>>

-----------------------------------------------------------------------------
(* Around them.                                                              *)

\* The collection is dropped and made again, or loses or gets its chunks.
ChangeCollection ==
    /\ spent.changes < scenario.maxChanges
    /\ spent' = [spent EXCEPT !.changes = @ + 1]
    /\ collection' \in [profile : {p \in Profiles : ValidProfile(p)}, chunks : BOOLEAN] \ {collection}
    /\ UNCHANGED <<scenario, settings, requests>>

\* load_config: the process ends, with or without the machine, and starts
\* again with its settings files and the keys of its environment.
Restart ==
    /\ spent.restarts < scenario.maxRestarts
    /\ spent' = [spent EXCEPT !.restarts = @ + 1]
    /\ \/ UNCHANGED <<file, synced>>
       \/ \E f \in [Services -> BOOLEAN] :
             /\ file' = [w \in Services |-> IF f[w] THEN file[w] ELSE synced[w]]
             /\ synced' = file'
    /\ config' = [w \in Services |-> IF file'[w] = Nothing THEN DefaultConfig[w] ELSE file'[w]]
    /\ keys' = EnvironmentKeys
    /\ update' = [w \in Services |-> Idle]
    /\ settingsInFlight' = [w \in Services |-> 0]
    /\ inFlight' = [w \in Services |-> 0]
    /\ generating' = 0
    /\ call' = [s \in Slots |-> Free]
    /\ UNCHANGED <<scenario, collection, kept>>

Init ==
    /\ scenario \in Scenarios
    /\ config = DefaultConfig
    /\ keys = EnvironmentKeys
    /\ file = [w \in Services |-> Nothing]
    /\ synced = file
    /\ update = [w \in Services |-> Idle]
    /\ settingsInFlight = [w \in Services |-> 0]
    /\ inFlight = [w \in Services |-> 0]
    /\ generating = 0
    /\ call = [s \in Slots |-> Free]
    /\ collection = [profile |-> DefaultConfig["embedding"].profile, chunks |-> TRUE]
    /\ kept = [w \in Services |-> {DefaultConfig[w]}]
    /\ spent = [updates |-> 0, restarts |-> 0, changes |-> 0]

Updating(w) ==
    \/ Apply(w)
    \/ Rename(w)
    \/ SyncDirectory(w)
    \/ PersistFails(w)
    \/ Publish(w)

Serving(s) ==
    \/ Preflight(s)
    \/ Check(s)
    \/ Send(s)
    \/ RewriteEnds(s)
    \/ AnswerEnds(s)
    \/ Capture(s)
    \/ AcquireEmbedding(s)
    \/ \E reply \in Replies : Batch(s, reply) \/ RerankEnds(s, reply)
    \/ Search(s)
    \/ CaptureReranker(s)
    \/ AcquireReranker(s)
    \/ Select(s)
    \/ Leave(s)

Next ==
    \/ \E change \in scenario.updates : StartUpdate(change[1], change[2])
    \/ \E w \in Services : Updating(w)
    \/ \E s \in Slots, request \in scenario.requests : Arrive(s, request)
    \/ \E s \in Slots : Serving(s)
    \/ ChangeCollection
    \/ Restart

Spec == Init /\ [][Next]_vars

-----------------------------------------------------------------------------
(* Properties.                                                               *)

\* Every counter is the number of those it counts, whatever ends them: an
\* error, a timeout, a client that leaves.  No more answers are generated at a
\* time than the server was started with; the limit of a service is a setting
\* that may be lowered under the requests in flight, and bounds new ones only.
PermitsMatch ==
    /\ generating = Cardinality({s \in Slots : call[s].permit}) /\ generating <= MaxGeneration
    /\ \A w \in Services : /\ inFlight[w] = Cardinality(Using(w))
                           /\ settingsInFlight[w] = IF update[w] = Idle THEN 0 ELSE 1

\* The vectors of an answer are those of its texts, in their order and in one
\* space, the one that was asked for, whatever happens to the settings.
OneVectorEach ==
    \A s \in Slots :
        /\ \A i \in 1..Len(call[s].made) :
              call[s].made[i] = [profile |-> call[s].made[1].profile, input |-> i]
        /\ call[s].made # <<>> => call[s].profile \in {Nothing, call[s].made[1].profile}

\* A collection is searched with a vector of its own space, at the moment of
\* the search.
SearchesItsOwnSpace ==
    [][\A s \in Slots :
          call[s].at = "search" /\ call'[s].at \in {"select", "rerank"} /\ call[s].request.vector
             => call[s].made[1].profile = collection.profile]_vars

\* A request that has paid for a provider call is not refused for want of a
\* key or for its settings, unless they have changed since it came.
PaidWorkWasCovered ==
    \A s \in Slots :
        call[s].result \in {"not configured", "settings changed"} /\ call[s].paid => call[s].changed

\* A process starts with the settings last acknowledged, or with those of an
\* update that was attempted later.
RestartKeepsSettings ==
    [][spent'.restarts # spent.restarts => \A w \in Services : config'[w] \in kept[w]]_vars
=============================================================================
