---------------------------- MODULE KnowledgeSearch ----------------------------
(***************************************************************************)
(* Search in the documents users have ingested: by the embedding of the    *)
(* query, taken from a cache that all searches share or made through the   *)
(* caller's connection, and by keyword where there is no embedding; and    *)
(* the deletion of documents, one by one or in bulk.                       *)
(*                                                                         *)
(* A vector is known by the query it embeds. Which documents are similar   *)
(* enough or hold the keyword is open.                                     *)
(***************************************************************************)
EXTENDS Naturals, Sequences, FiniteSets

CONSTANTS
    Searcher,       \* requests to search
    QueryOf,        \* Searcher -> the query, or "short": below the least length
    SearchUser,     \* Searcher -> user
    Ingested,       \* documents: <<user, file>>
    cache_ttl,      \* cache_ttl_seconds, in ticks
    cache_entries,  \* entries above which expired ones are removed
    MaxSearchTime

ASSUME SearchAssumption == {cache_ttl, cache_entries, MaxSearchTime} \subseteq Nat

VARIABLES
    documents,      \* documents there are
    cached,         \* _embedding_cache: query -> when it was made
    clock,
    search,         \* Searcher -> how far it is and what it found
    bulk,           \* files a bulk deletion has still to delete
    dbFailed        \* searches whose transaction had an error

searchVars == <<documents, cached, clock, search, bulk, dbFailed>>

-----------------------------------------------------------------------------
Unsearched == [step |-> "idle", age |-> 0, found |-> {}]

SearchInit ==
    /\ documents = Ingested /\ cached = <<>> /\ clock = 0
    /\ search = [s \in Searcher |-> Unsearched] /\ bulk = <<>> /\ dbFailed = {}

Own(s) == {d \in documents : d[1] = SearchUser[s]}

Proceed(s, r) == search' = [search EXCEPT ![s] = r]

TickClock ==
    /\ clock < MaxSearchTime /\ clock' = clock + 1
    /\ UNCHANGED <<documents, cached, search, bulk, dbFailed>>

-----------------------------------------------------------------------------
(* The cache, under a hash of the query. One that has expired is removed    *)
(* when it is asked for, and all that have once there are too many.         *)
Expired_Never(q) == FALSE
Expired(q) == clock - cached[q] >= cache_ttl

Without(m, keys) == [q \in DOMAIN m \ keys |-> m[q]]

With(m, key) == [q \in DOMAIN m \cup {key} |-> IF q = key THEN clock ELSE m[q]]

Cleaned ==
    IF Cardinality(DOMAIN cached) > cache_entries
    THEN Without(cached, {q \in DOMAIN cached : clock - cached[q] > cache_ttl}) ELSE cached

(* _do_semantic_search and hybrid_search, up to the embedding.              *)
BeginSearch(s) ==
    /\ search[s].step = "idle"
    /\ LET q == QueryOf[s] IN
         IF q = "short" THEN Proceed(s, [Unsearched EXCEPT !.step = "answered"]) /\ UNCHANGED cached
         ELSE IF q \in DOMAIN cached /\ ~Expired(q)
         THEN /\ Proceed(s, [step |-> "vector", age |-> clock - cached[q], found |-> {}])
              /\ UNCHANGED cached
         ELSE /\ Proceed(s, [Unsearched EXCEPT !.step = "embed"])
              /\ cached' = Without(cached, {q})
    /\ UNCHANGED <<documents, clock, bulk, dbFailed>>

(* The embedding, through a connection of the caller's with a key. Whatever *)
(* goes wrong leaves none, and a database error its transaction unusable.   *)
Embed(s) ==
    /\ search[s].step = "embed"
    /\ \/ /\ Proceed(s, [search[s] EXCEPT !.step = "vector", !.age = 0])
          /\ cached' = With(Cleaned, QueryOf[s])
          /\ UNCHANGED dbFailed
       \/ /\ Proceed(s, [search[s] EXCEPT !.step = "keyword"])
          /\ dbFailed' \in {dbFailed, dbFailed \cup {s}} /\ UNCHANGED cached
    /\ UNCHANGED <<documents, clock, bulk>>

(* By similarity; an error falls back to the keyword.                       *)
VectorSearch(s) ==
    /\ search[s].step = "vector"
    /\ \/ /\ \E hits \in SUBSET Own(s) : Proceed(s, [search[s] EXCEPT !.step = "answered", !.found = hits])
          /\ UNCHANGED dbFailed
       \/ /\ Proceed(s, [search[s] EXCEPT !.step = "keyword"]) /\ dbFailed' = dbFailed \cup {s}
    /\ UNCHANGED <<documents, cached, clock, bulk>>

(* The keyword query runs in the transaction of what went before.           *)
KeywordSearch(s) ==
    /\ search[s].step = "keyword"
    /\ IF s \in dbFailed THEN Proceed(s, [search[s] EXCEPT !.step = "500"])
       ELSE \E hits \in SUBSET Own(s) : Proceed(s, [search[s] EXCEPT !.step = "answered", !.found = hits])
    /\ UNCHANGED <<documents, cached, clock, bulk, dbFailed>>

-----------------------------------------------------------------------------
(* delete_document: every chunk of a file of the caller's, in one commit.   *)
DeleteDocument(d) ==
    /\ documents' = documents \ {d}
    /\ UNCHANGED <<cached, clock, search, bulk, dbFailed>>

(* bulk_delete_documents: one commit a file, in the order given.            *)
BeginBulk ==
    /\ bulk = <<>> /\ documents = Ingested
    /\ \E d \in Ingested, e \in Ingested :
         d # e /\ d[1] = e[1] /\ bulk' = <<d, e>>
    /\ UNCHANGED <<documents, cached, clock, search, dbFailed>>

BulkStep ==
    /\ bulk # <<>>
    /\ \/ documents' = documents \ {Head(bulk)} /\ bulk' = Tail(bulk)
       \/ bulk' = <<>> /\ UNCHANGED documents    \* an error: the rest stays
    /\ UNCHANGED <<cached, clock, search, dbFailed>>

SearchNext ==
    \/ TickClock \/ BeginBulk \/ BulkStep
    \/ \E d \in Ingested : d \in documents /\ DeleteDocument(d)
    \/ \E s \in Searcher : BeginSearch(s) \/ Embed(s) \/ VectorSearch(s) \/ KeywordSearch(s)

SearchSpec == SearchInit /\ [][SearchNext]_searchVars

-----------------------------------------------------------------------------
SearchTypeOK ==
    /\ documents \subseteq Ingested /\ clock \in 0 .. MaxSearchTime
    /\ DOMAIN cached \subseteq {QueryOf[s] : s \in Searcher}
    /\ \A q \in DOMAIN cached : cached[q] \in 0 .. clock
    /\ \A s \in Searcher : search[s].step \in {"idle", "embed", "vector", "keyword", "answered", "500"}
    /\ bulk \in Seq(Ingested) /\ dbFailed \subseteq Searcher

(* A search answers with documents of the caller's alone, none of them      *)
(* deleted before it looked; the vector it used, whoever's search made it,  *)
(* was younger than the cache's time to live; and it fails only where the   *)
(* database did, never because there was no embedding.                      *)
SearchGrounded ==
    \A s \in Searcher :
        /\ search[s].found \subseteq {d \in Ingested : d[1] = SearchUser[s]}
        /\ search[s].age < cache_ttl \/ search[s].age = 0
        /\ search[s].step = "500" => s \in dbFailed
=============================================================================
