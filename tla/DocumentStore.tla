---------------------------- MODULE DocumentStore ----------------------------
(***************************************************************************)
(* The documentation store of the RAG engine: runs of ingest_dbt_project    *)
(* (src/src/rag/rag_engine.py) that replace the chunks of each document     *)
(* through DocumentChunkRepository (src/src/db/repositories/                *)
(* incident_repo.py), each in one READ COMMITTED transaction of its own,    *)
(* and queries that read between their statements.  The rows of one tenant  *)
(* are modelled: every statement filters by it.  The chunks of a document   *)
(* are inserted by one flush and stand for one row.                         *)
(***************************************************************************)
EXTENDS Naturals, Sequences, FiniteSets

CONSTANTS
    Runs,       \* ingestion runs, each a transaction
    FirstRun,   \* the one of them that has committed at the start
    Projects,   \* what dbt docs generate may write: each a set of nodes
    TypeOf,     \* resource_type of each node
    QueryTypes, \* the source_type of the queries explored
    NoSource,
    NoType      \* a query without a source_type

ASSUME StoreAssumption ==
    /\ FirstRun \in Runs
    /\ NoSource \notin {"dbt_model", "lineage"} \X UNION Projects
    /\ NoType \notin {"dbt_model", "lineage"}
    /\ QueryTypes \subseteq {"dbt_model", "lineage", NoType}

VARIABLES
    manifest,  \* the nodes in target/manifest.json
    rows,      \* committed chunks: the source and the run that wrote them
    phase,     \* phase[r]: "new", "models", "lineage", "committed" or "rolled_back"
    todo,      \* todo[r]: documents loaded and not yet stored
    source,    \* source[r]: the document being stored
    victims,   \* victims[r]: the rows its DELETE saw
    waiting,   \* runs whose DELETE has not returned
    deleted,   \* deleted[r]: rows deleted, and locked, until the run ends
    inserted,  \* inserted[r]: rows written and not committed
    stored,    \* stored[r]: every document the run has stored
    overlap,   \* pairs of runs that were open at the same time
    commits,   \* the runs that committed, in order
    query      \* the query of one caller

runVars == <<phase, todo, source, victims, waiting, deleted, inserted, stored>>
storeVars == <<manifest, rows, runVars, overlap, commits, query>>

Nodes == UNION Projects

SourceTypes == {"dbt_model", "lineage"}

Sources == SourceTypes \X Nodes

Rows == [source : Sources, run : Runs]

Open == {r \in Runs : phase[r] \in {"models", "lineage"}}

Query(state, type, expects) == [state |-> state, type |-> type, expects |-> expects]

NoQuery == Query("idle", NoType, FALSE)

(* load_manifest: one document for each model, test and source.             *)
ModelDocs(nodes) ==
    {<<"dbt_model", n>> : n \in {m \in nodes : TypeOf[m] \in {"model", "test", "source"}}}

(* load_lineage: one document for each model.                               *)
LineageDocs(nodes) == {<<"lineage", n>> : n \in {m \in nodes : TypeOf[m] = "model"}}

Row(d, r) == [source |-> d, run |-> r]

(* One ingestion of the manifest has committed and nothing is open.         *)
StoreInit ==
    /\ manifest \in Projects
    /\ stored = [r \in Runs |-> IF r = FirstRun
                                 THEN ModelDocs(manifest) \cup LineageDocs(manifest)
                                 ELSE {}]
    /\ rows = {Row(d, FirstRun) : d \in stored[FirstRun]}
    /\ phase = [r \in Runs |-> IF r = FirstRun THEN "committed" ELSE "new"]
    /\ todo = [r \in Runs |-> {}]
    /\ source = [r \in Runs |-> NoSource]
    /\ victims = [r \in Runs |-> {}]
    /\ waiting = {}
    /\ deleted = [r \in Runs |-> {}]
    /\ inserted = [r \in Runs |-> {}]
    /\ overlap = {}
    /\ commits = <<FirstRun>>
    /\ query = NoQuery
-----------------------------------------------------------------------------
(* dbt docs generate writes a new manifest.                                 *)
Generate ==
    /\ manifest' \in Projects \ {manifest}
    /\ UNCHANGED <<rows, runVars, overlap, commits, query>>

(* Without a manifest the loaders return no document, as for an empty one.   *)
LoadModels(r) ==
    /\ phase[r] = "new"
    /\ phase' = [phase EXCEPT ![r] = "models"]
    /\ todo' = [todo EXCEPT ![r] = ModelDocs(manifest)]
    /\ overlap' = overlap \cup {{r, s} : s \in Open}
    /\ UNCHANGED <<manifest, rows, source, victims, waiting, deleted, inserted, stored,
                   commits, query>>

Between(r) == source[r] = NoSource

(* The manifest is read a second time.                                      *)
LoadLineage(r) ==
    /\ phase[r] = "models"
    /\ todo[r] = {}
    /\ Between(r)
    /\ phase' = [phase EXCEPT ![r] = "lineage"]
    /\ todo' = [todo EXCEPT ![r] = LineageDocs(manifest)]
    /\ UNCHANGED <<manifest, rows, source, victims, waiting, deleted, inserted, stored,
                   overlap, commits, query>>

(* Mutant of BeginDelete: the DELETE matches another tenant's rows only.     *)
BeginDeleteOfNothing(r) ==
    /\ r \in Open
    /\ Between(r)
    /\ \E d \in todo[r] : source' = [source EXCEPT ![r] = d]
    /\ waiting' = waiting \cup {r}
    /\ UNCHANGED <<manifest, rows, phase, todo, victims, deleted, inserted, stored, overlap,
                   commits, query>>

(* upsert_chunks begins its DELETE: what it will delete is fixed by what is *)
(* committed now.  The order of the documents is that of a JSON object.     *)
BeginDelete(r) ==
    /\ r \in Open
    /\ Between(r)
    /\ \E d \in todo[r] :
          /\ source' = [source EXCEPT ![r] = d]
          /\ victims' = [victims EXCEPT ![r] = {x \in rows : x.source = d}]
    /\ waiting' = waiting \cup {r}
    /\ UNCHANGED <<manifest, rows, phase, todo, deleted, inserted, stored, overlap, commits,
                   query>>

(* A row another open transaction has deleted is locked by it.              *)
WaitsFor(r, s) == r \in waiting /\ s \in Open \ {r} /\ victims[r] \cap deleted[s] # {}

(* Mutant of FinishDelete: the DELETE is committed by itself.               *)
DeleteAutocommits(r) ==
    /\ r \in waiting
    /\ \A s \in Runs : ~WaitsFor(r, s)
    /\ rows' = rows \ victims[r]
    /\ waiting' = waiting \ {r}
    /\ UNCHANGED <<manifest, phase, todo, source, victims, deleted, inserted, stored,
                   overlap, commits, query>>

(* The DELETE returns.  Rows that went while it waited are not there any    *)
(* more, and rows that came are not seen.                                   *)
FinishDelete(r) ==
    /\ r \in waiting
    /\ \A s \in Runs : ~WaitsFor(r, s)
    /\ deleted' = [deleted EXCEPT ![r] = @ \cup (victims[r] \cap rows)]
    /\ waiting' = waiting \ {r}
    /\ UNCHANGED <<manifest, rows, phase, todo, source, victims, inserted, stored, overlap,
                   commits, query>>

(* Mutant of InsertChunks: the session commits each document.               *)
InsertAutocommits(r) ==
    /\ r \in Open \ waiting
    /\ ~Between(r)
    /\ rows' = (rows \ deleted[r]) \cup {Row(source[r], r)}
    /\ deleted' = [deleted EXCEPT ![r] = {}]
    /\ stored' = [stored EXCEPT ![r] = @ \cup {source[r]}]
    /\ todo' = [todo EXCEPT ![r] = @ \ {source[r]}]
    /\ source' = [source EXCEPT ![r] = NoSource]
    /\ victims' = [victims EXCEPT ![r] = {}]
    /\ UNCHANGED <<manifest, phase, waiting, inserted, overlap, commits, query>>

(* Mutant of InsertChunks: the document is taken up again.                  *)
InsertAgain(r) ==
    /\ r \in Open \ waiting
    /\ ~Between(r)
    /\ inserted' = [inserted EXCEPT ![r] = @ \cup {Row(source[r], r)}]
    /\ stored' = [stored EXCEPT ![r] = @ \cup {source[r]}]
    /\ source' = [source EXCEPT ![r] = NoSource]
    /\ victims' = [victims EXCEPT ![r] = {}]
    /\ UNCHANGED <<manifest, rows, phase, todo, waiting, deleted, overlap, commits, query>>

InsertChunks(r) ==
    /\ r \in Open \ waiting
    /\ ~Between(r)
    /\ inserted' = [inserted EXCEPT ![r] = @ \cup {Row(source[r], r)}]
    /\ stored' = [stored EXCEPT ![r] = @ \cup {source[r]}]
    /\ todo' = [todo EXCEPT ![r] = @ \ {source[r]}]
    /\ source' = [source EXCEPT ![r] = NoSource]
    /\ victims' = [victims EXCEPT ![r] = {}]
    /\ UNCHANGED <<manifest, rows, phase, waiting, deleted, overlap, commits, query>>

Close(r, how) ==
    /\ phase' = [phase EXCEPT ![r] = how]
    /\ todo' = [todo EXCEPT ![r] = {}]
    /\ source' = [source EXCEPT ![r] = NoSource]
    /\ victims' = [victims EXCEPT ![r] = {}]
    /\ waiting' = waiting \ {r}
    /\ deleted' = [deleted EXCEPT ![r] = {}]
    /\ inserted' = [inserted EXCEPT ![r] = {}]
    /\ UNCHANGED <<manifest, stored, overlap, query>>

(* The session, and its commit, are those of the caller of the engine.      *)
Commit(r) ==
    /\ phase[r] = "lineage"
    /\ todo[r] = {}
    /\ Between(r)
    /\ rows' = (rows \ deleted[r]) \cup inserted[r]
    /\ commits' = Append(commits, r)
    /\ Close(r, "committed")

(* The embedding service or a statement raises, or the process is killed.   *)
Rollback(r) ==
    /\ r \in Open
    /\ Close(r, "rolled_back")
    /\ UNCHANGED <<rows, commits>>

(* PostgreSQL finds transactions that wait for each other and fails one.    *)
BreakDeadlock(r) ==
    /\ \E S \in SUBSET waiting :
          r \in S /\ \A s \in S : \E t \in S : WaitsFor(s, t)
    /\ Rollback(r)
-----------------------------------------------------------------------------
OfType(type) == {x \in rows : type \in {NoType, x.source[1]}}

(* query() computes the embedding of the question ...                       *)
Ask(type) ==
    /\ query.state \in {"idle", "no_results"}
    /\ query' = Query("asked", type, OfType(type) # {})
    /\ UNCHANGED <<manifest, rows, runVars, overlap, commits>>

(* ... retrieves the nearest chunks in one statement, and returns what      *)
(* Claude makes of them, or raises what the call to Claude raised.          *)
Retrieve ==
    /\ query.state = "asked"
    /\ query' = IF OfType(query.type) = {} THEN [query EXCEPT !.state = "no_results"]
                                          ELSE NoQuery
    /\ UNCHANGED <<manifest, rows, runVars, overlap, commits>>

Ingest(r) ==
    \/ LoadLineage(r)
    \/ BeginDelete(r) \/ FinishDelete(r) \/ InsertChunks(r)
    \/ Commit(r)

StoreNext ==
    \/ Generate
    \/ \E r \in Runs : LoadModels(r) \/ Ingest(r) \/ Rollback(r) \/ BreakDeadlock(r)
    \/ \E type \in QueryTypes : Ask(type)
    \/ Retrieve

StoreSpec == StoreInit /\ [][StoreNext]_storeVars

(* A run that is open is executed, and the database breaks deadlocks.       *)
StoreFairSpec ==
    /\ StoreSpec
    /\ \A r \in Runs : WF_storeVars(Ingest(r)) /\ WF_storeVars(BreakDeadlock(r))
-----------------------------------------------------------------------------
(* Properties.                                                              *)

(* The type of every variable, and what an ended run holds: nothing.        *)
StoreTypeOK ==
    /\ manifest \in Projects
    /\ rows \subseteq Rows
    /\ phase \in [Runs -> {"new", "models", "lineage", "committed", "rolled_back"}]
    /\ todo \in [Runs -> SUBSET Sources]
    /\ source \in [Runs -> Sources \cup {NoSource}]
    /\ victims \in [Runs -> SUBSET Rows]
    /\ waiting \subseteq Open
    /\ deleted \in [Runs -> SUBSET Rows]
    /\ inserted \in [Runs -> SUBSET Rows]
    /\ stored \in [Runs -> SUBSET Sources]
    /\ overlap \subseteq SUBSET Runs
    /\ commits \in Seq(Runs)
    /\ query \in [state : {"idle", "asked", "no_results"},
                  type : SourceTypes \cup {NoType}, expects : BOOLEAN]
    /\ \A r \in Runs \ Open : /\ todo[r] = {} /\ source[r] = NoSource
                              /\ deleted[r] = {} /\ inserted[r] = {}

(* upsert_chunks replaces: two versions of a document are stored side by    *)
(* side only if the ingestions that wrote them were open together.          *)
OneVersionUnlessOverlap ==
    \A x, y \in rows :
       x.source = y.source /\ x.run # y.run => {x.run, y.run} \in overlap

CommittedAfter(r, s) ==
    \E i, j \in DOMAIN commits : i < j /\ commits[i] = r /\ commits[j] = s

(* An ingestion is stored as a whole or not at all: a run that is open or   *)
(* was rolled back shows no chunk, and each document of a committed run is  *)
(* there until a run that committed later replaces it.                      *)
IngestionAtomic ==
    /\ \A x \in rows : phase[x.run] = "committed"
    /\ \A r \in Runs : phase[r] = "committed" =>
          \A d \in stored[r] :
             \/ Row(d, r) \in rows
             \/ \E s \in Runs : CommittedAfter(r, s) /\ d \in stored[s]

(* A question that is asked when there are chunks to answer it is never     *)
(* told that there are none, however many ingestions replace them.          *)
NoneOnlyWhenEmpty == query.state = "no_results" => ~query.expects

(* An ingestion that has begun ends, whatever it waits for.                 *)
IngestionEnds == \A r \in Runs : (r \in Open) ~> (r \notin Open)
=============================================================================
