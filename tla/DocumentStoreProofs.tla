------------------------- MODULE DocumentStoreProofs -------------------------
(***************************************************************************)
(* Theorems about DocumentStore, for every number of ingestion runs and     *)
(* every project.                                                          *)
(***************************************************************************)
EXTENDS DocumentStore, FiniteSetTheorems, TLAPS

LEMMA Docs ==
    ASSUME NEW nodes \in Projects
    PROVE  ModelDocs(nodes) \subseteq Sources /\ LineageDocs(nodes) \subseteq Sources
BY DEF ModelDocs, LineageDocs, Sources, SourceTypes, Nodes

LEMMA NoSourceIsNone == NoSource \notin Sources
BY StoreAssumption DEF Sources, SourceTypes, Nodes

LEMMA InitTypes == StoreInit => StoreTypeOK
<1> SUFFICES ASSUME StoreInit PROVE StoreTypeOK
  OBVIOUS
<1> USE StoreAssumption DEF StoreInit
<1>1. stored \in [Runs -> SUBSET Sources] /\ rows \subseteq Rows
  BY Docs DEF Rows, Row
<1>2. waiting \subseteq Open /\ commits \in Seq(Runs) /\ overlap \subseteq SUBSET Runs
  OBVIOUS
<1>3. query \in [state : {"idle", "asked", "no_results"},
                 type : SourceTypes \cup {NoType}, expects : BOOLEAN]
  BY DEF NoQuery, Query
<1> QED
  BY <1>1, <1>2, <1>3 DEF StoreTypeOK

LEMMA CloseTypes ==
    ASSUME StoreTypeOK, NEW r \in Runs, NEW how \in {"committed", "rolled_back"},
           Close(r, how), rows' \subseteq Rows, commits' \in Seq(Runs)
    PROVE  StoreTypeOK'
<1> USE DEF StoreTypeOK
<1>1. Open' = Open \ {r}
  BY DEF Close, Open
<1>2. waiting' \subseteq Open'
  BY <1>1 DEF Close
<1>3. \A s \in Runs \ Open' : /\ todo'[s] = {} /\ source'[s] = NoSource
                              /\ deleted'[s] = {} /\ inserted'[s] = {}
  BY <1>1 DEF Close
<1> QED
  BY <1>2, <1>3 DEF Close

LEMMA RunTypes ==
    ASSUME StoreTypeOK, NEW r \in Runs,
           LoadModels(r) \/ LoadLineage(r) \/ BeginDelete(r) \/ FinishDelete(r) \/ InsertChunks(r)
    PROVE  StoreTypeOK'
<1> USE DEF StoreTypeOK
<1>1. CASE LoadModels(r)
  <2>1. Open' = Open \cup {r}
    BY <1>1 DEF LoadModels, Open
  <2>2. overlap' \subseteq SUBSET Runs
    BY <1>1 DEF LoadModels, Open
  <2>3. todo' \in [Runs -> SUBSET Sources]
    BY <1>1, Docs DEF LoadModels
  <2>4. \A s \in Runs \ Open' : /\ todo'[s] = {} /\ source'[s] = NoSource
                                /\ deleted'[s] = {} /\ inserted'[s] = {}
    BY <1>1, <2>1 DEF LoadModels
  <2>5. waiting' \subseteq Open'
    BY <1>1, <2>1 DEF LoadModels
  <2> QED
    BY <1>1, <2>2, <2>3, <2>4, <2>5 DEF LoadModels
<1>2. CASE LoadLineage(r)
  <2>1. Open' = Open
    BY <1>2 DEF LoadLineage, Open
  <2>2. todo' \in [Runs -> SUBSET Sources]
    BY <1>2, Docs DEF LoadLineage
  <2> QED
    BY <1>2, <2>1, <2>2 DEF LoadLineage, Open
<1>3. CASE BeginDelete(r)
  <2>1. Open' = Open
    BY <1>3 DEF BeginDelete, Open
  <2> QED
    BY <1>3, <2>1 DEF BeginDelete
<1>4. CASE FinishDelete(r)
  <2>1. Open' = Open
    BY <1>4 DEF FinishDelete, Open
  <2> QED
    BY <1>4, <2>1 DEF FinishDelete
<1>5. CASE InsertChunks(r)
  <2>1. Open' = Open
    BY <1>5 DEF InsertChunks, Open
  <2>2. source[r] \in Sources
    BY <1>5 DEF InsertChunks, Between
  <2>3. Row(source[r], r) \in Rows
    BY <2>2 DEF Row, Rows
  <2> QED
    BY <1>5, <2>1, <2>2, <2>3 DEF InsertChunks
<1> QED
  BY <1>1, <1>2, <1>3, <1>4, <1>5

LEMMA NextTypes == StoreTypeOK /\ [StoreNext]_storeVars => StoreTypeOK'
<1> SUFFICES ASSUME StoreTypeOK, [StoreNext]_storeVars PROVE StoreTypeOK'
  OBVIOUS
<1>1. ASSUME UNCHANGED <<runVars, rows, overlap, commits>>, manifest' \in Projects,
             query' \in [state : {"idle", "asked", "no_results"},
                         type : SourceTypes \cup {NoType}, expects : BOOLEAN]
      PROVE  StoreTypeOK'
  BY <1>1 DEF StoreTypeOK, runVars, Open
<1>2. CASE Generate \/ UNCHANGED storeVars
  BY <1>1, <1>2 DEF Generate, storeVars, StoreTypeOK
<1>3. ASSUME NEW type \in QueryTypes, Ask(type)
      PROVE  StoreTypeOK'
  BY <1>1, <1>3, StoreAssumption DEF Ask, Query, StoreTypeOK, SourceTypes
<1>4. CASE Retrieve
  <2>1. query' \in {[query EXCEPT !.state = "no_results"], NoQuery}
    BY <1>4 DEF Retrieve
  <2> QED
    BY <1>1, <1>4, <2>1 DEF Retrieve, NoQuery, Query, StoreTypeOK
<1>5. ASSUME NEW r \in Runs, Commit(r)
      PROVE  StoreTypeOK'
  <2>1. rows' \subseteq Rows /\ commits' \in Seq(Runs)
    BY <1>5 DEF Commit, StoreTypeOK
  <2> QED
    BY <1>5, <2>1, CloseTypes DEF Commit
<1>6. ASSUME NEW r \in Runs, Rollback(r)
      PROVE  StoreTypeOK'
  <2>1. rows' \subseteq Rows /\ commits' \in Seq(Runs)
    BY <1>6 DEF Rollback, StoreTypeOK
  <2> QED
    BY <1>6, <2>1, CloseTypes DEF Rollback
<1> QED
  BY <1>2, <1>3, <1>4, <1>5, <1>6, RunTypes DEF StoreNext, Ingest, BreakDeadlock

(* The variables of the store have the types their code gives them, and an  *)
(* ended transaction holds nothing.                                        *)
THEOREM StoreTypesCorrect == StoreSpec => []StoreTypeOK
BY InitTypes, NextTypes, PTL DEF StoreSpec

-----------------------------------------------------------------------------
(* What a run holds is about the documents it has dealt with, and the one   *)
(* it deals with.                                                          *)
Holdings(r) ==
    /\ r \in waiting => source[r] # NoSource
    /\ \A x \in victims[r] : x.source = source[r]
    /\ \A x \in deleted[r] : x.source \in stored[r] \cup {source[r]}
    /\ \A x \in inserted[r] : x.run = r
    /\ r \in Open => \A d \in stored[r] : Row(d, r) \in inserted[r]
    /\ phase[r] = "new" => stored[r] = {} /\ victims[r] = {}

(* The rows are those of runs that committed, and commits names these.      *)
History ==
    /\ \A r \in Runs : phase[r] = "committed" <=> \E i \in DOMAIN commits : commits[i] = r
    /\ \A r, s \in Open : r # s => {r, s} \in overlap
    /\ \A x \in rows : phase[x.run] = "committed"

(* A run that began after another committed finds its row of each document  *)
(* it replaces.                                                            *)
Finds(r, s, d) ==
    Row(d, r) \in rows =>
        /\ source[s] = d => Row(d, r) \in IF s \in waiting THEN victims[s] ELSE deleted[s]
        /\ Row(d, s) \in inserted[s] => Row(d, r) \in deleted[s]

Replaces ==
    \A r \in Runs, s \in Open :
        phase[r] = "committed" /\ {r, s} \notin overlap => \A d \in Sources : Finds(r, s, d)

StoreInv ==
    /\ StoreTypeOK
    /\ \A r \in Runs : Holdings(r)
    /\ History
    /\ Replaces
    /\ OneVersionUnlessOverlap
    /\ IngestionAtomic

LEMMA InitInv == StoreInit => StoreInv
<1> SUFFICES ASSUME StoreInit PROVE StoreInv
  OBVIOUS
<1>1. StoreTypeOK
  BY InitTypes
<1>2. Open = {}
  BY DEF StoreInit, Open
<1>3. \A r \in Runs : Holdings(r)
  BY <1>2, StoreAssumption DEF StoreInit, Holdings
<1>4. \A x \in rows : x.run = FirstRun
  BY DEF StoreInit, Row
<1>5. DOMAIN commits = {1} /\ commits[1] = FirstRun
  BY DEF StoreInit
<1>6. History
  BY <1>2, <1>4, <1>5, StoreAssumption DEF StoreInit, History
<1>7. Replaces /\ OneVersionUnlessOverlap
  BY <1>2, <1>4 DEF Replaces, OneVersionUnlessOverlap
<1>8. IngestionAtomic
  BY <1>4, StoreAssumption DEF StoreInit, IngestionAtomic
<1> QED
  BY <1>1, <1>3, <1>6, <1>7, <1>8 DEF StoreInv

-----------------------------------------------------------------------------
(* A step that commits nothing keeps what is said of the rows.              *)
LEMMA RowsKept ==
    ASSUME StoreTypeOK, History, OneVersionUnlessOverlap, IngestionAtomic,
           UNCHANGED <<rows, commits>>, overlap \subseteq overlap',
           \A r \in Runs : /\ phase[r] = "committed" <=> phase'[r] = "committed"
                           /\ stored[r] \subseteq stored'[r]
                           /\ phase[r] = "committed" => stored'[r] = stored[r]
    PROVE  OneVersionUnlessOverlap' /\ IngestionAtomic'
<1>1. OneVersionUnlessOverlap'
  BY DEF OneVersionUnlessOverlap
<1>2. \A r, s : CommittedAfter(r, s) => CommittedAfter(r, s)'
  BY DEF CommittedAfter
<1>3. \A x \in rows : x.run \in Runs
  BY DEF StoreTypeOK, Rows
<1>4. \A x \in rows' : phase'[x.run] = "committed"
  BY <1>3 DEF IngestionAtomic
<1>5. ASSUME NEW r \in Runs, phase'[r] = "committed", NEW d \in stored'[r]
      PROVE  Row(d, r) \in rows' \/ \E s \in Runs : CommittedAfter(r, s)' /\ d \in stored'[s]
  <2>1. Row(d, r) \in rows \/ \E s \in Runs : CommittedAfter(r, s) /\ d \in stored[s]
    BY <1>5 DEF IngestionAtomic
  <2> QED
    BY <1>2, <2>1
<1>6. IngestionAtomic'
  BY <1>4, <1>5 DEF IngestionAtomic, Row
<1> QED
  BY <1>1, <1>6

LEMMA QuietInv ==
    ASSUME StoreInv, StoreTypeOK', UNCHANGED <<runVars, rows, overlap, commits>>
    PROVE  StoreInv'
<1> USE DEF StoreInv, runVars
<1>1. Open' = Open
  BY DEF Open
<1>2. \A r \in Runs : Holdings(r)'
  BY <1>1 DEF Holdings, Row
<1>3. History' /\ Replaces'
  BY <1>1 DEF History, Replaces, Finds, Row
<1>4. OneVersionUnlessOverlap' /\ IngestionAtomic'
  BY RowsKept
<1> QED
  BY <1>2, <1>3, <1>4

LEMMA LoadModelsInv ==
    ASSUME StoreInv, StoreTypeOK', NEW q \in Runs, LoadModels(q)
    PROVE  StoreInv'
<1> USE DEF StoreInv
<1>1. /\ phase[q] = "new" /\ q \notin Open
      /\ \A r \in Runs : phase'[r] = IF r = q THEN "models" ELSE phase[r]
      /\ UNCHANGED <<rows, source, victims, waiting, deleted, inserted, stored, commits>>
      /\ overlap' = overlap \cup {{q, s} : s \in Open}
  BY DEF LoadModels, StoreTypeOK, Open
<1>2. Open' = Open \cup {q}
  BY <1>1 DEF Open
<1>3. source[q] = NoSource /\ deleted[q] = {} /\ inserted[q] = {} /\ q \notin waiting
  BY <1>1 DEF StoreTypeOK
<1>4. \A r \in Runs : Holdings(r)'
  BY <1>1, <1>2, <1>3 DEF Holdings, Row
<1>5. History'
  <2>1. \A r, s \in Open' : r # s => {r, s} \in overlap'
    <3> TAKE r, s \in Open'
    <3>1. CASE r \in Open /\ s \in Open
      BY <1>1, <3>1 DEF History
    <3>2. CASE r = q /\ s \in Open
      BY <1>1, <3>2
    <3>3. CASE s = q /\ r \in Open
      <4>1. {r, s} = {q, r}
        BY <3>3
      <4> QED
        BY <1>1, <3>3, <4>1
    <3> QED
      BY <1>2, <3>1, <3>2, <3>3
  <2>2. \A x \in rows : x.run \in Runs
    BY DEF StoreTypeOK, Rows
  <2>3. \A x \in rows' : phase'[x.run] = "committed"
    BY <1>1, <2>2 DEF History
  <2>4. \A r \in Runs : phase'[r] = "committed" <=> \E i \in DOMAIN commits' : commits'[i] = r
    BY <1>1 DEF History
  <2> QED
    BY <2>1, <2>3, <2>4 DEF History
<1>6. Replaces'
  <2> SUFFICES ASSUME NEW r \in Runs, NEW s \in Open', phase'[r] = "committed",
                      {r, s} \notin overlap', NEW d \in Sources
               PROVE  Finds(r, s, d)'
    BY DEF Replaces
  <2>1. CASE s = q
    BY <1>1, <1>3, <2>1, NoSourceIsNone DEF Finds, Row
  <2>2. CASE s # q
    <3>1. Finds(r, s, d)
      BY <1>1, <1>2, <2>2 DEF Replaces
    <3> QED
      BY <1>1, <3>1 DEF Finds, Row
  <2> QED
    BY <2>1, <2>2
<1>7. OneVersionUnlessOverlap' /\ IngestionAtomic'
  BY <1>1, RowsKept
<1> QED
  BY <1>4, <1>5, <1>6, <1>7

(* A step of an open run that does not end it.                             *)
WorksOn(q) ==
    /\ q \in Open
    /\ UNCHANGED <<rows, commits, overlap>>
    /\ phase'[q] \in {"models", "lineage"}
    /\ stored[q] \subseteq stored'[q]
    /\ waiting' \ {q} = waiting \ {q}
    /\ \A r \in Runs \ {q} :
          /\ phase'[r] = phase[r] /\ source'[r] = source[r] /\ victims'[r] = victims[r]
          /\ deleted'[r] = deleted[r] /\ inserted'[r] = inserted[r]
          /\ stored'[r] = stored[r]

LEMMA WorkInv ==
    ASSUME StoreInv, StoreTypeOK', NEW q \in Runs, WorksOn(q), Holdings(q)',
           \A r \in Runs, d \in Sources : Finds(r, q, d) => Finds(r, q, d)'
    PROVE  StoreInv'
<1> USE DEF StoreInv
<1>1. Open' = Open
  BY DEF WorksOn, Open
<1>2. \A r \in Runs : Holdings(r)'
  <2> TAKE r \in Runs
  <2>1. CASE r # q
    BY <1>1, <2>1 DEF WorksOn, Holdings, Row
  <2> QED
    BY <2>1
<1>3. \A r \in Runs : phase[r] = "committed" <=> phase'[r] = "committed"
  BY DEF WorksOn, Open
<1>4. History'
  <2>1. \A x \in rows : x.run \in Runs
    BY DEF StoreTypeOK, Rows
  <2> QED
    BY <1>1, <1>3, <2>1 DEF WorksOn, History
<1>5. Replaces'
  <2> SUFFICES ASSUME NEW r \in Runs, NEW s \in Open', phase'[r] = "committed",
                      {r, s} \notin overlap', NEW d \in Sources
               PROVE  Finds(r, s, d)'
    BY DEF Replaces
  <2>1. Finds(r, s, d)
    BY <1>1, <1>3 DEF Replaces, WorksOn
  <2>2. CASE s # q
    BY <1>1, <2>1, <2>2 DEF WorksOn, Finds, Row, Open
  <2> QED
    BY <2>1, <2>2
<1>6. OneVersionUnlessOverlap' /\ IngestionAtomic'
  <2>1. \A r \in Runs : /\ stored[r] \subseteq stored'[r]
                        /\ phase[r] = "committed" => stored'[r] = stored[r]
    BY DEF WorksOn, Open
  <2> QED
    BY <1>3, <2>1, RowsKept DEF WorksOn
<1> QED
  BY <1>2, <1>4, <1>5, <1>6

LEMMA IngestInv ==
    ASSUME StoreInv, StoreTypeOK', NEW q \in Runs,
           LoadLineage(q) \/ BeginDelete(q) \/ FinishDelete(q) \/ InsertChunks(q)
    PROVE  StoreInv'
<1> USE DEF StoreInv
<1>1. CASE LoadLineage(q)
  <2>1. WorksOn(q) /\ phase'[q] = "lineage" /\ q \in Open'
    BY <1>1 DEF LoadLineage, WorksOn, Open, StoreTypeOK
  <2>2. UNCHANGED <<rows, source, victims, waiting, deleted, inserted, stored>>
    BY <1>1 DEF LoadLineage
  <2>3. Holdings(q)'
    BY <2>1, <2>2 DEF Holdings, Row, WorksOn
  <2>4. \A r \in Runs, d \in Sources : Finds(r, q, d) => Finds(r, q, d)'
    BY <2>2 DEF Finds, Row
  <2> QED
    BY <2>1, <2>3, <2>4, WorkInv
<1>2. CASE BeginDelete(q)
  <2>1. PICK d \in todo[q] : /\ source' = [source EXCEPT ![q] = d]
                             /\ victims' = [victims EXCEPT ![q] = {x \in rows : x.source = d}]
    BY <1>2 DEF BeginDelete
  <2>2. /\ source[q] = NoSource /\ d \in Sources /\ q \in Open
        /\ waiting' = waiting \cup {q}
        /\ UNCHANGED <<rows, phase, deleted, inserted, stored, overlap, commits>>
    BY <1>2 DEF BeginDelete, Between, StoreTypeOK
  <2>3. source'[q] = d /\ victims'[q] = {x \in rows : x.source = d}
    BY <2>1 DEF StoreTypeOK
  <2>4. WorksOn(q)
    BY <2>1, <2>2 DEF WorksOn, StoreTypeOK, Open
  <2>5. Holdings(q)'
    <3>1. \A x \in deleted[q] : x.source \in stored[q]
      <4>1. \A x \in deleted[q] : x.source \in Sources
        BY DEF StoreTypeOK, Rows
      <4> QED
        BY <2>2, <4>1, NoSourceIsNone DEF Holdings
    <3>2. Open' = Open
      BY <2>2 DEF Open
    <3> QED
      BY <2>2, <2>3, <3>1, <3>2, NoSourceIsNone DEF Holdings, Row, Open
  <2>6. \A r \in Runs, e \in Sources : Finds(r, q, e) => Finds(r, q, e)'
    BY <2>2, <2>3 DEF Finds, Row
  <2> QED
    BY <2>4, <2>5, <2>6, WorkInv
<1>3. CASE FinishDelete(q)
  <2>1. /\ q \in waiting /\ q \in Open
        /\ deleted' = [deleted EXCEPT ![q] = @ \cup (victims[q] \cap rows)]
        /\ waiting' = waiting \ {q}
        /\ UNCHANGED <<rows, phase, source, victims, inserted, stored, overlap, commits>>
    BY <1>3 DEF FinishDelete, StoreTypeOK
  <2>2. deleted'[q] = deleted[q] \cup (victims[q] \cap rows)
    BY <2>1 DEF StoreTypeOK
  <2>3. WorksOn(q)
    BY <2>1 DEF WorksOn, StoreTypeOK, Open
  <2>4. Open' = Open
    BY <2>1 DEF Open
  <2>5. Holdings(q)'
    BY <2>1, <2>2, <2>4 DEF Holdings, Row
  <2>6. \A r \in Runs, d \in Sources : Finds(r, q, d) => Finds(r, q, d)'
    BY <2>1, <2>2 DEF Finds, Row
  <2> QED
    BY <2>3, <2>5, <2>6, WorkInv
<1>4. CASE InsertChunks(q)
  <2>1. /\ q \in Open \ waiting /\ source[q] # NoSource
        /\ inserted' = [inserted EXCEPT ![q] = @ \cup {Row(source[q], q)}]
        /\ stored' = [stored EXCEPT ![q] = @ \cup {source[q]}]
        /\ source' = [source EXCEPT ![q] = NoSource]
        /\ victims' = [victims EXCEPT ![q] = {}]
        /\ UNCHANGED <<rows, phase, waiting, deleted, overlap, commits>>
    BY <1>4 DEF InsertChunks, Between
  <2>2. /\ inserted'[q] = inserted[q] \cup {Row(source[q], q)}
        /\ stored'[q] = stored[q] \cup {source[q]}
        /\ source'[q] = NoSource /\ victims'[q] = {}
    BY <2>1 DEF StoreTypeOK
  <2>3. WorksOn(q)
    BY <2>1 DEF WorksOn, StoreTypeOK, Open
  <2>4. Open' = Open
    BY <2>1 DEF Open
  <2>5. Holdings(q)'
    BY <2>1, <2>2, <2>4 DEF Holdings, Row, Open
  <2>6. ASSUME NEW r \in Runs, NEW d \in Sources, Finds(r, q, d), Row(d, r) \in rows
        PROVE  /\ source'[q] # d
               /\ Row(d, q) \in inserted'[q] => Row(d, r) \in deleted'[q]
    <3>1. source'[q] # d
      BY <2>2, NoSourceIsNone
    <3>2. Row(d, q) = Row(source[q], q) => d = source[q]
      BY DEF Row
    <3> QED
      BY <2>1, <2>2, <2>6, <3>1, <3>2 DEF Finds
  <2>7. \A r \in Runs, d \in Sources : Finds(r, q, d) => Finds(r, q, d)'
    BY <2>1, <2>6 DEF Finds, Row
  <2> QED
    BY <2>3, <2>5, <2>7, WorkInv
<1> QED
  BY <1>1, <1>2, <1>3, <1>4

-----------------------------------------------------------------------------
(* The end of a run.                                                       *)

LEMMA CloseInv ==
    ASSUME StoreInv, StoreTypeOK', NEW q \in Open, NEW how, how # "new", Close(q, how),
           how \notin {"models", "lineage"}
    PROVE  /\ Open' = Open \ {q}
           /\ \A r \in Runs : Holdings(r)'
           /\ \A r \in Runs : phase'[r] = IF r = q THEN how ELSE phase[r]
<1> USE DEF StoreInv
<1>1. \A r \in Runs : phase'[r] = IF r = q THEN how ELSE phase[r]
  BY DEF Close, StoreTypeOK
<1>2. Open' = Open \ {q}
  BY <1>1 DEF Open
<1>3. ASSUME NEW r \in Runs, r # q
      PROVE  Holdings(r)'
  BY <1>1, <1>2, <1>3 DEF Close, Holdings, Row, StoreTypeOK
<1>4. /\ victims'[q] = {} /\ deleted'[q] = {} /\ inserted'[q] = {} /\ q \notin waiting'
      /\ phase'[q] = how /\ q \notin Open'
  BY <1>1, <1>2 DEF Close, StoreTypeOK, Open
<1>5. Holdings(q)'
  BY <1>4 DEF Holdings
<1> QED
  BY <1>1, <1>2, <1>3, <1>5

LEMMA RollbackInv ==
    ASSUME StoreInv, StoreTypeOK', NEW q \in Runs, Rollback(q)
    PROVE  StoreInv'
<1> USE DEF StoreInv
<1>1. q \in Open /\ UNCHANGED <<rows, commits, stored, overlap>>
  BY DEF Rollback, Close
<1>2. /\ Open' = Open \ {q}
      /\ \A r \in Runs : Holdings(r)'
      /\ \A r \in Runs : phase'[r] = IF r = q THEN "rolled_back" ELSE phase[r]
  BY <1>1, CloseInv DEF Rollback
<1>3. \A r \in Runs : phase[r] = "committed" <=> phase'[r] = "committed"
  BY <1>1, <1>2 DEF Open
<1>4. \A s \in Open' : /\ source'[s] = source[s] /\ victims'[s] = victims[s]
                       /\ deleted'[s] = deleted[s] /\ inserted'[s] = inserted[s]
                       /\ s \in waiting' <=> s \in waiting
  BY <1>2 DEF Rollback, Close, Open, StoreTypeOK
<1>5. History'
  <2>1. \A x \in rows : x.run \in Runs
    BY DEF StoreTypeOK, Rows
  <2> QED
    BY <1>1, <1>2, <1>3, <2>1 DEF History
<1>6. Replaces'
  <2> SUFFICES ASSUME NEW r \in Runs, NEW s \in Open', phase'[r] = "committed",
                      {r, s} \notin overlap', NEW d \in Sources
               PROVE  Finds(r, s, d)'
    BY DEF Replaces
  <2>1. Finds(r, s, d)
    BY <1>1, <1>2, <1>3 DEF Replaces
  <2> QED
    BY <1>1, <1>4, <2>1 DEF Finds, Row
<1>7. OneVersionUnlessOverlap' /\ IngestionAtomic'
  BY <1>1, <1>3, RowsKept
<1> QED
  BY <1>2, <1>5, <1>6, <1>7

LEMMA CommitInv ==
    ASSUME StoreInv, StoreTypeOK', NEW q \in Runs, Commit(q)
    PROVE  StoreInv'
<1> USE DEF StoreInv
<1>1. /\ q \in Open /\ source[q] = NoSource /\ q \notin waiting
      /\ rows' = (rows \ deleted[q]) \cup inserted[q]
      /\ commits' = Append(commits, q)
      /\ UNCHANGED <<stored, overlap>>
  BY DEF Commit, Close, Between, Open, Holdings
<1>2. /\ Open' = Open \ {q}
      /\ \A r \in Runs : Holdings(r)'
      /\ \A r \in Runs : phase'[r] = IF r = q THEN "committed" ELSE phase[r]
  BY <1>1, CloseInv DEF Commit
<1>3. \A s \in Open' : /\ source'[s] = source[s] /\ victims'[s] = victims[s]
                       /\ deleted'[s] = deleted[s] /\ inserted'[s] = inserted[s]
                       /\ s \in waiting' <=> s \in waiting
  BY <1>2 DEF Commit, Close, Open, StoreTypeOK
<1>4. /\ DOMAIN commits' = DOMAIN commits \cup {Len(commits) + 1}
      /\ Len(commits) + 1 \notin DOMAIN commits
      /\ \A i \in DOMAIN commits : i < Len(commits) + 1 /\ commits'[i] = commits[i]
      /\ commits'[Len(commits) + 1] = q
  BY <1>1 DEF StoreTypeOK
<1>5. /\ \A x \in rows : x.run \in Runs /\ x.run # q /\ phase[x.run] = "committed"
      /\ \A x \in inserted[q] : x.run = q
      /\ \A x \in rows : x.source \in Sources
  BY <1>1 DEF StoreTypeOK, Rows, History, Open, Holdings
<1>6. \A x \in rows' : phase'[x.run] = "committed"
  BY <1>1, <1>2, <1>5
<1>7. History'
  <2>1. \A r \in Runs : phase'[r] = "committed" <=> \E i \in DOMAIN commits' : commits'[i] = r
    BY <1>2, <1>4 DEF History
  <2> QED
    BY <1>1, <1>2, <1>6, <2>1 DEF History
<1>8. Replaces'
  <2> SUFFICES ASSUME NEW r \in Runs, NEW s \in Open', phase'[r] = "committed",
                      {r, s} \notin overlap', NEW d \in Sources
               PROVE  Finds(r, s, d)'
    BY DEF Replaces
  <2>1. r # q
    BY <1>1, <1>2 DEF History
  <2>2. Finds(r, s, d)
    BY <1>1, <1>2, <2>1 DEF Replaces
  <2>3. Row(d, r) \in rows' => Row(d, r) \in rows
    BY <1>1, <1>5, <2>1 DEF Row
  <2> QED
    BY <1>3, <2>2, <2>3 DEF Finds, Row
<1>9. OneVersionUnlessOverlap'
  <2>1. ASSUME NEW x \in rows \ deleted[q], NEW y \in inserted[q], x.source = y.source
        PROVE  {x.run, q} \in overlap
    <3>1. x = Row(x.source, x.run) /\ y = Row(x.source, q)
      BY <1>5, <2>1 DEF StoreTypeOK, Rows, Row
    <3>2. x.run \in Runs /\ x.source \in Sources /\ phase[x.run] = "committed"
      BY <1>5
    <3>3. ~Finds(x.run, q, x.source)
      BY <2>1, <3>1 DEF Finds
    <3> QED
      BY <1>1, <3>2, <3>3 DEF Replaces
  <2>2. ASSUME NEW x \in rows', NEW y \in rows', x.source = y.source, x.run # y.run
        PROVE  {x.run, y.run} \in overlap'
    <3>1. CASE x \in rows \ deleted[q] /\ y \in rows \ deleted[q]
      BY <1>1, <2>2, <3>1 DEF OneVersionUnlessOverlap
    <3>2. CASE x \in rows \ deleted[q] /\ y \in inserted[q]
      BY <1>1, <1>5, <2>1, <2>2, <3>2
    <3>3. CASE y \in rows \ deleted[q] /\ x \in inserted[q]
      <4>1. {x.run, y.run} = {y.run, q}
        BY <1>5, <3>3
      <4> QED
        BY <1>1, <2>1, <2>2, <3>3, <4>1
    <3> QED
      BY <1>1, <1>5, <2>2, <3>1, <3>2, <3>3
  <2> QED
    BY <2>2 DEF OneVersionUnlessOverlap
<1>10. ASSUME NEW r \in Runs, phase'[r] = "committed", NEW d \in stored'[r]
       PROVE  Row(d, r) \in rows' \/ \E s \in Runs : CommittedAfter(r, s)' /\ d \in stored'[s]
  <2>1. CASE r = q
    BY <1>1, <1>10, <2>1 DEF Holdings
  <2>2. CASE r # q
    <3>1. phase[r] = "committed" /\ d \in stored[r]
      BY <1>1, <1>2, <1>10, <2>2
    <3>2. CASE Row(d, r) \in rows \ deleted[q]
      BY <1>1, <3>2
    <3>3. CASE Row(d, r) \in deleted[q]
      <4>1. d \in stored[q]
        <5>1. d \in stored[q] \cup {source[q]}
          BY <3>3 DEF Holdings, Row
        <5>2. d \in Sources
          BY <3>1 DEF StoreTypeOK
        <5> QED
          BY <1>1, <5>1, <5>2, NoSourceIsNone
      <4>2. CommittedAfter(r, q)'
        BY <1>4, <3>1 DEF History, CommittedAfter
      <4> QED
        BY <1>1, <4>1, <4>2
    <3>4. ASSUME NEW s \in Runs, CommittedAfter(r, s), d \in stored[s]
          PROVE  CommittedAfter(r, s)' /\ d \in stored'[s]
      BY <1>1, <1>4, <3>4 DEF CommittedAfter
    <3> QED
      BY <3>1, <3>2, <3>3, <3>4 DEF IngestionAtomic
  <2> QED
    BY <2>1, <2>2
<1>11. IngestionAtomic'
  BY <1>6, <1>10 DEF IngestionAtomic, Row
<1> QED
  BY <1>2, <1>7, <1>8, <1>9, <1>11

LEMMA NextInv == StoreInv /\ [StoreNext]_storeVars => StoreInv'
<1> SUFFICES ASSUME StoreInv, [StoreNext]_storeVars PROVE StoreInv'
  OBVIOUS
<1>1. StoreTypeOK'
  BY NextTypes DEF StoreInv
<1>2. ASSUME Generate \/ Retrieve \/ UNCHANGED storeVars \/ \E type \in QueryTypes : Ask(type)
      PROVE  StoreInv'
  BY <1>1, <1>2, QuietInv DEF Generate, Retrieve, Ask, storeVars
<1> QED
  BY <1>1, <1>2, LoadModelsInv, IngestInv, CommitInv, RollbackInv
  DEF StoreNext, Ingest, BreakDeadlock

LEMMA Invariant == StoreSpec => []StoreInv
BY InitInv, NextInv, PTL DEF StoreSpec

(* upsert_chunks has no unique key to rely on, and needs none unless two    *)
(* ingestions run together: one version of a document is stored.            *)
THEOREM VersionsFromOverlapOnly == StoreSpec => []OneVersionUnlessOverlap
BY Invariant, PTL DEF StoreInv

(* Whatever fails and whoever waits for whom, the transaction of            *)
(* ingest_dbt_project stores all it loaded or nothing.                      *)
THEOREM IngestionsAreAtomic == StoreSpec => []IngestionAtomic
BY Invariant, PTL DEF StoreInv

-----------------------------------------------------------------------------
(* Queries.                                                                 *)

(* A question that is under way still finds what there was to find.         *)
Answers ==
    /\ NoneOnlyWhenEmpty
    /\ query.state = "asked" /\ query.expects => OfType(query.type) # {}

(* A commit puts a row of the same type in the place of each it deletes.    *)
LEMMA CommitKeepsTypes ==
    ASSUME StoreInv, NEW q \in Runs, Commit(q), NEW type, OfType(type) # {}
    PROVE  OfType(type)' # {}
<1> USE DEF StoreInv
<1>1. /\ q \in Open /\ source[q] = NoSource
      /\ rows' = (rows \ deleted[q]) \cup inserted[q]
  BY DEF Commit, Between, Open
<1>2. PICK x \in rows : type \in {NoType, x.source[1]}
  BY DEF OfType
<1>3. CASE x \notin deleted[q]
  BY <1>1, <1>2, <1>3 DEF OfType
<1>4. CASE x \in deleted[q]
  <2>1. x \in Rows
    BY DEF StoreTypeOK
  <2>2. x.source \in stored[q]
    BY <1>1, <1>4, <2>1, NoSourceIsNone DEF Holdings, Rows
  <2>3. Row(x.source, q) \in rows'
    BY <1>1, <2>2 DEF Holdings
  <2>4. Row(x.source, q).source = x.source
    BY DEF Row
  <2> QED
    BY <1>2, <2>3, <2>4 DEF OfType
<1> QED
  BY <1>3, <1>4

LEMMA NextAnswers == StoreInv /\ Answers /\ [StoreNext]_storeVars => Answers'
<1> SUFFICES ASSUME StoreInv, Answers, [StoreNext]_storeVars PROVE Answers'
  OBVIOUS
<1> USE DEF StoreInv
<1>1. ASSUME UNCHANGED query, \A type : OfType(type) # {} => OfType(type)' # {}
      PROVE  Answers'
  BY <1>1 DEF Answers, NoneOnlyWhenEmpty
<1>2. ASSUME UNCHANGED rows PROVE \A type : OfType(type)' = OfType(type)
  BY <1>2 DEF OfType
<1>3. ASSUME NEW type, Ask(type) PROVE Answers'
  <2>1. query' = [state |-> "asked", type |-> type, expects |-> OfType(type) # {}]
        /\ rows' = rows
    BY <1>3 DEF Ask, Query
  <2>2. query'.state = "asked" /\ query'.type = type /\ query'.expects = (OfType(type) # {})
    BY <2>1
  <2> QED
    BY <1>2, <2>1, <2>2 DEF Answers, NoneOnlyWhenEmpty
<1>4. CASE Retrieve
  <2>1. CASE OfType(query.type) = {}
    <3>1. query.state = "asked" /\ ~query.expects
      BY <1>4, <2>1 DEF Retrieve, Answers
    <3>2. query'.state = "no_results" /\ query'.expects = query.expects
      BY <1>4, <2>1 DEF Retrieve, StoreTypeOK
    <3> QED
      BY <3>1, <3>2 DEF Answers, NoneOnlyWhenEmpty
  <2>2. CASE OfType(query.type) # {}
    BY <1>4, <2>2 DEF Retrieve, NoQuery, Query, Answers, NoneOnlyWhenEmpty
  <2> QED
    BY <2>1, <2>2
<1>5. ASSUME NEW q \in Runs, Commit(q) PROVE Answers'
  BY <1>1, <1>5, CommitKeepsTypes DEF Commit, Close
<1>6. ASSUME NEW q \in Runs,
             LoadModels(q) \/ LoadLineage(q) \/ BeginDelete(q) \/ FinishDelete(q)
                \/ InsertChunks(q) \/ Rollback(q) \/ BreakDeadlock(q)
      PROVE  Answers'
  <2>1. UNCHANGED <<query, rows>>
    BY <1>6 DEF LoadModels, LoadLineage, BeginDelete, FinishDelete, InsertChunks, Rollback,
       BreakDeadlock, Close
  <2> QED
    BY <1>1, <1>2, <2>1
<1>7. CASE Generate \/ UNCHANGED storeVars
  BY <1>1, <1>2, <1>7 DEF Generate, storeVars
<1> QED
  BY <1>3, <1>4, <1>5, <1>6, <1>7 DEF StoreNext, Ingest

(* A query between the statements of any number of ingestions never finds   *)
(* the store empty when it was not.                                         *)
THEOREM QueriesFindWhatThereIs == StoreSpec => []NoneOnlyWhenEmpty
<1>1. StoreInit => Answers
  BY DEF StoreInit, NoQuery, Query, Answers, NoneOnlyWhenEmpty
<1> QED
  BY <1>1, InitInv, NextInv, NextAnswers, PTL DEF StoreSpec, Answers

-----------------------------------------------------------------------------
(* What ingestions one after the other leave.                               *)

(* A row goes when a later run stores its document, unless the two were     *)
(* open together; and a run has rows of the documents it stored only.       *)
Superseded ==
    /\ \A x \in rows : x.source \in stored[x.run]
    /\ \A r \in Runs : \A x \in inserted[r] : x.source \in stored[r]
    /\ \A x \in rows, s \in Runs :
          CommittedAfter(x.run, s) /\ x.source \in stored[s] => {x.run, s} \in overlap

(* The store is what the ingestions would have left in the order they       *)
(* committed in: of each document, the version of the last of them that     *)
(* stored it, and nothing else.                                             *)
SerialUnlessOverlap ==
    overlap = {} =>
        \A r \in Runs, d \in Sources :
           Row(d, r) \in rows <=>
              /\ phase[r] = "committed" /\ d \in stored[r]
              /\ ~\E s \in Runs : CommittedAfter(r, s) /\ d \in stored[s]

(* A step that neither commits nor changes what a committed run has stored. *)
LEMMA KeepsSuperseded ==
    ASSUME StoreInv, Superseded, UNCHANGED <<rows, commits>>, overlap \subseteq overlap',
           \A r \in Runs : phase[r] = "committed" => stored'[r] = stored[r],
           \A r \in Runs : \A x \in inserted'[r] : x.source \in stored'[r]
    PROVE  Superseded'
<1> USE DEF StoreInv
<1>1. \A x \in rows : x.run \in Runs /\ phase[x.run] = "committed"
  BY DEF StoreTypeOK, Rows, History
<1>2. \A x \in rows' : x.source \in stored'[x.run]
  BY <1>1 DEF Superseded
<1>3. ASSUME NEW x \in rows', NEW s \in Runs, CommittedAfter(x.run, s)',
             x.source \in stored'[s]
      PROVE  {x.run, s} \in overlap'
  <2>1. CommittedAfter(x.run, s)
    BY <1>3 DEF CommittedAfter
  <2>2. phase[s] = "committed"
    BY <2>1 DEF CommittedAfter, History
  <2> QED
    BY <1>3, <2>1, <2>2 DEF Superseded
<1> QED
  BY <1>2, <1>3 DEF Superseded

LEMMA CommitSuperseded ==
    ASSUME StoreInv, Superseded, NEW q \in Runs, Commit(q)
    PROVE  Superseded'
<1> USE DEF StoreInv
<1>1. /\ q \in Open /\ source[q] = NoSource
      /\ rows' = (rows \ deleted[q]) \cup inserted[q]
      /\ commits' = Append(commits, q)
      /\ UNCHANGED <<stored, overlap>>
      /\ inserted' = [inserted EXCEPT ![q] = {}]
  BY DEF Commit, Close, Between, Open
<1>2. /\ DOMAIN commits' = DOMAIN commits \cup {Len(commits) + 1}
      /\ \A i \in DOMAIN commits : /\ i \in Nat /\ i < Len(commits) + 1
                                   /\ commits'[i] = commits[i]
      /\ Len(commits) + 1 \in Nat
      /\ commits'[Len(commits) + 1] = q
  BY <1>1 DEF StoreTypeOK
<1>3. \A i \in DOMAIN commits : commits[i] # q
  BY <1>1 DEF History, Open
<1>4. /\ \A x \in inserted[q] : x.run = q /\ x.source \in stored[q]
      /\ \A x \in rows : /\ x.run \in Runs /\ phase[x.run] = "committed"
                         /\ x.source \in Sources /\ x.source \in stored[x.run]
      /\ \A x \in rows : x = Row(x.source, x.run)
  BY DEF Holdings, Superseded, StoreTypeOK, Rows, Row, History
<1>5. \A x \in rows' : x.source \in stored'[x.run]
  BY <1>1, <1>4
<1>6. \A r \in Runs : \A x \in inserted'[r] : x.source \in stored'[r]
  BY <1>1 DEF Superseded, StoreTypeOK
<1>7. ASSUME NEW x \in rows \ deleted[q], x.source \in stored[q]
      PROVE  {x.run, q} \in overlap
  <2>1. Row(x.source, q) \in inserted[q]
    BY <1>1, <1>7 DEF Holdings
  <2>2. ~Finds(x.run, q, x.source)
    BY <1>4, <1>7, <2>1 DEF Finds
  <2> QED
    BY <1>1, <1>4, <2>2 DEF Replaces
<1>8. ASSUME NEW x \in rows', NEW s \in Runs, CommittedAfter(x.run, s)',
             x.source \in stored'[s]
      PROVE  {x.run, s} \in overlap'
  <2>1. PICK i, j \in DOMAIN commits' : i < j /\ commits'[i] = x.run /\ commits'[j] = s
    BY <1>8 DEF CommittedAfter
  <2>2. i \in DOMAIN commits /\ commits[i] = x.run
    BY <1>2, <2>1
  <2>3. x \in rows \ deleted[q]
    BY <1>1, <1>3, <1>4, <2>2
  <2>4. CASE s = q
    BY <1>1, <1>7, <1>8, <2>3, <2>4
  <2>5. CASE s # q
    <3>1. j \in DOMAIN commits /\ commits[j] = s
      BY <1>2, <2>1, <2>5
    <3>2. CommittedAfter(x.run, s)
      BY <2>1, <2>2, <3>1 DEF CommittedAfter
    <3> QED
      BY <1>1, <1>8, <2>3, <3>2 DEF Superseded
  <2> QED
    BY <2>4, <2>5
<1> QED
  BY <1>5, <1>6, <1>8 DEF Superseded

LEMMA NextSuperseded == StoreInv /\ Superseded /\ [StoreNext]_storeVars => Superseded'
<1> SUFFICES ASSUME StoreInv, Superseded, [StoreNext]_storeVars PROVE Superseded'
  OBVIOUS
<1> USE DEF StoreInv
<1>0. \A r \in Runs : \A x \in inserted[r] : x.source \in stored[r]
  BY DEF Superseded
<1>1. CASE Generate \/ Retrieve \/ UNCHANGED storeVars \/ \E type \in QueryTypes : Ask(type)
  BY <1>0, <1>1, KeepsSuperseded DEF Generate, Retrieve, Ask, storeVars, runVars
<1>2. ASSUME NEW q \in Runs,
             LoadModels(q) \/ LoadLineage(q) \/ BeginDelete(q) \/ FinishDelete(q)
      PROVE  Superseded'
  <2>1. UNCHANGED <<rows, commits, stored, inserted>> /\ overlap \subseteq overlap'
    BY <1>2 DEF LoadModels, LoadLineage, BeginDelete, FinishDelete
  <2> QED
    BY <1>0, <2>1, KeepsSuperseded
<1>3. ASSUME NEW q \in Runs, InsertChunks(q)
      PROVE  Superseded'
  <2>1. /\ UNCHANGED <<rows, commits, overlap>> /\ phase[q] # "committed"
        /\ inserted' = [inserted EXCEPT ![q] = @ \cup {Row(source[q], q)}]
        /\ stored' = [stored EXCEPT ![q] = @ \cup {source[q]}]
    BY <1>3 DEF InsertChunks, Open
  <2>2. Row(source[q], q).source = source[q]
    BY DEF Row
  <2>3. \A r \in Runs : \A x \in inserted'[r] : x.source \in stored'[r]
    BY <1>0, <2>1, <2>2 DEF StoreTypeOK
  <2>4. \A r \in Runs : phase[r] = "committed" => stored'[r] = stored[r]
    BY <2>1 DEF StoreTypeOK
  <2> QED
    BY <2>1, <2>3, <2>4, KeepsSuperseded
<1>4. ASSUME NEW q \in Runs, Rollback(q)
      PROVE  Superseded'
  <2>1. /\ UNCHANGED <<rows, commits, overlap, stored>>
        /\ inserted' = [inserted EXCEPT ![q] = {}]
    BY <1>4 DEF Rollback, Close
  <2>2. \A r \in Runs : \A x \in inserted'[r] : x.source \in stored'[r]
    BY <1>0, <2>1 DEF StoreTypeOK
  <2> QED
    BY <2>1, <2>2, KeepsSuperseded
<1> QED
  BY <1>1, <1>2, <1>3, <1>4, CommitSuperseded DEF StoreNext, Ingest, BreakDeadlock

(* Ingestions that do not overlap leave what the last of them to store a    *)
(* document wrote: delete and insert by themselves make an upsert, with no  *)
(* unique key and no lock, as long as nobody else runs.                     *)
THEOREM SerialIngestions == StoreSpec => []SerialUnlessOverlap
<1>1. StoreInit => Superseded
  <2> SUFFICES ASSUME StoreInit PROVE Superseded
    OBVIOUS
  <2>1. \A x \in rows : x.run = FirstRun /\ x.source \in stored[FirstRun]
    BY DEF StoreInit, Row
  <2>2. \A r, s \in Runs : ~CommittedAfter(r, s)
    BY DEF StoreInit, CommittedAfter
  <2>3. \A r \in Runs : inserted[r] = {}
    BY DEF StoreInit
  <2> QED
    BY <2>1, <2>2, <2>3, StoreAssumption DEF Superseded
<1>2. StoreInv /\ Superseded => SerialUnlessOverlap
  <2> SUFFICES ASSUME StoreInv, Superseded, overlap = {}, NEW r \in Runs, NEW d \in Sources
               PROVE  Row(d, r) \in rows <=>
                         /\ phase[r] = "committed" /\ d \in stored[r]
                         /\ ~\E s \in Runs : CommittedAfter(r, s) /\ d \in stored[s]
    BY DEF SerialUnlessOverlap
  <2>1. Row(d, r).source = d /\ Row(d, r).run = r
    BY DEF Row
  <2> QED
    BY <2>1 DEF StoreInv, IngestionAtomic, Superseded
<1> QED
  BY <1>1, <1>2, InitInv, NextInv, NextSuperseded, PTL DEF StoreSpec

-----------------------------------------------------------------------------
(* The end of an ingestion.                                                 *)

(* A run can take its next step unless its DELETE waits for a locked row.   *)
Moves(r) == r \in Open /\ \A s \in Runs : ~WaitsFor(r, s)

(* Transactions that wait for each other, which BreakDeadlock looks for.    *)
Cycle(S) == S # {} /\ \A s \in S : \E t \in S : WaitsFor(s, t)

NeverStuck ==
    Open # {} => (\E r \in Open : Moves(r)) \/ \E S \in SUBSET waiting : Cycle(S)

(* The store comes to no stand that the deadlock detector does not end:     *)
(* while ingestions are open one of them can go on, or some of them wait    *)
(* for each other.                                                          *)
THEOREM IngestionsNeverStuck == StoreSpec => []NeverStuck
<1>1. StoreTypeOK => NeverStuck
  <2> SUFFICES ASSUME StoreTypeOK, Open # {}, \A r \in Open : ~Moves(r)
               PROVE  \E S \in SUBSET waiting : Cycle(S)
    BY DEF NeverStuck
  <2>1. \A r \in Open : \E s \in Runs : WaitsFor(r, s)
    BY DEF Moves
  <2>2. \A r, s : WaitsFor(r, s) => r \in waiting /\ s \in Open
    BY DEF WaitsFor
  <2>3. Open \subseteq waiting
    BY <2>1, <2>2
  <2>4. Cycle(Open)
    BY <2>1, <2>2 DEF Cycle
  <2> QED
    BY <2>3, <2>4
<1> QED
  BY <1>1, StoreTypesCorrect, PTL

(* Three statements for each document, and one step for each phase.         *)
Stage(r) == IF source[r] = NoSource THEN 0 ELSE IF r \in waiting THEN 1 ELSE 2

StepsToGo(r) ==
    CASE phase[r] = "models"  -> 3 * Cardinality(Sources) + 3 * Cardinality(todo[r]) + 2 - Stage(r)
      [] phase[r] = "lineage" -> 3 * Cardinality(todo[r]) + 1 - Stage(r)
      [] OTHER                -> 0

(* The document a run deals with is one it has not stored.                  *)
DealsWith == \A r \in Runs : source[r] # NoSource => source[r] \in todo[r]

LEMMA NextDealsWith == StoreTypeOK /\ DealsWith /\ [StoreNext]_storeVars => DealsWith'
<1> SUFFICES ASSUME StoreTypeOK, DealsWith, [StoreNext]_storeVars PROVE DealsWith'
  OBVIOUS
<1> USE DEF StoreTypeOK, DealsWith
<1>1. CASE Generate \/ Retrieve \/ UNCHANGED storeVars \/ \E type \in QueryTypes : Ask(type)
  BY <1>1 DEF Generate, Retrieve, Ask, storeVars, runVars
<1>2. ASSUME NEW q \in Runs, LoadModels(q) PROVE DealsWith'
  BY <1>2 DEF LoadModels, Open
<1>3. ASSUME NEW q \in Runs, LoadLineage(q) PROVE DealsWith'
  BY <1>3 DEF LoadLineage, Between
<1>4. ASSUME NEW q \in Runs, BeginDelete(q) PROVE DealsWith'
  BY <1>4 DEF BeginDelete
<1>5. ASSUME NEW q \in Runs, FinishDelete(q) PROVE DealsWith'
  BY <1>5 DEF FinishDelete
<1>6. ASSUME NEW q \in Runs, InsertChunks(q) PROVE DealsWith'
  BY <1>6 DEF InsertChunks
<1>7. ASSUME NEW q \in Runs, Commit(q) \/ Rollback(q) PROVE DealsWith'
  BY <1>7 DEF Commit, Rollback, Close
<1> QED
  BY <1>1, <1>2, <1>3, <1>4, <1>5, <1>6, <1>7 DEF StoreNext, Ingest, BreakDeadlock

LEMMA DocumentsFinite ==
    ASSUME IsFiniteSet(Nodes), NEW docs \in SUBSET Sources
    PROVE  /\ IsFiniteSet(docs) /\ Cardinality(Sources) \in Nat
           /\ Cardinality(docs) \in 0 .. Cardinality(Sources)
           /\ docs # {} => Cardinality(docs) >= 1
           /\ \A d \in docs : Cardinality(docs \ {d}) = Cardinality(docs) - 1
<1>1. IsFiniteSet(SourceTypes)
  <2>1. SourceTypes = ({} \cup {"dbt_model"}) \cup {"lineage"}
    BY DEF SourceTypes
  <2> QED
    BY <2>1, FS_EmptySet, FS_AddElement
<1>2. IsFiniteSet(Sources)
  BY <1>1, FS_Product DEF Sources
<1>3. IsFiniteSet(docs) /\ Cardinality(docs) <= Cardinality(Sources)
  BY <1>2, FS_Subset
<1>4. Cardinality(Sources) \in Nat /\ Cardinality(docs) \in Nat
  BY <1>2, <1>3, FS_CardinalityType
<1>5. docs # {} => Cardinality(docs) >= 1
  BY <1>3, <1>4, FS_EmptySet
<1>6. \A d \in docs : Cardinality(docs \ {d}) = Cardinality(docs) - 1
  BY <1>3, FS_RemoveElement
<1> QED
  BY <1>3, <1>4, <1>5, <1>6

LEMMA IngestUsesStep ==
    ASSUME IsFiniteSet(Nodes), StoreInv, StoreTypeOK', DealsWith, NEW r \in Runs, Ingest(r)
    PROVE  StepsToGo(r)' < StepsToGo(r)
<1> DEFINE C == Cardinality(Sources)
           T == Cardinality(todo[r])
           U == Cardinality(todo'[r])
<1>0. StoreTypeOK /\ Holdings(r)
  BY DEF StoreInv
<1>1. C \in Nat /\ T \in 0..C /\ U \in 0..C
  <2>1. todo[r] \in SUBSET Sources /\ todo'[r] \in SUBSET Sources
    BY <1>0 DEF StoreTypeOK
  <2> QED
    BY <2>1, DocumentsFinite
<1>2. /\ phase[r] = "models" => StepsToGo(r) = 3 * C + 3 * T + 2 - Stage(r)
      /\ phase[r] = "lineage" => StepsToGo(r) = 3 * T + 1 - Stage(r)
      /\ phase'[r] = "models" => StepsToGo(r)' = 3 * C + 3 * U + 2 - Stage(r)'
      /\ phase'[r] = "lineage" => StepsToGo(r)' = 3 * U + 1 - Stage(r)'
  BY DEF StepsToGo
<1> HIDE DEF C
<1>3. CASE LoadLineage(r)
  <2>1. phase[r] = "models" /\ phase'[r] = "lineage" /\ Stage(r) = 0 /\ Stage(r)' = 0
    BY <1>0, <1>3 DEF LoadLineage, Between, Stage, StoreTypeOK
  <2> HIDE DEF T, U
  <2> QED
    BY <1>1, <1>2, <2>1
<1>4. CASE BeginDelete(r)
  <2>1. /\ phase[r] \in {"models", "lineage"} /\ phase'[r] = phase[r]
        /\ Stage(r) = 0 /\ Stage(r)' = 1 /\ U = T
    <3>1. PICK d \in todo[r] : source' = [source EXCEPT ![r] = d]
      BY <1>4 DEF BeginDelete
    <3>2. d # NoSource
      BY <1>0, <3>1, NoSourceIsNone DEF StoreTypeOK
    <3> QED
      BY <1>0, <1>4, <3>1, <3>2 DEF BeginDelete, Open, Between, Stage, StoreTypeOK
  <2> HIDE DEF T, U
  <2> QED
    BY <1>1, <1>2, <2>1
<1>5. CASE FinishDelete(r)
  <2>1. /\ phase[r] \in {"models", "lineage"} /\ phase'[r] = phase[r]
        /\ Stage(r) = 1 /\ Stage(r)' = 2 /\ U = T
    BY <1>0, <1>5 DEF FinishDelete, Holdings, Open, Stage, StoreTypeOK
  <2> HIDE DEF T, U
  <2> QED
    BY <1>1, <1>2, <2>1
<1>6. CASE InsertChunks(r)
  <2>1. /\ phase[r] \in {"models", "lineage"} /\ phase'[r] = phase[r]
        /\ Stage(r) = 2 /\ Stage(r)' = 0
        /\ source[r] \in todo[r] /\ todo'[r] = todo[r] \ {source[r]}
    BY <1>0, <1>6 DEF InsertChunks, Between, DealsWith, Open, Stage, StoreTypeOK
  <2>2. todo[r] \in SUBSET Sources
    BY <1>0 DEF StoreTypeOK
  <2>3. U = T - 1
    BY <2>1, <2>2, DocumentsFinite
  <2> HIDE DEF T, U
  <2> QED
    BY <1>1, <1>2, <2>1, <2>3
<1>7. CASE Commit(r)
  <2>1. phase[r] = "lineage" /\ Stage(r) = 0 /\ phase'[r] = "committed"
    BY <1>0, <1>7 DEF Commit, Close, Between, Stage, StoreTypeOK
  <2>2. StepsToGo(r)' = 0
    BY <2>1 DEF StepsToGo
  <2> HIDE DEF T, U
  <2> QED
    BY <1>1, <1>2, <2>1, <2>2
<1> QED
  BY <1>3, <1>4, <1>5, <1>6, <1>7 DEF Ingest

(* What the others do costs a run nothing, and its own end all it has left. *)
LEMMA OthersUseNoStep ==
    ASSUME StoreTypeOK, NEW r \in Runs, StoreNext, ~Ingest(r), ~LoadModels(r), ~Rollback(r)
    PROVE  StepsToGo(r)' = StepsToGo(r)
<1> DEFINE Untouched ==
            /\ phase'[r] = phase[r] /\ todo'[r] = todo[r] /\ source'[r] = source[r]
            /\ r \in waiting' <=> r \in waiting
<1>1. Untouched
  <2> USE DEF StoreTypeOK
  <2>1. CASE Generate \/ Retrieve \/ \E type \in QueryTypes : Ask(type)
    BY <2>1 DEF Generate, Retrieve, Ask, runVars
  <2>2. ASSUME NEW q \in Runs \ {r}, LoadModels(q) \/ LoadLineage(q) \/ BeginDelete(q)
        PROVE  Untouched
    BY <2>2 DEF LoadModels, LoadLineage, BeginDelete
  <2>3. ASSUME NEW q \in Runs \ {r}, FinishDelete(q) \/ InsertChunks(q)
        PROVE  Untouched
    BY <2>3 DEF FinishDelete, InsertChunks
  <2>4. ASSUME NEW q \in Runs \ {r}, Commit(q) \/ Rollback(q)
        PROVE  Untouched
    BY <2>4 DEF Commit, Rollback, Close
  <2> QED
    BY <2>1, <2>2, <2>3, <2>4 DEF StoreNext, Ingest, BreakDeadlock
<1>2. Stage(r)' = Stage(r)
  BY <1>1 DEF Stage
<1> QED
  BY <1>1, <1>2 DEF StepsToGo

(* What IngestionEnds needs of the code besides the scheduler and the       *)
(* database: nothing an open run does, or others do meanwhile, lengthens    *)
(* its way to COMMIT, though its list of documents is filled a second time. *)
THEOREM IngestionBounded ==
    ASSUME IsFiniteSet(Nodes)
    PROVE  StoreSpec => [][\A r \in Runs : \/ LoadModels(r) \/ Rollback(r)
                                           \/ StepsToGo(r)' = StepsToGo(r)
                                           \/ Ingest(r) /\ StepsToGo(r)' < StepsToGo(r)]_storeVars
<1>1. StoreInit => DealsWith
  BY DEF StoreInit, DealsWith
<1>2. StoreInv /\ StoreInv' /\ DealsWith /\ [StoreNext]_storeVars
         => [\A r \in Runs : \/ LoadModels(r) \/ Rollback(r)
                             \/ StepsToGo(r)' = StepsToGo(r)
                             \/ Ingest(r) /\ StepsToGo(r)' < StepsToGo(r)]_storeVars
  BY IngestUsesStep, OthersUseNoStep DEF StoreInv
<1>3. StoreInv => StoreTypeOK
  BY DEF StoreInv
<1> QED
  BY <1>1, <1>2, <1>3, InitInv, NextInv, NextDealsWith, PTL DEF StoreSpec
=============================================================================
