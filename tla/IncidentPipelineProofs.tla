----------------------- MODULE IncidentPipelineProofs -----------------------
(***************************************************************************)
(* Theorems about IncidentPipeline, for every value of its constants.      *)
(* The invariant says, step by step, what the task knows, what its          *)
(* transaction holds and what the services have.                           *)
(***************************************************************************)
EXTENDS IncidentPipeline, TLAPS

OpenRow == [NoRow EXCEPT !.status = "open"]

FullRow(refs) == [status |-> "in_progress", rca |-> rca, fix |-> fix, refs |-> refs]

(* What the replies of the model have filled in.                           *)
ReplyStage ==
    /\ step \in {"insert", "open", "analyse"} => rca = "none"
    /\ step \in Steps \ {"insert", "open", "analyse"} => rca # "none"
    /\ step \in {"insert", "open", "analyse", "generate"} => fix = "none"
    /\ step \in Steps \ {"insert", "open", "analyse", "generate"} =>
          fix # "none" /\ planned > 0

(* What the services have: nothing before the fix is known, and a pull      *)
(* request only on a complete branch.                                      *)
ServiceStage ==
    /\ step \in {"insert", "open", "analyse", "generate"} =>
          made = {} /\ ~branch /\ commits = 0
    /\ step \in {"base", "branch", "files", "pull"} => "pull" \notin made
    /\ step \in {"base", "branch"} => commits = 0
    /\ step = "files" => commits < planned
    /\ step \in {"pull", "reviewers", "labels"} => branch /\ commits = planned
    /\ step \in {"reviewers", "labels"} => "pull" \in made
    /\ PullComplete
    /\ held \subseteq made

(* What the open transaction would commit.                                 *)
TransactionStage ==
    /\ step = "insert" => pending = NoRow
    /\ step \in Steps \ {"insert", "update_refs", "advance"} => pending = OpenRow
    /\ step = "update_refs" => pending = FullRow({}) /\ noted
    /\ step = "advance" => pending = FullRow(held) /\ noted
    /\ step = "update_rca" /\ session # "broken" => noted
    /\ step \in Steps \ {"update_rca", "update_refs", "advance"} => ~noted

(* What is committed.                                                      *)
RowStage ==
    /\ step \in {"insert", "open"} => row = NoRow
    /\ step \in Steps \ {"insert", "open"} => row = OpenRow
    /\ step \in Steps => ~memory
    /\ step \in {"failed", "stopped"} =>
          \/ row = NoRow /\ ~memory /\ made = {} /\ ~branch
          \/ row = OpenRow /\ ~memory
          \/ row = FullRow(held) /\ rca # "none" /\ fix # "none"
    /\ step = "processed" =>
          row = FullRow(held) /\ rca # "none" /\ fix # "none" /\ memory

IInv == TypeOK /\ ReplyStage /\ ServiceStage /\ TransactionStage /\ RowStage

LEMMA InitIInv == Init => IInv
<1> USE IncidentPipelineAssumption
<1> SUFFICES ASSUME Init PROVE IInv
  OBVIOUS
<1>1. TypeOK
  <2>1. NoRow \in Rows
    BY DEF NoRow, Rows
  <2>2. "insert" \in Steps
    BY DEF Steps, DBSteps
  <2>3. /\ attempt \in 0..MaxRetries
        /\ planned \in 0..4 /\ commits \in 0..planned
    BY DEF Init
  <2> QED BY <2>1, <2>2, <2>3 DEF Init, TypeOK
<1>2. ReplyStage
  BY DEF Init, ReplyStage
<1>3. ServiceStage
  BY DEF Init, ServiceStage, PullComplete
<1>4. TransactionStage
  BY DEF Init, TransactionStage
<1>5. RowStage
  BY DEF Init, RowStage
<1> QED BY <1>1, <1>2, <1>3, <1>4, <1>5 DEF IInv

(* What a service changes has its type.                                     *)
LEMMA EffectTypes ==
  ASSUME IInv, PerhapsEffect, UNCHANGED reply
  PROVE  /\ made' \subseteq Refs /\ branch' \in BOOLEAN /\ draft' \in BOOLEAN
         /\ commits' \in 0..planned'
<1> USE IncidentPipelineAssumption
    DEF Steps, LLMSteps, GitHubSteps, JiraSteps, DBSteps, Ended, github, database, txn, reply
<1>1. made' \subseteq Refs
  BY DEF IInv, TypeOK, Effect, Makes, NoEffect, PerhapsEffect, Refs
<1>2. branch' \in BOOLEAN /\ draft' \in BOOLEAN
  BY DEF IInv, TypeOK, Effect, Makes, NoEffect, PerhapsEffect
<1>3. commits' \in 0..planned
  BY DEF IInv, TypeOK, ServiceStage, Effect, Makes, NoEffect, PerhapsEffect
<1> QED BY <1>1, <1>2, <1>3

(* A task that ends before it has processed its alert, whatever the call    *)
(* under way has done.                                                      *)
LEMMA EndIInv ==
  ASSUME IInv, step \in Steps,
         step' \in {"failed", "stopped"}, CloseSession, UNCHANGED <<reply, held>>, PerhapsEffect
  PROVE  IInv'
<1> USE IncidentPipelineAssumption
    DEF Steps, LLMSteps, GitHubSteps, JiraSteps, DBSteps, Ended, github, database, txn, reply
<1>1. TypeOK'
  <2>1. /\ made' \subseteq Refs /\ branch' \in BOOLEAN /\ draft' \in BOOLEAN
        /\ commits' \in 0..planned'
    BY EffectTypes
  <2>2. row' \in Rows /\ memory' \in BOOLEAN
    BY DEF IInv, TypeOK, Effect, Makes, NoEffect, PerhapsEffect
  <2> QED BY <2>1, <2>2 DEF IInv, TypeOK, CloseSession
<1>2. ReplyStage'
  BY DEF IInv, ReplyStage, TypeOK, CloseSession, Effect, Makes, NoEffect, PerhapsEffect
<1>3. ServiceStage'
  BY DEF IInv, ServiceStage, ReplyStage, PullComplete, TypeOK, CloseSession, Effect,
     Makes, NoEffect, PerhapsEffect
<1>4. TransactionStage'
  BY DEF IInv, TransactionStage, TypeOK, CloseSession, Effect, Makes, NoEffect,
     PerhapsEffect
<1>5. RowStage'
  BY DEF IInv, RowStage, TransactionStage, ReplyStage, ServiceStage, TypeOK, OpenRow,
     FullRow, NoRow, CloseSession, Effect, Makes, NoEffect, PerhapsEffect
<1> QED BY <1>1, <1>2, <1>3, <1>4, <1>5 DEF IInv

LEMMA NextIInv == IInv /\ [Next]_vars => IInv'
<1> USE IncidentPipelineAssumption
    DEF Steps, LLMSteps, GitHubSteps, JiraSteps, DBSteps, Ended, github, database, txn, reply
<1> SUFFICES ASSUME IInv, [Next]_vars PROVE IInv'
  OBVIOUS
<1>1. CASE InsertError
  BY <1>1, EndIInv DEF InsertError, Raise, PerhapsEffect
<1>2. CASE CommitError
  BY <1>2, EndIInv DEF CommitError, Raise, PerhapsEffect
<1>3. CASE LLMGiveUp
  BY <1>3, EndIInv DEF LLMGiveUp, Raise, PerhapsEffect
<1>4. CASE LLMRaise
  BY <1>4, EndIInv DEF LLMRaise, Raise, PerhapsEffect
<1>5. CASE FormatError
  BY <1>5, EndIInv DEF FormatError, Raise, PerhapsEffect
<1>6. CASE SlackUnreachable
  BY <1>6, EndIInv DEF SlackUnreachable, Raise, PerhapsEffect
<1>7. CASE UpdateError
  BY <1>7, EndIInv DEF UpdateError, Raise, PerhapsEffect
<1>8. CASE Stop
  BY <1>8, EndIInv DEF Stop, IInv, TypeOK
<1>9. CASE GitHubError
  <2>1. TypeOK'
    <3>1. commits' \in 0..planned' /\ made' \subseteq Refs
      BY <1>9, EffectTypes DEF GitHubError
    <3>2. branch' \in BOOLEAN /\ draft' \in BOOLEAN /\ row' \in Rows /\ memory' \in BOOLEAN
      BY <1>9, IncidentPipelineAssumption DEF GitHubError, IInv, TypeOK, Effect, Makes,
         NoEffect, PerhapsEffect
    <3> QED BY <1>9, <3>1, <3>2 DEF GitHubError, IInv, TypeOK
  <2>2. ReplyStage'
    BY <1>9 DEF GitHubError, IInv, ReplyStage, TypeOK, Effect, Makes, NoEffect,
       PerhapsEffect
  <2>3. ServiceStage'
    BY <1>9 DEF GitHubError, IInv, ServiceStage, ReplyStage, PullComplete, TypeOK,
       Effect, Makes, NoEffect, PerhapsEffect
  <2>4. TransactionStage'
    BY <1>9 DEF GitHubError, IInv, TransactionStage, TypeOK, Effect, Makes, NoEffect,
       PerhapsEffect
  <2>5. RowStage'
    BY <1>9 DEF GitHubError, IInv, RowStage, TransactionStage, ReplyStage,
       ServiceStage, TypeOK, OpenRow, FullRow, NoRow, Effect, Makes, NoEffect,
       PerhapsEffect
  <2> QED BY <2>1, <2>2, <2>3, <2>4, <2>5 DEF IInv
<1>10. CASE UpdateRca
  <2>0. pending' = FullRow({})
    BY <1>10 DEF UpdateRca, IInv, TransactionStage, OpenRow, NoRow, FullRow
  <2>1. TypeOK'
    <3>1. pending' \in Rows
      BY <1>10, <2>0 DEF UpdateRca, IInv, TypeOK, FullRow, Rows
    <3> QED BY <1>10, <3>1 DEF UpdateRca, IInv, TypeOK, NoEffect
  <2>2. ReplyStage'
    BY <1>10 DEF UpdateRca, IInv, ReplyStage, TypeOK, NoEffect
  <2>3. ServiceStage'
    BY <1>10 DEF UpdateRca, IInv, ServiceStage, ReplyStage, PullComplete, TypeOK,
       NoEffect
  <2>4. TransactionStage'
    BY <1>10, <2>0 DEF UpdateRca, IInv, TransactionStage, TypeOK, FullRow, NoEffect
  <2>5. RowStage'
    BY <1>10 DEF UpdateRca, IInv, RowStage, TransactionStage, ReplyStage, ServiceStage,
       TypeOK, OpenRow, FullRow, NoRow, NoEffect
  <2> QED BY <2>1, <2>2, <2>3, <2>4, <2>5 DEF IInv
<1> USE DEF IInv, TypeOK, Rows, Refs, NoRow, OpenRow, FullRow, ReplyStage, ServiceStage,
            PullComplete, TransactionStage, RowStage
<1>11. CASE Insert
  BY <1>11 DEF Insert, NoEffect
<1>12. CASE Open
  BY <1>12 DEF Open, Effect, Makes
<1>13. CASE Analyse
  BY <1>13 DEF Analyse, NoEffect
<1>14. CASE Generate
  BY <1>14 DEF Generate, FileCounts, NoEffect
<1>15. CASE LLMError
  BY <1>15 DEF LLMError, NoEffect
<1>16. CASE GetBase
  BY <1>16 DEF GetBase, GitHubCall, NoEffect
<1>17. CASE CreateBranch \/ RefuseBranch
  <2>1. CASE CreateBranch
    BY <2>1 DEF CreateBranch, GitHubCall, Effect, Makes
  <2>2. CASE RefuseBranch
    BY <2>2 DEF RefuseBranch, GitHubCall, NoEffect
  <2> QED
    BY <1>17, <2>1, <2>2
<1>18. CASE CommitFile
  BY <1>18 DEF CommitFile, GitHubCall, Effect, Makes
<1>19. CASE OpenPull
  BY <1>19 DEF OpenPull, GitHubCall, AfterPull, Effect, Makes
<1>20. CASE AskReviewers
  BY <1>20 DEF AskReviewers, GitHubCall, NoEffect
<1>21. CASE AddLabels
  BY <1>21 DEF AddLabels, NoEffect
<1>22. CASE CreateTicket
  BY <1>22 DEF CreateTicket, Effect, Makes
<1>23. CASE TicketError
  BY <1>23 DEF TicketError, Effect, Makes, NoEffect, PerhapsEffect
<1>24. CASE AddRemoteLink
  BY <1>24 DEF AddRemoteLink, NoEffect
<1>25. CASE Announce
  BY <1>25 DEF Announce, Effect, Makes
<1>26. CASE SlackRefuses
  BY <1>26 DEF SlackRefuses, NoEffect
<1>27. CASE StoreMemory
  BY <1>27 DEF StoreMemory, NoEffect
<1>28. CASE MemoryError
  BY <1>28 DEF MemoryError, NoEffect
<1>29. CASE UpdateExternalRefs
  BY <1>29 DEF UpdateExternalRefs, NoEffect
<1>30. CASE Advance
  BY <1>30 DEF Advance, CloseSession, Effect, Makes
<1>31. CASE UNCHANGED vars
  BY <1>31 DEF vars
<1> QED BY <1>1, <1>2, <1>3, <1>4, <1>5, <1>6, <1>7, <1>8, <1>9, <1>10, <1>11,
      <1>12, <1>13, <1>14, <1>15, <1>16, <1>17, <1>18, <1>19, <1>20, <1>21, <1>22,
      <1>23, <1>24, <1>25, <1>26, <1>27, <1>28, <1>29, <1>30, <1>31
      DEF Next, Handle, Persist, Complete, CreatePR, Notify, Record

LEMMA Invariance == Spec => []IInv
BY InitIInv, NextIInv, PTL DEF Spec

LEMMA IInvConsequences ==
  IInv => RowAtomic /\ RefsReal /\ ArtefactsHaveIncident /\ ProcessedMeansStored
<1> USE DEF Steps, LLMSteps, GitHubSteps, JiraSteps, DBSteps, Ended
<1> SUFFICES ASSUME IInv PROVE RowAtomic /\ RefsReal /\ ArtefactsHaveIncident /\ ProcessedMeansStored
  OBVIOUS
<1> USE DEF IInv, TypeOK, NoRow, OpenRow, FullRow, ServiceStage, RowStage
<1>1. RowAtomic
  BY DEF RowAtomic
<1>2. RefsReal
  BY DEF RefsReal
<1>3. ArtefactsHaveIncident
  BY DEF ArtefactsHaveIncident
<1>4. ProcessedMeansStored
  BY DEF ProcessedMeansStored
<1> QED BY <1>1, <1>2, <1>3, <1>4

-----------------------------------------------------------------------------
(* Every variable of the handling keeps its type, for every number of       *)
(* retries and every choice of settings, foreign keys and failures.         *)
THEOREM HandlingTypes == Spec => []TypeOK
BY Invariance, PTL DEF IInv

(* Analysis, status, references and memory reach the database together.     *)
THEOREM RowNeverHalf == Spec => []RowAtomic
BY Invariance, IInvConsequences, PTL

(* Every reference in the database is that of an artefact that exists.      *)
THEOREM RecordedMeansReal == Spec => []RefsReal
BY Invariance, IInvConsequences, PTL

(* Nothing is made in another service before the incident is committed.     *)
THEOREM IncidentComesFirst == Spec => []ArtefactsHaveIncident
BY Invariance, IInvConsequences, PTL

(* A pull request is opened on a branch with every file of the fix only.    *)
THEOREM PullNeverPartial == Spec => []PullComplete
BY Invariance, PTL DEF IInv, ServiceStage

(* An alert counted as processed has its complete outcome in the database.  *)
THEOREM ProcessedIsDurable == Spec => []ProcessedMeansStored
BY Invariance, IInvConsequences, PTL

-----------------------------------------------------------------------------
LEMMA InitRecord == Init => IncidentLog!Init
BY DEF Init, IncidentLog!Init, NoRow, Verdict

(* A step goes on, ends the task early, or completes it.                    *)
LEMMA StepShape ==
  ASSUME IInv, Next
  PROVE  \/ step \in Steps /\ step' \in {"failed", "stopped"} /\ PerhapsEffect
         \/ step \in Steps \ {"advance"} /\ step' \in Steps /\ PerhapsEffect
         \/ Advance
<1> USE DEF Steps, LLMSteps, GitHubSteps, JiraSteps, DBSteps, Ended, PerhapsEffect
<1>1. CASE Persist
  BY <1>1 DEF Persist, Insert, InsertError, Open, CommitError, Raise
<1>2. CASE Complete
  BY <1>2 DEF Complete, Analyse, Generate, LLMError, LLMGiveUp, LLMRaise, Raise
<1>3. CASE CreatePR
  BY <1>3 DEF CreatePR, GetBase, CreateBranch, RefuseBranch, CommitFile, OpenPull, AskReviewers,
     AddLabels, GitHubError, GitHubCall, AfterPull
<1>4. CASE Notify
  BY <1>4 DEF Notify, FormatError, CreateTicket, TicketError, AddRemoteLink, Announce,
     SlackRefuses, SlackUnreachable, Raise
<1>5. CASE Record
  BY <1>5 DEF Record, StoreMemory, MemoryError, UpdateRca, UpdateExternalRefs,
     UpdateError, Raise
<1>6. CASE Stop
  BY <1>6 DEF Stop, IInv, TypeOK
<1> QED BY <1>1, <1>2, <1>3, <1>4, <1>5, <1>6 DEF Next, Handle

(* Every step of the handling maps to one of the record, or to a stutter.   *)
LEMMA StepRecord == IInv /\ [Next]_vars => [IncidentLog!Next]_(IncidentLog!vars)
<1> USE IncidentPipelineAssumption
    DEF Steps, LLMSteps, GitHubSteps, JiraSteps, DBSteps, Ended, github, database, txn, reply
<1> SUFFICES ASSUME IInv, [Next]_vars PROVE [IncidentLog!Next]_(IncidentLog!vars)
  OBVIOUS
<1> DEFINE Stutter == row' = row /\ Verdict' = Verdict
           Appears == IncidentLog!Open
           Fills   == IncidentLog!Advance
           Fails   == IncidentLog!GiveUp
<1>1. Stutter => UNCHANGED IncidentLog!vars
  BY DEF IncidentLog!vars
<1>2. row' = row /\ Verdict = "pending" /\ Verdict' = "failed" => Fails
  BY DEF IncidentLog!GiveUp
<1>3. step = "open" /\ row' = pending /\ Verdict' \in {"pending", "failed"} => Appears
  BY DEF IncidentLog!Open, IInv, RowStage, TransactionStage, NoRow, OpenRow, Verdict
<1>4. step = "advance" /\ row' = pending /\ Verdict' \in {"pending", "processed", "failed"}
      => Fills
  BY DEF IncidentLog!Advance, IInv, TypeOK, RowStage, TransactionStage, NoRow, OpenRow,
     FullRow, Verdict
<1>5. step \in Steps /\ step' \in {"failed", "stopped"} /\ PerhapsEffect
      => Stutter \/ Appears \/ Fills \/ Fails
  BY <1>2, <1>3, <1>4 DEF Verdict, PerhapsEffect, Effect, Makes, NoEffect
<1>6. step \in Steps /\ step' \in Steps /\ PerhapsEffect /\ step # "advance"
      => Stutter \/ Appears
  BY <1>3 DEF Verdict, PerhapsEffect, Effect, Makes, NoEffect
<1>7. Advance => Fills
  BY <1>4 DEF Advance, Effect, Makes, Verdict
<1>8. UNCHANGED vars => Stutter
  BY DEF vars, Verdict
<1> QED BY <1>1, <1>5, <1>6, <1>7, <1>8, StepShape DEF IncidentLog!Next

(* The handling implements IncidentRecord: what an operator reads in the    *)
(* table goes from nothing to OPEN to IN_PROGRESS, each once, and the worker *)
(* says "processed" only after that.                                       *)
THEOREM ImplementsRecord == Spec => RecordSpec
BY Invariance, InitRecord, StepRecord, PTL DEF Spec, RecordSpec, IncidentLog!Spec

-----------------------------------------------------------------------------
(* The calls the handling makes at most before it ends: MaxRetries for each *)
(* completion, four files, and one each for the others.                     *)
CallsLeft ==
    CASE step = "insert"      -> 2 * MaxRetries + 18
      [] step = "open"        -> 2 * MaxRetries + 17
      [] step = "analyse"     -> 2 * MaxRetries + 16 - attempt
      [] step = "generate"    -> MaxRetries + 16 - attempt
      [] step = "base"        -> 12 + planned
      [] step = "branch"      -> 11 + planned
      [] step = "files"       -> 10 + (planned - commits)
      [] step = "pull"        -> 10
      [] step = "reviewers"   -> 9
      [] step = "labels"      -> 8
      [] step = "ticket"      -> 7
      [] step = "link"        -> 6
      [] step = "announce"    -> 5
      [] step = "memory"      -> 4
      [] step = "update_rca"  -> 3
      [] step = "update_refs" -> 2
      [] step = "advance"     -> 1
      [] OTHER                -> 0

LEMMA CallsLeftRange == IInv => CallsLeft \in 0 .. (2 * MaxRetries + 18)
<1> USE IncidentPipelineAssumption
    DEF Steps, LLMSteps, GitHubSteps, JiraSteps, DBSteps, Ended
<1> SUFFICES ASSUME IInv PROVE CallsLeft \in 0 .. (2 * MaxRetries + 18)
  OBVIOUS
<1>1. attempt \in 0..MaxRetries /\ planned \in 0..4 /\ commits \in 0..planned
  BY DEF IInv, TypeOK
<1>2. step \in Steps => CallsLeft \in 1 .. (2 * MaxRetries + 18)
  BY <1>1 DEF CallsLeft
<1>3. step \in Ended => CallsLeft = 0
  BY DEF CallsLeft
<1> QED
  BY <1>2, <1>3 DEF IInv, TypeOK

LEMMA EndLeavesNoCall ==
    ASSUME IInv, step \in Steps, step' \in Ended
    PROVE  CallsLeft' < CallsLeft
<1> USE IncidentPipelineAssumption
    DEF Steps, LLMSteps, GitHubSteps, JiraSteps, DBSteps, Ended
<1>1. attempt \in 0..MaxRetries /\ planned \in 0..4 /\ commits \in 0..planned
  BY DEF IInv, TypeOK
<1>2. CallsLeft >= 1
  BY <1>1 DEF CallsLeft
<1>3. CallsLeft' = 0
  BY DEF CallsLeft
<1>4. CallsLeft \in Nat
  BY CallsLeftRange
<1> QED
  BY <1>2, <1>3, <1>4

(* Every step uses up a call, whatever the services answer.                 *)
LEMMA StepUsesCall == IInv /\ Next => CallsLeft' < CallsLeft
<1> SUFFICES ASSUME IInv, Next PROVE CallsLeft' < CallsLeft
  OBVIOUS
<1> USE IncidentPipelineAssumption
    DEF Steps, LLMSteps, GitHubSteps, JiraSteps, DBSteps, Ended
<1>1. /\ attempt \in 0..MaxRetries /\ planned \in 0..4 /\ commits \in 0..planned
      /\ MaxRetries \in Nat
  BY DEF IInv, TypeOK
<1>2. CASE Persist
  <2>1. CASE InsertError \/ CommitError
    BY <2>1, EndLeavesNoCall DEF InsertError, CommitError, Raise
  <2>2. CASE Insert \/ Open
    BY <1>1, <2>2 DEF Insert, Open, CallsLeft, IInv, TypeOK, reply
  <2> QED BY <1>2, <2>1, <2>2 DEF Persist
<1>3. CASE Complete
  <2>1. CASE LLMGiveUp \/ LLMRaise
    BY <2>1, EndLeavesNoCall DEF LLMGiveUp, LLMRaise, Raise
  <2>2. CASE Analyse
    BY <1>1, <2>2 DEF Analyse, CallsLeft
  <2>3. CASE Generate
    <3>1. planned' \in 1..4
      BY <2>3 DEF Generate, FileCounts
    <3> QED BY <1>1, <2>3, <3>1 DEF Generate, CallsLeft
  <2>4. CASE LLMError
    BY <1>1, <2>4 DEF LLMError, CallsLeft
  <2> QED BY <1>3, <2>1, <2>2, <2>3, <2>4 DEF Complete
<1>4. CASE CreatePR
  <2>1. step \in {"base", "branch"} => commits = 0
    BY DEF IInv, ServiceStage
  <2>2. step = "files" => commits < planned
    BY DEF IInv, ServiceStage
  <2>3. CASE GetBase \/ CreateBranch \/ RefuseBranch
    <3>1. CASE GetBase \/ RefuseBranch
      BY <1>1, <2>1, <3>1
      DEF GetBase, RefuseBranch, GitHubCall, NoEffect, github, reply, CallsLeft
    <3>2. CASE CreateBranch
      BY <1>1, <2>1, <3>2 DEF CreateBranch, GitHubCall, Effect, reply, CallsLeft
    <3> QED
      BY <2>3, <3>1, <3>2
  <2>4. CASE CommitFile
    BY <1>1, <2>2, <2>4 DEF CommitFile, GitHubCall, Effect, reply, CallsLeft
  <2>5. CASE OpenPull \/ AskReviewers \/ AddLabels
    BY <1>1, <2>5 DEF OpenPull, AskReviewers, AddLabels, AfterPull, GitHubCall, CallsLeft
  <2>6. CASE GitHubError
    BY <1>1, <2>2, <2>6 DEF GitHubError, CallsLeft
  <2> QED BY <1>4, <2>3, <2>4, <2>5, <2>6 DEF CreatePR
<1>5. CASE Notify
  <2>1. CASE FormatError \/ SlackUnreachable
    BY <2>1, EndLeavesNoCall DEF FormatError, SlackUnreachable, Raise
  <2>2. CASE CreateTicket \/ TicketError \/ AddRemoteLink \/ Announce \/ SlackRefuses
    BY <2>2 DEF CreateTicket, TicketError, AddRemoteLink, Announce, SlackRefuses, CallsLeft
  <2> QED BY <1>5, <2>1, <2>2 DEF Notify
<1>6. CASE Record
  <2>1. CASE UpdateError
    BY <2>1, EndLeavesNoCall DEF UpdateError, Raise
  <2>2. CASE StoreMemory \/ MemoryError \/ UpdateRca \/ UpdateExternalRefs \/ Advance
    BY <2>2 DEF StoreMemory, MemoryError, UpdateRca, UpdateExternalRefs, Advance, CallsLeft
  <2> QED BY <1>6, <2>1, <2>2 DEF Record
<1>7. CASE Stop
  BY <1>7, EndLeavesNoCall DEF Stop, IInv, TypeOK
<1> QED BY <1>2, <1>3, <1>4, <1>5, <1>6, <1>7 DEF Next, Handle

(* What HandlingEnds needs of the code besides a scheduler: no path through *)
(* _process_alert goes round for ever.  Each step uses up one of at most    *)
(* 2 * max_retries + 18 calls, so a task holds the semaphore for no more.   *)
THEOREM CallsBounded ==
    Spec => /\ [](CallsLeft \in 0 .. (2 * MaxRetries + 18))
            /\ [][CallsLeft' < CallsLeft]_vars
<1>1. IInv /\ [Next]_vars => [CallsLeft' < CallsLeft]_vars
  BY StepUsesCall
<1> QED
  BY <1>1, Invariance, CallsLeftRange, PTL DEF Spec

-----------------------------------------------------------------------------
(* With the foreign keys of models.py and of the migration.                 *)

(* Nothing is ever done for any alert: the first INSERT fails.              *)
Rejected ==
    /\ step \in {"insert", "failed", "stopped"}
    /\ row = NoRow /\ ~memory
    /\ made = {} /\ held = {} /\ ~branch

(* FailureHasIncident is not refuted by a rare schedule: while the database *)
(* enforces incidents.table_id no alert ever gets an incident.              *)
THEOREM TableKeyRejectsAll ==
    ASSUME "incidents.table_id" \in Enforced
    PROVE  Spec => []Rejected
<1>1. Init => Rejected
  BY DEF Init, Rejected
<1>2. Rejected /\ [Next]_vars => Rejected'
  <2> SUFFICES ASSUME Rejected, [Next]_vars PROVE Rejected'
    OBVIOUS
  <2> USE DEF Rejected, LLMSteps, GitHubSteps, JiraSteps, Ended, database, github
  <2>1. CASE Persist
    BY <2>1 DEF Persist, Insert, InsertError, Open, CommitError, NoEffect, Raise
  <2>2. CASE Stop
    BY <2>2 DEF Stop, PerhapsEffect, Effect, NoEffect, CloseSession
  <2>3. ~Complete
    BY DEF Complete, Analyse, Generate, LLMError, LLMGiveUp, LLMRaise
  <2>4. ~CreatePR
    BY DEF CreatePR, GetBase, CreateBranch, RefuseBranch, CommitFile, OpenPull, AskReviewers,
       AddLabels, GitHubError, GitHubCall
  <2>5. ~Notify
    BY DEF Notify, FormatError, CreateTicket, TicketError, AddRemoteLink, Announce,
       SlackRefuses, SlackUnreachable
  <2>6. ~Record
    BY DEF Record, StoreMemory, MemoryError, UpdateRca, UpdateExternalRefs, UpdateError,
       Advance
  <2>7. CASE UNCHANGED vars
    BY <2>7 DEF vars
  <2> QED BY <2>1, <2>2, <2>3, <2>4, <2>5, <2>6, <2>7 DEF Next, Handle
<1> QED BY <1>1, <1>2, PTL DEF Spec

(* The memory is never stored, which breaks the session of the update after *)
(* it: the row stays as it was opened, whatever was made for the incident.  *)
Unwritten ==
    /\ row \in {NoRow, OpenRow}
    /\ ~memory
    /\ step # "processed"

(* The second session never gets past its first use after the failed flush. *)
BrokenSession ==
    /\ Unwritten
    /\ step \in (Steps \cup Ended) \ {"update_refs", "advance"}
    /\ step = "update_rca" => session = "broken"
    /\ step \in Steps => pending \in {NoRow, OpenRow} /\ ~noted

(* OutcomesWritten is not refuted by a rare schedule either: while the      *)
(* database enforces incident_memories.incident_id no analysis and no       *)
(* reference is ever written, and no alert counts as processed.             *)
THEOREM MemoryKeyLosesAll ==
    ASSUME "incident_memories.incident_id" \in Enforced
    PROVE  Spec => []Unwritten
<1> USE DEF Steps, LLMSteps, GitHubSteps, JiraSteps, DBSteps, Ended, database, github, txn
<1>1. Init => BrokenSession
  BY DEF Init, BrokenSession, Unwritten
<1>2. BrokenSession /\ [Next]_vars => BrokenSession'
  <2> SUFFICES ASSUME BrokenSession, [Next]_vars PROVE BrokenSession'
    OBVIOUS
  <2> USE DEF BrokenSession, Unwritten
  <2>0. step \in Steps /\ PerhapsEffect => row' \in {NoRow, OpenRow} /\ ~memory'
    <3> SUFFICES ASSUME step \in Steps, PerhapsEffect
                 PROVE  row' \in {NoRow, OpenRow} /\ ~memory'
      OBVIOUS
    <3>1. row' \in {row, pending} /\ (memory' = memory \/ memory' = (memory \/ noted))
      BY DEF PerhapsEffect, Effect, Makes, NoEffect
    <3>2. ~memory /\ ~noted
      OBVIOUS
    <3>3. ~memory'
      BY <3>1, <3>2, Zenon
    <3> QED BY <3>1, <3>3
  <2>1. CASE Persist
    <3>1. CASE Insert \/ InsertError
      BY <3>1 DEF Insert, InsertError, NoEffect, Raise, CloseSession, OpenRow
    <3>2. CASE Open
      BY <3>2 DEF Open, Effect
    <3>3. CASE CommitError
      <4>1. row' \in {NoRow, OpenRow} /\ ~memory'
        BY <2>0, <3>3 DEF CommitError
      <4> QED BY <3>3, <4>1 DEF CommitError, Raise, CloseSession
    <3> QED BY <2>1, <3>1, <3>2, <3>3 DEF Persist
  <2>2. CASE Complete
    BY <2>2 DEF Complete, Analyse, Generate, LLMError, LLMGiveUp, LLMRaise, NoEffect,
       Raise, CloseSession
  <2>3. CASE CreatePR
    BY <2>3 DEF CreatePR, GetBase, CreateBranch, RefuseBranch, CommitFile, OpenPull, AskReviewers,
       AddLabels, GitHubError, GitHubCall, AfterPull, PerhapsEffect, Effect, Makes, NoEffect
  <2>4. CASE Notify
    BY <2>4 DEF Notify, FormatError, CreateTicket, TicketError, AddRemoteLink, Announce,
       SlackRefuses, SlackUnreachable, PerhapsEffect, Effect, Makes, NoEffect, Raise,
       CloseSession
  <2>5. CASE Record
    BY <2>5 DEF Record, StoreMemory, MemoryError, UpdateRca, UpdateExternalRefs,
       UpdateError, Advance, NoEffect, Raise, CloseSession
  <2>6. CASE Stop
    <3>1. row' \in {NoRow, OpenRow} /\ ~memory'
      BY <2>0, <2>6 DEF Stop
    <3> QED BY <2>6, <3>1 DEF Stop, CloseSession
  <2>7. CASE UNCHANGED vars
    BY <2>7 DEF vars
  <2> QED BY <2>1, <2>2, <2>3, <2>4, <2>5, <2>6, <2>7 DEF Next, Handle
<1>3. BrokenSession => Unwritten
  BY DEF BrokenSession
<1> QED BY <1>1, <1>2, <1>3, PTL DEF Spec
=============================================================================
