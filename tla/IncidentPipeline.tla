-------------------------- MODULE IncidentPipeline --------------------------
(***************************************************************************)
(* The handling of one alert by a task of the worker, from the moment it    *)
(* holds the semaphore to its end: _process_alert in                       *)
(* src/src/agents/alert_processor.py, handle_alert in langchain_agent.py,   *)
(* the GitHub, Jira and Slack clients and the incident repositories.        *)
(*                                                                         *)
(* The tasks of two alerts share neither a database session nor a branch,   *)
(* a ticket or a message, so one task is modelled.  Each step is one call   *)
(* to a service.  A call that fails may have done its work: only the reply  *)
(* is known to be missing.                                                 *)
(***************************************************************************)
EXTENDS Naturals, FiniteSets

CONSTANTS
    MaxRetries,      \* settings.llm.max_retries
    RequireApproval, \* settings.github.require_approval
    HasReviewers,    \* settings.github.pr_reviewers is not empty
    Enforced,        \* foreign keys the database enforces
    Events           \* what may go wrong

ForeignKeys == {"incidents.table_id", "incident_memories.incident_id"}

EventKinds ==
    {"llm_error", "odd_reply", "github_error", "jira_error", "slack_error", "db_error",
     "stop"}

ASSUME IncidentPipelineAssumption ==
    /\ MaxRetries \in Nat
    /\ RequireApproval \in BOOLEAN
    /\ HasReviewers \in BOOLEAN
    /\ Enforced \subseteq ForeignKeys
    /\ Events \subseteq EventKinds

VARIABLES
    step,     \* the call the task makes next, or how it ended
    attempt,  \* calls of the present LLM completion that have failed
    rca,      \* the root cause analysis: NoText until there is one
    fix,      \* the fix: whether it has model SQL
    planned,  \* the number of files the fix consists of
    held,     \* references the service clients have returned to the task
    branch,   \* GitHub: the branch of the fix exists
    commits,  \* GitHub: files committed to it
    made,     \* artefacts that exist: the pull request, ticket, message
    draft,    \* GitHub: the pull request is a draft
    session,  \* the SQLAlchemy session in use: "idle", "active", "broken"
    pending,  \* the row of the incident as the open transaction sees it
    row,      \* the row of the incident, committed
    noted,    \* the open transaction holds the row of incident_memories
    memory    \* the row of incident_memories is committed

github   == <<branch, commits, draft>>
database == <<row, memory>>
txn      == <<session, pending, noted>>
reply    == <<attempt, rca, fix, planned>>
vars     == <<step, reply, held, github, made, txn, database>>

-----------------------------------------------------------------------------
Refs == {"pull", "ticket", "message"}

NoRow == [status |-> "none", rca |-> "none", fix |-> "none", refs |-> {}]

LLMSteps    == {"analyse", "generate"}
GitHubSteps == {"base", "branch", "files", "pull", "reviewers", "labels"}
JiraSteps   == {"ticket", "link"}
DBSteps     == {"insert", "open", "memory", "update_rca", "update_refs", "advance"}
Steps       == LLMSteps \cup GitHubSteps \cup JiraSteps \cup {"announce"} \cup DBSteps
Ended       == {"processed", "failed", "stopped"}

Init ==
    /\ step = "insert"
    /\ attempt = 0
    /\ rca = "none" /\ fix = "none" /\ planned = 0
    /\ held = {} /\ made = {}
    /\ branch = FALSE /\ commits = 0 /\ draft = FALSE
    /\ session = "idle" /\ pending = NoRow /\ noted = FALSE
    /\ row = NoRow /\ memory = FALSE

(* An exception leaves _process_alert: async with closes the session, which *)
(* rolls its transaction back.                                             *)
CloseSession ==
    /\ session' = "idle"
    /\ pending' = row'
    /\ noted' = FALSE

Raise ==
    /\ step' = "failed"
    /\ CloseSession
    /\ UNCHANGED <<reply, held>>

-----------------------------------------------------------------------------
(* What the call of the present step changes at its service.               *)

Makes(ref) == made' = made \cup {ref} /\ UNCHANGED <<github, database>>

Effect ==
    \/ /\ step = "branch"
       /\ branch' = TRUE
       /\ UNCHANGED <<commits, draft, made, database>>
    \/ /\ step = "files"
       /\ branch
       /\ commits' = commits + 1
       /\ UNCHANGED <<branch, draft, made, database>>
    \/ /\ step = "pull"
       /\ draft' = RequireApproval
       /\ made' = made \cup {"pull"}
       /\ UNCHANGED <<branch, commits, database>>
    \/ step = "ticket" /\ Makes("ticket")
    \/ step = "announce" /\ Makes("message")
    \/ /\ step \in {"open", "advance"}
       /\ row' = pending
       /\ memory' = (memory \/ noted)
       /\ UNCHANGED <<github, made>>

NoEffect == UNCHANGED <<github, made, database>>

PerhapsEffect == Effect \/ NoEffect

-----------------------------------------------------------------------------
(* The first session: create the incident and commit, lines 350-391.       *)

(* flush() sends the INSERT; table_id is a fresh uuid4.                     *)
Insert ==
    /\ step = "insert"
    /\ "incidents.table_id" \notin Enforced
    /\ pending' = [NoRow EXCEPT !.status = "open"]
    /\ session' = "active"
    /\ step' = "open"
    /\ NoEffect
    /\ UNCHANGED <<reply, held, noted>>

InsertError ==
    /\ step = "insert"
    /\ "incidents.table_id" \in Enforced \/ "db_error" \in Events
    /\ NoEffect
    /\ Raise

(* Mutant of Open: the session is left without a commit.                   *)
OpenWithoutCommit ==
    /\ step = "open"
    /\ NoEffect
    /\ CloseSession
    /\ step' = "analyse"
    /\ UNCHANGED <<reply, held>>

Open ==
    /\ step = "open"
    /\ Effect
    /\ session' = "idle"
    /\ step' = "analyse"
    /\ UNCHANGED <<reply, held, pending, noted>>

(* Mutant of CommitError: the error is swallowed.                          *)
CommitErrorSwallowed ==
    /\ step \in {"open", "advance"}
    /\ "db_error" \in Events
    /\ NoEffect
    /\ CloseSession
    /\ step' = IF step = "open" THEN "analyse" ELSE "processed"
    /\ UNCHANGED <<reply, held>>

CommitError ==
    /\ step \in {"open", "advance"}
    /\ "db_error" \in Events
    /\ PerhapsEffect
    /\ Raise

-----------------------------------------------------------------------------
(* The completions, langchain_agent.py lines 148-426.                      *)

(* Replies of the model: a JSON object as asked for, one with null lists,   *)
(* or text that does not parse and is used as it is.                       *)
Analyse ==
    /\ step = "analyse"
    /\ attempt < MaxRetries
    /\ rca' \in {"object", "text"} \cup (IF "odd_reply" \in Events THEN {"gaps"} ELSE {})
    /\ attempt' = 0
    /\ step' = "generate"
    /\ NoEffect
    /\ UNCHANGED <<fix, planned, held, txn>>

(* _prepare_files makes a file of the incident and one of each non-empty    *)
(* part of the fix: model SQL, test YAML and rollback SQL.                  *)
FileCounts(kind) == IF kind = "sql" THEN 2..4 ELSE 1..3

(* When the reply is not JSON the reply itself is the model SQL.           *)
Generate ==
    /\ step = "generate"
    /\ attempt < MaxRetries
    /\ fix' \in {"sql", "no_sql"}
    /\ planned' \in FileCounts(fix')
    /\ attempt' = 0
    /\ step' = "base"
    /\ NoEffect
    /\ UNCHANGED <<rca, held, txn>>

(* Mutant of LLMError: the count starts again before it reaches the limit.  *)
LLMErrorForever ==
    /\ "llm_error" \in Events
    /\ step \in LLMSteps
    /\ attempt' = (attempt + 1) % MaxRetries
    /\ NoEffect
    /\ UNCHANGED <<step, rca, fix, planned, held, txn>>

(* Mutant of LLMError: one attempt too many.                               *)
LLMErrorOnceMore ==
    /\ "llm_error" \in Events
    /\ step \in LLMSteps
    /\ attempt <= MaxRetries
    /\ attempt' = attempt + 1
    /\ NoEffect
    /\ UNCHANGED <<step, rca, fix, planned, held, txn>>

(* RateLimitError or APIError: sleep and go round the loop.                *)
LLMError ==
    /\ "llm_error" \in Events
    /\ step \in LLMSteps
    /\ attempt < MaxRetries
    /\ attempt' = attempt + 1
    /\ NoEffect
    /\ UNCHANGED <<step, rca, fix, planned, held, txn>>

LLMGiveUp ==
    /\ step \in LLMSteps
    /\ attempt = MaxRetries
    /\ NoEffect
    /\ Raise

(* The reply is valid JSON but no object, or an error of another class.     *)
LLMRaise ==
    /\ "odd_reply" \in Events
    /\ step \in LLMSteps
    /\ attempt < MaxRetries
    /\ NoEffect
    /\ Raise

-----------------------------------------------------------------------------
(* create_fix_pr, github_client.py lines 62-177.                           *)

AfterPull   == IF HasReviewers THEN "reviewers" ELSE "labels"

GitHubCall(from, to) ==
    /\ step = from
    /\ step' = to
    /\ UNCHANGED <<reply, held, txn>>

(* Mutant of CommitFile: the last file is not committed.                   *)
CommitAllButOne ==
    GitHubCall("files", IF commits + 2 >= planned THEN "pull" ELSE "files") /\ Effect

GetBase      == GitHubCall("base", "branch") /\ NoEffect
CreateBranch == GitHubCall("branch", "files") /\ Effect

(* Every 422 passes for "already exists": there may be no such branch.      *)
RefuseBranch ==
    /\ "github_error" \in Events
    /\ GitHubCall("branch", "files")
    /\ NoEffect

CommitFile   == GitHubCall("files", IF commits + 1 = planned THEN "pull" ELSE "files") /\ Effect
OpenPull     == GitHubCall("pull", AfterPull) /\ Effect
AskReviewers == GitHubCall("reviewers", "labels") /\ NoEffect

(* The result with the URL and number of the pull request is returned only  *)
(* here.                                                                   *)
AddLabels ==
    /\ step = "labels"
    /\ step' = "ticket"
    /\ held' = held \cup {"pull"}
    /\ NoEffect
    /\ UNCHANGED <<reply, txn>>

(* Any exception on the way: the result is empty.                          *)
GitHubError ==
    /\ "github_error" \in Events
    /\ step \in GitHubSteps
    /\ step' = "ticket"
    /\ PerhapsEffect
    /\ UNCHANGED <<reply, held, txn>>

-----------------------------------------------------------------------------
(* create_incident_ticket and post_incident_alert, notifications.py.       *)

(* The description of the ticket is formatted outside the client's try.     *)
FormatError ==
    /\ step = "ticket"
    /\ rca = "gaps"
    /\ NoEffect
    /\ Raise

CreateTicket ==
    /\ step = "ticket"
    /\ rca # "gaps"
    /\ Effect
    /\ held' = held \cup {"ticket"}
    /\ step' = IF "pull" \in held THEN "link" ELSE "announce"
    /\ UNCHANGED <<reply, txn>>

(* Mutant of TicketError: a key is returned for a ticket that may not exist. *)
TicketErrorGuessed ==
    /\ "jira_error" \in Events
    /\ step = "ticket"
    /\ rca # "gaps"
    /\ step' = "announce"
    /\ held' = held \cup {"ticket"}
    /\ PerhapsEffect
    /\ UNCHANGED <<reply, txn>>

TicketError ==
    /\ "jira_error" \in Events
    /\ step = "ticket"
    /\ rca # "gaps"
    /\ step' = "announce"
    /\ PerhapsEffect
    /\ UNCHANGED <<reply, held, txn>>

(* Whatever happens to the remote link, the ticket's key is returned.       *)
AddRemoteLink ==
    /\ step = "link"
    /\ step' = "announce"
    /\ NoEffect
    /\ UNCHANGED <<reply, held, txn>>

Announce ==
    /\ step = "announce"
    /\ Effect
    /\ held' = held \cup {"message"}
    /\ step' = "memory"
    /\ UNCHANGED <<reply, txn>>

(* SlackApiError: Slack answered that it did not post.                     *)
SlackRefuses ==
    /\ "slack_error" \in Events
    /\ step = "announce"
    /\ step' = "memory"
    /\ NoEffect
    /\ UNCHANGED <<reply, held, txn>>

(* Connection errors and time-outs are not caught.                         *)
SlackUnreachable ==
    /\ "slack_error" \in Events
    /\ step = "announce"
    /\ PerhapsEffect
    /\ Raise

-----------------------------------------------------------------------------
(* The second session, lines 398-437.                                      *)

(* flush() of the memory.  Its incident_id is the agent's own uuid4, not    *)
(* the id of the incident.                                                 *)
StoreMemory ==
    /\ step = "memory"
    /\ "incident_memories.incident_id" \notin Enforced
    /\ noted' = TRUE
    /\ session' = "active"
    /\ step' = "update_rca"
    /\ NoEffect
    /\ UNCHANGED <<reply, held, pending>>

(* The error is logged and swallowed, but the session it happened in must   *)
(* be rolled back before it can be used again.                             *)
MemoryError ==
    /\ step = "memory"
    /\ "incident_memories.incident_id" \in Enforced \/ "db_error" \in Events
    /\ session' = "broken"
    /\ step' = "update_rca"
    /\ NoEffect
    /\ UNCHANGED <<reply, held, pending, noted>>

(* Mutant of UpdateRca: the status is not updated.                         *)
UpdateRcaOnly ==
    /\ step = "update_rca"
    /\ session # "broken"
    /\ pending' = [pending EXCEPT !.rca = rca, !.fix = fix]
    /\ session' = "active"
    /\ step' = "update_refs"
    /\ NoEffect
    /\ UNCHANGED <<reply, held, noted>>

UpdateRca ==
    /\ step = "update_rca"
    /\ session # "broken"
    /\ pending' = [pending EXCEPT !.rca = rca, !.fix = fix, !.status = "in_progress"]
    /\ session' = "active"
    /\ step' = "update_refs"
    /\ NoEffect
    /\ UNCHANGED <<reply, held, noted>>

(* Only references that are not empty are written.                         *)
UpdateExternalRefs ==
    /\ step = "update_refs"
    /\ pending' = [pending EXCEPT !.refs = @ \cup held]
    /\ step' = "advance"
    /\ NoEffect
    /\ UNCHANGED <<reply, held, session, noted>>

UpdateError ==
    /\ \/ step = "update_rca" /\ session = "broken"
       \/ step = "update_rca" /\ "db_error" \in Events
       \/ step = "update_refs" /\ "db_error" \in Events /\ held # {}
    /\ NoEffect
    /\ Raise

(* Mutant of Advance: the session is left without a commit.                *)
AdvanceWithoutCommit ==
    /\ step = "advance"
    /\ NoEffect
    /\ CloseSession
    /\ step' = "processed"
    /\ UNCHANGED <<reply, held>>

Advance ==
    /\ step = "advance"
    /\ Effect
    /\ CloseSession
    /\ step' = "processed"
    /\ UNCHANGED <<reply, held>>

(* The process crashes, or asyncio.run cancels the task: the call under way *)
(* may still be executed by its service.                                   *)
Stop ==
    /\ "stop" \in Events
    /\ step \notin Ended
    /\ step' = "stopped"
    /\ PerhapsEffect
    /\ CloseSession
    /\ UNCHANGED <<reply, held>>

-----------------------------------------------------------------------------
Persist    == Insert \/ InsertError \/ Open \/ CommitError
Complete   == Analyse \/ Generate \/ LLMError \/ LLMGiveUp \/ LLMRaise
CreatePR   == GetBase \/ CreateBranch \/ RefuseBranch \/ CommitFile \/ OpenPull
              \/ AskReviewers \/ AddLabels \/ GitHubError
Notify     == FormatError \/ CreateTicket \/ TicketError \/ AddRemoteLink \/ Announce
              \/ SlackRefuses \/ SlackUnreachable
Record     == StoreMemory \/ MemoryError \/ UpdateRca \/ UpdateExternalRefs \/ UpdateError
              \/ Advance
Handle     == Persist \/ Complete \/ CreatePR \/ Notify \/ Record

Next == Handle \/ Stop

Spec == Init /\ [][Next]_vars

(* Every call returns, raises or times out, so the task takes another step. *)
FairSpec == Spec /\ WF_vars(Handle)

-----------------------------------------------------------------------------
(* Properties.                                                             *)

Rows == [status : {"none", "open", "in_progress"},
         rca : {"none", "object", "gaps", "text"},
         fix : {"none", "sql", "no_sql"},
         refs : SUBSET Refs]

(* Every variable has the type the code gives it; no completion makes more  *)
(* calls than max_retries, and no more files are committed than planned.    *)
TypeOK ==
    /\ step \in Steps \cup Ended
    /\ attempt \in 0..MaxRetries
    /\ rca \in {"none", "object", "gaps", "text"}
    /\ fix \in {"none", "sql", "no_sql"}
    /\ planned \in 0..4
    /\ held \subseteq Refs /\ made \subseteq Refs
    /\ branch \in BOOLEAN /\ commits \in 0..planned /\ draft \in BOOLEAN
    /\ session \in {"idle", "active", "broken"}
    /\ pending \in Rows /\ row \in Rows
    /\ noted \in BOOLEAN /\ memory \in BOOLEAN

(* The incident in the database is never half of one: analysis, status,     *)
(* references and memory arrive in the one commit of the second session,    *)
(* however the calls before and after it fail.                             *)
RowAtomic ==
    /\ row.status = "in_progress" <=> row.rca # "none"
    /\ row.rca # "none" <=> row.fix # "none"
    /\ row.refs # {} \/ memory => row.status = "in_progress"

(* The database refers to nothing that does not exist: a reference is       *)
(* recorded only if the service did create the artefact, also when its      *)
(* client had to guess from an error.                                      *)
RefsReal == held \subseteq made /\ row.refs \subseteq held

(* No pull request, ticket or message is ever made for an alert that has no *)
(* incident in the database, whenever the worker stops.                    *)
ArtefactsHaveIncident == made # {} \/ branch => row.status # "none"

(* A reviewer never sees a pull request with part of the fix: when it is    *)
(* opened every file of the fix is on its branch, though the files are      *)
(* committed one by one and any call may fail.                             *)
PullComplete == "pull" \in made => branch /\ planned > 0 /\ commits = planned

(* When the worker counts an alert as processed, the incident carries the   *)
(* analysis, the fix and every reference the services returned, and the     *)
(* memory is stored: no failure on the way is mistaken for success.         *)
ProcessedMeansStored ==
    step = "processed" =>
        /\ row = [status |-> "in_progress", rca |-> rca, fix |-> fix, refs |-> held]
        /\ memory

(* The row goes through the states of IncidentRecord only.                 *)
Verdict ==
    IF step \in {"processed", "failed"} THEN step ELSE "pending"

IncidentLog == INSTANCE IncidentRecord
    WITH status <- row.status, refs <- row.refs, verdict <- Verdict

RecordSpec == IncidentLog!Spec

(* The handling of an alert ends, so its task gives the semaphore back:     *)
(* AlertWorker assumes it of every task.                                   *)
HandlingEnds == <>(step \in Ended)

(* An alert whose handling failed has an incident: step 1 of _process_alert *)
(* is to persist one (docstring, line 346).                                *)
FailureHasIncident == step = "failed" => row.status # "none"

(* All outcomes are written to PostgreSQL (module docstring, line 9).       *)
OutcomesWritten == step \in {"processed", "failed"} => made \subseteq row.refs
=============================================================================
