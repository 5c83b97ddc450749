----------------------------- MODULE ImportJob ------------------------------
(***************************************************************************)
(* Importing a recipe from a URL: the import page (RecipeImport in         *)
(* screens/recipes.tsx and its status panel) starts a job, the server runs *)
(* it in the background (service/recipe.go), and the page polls it.        *)
(***************************************************************************)
EXTENDS Integers, Sequences

CONSTANT MaxJobs \* bound on presses of the Import button

VARIABLES jobs,    \* recipe_import_jobs and the goroutine of each
          form,    \* a URL is typed, jobId, startError
          starts,  \* calls of startJob.mutate, in order
          polled   \* what useImportJob last answered for jobId, "none" before

jobVars == <<jobs, form, starts, polled>>

Statuses == {"running", "succeeded", "failed"}

JobTypeOK ==
    /\ \A j \in DOMAIN jobs : jobs[j] \in [status : Statuses, recipe : BOOLEAN,
                                           work : {"scrape", "mark", "markFailed", "over", "killed"}, ctx : {"live", "expired"}]
    /\ form \in [url : BOOLEAN, jobId : 0..Len(jobs), failed : BOOLEAN]
    /\ \A k \in DOMAIN starts : starts[k] \in [at : {"sent", "done", "lost", "over", "failed"}, job : 0..Len(jobs)]
    /\ Len(starts) <= MaxJobs
    /\ polled \in {"none"} \cup Statuses

JobInit ==
    /\ jobs = <<>>
    /\ form = [url |-> FALSE, jobId |-> 0, failed |-> FALSE]
    /\ starts = <<>> /\ polled = "none"

-----------------------------------------------------------------------------
(* The server.                                                             *)

\* The row is inserted as running, and the goroutine starts.
StartImportJob(k) ==
    /\ starts[k].at = "sent"
    /\ \/ /\ jobs' = Append(jobs, [status |-> "running", recipe |-> FALSE, work |-> "scrape", ctx |-> "live"])
          /\ \E at \in {"done", "lost"} : starts' = [starts EXCEPT ![k].at = at, ![k].job = Len(jobs) + 1]
       \/ starts' = [starts EXCEPT ![k].at = "lost"] /\ UNCHANGED jobs
    /\ UNCHANGED <<form, polled>>

\* The 90 seconds are over: whatever the job does next with this context fails.
ContextExpires(j) ==
    /\ jobs[j].work \notin {"over", "killed"} /\ jobs[j].ctx = "live"
    /\ jobs' = [jobs EXCEPT ![j].ctx = "expired"]
    /\ UNCHANGED <<form, starts, polled>>

\* The recipe is saved, or an error comes back.
scrapeAndPersist(j) ==
    /\ jobs[j].work = "scrape"
    /\ \/ jobs[j].ctx = "live" /\ jobs' = [jobs EXCEPT ![j].work = "mark", ![j].recipe = TRUE]
       \/ jobs' = [jobs EXCEPT ![j].work = "markFailed"]
    /\ UNCHANGED <<form, starts, polled>>

\* Mutant: a failed scrape is marked as succeeded.
runImportJobIgnoresError(j) ==
    /\ jobs[j].work \in {"mark", "markFailed"}
    /\ jobs' = [jobs EXCEPT ![j].work = "over", ![j].status = IF jobs[j].ctx = "expired" THEN @ ELSE "succeeded"]
    /\ UNCHANGED <<form, starts, polled>>

\* Marked with the job's own context; an error of the update is only logged.
runImportJob(j) ==
    /\ jobs[j].work \in {"mark", "markFailed"}
    /\ jobs' = [jobs EXCEPT ![j].work = "over",
                            ![j].status = IF jobs[j].ctx = "expired" THEN @
                                          ELSE IF jobs[j].work = "mark" THEN "succeeded" ELSE "failed"]
    /\ UNCHANGED <<form, starts, polled>>

\* A restart ends the goroutines, not the rows.
Restart ==
    /\ \E j \in DOMAIN jobs : jobs[j].work \notin {"over", "killed"}
    /\ jobs' = [j \in DOMAIN jobs |-> [jobs[j] EXCEPT !.work = IF @ = "over" THEN @ ELSE "killed"]]
    /\ UNCHANGED <<form, starts, polled>>

-----------------------------------------------------------------------------
(* The page.                                                               *)

setUrl ==
    /\ ~form.url /\ form' = [form EXCEPT !.url = TRUE]
    /\ UNCHANGED <<jobs, starts, polled>>

\* The button stays enabled while a job runs.
handleImport ==
    /\ form.url /\ Len(starts) < MaxJobs
    /\ form' = [form EXCEPT !.jobId = 0, !.failed = FALSE]
    /\ polled' = "none"
    /\ starts' = Append(starts, [at |-> "sent", job |-> 0])
    /\ UNCHANGED jobs

\* The callbacks of mutate run for its latest call only.
Answers(k) == starts[k].at \in {"done", "lost"}
startJobAnswered(k) ==
    /\ Answers(k)
    /\ starts' = [starts EXCEPT ![k].at = IF @ = "done" THEN "over" ELSE "failed"]
    /\ form' = IF k < Len(starts) THEN form
               ELSE IF starts[k].at = "done" THEN [form EXCEPT !.jobId = starts[k].job, !.url = FALSE]
               ELSE [form EXCEPT !.failed = TRUE]
    /\ UNCHANGED <<jobs, polled>>

Terminal == {"succeeded", "failed"}

\* Mutant: one poll only.
useImportJobGivesUp ==
    /\ form.jobId # 0 /\ polled = "none"
    /\ polled' = jobs[form.jobId].status
    /\ UNCHANGED <<jobs, form, starts>>

\* Polling stops at a terminal status; a failed poll keeps the last answer.
useImportJob ==
    /\ form.jobId # 0 /\ polled \notin Terminal
    /\ polled' = jobs[form.jobId].status
    /\ UNCHANGED <<jobs, form, starts>>

\* The panel shows the polled job, else the one startJob answered with.
liveJob ==
    IF form.jobId # 0 /\ polled # "none" THEN polled
    ELSE IF starts # <<>> /\ starts[Len(starts)].at = "over" THEN "running" ELSE "none"
ImportStatusPanel == [spinner |-> liveJob = "running", link |-> liveJob = "succeeded", error |-> liveJob = "failed"]

JobWork(j) == scrapeAndPersist(j) \/ runImportJob(j)
JobNext ==
    \/ setUrl \/ handleImport \/ useImportJob \/ Restart
    \/ \E k \in DOMAIN starts : StartImportJob(k) \/ startJobAnswered(k)
    \/ \E j \in DOMAIN jobs : JobWork(j) \/ ContextExpires(j)

JobStep(j) == j \in DOMAIN jobs /\ JobWork(j)
\* The scraper's call is bounded by the context, the page polls every 2 seconds.
JobFairness == WF_jobVars(useImportJob) /\ \A j \in 1..MaxJobs : WF_jobVars(JobStep(j))
-----------------------------------------------------------------------------
\* The panel is about the import the user asked for last, however many were
\* started and in whatever order they were answered.
PanelIsLatest == form.jobId # 0 => starts[Len(starts)].job = form.jobId

\* "Open the new recipe" opens one: a success on the panel has its recipe saved.
LinkOpens == ImportStatusPanel.link => jobs[form.jobId].recipe

\* A job that ended in the table is shown as ended: polling goes on until then.
EndedIsShown ==
    \A j \in 1..MaxJobs :
        (form.jobId = j /\ jobs[j].status \in Terminal) ~> (form.jobId # j \/ ~ImportStatusPanel.spinner)
=============================================================================
