-------------------------- MODULE ArchiveJobQueue --------------------------
(***************************************************************************)
(* The archive import jobs (services/archive_jobs.py): an analyst's export *)
(* is staged in object storage, a job row queued, and a worker imports it, *)
(* lands the row, deletes the staged zip and mails the outcome, in that    *)
(* order and never in one transaction.  While a worker lives its heartbeat *)
(* keeps the row from going stale; once it is dead another run starts.     *)
(***************************************************************************)
EXTENDS Integers, Sequences, FiniteSets

CONSTANTS
    Jobs,
    Analysts,
    Owner,         \* job -> the analyst who uploaded it
    Zip,           \* job -> "good" or "bad", a staged object the import refuses
    JobWorkers,
    MaxRuns,       \* MAX_ATTEMPTS
    MaxKills,      \* bound on the crashes explored
    NoJob

ASSUME JobAssumption ==
    /\ Owner \in [Jobs -> Analysts]
    /\ Zip \in [Jobs -> {"good", "bad"}]
    /\ MaxRuns \in Nat \ {0}
    /\ MaxKills \in Nat
    /\ NoJob \notin Jobs

VARIABLES
    job,        \* job -> its archive_import_jobs row
    queue,      \* the jobs in the order of created_at
    overdue,    \* the rows running past STALE_RUNNING_AFTER without a heartbeat
    account,    \* analyst -> "live", "unlinked" from the X handle, or "gone"
    staged,     \* the jobs whose zip is in storage
    imported,   \* the jobs whose every row is in the database
    mails,      \* job -> the outcome emails sent, oldest first
    runner,     \* worker -> what it is doing
    kills

jobVars == <<job, queue, overdue, account, staged, imported, mails, runner, kills>>

Mails == {"complete", "failed"}

\* "committed" and "swept" are the stations between the terminal commit and the email.
RunnerStates == [pc : {"down", "idle", "drain", "claimed", "importing", "over", "committed", "swept"},
                 holds : Jobs \cup {NoJob},
                 verdict : {"none", "done", "failed"},
                 mail : Mails \cup {"none"}]

At(pc, j, verdict, mail) == [pc |-> pc, holds |-> j, verdict |-> verdict, mail |-> mail]
Loose(pc) == At(pc, NoJob, "none", "none")

JobInit ==
    /\ job = [j \in Jobs |-> [status |-> "absent", runs |-> 0]]
    /\ queue = <<>>
    /\ overdue = {}
    /\ account = [u \in Analysts |-> "live"]
    /\ staged = {}
    /\ imported = {}
    /\ mails = [j \in Jobs |-> <<>>]
    /\ runner = [w \in JobWorkers |-> Loose("idle")]
    /\ kills = 0

-----------------------------------------------------------------------------
\* The browser stages the zip, then enqueues it: one key, one job.
EnqueueJob(j) ==
    /\ job[j].status = "absent"
    /\ account[Owner[j]] # "gone"
    /\ job' = [job EXCEPT ![j].status = "queued"]
    /\ queue' = Append(queue, j)
    /\ staged' = staged \cup {j}
    /\ UNCHANGED <<overdue, account, imported, mails, runner, kills>>

\* A ban, a self-deletion, or an admin unlinking the X handle, while jobs wait or run.
LoseAccount(u) ==
    /\ account[u] = "live"
    /\ \E what \in {"unlinked", "gone"} : account' = [account EXCEPT ![u] = what]
    /\ UNCHANGED <<job, queue, overdue, staged, imported, mails, runner, kills>>

BeginRun(w) ==
    /\ runner[w].pc = "idle"
    /\ runner' = [runner EXCEPT ![w] = Loose("drain")]
    /\ UNCHANGED <<job, queue, overdue, account, staged, imported, mails, kills>>

Runnable(j) == job[j].status = "queued" \/ (job[j].status = "running" /\ j \in overdue)

OldestRunnable(j) == \E i \in DOMAIN queue :
                       /\ queue[i] = j
                       /\ Runnable(j)
                       /\ \A k \in DOMAIN queue : k < i => ~Runnable(queue[k])

ClaimJob(w, j) ==
    /\ runner[w].pc = "drain"
    /\ OldestRunnable(j)
    /\ job[j].runs < MaxRuns
    /\ job' = [job EXCEPT ![j] = [status |-> "running", runs |-> @.runs + 1]]
    /\ overdue' = overdue \ {j}
    /\ runner' = [runner EXCEPT ![w] = At("claimed", j, "none", "none")]
    /\ UNCHANGED <<queue, account, staged, imported, mails, kills>>

FailureMail(j) == IF account[Owner[j]] = "gone" THEN "none" ELSE "failed"

\* The attempt budget is spent: claim_next lands the poison row itself.
BuryJob(w, j) ==
    /\ runner[w].pc = "drain"
    /\ OldestRunnable(j)
    /\ job[j].runs >= MaxRuns
    /\ job' = [job EXCEPT ![j].status = "failed"]
    /\ overdue' = overdue \ {j}
    /\ runner' = [runner EXCEPT ![w] = At("committed", j, "failed", FailureMail(j))]
    /\ UNCHANGED <<queue, account, staged, imported, mails, kills>>

EndRun(w) ==
    /\ runner[w].pc = "drain"
    /\ \A j \in Jobs : ~Runnable(j)
    /\ runner' = [runner EXCEPT ![w] = Loose("idle")]
    /\ UNCHANGED <<job, queue, overdue, account, staged, imported, mails, kills>>

\* The checks in front of the import: the owner's standing, then the staged object.
Check(w) ==
    LET j == runner[w].holds IN
    /\ runner[w].pc = "claimed"
    /\ runner' = [runner EXCEPT ![w] =
         IF account[Owner[j]] = "gone" THEN At("over", j, "failed", "none")
         ELSE IF account[Owner[j]] = "unlinked" \/ j \notin staged THEN At("over", j, "failed", "failed")
         ELSE At("importing", j, "none", "none")]
    /\ UNCHANGED <<job, queue, overdue, account, staged, imported, mails, kills>>

\* Mutant of Import: the staged zip is deleted with the temporary directory, before the landing.
ImportSweeping(w) ==
    LET j == runner[w].holds IN
    /\ runner[w].pc = "importing"
    /\ \/ /\ Zip[j] = "good" /\ j \in staged
          /\ imported' = imported \cup {j}
          /\ runner' = [runner EXCEPT ![w] = At("over", j, "done", "complete")]
       \/ /\ runner' = [runner EXCEPT ![w] = At("over", j, "failed", FailureMail(j))]
          /\ UNCHANGED imported
    /\ staged' = staged \ {j}
    /\ UNCHANGED <<job, queue, overdue, account, mails, kills>>

\* The backfill, each row in a transaction of its own: a rerun finds the rows the first run
\* wrote.  It ends, or raises at a zip it refuses or at anything else.
Import(w) ==
    LET j == runner[w].holds IN
    /\ runner[w].pc = "importing"
    /\ \/ /\ Zip[j] = "good" /\ j \in staged
          /\ imported' = imported \cup {j}
          /\ runner' = [runner EXCEPT ![w] = At("over", j, "done", "complete")]
       \/ /\ runner' = [runner EXCEPT ![w] = At("over", j, "failed", FailureMail(j))]
          /\ UNCHANGED imported
    /\ UNCHANGED <<job, queue, overdue, account, staged, mails, kills>>

\* _finish: the commit.
Conclude(w) ==
    LET j == runner[w].holds IN
    /\ runner[w].pc = "over"
    /\ job' = [job EXCEPT ![j].status = runner[w].verdict]
    /\ overdue' = overdue \ {j}
    /\ runner' = [runner EXCEPT ![w].pc = "committed"]
    /\ UNCHANGED <<queue, account, staged, imported, mails, kills>>

\* The commit fails: the row stays running, the pass or the worker's turn with it is over.
ConcludeFails(w) ==
    /\ runner[w].pc = "over"
    /\ runner' = [runner EXCEPT ![w] = Loose("idle")]
    /\ UNCHANGED <<job, queue, overdue, account, staged, imported, mails, kills>>

\* _finish, after its commit: the staged zip goes, best effort.
Sweep(w) ==
    LET j == runner[w].holds IN
    /\ runner[w].pc = "committed"
    /\ staged' \in {staged, staged \ {j}}
    /\ runner' = [runner EXCEPT ![w].pc = "swept"]
    /\ UNCHANGED <<job, queue, overdue, account, imported, mails, kills>>

\* Mutant of Mail and its run: the outcome is mailed as soon as the run is over, then landed.
MailEarly(w) ==
    LET j == runner[w].holds IN
    /\ runner[w].pc \in {"over", "swept"}
    /\ mails' = [mails EXCEPT ![j] = IF runner[w].mail = "none" THEN @
                                     ELSE Append(@, runner[w].mail)]
    /\ runner' = [runner EXCEPT ![w] = IF runner[w].pc = "over" THEN [@ EXCEPT !.mail = "none"]
                                       ELSE Loose("drain")]
    /\ UNCHANGED <<job, queue, overdue, account, staged, imported, kills>>

\* The outcome email, best effort.
Mail(w) ==
    LET j == runner[w].holds IN
    /\ runner[w].pc = "swept"
    /\ mails' \in {mails, IF runner[w].mail = "none" THEN mails
                          ELSE [mails EXCEPT ![j] = Append(@, runner[w].mail)]}
    /\ runner' = [runner EXCEPT ![w] = Loose("drain")]
    /\ UNCHANGED <<job, queue, overdue, account, staged, imported, kills>>
-----------------------------------------------------------------------------
Kill(w) ==
    /\ runner[w].pc # "down"
    /\ kills < MaxKills
    /\ kills' = kills + 1
    /\ runner' = [runner EXCEPT ![w] = Loose("down")]
    /\ UNCHANGED <<job, queue, overdue, account, staged, imported, mails>>

Reboot(w) ==
    /\ runner[w].pc = "down"
    /\ runner' = [runner EXCEPT ![w] = Loose("idle")]
    /\ UNCHANGED <<job, queue, overdue, account, staged, imported, mails, kills>>

\* Half an hour without a heartbeat: nobody alive is working on the job.
GoOverdue(j) ==
    /\ job[j].status = "running"
    /\ j \notin overdue
    /\ \A w \in JobWorkers : runner[w].holds # j
    /\ overdue' = overdue \cup {j}
    /\ UNCHANGED <<job, queue, account, staged, imported, mails, runner, kills>>

RunJobs(w) ==
    \/ BeginRun(w) \/ EndRun(w) \/ Check(w) \/ Import(w) \/ Conclude(w) \/ Sweep(w) \/ Mail(w)
    \/ \E j \in Jobs : ClaimJob(w, j) \/ BuryJob(w, j)

JobNext ==
    \/ \E w \in JobWorkers : RunJobs(w) \/ ConcludeFails(w) \/ Kill(w) \/ Reboot(w)
    \/ \E j \in Jobs : EnqueueJob(j) \/ GoOverdue(j)
    \/ \E u \in Analysts : LoseAccount(u)

JobSpec ==
    /\ JobInit
    /\ [][JobNext]_jobVars
    /\ \A w \in JobWorkers : WF_jobVars(RunJobs(w)) /\ WF_jobVars(Reboot(w))
    /\ \A j \in Jobs : WF_jobVars(GoOverdue(j))
-----------------------------------------------------------------------------
JobTypeOK ==
    /\ job \in [Jobs -> [status : {"absent", "queued", "running", "done", "failed"},
                         runs : 0 .. MaxRuns]]
    /\ queue \in Seq(Jobs)
    /\ overdue \subseteq Jobs
    /\ account \in [Analysts -> {"live", "unlinked", "gone"}]
    /\ staged \subseteq Jobs
    /\ imported \subseteq Jobs
    /\ mails \in [Jobs -> Seq(Mails)]
    /\ runner \in [JobWorkers -> RunnerStates]
    /\ kills \in Nat

\* The owner hears at most once, and hears what the row says; "done" means every row landed.
MailTellsTheVerdict ==
    \A j \in Jobs :
        /\ Len(mails[j]) <= 1
        /\ \A i \in DOMAIN mails[j] :
              job[j].status = IF mails[j][i] = "complete" THEN "done" ELSE "failed"
        /\ job[j].status = "done" => j \in imported

\* The zip outlives every run that may need it: no retry fails on an object the code deleted.
StagedWhileOpen ==
    \A j \in Jobs : job[j].status \in {"queued", "running"} => j \in staged

JobLedger ==
    [j \in Jobs |->
        CASE job[j].status = "absent" -> "new"
          [] job[j].status \in {"queued", "running"} -> "open"
          [] OTHER -> job[j].status]

Imports == INSTANCE WorkLedger WITH Items <- Jobs, Verdicts <- {"done", "failed"},
                                    ledger <- JobLedger

\* Every job queued ends, once and for good, though its worker may die with it.
JobsSettle == Imports!Spec
=============================================================================
