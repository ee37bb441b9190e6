---------------------------- MODULE MCWorkQueues ----------------------------
(***************************************************************************)
(* Instances of the three queues the import worker drains.  They share no  *)
(* table and no lock: a step of one changes nothing another one reads, so  *)
(* a behaviour of all three is one behaviour of each, and a run follows    *)
(* one of them at a time, the one named by focus.                          *)
(***************************************************************************)
EXTENDS MentionQueue, ArchiveJobQueue, DeliveryQueue, TLC

CONSTANTS a, b

VARIABLE focus

MCThread == a :> "coords" @@ b :> "malformed"
MCOwner == [j \in {a, b} |-> "ana"]
MCZip == a :> "good" @@ b :> "bad"
MCTo == [d \in {a, b} |-> "ana"]

vars == <<focus, mentionVars, jobVars, deliveryVars>>

Init ==
    /\ focus \in {"mentions", "jobs", "emails"}
    /\ MentionInit /\ JobInit /\ DeliveryInit

OfMentions(A) == focus = "mentions" /\ A /\ UNCHANGED <<focus, jobVars, deliveryVars>>
OfJobs(A) == focus = "jobs" /\ A /\ UNCHANGED <<focus, mentionVars, deliveryVars>>
OfEmails(A) == focus = "emails" /\ A /\ UNCHANGED <<focus, mentionVars, jobVars>>

Next == OfMentions(MentionNext) \/ OfJobs(JobNext) \/ OfEmails(DeliveryNext)

\* A worker that is alive keeps working, a dead one is started again, and time passes; the
\* webhook, the analysts and the crashes owe nothing.
Fairness ==
    /\ \A w \in MentionWorkers :
          /\ WF_vars(OfMentions(Work(w)))
          /\ WF_vars(OfMentions(RestartWorker(w)))
    /\ \A m \in Mentions : WF_vars(OfMentions(GoStale(m)))
    /\ \A w \in JobWorkers : WF_vars(OfJobs(RunJobs(w))) /\ WF_vars(OfJobs(Reboot(w)))
    /\ \A j \in Jobs : WF_vars(OfJobs(GoOverdue(j)))
    /\ \A w \in DeliveryWorkers : WF_vars(OfEmails(Send(w))) /\ WF_vars(OfEmails(Revive(w)))
    /\ WF_vars(OfEmails(Tick))

Spec == Init /\ [][Next]_vars /\ Fairness

\* Each queue implements the work ledger: whatever was handed in gets one verdict, and it comes,
\* however often a worker dies with the item in its hands (drain_mentions, run_once, drain).
QueuesSettle == MentionsSettle /\ JobsSettle /\ DeliveriesSettle
=============================================================================
