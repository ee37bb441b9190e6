---------------------------- MODULE MentionQueue ----------------------------
(***************************************************************************)
(* The bot's mention queue (services/bot.py): one row per post that tags   *)
(* the bot, claimed by a worker, run through the import pipeline, answered *)
(* in the thread and landed with its outcome.  Three commits and one post  *)
(* on X lie between the claim and the landing, and a worker can die        *)
(* between any two of them.                                                *)
(***************************************************************************)
EXTENDS Integers, Sequences, FiniteSets

CONSTANTS
    Mentions,      \* the posts that tag the bot
    Thread,        \* mention -> what its thread holds, one of ThreadKinds
    MentionWorkers,
    MaxAttempts,   \* _MAX_ATTEMPTS
    ReplyCap,      \* bot_max_replies_per_hour
    MaxCrashes,    \* bound on the crashes explored
    NoMention

\* "silent" is the bot's own post or a tag X's reply prefix carried over; "stranger" a tag by a
\* handle no live account is linked to; "malformed" a payload the worker cannot read back.
ThreadKinds == {"coords", "footage", "bare", "stranger", "silent", "malformed"}

ASSUME MentionAssumption ==
    /\ IsFiniteSet(Mentions)
    /\ Thread \in [Mentions -> ThreadKinds]
    /\ MaxAttempts \in Nat \ {0}
    /\ ReplyCap \in Nat
    /\ MaxCrashes \in Nat
    /\ NoMention \notin Mentions

VARIABLES
    mention,    \* mention -> its bot_mentions row
    arrivals,   \* the mentions in the order of created_at
    stale,      \* the rows running for longer than STALE_RUNNING_AFTER
    written,    \* the mentions whose thread has its row: a detection or an open request
    posted,     \* mention -> the replies X shows under it
    worker,     \* worker -> what it is doing
    crashes

mentionVars == <<mention, arrivals, stale, written, posted, worker, crashes>>

Outcomes == {"created", "requested", "updated", "skipped", "no_detection",
             "no_account", "silent", "failed"}
Texts == {"success", "update", "refusal"}

Rows == [status : {"absent", "queued", "running", "done", "failed"},
         attempts : 0 .. MaxAttempts,
         outcome : Outcomes \cup {"none"},
         reply : BOOLEAN]

\* pc: "down", "idle" between two passes, "drain" between two claims, then the stations of one
\* claimed mention.  text is the reply the verdict earned, spent the reply budget of the pass.
WorkerStates == [pc : {"down", "idle", "drain", "claimed", "landed", "answered"},
                 holds : Mentions \cup {NoMention},
                 verdict : Outcomes \cup {"none"},
                 text : Texts \cup {"none"},
                 reply : BOOLEAN,
                 spent : Nat]

Free(pc) == [pc |-> pc, holds |-> NoMention, verdict |-> "none", text |-> "none",
             reply |-> FALSE, spent |-> 0]

MentionInit ==
    /\ mention = [m \in Mentions |->
                    [status |-> "absent", attempts |-> 0, outcome |-> "none", reply |-> FALSE]]
    /\ arrivals = <<>>
    /\ stale = {}
    /\ written = {}
    /\ posted = [m \in Mentions |-> {}]
    /\ worker = [w \in MentionWorkers |-> Free("idle")]
    /\ crashes = 0

-----------------------------------------------------------------------------
\* The webhook and the hourly catch-up insert through one statement; a mention already in the
\* table, whichever path brought it, is left alone.
Enqueue(m) ==
    /\ mention[m].status = "absent"
    /\ mention' = [mention EXCEPT ![m].status = "queued"]
    /\ arrivals' = Append(arrivals, m)
    /\ UNCHANGED <<stale, written, posted, worker, crashes>>

\* GestureBudget.from_ledger: the pass starts from the replies the ledger remembers.
LedgeredReplies == {m \in Mentions : mention[m].reply}

BeginDrain(w) ==
    /\ worker[w].pc = "idle"
    /\ worker' = [worker EXCEPT ![w] = [Free("drain") EXCEPT
                                          !.spent = Cardinality(LedgeredReplies)]]
    /\ UNCHANGED <<mention, arrivals, stale, written, posted, crashes>>

\* Mutant of Claimable: a row left running by a dead worker is never claimed again.
ClaimableQueued(m) == mention[m].status = "queued"

Claimable(m) == mention[m].status = "queued" \/ (mention[m].status = "running" /\ m \in stale)

Oldest(m) == \E i \in DOMAIN arrivals :
                /\ arrivals[i] = m
                /\ Claimable(m)
                /\ \A j \in DOMAIN arrivals : j < i => ~Claimable(arrivals[j])

Claim(w, m) ==
    /\ worker[w].pc = "drain"
    /\ Oldest(m)
    /\ mention[m].attempts < MaxAttempts
    /\ mention' = [mention EXCEPT ![m].status = "running", ![m].attempts = @ + 1]
    /\ stale' = stale \ {m}
    /\ worker' = [worker EXCEPT ![w].pc = "claimed", ![w].holds = m]
    /\ UNCHANGED <<arrivals, written, posted, crashes>>

\* The attempt budget is spent: the claim loop lands the row and looks for the next one.
Bury(w, m) ==
    /\ worker[w].pc = "drain"
    /\ Oldest(m)
    /\ mention[m].attempts >= MaxAttempts
    /\ mention' = [mention EXCEPT ![m].status = "failed"]
    /\ stale' = stale \ {m}
    /\ UNCHANGED <<arrivals, written, posted, worker, crashes>>

EndDrain(w) ==
    /\ worker[w].pc = "drain"
    /\ \A m \in Mentions : ~Claimable(m)
    /\ worker' = [worker EXCEPT ![w] = Free("idle")]
    /\ UNCHANGED <<mention, arrivals, stale, written, posted, crashes>>
-----------------------------------------------------------------------------
DropMalformed(w) ==
    LET m == worker[w].holds IN
    /\ worker[w].pc = "claimed"
    /\ Thread[m] = "malformed"
    /\ mention' = [mention EXCEPT ![m].status = "failed"]
    /\ worker' = [worker EXCEPT ![w] = [Free("drain") EXCEPT !.spent = worker[w].spent]]
    /\ UNCHANGED <<arrivals, stale, written, posted, crashes>>

\* What the pipeline can come back with.  "writes" says it commits the thread's row first.  An
\* outage of X reads as a refusal; a raise of the pipeline lands "failed" unanswered, a raise of
\* the write itself answered; only an author with an account is answered at all.  A post edited
\* since its row was written is imported onto it.
Result(verdict, text, writes) == [verdict |-> verdict, text |-> text, writes |-> writes]

Outages(text) == {Result("no_detection", text, FALSE), Result("failed", "none", FALSE)}

Results(m) ==
    CASE Thread[m] = "silent"   -> {Result("silent", "none", FALSE)}
      [] Thread[m] = "stranger" -> Outages("none") \cup {Result("no_account", "none", FALSE)}
      [] Thread[m] = "bare"     -> Outages("refusal")
      [] Thread[m] = "coords"   -> Outages("refusal") \cup {Result("failed", "refusal", FALSE)} \cup
            IF m \in written
            THEN {Result("skipped", "none", FALSE), Result("updated", "update", FALSE)}
            ELSE {Result("created", "success", TRUE)}
      [] Thread[m] = "footage"  -> Outages("refusal") \cup
            IF m \in written THEN {Result("skipped", "none", FALSE)}
                             ELSE {Result("requested", "success", TRUE)}
      [] OTHER -> {}

\* Mutant of Process: the reply is composed from the parse, the row is rolled back.
ProcessRolledBack(w) ==
    LET m == worker[w].holds IN
    /\ worker[w].pc = "claimed"
    /\ \E r \in Results(m) :
        worker' = [worker EXCEPT ![w].pc = "landed", ![w].verdict = r.verdict, ![w].text = r.text]
    /\ UNCHANGED <<mention, arrivals, stale, written, posted, crashes>>

Process(w) ==
    LET m == worker[w].holds IN
    /\ worker[w].pc = "claimed"
    /\ \E r \in Results(m) :
        /\ worker' = [worker EXCEPT ![w].pc = "landed", ![w].verdict = r.verdict,
                                    ![w].text = r.text]
        /\ written' = IF r.writes THEN written \cup {m} ELSE written
    /\ UNCHANGED <<mention, arrivals, stale, posted, crashes>>

ReplyAllowed(w) == worker[w].spent < ReplyCap

\* The post on X and its answer: taken and told, taken and the answer lost, or refused.  X
\* refuses a text it already shows.
PostReply(w) ==
    LET m == worker[w].holds
        t == worker[w].text
    IN
    /\ worker[w].pc = "landed"
    /\ t # "none"
    /\ ReplyAllowed(w)
    /\ \/ /\ t \notin posted[m]
          /\ posted' = [posted EXCEPT ![m] = @ \cup {t}]
          /\ \E told \in BOOLEAN :
                worker' = [worker EXCEPT ![w].pc = "answered", ![w].reply = told]
       \/ /\ worker' = [worker EXCEPT ![w].pc = "answered"]
          /\ UNCHANGED posted
    /\ UNCHANGED <<mention, arrivals, stale, written, crashes>>

SkipReply(w) ==
    /\ worker[w].pc = "landed"
    /\ worker[w].text = "none" \/ ~ReplyAllowed(w)
    /\ worker' = [worker EXCEPT ![w].pc = "answered"]
    /\ UNCHANGED <<mention, arrivals, stale, written, posted, crashes>>

\* _finish, then the budget: the reply is counted only once the row is committed.
Finish(w) ==
    LET m == worker[w].holds IN
    /\ worker[w].pc = "answered"
    /\ mention' = [mention EXCEPT ![m].status = "done", ![m].outcome = worker[w].verdict,
                                  ![m].reply = worker[w].reply]
    /\ stale' = stale \ {m}
    /\ worker' = [worker EXCEPT ![w] = [Free("drain") EXCEPT
                    !.spent = worker[w].spent + (IF worker[w].reply THEN 1 ELSE 0)]]
    /\ UNCHANGED <<arrivals, written, posted, crashes>>
-----------------------------------------------------------------------------
\* An exception outside the pipeline: the inherited-tag read, or the landing commit.  The row
\* goes back to the queue, unless that write fails as well, and the pass is over.
Requeue(w) ==
    LET m == worker[w].holds IN
    /\ worker[w].pc \in {"claimed", "answered"}
    /\ \/ mention' = [mention EXCEPT ![m].status = "queued"]
       \/ UNCHANGED mention
    /\ worker' = [worker EXCEPT ![w] = Free("idle")]
    /\ UNCHANGED <<arrivals, stale, written, posted, crashes>>

CrashWorker(w) ==
    /\ worker[w].pc # "down"
    /\ crashes < MaxCrashes
    /\ crashes' = crashes + 1
    /\ worker' = [worker EXCEPT ![w] = Free("down")]
    /\ UNCHANGED <<mention, arrivals, stale, written, posted>>

RestartWorker(w) ==
    /\ worker[w].pc = "down"
    /\ worker' = [worker EXCEPT ![w] = Free("idle")]
    /\ UNCHANGED <<mention, arrivals, stale, written, posted, crashes>>

\* An hour passes over a row nobody is working on.  One mention takes a handful of requests,
\* each with its timeout, so a worker that is alive lands it long before.
GoStale(m) ==
    /\ mention[m].status = "running"
    /\ m \notin stale
    /\ \A w \in MentionWorkers : worker[w].holds # m
    /\ stale' = stale \cup {m}
    /\ UNCHANGED <<mention, arrivals, written, posted, worker, crashes>>

Work(w) ==
    \/ BeginDrain(w) \/ EndDrain(w) \/ DropMalformed(w) \/ Process(w)
    \/ PostReply(w) \/ SkipReply(w) \/ Finish(w)
    \/ \E m \in Mentions : Claim(w, m) \/ Bury(w, m)

MentionNext ==
    \/ \E w \in MentionWorkers : Work(w) \/ Requeue(w) \/ CrashWorker(w) \/ RestartWorker(w)
    \/ \E m \in Mentions : Enqueue(m) \/ GoStale(m)

MentionSpec ==
    /\ MentionInit
    /\ [][MentionNext]_mentionVars
    /\ \A w \in MentionWorkers : WF_mentionVars(Work(w)) /\ WF_mentionVars(RestartWorker(w))
    /\ \A m \in Mentions : WF_mentionVars(GoStale(m))
-----------------------------------------------------------------------------
MentionTypeOK ==
    /\ mention \in [Mentions -> Rows]
    /\ arrivals \in Seq(Mentions)
    /\ stale \subseteq Mentions
    /\ written \subseteq Mentions
    /\ posted \in [Mentions -> SUBSET Texts]
    /\ worker \in [MentionWorkers -> WorkerStates]
    /\ crashes \in Nat

\* What the bot says it saved or updated is saved, on X and in the ledger, and a reply in the ledger is on
\* X, whatever crash or retry came between the write, the reply and the landing.  It is about what
\* is said, not how often: after a crash between the reply and the landing the next claim may reply
\* once more, in another text (X refuses the same one).
LedgerTellsTheTruth ==
    \A m \in Mentions :
        /\ posted[m] \cap {"success", "update"} # {} => m \in written
        /\ mention[m].outcome \in {"created", "requested", "updated", "skipped"} => m \in written
        /\ mention[m].reply => posted[m] # {}

MentionVerdicts == Outcomes \cup {"abandoned"}

MentionLedger ==
    [m \in Mentions |->
        CASE mention[m].status = "absent" -> "new"
          [] mention[m].status \in {"queued", "running"} -> "open"
          [] mention[m].status = "done" -> mention[m].outcome
          [] OTHER -> "abandoned"]

Mentioned == INSTANCE WorkLedger WITH Items <- Mentions, Verdicts <- MentionVerdicts,
                                      ledger <- MentionLedger

\* Every mention queued is landed, once and for good, though its worker may die with it.
MentionsSettle == Mentioned!Spec
=============================================================================
