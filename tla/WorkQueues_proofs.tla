------------------------- MODULE WorkQueues_proofs --------------------------
(***************************************************************************)
(* The three queues of the background work, for any number of rows,        *)
(* workers, attempts and deaths: what is said and recorded of a row is so, *)
(* nothing is announced twice, a verdict stands, and each queue implements *)
(* the ledger of WorkLedger.                                               *)
(***************************************************************************)
EXTENDS MentionQueue, ArchiveJobQueue, DeliveryQueue, FiniteSetTheorems, TLAPS

-----------------------------------------------------------------------------
(***************************************************************************)
(* The mention queue: what the bot says and records is so, and a mention   *)
(* landed stays landed.                                                    *)
(***************************************************************************)

MentionHolding == {"claimed", "landed", "answered"}
SavedOutcomes == {"created", "requested", "updated", "skipped"}
SavedTexts == {"success", "update"}

\* A mention in a worker's hands is running, no clock is against it, and no other worker has it.
HeldIsRunning ==
    \A w \in MentionWorkers : worker[w].pc \in MentionHolding =>
        /\ worker[w].holds \in Mentions
        /\ mention[worker[w].holds].status = "running"
        /\ worker[w].holds \notin stale

MentionHeldOnce ==
    \A v, w \in MentionWorkers :
        (v # w /\ worker[v].pc \in MentionHolding /\ worker[w].pc \in MentionHolding) =>
            worker[v].holds # worker[w].holds

\* What a worker carries from the import to the landing is so before it is said.
CarriesTheTruth ==
    \A w \in MentionWorkers :
        /\ worker[w].pc \in MentionHolding \ {"claimed"} =>
              /\ worker[w].verdict \in Outcomes
              /\ worker[w].verdict \in SavedOutcomes => worker[w].holds \in written
              /\ worker[w].text \in SavedTexts => worker[w].holds \in written
        /\ worker[w].reply =>
              worker[w].pc = "answered" /\ posted[worker[w].holds] # {}

\* Everything else about a row that is not landed.
LandedHasOutcome ==
    \A m \in Mentions : mention[m].status = "done" => mention[m].outcome \in Outcomes

MentionInv ==
    /\ MentionTypeOK /\ LedgerTellsTheTruth
    /\ HeldIsRunning /\ MentionHeldOnce /\ CarriesTheTruth /\ LandedHasOutcome

-----------------------------------------------------------------------------
\* A worker that holds nothing has nothing to say of a mention.
LEMMA FreeTypes ==
  ASSUME NEW pc \in {"down", "idle", "drain"}
  PROVE  /\ Free(pc) \in WorkerStates
         /\ \A n \in Nat : [Free(pc) EXCEPT !.spent = n] \in WorkerStates
         /\ \A n \in Nat : /\ [Free(pc) EXCEPT !.spent = n].pc = pc
                           /\ ~[Free(pc) EXCEPT !.spent = n].reply
         /\ Free(pc).pc = pc /\ ~Free(pc).reply
  BY DEF Free, WorkerStates

\* What the pipeline comes back with names a row only if the row is there, or is written with it.
LEMMA ResultsAreSo ==
  ASSUME NEW m \in Mentions, NEW r \in Results(m)
  PROVE  /\ r.verdict \in Outcomes /\ r.text \in Texts \cup {"none"} /\ r.writes \in BOOLEAN
         /\ (r.verdict \in SavedOutcomes \/ r.text \in SavedTexts) => (r.writes \/ m \in written)
  <1>1. \E v \in Outcomes, t \in Texts \cup {"none"}, b \in BOOLEAN :
           /\ r = Result(v, t, b)
           /\ (v \in SavedOutcomes \/ t \in SavedTexts) => (b \/ m \in written)
    <2>1. \A t \in {"none", "refusal"} : r \in Outages(t) =>
             r = Result("no_detection", t, FALSE) \/ r = Result("failed", "none", FALSE)
      BY DEF Outages
    <2>2. \/ \E t \in {"none", "refusal"} : r \in Outages(t)
          \/ r \in {Result("silent", "none", FALSE), Result("no_account", "none", FALSE),
                   Result("failed", "refusal", FALSE)}
          \/ m \in written /\ r \in {Result("skipped", "none", FALSE),
                                    Result("updated", "update", FALSE)}
          \/ r \in {Result("created", "success", TRUE), Result("requested", "success", TRUE)}
      <3>1. Thread[m] \in ThreadKinds
        BY MentionAssumption
      <3>2. CASE Thread[m] \in {"silent", "stranger", "bare", "malformed"}
        BY <3>2 DEF Results
      <3>3. CASE Thread[m] = "coords"
        BY <3>3 DEF Results
      <3>4. CASE Thread[m] = "footage"
        BY <3>4 DEF Results
      <3> QED
        BY <3>1, <3>2, <3>3, <3>4 DEF ThreadKinds
    <2>3. CASE \E t \in {"none", "refusal"} : r \in Outages(t)
      <3>1. PICK t \in {"none", "refusal"} : r \in Outages(t)
        BY <2>3
      <3>2. CASE r = Result("no_detection", t, FALSE)
        BY <3>2 DEF Outcomes, Texts, SavedOutcomes, SavedTexts
      <3>3. CASE r = Result("failed", "none", FALSE)
        <4>1. "failed" \in Outcomes \ SavedOutcomes /\ "none" \notin SavedTexts
          BY DEF Outcomes, SavedOutcomes, SavedTexts
        <4> QED
          BY <3>3, <4>1
      <3> QED
        BY <2>1, <3>1, <3>2, <3>3
    <2>4. CASE r \in {Result("silent", "none", FALSE), Result("no_account", "none", FALSE),
                      Result("failed", "refusal", FALSE)}
      <3>1. /\ {"silent", "no_account", "failed"} \subseteq Outcomes \ SavedOutcomes
            /\ {"none", "refusal"} \subseteq (Texts \cup {"none"}) \ SavedTexts
        BY DEF Outcomes, Texts, SavedOutcomes, SavedTexts
      <3> QED
        BY <2>4, <3>1
    <2>5. CASE m \in written /\ r \in {Result("skipped", "none", FALSE),
                                       Result("updated", "update", FALSE)}
      BY <2>5 DEF Outcomes, Texts
    <2>6. CASE r \in {Result("created", "success", TRUE), Result("requested", "success", TRUE)}
      BY <2>6 DEF Outcomes, Texts
    <2> QED
      BY <2>2, <2>3, <2>4, <2>5, <2>6
  <1> QED
    BY <1>1 DEF Result

LEMMA InitMention == MentionInit => MentionInv
  <1> SUFFICES ASSUME MentionInit PROVE MentionInv
    OBVIOUS
  <1>1. MentionTypeOK
    BY FreeTypes, MentionAssumption DEF MentionInit, MentionTypeOK, Rows
  <1>2. LedgerTellsTheTruth /\ LandedHasOutcome
    BY DEF MentionInit, LedgerTellsTheTruth, LandedHasOutcome
  <1>3. \A w \in MentionWorkers : worker[w].pc = "idle" /\ ~worker[w].reply
    BY FreeTypes DEF MentionInit
  <1> QED
    BY <1>1, <1>2, <1>3
       DEF MentionInv, HeldIsRunning, MentionHeldOnce, CarriesTheTruth, MentionHolding

-----------------------------------------------------------------------------
\* A worker lets go, or never held: the rows stay, or one it held moves on.
LEMMA MentionLetGo ==
  ASSUME MentionInv, NEW w \in MentionWorkers, NEW free \in WorkerStates,
         free.pc \notin MentionHolding, ~free.reply, worker' = [worker EXCEPT ![w] = free],
         mention' \in [Mentions -> Rows], stale' \subseteq stale,
         \A m \in Mentions : mention'[m] # mention[m] =>
             worker[w].pc \in MentionHolding /\ worker[w].holds = m,
         LedgerTellsTheTruth', LandedHasOutcome',
         UNCHANGED <<arrivals, written, posted>>, crashes' \in Nat
  PROVE  MentionInv'
  <1>1. MentionTypeOK'
    BY DEF MentionInv, MentionTypeOK
  <1>2. worker'[w] = free /\ \A v \in MentionWorkers \ {w} : worker'[v] = worker[v]
    BY DEF MentionInv, MentionTypeOK
  <1>3. HeldIsRunning' /\ MentionHeldOnce' /\ CarriesTheTruth'
    BY <1>2 DEF MentionInv, HeldIsRunning, MentionHeldOnce, CarriesTheTruth
  <1> QED
    BY <1>1, <1>3 DEF MentionInv

\* A station further with the same mention in hand.
LEMMA Station ==
  ASSUME MentionInv, NEW w \in MentionWorkers, worker[w].pc \in MentionHolding,
         NEW next \in WorkerStates, next.pc \in MentionHolding \ {"claimed"},
         next.holds = worker[w].holds, worker' = [worker EXCEPT ![w] = next],
         next.verdict \in Outcomes,
         next.verdict \in SavedOutcomes => next.holds \in written',
         next.text \in SavedTexts => next.holds \in written',
         next.reply => next.pc = "answered" /\ posted'[next.holds] # {},
         written \subseteq written', written' \subseteq Mentions,
         posted' \in [Mentions -> SUBSET Texts],
         \A m \in Mentions : posted[m] \subseteq posted'[m],
         \A m \in Mentions : posted'[m] # posted[m] =>
             (posted'[m] \cap SavedTexts # {} => m \in written'),
         UNCHANGED <<mention, arrivals, stale, crashes>>
  PROVE  MentionInv'
  <1>1. MentionTypeOK'
    BY DEF MentionInv, MentionTypeOK
  <1>2. worker'[w] = next /\ \A v \in MentionWorkers \ {w} : worker'[v] = worker[v]
    BY DEF MentionInv, MentionTypeOK
  <1>3. HeldIsRunning' /\ MentionHeldOnce'
    BY <1>2 DEF MentionInv, HeldIsRunning, MentionHeldOnce
  <1>4. CarriesTheTruth'
    <2> SUFFICES ASSUME NEW v \in MentionWorkers
                 PROVE  /\ worker'[v].pc \in MentionHolding \ {"claimed"} =>
                              /\ worker'[v].verdict \in Outcomes
                              /\ worker'[v].verdict \in SavedOutcomes =>
                                     worker'[v].holds \in written'
                              /\ worker'[v].text \in SavedTexts => worker'[v].holds \in written'
                        /\ worker'[v].reply =>
                              worker'[v].pc = "answered" /\ posted'[worker'[v].holds] # {}
      BY DEF CarriesTheTruth
    <2>1. CASE v = w
      BY <2>1, <1>2
    <2>2. CASE v # w
      <3>1. worker[v].pc = "answered" => worker[v].holds \in Mentions
        BY DEF MentionInv, HeldIsRunning, MentionHolding
      <3> QED
        BY <2>2, <1>2, <3>1 DEF MentionInv, CarriesTheTruth
    <2> QED
      BY <2>1, <2>2
  <1>5. LedgerTellsTheTruth'
    BY DEF MentionInv, MentionTypeOK, LedgerTellsTheTruth, SavedTexts
  <1>6. LandedHasOutcome'
    BY DEF MentionInv, LandedHasOutcome
  <1> QED
    BY <1>1, <1>3, <1>4, <1>5, <1>6 DEF MentionInv

\* A claim takes a row nobody holds.
LEMMA MentionClaimKeeps ==
  ASSUME MentionInv, NEW w \in MentionWorkers, NEW m \in Mentions, Claim(w, m)
  PROVE  MentionInv'
  <1>1. mention[m].status = "queued" \/ m \in stale
    BY DEF Claim, Oldest, Claimable
  <1>2. \A v \in MentionWorkers : worker[v].pc \in MentionHolding => worker[v].holds # m
    BY <1>1 DEF MentionInv, HeldIsRunning
  <1>3. /\ worker'[w] = [worker[w] EXCEPT !.pc = "claimed", !.holds = m]
        /\ \A v \in MentionWorkers \ {w} : worker'[v] = worker[v]
    BY DEF MentionInv, MentionTypeOK, Claim
  <1>4. worker[w] \in WorkerStates /\ mention[m] \in Rows
    BY DEF MentionInv, MentionTypeOK
  <1>5. /\ worker'[w] \in WorkerStates /\ worker'[w].pc = "claimed" /\ worker'[w].holds = m
        /\ worker'[w].reply = worker[w].reply
    BY <1>3, <1>4 DEF WorkerStates
  <1>6. ~worker'[w].reply
    BY <1>5 DEF MentionInv, CarriesTheTruth, Claim
  <1>7. /\ mention'[m].status = "running" /\ mention'[m] \in Rows
        /\ mention'[m].outcome = mention[m].outcome /\ mention'[m].reply = mention[m].reply
        /\ \A l \in Mentions \ {m} : mention'[l] = mention[l]
    <2>1. mention'[m] = [[mention[m] EXCEPT !.status = "running"] EXCEPT !.attempts = @ + 1]
      BY DEF MentionInv, MentionTypeOK, Claim
    <2>2. mention[m].attempts + 1 \in 0 .. MaxAttempts
      BY <1>4, MentionAssumption DEF Rows, Claim
    <2>3. \A l \in Mentions \ {m} : mention'[l] = mention[l]
      BY DEF MentionInv, MentionTypeOK, Claim
    <2> QED
      BY <1>4, <2>1, <2>2, <2>3 DEF Rows
  <1>8. mention' \in [Mentions -> Rows]
    <2>1. mention' = [l \in Mentions |-> mention'[l]]
      BY DEF Claim, MentionInv, MentionTypeOK
    <2> QED
      BY <1>7, <2>1 DEF MentionInv, MentionTypeOK
  <1>9. MentionTypeOK'
    <2>1. worker' = [v \in MentionWorkers |-> worker'[v]]
      BY DEF Claim, MentionInv, MentionTypeOK
    <2>2. worker' \in [MentionWorkers -> WorkerStates]
      BY <1>3, <1>5, <2>1 DEF MentionInv, MentionTypeOK
    <2>3. stale' \subseteq Mentions
      BY DEF Claim, MentionInv, MentionTypeOK
    <2>4. UNCHANGED <<arrivals, written, posted, crashes>>
      BY DEF Claim
    <2> QED
      BY <1>8, <2>2, <2>3, <2>4 DEF MentionInv, MentionTypeOK
  <1>10. HeldIsRunning' /\ MentionHeldOnce' /\ CarriesTheTruth'
    <2>1. stale' = stale \ {m} /\ UNCHANGED <<written, posted>>
      BY DEF Claim
    <2>2. HeldIsRunning'
      <3> SUFFICES ASSUME NEW v \in MentionWorkers, worker'[v].pc \in MentionHolding
                   PROVE  /\ worker'[v].holds \in Mentions
                          /\ mention'[worker'[v].holds].status = "running"
                          /\ worker'[v].holds \notin stale'
        BY DEF HeldIsRunning
      <3>1. CASE v = w
        BY <1>5, <1>7, <2>1, <3>1
      <3>2. CASE v # w
        <4>1. worker'[v] = worker[v]
          BY <1>3, <3>2
        <4>2. /\ worker[v].holds \in Mentions \ {m} /\ worker[v].holds \notin stale
              /\ mention[worker[v].holds].status = "running"
          BY <1>2, <4>1 DEF MentionInv, HeldIsRunning
        <4> QED
          BY <1>7, <2>1, <4>1, <4>2
      <3> QED
        BY <3>1, <3>2
    <2>3. MentionHeldOnce'
      <3> SUFFICES ASSUME NEW u \in MentionWorkers, NEW v \in MentionWorkers, u # v,
                          worker'[u].pc \in MentionHolding, worker'[v].pc \in MentionHolding
                   PROVE  worker'[u].holds # worker'[v].holds
        BY DEF MentionHeldOnce
      <3>1. CASE u = w
        BY <1>2, <1>3, <1>5, <3>1
      <3>2. CASE v = w
        BY <1>2, <1>3, <1>5, <3>2
      <3>3. CASE u # w /\ v # w
        BY <1>3, <3>3 DEF MentionInv, MentionHeldOnce
      <3> QED
        BY <3>1, <3>2, <3>3
    <2>4. CarriesTheTruth'
      BY <1>3, <1>5, <1>6, <2>1 DEF MentionInv, CarriesTheTruth, MentionHolding
    <2> QED
      BY <2>2, <2>3, <2>4
  <1>11. LedgerTellsTheTruth' /\ LandedHasOutcome'
    BY <1>7 DEF MentionInv, LedgerTellsTheTruth, LandedHasOutcome, Claim
  <1> QED
    BY <1>9, <1>10, <1>11 DEF MentionInv

\* The worker's own record, in each of the stations that let a mention go.
LEMMA SpentTypes ==
  ASSUME MentionInv, NEW w \in MentionWorkers
  PROVE  worker[w].spent \in Nat /\ worker[w].reply \in BOOLEAN
         /\ worker[w].spent + (IF worker[w].reply THEN 1 ELSE 0) \in Nat
  BY DEF MentionInv, MentionTypeOK, WorkerStates

\* A worker that starts, rests or dies touches no row.
LEMMA MentionRestKeeps ==
  ASSUME MentionInv, NEW w \in MentionWorkers,
         BeginDrain(w) \/ EndDrain(w) \/ CrashWorker(w) \/ RestartWorker(w)
  PROVE  MentionInv'
  <1>1. UNCHANGED <<mention, arrivals, stale, written, posted>> /\ crashes' \in Nat
    BY DEF BeginDrain, EndDrain, CrashWorker, RestartWorker, MentionInv, MentionTypeOK
  <1>2. LedgerTellsTheTruth' /\ LandedHasOutcome' /\ mention' \in [Mentions -> Rows]
    BY <1>1 DEF MentionInv, MentionTypeOK, LedgerTellsTheTruth, LandedHasOutcome
  <1>3. ASSUME NEW free \in WorkerStates, free.pc \notin MentionHolding, ~free.reply,
               worker' = [worker EXCEPT ![w] = free]
        PROVE  MentionInv'
    BY <1>1, <1>2, <1>3, MentionLetGo
  <1>4. CASE BeginDrain(w)
    <2>1. Cardinality(LedgeredReplies) \in Nat
      <3>1. IsFiniteSet(LedgeredReplies)
        BY MentionAssumption, FS_Subset DEF LedgeredReplies
      <3> QED
        BY <3>1, FS_CardinalityType
    <2> QED
      BY <1>3, <1>4, <2>1, FreeTypes DEF BeginDrain, MentionHolding
  <1>5. CASE EndDrain(w) \/ CrashWorker(w) \/ RestartWorker(w)
    BY <1>3, <1>5, FreeTypes DEF EndDrain, CrashWorker, RestartWorker, MentionHolding
  <1> QED
    BY <1>4, <1>5

LEMMA MentionEnqueueKeeps ==
  ASSUME MentionInv, NEW m \in Mentions, Enqueue(m)
  PROVE  MentionInv'
  <1>1. /\ mention'[m] = [mention[m] EXCEPT !.status = "queued"]
        /\ \A l \in Mentions \ {m} : mention'[l] = mention[l]
        /\ mention' \in [Mentions -> Rows]
    <2>1. mention \in [Mentions -> Rows]
      BY DEF MentionInv, MentionTypeOK
    <2>2. mention' = [mention EXCEPT ![m] = [mention[m] EXCEPT !.status = "queued"]]
      BY <2>1 DEF Enqueue
    <2>3. [mention[m] EXCEPT !.status = "queued"] \in Rows
      BY <2>1 DEF Rows
    <2> QED
      BY <2>1, <2>2, <2>3
  <1>2. MentionTypeOK'
    BY <1>1 DEF Enqueue, MentionInv, MentionTypeOK
  <1>3. mention[m] \in Rows
    BY DEF MentionInv, MentionTypeOK
  <1>4. HeldIsRunning' /\ MentionHeldOnce' /\ CarriesTheTruth'
    BY <1>1 DEF Enqueue, MentionInv, HeldIsRunning, MentionHeldOnce, CarriesTheTruth
  <1>5. LedgerTellsTheTruth' /\ LandedHasOutcome'
    BY <1>1, <1>3 DEF Enqueue, MentionInv, LedgerTellsTheTruth, LandedHasOutcome, Rows
  <1> QED
    BY <1>2, <1>4, <1>5 DEF MentionInv

\* A row in a worker's hands does not go stale, and a claim that buries one is of nobody's.
LEMMA MentionBuryKeeps ==
  ASSUME MentionInv, NEW w \in MentionWorkers, NEW m \in Mentions, Bury(w, m)
  PROVE  MentionInv'
  <1>1. mention[m].status = "queued" \/ m \in stale
    BY DEF Bury, Oldest, Claimable
  <1>2. \A v \in MentionWorkers : worker[v].pc \in MentionHolding => worker[v].holds # m
    BY <1>1 DEF MentionInv, HeldIsRunning
  <1>3. /\ mention'[m] = [mention[m] EXCEPT !.status = "failed"]
        /\ \A l \in Mentions \ {m} : mention'[l] = mention[l]
        /\ mention' \in [Mentions -> Rows]
    <2>1. mention \in [Mentions -> Rows]
      BY DEF MentionInv, MentionTypeOK
    <2>2. mention' = [mention EXCEPT ![m] = [mention[m] EXCEPT !.status = "failed"]]
      BY <2>1 DEF Bury
    <2>3. [mention[m] EXCEPT !.status = "failed"] \in Rows
      BY <2>1 DEF Rows
    <2> QED
      BY <2>1, <2>2, <2>3
  <1>4. mention[m] \in Rows
    BY DEF MentionInv, MentionTypeOK
  <1>5. MentionTypeOK'
    BY <1>3 DEF Bury, MentionInv, MentionTypeOK
  <1>6. HeldIsRunning' /\ MentionHeldOnce' /\ CarriesTheTruth'
    BY <1>2, <1>3 DEF Bury, MentionInv, HeldIsRunning, MentionHeldOnce, CarriesTheTruth
  <1>7. LedgerTellsTheTruth' /\ LandedHasOutcome'
    BY <1>3, <1>4 DEF Bury, MentionInv, LedgerTellsTheTruth, LandedHasOutcome, Rows
  <1> QED
    BY <1>5, <1>6, <1>7 DEF MentionInv

LEMMA StaleKeeps ==
  ASSUME MentionInv, NEW m \in Mentions, GoStale(m)
  PROVE  MentionInv'
  <1>1. MentionTypeOK'
    BY DEF GoStale, MentionInv, MentionTypeOK
  <1>2. HeldIsRunning' /\ MentionHeldOnce' /\ CarriesTheTruth'
    BY DEF GoStale, MentionInv, HeldIsRunning, MentionHeldOnce, CarriesTheTruth
  <1>3. LedgerTellsTheTruth' /\ LandedHasOutcome'
    BY DEF GoStale, MentionInv, LedgerTellsTheTruth, LandedHasOutcome
  <1> QED
    BY <1>1, <1>2, <1>3 DEF MentionInv

\* The landings and the return to the queue: the row in hand moves, and the worker lets it go.
LEMMA DropKeeps ==
  ASSUME MentionInv, NEW w \in MentionWorkers, DropMalformed(w) \/ Requeue(w)
  PROVE  MentionInv'
  <1> DEFINE m == worker[w].holds
  <1>1. worker[w].pc \in MentionHolding /\ m \in Mentions /\ mention[m] \in Rows
    BY DEF DropMalformed, Requeue, MentionHolding, MentionInv, MentionTypeOK, HeldIsRunning
  <1>2. \/ mention' = mention
        \/ \E s \in {"failed", "queued"} : mention' = [mention EXCEPT ![m].status = s]
    BY DEF DropMalformed, Requeue
  <1>3. mention' \in [Mentions -> Rows] /\ \A l \in Mentions \ {m} : mention'[l] = mention[l]
    <2>1. CASE mention' = mention
      BY <2>1 DEF MentionInv, MentionTypeOK
    <2>2. ASSUME NEW s \in {"failed", "queued"}, mention' = [mention EXCEPT ![m].status = s]
          PROVE  /\ mention' \in [Mentions -> Rows]
                 /\ \A l \in Mentions \ {m} : mention'[l] = mention[l]
      BY <1>1, <2>2 DEF MentionInv, MentionTypeOK, Rows
    <2> QED
      BY <1>2, <2>1, <2>2
  <1>4. /\ mention'[m].status # "done" \/ mention'[m] = mention[m]
        /\ mention'[m].outcome = mention[m].outcome /\ mention'[m].reply = mention[m].reply
    BY <1>1, <1>2 DEF MentionInv, MentionTypeOK, Rows
  <1>5. UNCHANGED <<arrivals, stale, written, posted, crashes>>
    BY DEF DropMalformed, Requeue
  <1>6. LedgerTellsTheTruth' /\ LandedHasOutcome'
    BY <1>3, <1>4, <1>5 DEF MentionInv, LedgerTellsTheTruth, LandedHasOutcome
  <1>7. ASSUME NEW free \in WorkerStates, free.pc \notin MentionHolding, ~free.reply,
               worker' = [worker EXCEPT ![w] = free]
        PROVE  MentionInv'
    <2>1. crashes' \in Nat
      BY <1>5 DEF MentionInv, MentionTypeOK
    <2> QED
      BY <1>1, <1>3, <1>5, <1>6, <1>7, <2>1, MentionLetGo
  <1>8. CASE DropMalformed(w)
    BY <1>7, <1>8, FreeTypes, SpentTypes DEF DropMalformed, MentionHolding
  <1>9. CASE Requeue(w)
    BY <1>7, <1>9, FreeTypes DEF Requeue, MentionHolding
  <1> QED
    BY <1>8, <1>9

LEMMA FinishKeeps ==
  ASSUME MentionInv, NEW w \in MentionWorkers, Finish(w)
  PROVE  MentionInv'
  <1> DEFINE m == worker[w].holds
  <1>1. worker[w].pc \in MentionHolding \ {"claimed"} /\ m \in Mentions /\ mention[m] \in Rows
    BY DEF Finish, MentionHolding, MentionInv, MentionTypeOK, HeldIsRunning
  <1>2. /\ worker[w].verdict \in Outcomes
        /\ worker[w].verdict \in SavedOutcomes => m \in written
        /\ worker[w].reply => posted[m] # {}
    BY <1>1 DEF MentionInv, CarriesTheTruth
  <1>3. mention' = [mention EXCEPT ![m].status = "done", ![m].outcome = worker[w].verdict,
                                   ![m].reply = worker[w].reply]
    BY DEF Finish
  <1>4. /\ mention'[m].status = "done" /\ mention'[m].outcome = worker[w].verdict
        /\ mention'[m].reply = worker[w].reply
        /\ \A l \in Mentions \ {m} : mention'[l] = mention[l]
        /\ mention' \in [Mentions -> Rows]
    BY <1>1, <1>2, <1>3, SpentTypes DEF MentionInv, MentionTypeOK, Rows
  <1>5. UNCHANGED <<arrivals, written, posted, crashes>> /\ stale' \subseteq stale
    BY DEF Finish
  <1>6. LedgerTellsTheTruth' /\ LandedHasOutcome'
    BY <1>1, <1>2, <1>4, <1>5
    DEF MentionInv, LedgerTellsTheTruth, LandedHasOutcome, SavedOutcomes
  <1>7. crashes' \in Nat
    BY <1>5 DEF MentionInv, MentionTypeOK
  <1> QED
    BY <1>1, <1>4, <1>5, <1>6, <1>7, MentionLetGo, FreeTypes, SpentTypes DEF Finish, MentionHolding

-----------------------------------------------------------------------------
\* The import, the reply and its omission: a station further, and nothing said before it is so.
LEMMA ProcessKeeps ==
  ASSUME MentionInv, NEW w \in MentionWorkers, Process(w)
  PROVE  MentionInv'
  <1> DEFINE m == worker[w].holds
  <1>1. worker[w].pc \in MentionHolding /\ m \in Mentions /\ worker[w] \in WorkerStates
        /\ ~worker[w].reply
    BY DEF Process, MentionHolding, MentionInv, MentionTypeOK, HeldIsRunning, CarriesTheTruth
  <1>2. PICK r \in Results(m) :
           /\ worker' = [worker EXCEPT ![w].pc = "landed", ![w].verdict = r.verdict,
                                       ![w].text = r.text]
           /\ written' = IF r.writes THEN written \cup {m} ELSE written
    BY DEF Process
  <1>3. /\ r.verdict \in Outcomes /\ r.text \in Texts \cup {"none"}
        /\ (r.verdict \in SavedOutcomes \/ r.text \in SavedTexts) => m \in written'
    BY <1>1, <1>2, ResultsAreSo
  <1> DEFINE next == [worker[w] EXCEPT !.pc = "landed", !.verdict = r.verdict, !.text = r.text]
  <1>4. /\ next \in WorkerStates /\ next.pc = "landed" /\ next.holds = m
        /\ next.verdict = r.verdict /\ next.text = r.text /\ ~next.reply
    BY <1>1, <1>3 DEF WorkerStates
  <1>5. worker' = [worker EXCEPT ![w] = next]
    BY <1>2 DEF MentionInv, MentionTypeOK
  <1>6. /\ written \subseteq written' /\ written' \subseteq Mentions
        /\ UNCHANGED <<posted, mention, arrivals, stale, crashes>>
    BY <1>1, <1>2 DEF Process, MentionInv, MentionTypeOK
  <1>7. posted' \in [Mentions -> SUBSET Texts] /\ \A l \in Mentions : posted'[l] = posted[l]
    BY <1>6 DEF MentionInv, MentionTypeOK
  <1> HIDE DEF next
  <1> QED
    BY <1>1, <1>3, <1>4, <1>5, <1>6, <1>7, Station DEF MentionHolding

LEMMA ReplyKeeps ==
  ASSUME MentionInv, NEW w \in MentionWorkers, PostReply(w) \/ SkipReply(w)
  PROVE  MentionInv'
  <1> DEFINE m == worker[w].holds
             t == worker[w].text
  <1>1. worker[w].pc = "landed" /\ worker[w].pc \in MentionHolding \ {"claimed"}
        /\ m \in Mentions /\ worker[w] \in WorkerStates
    BY DEF PostReply, SkipReply, MentionHolding, MentionInv, MentionTypeOK, HeldIsRunning
  <1>2. /\ ~worker[w].reply /\ worker[w].verdict \in Outcomes
        /\ worker[w].verdict \in SavedOutcomes => m \in written
        /\ t \in SavedTexts => m \in written
    BY <1>1 DEF MentionInv, CarriesTheTruth
  <1>3. UNCHANGED <<mention, arrivals, stale, written, crashes>>
    BY DEF PostReply, SkipReply
  <1>4. posted \in [Mentions -> SUBSET Texts] /\ written \subseteq Mentions
    BY DEF MentionInv, MentionTypeOK
  <1>5. ASSUME NEW told \in BOOLEAN,
               worker' = [worker EXCEPT ![w].pc = "answered", ![w].reply = told],
               posted' = [posted EXCEPT ![m] = @ \cup {t}], t # "none"
        PROVE  MentionInv'
    <2> DEFINE next == [worker[w] EXCEPT !.pc = "answered", !.reply = told]
    <2>1. /\ next \in WorkerStates /\ next.pc = "answered" /\ next.holds = m
          /\ next.verdict = worker[w].verdict /\ next.text = t
      BY <1>1 DEF WorkerStates
    <2>2. worker' = [worker EXCEPT ![w] = next]
      BY <1>5 DEF MentionInv, MentionTypeOK
    <2>3. t \in Texts
      BY <1>1, <1>5 DEF WorkerStates
    <2>4. /\ posted' \in [Mentions -> SUBSET Texts] /\ posted'[m] = posted[m] \cup {t}
          /\ \A l \in Mentions \ {m} : posted'[l] = posted[l]
      BY <1>1, <1>4, <1>5, <2>3
    <2>5. posted'[m] \cap SavedTexts # {} => m \in written'
      BY <1>1, <1>2, <1>3, <2>4 DEF MentionInv, LedgerTellsTheTruth, SavedTexts
    <2> HIDE DEF next
    <2> QED
      BY <1>1, <1>2, <1>3, <1>4, <2>1, <2>2, <2>4, <2>5, Station DEF MentionHolding
  <1>6. ASSUME worker' = [worker EXCEPT ![w].pc = "answered"], posted' = posted
        PROVE  MentionInv'
    <2> DEFINE next == [worker[w] EXCEPT !.pc = "answered"]
    <2>1. /\ next \in WorkerStates /\ next.pc = "answered" /\ next.holds = m /\ ~next.reply
          /\ next.verdict = worker[w].verdict /\ next.text = t
      BY <1>1, <1>2 DEF WorkerStates
    <2>2. worker' = [worker EXCEPT ![w] = next]
      BY <1>6 DEF MentionInv, MentionTypeOK
    <2> HIDE DEF next
    <2> QED
      BY <1>1, <1>2, <1>3, <1>4, <1>6, <2>1, <2>2, Station DEF MentionHolding
  <1> QED
    BY <1>5, <1>6 DEF PostReply, SkipReply

-----------------------------------------------------------------------------
\* The queue keeps its invariant, whatever dies when.
THEOREM MentionCorrect == MentionSpec => []MentionInv
  <1>1. MentionInit => MentionInv
    BY InitMention
  <1>2. MentionInv /\ [MentionNext]_mentionVars => MentionInv'
    <2> SUFFICES ASSUME MentionInv, [MentionNext]_mentionVars PROVE MentionInv'
      OBVIOUS
    <2>1. ASSUME NEW w \in MentionWorkers, Work(w) PROVE MentionInv'
      BY <2>1, MentionRestKeeps, DropKeeps, ProcessKeeps, ReplyKeeps, FinishKeeps,
         MentionClaimKeeps, MentionBuryKeeps
      DEF Work
    <2>2. ASSUME NEW w \in MentionWorkers, Requeue(w) \/ CrashWorker(w) \/ RestartWorker(w)
          PROVE  MentionInv'
      BY <2>2, MentionRestKeeps, DropKeeps
    <2>3. ASSUME NEW m \in Mentions, Enqueue(m) \/ GoStale(m) PROVE MentionInv'
      BY <2>3, MentionEnqueueKeeps, StaleKeeps
    <2>4. CASE UNCHANGED mentionVars
      BY <2>4 DEF mentionVars, MentionInv, MentionTypeOK, LedgerTellsTheTruth, HeldIsRunning,
                  MentionHeldOnce, CarriesTheTruth, LandedHasOutcome
    <2> QED
      BY <2>1, <2>2, <2>3, <2>4 DEF MentionNext
  <1> QED
    BY <1>1, <1>2, PTL DEF MentionSpec

\* What the bot says it saved is saved, on X and in the ledger, and a reply in the ledger is on X.
THEOREM LedgerIsTrue == MentionSpec => []LedgerTellsTheTruth
  BY MentionCorrect, PTL DEF MentionInv

-----------------------------------------------------------------------------
\* What may become of one row in a step.
MentionRowMoves(m) ==
    \/ /\ mention'[m].status = mention[m].status
       /\ mention'[m].outcome = mention[m].outcome
    \/ mention[m].status = "absent" /\ mention'[m].status = "queued"
    \/ /\ mention[m].status \in {"queued", "running"}
       /\ \/ mention'[m].status \in {"queued", "running", "failed"}
          \/ mention'[m].status = "done" /\ mention'[m].outcome \in Outcomes

\* Every step moves every row as the ledger lets it.
LEMMA MentionRowsMove ==
  ASSUME MentionInv, [MentionNext]_mentionVars, NEW m \in Mentions
  PROVE  MentionRowMoves(m)
  <1>1. mention \in [Mentions -> Rows]
    BY DEF MentionInv, MentionTypeOK
  <1>2. ASSUME NEW w \in MentionWorkers, NEW l \in Mentions, Claim(w, l) \/ Bury(w, l)
        PROVE  MentionRowMoves(m)
    <2>1. mention[l].status \in {"queued", "running"}
      BY <1>2 DEF Claim, Bury, Oldest, Claimable
    <2>2. CASE Claim(w, l)
      <3>1. \A k \in Mentions \ {l} : mention'[k] = mention[k]
        BY <1>1, <2>2 DEF Claim
      <3>2. mention'[l].status = "running"
        BY <1>1, <2>2 DEF Claim, Rows
      <3> QED
        BY <2>1, <3>1, <3>2 DEF MentionRowMoves
    <2>3. CASE Bury(w, l)
      BY <1>1, <2>1, <2>3 DEF Bury, MentionRowMoves, Rows
    <2> QED
      BY <1>2, <2>2, <2>3
  <1>3. ASSUME NEW w \in MentionWorkers, DropMalformed(w) \/ Requeue(w) \/ Finish(w)
        PROVE  MentionRowMoves(m)
    <2> DEFINE l == worker[w].holds
    <2>1. l \in Mentions /\ mention[l].status = "running"
      BY <1>3 DEF DropMalformed, Requeue, Finish, MentionInv, HeldIsRunning, MentionHolding
    <2>2. CASE DropMalformed(w) \/ Requeue(w)
      BY <1>1, <2>1, <2>2 DEF DropMalformed, Requeue, MentionRowMoves, Rows
    <2>3. CASE Finish(w)
      <3>1. worker[w].verdict \in Outcomes
        BY <2>3 DEF Finish, MentionInv, CarriesTheTruth, MentionHolding
      <3>2. /\ mention'[l].status = "done" /\ mention'[l].outcome = worker[w].verdict
            /\ \A k \in Mentions \ {l} : mention'[k] = mention[k]
        BY <1>1, <2>1, <2>3 DEF Finish, Rows
      <3> QED
        BY <2>1, <3>1, <3>2 DEF MentionRowMoves
    <2> QED
      BY <1>3, <2>2, <2>3
  <1>4. CASE \E l \in Mentions : Enqueue(l)
    BY <1>1, <1>4 DEF Enqueue, MentionRowMoves, Rows
  <1>5. CASE UNCHANGED mention
    BY <1>5 DEF MentionRowMoves
  <1>6. ASSUME NEW w \in MentionWorkers, BeginDrain(w) \/ EndDrain(w) \/ Process(w)
                  \/ PostReply(w) \/ SkipReply(w) \/ CrashWorker(w) \/ RestartWorker(w)
        PROVE  UNCHANGED mention
    BY <1>6 DEF BeginDrain, EndDrain, Process, PostReply, SkipReply, CrashWorker, RestartWorker
  <1>7. ASSUME NEW l \in Mentions, GoStale(l) PROVE UNCHANGED mention
    BY <1>7 DEF GoStale
  <1> QED
    BY <1>2, <1>3, <1>4, <1>5, <1>6, <1>7 DEF MentionNext, Work, mentionVars

LEMMA MentionStepIsLedgers ==
  ASSUME MentionInv, [MentionNext]_mentionVars
  PROVE  Mentioned!Next
  <1> SUFFICES ASSUME NEW m \in Mentions
               PROVE  Mentioned!Moves(MentionLedger[m], MentionLedger'[m])
    BY DEF Mentioned!Next
  <1>1. MentionRowMoves(m) /\ mention[m] \in Rows
    BY MentionRowsMove DEF MentionInv, MentionTypeOK
  <1>2. mention[m].status = "done" => mention[m].outcome \in Outcomes
    BY DEF MentionInv, LandedHasOutcome
  <1>3. /\ mention[m].status = "absent" <=> MentionLedger[m] = "new"
        /\ mention[m].status \in {"queued", "running"} <=> MentionLedger[m] = "open"
    BY <1>1, <1>2 DEF MentionLedger, Rows, Outcomes
  <1>4. /\ mention'[m].status = "queued" => MentionLedger'[m] = "open"
        /\ mention'[m].status = "running" => MentionLedger'[m] = "open"
        /\ mention'[m].status = "failed" => MentionLedger'[m] = "abandoned"
        /\ mention'[m].status = "done" => MentionLedger'[m] = mention'[m].outcome
    BY DEF MentionLedger
  <1>5. CASE mention'[m].status = mention[m].status /\ mention'[m].outcome = mention[m].outcome
    BY <1>5 DEF MentionLedger, Mentioned!Moves
  <1>6. CASE mention[m].status = "absent" /\ mention'[m].status = "queued"
    BY <1>3, <1>4, <1>6 DEF Mentioned!Moves
  <1>7. CASE /\ mention[m].status \in {"queued", "running"}
             /\ \/ mention'[m].status \in {"queued", "running", "failed"}
                \/ mention'[m].status = "done" /\ mention'[m].outcome \in Outcomes
    BY <1>3, <1>4, <1>7 DEF Mentioned!Moves, MentionVerdicts
  <1> QED
    BY <1>1, <1>5, <1>6, <1>7 DEF MentionRowMoves

\* The safety half of MentionsSettle: a mention is landed once, and its verdict stands for good.
THEOREM MentionVerdictsStand == MentionSpec => Mentioned!Init /\ [][Mentioned!Next]_MentionLedger
  <1>1. MentionInit => Mentioned!Init
    BY DEF MentionInit, Mentioned!Init, MentionLedger
  <1>2. MentionInv /\ [MentionNext]_mentionVars => [Mentioned!Next]_MentionLedger
    BY MentionStepIsLedgers
  <1> QED
    BY <1>1, <1>2, MentionCorrect, PTL DEF MentionSpec

-----------------------------------------------------------------------------
(***************************************************************************)
(* The archive imports: an owner hears at most once and hears what the row *)
(* says, no run misses a zip the code deleted, and a job that ended has    *)
(* ended.                                                                  *)
(***************************************************************************)

Running == {"claimed", "importing", "over"}
Closing == {"committed", "swept"}
Stations == Running \cup Closing
Ends == {"done", "failed"}

\* What a worker at a station may count on, whatever the others do: its job is running and fresh
\* until its commit; after it, the row says the verdict and nobody has been told.
Carries(r) ==
    /\ r.pc \in Stations => r.holds \in Jobs
    /\ r.pc \in Running => job[r.holds].status = "running" /\ r.holds \notin overdue
    /\ r.pc \in Closing => job[r.holds].status = r.verdict /\ mails[r.holds] = <<>>
    /\ r.pc \in Closing \cup {"over"} =>
          /\ r.verdict \in Ends
          /\ r.verdict = "done" => r.holds \in imported
          /\ r.mail = "complete" => r.verdict = "done"
          /\ r.mail = "failed" => r.verdict = "failed"

RunnersCarry == \A w \in JobWorkers : Carries(runner[w])

JobHeldOnce ==
    \A v, w \in JobWorkers :
        (v # w /\ runner[v].pc \in Stations /\ runner[w].pc \in Stations) =>
            runner[v].holds # runner[w].holds

JobInv ==
    /\ JobTypeOK /\ MailTellsTheVerdict /\ StagedWhileOpen
    /\ RunnersCarry /\ JobHeldOnce

-----------------------------------------------------------------------------
\* A worker that holds no job carries no verdict.
LEMMA RestTypes ==
  ASSUME NEW pc \in {"down", "idle", "drain"}
  PROVE  /\ Loose(pc) \in RunnerStates /\ Loose(pc).pc = pc /\ Carries(Loose(pc))
         /\ Loose(pc).pc \notin Stations
  BY DEF Loose, At, RunnerStates, Carries, Stations, Running, Closing

\* A worker at a station of its job carries what the station asks for.
LEMMA StationTypes ==
  ASSUME NEW pc \in Stations, NEW j \in Jobs, NEW verdict \in Ends \cup {"none"},
         NEW mail \in Mails \cup {"none"}
  PROVE  /\ At(pc, j, verdict, mail) \in RunnerStates
         /\ At(pc, j, verdict, mail).pc = pc /\ At(pc, j, verdict, mail).holds = j
         /\ At(pc, j, verdict, mail).verdict = verdict /\ At(pc, j, verdict, mail).mail = mail
  BY DEF At, RunnerStates, Stations, Running, Closing, Ends

\* Nobody was told of a job that is still open.
LEMMA OpenIsUntold ==
  ASSUME JobInv, NEW j \in Jobs, job[j].status \notin Ends
  PROVE  mails[j] = <<>> /\ job[j].status # "done"
  <1>1. mails[j] \in Seq(Mails)
    BY DEF JobInv, JobTypeOK
  <1>2. Len(mails[j]) = 0
    BY <1>1 DEF JobInv, MailTellsTheVerdict, Ends
  <1> QED
    BY <1>1, <1>2 DEF Ends

\* One worker moves; what the others count on stays.
LEMMA RunnerStep ==
  ASSUME JobInv, NEW w \in JobWorkers, NEW next \in RunnerStates,
         runner' = [runner EXCEPT ![w] = next], Carries(next)',
         \A v \in JobWorkers \ {w} : runner[v].pc \in Stations =>
             /\ next.pc \in Stations => runner[v].holds # next.holds
             /\ job'[runner[v].holds] = job[runner[v].holds]
             /\ mails'[runner[v].holds] = mails[runner[v].holds],
         overdue' \subseteq overdue, imported \subseteq imported'
  PROVE  RunnersCarry' /\ JobHeldOnce' /\ runner' \in [JobWorkers -> RunnerStates]
  <1>1. /\ runner'[w] = next /\ \A v \in JobWorkers \ {w} : runner'[v] = runner[v]
        /\ runner' \in [JobWorkers -> RunnerStates]
    BY DEF JobInv, JobTypeOK
  <1>2. ASSUME NEW v \in JobWorkers \ {w} PROVE Carries(runner[v])'
    <2>1. Carries(runner[v]) /\ runner'[v] = runner[v]
      BY <1>1 DEF JobInv, RunnersCarry
    <2>2. CASE runner[v].pc \in Stations
      BY <2>1, <2>2 DEF Carries
    <2>3. CASE runner[v].pc \notin Stations
      BY <2>1, <2>3 DEF Carries, Stations, Running, Closing
    <2> QED
      BY <2>2, <2>3
  <1>3. RunnersCarry'
    BY <1>1, <1>2 DEF RunnersCarry
  <1>4. JobHeldOnce'
    BY <1>1 DEF JobInv, JobHeldOnce
  <1> QED
    BY <1>1, <1>3, <1>4

LEMMA InitJobs == JobInit => JobInv
  <1> SUFFICES ASSUME JobInit PROVE JobInv
    OBVIOUS
  <1>1. JobTypeOK
    BY RestTypes, JobAssumption DEF JobInit, JobTypeOK
  <1>2. MailTellsTheVerdict /\ StagedWhileOpen
    BY DEF JobInit, MailTellsTheVerdict, StagedWhileOpen
  <1>3. \A w \in JobWorkers : runner[w] = Loose("idle")
    BY DEF JobInit
  <1>4. RunnersCarry /\ JobHeldOnce
    BY <1>3, RestTypes DEF RunnersCarry, JobHeldOnce
  <1> QED
    BY <1>1, <1>2, <1>4 DEF JobInv

-----------------------------------------------------------------------------
LEMMA JobEnqueueKeeps ==
  ASSUME JobInv, NEW j \in Jobs, EnqueueJob(j)
  PROVE  JobInv'
  <1>1. job[j].status = "absent" /\ mails[j] = <<>>
    BY OpenIsUntold DEF EnqueueJob, Ends
  <1>2. /\ job'[j].status = "queued" /\ \A k \in Jobs \ {j} : job'[k] = job[k]
        /\ staged' = staged \cup {j}
        /\ UNCHANGED <<overdue, account, imported, mails, runner, kills>>
    BY DEF EnqueueJob, JobInv, JobTypeOK
  <1>3. JobTypeOK'
    <2>1. job' \in [Jobs -> [status : {"absent", "queued", "running", "done", "failed"},
                             runs : 0 .. MaxRuns]]
      BY DEF EnqueueJob, JobInv, JobTypeOK
    <2>2. queue' \in Seq(Jobs)
      BY DEF EnqueueJob, JobInv, JobTypeOK
    <2> QED
      BY <1>2, <2>1, <2>2 DEF JobInv, JobTypeOK
  <1>4. MailTellsTheVerdict'
    BY <1>1, <1>2 DEF JobInv, MailTellsTheVerdict
  <1>5. StagedWhileOpen'
    BY <1>2 DEF JobInv, StagedWhileOpen
  <1>6. ASSUME NEW w \in JobWorkers PROVE Carries(runner[w])'
    <2>1. Carries(runner[w]) /\ runner'[w] = runner[w]
      BY <1>2 DEF JobInv, RunnersCarry
    <2>2. runner[w].pc \in Stations => runner[w].holds \in Jobs \ {j}
      BY <1>1, <2>1 DEF Carries, Stations, Ends
    <2> QED
      BY <1>2, <2>1, <2>2 DEF Carries, Stations
  <1>7. RunnersCarry' /\ JobHeldOnce'
    BY <1>2, <1>6 DEF JobInv, RunnersCarry, JobHeldOnce
  <1> QED
    BY <1>3, <1>4, <1>5, <1>7 DEF JobInv

\* Half an hour without a heartbeat, of a job in nobody's hands; and an account that goes.
LEMMA OutsideKeeps ==
  ASSUME JobInv,
         (\E j \in Jobs : GoOverdue(j)) \/ (\E u \in Analysts : LoseAccount(u))
  PROVE  JobInv'
  <1>1. JobTypeOK'
    BY DEF GoOverdue, LoseAccount, JobInv, JobTypeOK
  <1>2. UNCHANGED <<job, staged, imported, mails, runner>>
    BY DEF GoOverdue, LoseAccount
  <1>3. MailTellsTheVerdict' /\ StagedWhileOpen' /\ JobHeldOnce'
    BY <1>2 DEF JobInv, MailTellsTheVerdict, StagedWhileOpen, JobHeldOnce
  <1>4. \A w \in JobWorkers : runner[w].pc \in Running =>
           runner[w].holds \notin overdue' \ overdue
    BY DEF GoOverdue, LoseAccount
  <1>5. RunnersCarry'
    BY <1>2, <1>4 DEF JobInv, RunnersCarry, Carries
  <1> QED
    BY <1>1, <1>3, <1>5 DEF JobInv

\* A worker at no station takes up nothing, or puts down what it held.
LEMMA JobRestKeeps ==
  ASSUME JobInv, NEW w \in JobWorkers,
         BeginRun(w) \/ EndRun(w) \/ ConcludeFails(w) \/ Kill(w) \/ Reboot(w)
  PROVE  JobInv'
  <1>1. PICK pc \in {"down", "idle", "drain"} : runner' = [runner EXCEPT ![w] = Loose(pc)]
    BY DEF BeginRun, EndRun, ConcludeFails, Kill, Reboot
  <1>2. UNCHANGED <<job, queue, overdue, account, staged, imported, mails>>
    BY DEF BeginRun, EndRun, ConcludeFails, Kill, Reboot
  <1>3. kills' \in Nat
    BY DEF BeginRun, EndRun, ConcludeFails, Kill, Reboot, JobInv, JobTypeOK
  <1>4. Carries(Loose(pc))'
    BY DEF Loose, At, Carries, Stations, Running, Closing
  <1>5. RunnersCarry' /\ JobHeldOnce' /\ runner' \in [JobWorkers -> RunnerStates]
    BY <1>1, <1>2, <1>4, RestTypes, RunnerStep
  <1>6. JobTypeOK' /\ MailTellsTheVerdict' /\ StagedWhileOpen'
    BY <1>2, <1>3, <1>5 DEF JobInv, JobTypeOK, MailTellsTheVerdict, StagedWhileOpen
  <1> QED
    BY <1>5, <1>6 DEF JobInv

-----------------------------------------------------------------------------
\* A claim finds a job that is in nobody's hands.
LEMMA RunnableIsFree ==
  ASSUME JobInv, NEW j \in Jobs, OldestRunnable(j)
  PROVE  /\ job[j].status \in {"queued", "running"} /\ mails[j] = <<>>
         /\ \A v \in JobWorkers : runner[v].pc \in Stations => runner[v].holds # j
  <1>1. job[j].status \in {"queued", "running"} /\ (job[j].status = "queued" \/ j \in overdue)
    BY DEF OldestRunnable, Runnable
  <1>2. ASSUME NEW v \in JobWorkers, runner[v].pc \in Stations PROVE runner[v].holds # j
    BY <1>1, <1>2 DEF JobInv, RunnersCarry, Carries, Stations, Closing, Ends
  <1> QED
    BY <1>1, <1>2, OpenIsUntold DEF Ends

LEMMA JobClaimKeeps ==
  ASSUME JobInv, NEW w \in JobWorkers, NEW j \in Jobs, ClaimJob(w, j)
  PROVE  JobInv'
  <1> DEFINE next == At("claimed", j, "none", "none")
  <1>1. /\ job[j].status \in {"queued", "running"} /\ mails[j] = <<>>
        /\ \A v \in JobWorkers : runner[v].pc \in Stations => runner[v].holds # j
    BY RunnableIsFree DEF ClaimJob
  <1>2. /\ job'[j] = [status |-> "running", runs |-> job[j].runs + 1]
        /\ \A k \in Jobs \ {j} : job'[k] = job[k]
        /\ overdue' = overdue \ {j}
        /\ runner' = [runner EXCEPT ![w] = next]
        /\ UNCHANGED <<queue, account, staged, imported, mails, kills>>
    BY DEF ClaimJob, JobInv, JobTypeOK
  <1>3. /\ next \in RunnerStates /\ next.pc = "claimed" /\ next.holds = j
    BY StationTypes DEF Stations, Running, Closing, Ends
  <1> HIDE DEF next
  <1>4. Carries(next)'
    BY <1>2, <1>3 DEF Carries, Stations, Running, Closing
  <1>5. \A v \in JobWorkers : runner[v].pc \in Stations => runner[v].holds \in Jobs
    BY DEF JobInv, RunnersCarry, Carries
  <1>6. RunnersCarry' /\ JobHeldOnce' /\ runner' \in [JobWorkers -> RunnerStates]
    BY <1>1, <1>2, <1>3, <1>4, <1>5, RunnerStep
  <1>7. job' \in [Jobs -> [status : {"absent", "queued", "running", "done", "failed"},
                           runs : 0 .. MaxRuns]]
    <2>1. job[j].runs + 1 \in 0 .. MaxRuns
      BY JobAssumption DEF ClaimJob, JobInv, JobTypeOK
    <2>2. job' = [job EXCEPT ![j] = [status |-> "running", runs |-> job[j].runs + 1]]
      BY DEF ClaimJob
    <2> QED
      BY <2>1, <2>2 DEF JobInv, JobTypeOK
  <1>8. JobTypeOK'
    BY <1>2, <1>6, <1>7 DEF JobInv, JobTypeOK
  <1>9. MailTellsTheVerdict'
    BY <1>1, <1>2 DEF JobInv, MailTellsTheVerdict
  <1>10. StagedWhileOpen'
    BY <1>1, <1>2 DEF JobInv, StagedWhileOpen
  <1> QED
    BY <1>6, <1>8, <1>9, <1>10 DEF JobInv

\* A poison row is landed in the claim: nobody holds it and nobody was told of it.
LEMMA JobBuryKeeps ==
  ASSUME JobInv, NEW w \in JobWorkers, NEW j \in Jobs, BuryJob(w, j)
  PROVE  JobInv'
  <1>0. PICK mail \in {"none", "failed"} : mail = FailureMail(j)
    BY DEF FailureMail
  <1> DEFINE next == At("committed", j, "failed", mail)
  <1>1. /\ job[j].status \in {"queued", "running"} /\ mails[j] = <<>>
        /\ \A v \in JobWorkers : runner[v].pc \in Stations => runner[v].holds # j
    BY RunnableIsFree DEF BuryJob
  <1>2. /\ job'[j].status = "failed" /\ \A k \in Jobs \ {j} : job'[k] = job[k]
        /\ overdue' = overdue \ {j}
        /\ runner' = [runner EXCEPT ![w] = next]
        /\ UNCHANGED <<queue, account, staged, imported, mails, kills>>
    BY <1>0 DEF BuryJob, JobInv, JobTypeOK
  <1>4. /\ next \in RunnerStates /\ next.pc = "committed" /\ next.holds = j
        /\ next.verdict = "failed" /\ next.mail \in {"none", "failed"}
    BY StationTypes DEF Stations, Running, Closing, Ends, Mails
  <1> HIDE DEF next
  <1>5. Carries(next)'
    BY <1>1, <1>2, <1>4 DEF Carries, Stations, Running, Closing, Ends
  <1>6. \A v \in JobWorkers : runner[v].pc \in Stations => runner[v].holds \in Jobs
    BY DEF JobInv, RunnersCarry, Carries
  <1>7. RunnersCarry' /\ JobHeldOnce' /\ runner' \in [JobWorkers -> RunnerStates]
    BY <1>1, <1>2, <1>4, <1>5, <1>6, RunnerStep
  <1>8. JobTypeOK'
    BY <1>2, <1>7 DEF BuryJob, JobInv, JobTypeOK
  <1>9. MailTellsTheVerdict'
    BY <1>1, <1>2 DEF JobInv, MailTellsTheVerdict
  <1>10. StagedWhileOpen'
    BY <1>2 DEF JobInv, StagedWhileOpen
  <1> QED
    BY <1>7, <1>8, <1>9, <1>10 DEF JobInv

-----------------------------------------------------------------------------
\* What a worker at a station knows of its job.
LEMMA AtStation ==
  ASSUME JobInv, NEW w \in JobWorkers, runner[w].pc \in Stations
  PROVE  /\ runner[w].holds \in Jobs /\ Carries(runner[w]) /\ runner[w] \in RunnerStates
         /\ \A v \in JobWorkers \ {w} : runner[v].pc \in Stations =>
               runner[v].holds \in Jobs \ {runner[w].holds}
  <1>1. /\ runner[w] \in RunnerStates
        /\ \A v \in JobWorkers : Carries(runner[v])
    BY DEF JobInv, JobTypeOK, RunnersCarry
  <1>2. \A v \in JobWorkers : runner[v].pc \in Stations => runner[v].holds \in Jobs
    BY <1>1 DEF Carries
  <1> QED
    BY <1>1, <1>2 DEF JobInv, JobHeldOnce

\* A worker at a station moves on with its job, or lets it go.
LEMMA StationStep ==
  ASSUME JobInv, NEW w \in JobWorkers, runner[w].pc \in Stations,
         NEW j \in Jobs, j = runner[w].holds,
         NEW next \in RunnerStates, next.pc \in Stations => next.holds = j,
         runner' = [runner EXCEPT ![w] = next], Carries(next)',
         \A k \in Jobs \ {j} : job'[k] = job[k] /\ mails'[k] = mails[k],
         overdue' \subseteq overdue, imported \subseteq imported'
  PROVE  RunnersCarry' /\ JobHeldOnce' /\ runner' \in [JobWorkers -> RunnerStates]
  <1>1. \A v \in JobWorkers \ {w} : runner[v].pc \in Stations => runner[v].holds \in Jobs \ {j}
    BY AtStation
  <1>2. \A v \in JobWorkers \ {w} : runner[v].pc \in Stations =>
           /\ next.pc \in Stations => runner[v].holds # next.holds
           /\ job'[runner[v].holds] = job[runner[v].holds]
           /\ mails'[runner[v].holds] = mails[runner[v].holds]
    BY <1>1
  <1> QED
    BY <1>2, RunnerStep

LEMMA CheckKeeps ==
  ASSUME JobInv, NEW w \in JobWorkers, Check(w)
  PROVE  JobInv'
  <1>1. PICK j \in Jobs : j = runner[w].holds
    BY AtStation DEF Check, Stations, Running
  <1>2. runner[w].pc = "claimed" /\ runner[w].pc \in Stations
    BY DEF Check, Stations, Running
  <1>3. job[j].status = "running" /\ j \notin overdue
    BY <1>1, <1>2, AtStation DEF Carries, Running
  <1>4. PICK pc \in {"over", "importing"}, verdict \in {"failed", "none"},
             mail \in {"failed", "none"} :
           /\ runner' = [runner EXCEPT ![w] = At(pc, j, verdict, mail)]
           /\ pc = "over" => verdict = "failed"
    BY <1>1 DEF Check
  <1> DEFINE next == At(pc, j, verdict, mail)
  <1>5. /\ next \in RunnerStates /\ next.pc = pc /\ next.holds = j
        /\ next.verdict = verdict /\ next.mail = mail
    BY StationTypes DEF Stations, Running, Closing, Ends, Mails
  <1>6. runner' = [runner EXCEPT ![w] = next]
    BY <1>4
  <1> HIDE DEF next
  <1>7. UNCHANGED <<job, queue, overdue, account, staged, imported, mails, kills>>
    BY DEF Check
  <1>8. Carries(next)'
    BY <1>3, <1>4, <1>5, <1>7 DEF Carries, Stations, Running, Closing, Ends
  <1>9. RunnersCarry' /\ JobHeldOnce' /\ runner' \in [JobWorkers -> RunnerStates]
    BY <1>1, <1>2, <1>5, <1>6, <1>7, <1>8, StationStep
  <1> QED
    BY <1>7, <1>9 DEF JobInv, JobTypeOK, MailTellsTheVerdict, StagedWhileOpen

LEMMA ImportKeeps ==
  ASSUME JobInv, NEW w \in JobWorkers, Import(w)
  PROVE  JobInv'
  <1>1. PICK j \in Jobs : j = runner[w].holds
    BY AtStation DEF Import, Stations, Running
  <1>2. runner[w].pc = "importing" /\ runner[w].pc \in Stations
    BY DEF Import, Stations, Running
  <1>3. job[j].status = "running" /\ j \notin overdue
    BY <1>1, <1>2, AtStation DEF Carries, Running
  <1>4. PICK verdict \in Ends, mail \in {"complete", "failed", "none"} :
           /\ runner' = [runner EXCEPT ![w] = At("over", j, verdict, mail)]
           /\ verdict = "done" => j \in imported'
           /\ mail = "complete" => verdict = "done"
           /\ mail = "failed" => verdict = "failed"
    <2>1. PICK refusal \in {"failed", "none"} : refusal = FailureMail(j)
      BY DEF FailureMail
    <2> QED
      BY <1>1, <2>1 DEF Import, Ends
  <1> DEFINE next == At("over", j, verdict, mail)
  <1>5. /\ next \in RunnerStates /\ next.pc = "over" /\ next.holds = j
        /\ next.verdict = verdict /\ next.mail = mail
    BY StationTypes DEF Stations, Running, Closing, Ends, Mails
  <1>6. runner' = [runner EXCEPT ![w] = next]
    BY <1>4
  <1> HIDE DEF next
  <1>7. /\ UNCHANGED <<job, queue, overdue, account, staged, mails, kills>>
        /\ imported \subseteq imported' /\ imported' \subseteq Jobs
    BY <1>1 DEF Import, JobInv, JobTypeOK
  <1>8. Carries(next)'
    BY <1>3, <1>4, <1>5, <1>7 DEF Carries, Stations, Running, Closing, Ends
  <1>9. RunnersCarry' /\ JobHeldOnce' /\ runner' \in [JobWorkers -> RunnerStates]
    BY <1>1, <1>2, <1>5, <1>6, <1>7, <1>8, StationStep
  <1>10. MailTellsTheVerdict'
    BY <1>7 DEF JobInv, MailTellsTheVerdict
  <1> QED
    BY <1>7, <1>9, <1>10 DEF JobInv, JobTypeOK, StagedWhileOpen

\* The commit: nobody has been told yet, and the row now says what the mail will.
LEMMA ConcludeKeeps ==
  ASSUME JobInv, NEW w \in JobWorkers, Conclude(w)
  PROVE  JobInv'
  <1>1. PICK j \in Jobs : j = runner[w].holds
    BY AtStation DEF Conclude, Stations, Running
  <1>2. runner[w].pc = "over" /\ runner[w].pc \in Stations
    BY DEF Conclude, Stations, Running
  <1>3. PICK next : next = [runner[w] EXCEPT !.pc = "committed"]
    OBVIOUS
  <1>4. PICK verdict \in Ends : verdict = runner[w].verdict
    BY <1>2, AtStation DEF Carries
  <1>5. /\ next \in RunnerStates /\ next.pc = "committed" /\ next.holds = j
        /\ next.verdict = verdict /\ next.mail = runner[w].mail
    BY <1>1, <1>2, <1>3, <1>4, AtStation DEF RunnerStates
  <1>6. runner' = [runner EXCEPT ![w] = next]
    BY <1>3 DEF Conclude
  <1>7. /\ job'[j].status = verdict /\ \A k \in Jobs \ {j} : job'[k] = job[k]
        /\ job' \in [Jobs -> [status : {"absent", "queued", "running", "done", "failed"},
                              runs : 0 .. MaxRuns]]
    BY <1>1, <1>4 DEF Conclude, JobInv, JobTypeOK, Ends
  <1>8. /\ overdue' = overdue \ {j}
        /\ UNCHANGED <<queue, account, staged, imported, mails, kills>>
    BY <1>1 DEF Conclude
  <1>9. job[j].status = "running" /\ mails[j] = <<>>
    BY <1>1, <1>2, AtStation, OpenIsUntold DEF Carries, Running, Ends
  <1>10. /\ verdict = "done" => j \in imported
         /\ next.mail = "complete" => verdict = "done"
         /\ next.mail = "failed" => verdict = "failed"
    BY <1>1, <1>2, <1>4, <1>5, AtStation DEF Carries
  <1>11. Carries(next)'
    BY <1>5, <1>7, <1>8, <1>9, <1>10 DEF Carries, Stations, Running, Closing, Ends
  <1>12. RunnersCarry' /\ JobHeldOnce' /\ runner' \in [JobWorkers -> RunnerStates]
    BY <1>1, <1>2, <1>5, <1>6, <1>7, <1>8, <1>11, StationStep
  <1>13. JobTypeOK'
    BY <1>7, <1>8, <1>12 DEF JobInv, JobTypeOK
  <1>14. MailTellsTheVerdict'
    BY <1>7, <1>8, <1>9, <1>10 DEF JobInv, MailTellsTheVerdict
  <1>15. StagedWhileOpen'
    BY <1>7, <1>8 DEF JobInv, StagedWhileOpen, Ends
  <1> QED
    BY <1>12, <1>13, <1>14, <1>15 DEF JobInv

\* The zip goes once no run can want it.
LEMMA SweepKeeps ==
  ASSUME JobInv, NEW w \in JobWorkers, Sweep(w)
  PROVE  JobInv'
  <1>1. PICK j \in Jobs : j = runner[w].holds
    BY AtStation DEF Sweep, Stations, Closing
  <1>2. runner[w].pc = "committed" /\ runner[w].pc \in Stations
    BY DEF Sweep, Stations, Closing
  <1>3. PICK next : next = [runner[w] EXCEPT !.pc = "swept"]
    OBVIOUS
  <1>4. /\ next \in RunnerStates /\ next.pc = "swept" /\ next.holds = j
        /\ next.verdict = runner[w].verdict /\ next.mail = runner[w].mail
    BY <1>1, <1>2, <1>3, AtStation DEF RunnerStates
  <1>5. runner' = [runner EXCEPT ![w] = next]
    BY <1>3 DEF Sweep
  <1>6. /\ UNCHANGED <<job, queue, overdue, account, imported, mails, kills>>
        /\ staged' \subseteq staged /\ staged \ staged' \subseteq {j}
    BY <1>1 DEF Sweep
  <1>7. Carries(next)'
    BY <1>1, <1>2, <1>4, <1>6, AtStation DEF Carries, Stations, Running, Closing
  <1>8. RunnersCarry' /\ JobHeldOnce' /\ runner' \in [JobWorkers -> RunnerStates]
    BY <1>1, <1>2, <1>4, <1>5, <1>6, <1>7, StationStep
  <1>9. job[j].status \in Ends
    BY <1>1, <1>2, AtStation DEF Carries, Closing
  <1>10. StagedWhileOpen'
    BY <1>6, <1>9 DEF JobInv, StagedWhileOpen, Ends
  <1> QED
    BY <1>6, <1>8, <1>10 DEF JobInv, JobTypeOK, MailTellsTheVerdict

\* The owner hears for the first time, and what the row says.
LEMMA MailKeeps ==
  ASSUME JobInv, NEW w \in JobWorkers, Mail(w)
  PROVE  JobInv'
  <1>1. PICK j \in Jobs : j = runner[w].holds
    BY AtStation DEF Mail, Stations, Closing
  <1>2. runner[w].pc = "swept" /\ runner[w].pc \in Stations
    BY DEF Mail, Stations, Closing
  <1>3. /\ job[j].status = runner[w].verdict /\ mails[j] = <<>>
        /\ runner[w].mail = "complete" => job[j].status = "done"
        /\ runner[w].mail = "failed" => job[j].status = "failed"
        /\ runner[w].mail \in Mails \cup {"none"}
    BY <1>1, <1>2, AtStation DEF Carries, Closing, RunnerStates
  <1>4. /\ runner' = [runner EXCEPT ![w] = Loose("drain")]
        /\ UNCHANGED <<job, queue, overdue, account, staged, imported, kills>>
    BY DEF Mail
  <1>5. \/ mails' = mails
        \/ /\ runner[w].mail \in Mails
           /\ mails' = [mails EXCEPT ![j] = Append(mails[j], runner[w].mail)]
    BY <1>1, <1>3 DEF Mail
  <1>6. mails' \in [Jobs -> Seq(Mails)] /\ \A k \in Jobs \ {j} : mails'[k] = mails[k]
    <2>1. CASE mails' = mails
      BY <2>1 DEF JobInv, JobTypeOK
    <2>2. CASE /\ runner[w].mail \in Mails
               /\ mails' = [mails EXCEPT ![j] = Append(mails[j], runner[w].mail)]
      <3>1. mails \in [Jobs -> Seq(Mails)]
        BY DEF JobInv, JobTypeOK
      <3>2. Append(mails[j], runner[w].mail) \in Seq(Mails)
        BY <2>2, <3>1
      <3> QED
        BY <2>2, <3>1, <3>2
    <2> QED
      BY <1>5, <2>1, <2>2
  <1>7. Carries(Loose("drain"))'
    BY DEF Loose, At, Carries, Stations, Running, Closing
  <1>8. RunnersCarry' /\ JobHeldOnce' /\ runner' \in [JobWorkers -> RunnerStates]
    BY <1>1, <1>2, <1>4, <1>6, <1>7, RestTypes, StationStep
  <1>9. JobTypeOK' /\ StagedWhileOpen'
    BY <1>4, <1>6, <1>8 DEF JobInv, JobTypeOK, StagedWhileOpen
  <1>10. MailTellsTheVerdict'
    <2>1. mails'[j] = <<>> \/ (mails'[j] = <<runner[w].mail>> /\ runner[w].mail \in Mails)
      BY <1>3, <1>5 DEF JobInv, JobTypeOK
    <2>2. CASE mails'[j] = <<>>
      BY <1>4, <1>6, <2>2 DEF JobInv, MailTellsTheVerdict
    <2>3. CASE mails'[j] = <<runner[w].mail>> /\ runner[w].mail \in Mails
      <3>1. Len(mails'[j]) = 1 /\ DOMAIN mails'[j] = {1} /\ mails'[j][1] = runner[w].mail
        BY <2>3
      <3>2. job[j].status = IF runner[w].mail = "complete" THEN "done" ELSE "failed"
        BY <1>3, <2>3 DEF Mails
      <3>3. \A k \in Jobs : job[k].status = "done" => k \in imported
        BY DEF JobInv, MailTellsTheVerdict
      <3>4. \A k \in Jobs \ {j} :
              /\ Len(mails'[k]) <= 1
              /\ \A i \in DOMAIN mails'[k] :
                    job[k].status = IF mails'[k][i] = "complete" THEN "done" ELSE "failed"
        BY <1>6 DEF JobInv, MailTellsTheVerdict
      <3>5. /\ Len(mails'[j]) <= 1
            /\ \A i \in DOMAIN mails'[j] :
                  job[j].status = IF mails'[j][i] = "complete" THEN "done" ELSE "failed"
        BY <3>1, <3>2
      <3>6. job' = job /\ imported' = imported
        BY <1>4
      <3> QED
        BY <3>3, <3>4, <3>5, <3>6 DEF MailTellsTheVerdict
    <2> QED
      BY <2>1, <2>2, <2>3
  <1> QED
    BY <1>8, <1>9, <1>10 DEF JobInv

-----------------------------------------------------------------------------
\* The queue of imports keeps its invariant, whatever dies when.
THEOREM JobsCorrect == JobSpec => []JobInv
  <1>1. JobInit => JobInv
    BY InitJobs
  <1>2. JobInv /\ [JobNext]_jobVars => JobInv'
    <2> SUFFICES ASSUME JobInv, [JobNext]_jobVars PROVE JobInv'
      OBVIOUS
    <2>1. ASSUME NEW w \in JobWorkers, RunJobs(w) \/ ConcludeFails(w) \/ Kill(w) \/ Reboot(w)
          PROVE  JobInv'
      BY <2>1, JobRestKeeps, JobClaimKeeps, JobBuryKeeps, CheckKeeps, ImportKeeps, ConcludeKeeps,
         SweepKeeps, MailKeeps
      DEF RunJobs
    <2>2. ASSUME NEW j \in Jobs, EnqueueJob(j) PROVE JobInv'
      BY <2>2, JobEnqueueKeeps
    <2>3. CASE (\E j \in Jobs : GoOverdue(j)) \/ (\E u \in Analysts : LoseAccount(u))
      BY <2>3, OutsideKeeps
    <2>4. CASE UNCHANGED jobVars
      BY <2>4 DEF jobVars, JobInv, JobTypeOK, MailTellsTheVerdict, StagedWhileOpen,
                  RunnersCarry, Carries, JobHeldOnce
    <2> QED
      BY <2>1, <2>2, <2>3, <2>4 DEF JobNext
  <1> QED
    BY <1>1, <1>2, PTL DEF JobSpec

\* The owner hears at most once, and hears what the row says (the order of _finish and the email).
THEOREM MailIsTrue == JobSpec => []MailTellsTheVerdict
  BY JobsCorrect, PTL DEF JobInv

\* The zip outlives every run that may need it (the sweep after the commit of _finish).
THEOREM ZipIsKept == JobSpec => []StagedWhileOpen
  BY JobsCorrect, PTL DEF JobInv

-----------------------------------------------------------------------------
\* What may become of one row in a step.
JobRowMoves(j) ==
    \/ job'[j].status = job[j].status
    \/ job[j].status = "absent" /\ job'[j].status = "queued"
    \/ job[j].status \in {"queued", "running"} /\ job'[j].status \in {"running"} \cup Ends

\* Every step moves every job as the ledger lets it.
LEMMA JobRowsMove ==
  ASSUME JobInv, [JobNext]_jobVars, NEW j \in Jobs
  PROVE  JobRowMoves(j)
  <1>1. job \in [Jobs -> [status : {"absent", "queued", "running", "done", "failed"},
                         runs : 0 .. MaxRuns]]
    BY DEF JobInv, JobTypeOK
  <1>2. ASSUME NEW w \in JobWorkers, NEW k \in Jobs, ClaimJob(w, k) \/ BuryJob(w, k)
        PROVE  JobRowMoves(j)
    <2>1. job[k].status \in {"queued", "running"}
      BY <1>2 DEF ClaimJob, BuryJob, OldestRunnable, Runnable
    <2> QED
      BY <1>1, <1>2, <2>1 DEF ClaimJob, BuryJob, JobRowMoves, Ends
  <1>3. ASSUME NEW w \in JobWorkers, Conclude(w) PROVE JobRowMoves(j)
    <2>1. /\ runner[w].holds \in Jobs /\ job[runner[w].holds].status = "running"
          /\ runner[w].verdict \in Ends
      BY <1>3, AtStation DEF Conclude, Carries, Stations, Running
    <2> QED
      BY <1>1, <1>3, <2>1 DEF Conclude, JobRowMoves
  <1>4. CASE \E k \in Jobs : EnqueueJob(k)
    BY <1>1, <1>4 DEF EnqueueJob, JobRowMoves
  <1>5. CASE UNCHANGED job
    BY <1>5 DEF JobRowMoves
  <1>6. ASSUME NEW w \in JobWorkers, BeginRun(w) \/ EndRun(w) \/ Check(w) \/ Import(w)
                  \/ Sweep(w) \/ Mail(w) \/ ConcludeFails(w) \/ Kill(w) \/ Reboot(w)
        PROVE  UNCHANGED job
    BY <1>6 DEF BeginRun, EndRun, Check, Import, Sweep, Mail, ConcludeFails, Kill, Reboot
  <1>7. (\E k \in Jobs : GoOverdue(k)) \/ (\E u \in Analysts : LoseAccount(u)) => UNCHANGED job
    BY DEF GoOverdue, LoseAccount
  <1> QED
    BY <1>2, <1>3, <1>4, <1>5, <1>6, <1>7 DEF JobNext, RunJobs, jobVars

LEMMA JobStepIsLedgers ==
  ASSUME JobInv, [JobNext]_jobVars
  PROVE  Imports!Next
  <1> SUFFICES ASSUME NEW j \in Jobs
               PROVE  Imports!Moves(JobLedger[j], JobLedger'[j])
    BY DEF Imports!Next
  <1>1. JobRowMoves(j) /\ job[j].status \in {"absent", "queued", "running", "done", "failed"}
    BY JobRowsMove DEF JobInv, JobTypeOK
  <1>2. /\ job[j].status = "absent" => JobLedger[j] = "new"
        /\ job[j].status \in {"queued", "running"} => JobLedger[j] = "open"
        /\ job'[j].status \in {"queued", "running"} => JobLedger'[j] = "open"
        /\ job'[j].status \in Ends => JobLedger'[j] = job'[j].status
    BY DEF JobLedger, Ends
  <1>3. CASE job'[j].status = job[j].status
    BY <1>3 DEF JobLedger, Imports!Moves
  <1>4. CASE job[j].status = "absent" /\ job'[j].status = "queued"
    BY <1>2, <1>4 DEF Imports!Moves
  <1>5. CASE job[j].status \in {"queued", "running"} /\ job'[j].status \in {"running"} \cup Ends
    BY <1>2, <1>5 DEF Imports!Moves, Ends
  <1> QED
    BY <1>1, <1>3, <1>4, <1>5 DEF JobRowMoves

\* The safety half of JobsSettle: a job that ended has ended, for good.
THEOREM JobVerdictsStand == JobSpec => Imports!Init /\ [][Imports!Next]_JobLedger
  <1>1. JobInit => Imports!Init
    BY DEF JobInit, Imports!Init, JobLedger
  <1>2. JobInv /\ [JobNext]_jobVars => [Imports!Next]_JobLedger
    BY JobStepIsLedgers
  <1> QED
    BY <1>1, <1>2, JobsCorrect, PTL DEF JobSpec

-----------------------------------------------------------------------------
(***************************************************************************)
(* The deliveries: no notification email leaves twice, whatever the        *)
(* provider and the database answer.                                       *)
(***************************************************************************)

DeliveryHolding == {"claimed", "attempted"}

\* A row on the queue has tries left and has not left the house; its clocks stand still past
\* the delays they are compared with.
RowStands(d) ==
    /\ delivery[d].status \in {"absent", "queued", "running"} => delivery[d].refusals < MaxRefusals
    /\ delivery[d].status \in {"absent", "queued"} => outbox[d].times = 0
    /\ delivery[d].claimed <= CapWindow + 1
    /\ outbox[d].age <= CapWindow + 1

\* A worker holds the row of its claim, running and fresh, and nothing of it went out before the
\* provider was called, nor after an answer that says so.
HoldStands(w) ==
    /\ sender[w].pc \notin DeliveryHolding => sender[w].row = NoDelivery
    /\ sender[w].pc \in DeliveryHolding =>
         /\ sender[w].row \in Deliveries
         /\ delivery[sender[w].row].status = "running"
         /\ delivery[sender[w].row].claimed = 0
    /\ sender[w].pc = "claimed" => outbox[sender[w].row].times = 0
    /\ (sender[w].pc = "attempted" /\ sender[w].outcome \notin {"sent", "unknown"}) =>
         outbox[sender[w].row].times = 0

HeldByOne ==
    \A v, w \in DeliveryWorkers :
        v # w /\ sender[v].row = sender[w].row => sender[v].row = NoDelivery

DeliveryInv ==
    /\ DeliveryTypeOK
    /\ NeverSentTwice
    /\ \A d \in Deliveries : RowStands(d)
    /\ \A w \in DeliveryWorkers : HoldStands(w)
    /\ HeldByOne

-----------------------------------------------------------------------------
\* The times and the caps are numbers, and a row counts for its caps for less than it lives.
LEMMA Numbers ==
  /\ RetryAfter \in Nat /\ StaleAfter \in Nat /\ CapWindow \in Nat /\ ExpiresAfter \in Nat
  /\ MaxDeaths \in Nat /\ MaxRefusals \in Nat /\ MaxRefusals > 0
  /\ CapWindow < ExpiresAfter
  BY DeliveryAssumption

LEMMA InitDelivery == DeliveryInit => DeliveryInv
  BY Numbers DEF DeliveryInit, DeliveryInv, DeliveryTypeOK, DeliveryRows, Ages, Never, Resting,
                 NeverSentTwice, RowStands, HoldStands, DeliveryHolding, HeldByOne

\* A row that leaves the queue keeps its refusals and, or not, the time of its claim.
LEMMA LeaveTypes ==
  ASSUME NEW row \in DeliveryRows, NEW status \in {"done", "failed", "skipped", "deleted"}
  PROVE  /\ Leave(row, status) \in DeliveryRows
         /\ Leave(row, status).status = status
         /\ Leave(row, status).claimed \in {row.claimed, Never}
         /\ Leave(row, status).refusals = row.refusals
  <1> DEFINE claimed == IF status = "failed" THEN row.claimed ELSE Never
  <1>1. Leave(row, status) = [row EXCEPT !.status = status, !.created = 0, !.claimed = claimed]
    BY DEF Leave
  <1>2. 0 \in Ages /\ claimed \in Ages \cup {Never} /\ claimed \in {row.claimed, Never}
    BY Numbers DEF Ages, DeliveryRows
  <1> HIDE DEF claimed
  <1>3. row = [status |-> row.status, refusals |-> row.refusals, created |-> row.created,
               claimed |-> row.claimed, linked |-> row.linked]
    BY DEF DeliveryRows
  <1>4. Leave(row, status) =
          [status |-> status, refusals |-> row.refusals, created |-> 0,
           claimed |-> claimed, linked |-> row.linked]
    BY <1>1, <1>3
  <1>5. row.refusals \in 0 .. MaxRefusals /\ row.linked \in BOOLEAN
    BY DEF DeliveryRows
  <1> QED
    BY <1>2, <1>4, <1>5 DEF DeliveryRows

\* A refusal sends the row back while it has tries left.
LEMMA RefusedTypes ==
  ASSUME NEW row \in DeliveryRows, row.refusals < MaxRefusals, row.status = "running"
  PROVE  /\ Refused(row) \in DeliveryRows
         /\ Refused(row).status \in {"queued", "failed"}
         /\ Refused(row).status = "queued" => Refused(row).refusals < MaxRefusals
         /\ Refused(row).claimed \in {row.claimed, Never}
  <1> DEFINE counted == [row EXCEPT !.refusals = @ + 1]
  <1>1. /\ counted \in DeliveryRows /\ counted.claimed = row.claimed
        /\ counted.refusals = row.refusals + 1
    BY Numbers DEF DeliveryRows
  <1>2. CASE counted.refusals >= MaxRefusals
    <2>1. Refused(row) = Leave(counted, "failed")
      BY <1>2 DEF Refused
    <2> HIDE DEF counted
    <2> QED
      BY <1>1, <2>1, LeaveTypes
  <1>3. CASE ~(counted.refusals >= MaxRefusals)
    <2>1. Refused(row) = [counted EXCEPT !.status = "queued"]
      BY <1>3 DEF Refused
    <2>2. counted.refusals < MaxRefusals
      BY <1>1, <1>3, Numbers DEF DeliveryRows
    <2> HIDE DEF counted
    <2> QED
      BY <1>1, <2>1, <2>2 DEF DeliveryRows
  <1> QED
    BY <1>2, <1>3

-----------------------------------------------------------------------------
\* A step that leaves the provider and the workers alone, the rows that are held included.
LEMMA DeliveryRowsMove ==
  ASSUME DeliveryInv, UNCHANGED <<outbox, sender, deaths>>,
         delivery' \in [Deliveries -> DeliveryRows],
         \A d \in Deliveries : RowStands(d)',
         \A d \in Deliveries : (delivery[d].status = "running" /\ delivery[d].claimed = 0) =>
            delivery'[d].status = "running" /\ delivery'[d].claimed = 0
  PROVE  DeliveryInv'
  <1>1. DeliveryTypeOK' /\ NeverSentTwice' /\ HeldByOne'
    BY DEF DeliveryInv, DeliveryTypeOK, NeverSentTwice, HeldByOne
  <1>2. ASSUME NEW w \in DeliveryWorkers PROVE HoldStands(w)'
    BY DEF DeliveryInv, HoldStands
  <1> QED
    BY <1>1, <1>2 DEF DeliveryInv

LEMMA NotifyKeeps ==
  ASSUME DeliveryInv, NEW d \in Deliveries, Notify(d)
  PROVE  DeliveryInv'
  <1>1. /\ delivery[d] \in DeliveryRows /\ delivery[d].status = "absent"
        /\ delivery' = [delivery EXCEPT ![d] = [delivery[d] EXCEPT !.status = "queued"]]
        /\ UNCHANGED <<outbox, sender, deaths>>
    BY DEF DeliveryInv, DeliveryTypeOK, Notify
  <1> DEFINE row == [delivery[d] EXCEPT !.status = "queued"]
  <1>2. /\ row \in DeliveryRows /\ row.status = "queued"
        /\ row.claimed = delivery[d].claimed /\ row.refusals = delivery[d].refusals
    BY <1>1 DEF DeliveryRows
  <1>3. delivery' = [delivery EXCEPT ![d] = row]
    BY <1>1
  <1> HIDE DEF row
  <1>4. delivery' \in [Deliveries -> DeliveryRows]
    BY <1>2, <1>3 DEF DeliveryInv, DeliveryTypeOK
  <1>5. delivery'[d] = row /\ \A e \in Deliveries \ {d} : delivery'[e] = delivery[e]
    BY <1>3 DEF DeliveryInv, DeliveryTypeOK
  <1>6. \A e \in Deliveries : RowStands(e)'
    BY <1>1, <1>2, <1>5 DEF DeliveryInv, RowStands
  <1> QED
    BY <1>1, <1>4, <1>5, <1>6, DeliveryRowsMove

LEMMA DeleteKeeps ==
  ASSUME DeliveryInv, NEW d \in Deliveries, DeleteNotification(d)
  PROVE  DeliveryInv'
  <1> DEFINE loose == [delivery[d] EXCEPT !.linked = FALSE]
             row == IF loose.status \in {"queued", "skipped"} THEN Leave(loose, "deleted")
                                                               ELSE loose
  <1>1. delivery' = [delivery EXCEPT ![d] = row] /\ UNCHANGED <<outbox, sender, deaths>>
    BY DEF DeleteNotification
  <1>2. /\ loose \in DeliveryRows /\ loose.status = delivery[d].status
        /\ loose.claimed = delivery[d].claimed /\ loose.refusals = delivery[d].refusals
    <2>1. delivery[d] \in DeliveryRows
      BY DEF DeliveryInv, DeliveryTypeOK
    <2> QED
      BY <2>1 DEF DeliveryRows
  <1> HIDE DEF loose
  <1>3. /\ row \in DeliveryRows
        /\ row.status \in {delivery[d].status, "deleted"}
        /\ delivery[d].status = "running" => row = loose
        /\ row.claimed \in {delivery[d].claimed, Never} /\ row.refusals = delivery[d].refusals
    BY <1>2, LeaveTypes
  <1> HIDE DEF row
  <1>4. delivery' \in [Deliveries -> DeliveryRows]
    BY <1>1, <1>3 DEF DeliveryInv, DeliveryTypeOK
  <1>5. delivery'[d] = row /\ \A e \in Deliveries \ {d} : delivery'[e] = delivery[e]
    BY <1>1 DEF DeliveryInv, DeliveryTypeOK
  <1>6. \A e \in Deliveries : RowStands(e)'
    BY <1>1, <1>3, <1>5, Numbers DEF DeliveryInv, RowStands, Never
  <1> QED
    BY <1>1, <1>2, <1>3, <1>4, <1>5, <1>6, DeliveryRowsMove

-----------------------------------------------------------------------------
\* A worker turns to something else and lets go of whatever it held.
LEMMA DeliveryLetGo ==
  ASSUME DeliveryInv, NEW w \in DeliveryWorkers, NEW pc \in {"down", "idle", "drain"},
         sender' = [sender EXCEPT ![w] = Resting(pc)], UNCHANGED outbox, deaths' \in Nat,
         delivery' \in [Deliveries -> DeliveryRows],
         \A d \in Deliveries : RowStands(d)',
         \A d \in Deliveries :
            (delivery[d].status = "running" /\ delivery[d].claimed = 0 /\ sender[w].row # d) =>
               delivery'[d].status = "running" /\ delivery'[d].claimed = 0
  PROVE  DeliveryInv'
  <1>1. /\ sender'[w] = Resting(pc) /\ \A v \in DeliveryWorkers \ {w} : sender'[v] = sender[v]
        /\ sender' \in [DeliveryWorkers ->
                     [pc : {"down", "idle", "drain", "claimed", "attempted"},
                      row : Deliveries \cup {NoDelivery},
                      outcome : SendOutcomes \cup {"none"}]]
    BY DEF DeliveryInv, DeliveryTypeOK, Resting
  <1>2. DeliveryTypeOK' /\ NeverSentTwice'
    BY <1>1 DEF DeliveryInv, DeliveryTypeOK, NeverSentTwice
  <1>3. HoldStands(w)'
    BY <1>1 DEF HoldStands, DeliveryHolding, Resting
  <1>4. ASSUME NEW v \in DeliveryWorkers, v # w PROVE HoldStands(v)'
    <2>1. sender'[v] = sender[v] /\ HoldStands(v)
      BY <1>1, <1>4 DEF DeliveryInv
    <2>2. sender[v].row # NoDelivery => sender[v].row # sender[w].row
      BY <1>4 DEF DeliveryInv, HeldByOne
    <2>3. sender[v].pc \in DeliveryHolding =>
            /\ delivery'[sender[v].row].status = "running"
            /\ delivery'[sender[v].row].claimed = 0
      BY <2>1, <2>2, DeliveryAssumption DEF HoldStands
    <2> QED
      BY <2>1, <2>3 DEF HoldStands
  <1>5. HeldByOne'
    BY <1>1 DEF DeliveryInv, HeldByOne, Resting
  <1> QED
    BY <1>2, <1>3, <1>4, <1>5 DEF DeliveryInv

LEMMA DieKeeps ==
  ASSUME DeliveryInv, NEW w \in DeliveryWorkers, EndPass(w) \/ Die(w) \/ Revive(w)
  PROVE  DeliveryInv'
  <1>1. PICK pc \in {"down", "idle", "drain"} : sender' = [sender EXCEPT ![w] = Resting(pc)]
    BY DEF EndPass, Die, Revive
  <1>2. UNCHANGED <<delivery, outbox>> /\ deaths' \in Nat
    BY DEF EndPass, Die, Revive, DeliveryInv, DeliveryTypeOK
  <1>3. delivery' \in [Deliveries -> DeliveryRows] /\ \A d \in Deliveries : RowStands(d)'
    BY <1>2 DEF DeliveryInv, DeliveryTypeOK, RowStands
  <1> QED
    BY <1>1, <1>2, <1>3, DeliveryLetGo

\* The sweep at the start of a pass: a fresh claim is not stale.
LEMMA BeginPassKeeps ==
  ASSUME DeliveryInv, NEW w \in DeliveryWorkers, BeginPass(w)
  PROVE  DeliveryInv'
  <1>1. /\ sender' = [sender EXCEPT ![w] = Resting("drain")]
        /\ UNCHANGED <<outbox, deaths>>
        /\ deaths' \in Nat
    BY DEF BeginPass, DeliveryInv, DeliveryTypeOK
  <1>2. /\ delivery' = [d \in Deliveries |-> delivery'[d]]
        /\ \A d \in Deliveries :
             \/ delivery'[d] = delivery[d]
             \/ /\ delivery[d].status = "running" /\ delivery[d].claimed > StaleAfter
                /\ delivery'[d] = Leave(delivery[d], "failed")
             \/ delivery[d].status = "queued" /\ delivery'[d] = Leave(delivery[d], "skipped")
    BY DEF BeginPass
  <1>3. ASSUME NEW d \in Deliveries
        PROVE  /\ delivery'[d] \in DeliveryRows /\ RowStands(d)'
               /\ (delivery[d].status = "running" /\ delivery[d].claimed = 0) =>
                     delivery'[d] = delivery[d]
    <2>1. delivery[d] \in DeliveryRows /\ RowStands(d) /\ UNCHANGED outbox
      BY <1>1 DEF DeliveryInv, DeliveryTypeOK
    <2>2. CASE delivery'[d] = delivery[d]
      BY <2>1, <2>2 DEF RowStands
    <2>3. CASE /\ delivery[d].status = "running" /\ delivery[d].claimed > StaleAfter
               /\ delivery'[d] = Leave(delivery[d], "failed")
      BY <2>1, <2>3, LeaveTypes, Numbers DEF RowStands, Never
    <2>4. CASE delivery[d].status = "queued" /\ delivery'[d] = Leave(delivery[d], "skipped")
      BY <2>1, <2>4, LeaveTypes, Numbers DEF RowStands, Never
    <2> QED
      BY <1>2, <2>2, <2>3, <2>4
  <1>4. delivery' \in [Deliveries -> DeliveryRows]
    BY <1>2, <1>3
  <1> QED
    BY <1>1, <1>3, <1>4, DeliveryLetGo

-----------------------------------------------------------------------------
\* A row that is claimed was on the queue: nobody holds it, and nothing of it has left.
LEMMA DeliveryClaimKeeps ==
  ASSUME DeliveryInv, NEW w \in DeliveryWorkers, NEW d \in Deliveries, ClaimNext(w, d)
  PROVE  DeliveryInv'
  <1>1. /\ delivery[d].status = "queued"
        /\ sender' = [sender EXCEPT ![w] = [pc |-> "claimed", row |-> d, outcome |-> "none"]]
        /\ delivery' = [delivery EXCEPT ![d] = [delivery[d] EXCEPT !.status = "running",
                                                                 !.claimed = 0]]
        /\ UNCHANGED <<outbox, deaths>>
    BY DEF ClaimNext, Sendable, DeliveryInv, DeliveryTypeOK
  <1> DEFINE row == [delivery[d] EXCEPT !.status = "running", !.claimed = 0]
  <1>2. /\ row \in DeliveryRows /\ row.status = "running" /\ row.claimed = 0
        /\ row.refusals = delivery[d].refusals
    <2>1. delivery[d] \in DeliveryRows /\ 0 \in Ages
      BY Numbers DEF DeliveryInv, DeliveryTypeOK, Ages
    <2> QED
      BY <2>1 DEF DeliveryRows
  <1>3. delivery' = [delivery EXCEPT ![d] = row]
    BY <1>1
  <1> HIDE DEF row
  <1>4. delivery'[d] = row /\ \A e \in Deliveries \ {d} : delivery'[e] = delivery[e]
    BY <1>3 DEF DeliveryInv, DeliveryTypeOK
  <1>5. /\ sender'[w] = [pc |-> "claimed", row |-> d, outcome |-> "none"]
        /\ \A v \in DeliveryWorkers \ {w} : sender'[v] = sender[v]
        /\ sender' \in [DeliveryWorkers ->
                     [pc : {"down", "idle", "drain", "claimed", "attempted"},
                      row : Deliveries \cup {NoDelivery},
                      outcome : SendOutcomes \cup {"none"}]]
    BY <1>1 DEF DeliveryInv, DeliveryTypeOK
  <1>6. delivery' \in [Deliveries -> DeliveryRows]
    BY <1>2, <1>3 DEF DeliveryInv, DeliveryTypeOK
  <1>7. DeliveryTypeOK' /\ NeverSentTwice'
    BY <1>1, <1>5, <1>6 DEF DeliveryInv, DeliveryTypeOK, NeverSentTwice
  <1>8. ASSUME NEW e \in Deliveries PROVE RowStands(e)'
    BY <1>1, <1>2, <1>4, Numbers DEF DeliveryInv, RowStands
  <1>9. \A v \in DeliveryWorkers : sender[v].row # d
    BY <1>1, DeliveryAssumption DEF DeliveryInv, HoldStands
  <1>10. outbox[d].times = 0
    BY <1>1 DEF DeliveryInv, RowStands
  <1>11. HoldStands(w)'
    BY <1>1, <1>2, <1>4, <1>5, <1>10 DEF HoldStands, DeliveryHolding
  <1>12. ASSUME NEW v \in DeliveryWorkers, v # w PROVE HoldStands(v)'
    BY <1>1, <1>4, <1>5, <1>9, <1>12 DEF DeliveryInv, HoldStands
  <1>13. HeldByOne'
    BY <1>5, <1>9 DEF DeliveryInv, HeldByOne
  <1> QED
    BY <1>7, <1>8, <1>11, <1>12, <1>13 DEF DeliveryInv

\* The provider is called once for a claim.
LEMMA AttemptKeeps ==
  ASSUME DeliveryInv, NEW w \in DeliveryWorkers, Attempt(w)
  PROVE  DeliveryInv'
  <1>1. PICK outcome \in SendOutcomes, taken \in BOOLEAN, d \in Deliveries :
          /\ sender[w].pc = "claimed" /\ d = sender[w].row
          /\ taken => outcome \in {"sent", "unknown"}
          /\ outbox' = IF taken THEN [outbox EXCEPT ![d] = [times |-> @.times + 1, age |-> 0]]
                                ELSE outbox
          /\ sender' = [sender EXCEPT ![w].pc = "attempted", ![w].outcome = outcome]
          /\ UNCHANGED <<delivery, deaths>>
    BY DEF Attempt, DeliveryInv, HoldStands, DeliveryHolding
  <1>2. outbox[d].times = 0
    BY <1>1 DEF DeliveryInv, HoldStands
  <1>3. /\ outbox' \in [Deliveries -> [times : Nat, age : Ages \cup {Never}]]
        /\ \A e \in Deliveries \ {d} : outbox'[e] = outbox[e]
        /\ outbox'[d].times <= 1 /\ outbox'[d].age <= CapWindow + 1
        /\ ~taken => outbox'[d].times = 0
    <2>1. CASE taken
      <3>1. outbox' = [outbox EXCEPT ![d] = [times |-> outbox[d].times + 1, age |-> 0]]
        BY <1>1, <2>1
      <3>2. outbox' = [outbox EXCEPT ![d] = [times |-> 1, age |-> 0]]
        BY <1>2, <3>1
      <3>3. [times |-> 1, age |-> 0] \in [times : Nat, age : Ages \cup {Never}]
        BY Numbers DEF Ages
      <3> QED
        BY <2>1, <3>2, <3>3, Numbers DEF DeliveryInv, DeliveryTypeOK
    <2>2. CASE ~taken
      BY <1>1, <1>2, <2>2 DEF DeliveryInv, DeliveryTypeOK, RowStands
    <2> QED
      BY <2>1, <2>2
  <1>4. /\ sender'[w].pc = "attempted" /\ sender'[w].outcome = outcome /\ sender'[w].row = d
        /\ \A v \in DeliveryWorkers \ {w} : sender'[v] = sender[v]
        /\ sender' \in [DeliveryWorkers ->
                     [pc : {"down", "idle", "drain", "claimed", "attempted"},
                      row : Deliveries \cup {NoDelivery},
                      outcome : SendOutcomes \cup {"none"}]]
    <2> DEFINE Senders == [pc : {"down", "idle", "drain", "claimed", "attempted"},
                           row : Deliveries \cup {NoDelivery},
                           outcome : SendOutcomes \cup {"none"}]
    <2>1. sender \in [DeliveryWorkers -> Senders]
      BY DEF DeliveryInv, DeliveryTypeOK
    <2>2. [sender[w] EXCEPT !.pc = "attempted", !.outcome = outcome] \in Senders
      BY <2>1
    <2>3. sender' = [sender EXCEPT ![w] =
                        [sender[w] EXCEPT !.pc = "attempted", !.outcome = outcome]]
      BY <1>1, <2>1
    <2>4. /\ [sender[w] EXCEPT !.pc = "attempted", !.outcome = outcome].pc = "attempted"
          /\ [sender[w] EXCEPT !.pc = "attempted", !.outcome = outcome].outcome = outcome
          /\ [sender[w] EXCEPT !.pc = "attempted", !.outcome = outcome].row = sender[w].row
      BY <2>1
    <2> HIDE DEF Senders
    <2>5. /\ sender'[w] = [sender[w] EXCEPT !.pc = "attempted", !.outcome = outcome]
          /\ \A v \in DeliveryWorkers \ {w} : sender'[v] = sender[v]
          /\ sender' \in [DeliveryWorkers -> Senders]
      BY <2>1, <2>2, <2>3
    <2> QED
      BY <1>1, <2>4, <2>5 DEF Senders
  <1>5. DeliveryTypeOK'
    BY <1>1, <1>3, <1>4 DEF DeliveryInv, DeliveryTypeOK
  <1>6. NeverSentTwice'
    BY <1>3 DEF DeliveryInv, NeverSentTwice
  <1>7. delivery[d].status = "running" /\ delivery[d].claimed = 0
    BY <1>1 DEF DeliveryInv, HoldStands, DeliveryHolding
  <1>8. ASSUME NEW e \in Deliveries PROVE RowStands(e)'
    BY <1>1, <1>3, <1>7 DEF DeliveryInv, RowStands
  <1>9. HoldStands(w)'
    BY <1>1, <1>3, <1>4, <1>7 DEF HoldStands, DeliveryHolding
  <1>10. ASSUME NEW v \in DeliveryWorkers, v # w PROVE HoldStands(v)'
    <2>1. sender'[v] = sender[v] /\ HoldStands(v)
      BY <1>4, <1>10 DEF DeliveryInv
    <2>2. sender[v].pc \in DeliveryHolding => sender[v].row \in Deliveries \ {d}
      BY <1>1, <1>10, <2>1, DeliveryAssumption DEF DeliveryInv, HeldByOne, HoldStands
    <2> QED
      BY <1>1, <1>3, <2>1, <2>2 DEF HoldStands, DeliveryHolding
  <1>11. HeldByOne'
    BY <1>1, <1>4 DEF DeliveryInv, HeldByOne
  <1> QED
    BY <1>5, <1>6, <1>8, <1>9, <1>10, <1>11 DEF DeliveryInv

\* What the landing makes of the row, the write that fails included.
LEMMA LandedStep ==
  ASSUME DeliveryInv, NEW w \in DeliveryWorkers, NEW d \in Deliveries, d = sender[w].row,
         NEW pc \in {"idle", "drain"}, NEW row \in DeliveryRows,
         row.status \in {"queued", "absent"} => /\ row.refusals < MaxRefusals
                                              /\ outbox[d].times = 0,
         row.status = "running" => row = delivery[d],
         row.claimed \in {delivery[d].claimed, Never},
         delivery' = [delivery EXCEPT ![d] = row],
         sender' = [sender EXCEPT ![w] = Resting(pc)], UNCHANGED <<outbox, deaths>>
  PROVE  DeliveryInv'
  <1>1. delivery' \in [Deliveries -> DeliveryRows]
    BY DEF DeliveryInv, DeliveryTypeOK
  <1>2. delivery'[d] = row /\ \A e \in Deliveries \ {d} : delivery'[e] = delivery[e]
    BY DEF DeliveryInv, DeliveryTypeOK
  <1>3. ASSUME NEW e \in Deliveries PROVE RowStands(e)'
    BY <1>2, Numbers DEF DeliveryInv, RowStands, Never
  <1>4. deaths' \in Nat
    BY DEF DeliveryInv, DeliveryTypeOK
  <1> QED
    BY <1>1, <1>2, <1>3, <1>4, DeliveryLetGo

LEMMA LandKeeps ==
  ASSUME DeliveryInv, NEW w \in DeliveryWorkers, Land(w) \/ LandFails(w)
  PROVE  DeliveryInv'
  <1>1. PICK d \in Deliveries : d = sender[w].row /\ sender[w].pc = "attempted"
    BY DEF Land, LandFails, DeliveryInv, HoldStands, DeliveryHolding
  <1>2. /\ delivery[d] \in DeliveryRows /\ delivery[d].status = "running"
        /\ delivery[d].refusals < MaxRefusals
        /\ sender[w].outcome \notin {"sent", "unknown"} => outbox[d].times = 0
    BY <1>1 DEF DeliveryInv, DeliveryTypeOK, RowStands, HoldStands, DeliveryHolding
  <1>3. UNCHANGED <<outbox, deaths>>
    BY DEF Land, LandFails
  <1>4. PICK row \in {delivery[d], Leave(delivery[d], "done"), Leave(delivery[d], "skipped"),
                      Refused(delivery[d])}, pc \in {"idle", "drain"} :
          /\ delivery' = [delivery EXCEPT ![d] = row]
          /\ sender' = [sender EXCEPT ![w] = Resting(pc)]
          /\ row = Refused(delivery[d]) => \/ sender[w].outcome \notin {"sent", "unknown"}
                                          \/ row.status # "queued"
    <2>1. delivery = [delivery EXCEPT ![d] = delivery[d]]
      BY DEF DeliveryInv, DeliveryTypeOK
    <2>2. /\ Leave(delivery[d], "done").status = "done"
          /\ Leave(delivery[d], "skipped").status = "skipped"
      BY <1>2, LeaveTypes
    <2>3. CASE Land(w)
      <3>1. /\ delivery' = [delivery EXCEPT ![d] = Landed(delivery[d], sender[w].outcome)]
            /\ sender' = [sender EXCEPT ![w] = Resting("drain")]
        BY <1>1, <2>3 DEF Land
      <3>2. \/ Landed(delivery[d], sender[w].outcome) = Leave(delivery[d], "done")
            \/ Landed(delivery[d], sender[w].outcome) = Leave(delivery[d], "skipped")
            \/ Landed(delivery[d], sender[w].outcome) = delivery[d]
            \/ /\ Landed(delivery[d], sender[w].outcome) = Refused(delivery[d])
               /\ sender[w].outcome \notin {"sent", "unknown"}
        BY DEF Landed
      <3> QED
        BY <1>2, <2>2, <3>1, <3>2
    <2>4. CASE LandFails(w)
      <3>1. \/ /\ delivery' = delivery
               /\ \E pc \in {"idle", "drain"} : sender' = [sender EXCEPT ![w] = Resting(pc)]
            \/ /\ delivery' = [delivery EXCEPT ![d] = Refused(delivery[d])]
               /\ sender' = [sender EXCEPT ![w] = Resting("drain")]
               /\ sender[w].outcome \notin {"sent", "unknown"}
        BY <1>1, <2>4 DEF LandFails
      <3> QED
        BY <1>2, <2>1, <3>1
    <2> QED
      BY <2>3, <2>4
  <1>5. /\ row \in DeliveryRows
        /\ row.claimed \in {delivery[d].claimed, Never}
        /\ row.status = "running" => row = delivery[d]
        /\ row.status \in {"queued", "absent"} =>
             row.refusals < MaxRefusals /\ outbox[d].times = 0
    BY <1>2, <1>4, LeaveTypes, RefusedTypes
  <1> QED
    BY <1>1, <1>3, <1>4, <1>5, LandedStep

-----------------------------------------------------------------------------
\* A clock that has passed its delay stands still.
LEMMA OlderTypes ==
  ASSUME NEW delay \in Nat, NEW age \in Int, age \in 0 .. delay + 1 \/ age = Never
  PROVE  Older(age, delay) \in 0 .. delay + 1 \/ Older(age, delay) = Never
  BY DEF Older, Never

\* Time passes while no attempt runs: no fresh claim grows old under its worker.
LEMMA TickKeeps ==
  ASSUME DeliveryInv, Tick
  PROVE  DeliveryInv'
  <1>1. /\ \A w \in DeliveryWorkers : sender[w].row = NoDelivery
        /\ UNCHANGED <<sender, deaths>>
        /\ delivery' = [d \in Deliveries |-> delivery'[d]]
        /\ outbox' = [d \in Deliveries |-> outbox'[d]]
    BY DEF Tick
  <1>2. ASSUME NEW d \in Deliveries
        PROVE  delivery'[d] \in DeliveryRows /\ delivery'[d].claimed <= CapWindow + 1
               /\ delivery'[d].status = delivery[d].status
               /\ delivery'[d].refusals = delivery[d].refusals
    <2>1. delivery[d] \in DeliveryRows /\ delivery[d].claimed <= CapWindow + 1
      BY DEF DeliveryInv, DeliveryTypeOK, RowStands
    <2> DEFINE created == IF delivery[d].status \in {"queued", "running"}
                          THEN Older(delivery[d].created, ExpiresAfter) ELSE delivery[d].created
               claimed == IF delivery[d].status \in {"queued", "running", "failed"}
                          THEN Older(delivery[d].claimed, CapWindow) ELSE delivery[d].claimed
    <2>2. delivery'[d] = [delivery[d] EXCEPT !.created = created, !.claimed = claimed]
      BY DEF Tick
    <2>3. created \in Ages
      BY <2>1, Numbers, OlderTypes DEF DeliveryRows, Ages, Older, Never
    <2>4. claimed \in Ages \cup {Never} /\ claimed <= CapWindow + 1
      BY <2>1, Numbers DEF DeliveryRows, Ages, Older, Never
    <2> HIDE DEF created, claimed
    <2> QED
      BY <2>1, <2>2, <2>3, <2>4 DEF DeliveryRows
  <1>3. ASSUME NEW d \in Deliveries
        PROVE  /\ outbox'[d] \in [times : Nat, age : Ages \cup {Never}]
               /\ outbox'[d].age <= CapWindow + 1 /\ outbox'[d].times = outbox[d].times
    <2>1. outbox[d] \in [times : Nat, age : Ages \cup {Never}] /\ outbox[d].age <= CapWindow + 1
      BY DEF DeliveryInv, DeliveryTypeOK, RowStands
    <2>2. outbox'[d] = [outbox[d] EXCEPT !.age = Older(outbox[d].age, CapWindow)]
      BY DEF Tick
    <2>3. /\ Older(outbox[d].age, CapWindow) \in Ages \cup {Never}
          /\ Older(outbox[d].age, CapWindow) <= CapWindow + 1
      BY <2>1, Numbers DEF Ages, Older, Never
    <2> QED
      BY <2>1, <2>2, <2>3
  <1>4. /\ delivery' \in [Deliveries -> DeliveryRows]
        /\ outbox' \in [Deliveries -> [times : Nat, age : Ages \cup {Never}]]
    BY <1>1, <1>2, <1>3
  <1>5. DeliveryTypeOK' /\ NeverSentTwice' /\ HeldByOne'
    BY <1>1, <1>3, <1>4 DEF DeliveryInv, DeliveryTypeOK, NeverSentTwice, HeldByOne
  <1>6. ASSUME NEW d \in Deliveries PROVE RowStands(d)'
    BY <1>2, <1>3 DEF DeliveryInv, RowStands
  <1>7. ASSUME NEW w \in DeliveryWorkers PROVE HoldStands(w)'
    BY <1>1, DeliveryAssumption DEF DeliveryInv, HoldStands, DeliveryHolding
  <1> QED
    BY <1>5, <1>6, <1>7 DEF DeliveryInv

-----------------------------------------------------------------------------
\* The queue of emails keeps its invariant, whoever dies when.
THEOREM DeliveryCorrect == DeliverySpec => []DeliveryInv
  <1>1. DeliveryInit => DeliveryInv
    BY InitDelivery
  <1>2. DeliveryInv /\ [DeliveryNext]_deliveryVars => DeliveryInv'
    <2> SUFFICES ASSUME DeliveryInv, [DeliveryNext]_deliveryVars PROVE DeliveryInv'
      OBVIOUS
    <2>1. CASE Tick
      BY <2>1, TickKeeps
    <2>2. CASE \E d \in Deliveries : Notify(d) \/ DeleteNotification(d)
      BY <2>2, NotifyKeeps, DeleteKeeps
    <2>3. ASSUME NEW w \in DeliveryWorkers, Send(w) PROVE DeliveryInv'
      BY <2>3, BeginPassKeeps, DieKeeps, AttemptKeeps, LandKeeps, DeliveryClaimKeeps DEF Send
    <2>4. ASSUME NEW w \in DeliveryWorkers, LandFails(w) \/ Die(w) \/ Revive(w)
          PROVE  DeliveryInv'
      BY <2>4, LandKeeps, DieKeeps
    <2>5. CASE UNCHANGED deliveryVars
      BY <2>5 DEF deliveryVars, DeliveryInv, DeliveryTypeOK, NeverSentTwice, RowStands,
                  HoldStands, HeldByOne
    <2> QED
      BY <2>1, <2>2, <2>3, <2>4, <2>5 DEF DeliveryNext
  <1> QED
    BY <1>1, <1>2, PTL DEF DeliverySpec

\* A message leaves at most once, though workers die and answers are lost.
THEOREM MessagesLeaveOnce == DeliverySpec => []NeverSentTwice
  <1>1. DeliveryInv => NeverSentTwice
    BY DEF DeliveryInv
  <1> QED
    BY <1>1, DeliveryCorrect, PTL

-----------------------------------------------------------------------------
Open == {"queued", "running"}
Over == {"done", "failed", "skipped", "deleted"}

\* What may become of one row in a step.
DeliveryRowMoves(d) ==
    \/ delivery'[d].status = delivery[d].status
    \/ delivery[d].status = "absent" /\ delivery'[d].status = "queued"
    \/ delivery[d].status \in Open /\ delivery'[d].status \in Open \cup Over
    \/ delivery[d].status = "skipped" /\ delivery'[d].status = "deleted"

\* A landing is the landing of a row that is running.
LEMMA LandingMoves ==
  ASSUME DeliveryInv, NEW w \in DeliveryWorkers, Land(w) \/ LandFails(w), NEW d \in Deliveries
  PROVE  DeliveryRowMoves(d)
  <1>1. PICK h \in Deliveries : /\ h = sender[w].row /\ delivery[h] \in DeliveryRows
                                /\ delivery[h].status = "running"
                                /\ delivery[h].refusals < MaxRefusals
    BY DEF Land, LandFails, DeliveryInv, DeliveryTypeOK, RowStands, HoldStands, DeliveryHolding
  <1>2. \A o : Landed(delivery[h], o).status \in Open \cup Over
    BY <1>1, LeaveTypes, RefusedTypes DEF Landed, Open, Over
  <1>3. Refused(delivery[h]).status \in Open \cup Over
    BY <1>1, RefusedTypes DEF Open, Over
  <1>4. \/ delivery' = delivery
        \/ \E o : delivery' = [delivery EXCEPT ![h] = Landed(delivery[h], o)]
        \/ delivery' = [delivery EXCEPT ![h] = Refused(delivery[h])]
    BY <1>1 DEF Land, LandFails
  <1>5. \/ delivery'[d] = delivery[d]
        \/ d = h /\ delivery'[d].status \in Open \cup Over
    BY <1>2, <1>3, <1>4 DEF DeliveryInv, DeliveryTypeOK
  <1> QED
    BY <1>1, <1>5 DEF DeliveryRowMoves, Open

\* Every step moves every email as the ledger lets it.
LEMMA StatusMoves ==
  ASSUME DeliveryInv, [DeliveryNext]_deliveryVars, NEW d \in Deliveries
  PROVE  DeliveryRowMoves(d)
  <1>1. delivery \in [Deliveries -> DeliveryRows]
    BY DEF DeliveryInv, DeliveryTypeOK
  <1>2. ASSUME NEW e \in Deliveries, Notify(e) PROVE DeliveryRowMoves(d)
    <2>1. /\ delivery[e].status = "absent"
          /\ delivery' = [delivery EXCEPT ![e] = [delivery[e] EXCEPT !.status = "queued"]]
      BY <1>1, <1>2 DEF Notify
    <2>2. [delivery[e] EXCEPT !.status = "queued"].status = "queued"
      BY <1>1 DEF DeliveryRows
    <2> QED
      BY <1>1, <2>1, <2>2 DEF DeliveryRowMoves
  <1>3. ASSUME NEW e \in Deliveries, DeleteNotification(e) PROVE DeliveryRowMoves(d)
    <2> DEFINE loose == [delivery[e] EXCEPT !.linked = FALSE]
    <2>1. delivery' = [delivery EXCEPT ![e] =
             IF loose.status \in {"queued", "skipped"} THEN Leave(loose, "deleted") ELSE loose]
      BY <1>3 DEF DeleteNotification
    <2>2. loose \in DeliveryRows /\ loose.status = delivery[e].status
      BY <1>1 DEF DeliveryRows
    <2> HIDE DEF loose
    <2>3. Leave(loose, "deleted").status = "deleted"
      BY <2>2, LeaveTypes
    <2> QED
      BY <1>1, <2>1, <2>2, <2>3 DEF DeliveryRowMoves, Open, Over
  <1>4. ASSUME NEW w \in DeliveryWorkers, BeginPass(w) PROVE DeliveryRowMoves(d)
    <2>1. \/ delivery'[d] = delivery[d]
          \/ delivery[d].status \in Open /\ delivery'[d] = Leave(delivery[d], "failed")
          \/ delivery[d].status \in Open /\ delivery'[d] = Leave(delivery[d], "skipped")
      BY <1>4 DEF BeginPass, Open
    <2> QED
      BY <1>1, <2>1, LeaveTypes DEF DeliveryRowMoves, Over
  <1>5. ASSUME NEW w \in DeliveryWorkers, NEW e \in Deliveries, ClaimNext(w, e)
        PROVE  DeliveryRowMoves(d)
    <2>1. /\ delivery[e].status = "queued"
          /\ delivery' = [delivery EXCEPT ![e] = [delivery[e] EXCEPT !.status = "running",
                                                                   !.claimed = 0]]
      BY <1>1, <1>5 DEF ClaimNext, Sendable
    <2>2. [delivery[e] EXCEPT !.status = "running", !.claimed = 0].status = "running"
      BY <1>1 DEF DeliveryRows
    <2> QED
      BY <1>1, <2>1, <2>2 DEF DeliveryRowMoves, Open
  <1>6. CASE Tick
    BY <1>1, <1>6 DEF Tick, DeliveryRows, DeliveryRowMoves
  <1>7. CASE UNCHANGED delivery
    BY <1>7 DEF DeliveryRowMoves
  <1>8. ASSUME NEW w \in DeliveryWorkers, EndPass(w) \/ Attempt(w) \/ Die(w) \/ Revive(w)
        PROVE  UNCHANGED delivery
    BY <1>8 DEF EndPass, Attempt, Die, Revive
  <1> QED
    BY <1>2, <1>3, <1>4, <1>5, <1>6, <1>7, <1>8, LandingMoves DEF DeliveryNext, Send, deliveryVars

LEMMA DeliveryStepIsLedgers ==
  ASSUME DeliveryInv, [DeliveryNext]_deliveryVars
  PROVE  Delivered!Next
  <1> SUFFICES ASSUME NEW d \in Deliveries
               PROVE  Delivered!Moves(DeliveryLedger[d], DeliveryLedger'[d])
    BY DEF Delivered!Next
  <1>1. DeliveryRowMoves(d) /\ delivery[d].status \in {"absent"} \cup Open \cup Over
    BY StatusMoves DEF DeliveryInv, DeliveryTypeOK, DeliveryRows, Open, Over
  <1>2. /\ delivery[d].status = "absent" => DeliveryLedger[d] = "new"
        /\ delivery[d].status \in Open => DeliveryLedger[d] = "open"
        /\ delivery'[d].status \in Open => DeliveryLedger'[d] = "open"
        /\ delivery'[d].status \in Over => DeliveryLedger'[d] \in {"done", "failed", "unsent"}
    BY DEF DeliveryLedger, Open, Over
  <1>3. CASE delivery'[d].status = delivery[d].status
    BY <1>3 DEF DeliveryLedger, Delivered!Moves
  <1>4. CASE delivery[d].status = "absent" /\ delivery'[d].status = "queued"
    BY <1>2, <1>4 DEF Delivered!Moves, Open
  <1>5. CASE delivery[d].status \in Open /\ delivery'[d].status \in Open \cup Over
    BY <1>2, <1>5 DEF Delivered!Moves
  <1>6. CASE delivery[d].status = "skipped" /\ delivery'[d].status = "deleted"
    BY <1>6 DEF DeliveryLedger, Delivered!Moves
  <1> QED
    BY <1>1, <1>3, <1>4, <1>5, <1>6 DEF DeliveryRowMoves

\* The safety half of DeliveriesSettle: an email that was sent, dropped or given up stays so.
THEOREM DeliveryVerdictsStand == DeliverySpec => Delivered!Init /\ [][Delivered!Next]_DeliveryLedger
  <1>1. DeliveryInit => Delivered!Init
    BY DEF DeliveryInit, Delivered!Init, DeliveryLedger
  <1>2. DeliveryInv /\ [DeliveryNext]_deliveryVars => [Delivered!Next]_DeliveryLedger
    BY DeliveryStepIsLedgers
  <1> QED
    BY <1>1, <1>2, DeliveryCorrect, PTL DEF DeliverySpec

-----------------------------------------------------------------------------
\* A message the provider took is of a row that ended "done", or of one that a worker claimed in
\* the tick the message left.
SentStands(d) ==
    /\ outbox[d].age = Never <=> outbox[d].times = 0
    /\ outbox[d].times # 0 =>
         \/ delivery[d].status = "done"
         \/ /\ delivery[d].status \in {"running", "failed"}
            /\ delivery[d].refusals < MaxRefusals
            /\ delivery[d].claimed = outbox[d].age

PossiblyGone == {d \in Deliveries : PossiblySent(d)}

\* The caps are kept by what the claim counts, which takes in whatever did leave.
CapsInv ==
    /\ \A d \in Deliveries : SentStands(d)
    /\ IsFiniteSet(PossiblyGone)
    /\ Cardinality(PossiblyGone) <= DailyCap
    /\ \A u \in Recipients : Cardinality(OutFor(u)) <= DailyCapPerUser

\* What one step may make of a row and of its message, in any step but its own claim.
RowAges(d) ==
    /\ delivery'[d].linked => delivery[d].linked
    /\ \/ \* off the road to the provider, or back on the queue
          /\ delivery'[d].status \in {"absent", "queued", "skipped", "deleted"}
          /\ outbox'[d] = outbox[d] /\ outbox[d].times = 0
       \/ \* out of tries
          /\ delivery'[d].status = "failed" /\ delivery'[d].refusals = MaxRefusals
          /\ outbox'[d] = outbox[d] /\ outbox[d].times = 0
       \/ \* it stays what it is, or went stale
          /\ \/ delivery'[d].status = delivery[d].status
             \/ delivery[d].status = "running" /\ delivery'[d].status = "failed"
          /\ delivery'[d].claimed = delivery[d].claimed
          /\ delivery'[d].refusals = delivery[d].refusals
          /\ outbox'[d] = outbox[d]
       \/ \* the provider takes its message
          /\ delivery'[d] = delivery[d]
          /\ delivery[d].status = "running" /\ delivery[d].claimed = 0
          /\ outbox'[d].age = 0 /\ outbox'[d].times # 0
       \/ \* the answer lands
          /\ delivery[d].status = "running" /\ delivery[d].claimed = 0
          /\ delivery'[d].status = "done" /\ outbox'[d] = outbox[d]
       \/ \* time passes
          /\ delivery'[d].status = delivery[d].status
          /\ delivery'[d].refusals = delivery[d].refusals
          /\ delivery'[d].claimed = IF delivery[d].status \in {"queued", "running", "failed"}
                                    THEN Older(delivery[d].claimed, CapWindow)
                                    ELSE delivery[d].claimed
          /\ outbox'[d].times = outbox[d].times
          /\ outbox'[d].age = Older(outbox[d].age, CapWindow)

\* No row comes to count against the caps but by its claim.
LEMMA AgesKeep ==
  ASSUME DeliveryInv, NEW d \in Deliveries, SentStands(d), RowAges(d)
  PROVE  SentStands(d)' /\ (PossiblySent(d)' => PossiblySent(d))
  <1>1. /\ delivery[d] \in DeliveryRows /\ RowStands(d)
        /\ outbox[d] \in [times : Nat, age : Ages \cup {Never}]
    BY DEF DeliveryInv, DeliveryTypeOK
  <1>2. /\ delivery[d].claimed \in Int /\ outbox[d].age \in Int
        /\ outbox[d].age <= CapWindow + 1 /\ delivery[d].claimed <= CapWindow + 1
        /\ delivery[d].status = "running" => delivery[d].refusals < MaxRefusals
        /\ delivery[d].refusals \in Int
    BY <1>1, Numbers DEF DeliveryRows, Ages, Never, RowStands
  <1>3. CASE /\ delivery'[d].status \in {"absent", "queued", "skipped", "deleted"}
             /\ outbox'[d] = outbox[d] /\ outbox[d].times = 0
    BY <1>3 DEF SentStands, PossiblySent
  <1>4. CASE /\ delivery'[d].status = "failed" /\ delivery'[d].refusals = MaxRefusals
             /\ outbox'[d] = outbox[d] /\ outbox[d].times = 0
    BY <1>4, Numbers DEF SentStands, PossiblySent
  <1>5. CASE /\ \/ delivery'[d].status = delivery[d].status
                \/ delivery[d].status = "running" /\ delivery'[d].status = "failed"
             /\ delivery'[d].claimed = delivery[d].claimed
             /\ delivery'[d].refusals = delivery[d].refusals
             /\ outbox'[d] = outbox[d]
    BY <1>5 DEF SentStands, PossiblySent
  <1>6. CASE /\ delivery'[d] = delivery[d]
             /\ delivery[d].status = "running" /\ delivery[d].claimed = 0
             /\ outbox'[d].age = 0 /\ outbox'[d].times # 0
    BY <1>2, <1>6 DEF SentStands, PossiblySent, Never
  <1>7. CASE /\ delivery[d].status = "running" /\ delivery[d].claimed = 0
             /\ delivery'[d].status = "done" /\ outbox'[d] = outbox[d]
    BY <1>2, <1>7, Numbers DEF SentStands, PossiblySent
  <1>8. CASE /\ delivery'[d].status = delivery[d].status
             /\ delivery'[d].refusals = delivery[d].refusals
             /\ delivery'[d].claimed = IF delivery[d].status \in {"queued", "running", "failed"}
                                       THEN Older(delivery[d].claimed, CapWindow)
                                       ELSE delivery[d].claimed
             /\ outbox'[d].times = outbox[d].times
             /\ outbox'[d].age = Older(outbox[d].age, CapWindow)
    <2>1. /\ Older(outbox[d].age, CapWindow) = Never <=> outbox[d].age = Never
          /\ Older(outbox[d].age, CapWindow) <= CapWindow => outbox[d].age <= CapWindow
          /\ Older(delivery[d].claimed, CapWindow) <= CapWindow =>
                delivery[d].claimed <= CapWindow
      BY <1>1, <1>2, Numbers DEF Older, Never, Ages, DeliveryRows
    <2>2. SentStands(d)'
      BY <1>8, <2>1 DEF SentStands
    <2>3. PossiblySent(d)' => PossiblySent(d)
      BY <1>8, <2>1 DEF PossiblySent
    <2> QED
      BY <2>2, <2>3
  <1> QED
    BY <1>3, <1>4, <1>5, <1>6, <1>7, <1>8 DEF RowAges

\* A refusal that is one too many.
LEMMA RefusedOut ==
  ASSUME NEW row \in DeliveryRows, row.refusals < MaxRefusals, row.status = "running",
         Refused(row).status = "failed"
  PROVE  Refused(row).refusals = MaxRefusals
  <1> DEFINE counted == [row EXCEPT !.refusals = @ + 1]
  <1>1. /\ counted \in DeliveryRows /\ counted.refusals = row.refusals + 1
        /\ counted.status = "running" /\ counted.refusals <= MaxRefusals
    BY Numbers DEF DeliveryRows
  <1>2. CASE counted.refusals >= MaxRefusals
    <2>1. Refused(row) = Leave(counted, "failed")
      BY <1>2 DEF Refused
    <2> HIDE DEF counted
    <2> QED
      BY <1>1, <1>2, <2>1, LeaveTypes, Numbers DEF DeliveryRows
  <1>3. CASE ~(counted.refusals >= MaxRefusals)
    <2>1. Refused(row) = [counted EXCEPT !.status = "queued"]
      BY <1>3 DEF Refused
    <2> HIDE DEF counted
    <2> QED
      BY <1>1, <2>1 DEF DeliveryRows
  <1> QED
    BY <1>2, <1>3

\* Marking a row as having lost its notification changes nothing else.
LEMMA LinkLost ==
  ASSUME NEW row \in DeliveryRows, NEW lost, lost = [row EXCEPT !.linked = FALSE]
  PROVE  /\ lost \in DeliveryRows /\ ~lost.linked /\ lost.status = row.status
         /\ lost.claimed = row.claimed /\ lost.refusals = row.refusals
  BY DEF DeliveryRows

\* Leaving the queue, refused or not, takes no row from its notification.
LEMMA LeaveUnlinks ==
  ASSUME NEW row \in DeliveryRows, NEW status
  PROVE  Leave(row, status).linked = row.linked
  BY DEF Leave, DeliveryRows

LEMMA RefusedUnlinks ==
  ASSUME NEW row \in DeliveryRows
  PROVE  Refused(row).linked = row.linked
  BY LeaveUnlinks DEF Refused, Leave, DeliveryRows

\* The steps of the queue, one by one: none sets a row or its message back.
LEMMA DeleteAges ==
  ASSUME DeliveryInv, NEW e \in Deliveries, DeleteNotification(e), NEW d \in Deliveries,
         SentStands(d)
  PROVE  RowAges(d)
  <1> DEFINE loose == [delivery[e] EXCEPT !.linked = FALSE]
  <1>1. /\ delivery' = [delivery EXCEPT ![e] =
             IF loose.status \in {"queued", "skipped"} THEN Leave(loose, "deleted") ELSE loose]
        /\ outbox' = outbox
    BY DEF DeleteNotification
  <1>2. /\ loose \in DeliveryRows /\ ~loose.linked /\ loose.status = delivery[e].status
        /\ loose.claimed = delivery[e].claimed /\ loose.refusals = delivery[e].refusals
    BY LinkLost DEF DeliveryInv, DeliveryTypeOK
  <1> HIDE DEF loose
  <1>3. Leave(loose, "deleted").status = "deleted" /\ ~Leave(loose, "deleted").linked
    BY <1>2, LeaveTypes, LeaveUnlinks
  <1> QED
    BY <1>1, <1>2, <1>3 DEF DeliveryInv, DeliveryTypeOK, RowAges, SentStands

LEMMA BeginPassAges ==
  ASSUME DeliveryInv, NEW w \in DeliveryWorkers, BeginPass(w), NEW d \in Deliveries,
         SentStands(d)
  PROVE  RowAges(d)
  <1>1. /\ outbox' = outbox /\ delivery[d] \in DeliveryRows
        /\ \/ delivery'[d] = delivery[d]
           \/ delivery[d].status = "running" /\ delivery'[d] = Leave(delivery[d], "failed")
           \/ delivery[d].status = "queued" /\ delivery'[d] = Leave(delivery[d], "skipped")
    BY DEF BeginPass, DeliveryInv, DeliveryTypeOK
  <1>2. \A status : Leave(delivery[d], status).linked = delivery[d].linked
    BY <1>1, LeaveUnlinks
  <1>3. Leave(delivery[d], "failed").claimed = delivery[d].claimed
    BY <1>1 DEF Leave, DeliveryRows
  <1>4. CASE delivery'[d] = delivery[d]
    BY <1>1, <1>4 DEF RowAges
  <1>5. CASE delivery[d].status = "running" /\ delivery'[d] = Leave(delivery[d], "failed")
    BY <1>1, <1>2, <1>3, <1>5, LeaveTypes DEF RowAges
  <1>6. CASE delivery[d].status = "queued" /\ delivery'[d] = Leave(delivery[d], "skipped")
    BY <1>1, <1>2, <1>6, LeaveTypes DEF RowAges, SentStands
  <1> QED
    BY <1>1, <1>4, <1>5, <1>6

LEMMA AttemptAges ==
  ASSUME DeliveryInv, NEW w \in DeliveryWorkers, Attempt(w), NEW d \in Deliveries,
         SentStands(d)
  PROVE  RowAges(d)
  <1>1. PICK h \in Deliveries, taken \in BOOLEAN :
          /\ h = sender[w].row /\ delivery[h].status = "running" /\ delivery[h].claimed = 0
          /\ delivery' = delivery
          /\ outbox' = IF taken THEN [outbox EXCEPT ![h] = [times |-> @.times + 1, age |-> 0]]
                                ELSE outbox
    BY DEF Attempt, DeliveryInv, HoldStands, DeliveryHolding
  <1>2. outbox[d].times \in Nat
    BY DEF DeliveryInv, DeliveryTypeOK
  <1>3. CASE taken /\ h = d
    <2>1. outbox'[d] = [times |-> outbox[d].times + 1, age |-> 0]
      BY <1>1, <1>3 DEF DeliveryInv, DeliveryTypeOK
    <2> QED
      BY <1>1, <1>2, <1>3, <2>1 DEF RowAges
  <1>4. CASE ~(taken /\ h = d)
    <2>1. outbox'[d] = outbox[d]
      BY <1>1, <1>4 DEF DeliveryInv, DeliveryTypeOK
    <2> QED
      BY <1>1, <2>1 DEF RowAges
  <1> QED
    BY <1>3, <1>4

LEMMA LandAges ==
  ASSUME DeliveryInv, NEW w \in DeliveryWorkers, Land(w) \/ LandFails(w), NEW d \in Deliveries,
         SentStands(d)
  PROVE  RowAges(d)
  <1>1. PICK h \in Deliveries :
          /\ h = sender[w].row /\ delivery[h] \in DeliveryRows
          /\ delivery[h].status = "running" /\ delivery[h].claimed = 0
          /\ delivery[h].refusals < MaxRefusals
          /\ sender[w].outcome \notin {"sent", "unknown"} => outbox[h].times = 0
    BY DEF Land, LandFails, DeliveryInv, DeliveryTypeOK, RowStands, HoldStands, DeliveryHolding
  <1>2. \/ delivery' = delivery
        \/ delivery' = [delivery EXCEPT ![h] = Leave(delivery[h], "done")]
        \/ /\ delivery' = [delivery EXCEPT ![h] = Leave(delivery[h], "skipped")]
           /\ outbox[h].times = 0
        \/ /\ delivery' = [delivery EXCEPT ![h] = Refused(delivery[h])]
           /\ outbox[h].times = 0
    <2>1. CASE Land(w)
      <3>1. delivery' = [delivery EXCEPT ![h] = Landed(delivery[h], sender[w].outcome)]
        BY <1>1, <2>1 DEF Land
      <3>2. CASE sender[w].outcome = "unknown"
        BY <3>1, <3>2 DEF Landed, DeliveryInv, DeliveryTypeOK
      <3>3. CASE sender[w].outcome # "unknown"
        BY <1>1, <3>1, <3>3 DEF Landed
      <3> QED
        BY <3>2, <3>3
    <2>2. CASE LandFails(w)
      BY <1>1, <2>2 DEF LandFails
    <2> QED
      BY <2>1, <2>2
  <1>3. outbox' = outbox
    BY DEF Land, LandFails
  <1>4. CASE delivery'[d] = delivery[d]
    BY <1>3, <1>4 DEF RowAges
  <1>5. CASE d = h /\ delivery'[d] = Leave(delivery[d], "done")
    BY <1>1, <1>3, <1>5, LeaveTypes, LeaveUnlinks DEF RowAges
  <1>6. CASE d = h /\ outbox[d].times = 0 /\ delivery'[d] = Leave(delivery[d], "skipped")
    <2>1. delivery'[d].status = "skipped" /\ delivery'[d].linked = delivery[d].linked
      BY <1>1, <1>6, LeaveTypes, LeaveUnlinks
    <2> QED
      BY <1>3, <1>6, <2>1 DEF RowAges
  <1>7. CASE d = h /\ outbox[d].times = 0 /\ delivery'[d] = Refused(delivery[d])
    <2>1. /\ delivery'[d].status \in {"queued", "failed"}
          /\ delivery'[d].linked = delivery[d].linked
      BY <1>1, <1>7, RefusedTypes, RefusedUnlinks
    <2>2. delivery'[d].status = "failed" => delivery'[d].refusals = MaxRefusals
      BY <1>1, <1>7, RefusedOut
    <2> QED
      BY <1>3, <1>7, <2>1, <2>2 DEF RowAges
  <1> QED
    BY <1>2, <1>4, <1>5, <1>6, <1>7 DEF DeliveryInv, DeliveryTypeOK

LEMMA TickAges ==
  ASSUME DeliveryInv, Tick, NEW d \in Deliveries
  PROVE  RowAges(d)
  <1>1. delivery[d] \in DeliveryRows /\ outbox[d] \in [times : Nat, age : Ages \cup {Never}]
    BY DEF DeliveryInv, DeliveryTypeOK
  <1> DEFINE created == IF delivery[d].status \in {"queued", "running"}
                        THEN Older(delivery[d].created, ExpiresAfter) ELSE delivery[d].created
             claimed == IF delivery[d].status \in {"queued", "running", "failed"}
                        THEN Older(delivery[d].claimed, CapWindow) ELSE delivery[d].claimed
             age == Older(outbox[d].age, CapWindow)
  <1>2. delivery'[d] = [delivery[d] EXCEPT !.created = created, !.claimed = claimed]
    BY DEF Tick
  <1>3. outbox'[d] = [outbox[d] EXCEPT !.age = age]
    BY DEF Tick
  <1>4. delivery'[d].claimed = claimed /\ outbox'[d].age = age
        /\ delivery'[d].status = delivery[d].status
        /\ delivery'[d].refusals = delivery[d].refusals
        /\ delivery'[d].linked = delivery[d].linked
        /\ outbox'[d].times = outbox[d].times
    <2> HIDE DEF created, claimed, age
    <2> QED
      BY <1>1, <1>2, <1>3 DEF DeliveryRows
  <1> QED
    BY <1>4 DEF RowAges

LEMMA NotifyAges ==
  ASSUME DeliveryInv, NEW e \in Deliveries, Notify(e), NEW d \in Deliveries
  PROVE  RowAges(d)
  <1>1. /\ delivery[e].status = "absent" /\ delivery[e] \in DeliveryRows /\ outbox' = outbox
        /\ outbox[e].times = 0
        /\ delivery' = [delivery EXCEPT ![e] = [delivery[e] EXCEPT !.status = "queued"]]
    BY DEF Notify, DeliveryInv, DeliveryTypeOK, RowStands
  <1>2. /\ [delivery[e] EXCEPT !.status = "queued"].status = "queued"
        /\ [delivery[e] EXCEPT !.status = "queued"].linked = delivery[e].linked
    BY <1>1 DEF DeliveryRows
  <1> QED
    BY <1>1, <1>2 DEF RowAges, DeliveryInv, DeliveryTypeOK

-----------------------------------------------------------------------------
\* A part of a set within a cap is within it, and so is one row more where there was room.
LEMMA Shrinks ==
  ASSUME NEW S, IsFiniteSet(S), NEW T \in SUBSET S, NEW n \in Nat, Cardinality(S) <= n
  PROVE  IsFiniteSet(T) /\ Cardinality(T) <= n
  BY FS_Subset, FS_CardinalityType

LEMMA GrowsByOne ==
  ASSUME NEW S, IsFiniteSet(S), NEW x, NEW T \in SUBSET (S \cup {x}), NEW n \in Nat,
         Cardinality(S) < n
  PROVE  IsFiniteSet(T) /\ Cardinality(T) <= n
  <1>1. /\ IsFiniteSet(S \cup {x}) /\ Cardinality(S) \in Nat
        /\ Cardinality(S \cup {x}) \in {Cardinality(S), Cardinality(S) + 1}
    BY FS_AddElement, FS_CardinalityType
  <1> QED
    BY <1>1, Shrinks

\* The rows that may have gone out to a reader are among those that may have gone out.
LEMMA GoneToOne ==
  ASSUME CapsInv, NEW u
  PROVE  IsFiniteSet(OutFor(u)) /\ OutFor(u) \subseteq PossiblyGone
  BY FS_Subset DEF CapsInv, OutFor, PossiblyGone

\* A step that claims nothing takes rows out of the count, and puts none in.
LEMMA CapsWithoutClaim ==
  ASSUME DeliveryInv, CapsInv, \A d \in Deliveries : RowAges(d)
  PROVE  CapsInv'
  <1>1. \A d \in Deliveries : SentStands(d)' /\ (PossiblySent(d)' => PossiblySent(d))
    BY AgesKeep DEF CapsInv
  <1>2. \A d \in Deliveries : delivery'[d].linked => delivery[d].linked
    BY DEF RowAges
  <1>3. PossiblyGone' \subseteq PossiblyGone
    BY <1>1 DEF PossiblyGone
  <1>4. IsFiniteSet(PossiblyGone') /\ Cardinality(PossiblyGone') <= DailyCap
    BY <1>3, Shrinks, DeliveryAssumption DEF CapsInv
  <1>5. ASSUME NEW u \in Recipients PROVE Cardinality(OutFor(u)') <= DailyCapPerUser
    <2>1. OutFor(u)' \subseteq OutFor(u)
      BY <1>1, <1>2 DEF OutFor
    <2> QED
      BY <2>1, GoneToOne, Shrinks, DeliveryAssumption DEF CapsInv
  <1> QED
    BY <1>1, <1>4, <1>5 DEF CapsInv

\* A claim adds its row, and only under both caps.
LEMMA CapsAtClaim ==
  ASSUME DeliveryInv, CapsInv, NEW w \in DeliveryWorkers, NEW d \in Deliveries, ClaimNext(w, d)
  PROVE  CapsInv'
  <1>1. /\ Cardinality(PossiblyGone) < DailyCap
        /\ Cardinality(OutFor(To[d])) < DailyCapPerUser
        /\ delivery[d].status = "queued" /\ outbox' = outbox
        /\ \A e \in Deliveries \ {d} : delivery'[e] = delivery[e]
    BY DEF ClaimNext, Sendable, PossiblyGone, DeliveryInv, DeliveryTypeOK
  <1>2. delivery'[d].status = "running" /\ outbox[d].times = 0
    <2>1. [delivery[d] EXCEPT !.status = "running", !.claimed = 0].status = "running"
      BY DEF DeliveryInv, DeliveryTypeOK, DeliveryRows
    <2> QED
      BY <1>1, <2>1 DEF ClaimNext, DeliveryInv, DeliveryTypeOK, RowStands
  <1>3. ASSUME NEW e \in Deliveries PROVE SentStands(e)'
    BY <1>1, <1>2 DEF CapsInv, SentStands
  <1>4. \A e \in Deliveries \ {d} : PossiblySent(e)' => PossiblySent(e)
    BY <1>1 DEF PossiblySent
  <1>5. PossiblyGone' \subseteq PossiblyGone \cup {d}
    BY <1>4 DEF PossiblyGone
  <1>6. IsFiniteSet(PossiblyGone') /\ Cardinality(PossiblyGone') <= DailyCap
    BY <1>1, <1>5, GrowsByOne, DeliveryAssumption DEF CapsInv
  <1>7. ASSUME NEW u \in Recipients PROVE Cardinality(OutFor(u)') <= DailyCapPerUser
    <2>1. CASE u = To[d]
      <3>1. OutFor(u)' \subseteq OutFor(u) \cup {d}
        BY <1>1, <1>4 DEF OutFor
      <3> QED
        BY <1>1, <2>1, <3>1, GoneToOne, GrowsByOne, DeliveryAssumption
    <2>2. CASE u # To[d]
      <3>1. OutFor(u)' \subseteq OutFor(u)
        BY <1>1, <1>4, <2>2 DEF OutFor
      <3> QED
        BY <3>1, GoneToOne, Shrinks, DeliveryAssumption DEF CapsInv
    <2> QED
      BY <2>1, <2>2
  <1> QED
    BY <1>3, <1>6, <1>7 DEF CapsInv

LEMMA CapsKept == DeliveryInv /\ CapsInv /\ [DeliveryNext]_deliveryVars => CapsInv'
  <1> SUFFICES ASSUME DeliveryInv, CapsInv, [DeliveryNext]_deliveryVars
               PROVE  CapsInv'
    OBVIOUS
  <1>0. \A d \in Deliveries : SentStands(d)
    BY DEF CapsInv
  <1>1. ASSUME UNCHANGED <<delivery, outbox>> PROVE \A d \in Deliveries : RowAges(d)
    BY <1>1 DEF RowAges
  <1>2. CASE Tick
    BY <1>2, TickAges, CapsWithoutClaim
  <1>3. ASSUME NEW e \in Deliveries, Notify(e) \/ DeleteNotification(e) PROVE CapsInv'
    BY <1>0, <1>3, NotifyAges, DeleteAges, CapsWithoutClaim
  <1>4. ASSUME NEW w \in DeliveryWorkers, BeginPass(w) \/ Attempt(w) \/ Land(w) \/ LandFails(w)
        PROVE  CapsInv'
    BY <1>0, <1>4, BeginPassAges, AttemptAges, LandAges, CapsWithoutClaim
  <1>5. ASSUME NEW w \in DeliveryWorkers, EndPass(w) \/ Die(w) \/ Revive(w) PROVE CapsInv'
    BY <1>1, <1>5, CapsWithoutClaim DEF EndPass, Die, Revive
  <1>6. CASE UNCHANGED deliveryVars
    BY <1>1, <1>6, CapsWithoutClaim DEF deliveryVars
  <1> QED
    BY <1>2, <1>3, <1>4, <1>5, <1>6, CapsAtClaim DEF DeliveryNext, Send

LEMMA InitCaps == DeliveryInit => CapsInv
  <1> SUFFICES ASSUME DeliveryInit
               PROVE  CapsInv
    OBVIOUS
  <1>1. ASSUME NEW d \in Deliveries PROVE SentStands(d) /\ ~PossiblySent(d)
    BY DEF DeliveryInit, SentStands, PossiblySent
  <1>2. PossiblyGone = {} /\ \A u \in Recipients : OutFor(u) = {}
    BY <1>1 DEF PossiblyGone, OutFor
  <1> QED
    BY <1>1, <1>2, FS_EmptySet, DeliveryAssumption DEF CapsInv

\* A claim reads the caps and takes its row in two statements, which are one step of the model:
\* that is what the code does where one worker sends.
OneSender == \A v, w \in DeliveryWorkers : v = w

\* The provider takes no more messages in a trailing window than the daily caps allow, overall and
\* for each recipient, whichever rows crashed, went stale or lost their notification.
THEOREM CapsAreKept == OneSender /\ DeliverySpec => []CapsHold
  <1>1. ASSUME DeliveryInv, CapsInv PROVE CapsHold
    <2>1. ASSUME NEW d \in Deliveries, Out(d) PROVE PossiblySent(d)
      <3>1. /\ outbox[d].times # 0 /\ outbox[d].age <= CapWindow
        BY <1>1, <2>1 DEF Out, CapsInv, SentStands
      <3> QED
        BY <1>1, <3>1 DEF CapsInv, SentStands, PossiblySent
    <2>2. Cardinality({d \in Deliveries : Out(d)}) <= DailyCap
      <3>1. {d \in Deliveries : Out(d)} \in SUBSET PossiblyGone
        BY <2>1 DEF PossiblyGone
      <3> QED
        BY <1>1, <3>1, Shrinks, DeliveryAssumption DEF CapsInv
    <2>3. ASSUME NEW u \in Recipients
          PROVE  Cardinality({d \in Deliveries : Out(d) /\ delivery[d].linked /\ To[d] = u})
                    <= DailyCapPerUser
      <3>1. {d \in Deliveries : Out(d) /\ delivery[d].linked /\ To[d] = u} \in SUBSET OutFor(u)
        BY <2>1 DEF OutFor
      <3> QED
        BY <1>1, <3>1, GoneToOne, Shrinks, DeliveryAssumption DEF CapsInv
    <2> QED
      BY <2>2, <2>3 DEF CapsHold
  <1>2. DeliveryInit => DeliveryInv /\ CapsInv
    BY InitDelivery, InitCaps
  <1>3. CapsInv /\ DeliveryInv /\ [DeliveryNext]_deliveryVars => CapsInv'
    BY CapsKept
  <1>4. DeliveryInv /\ CapsInv => CapsHold
    BY <1>1
  <1> QED
    BY <1>2, <1>3, <1>4, DeliveryCorrect, PTL DEF DeliverySpec

\* The rows, the processes and what has left the three queues are what they are declared to be.
THEOREM QueueTypes ==
  /\ MentionSpec => []MentionTypeOK
  /\ JobSpec => []JobTypeOK
  /\ DeliverySpec => []DeliveryTypeOK
  <1>1. MentionInv => MentionTypeOK
    BY DEF MentionInv
  <1>2. JobInv => JobTypeOK
    BY DEF JobInv
  <1>3. DeliveryInv => DeliveryTypeOK
    BY DEF DeliveryInv
  <1> QED
    BY <1>1, <1>2, <1>3, MentionCorrect, JobsCorrect, DeliveryCorrect, PTL
=============================================================================
