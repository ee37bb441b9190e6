--------------------------- MODULE DeliveryQueue ---------------------------
(***************************************************************************)
(* The notification emails (services/notification_delivery.py).  A row is  *)
(* committed "running" before the provider is called and never goes back   *)
(* to the queue once the message may have left, so a dying worker sends    *)
(* nothing twice; two daily caps count every row that may have gone out.   *)
(* Times are kept as ages: one tick is longer than an attempt and at most  *)
(* the shortest delay; the order of the four delays is the code's.         *)
(***************************************************************************)
EXTENDS Integers, FiniteSets

CONSTANTS
    Deliveries,
    Recipients,
    To,                \* delivery -> the recipient of its notification
    DeliveryWorkers,
    MaxRefusals,       \* MAX_ATTEMPTS
    DailyCap,          \* notification_email_daily_cap
    DailyCapPerUser,   \* notification_email_daily_cap_per_user
    RetryAfter, StaleAfter, CapWindow, ExpiresAfter,
    MaxDeaths,        \* bound on the crashes explored
    NoDelivery

ASSUME DeliveryAssumption ==
    /\ To \in [Deliveries -> Recipients]
    /\ MaxRefusals \in Nat \ {0}
    /\ {DailyCap, DailyCapPerUser, MaxDeaths} \subseteq Nat
    /\ {RetryAfter, StaleAfter, CapWindow, ExpiresAfter} \subseteq Nat
    /\ RetryAfter < StaleAfter /\ StaleAfter < CapWindow /\ CapWindow < ExpiresAfter
    /\ NoDelivery \notin Deliveries

VARIABLES
    delivery,   \* delivery -> its notification_deliveries row
    outbox,     \* delivery -> how often the provider took it, and how long ago the last time was
    sender,     \* worker -> what it is doing
    deaths

deliveryVars == <<delivery, outbox, sender, deaths>>

\* An age past the delay it is compared with tells nothing more.
Ages == 0 .. ExpiresAfter + 1
Never == -1
Older(age, delay) == IF age = Never \/ age = delay + 1 THEN age ELSE age + 1

SendOutcomes == {"sent", "skipped", "refused", "unknown", "raised"}

DeliveryRows == [status : {"absent", "queued", "running", "done", "failed", "skipped", "deleted"},
                 refusals : 0 .. MaxRefusals,
                 created : Ages,
                 claimed : Ages \cup {Never},
                 linked : BOOLEAN]   \* notification_id is not NULL

Resting(pc) == [pc |-> pc, row |-> NoDelivery, outcome |-> "none"]

DeliveryInit ==
    /\ delivery = [d \in Deliveries |-> [status |-> "absent", refusals |-> 0, created |-> 0,
                                         claimed |-> Never, linked |-> TRUE]]
    /\ outbox = [d \in Deliveries |-> [times |-> 0, age |-> Never]]
    /\ sender = [w \in DeliveryWorkers |-> Resting("idle")]
    /\ deaths = 0

\* A row leaves the queue for good.  No query reads its created_at any more, and claimed_at only
\* if it failed: the clocks nobody reads are put back.
Leave(row, status) ==
    [row EXCEPT !.status = status, !.created = 0,
                !.claimed = IF status = "failed" THEN @ ELSE Never]
-----------------------------------------------------------------------------
\* _emit: the row is written with its notification, in the transaction of the action.
Notify(d) ==
    /\ delivery[d].status = "absent"
    /\ delivery' = [delivery EXCEPT ![d].status = "queued"]
    /\ UNCHANGED <<outbox, sender, deaths>>

\* notifications.delete: a row that never left goes with its notification, the others lose it.
DeleteNotification(d) ==
    /\ delivery[d].status # "absent"
    /\ delivery[d].linked
    /\ delivery' = [delivery EXCEPT ![d] =
         LET row == [@ EXCEPT !.linked = FALSE] IN
         IF row.status \in {"queued", "skipped"} THEN Leave(row, "deleted") ELSE row]
    /\ UNCHANGED <<outbox, sender, deaths>>

\* _expire, at the start of a pass.
BeginPass(w) ==
    /\ sender[w].pc = "idle"
    /\ sender' = [sender EXCEPT ![w] = Resting("drain")]
    /\ delivery' = [d \in Deliveries |->
         CASE delivery[d].status = "running" /\ delivery[d].claimed > StaleAfter ->
                 Leave(delivery[d], "failed")
           [] delivery[d].status = "queued" /\ delivery[d].created > ExpiresAfter ->
                 Leave(delivery[d], "skipped")
           [] OTHER -> delivery[d]]
    /\ UNCHANGED <<outbox, deaths>>

\* Mutant of PossiblySent: a row that went stale under a dead worker is forgotten.
PossiblySentUnlessFailed(d) ==
    \/ delivery[d].status = "done" /\ outbox[d].age <= CapWindow
    \/ delivery[d].status = "running" /\ delivery[d].claimed <= CapWindow

\* _possibly_sent_since: sent_at is the tick of the landing, which is the tick of the send.
PossiblySent(d) ==
    \/ delivery[d].status = "done" /\ outbox[d].age <= CapWindow
    \/ /\ delivery[d].status \in {"running", "failed"}
       /\ delivery[d].refusals < MaxRefusals
       /\ delivery[d].claimed <= CapWindow

OutFor(u) == {d \in Deliveries : PossiblySent(d) /\ delivery[d].linked /\ To[d] = u}

Sendable(d) ==
    /\ Cardinality({e \in Deliveries : PossiblySent(e)}) < DailyCap
    /\ delivery[d].linked
    /\ Cardinality(OutFor(To[d])) < DailyCapPerUser
    /\ delivery[d].status = "queued"
    /\ delivery[d].claimed = Never \/ delivery[d].claimed > RetryAfter

\* _claim_next: the oldest sendable row.
ClaimNext(w, d) ==
    /\ sender[w].pc = "drain"
    /\ Sendable(d)
    /\ \A e \in Deliveries : Sendable(e) => delivery[e].created <= delivery[d].created
    /\ delivery' = [delivery EXCEPT ![d].status = "running", ![d].claimed = 0]
    /\ sender' = [sender EXCEPT ![w] = [pc |-> "claimed", row |-> d, outcome |-> "none"]]
    /\ UNCHANGED <<outbox, deaths>>

EndPass(w) ==
    /\ sender[w].pc = "drain"
    /\ \A d \in Deliveries : ~Sendable(d)
    /\ sender' = [sender EXCEPT ![w] = Resting("idle")]
    /\ UNCHANGED <<delivery, outbox, deaths>>
-----------------------------------------------------------------------------
\* _attempt: the recipient may be gone or have switched the kind off; the provider takes the
\* message, refuses it, or answers nothing, having taken it or not.  Without its notification
\* the row cannot even be read.
Attempt(w) ==
    LET d == sender[w].row IN
    /\ sender[w].pc = "claimed"
    /\ \E outcome \in SendOutcomes, taken \in BOOLEAN :
        /\ ~delivery[d].linked => outcome = "raised"
        /\ taken => outcome \in {"sent", "unknown"}
        /\ outcome = "sent" => taken
        /\ outbox' = IF taken THEN [outbox EXCEPT ![d] = [times |-> @.times + 1, age |-> 0]]
                              ELSE outbox
        /\ sender' = [sender EXCEPT ![w].pc = "attempted", ![w].outcome = outcome]
    /\ UNCHANGED <<delivery, deaths>>

Refused(row) ==
    LET counted == [row EXCEPT !.refusals = @ + 1] IN
    IF counted.refusals >= MaxRefusals THEN Leave(counted, "failed")
                                       ELSE [counted EXCEPT !.status = "queued"]

\* Mutant of Landed: an answer that never came is retried like a refusal.
LandedRetryingUnknown(row, outcome) ==
    CASE outcome = "sent"    -> Leave(row, "done")
      [] outcome = "skipped" -> Leave(row, "skipped")
      [] OTHER -> Refused(row)

\* _land: an unknown outcome leaves the row running.
Landed(row, outcome) ==
    CASE outcome = "sent"    -> Leave(row, "done")
      [] outcome = "skipped" -> Leave(row, "skipped")
      [] outcome = "unknown" -> row
      [] OTHER -> Refused(row)

Land(w) ==
    LET d == sender[w].row IN
    /\ sender[w].pc = "attempted"
    /\ delivery' = [delivery EXCEPT ![d] = Landed(@, sender[w].outcome)]
    /\ sender' = [sender EXCEPT ![w] = Resting("drain")]
    /\ UNCHANGED <<outbox, deaths>>

\* The landing commit fails: a message that may have left stays running and goes stale, any
\* other counts as refused, unless that write fails too and the pass is over.
LandFails(w) ==
    LET d == sender[w].row IN
    /\ sender[w].pc = "attempted"
    /\ \/ /\ sender[w].outcome \in {"sent", "unknown"}
          /\ sender' = [sender EXCEPT ![w] = Resting("drain")]
          /\ UNCHANGED delivery
       \/ /\ sender[w].outcome \notin {"sent", "unknown"}
          /\ \/ /\ delivery' = [delivery EXCEPT ![d] = Refused(@)]
                /\ sender' = [sender EXCEPT ![w] = Resting("drain")]
             \/ /\ sender' = [sender EXCEPT ![w] = Resting("idle")]
                /\ UNCHANGED delivery
    /\ UNCHANGED <<outbox, deaths>>

Die(w) ==
    /\ sender[w].pc # "down"
    /\ deaths < MaxDeaths
    /\ deaths' = deaths + 1
    /\ sender' = [sender EXCEPT ![w] = Resting("down")]
    /\ UNCHANGED <<delivery, outbox>>

Revive(w) ==
    /\ sender[w].pc = "down"
    /\ sender' = [sender EXCEPT ![w] = Resting("idle")]
    /\ UNCHANGED <<delivery, outbox, deaths>>

\* Time passes, on the clocks a row of that status is still read by.  An attempt is bounded by
\* the provider's ten second timeout.
Tick ==
    /\ \A w \in DeliveryWorkers : sender[w].row = NoDelivery
    /\ delivery' = [d \in Deliveries |->
         LET row == delivery[d] IN
         [row EXCEPT
            !.created = IF row.status \in {"queued", "running"} THEN Older(@, ExpiresAfter) ELSE @,
            !.claimed = IF row.status \in {"queued", "running", "failed"}
                        THEN Older(@, CapWindow) ELSE @]]
    /\ outbox' = [d \in Deliveries |-> [outbox[d] EXCEPT !.age = Older(@, CapWindow)]]
    /\ UNCHANGED <<sender, deaths>>

Send(w) ==
    \/ BeginPass(w) \/ EndPass(w) \/ Attempt(w) \/ Land(w)
    \/ \E d \in Deliveries : ClaimNext(w, d)

DeliveryNext ==
    \/ Tick
    \/ \E w \in DeliveryWorkers : Send(w) \/ LandFails(w) \/ Die(w) \/ Revive(w)
    \/ \E d \in Deliveries : Notify(d) \/ DeleteNotification(d)

DeliverySpec ==
    /\ DeliveryInit
    /\ [][DeliveryNext]_deliveryVars
    /\ WF_deliveryVars(Tick)
    /\ \A w \in DeliveryWorkers : WF_deliveryVars(Send(w)) /\ WF_deliveryVars(Revive(w))
-----------------------------------------------------------------------------
DeliveryTypeOK ==
    /\ delivery \in [Deliveries -> DeliveryRows]
    /\ outbox \in [Deliveries -> [times : Nat, age : Ages \cup {Never}]]
    /\ sender \in [DeliveryWorkers ->
                     [pc : {"down", "idle", "drain", "claimed", "attempted"},
                      row : Deliveries \cup {NoDelivery},
                      outcome : SendOutcomes \cup {"none"}]]
    /\ deaths \in Nat

\* docs/engineering.md: a crash never sends one message twice, an unknown outcome is never
\* retried.
NeverSentTwice == \A d \in Deliveries : outbox[d].times <= 1

\* What the provider took in any trailing window stays under the daily cap, whichever rows
\* crashed, went stale or lost their notification; and, notifications deleted aside, under the
\* cap of each recipient.  With one sender: two would read one count before either claims.
Out(d) == outbox[d].age # Never /\ outbox[d].age <= CapWindow
CapsHold ==
    /\ Cardinality({d \in Deliveries : Out(d)}) <= DailyCap
    /\ \A u \in Recipients :
         Cardinality({d \in Deliveries : Out(d) /\ delivery[d].linked /\ To[d] = u})
            <= DailyCapPerUser

DeliveryLedger ==
    [d \in Deliveries |->
        CASE delivery[d].status = "absent" -> "new"
          [] delivery[d].status \in {"queued", "running"} -> "open"
          [] delivery[d].status \in {"skipped", "deleted"} -> "unsent"
          [] OTHER -> delivery[d].status]

Delivered == INSTANCE WorkLedger WITH Items <- Deliveries, ledger <- DeliveryLedger,
                                      Verdicts <- {"done", "failed", "unsent"}

\* Every email queued is sent, failed or dropped, once and for good: under a cap it waits, and
\* after 48 hours it is dropped.
DeliveriesSettle == Delivered!Spec
=============================================================================
