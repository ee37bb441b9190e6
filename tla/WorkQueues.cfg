\* Two rows in each queue; two workers for the mentions and the jobs (a rolling deploy), one for
\* the emails, whose caps no lock protects; a crash anywhere.
CONSTANTS
    a = a
    b = b
    Mentions = {a, b}
    Thread <- MCThread
    MentionWorkers = {w1, w2}
    MaxAttempts = 2
    ReplyCap = 1
    MaxCrashes = 1
    NoMention = NoMention
    Jobs = {a, b}
    Analysts = {"ana"}
    Owner <- MCOwner
    Zip <- MCZip
    JobWorkers = {w1, w2}
    MaxRuns = 2
    MaxKills = 1
    NoJob = NoJob
    Deliveries = {a, b}
    Recipients = {"ana"}
    To <- MCTo
    DeliveryWorkers = {w1}
    MaxRefusals = 2
    DailyCap = 1
    DailyCapPerUser = 1
    RetryAfter = 0
    StaleAfter = 1
    CapWindow = 2
    ExpiresAfter = 3
    MaxDeaths = 1
    NoDelivery = NoDelivery
SPECIFICATION Spec
CHECK_DEADLOCK FALSE
INVARIANTS LedgerTellsTheTruth MailTellsTheVerdict StagedWhileOpen NeverSentTwice CapsHold
PROPERTIES QueuesSettle
