# TLA+ models of Vidit

Vidit is a site where analysts geolocate conflict footage. An analyst publishes an **event**
(footage, its sources, coordinates, a proof), others are credited on it, review it and cite it
under a version number. This directory holds TLA+ models of the backend (`backend/app`) and of
the stateful parts of the frontend (`frontend/src`), the TLC runs that check them and the TLAPS
proofs of what matters most in them.

| what to run | command |
|---|---|
| a run | `tlc -config EventReview.cfg MCEventReview.tla` |
| a proof | `tlapm EventReview_proofs.tla` |

Contents: [the system](#the-system), [the modules](#the-modules), [the runs](#the-runs),
[what the code does that its docs deny](#findings), [the proofs](#the-proofs),
[what is left out](#abstractions), [the plan](#the-plan).

## The system

One backend image runs in several roles (`docs/engineering.md`, "Backend roles"): `api`, one or
more `worker`s (mail, archive imports, bot mentions, the reaper of staged uploads), the daily
`sync-conflicts` and weekly `update-map`, and `migrate` before a release. They share one Postgres, at READ
COMMITTED, and S3 buckets behind a CDN; the API also keeps a short-lived cache of map points. The
Next.js frontend is a client of the API whose pages keep state of their own: who is signed in,
forms, drafts, lists, filters. Components interact through the rows one writes and
another reads, and through direct calls within a transaction.

Two conventions of the code decide what can interleave:

* a write to an event takes the lock on its row (`lock_event`, `SELECT ... FOR UPDATE`) and
  re-reads the row under it; the lock is kept to the end of the transaction. What a request
  read *before* the lock may be stale: the visibility check of `resolve_live_event`, the
  verdict of an import, the list of a purge, the account of a ban;
* an operation on events, credit and accounts is one transaction, so a crash is a rollback; the
  exceptions are the objects in S3, the mail provider, X, and the claims of the work queues.

### Components

| component | state | operations | interacts with | what makes it correct |
|---|---|---|---|---|
| Event lifecycle (`services/events/*`, `versions.py`) | `events`, `event_versions` | create, request, publish, correct, batch publish, close, redact | import and admin write the same row; credit and reviews hang off it | a cited version keeps its content; no lost update; the floor and the ceiling hold; a retracted record stays |
| Import (`detection.py`, `tweet_ingest/*`) | `events` in `detected` | create a detection, overwrite one | started by the bot, by an archive job or by a person | never overwrites what a person published; one post, one row |
| Credit (`geolocator_credit.py`) | `event_geolocators` | invite, withdraw, decline, accept, remove, leave, hand over | moderation hands owned events over | the owner is credited; a credit is never washed off |
| Approvals, requests (`approvals.py`, `approval_requests.py`) | `event_approvals`, `approval_requests` | approve, delete, ask, decline | read the credit, written to by it | independent reviewers; an approval is of what was seen; a request is still meant |
| Account moderation (`admin.py`) | `users.deleted_at`, `events.deleted_at` | ban, restore, erase | cascades over events and credit | shared work survives; a ban is undone exactly |
| Organizations (`organizations.py`) | `organizations`, `organization_members` | create, invite, accept, appoint, remove, leave, delete | approve and are asked as a voice | a manager remains; reviews in its name stay independent |
| Reports, takedowns (`reports.py`) | `content_reports`, `hidden_at` | file, resolve, withhold, lift | hide events, collections, sites | one verdict a report; a takedown freezes |
| Evidence and storage (`evidence_intake.py`, `uploads.py`, `storage.py`, `source_archive.py`) | `uploads`, `media`, S3 objects | stage, consume, reap, store, sweep, redact | every save; the reaper runs beside them | no object a readable row names is deleted |
| Work queues (`bot.py`, `archive_jobs.py`, `notification_delivery.py`) | `bot_mentions`, `archive_import_jobs`, `notification_deliveries` | enqueue, claim, heartbeat, reclaim, finish, fail | run the import, send mail, post replies | nothing is said twice or falsely; every item ends |
| Registration (`registration.py`, `sponsored_invites.py`, `password_reset_tokens.py`) | `pending_registrations`, `invite_codes`, `password_reset_tokens` | stage, confirm, redeem, revoke | creates accounts | a code works once; a quota holds |
| Collections, sites (`collections.py`, `sites.py`) | memberships, links, files | add, remove, reorder, publish, withdraw | name events; reported | only credited work in a collection |
| Reads (`search.py`, `pagination.py`, `cache.py`) | a cache of points | search, paginate, invalidate | read the rest | no page skips or repeats a row; nothing withdrawn is served for long |
| Sign-in and preferences of a tab (`AuthContext.tsx`, `session.ts`, `preferences.ts`) | the tab's user, the mark of a held session, the cache of display choices | ask `/auth/me`, retry, recheck, sign in and out; pull, choose, upload | a cookie other tabs and the server change; a cache accounts share | never shows the account before; never loses a choice |
| Lists and search (`useCursorList.ts`, `search/page.tsx`, `filters/*`) | rows, cursors, the view and its URL | first page, further pages, typing, navigation | keyset pages of the API; the router | one list shows one walk; a page at rest answers its URL |
| Event forms (`submit/page.tsx`, `useEventWrite.ts`, `useStoredDraft.ts`, `SourcesField.tsx`) | the form, the draft in IndexedDB, uploads in flight | type, store, confirm, create, upload, import | staged uploads; the create and the save | one publish; no draft comes back; each source shows its file |
| Map page (`map/page.tsx`, `viewport.ts`) | the viewport, the box claimed, the points and sites read | move, wait, ask, abort, fail, retry, filter | one box at a time of the points and sites of the API | the pins on the map are those of the place and filters on show, or it says they failed |
| Collection edit page | the rows of the form, the save in flight | read, pick, save call by call | another tab of the owner | a save is its difference |
| Map files, imagery, conflict sync, mail layout, sanitising, preferences | reference rows and files | conversions and single-row settings | | see their unit tests |

`PROJECT.json` lists each with its files and whether it is modelled. Its `hazards` name, at
their line, the places where this code is hard to test; the properties below are aimed at them.

## The modules

```
CitableRecord <-- refinement -- EventLifecycle     one row of events, all its writers
                                EvidenceStore      the stored files of events
                                EventReview        the people around one published event
                                DetectionImport    the rows the imports of an account land on
                                AccountModeration  admin transactions over several events
                                Registration       invite codes and the way to an account
WorkLedger    <-- refinement -- MentionQueue       the bot's mentions
              <-- refinement -- ArchiveJobQueue    the imports of an export
              <-- refinement -- DeliveryQueue      the notification emails
                                SignIn, DisplayPreferences, CursorList, SearchPage,
                                SubmitDraft, SourceUploads, CollectionEdit, FilterUrl,
                                MapPoints
                                                   what the pages of the frontend keep
MCEventLifecycle (EventLifecycle, EvidenceStore, DetectionImport)   MCEventReview
MCAccounts (AccountModeration, Registration)
MCWorkQueues (the three queues)   MCPages (the nine page modules)
EventLifecycle_proofs (also DetectionImport)   EvidenceStore_proofs   EventReview_proofs
Accounts_proofs (AccountModeration, Registration)
WorkQueues_proofs (the three queues)   SessionPages_proofs   BrowsePages_proofs   FormPages_proofs
```

The components of the record overlap on purpose. `EventLifecycle` knows the content of
every version and takes the owner's departure as an input; it proves that a version number names
one content. `EventReview` builds on that, so a version there is only its number, and it knows
who is credited and takes a ban or an erasure as one step on the one event. `AccountModeration`
opens that step: a ban is an unlocked read, locks, another unlocked read, writes and a commit,
over several events and against a second admin. `EvidenceStore` opens the step of a save: rows
in a transaction, objects before it and after it. `DetectionImport` opens the verdict of an import,
which `EventLifecycle` takes for its one row as an input: the row is looked for among several.

An MC module that follows several components has a variable (`part`, `cast`, `focus`) that names
the one a behaviour follows. The queues share no table and no lock, the pages modelled run on
pages of their own, each component of the record has its own abstraction of an event with the
actions of the others that matter to it, and a registration reads of the moderation only that an
account is erased (`EraseUser`), so a step of one changes nothing another one reads: a behaviour of all of them
is one behaviour of each, and interleaving them would multiply states and show nothing. The
interaction of the pages with the server is inside the page modules (`ServerCreates`, `ServePull`,
`OtherTab`).

### EventLifecycle

| TLA+ | code |
|---|---|
| `status`, `beforeClosed`, `versionNo`, `content`, `owner`, `hidden`, `deleted` | columns of `events`; `deleted` keeps apart a stamp shared with the owner's ban and one of its own |
| `history` | `event_versions` by number, `Blank` once redacted |
| `pages` | what a client's edit form was filled from, with its `version_no` |
| `inflight` | requests between `resolve_live_event` and the lock |
| `upserting`, `purging` | an import that holds a verdict; a purge that holds a list |
| `SaveVersion` (`Publish`, `Correct`) | `save_version` on a draft, on a published row |
| `UpdateRequest`, `Close`, `PublishDetection` | `update_request`, `close`, `_publish_detection` |
| `ImportVerdict`, `UpsertOne`, `UpsertSkipped` | `_disposition` unlocked, then `_upsert_one` under the lock |
| `FileVersion` | `file_version`: snapshot, bump, ceiling |

A content is a *body* (everything editable but two parts), whether a conflict is set, and which
archived copy the links name. The two are apart because the code treats them so: an import
writes no conflict and a batch supplies it; an archived copy alone may be saved past the
ceiling. `Sourced` and `Complete` are the floors of a request and of a publication.

`CitableRecord` is what the docs promise a reader who cites `/events/{id}/vN`. The mapping is
`Phase`, `Latest` and `Record` at the end of `EventLifecycle`; checked by the property
`IsCitable` and proved by `EventIsCitable`.

### EventReview

| TLA+ | code |
|---|---|
| `active`, `invited`, `departed` | the rows of `event_geolocators` by state, and those with `departed_at`, whatever their state |
| `approvals` | `event_approvals`: the voice it stands for, who placed it, the version |
| `requests` | `approval_requests`; a declined one stays for its cooldown |
| `seen` | the version of the page a reviewer has open |
| `EverCredited`, `CanActFor`, `Resolve` | `ever_credited_ids`, `_can_act_for`, the resolve and revoke helpers |
| `Ban`, `RestoreUser`, `EraseAccount` | `soft_delete_user`, `restore_user`, `hard_delete_user` on this event |

### AccountModeration

`job[a]` is a running admin transaction: `Begin` (the unlocked read of the account),
`LockOwned` (`FOR UPDATE` on the owned rows), `ChooseHeirs` (the unlocked read of the
co-geolocators), then `CommitBan` or `CommitErasure`, or `Abort` at any point. `Unlocked` is
what every other writer of an event waits for. `hiddenAt` holds the stamp itself, as
`restore_user` finds the events a ban hid by comparing stamps; `Apart` is the stamp of an event
deleted on its own. `restamped` is a history variable: the accounts two bans wrote over.

### EvidenceStore

| TLA+ | code |
|---|---|
| `store`, `made` | the objects in the bucket; the keys given out, each of them once |
| `staged`, `late`, `reaped` | rows of `uploads`; those past `expires_at`; those the reaper has deleted and not swept |
| `event[e]` | status, the files of its sources, its proof's `media` rows, the images its body shows |
| `filed[e]` | the snapshots of `event_versions`: sources, body, `proof_media`; `Redacted` once blanked |
| `tx[w]` | a write between `lock_event` / `take_uploads` and its commit, then the sweep it owes |
| `admin` | a redaction or an erasure, by the step it has reached |

`BeginWrite`, `StoreImage`, `CommitRows` and `SweepDropped` are the four stages of
`attach_evidence_and_commit`; `WriteFailed` is its `except`, `WriterDies` a crash in any gap.
`CommitCreate`, `CommitCorrection` and `CommitSave` are the three services that end in it. `Reap`
and `SweepReaped` are `reap_expired_uploads`, `RedactSnapshot`, `ListObjects`, `EraseRows` and
`SweepAdmin` the two admin operations that free files.

### DetectionImport

| TLA+ | code |
|---|---|
| `rows[r]` | an event, by the order it landed in: owner, status, `event_detections` (`work`), place, links, the links of its versions (`filed`), `saved` (`version_no > 0`), `deleted_at`, `hidden_at` |
| `import[m]` | an import between its unlocked read and its write: a row to create, or one to overwrite |
| a work | a post with its thread, a coordinate, the source it declares and the links it brings; a request has no coordinate |
| `Recognises` | `_match_legs`: the anchor, the thread's overlap, a source link of the row or of a version |
| `Decide`, `Persist`, `Upsert`, `GiveUp` | `_disposition` or `_existing_row_for`; `_persist_one` or `open_request`; `_upsert_one`; a skip, a raise, a crash |
| `SaveRow`, `EditRequest`, `CloseRow`, `PassOn`, `RedactLinks`, `DeleteRow`, `RestoreRow`, `WithholdRow`, `EraseRow`, `WriteByHand` | what people and admins do to a row, in as much as the recognition reads it |

`raced` and `fate` are history: which rows landed while the import that wrote a row was at work,
and what has happened to a row since.

### Registration

| TLA+ | code |
|---|---|
| `invite`, `pending` | rows of `invite_codes`, of `pending_registrations` by address; `late` is past `expires_at` |
| `users`, `opened` | the accounts, as what they were registered with; every account there ever was |
| `visit[v]` | `create_pending_registration` between its checks and its insert |
| `click[c]` | `confirm_pending_registration`: the row claimed by `DELETE ... RETURNING`, then checked |
| `unused` | codes that `delete_invite_code` has read as not redeemed and not deleted yet |
| `mint[d]` | `sponsored_invites.mint` under the lock on the sponsor's row |
| `LandAccount` | the insert of the user, `consume_invite_code` and the commit |
| `RejectConfirmation`, `RollBackConfirmation` | a refusal that commits the DELETE; a constraint, a lost code, a crash, that put the row back |

### MentionQueue, ArchiveJobQueue, DeliveryQueue

Each has its rows, what the outside world saw of them, the worker's program counter, and a bound
on crashes. The stations of a worker are the places between two commits or calls.

| | MentionQueue | ArchiveJobQueue | DeliveryQueue |
|---|---|---|---|
| rows | `mention` (`bot_mentions`) | `job` (`archive_import_jobs`) | `delivery` (`notification_deliveries`) |
| outside | `written` (events), `posted` (replies on X) | `staged` (zips), `imported`, `mails` | `outbox` (what the provider took) |
| enqueue | `Enqueue` | `EnqueueJob` | `Notify` |
| claim, give up | `Claim`, `Bury`, `DropMalformed` | `ClaimJob`, `BuryJob` | `BeginPass` (expiry), `ClaimNext` |
| work | `Process`, `PostReply`, `SkipReply` | `Check`, `Import` | `Attempt` |
| landing | `Finish`, `Requeue` | `Conclude`, `ConcludeFails`, `Sweep`, `Mail` | `Land`, `LandFails` |
| faults | `CrashWorker`, lost answers of X | `Kill`, a failed commit, a lost email | `Die`, an unknown outcome, a failed landing |
| time | `GoStale` | `GoOverdue` (no heartbeat) | `Tick` (ages of rows) |

`WorkLedger` is what all three promise: an item handed in gets one verdict, the verdict stands,
and it comes. A step may settle several items, as one `UPDATE` expires a backlog. The mappings
(`MentionLedger`, `JobLedger`, `DeliveryLedger`) read the ledger off the status column.

### The pages

| module | state | what goes wrong without care |
|---|---|---|
| `SignIn` | the cookie, the sessions the server honours, the tab's user and `stateVersion`, `/auth/me` calls in flight, the retry timer, the 401 listener, `vidit:session-held` | an answer asked for another session lands last; a notice of a session the reader ended |
| `DisplayPreferences` | the server's row, the cache and the account it is tagged with, a pull, PATCHes | the pull undoes a choice; one account's values reach another |
| `CursorList` | rows on the server, the hook's walk, its first and further page in flight | a page of another walk is appended; a row skipped or shown twice |
| `SearchPage` | what is typed, committed, asked, shown, picked | answers in any order; a further page of the search left |
| `SubmitDraft` | the form, the store and its queued transactions, the create in flight, events created | the published draft comes back; a lost answer makes a second event |
| `SourceUploads` | the sources, keys and tokens, uploads in flight, the panel of the note, what a write named | a late answer fills the wrong source; a write leaves before a file arrived |
| `CollectionEdit` | the rows on the server, the opening set, the form, the calls of a save | a save undoes what another tab wrote, or what the page had not read |
| `MapPoints` | the viewport and its pause, the box claimed and asked for, the reads of points and sites in flight, what is on the map | the pins of another viewport or of other filters stay; a failed read passes for an empty map |
| `FilterUrl` | filters, the committed snapshot, the query string, session history, a navigation under way | the page takes its own write for a move, or overwrites a newer URL |

A response in flight is a variable that an action fills when the server serves it and another
empties when it lands, so that anything may happen in between; a request the page has aborted or
given up is dropped at its landing, by the test the code makes there (`Current`, `Appends`,
`Latest`, `Awaits`). Variables marked *history* only record what a property needs.

## The runs

Deadlock checking is off in every configuration: the bounded systems stop when every budget is
spent.

| run | asks | size |
|---|---|---|
| `EventLifecycle` | does one event keep its promises while two analysts, an import, a batch and admins write in every order; with saves on both sides of the version ceiling; does no sweep take a file something still renders; and on which row does a post land? | 1,746,406 states |
| `EventReview` | do credit and review stay apart for three analysts, or for two and an organization? | 538,358 |
| `Accounts` | what do two admin transactions at once do to the shared work of three analysts; and what does a code open, with registrations and confirmations at once? | 2,078,894 |
| `WorkQueues` | do the three queues settle every item and tell the world nothing twice and nothing false? | 228,664 |
| `Pages` | does what a page shows, stores and sends stay right when answers come late, in any order or not at all? | 608,844 |
| `FrozenUnderTakedown`, `PurgeSparesPublished`, `BanIsUndone`, `VersionsRender`, `MixedSearch`, `DisplayStaysHome`, `WriteWaitsForFiles` | seven statements of the docs and comments the code does not keep, see [below](#findings) | counterexamples |

**EventLifecycle** checks `TypesOK`; `VersionsAreNumbered` (version 0 is exactly the
unpublished row, and the history has no hole); `VersionNamesContent` (what anybody once read at
a published version is still what the row serves there, unless redacted);
`PublishedMeetsFloor` (four paths publish, none below the floor);
`SaveSupersedesWhatItsAuthorRead` (no lost update for a save that carries its version) and
`IsCitable` (the refinement). `CeilingHolds` needs archived copies and a ceiling below the cap,
and is what the part with one writer is for. Of the files: `UploadTakenOnce` (one staged upload
becomes the source of one event, whoever else names it, and wherever its expiry falls) and
`EvidenceStays` (no sweep takes a file that an event's sources, proof rows or body show, or a
source or proof image of a readable version, wherever a writer, the reaper or an admin dies). Of
the imports: `DoublesAreRaces` (a second row for what the account already has, at that place, is
written only by an import at work when the first row landed, or after the first was handed over,
moved, or lost the link they share; a row taken down still holds its post).

`SaveSupersedesWhatItsAuthorRead` is stated from version 1 up. An open request is overwritten in
place and remains version 0, so an answer posted with `version_no` 0 passes the check even
though the request it read has moved (`request.py`); the number cannot tell the two apart.

**EventReview** checks `OwnerIsGeolocator` (which the search for an heir rests on);
`ApproverIndependent` (nobody who is or ever was credited stands behind an approval, in their
own name or for an organization); `RequestsStand` (an open request was sent by someone still
credited, to a target whose answer is still wanted); `ApprovalLandsOnWhatWasSeen`;
`CreditIsNeverForgotten`.

**Accounts** checks `OwnerIsCredited` and `SharedWorkPasses` (the heirs are chosen
before the commit; the lock is all that keeps the choice good), `HiddenWithTheBan` (a restore
can find what the ban hid, as long as two bans of one account did not race) and
`DeletedApartStays`; and `InviteServesOnce` (a code and a link each open one account at most,
ever, and a code is marked spent exactly when it opened one). `OnlyTheLiveRowOpens` and
`QuotaHolds` of Registration are proved and in no run.

**WorkQueues** checks `LedgerTellsTheTruth` (what the bot said it saved is saved, and a reply in
the ledger is on X, whatever died between the write, the reply and the landing);
`MailTellsTheVerdict` (the owner of an import hears at most once, and hears what the row says);
`StagedWhileOpen` (the zip outlives every run that may need it); `NeverSentTwice` (no email leaves
twice, an unknown outcome included); `CapsHold` (what the provider took in a trailing window stays
under both daily caps, though rows crash, go stale or lose their notification); and
`QueuesSettle`, the refinement of `WorkLedger` with its liveness.

**Pages** checks `ShownIsRecent` (a late answer never brings back an account this browser no
longer holds), `NoticeIsTrue` (the reader is told a session ended only when one did);
`ChoiceShows` (a pull never undoes a choice); `WalkIsWhole` (a list is one walk of one path, its
rows in order, none twice, none of those it began with skipped); `RestingPageAnswers` (a search
page at rest answers the view of its URL); `DraftStaysGone` and `OnePublish`;
`SaveIsItsDifference` (a save of a collection is a three-way merge); `ViewIsItsUrl` (at rest, the
URL names the view); `SlotsTellTheTruth` (each source shows the file its reader gave it last, no
staged file is in two, GIF frames respect the cap); `MapShowsItsView` (a map at rest shows the pins of a
box round its viewport under its filters, or says they failed, and the sites of that box); and `PagesSettle`, the liveness of the three
pages that wait for an answer.

### Fairness

Only the two runs with liveness state it.

* *Queues.* Weak fairness of the step of each live worker (`Work`, `RunJobs`, `Send`): the worker
  process polls the three queues in a loop and every external call has a timeout. Of its restart
  (`RestartWorker`, `Reboot`, `Revive`): the supervisor starts a dead worker again. Of time
  (`GoStale`, `GoOverdue`, `Tick`). Enqueuing, crashes and failures owe nothing; crashes are
  bounded, as a worker that always dies at one place settles nothing. Attempts are bounded by the
  code itself.
* *Pages.* Weak fairness of `SignInSettles`, `LandFirst` and `UploadsEnd`: a request ends in an
  answer or an error, and a timer fires. Readers, other tabs and the server's sessions owe
  nothing.

The other components promise nothing that happens by itself: each step is a person's or an
admin's decision, an expiry nobody waits for, or, for the stored files, best-effort by the code's own words (a sweep that
fails leaves an object behind).

### Bounds

| bound | value | why enough |
|---|---|---|
| analysts | 2 or 3, symmetric | an owner and another writer; an owner, a co-geolocator and a reviewer |
| bodies | one below every floor, one that is sourced only, two complete | each floor has both sides, and a correction has something to move to |
| `VersionCap` (no save passes it; the model's own bound) | 4; 2 in EventReview | publish from 0, correct, correct again; a save past the ceiling; an approval of an old version |
| parts of EventLifecycle | no archived copy with two writers; archived copies with one | the ceiling is between the content and the history, not between writers |
| EvidenceStore | 2 events, 2 source files, 1 proof image, 2 writers, 2 versions filed of each | one file for two events, or two for one; a version that cites what another lists; a redaction or a reap against a write; every gap of every actor |
| `MaxVersions` (`MAX_VERSIONS_PER_EVENT`, 100 in the code) | 3 | saves below, at and above it |
| `MaxGeolocators` (`MAX_EVENT_GEOLOCATORS`, 10 in the code) | 2 | the third analyst meets the full byline |
| `MaxRequests` (requests open or in cooldown at once) | 2; 1 of them among three analysts | two requests interact only through their common target or requester; the part with an organization has both |
| `MaxClock` (bans that commit) | 2 | the race of two bans, and a ban after a restore |
| events in AccountModeration | 2 | a handed-over one beside a hidden one |
| works, rows, imports at once (`MaxRow`) | 3, 2, 2 | one thread read from its head and from its second post, and a request for the same footage: each leg of the recognition alone and together; the second row is the double |
| what people and admins do to the rows (`MaxEdits`) | 2 | one thing that hides the first row and one that does not, or a change and its undoing |
| addresses, names, codes, links (`MaxToken`) | 2 each | two registrations on one code; a row replaced, or a link mailed again |
| registrations, confirmations at once | 2 in all (`TwoAtOnce`) | the constraints and the claim each have a loser; two registrations at once are after one name on one code |
| desks, `DAILY_MINT_LIMIT`, days (`MaxDay`) | 2, 1, 0 to 1 | two mints for the last place of the day; a mint asked today that ends tomorrow |
| rows of a queue | 2 | one that ends well and one that cannot be read; the order of a claim |
| workers | 2 for mentions and imports (a rolling deploy), 1 for emails | a claim's count of the cap and its row lock are one step of the model, which is faithful for one worker only |
| attempts, crashes | 2, 1 | a retry and the last one; a crash in each gap, and the run after it |
| caps of the queues | 1 | the second row meets a full cap |
| ages of an email row | 0 < 1 < 2 < 3 for retry, stale, cap window, expiry | the order of the code's four delays; the proofs hold for every such order |
| kinds of thread | `coords`, `malformed` | the longest path and the one dropped at the claim; the proofs cover every kind |
| pages | see the head of `Pages.cfg` | in each, one answer from before and one from after a change; a list of three pages; a second opening of the form; a save that breaks off and is retried; viewports inside one another's box, apart, and two with the box of the whole planet |

Symmetry is over analysts, complete bodies where they are interchangeable, events, files and admin
requests, and over what a registration names, which shares their model values; the properties treat all alike and none is a liveness property. The two runs with
liveness use no symmetry.

## Findings

Each is a run that ends in a counterexample.

1. **`FrozenUnderTakedown`**. `_common.py` and `docs/ingestion.md` say a takedown freezes the
   event for its owner too. The check is made before the row lock and not again under it by
   `save_version`, `update_request` and `close`: a takedown that commits in between is followed
   by a write to the withheld event. The batch does check under the lock.
2. **`PurgeSparesPublished`**. `purge_detected_events` says it leaves geolocations. It lists the
   detections without a lock and then deletes each row whatever it has become, a detection its
   owner has just published included.
3. **`BanIsUndone`**. `restore_user` says it restores the events a ban hid. Two bans of one
   account at once both pass the unlocked `deleted_at` check; the later stamp overwrites the one
   the events carry, and the restore finds none of them.

4. **`VersionsRender`**. `orphaned_source_media` is to return the source files "that nothing
   renders any more", and the docs keep a past version renderable. It spares what other versions'
   *sources* name and what the *current* body shows. Version 1 has source X; version 2 replaces it
   and displays X in its proof, which the intake allows; version 3 drops it. The redaction of
   version 1 deletes X, and version 2 displays a broken image.
5. **`MixedSearch`** (`ListIsOneSearch`). `search/page.tsx` says a page that lands after a new
   search started is dropped. The rows of the old search stay live while the new one runs; *Show
   more* then carries the new search's id with the old one's cursor, and its rows are appended to
   the new list.
6. **`DisplayStaysHome`**. `preferences.ts` says one account's values never reach another. A
   session drops without a sign-out, another account signs in and chooses one value before its
   pull lands: the choice claims the cache without clearing it, and the next load uploads the
   first account's other values to the second one's row.
7. **`WriteWaitsForFiles`**. `sources.ts` says the write waits for the uploads, and
   `useEventWrite` calls its check the gate every click runs. On a published event the gate runs
   at the click that opens the panel of the version's note; the panel's own button writes without
   it, and a file given meanwhile is left out of the version.

Smaller observations, reachable in the models and not stated as properties because no doc or
comment is precise enough about them:

* the docstring of `close` (`closure.py`) calls a rejected detection re-importable, while
  `_row_disposition` skips a closed row, as `docs/ingestion.md` says;
* the byline's cap counts live accounts: ban a geolocator, fill the place, restore the first,
  and the byline is one over;
* bans of an owner and of the chosen heir at once leave a live event whose owner is banned, and
  a cascade may hide an event that was handed to the account after its locks were taken;
* after two racing bans the stamps differ, so a later erasure takes the account's shared work
  for deleted on its own and deletes it although an heir is there;
* an organization's open request may be left with no member who could answer it by approving;
* the erasure of an event lists its files before it locks the row: what a save stored in between
  stays in the bucket with nothing that names it;
* a source file that the current body shows when its last version is redacted is spared, and
  nothing ever sweeps it afterwards; an edit that goes on citing it is refused as foreign;
* a reply posted by a worker that dies before the landing is in no ledger: the next attempt may
  post a second one, of another text, and the hourly cap counts one of the two;
* two imports of one post at once (an archive job and a bot tag) make two rows, as nothing but
  an unlocked read looks for the first; a comment of `EventDetection` (`models/event.py`) says the
  three entries land on one row. A published row whose place was corrected is not recognised by a
  further import of its post, and an overwrite through another entry of the thread may take away
  the link a third entry would have recognised the row by;
* `delete_invite_code` refuses a redeemed code as "the account's origin record", by an unlocked
  read: a confirmation that commits before the DELETE leaves its account without that record;
* revoking a code frees no slot of the daily quota, as `_minted_since` says; deleting one does;
* a request that passed its account check before a ban, a creation or an import, may commit
  after the ban's cascade: a live event of a banned account;
* `docs/engineering.md` calls two workers safe. `_claim_next` counts the caps in one statement and
  claims in the next, without a lock between, and each drain of the bot starts from its own count
  of the ledger: two workers at once may pass a cap together;
* a row picked on the search page while the next search runs is keyed on the new match though it
  belongs to the old rows;
* a create carries no key of its own: sent again after a lost answer, it is refused only because
  its staged file is gone, and the message ("a source names an upload that does not exist")
  invites the reader to upload again and publish a second event;
* the map drops its claim on a box when the read of it fails, "so the next move-end retries"
  (`app/map/page.tsx`). Zoomed out, every viewport is padded to the same box, the whole planet:
  the next move-end claims it again, leaves `bbox` the string it was, and asks nothing, nor do
  the moves and zooms after it, all inside the claim. The notice and its button stay, which is
  why `MapShowsItsView` holds;
* a failed read of the map's sites is silent, and the sites of the box before stay on show;
* an edit undone while the note's panel is open leaves nothing to save, and the page leaves as if
  it had saved.

## The proofs

TLC shows a property on the instances above; the theorems hold for every number of analysts,
events, organizations, admin requests, files, rows, codes, works, workers, sessions, drafts,
searches, viewports and filters, every content and every limit. Every safety property and every
type invariant a passing run checks is a theorem.

The assumptions are those of the modules, and TLC evaluates each on its instance. Most say that a
"none" value is none of the real ones (`NoneIsNo...`, `Cast`, `NoImage`, `NoVisit`, `NoResults`,
`NoSession`, ...) or that a limit is a natural (`Ceiling`, `Limits`, `Clock`, the `Max...`). The
others say something of the code: `Complete` bodies are `Sourced` (`Floors`); mentions
are finitely many; the four delays of an email are in the code's order; no file is an image; no
kind of the filters is called "event", which is the value `type=event` (`FilterAssumption`), and
every link in holds values the filters know, as the parser drops the others (`LinksAssumption`);
the box asked for a viewport holds it (`MapAssumption`: `padBounds` widens it and
`toBboxParam` rounds outwards); a post is in its own thread, and a work brings a link to the source
it declares (`ImportAssumption`); a sponsor may mint at least one code a day
(`RegistrationAssumption`).

| module | theorems | for |
|---|---|---|
| `EventLifecycle_proofs` | `TypeCorrect`, `VersionsCorrect`, `NamesCorrect`, `FloorCorrect`, `CeilingCorrect`, `SavesCorrect`, `EventIsCitable` | EventLifecycle |
| | `ImportHolds`, `ImportTypes`, `OneRowForOnePost` | DetectionImport |
| | `PartsAreTheirComponents`, `PartTypes` | MCEventLifecycle |
| `EvidenceStore_proofs` | `EvidenceTypes`, `TakenOnce`, `FilesStay` | EvidenceStore |
| `EventReview_proofs` | `TypeCorrect`, `OwnerIsCredited`, `ReviewIsIndependent`, `CreditIsKept`, `OpenRequestsStand`, `ApprovalLands` | EventReview |
| `Accounts_proofs` | `TypeCorrect`, `OwnersAreCredited`, `HiddenWithItsOwner`, `DeletedApart`, `SharedWork` | AccountModeration |
| | `RegistrationHolds`, `AccountTypes`, `CodesServeOnce`, `LiveRowsOpen`, `QuotaIsHeld` | Registration |
| | `AccountsAreTheirComponents` | MCAccounts |
| `WorkQueues_proofs` | `LedgerIsTrue`, `MailIsTrue`, `ZipIsKept`, `MessagesLeaveOnce`, `CapsAreKept`, `MentionVerdictsStand`, `JobVerdictsStand`, `DeliveryVerdictsStand`, `QueueTypes` | the three queues |
| `SessionPages_proofs` | `ShownWasHere`, `NoticeIsEarned`, `ChoiceIsShown`, `SessionTypes` | SignIn, DisplayPreferences |
| `BrowsePages_proofs` | `WalksAreWhole`, `PageAnswersItsUrl`, `MapIsItsView`, `ViewIsNamed`, `BrowseTypes` | CursorList, SearchPage, MapPoints, FilterUrl |
| `FormPages_proofs` | `DraftIsDropped`, `PublishedOnce`, `SlotsAreTrue`, `SavesMerge`, `SourcesTypes`, `FormTypes` | SubmitDraft, SourceUploads, CollectionEdit |

### The record

**EventLifecycle.** The properties share one invariant, as `VersionNamesContent` is
not inductive alone: a save files the content a page shows only if every number below the live
one is filed (`VersionsAreNumbered`). The ceiling holds at a publication because a draft has no
history, and the floor of a correction rests on version 0 being exactly the draft. The
refinement proof (`StepIsPromised`) maps each action that moves the record to its abstract step
and every other one to a stutter.

**EvidenceStore.** The argument is ownership. An object is *fresh* (staged, or the image of an open
write), then *shown* by one event, and never passes to another (`ShownOnce`). Each of the three
lists of objects to delete, of a write, of the reaper and of an admin, holds objects that are
neither fresh nor shown by another event (`DropsAreOwn`, `ReapedIsNobodys`, `DoomedIsOwn`): so a
sweep, which looks again at its own event before it deletes, has nobody else's object to spare.
`UploadTakenOnce` alone is not inductive: two open writes may name one staged file, and only the
lock on its staged row keeps their lists apart (`TakesApart`). A proof image a readable version
was filed with keeps its row (`PinsAreRows`), which is how a sweep finds it still wanted. The
invariant needs that an object's name is never used again (`made`): a name a sweep holds
would otherwise come back as a fresh one.

**EventReview.** The invariant adds that nobody is credited before publication. Credit leans on
`OwnerIsGeolocator`: after a hand-over the old owner is still credited *because* an owner is one
of the geolocators, and nobody new is because an heir is one too. `OpenRequestsStand` adds that
nothing is asked about an unpublished event and that an approval names a version already filed
(`ApprovalsAreOfFiled`): filing the next one then leaves no voice with a review of it, so the
requests that stay open are still wanted. `ApprovalLands` is an action property and needs no more
than the types: the check of the version and the insert are under one lock.

**AccountModeration.** The invariant says
what a lock is for. Locks are disjoint (`LocksApart`); a locked row keeps its owner and stamp
and loses only the credit of accounts erased meanwhile (`Stands`, lemma `Bystander`: true of
every step that is not the holder's own); hence the heirs chosen are still credited at the
commit or their account is gone, which `MayCommit` sees (`HeirsWait`), and an event without an heir
still has none (`NoHeirLeftOut`).

**DetectionImport.** `DoublesAreRaces` speaks of what the account had when a row landed, and an
import decided that earlier. Hence `NothingMissed`: a row that holds the work of an import about to
create one was either not there when it looked, and then it has been told of (`since`), or came to
hold it since, which nothing lets it do: a row's provenance is written once and a mark in `fate`
never goes. An overwrite leaves a row where it was, as it waits for a row at the place of its own
work (`OverwritesMatch`). `RowsProvenanced` ties a row to its marks: unmarked, it is where its work
says, belongs to who brought it, and offers the links it came with, in its content or in a version.
`InOrder` says rows land one after the other, so of two the later is the double.

**Registration.** The invariant says what a claim is: the row an open confirmation holds is still
there and unchanged (`ClaimsHold`), held by nobody else (`ClaimsApart`), its link is its own and has
opened nothing (`LinksApart`); and no account is without a code that was minted (`OpenedByCode`).
A confirmation that lands takes a code that is not used and a link that has opened
nothing, so it is the first of both. `LiveRowsOpen` is the step of `LandAccount` under `ClaimsHold`.
`QuotaIsHeld` counts: of the mints at once no two are for one sponsor (`MintsApart`, the lock), so a
passed count still leaves its place when the code is inserted, and a day that has just begun has no
code yet (`NoneDatedAhead`).

**The compositions.** `PartsAreTheirComponents` and `AccountsAreTheirComponents` say that what the
two runs check is a behaviour of each of the components, whichever one a behaviour follows:
every theorem about a component is thereby one about the run. `PartTypes` follows.

### The queues

**Mentions.** The invariant says what a worker carries: a row it
holds is running and held by nobody else alive (`HeldIsRunning`, `MentionHeldOnce`), the result it
carries names an event that is there (`CarriesTheTruth`), and a landed row has an outcome. A
crash drops the carried result and keeps the rest, which is why the claim starts over.

**Imports.** A runner past the commit is the
only one that may sweep and mail, because the row left `running` with that commit
(`RunnersCarry`); hence one mail, and no zip deleted under a run.

**Emails.** A row whose message may have left is
running or landed (`RowStands`), and the worker that holds a row not yet attempted holds it alone
(`HoldStands`, `HeldByOne`). `CapsAreKept` is about a number of rows, so its invariant (`CapsInv`)
counts: the rows that a claim would count (`PossiblyGone`) are within the caps, and every message
that left is one of them (`SentStands`). A claim adds one row where there was room (`GrowsByOne`);
every other step only takes rows out, by age, by a refusal or with the notification
(`Shrinks`, one lemma for each step). The theorem has the hypothesis `OneSender`: the code reads
the counts and claims the row in statements no lock joins, and the model's one step is what they do
where one worker sends. With two the caps are not promised.

`MentionVerdictsStand`, `JobVerdictsStand` and `DeliveryVerdictsStand` are the safety half of the
refinements: each step of a queue is a step of `WorkLedger` or a stutter.
That the verdict also comes is `QueuesSettle`, checked by TLC.

### The pages

**SignIn.** `ShownIsRecent` leans on `AnswersAreRecent`: a call whose answer the tab will still look
at was sent with a cookie held since the last sign-in, sign-out or load, because each of those
marks the calls before it stale. `NoticeIsTrue` leans on `LossIsKnown`: each of the ways
to the notice (a cookie that is gone, a cookie whose session is over, a live call refused) begins
with a session that was lost. `MintsAreNew` keeps the server from ending a session before
it was made.

**DisplayPreferences.** From what a pull in flight knows of the choices made since it was asked.

**CursorList.** `WalkIsWhole` is strengthened by what a page *in flight* holds, served or not:
a page served under a cursor holds every row from that cursor down to its own
last one, of those the walk began with and that are still there (`PageHolds`); the page belongs to
the walk on show or is aborted (`FirstIsOfTheWalk`, `MoreIsOfTheWalk`); and the list reaches down to
its cursor (`ListReachesCursor`). That the page of the server, which the model writes as a sorted
cut, is sorted, complete and ends at its cursor is proved from the cardinalities of the sets above
each row (`Ranks`, `DescendingIs`).

**SearchPage.** The newest search in flight is of the committed view (`NewestIsCommitted`), and no
other answer counts.

**MapPoints.** The box asked for holds the viewport once the debounce is over (`CameraIsCovered`);
the one read in flight is the one the effect asked last, and the map shows what it brought or an
error (`PointsFollow`, `SitesFollow`).

**FilterUrl.** The heart is a lemma about the two conversions: a URL written from a view reads back
to a view that writes the same URL (`WriteReadWrite`), and what is read keeps no hidden filter
(`ReadFits`). With it, the page's own writes and the visits it takes leave `WrittenIsSnapshot` and
`NothingMissed` standing.

**SubmitDraft.** Wherever a spent draft still is, in the store or in a transaction that puts it
there, a drop is queued behind it (`SpentIsDropped`); and a form that still stores shows nothing
spent (`FormIsItsOwn`). `OnePublish` follows from the staged file, which goes with the create.

**SourceUploads.** An answer finds its source by a token, and tokens are new
(`NumbersAreFresh`); so an answer under a source's token is of the file given last
(`AnswerIsOfItsPick`), and a file on its way is in no other source (`OnItsWayAlone`). The list
changes by insertion, removal and swaps; `PlacedEffect` says what the insertion of a GIF's frames
does to every index. That the keys of the sources stay apart (`KeysApart`) is part of `FormTypes`.

**CollectionEdit.** A save sends the difference of its click
(`SaveSendsTheDifference`), and what it has sent and nobody else wrote stands
(`WhatIsSentStands`). Its type needs that the cursor of a read exists: a block that leaves rows
behind has a last one (`BlockHasALast`).

### Model-checked only

All liveness (`QueuesSettle`, `PagesSettle`): the prover does not reason about ENABLED. The seven
runs that end in a counterexample refute what they check. The types of the queues and of the pages
are proved (`QueueTypes`, `SessionTypes`, `BrowseTypes`, `FormTypes`) and in no run.

## Abstractions

Common to the modules: text, tags, dates, notes, `is_graphic`, wording and notifications are
left out or folded into a value; actors are live accounts as they act; rate limits refuse more
and change nothing.

*EventLifecycle.* A new upload is a new body. The kind of a source, which the batch also
supplies, is not told apart. `HandOver` gives the row to any other analyst (who may inherit is
EventReview's subject). An admin's reading of a withheld row is not modelled. A write to a row
deleted since its lock query finds nothing and fails: `RequestFails`.

*EventReview.* The route's visibility check is not repeated under the lock, so no action
requires a visible row. Among heirs the code takes the earliest to join; the model takes any.
The audience setting and the daily cap of requests only refuse some. Roles in an
organization are left out: any member may leave, more than the code allows. A deleted
organization's name may be taken by a new one, which starts without members, approvals or
requests.

*AccountModeration.* The lock on several rows is taken in one step; a deadlock on the way is
`Abort`. Two bans never get the same stamp (the code's is a timestamp in microseconds). A commit
is one step, as no one reads between its statements.

*EvidenceStore.* An event is its files: the floors of a write are a non-empty source list and, for
a publication, a body that shows an image. A source names one file and a write keeps or drops it;
reading and deleting of a sweep are one step, and a sweep that fails leaves everything. A proof
image is stored and a staged file recorded in one step each, as a failure between the two leaves
only an object nobody names. Left out: the copy a site source makes of another event's file, which
takes no lock on that event; the files a detection's import stores; the cap of pending uploads,
which is counted without a lock; a commit that succeeds on the server and whose answer is lost
(the writer would then sweep the images its rows name).

*DetectionImport.* Coordinates are equal or not (the code compares six places). Media, titles and
warnings are left out, and an import that changes nothing else is not told from one that changes
nothing. Of several rows an overwrite may take, the code takes the one with the earliest stamp; the
model takes any. A ban hides and restores row by row here, with other steps in between: more than
the code allows. An import's account is linked to an X handle throughout. A row edited by a person
may be withheld or deleted, as the visibility check is not repeated under the lock.

*Registration.* An address stands for itself in any case. The insert of a user, the stamp on the
code and the commit are one step: a confirmation that waits on a constraint or a row lock in between
either finds it free or rolls back. The X handle a code binds, the admin's switch over minting, rate
limits, the promotion of listed addresses to admin and password resets are left out. An admin's deletion of a code reads and
deletes in two steps; revocations are one step each, as both orders of a revocation and a redemption
are there already. Accounts are only erased: a ban keeps the address and the name taken.

*Queues.* An attempt takes less than a tick and a live job's heartbeats succeed. A mention re-
claimed after a crash may be replied to again, in another text. One email worker, so that the
count of a cap and the claim after it can be one step. Replies are counted over the whole ledger
where the code counts the trailing hour; the cap per author is left out. The rows of an export are
one step.

*Pages.* One tab (another one is an environment action). IndexedDB runs its transactions in order.
A page waits for one create at a time. The router drops a superseded navigation; a write that gave
way to a visit of the URL the page is on is excused (`outrun`), as is a draft read before its drop
(`excused`). Dimensions of the filters are interchangeable; the query text and the map's filters
are left out. A refused write leaves the form as it is, a landed one leaves the page; GIF frames
are uploaded as one answer; text fields of a source are left out.

Not modelled, and why: `tweet_ingest` (parsing of third-party text, no state), map files,
imagery, mail and sanitising (conversions), conflict sync (a refresh of a reference table),
preferences (single-row settings), the HTTP layer (its lock timeout is `RequestFails` and
`Abort`). Of the frontend: `api-types.ts`, a fifth of its lines, is generated from the API schema;
the map and its basemap render through a library (what the map page reads for them is `MapPoints`); the sidebar, the palette page and most components
are markup and labels. They hold no state a later step depends on, so a large share of the source
lines has nothing to model, and the share the map covers stays small for that reason.

## The plan

In order of what the code risks most:

1. **Collections, Sites, Reports** on the server: membership, withdrawal, the site's copy of a
   file, one verdict a report; then the points cache.
2. **An insert racing a ban** (`admin.py:736`): the creation and the cascade in one module, once a
   document says what is to hold; the files an import stores, in EvidenceStore.
3. **Proofs**: that EventReview's one-step ban is implemented by AccountModeration when bans do
   not race; for what is added above, the ownership argument of `EvidenceStore_proofs` extended to
   the files of an import and the copies of a site.
4. **The rest of the pages**: the archive import panel and its polling, notifications and their
   unread count.
