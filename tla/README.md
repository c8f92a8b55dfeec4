# Formal models of blocks-os

TLA+ models of the stateful parts of blocks-os: the restores, the backup, the
secrets and the tag catalogue of the servers, the "Connect with Blocks OS"
request from the page in the browser to the credential in IAM, and the
environment migration from the wizard to the card that shows its end. They say
what the code does between two calls when messages are delivered twice, calls
throw, answers come late, processes stop and users change their minds. TLC
checks the models on small instances; every safety property of the passing runs
is also proved with TLAPS, for any number of files, deliveries, checks, runs,
services, secrets, tags, calls, clicks, codes and failures, from the assumptions
section 4 names.

## 1. The system

blocks-os is a multi-tenant platform: an API host, two message workers and a
telemetry worker in .NET over MongoDB, Azure Blob Storage, Azure Key Vault and
a message broker, and a React client. Most of its code is configuration and
queries over single documents. The parts below keep state over several steps.

| Component | State | Operations | Hard behaviour | Correct when |
|---|---|---|---|---|
| Cold restore (`Cloud.LmtService/Services/ColdRestore/LogTraceRestoreService.cs`) | request document, a progress row per blob, result collections, mail queue | start, deliver (claim, plan, parallel loop, finalise, mail), cancel | at-least-once delivery, cancellation in flight, exceptions, crash | one executor, one honest mail, `Completed` means restored, it ends |
| Archive restore (`ArchiveRestoreService.cs`) | the same, and a hydration job per archived blob | deliver, periodic hydration check with parallel jobs | checks overlapping each other and the plan, blobs that never rehydrate | the same; no file waits for a job nobody polls |
| Log and trace backup (`ArchiveAndDelete/ArchiveService.cs`) | hot logs, archive collections, blobs, job row | release stale runs, check, archive, delete source, upload, drop | overlapping triggers, a failure between copy and delete, retries | no log is lost, one run at a time, the job row is honest |
| Secrets (`Blocks.Secrets`) | metadata document, value in Key Vault or MongoDB, audit | create one or a batch, read, update, access, rotate, lock, unlock, delete, restore, purge | two stores without a transaction, stale whole-document writes | a secret has its value, what is deleted stays deleted, orphans are recorded |
| Secret tag catalogue (`SecretTagCatalogService.cs`) | one document per tenant | register | read-modify-write, reads that fail | seeded entries stay |
| Integration connect (`Configuration.DomainService/Integration`) | connect request, credential in IAM, connection record | read and claim, cancel, approve (reserve, set up, complete or undo), rotate the code, redeem | clicks and retries that overlap, steps that fail after a credential exists, callers that leave, expiry | keys go out once, for a live connection; no connection is forgotten; a reservation comes back |
| Connect page (`client/app/pages/connect`) | selection, readiness wait, approval, hand-off in `localStorage`, tenant cookie | log in and come back, choose, connect, poll, approve, cancel, go to the site | late answers, effects that run again, other tabs | one poll, one approval a click, one callback, the selected environment |
| Environment migration (`Identifier.DomainService/Migration`, `Worker/Consumers/Migration`, `client/app/components/environment-migration`, the environments page) | one-time code, tracker, messages, wizard and card | compose, ask for a code, resend, verify, create the tracker, send, report, tell the end, poll | late answers of a step that was left, overlapping reports, lost pushes | it starts what was reviewed; its end is told; the card catches up |
| LMT worker (`LmtManagedServiceWorker`) | cache of services, processors, consumers | load, subscribe, add, remove, consume | a service added between load and subscription, concurrent add and remove, lost batches | every service has one consumer; a completed message is stored |
| Projects, domains, people, managed services (`Identifier.DomainService`) | tenant, project and user documents, DNS and proxy set-up | create, configure, invite, bind a domain | many steps over several databases, roll-back | a project is complete or resumable |
| Configuration (`Configuration.DomainService`) | one document per setting and tenant, push secrets | save, propagate built-ins | propagation to many tenants, several at a time | every tenant gets its copy |
| API, data access, worker host, other console pages, e2e tests | none of their own over several steps | | | |

Interaction. The API creates a restore request and sends a message; the restore
worker's consumer calls `ProcessRestoreAsync`. A scheduler message starts the
hydration check and the backup. The backup writes the blobs the restores read.
Cancellation is an API call that shares only the database with the worker. The
managed-service API publishes on a Redis channel the LMT worker subscribes to;
that worker fills the collections the backup archives. Secrets are called in
process by the API and by the configuration services.

A site opens a connect request; the page reads it, impersonates the chosen
environment (which sets the cookie all later calls run under), waits until that
environment is ready and approves; the approval creates a credential in IAM and
a connection, and answers a code; the browser takes the code to the site, which
redeems it for the keys. The migration wizard asks the API for a code by e-mail;
verifying it creates a tracker and sends a message to each service that has a
queue; who works on it reports to the completion consumer, which tells the page
over a socket, and the page also polls. No consumer of those queues is
registered in this repository (section 5).

`PROJECT.json` lists every component with its status, and under `hazards` each
place where a step of one actor, a failure or a retry can go wrong.

## 2. Modules

| Module | Models |
|---|---|
| `RestoreStore` | What both restores share: the documents, the file thread (mark, open, purge, insert batches, complete, count), `UpdateFileRequestStatus`, the mail, `CancelRestoreAsync`, exceptions and crashes |
| `ColdRestore` | The deliveries of a cold restore, on top of `RestoreStore` |
| `ArchiveRestore` | Deliveries and hydration checks of an archive restore, on top of `RestoreStore` |
| `RequestLifecycle` | The abstract specification of a request as its user sees it; both restores are shown to implement it |
| `Backup` | The log half of a backup for one tenant |
| `Secrets` | `SecretService` over both value stores |
| `SecretTags` | `SecretTagCatalogService.RegisterAsync` |
| `ConnectServer` | One connect request on the server: every endpoint that touches it, the steps of the set-up, time, callers that leave, processes that stop |
| `OneTimeGrant` | What that request promises to the site; `ConnectServer` is shown to implement it |
| `ConnectPage` | The page in one tab, on top of `ConnectServer`, with the site and the login around it |
| `Migration` | Wizard, code, tracker, messages, completion consumer and environments page |
| `RestoreStoreProofs`, `ColdRestoreProofs` | Lemmas about the shared steps; the theorems about the cold restore |
| `BackupProofs`, `SecretTagsProofs` | The theorems about the backup and the tag catalogue |
| `ArchiveRestoreProofs`, `SecretsProofs` | The theorems about the archive restore and the secrets |
| `ConnectProofs`, `MigrationProofs` | The theorems about the connect request and page, and the migration |
| `MC*` | Instances for TLC |

How code becomes actions. Every call of a database, of blob storage, of Key
Vault or of the broker is one atomic step; what a method computes between two
calls is part of the step that follows. A thread is a delivery, a hydration
check, an iteration of a `Parallel.ForEachAsync`, a call of an endpoint or a
call of the secret service, and `pc` (in `Migration` the field `step` of a call)
says which call it makes next. A
conditional update (`TryBeginProcessingAsync`, `TryCompleteRequestAsync`,
`TryCancelRequestAsync`) is one step with the filter as its condition. An
exception (`Throw`, `*Throws`, `*Fails`) sends a thread where the nearest
`catch` goes and is bounded by `MaxFaults`; a crash stops a process for good and
is bounded by `MaxCrashes`; a redelivered message is a second delivery.

In the browser a handler or an effect of React is one action, and so is the
arrival of an answer: sending a call and receiving its answer are two actions,
between which the user, a timer, another answer or another tab may come in. An
effect runs after the change it depends on, not necessarily at once. A component
that is unmounted loses its state (`Mounted`, `Unmounted`) but not the calls it
has sent: what a handler does after its `await` it still does, so `ConnectPage`
keeps the approval and the cancellation of a page that was left in `abandoned`
until they are answered (`AbandonedAnswered`: the hand-off is dropped, a denial is
loaded) or the tab has left the application. In the wizard a verification still
navigates when it is answered late (`VerifyAnswered`); a late code only sets state
of the step that is gone. An answer that is lost reads as a failure while the
server has done its part.

A definition whose comment begins with "Slip" is not part of a specification: it
is a wrong variant of the definition after it, used to show that a property
depends on it.

Abstractions, beyond what the module headers say:

- restores: one request; a blob is a number of insert batches, and a batch is
  inserted whole; the e-mail address is set; row totals, retention and
  expiry dates are left out, so `ExtendRetention...` and `ExtendRequestExpiry...`
  are not steps. `MaxHydrationWait` is a flag that time may set. The tier of a
  blob is changed by the storage account at any time (external).
- backup: one tenant; a log belongs to a service and a batch; progress rows and
  statistics only as far as the final status of the job uses them. Traces have
  the same steps and are left out. A window is a constant of a run. `raced` (the
  runs that entered their check while another was between check and row, or whose
  check failed) and `lapsed` (those that missed their heartbeats while they
  worked) are history.
- secrets: callers are authorised, requests valid; names, descriptions and tags
  are not kept; `SetAsync` is a batch of one; `GetValuesAsync` is several
  reads; Key Vault's deletion is instantaneous; the summary record of a batch is
  not kept. An id is new for every secret, as a GUID is.
- connect request: one request of one template family. A call makes at most one
  credential, secret and code, which bear its name. Roles, permissions and the
  texts of errors are one refusal; the hash and the PKCE challenge of a redemption
  are the Boolean `right`. Clean-up by the TTL index is `Remove`, any time after
  the request expired. What an approval throws is caught and leads to the release
  of its `catch` blocks (`Caught`, `Release`); only that release may throw again,
  which is `unreleased`. The lookup of a credential swallows its errors, so it may
  find none where there is one (`FindCredential`). The variables of `badVars` are
  history.
- connect page: the picker's project and environment are one choice, unless a
  project was just created (`elsewhere`). Generations of the readiness wait are
  the Boolean `live` of a check, which is all that the code asks of them. The
  answer of readiness is any, within a project. The two minutes are a number of
  polls.
- migration: one environment is the target. What a user can compose is a set of
  requests (`Offered`); another client of the API may ask for any. A code goes by
  the issue that mailed it. The two ten-minute windows end at any time. The
  services' workers report once per message, or twice as a fault.

## 3. Runs

Passing runs. Bounds are in the `.cfg` files; "fault" is a call that throws at
any place.

| Run | Instance | Shows |
|---|---|---|
| `ColdRestore` | a trace and a log file of 2 batches, one at a time, 2 deliveries, 1 cancellation, 2 faults, 1 crash | one executor, an honest mail, exact counters, `Completed` means restored, one file at most is left by a cancellation, implements `RequestLifecycle` |
| `ColdRestoreLive` | 2 files at a time, 2 deliveries, cancellation, fault, no crash, fair | a request that was sent ends; a loop that noticed the cancellation leaves nothing |
| `ArchiveRestore` | 1 file, 2 checks that overlap each other and the plan, fault, crash | implements `RequestLifecycle`: ended once, mailed once, never reopened |
| `ArchiveRestoreLive` | 1 file, 1 check at a time after the plan, cancellation, 2 faults, fair | honest mail; unless two calls fail, a waiting row has a job that is polled, and the request ends |
| `Backup` | 2 days, 2 services, 2 batches, 2 faults, crash, fair | no log is lost; runs whose checks do not overlap work one at a time; the row of a dead run is released |
| `Secrets` | Key Vault, 4 calls, one mutation at a time, 2 faults | orphans and lagging rotation counts are recorded |
| `SecretsRace` | database store, 3 concurrent calls, 2 faults, crash | a listed secret has its value; a failed batch is undone or told of; a secret is back from deleted or locked only when asked, or by a write of a document that is out of date |
| `SecretTags` | 3 tags, 3 overlapping calls, 2 faults | entries are unique; seeds survive races |
| `ConnectServer` | 3 overlapping calls of 2 users over 2 templates, 1 call that throws, 1 cut off | one set-up at a time; codes and keys stand for a live connection; an approval that fails or throws gives its reservation back; no connection is forgotten; implements `OneTimeGrant` |
| `ConnectPage` | 1 environment, 2 calls, 2 clicks, 1 poll before the time is over, 1 session end or other tab, fair | one poll at a time, and it ends; one approval a click; each callback loaded once, whatever a page that was left still hears |
| `Migration` | 4 kinds of request, 3 services of which 2 answer, 2 codes, 1 verified call, 2 faults, fair | what is started is what was reviewed; the end is told and agrees with the reports; a card does not stay in progress |
| `ConnectWrongEnvironment` (violation) | 2 environments, 2 calls, 2 clicks | an approval under another environment than the selected one |

Why these bounds are enough to be interesting: two deliveries are the smallest
number that can contend for a claim, two files the smallest for which one can
fail and one succeed, or one be in flight and one queued when a cancellation
comes, two batches the smallest for a partial file; a fault can be at every
call, so one fault meets every `catch`, and a second one the `catch`'s own
calls. A fault of a secrets call may come before or after the effect of a write,
and an audit record may be lost; `doubt` names the secrets of which the caller
then knows less than the store, and the properties that compare the two leave
them out. A bound that makes concurrency smaller (`Serial`, `EarlyChecks`,
`Racing`) separates what holds whatever fails from what a race breaks, and other
configurations lift it: `SecretsRace` above, the rest below.

Three calls of a connect request are enough for an approval, one that overlaps
it and one that redeems, cancels or rotates; one fault and one cut can each be at
every step. On the page two calls are an approval and a cancellation, a retry or
a redemption; one poll is enough for a wait that polls and then runs out; two
clicks for a retry of either kind. A second code of a migration is the resend;
two services that answer are the fewest whose reports overlap, and a third has
no queue and never reports. In `Migration` no code is asked for when no call is
left to enter it, and a migration of another client comes before the wizard's
first code: named in `Initiate` and `ApiVerified`, both only keep out states in
which the wizard can do nothing. `Migration` has one call because each
property is about one migration; `MigrationTwice` has two.

Where the code does not do what a comment, a message or a document of the
repository says, the sentence is a property of its own, in the last section of
its module, and a configuration finds a behaviour that breaks it. The one that
touches what a user consents to is a run of `PROJECT.json` and quoted in its
`findings`; the others are started by hand (`tlc -config X.cfg MC...`).
`ArchiveRestoreFiles` is started by hand too, and passes: an archive restore of
two files, where a file can fail and another succeed, with `CompletedMeansRestored`,
`ReadyMeansOver`, `WaitingHasJob`, `NotifiedAtMostOnce` and the lifecycle. So is
`BackupRace`: three triggers of one day that overlap as they like, missed
heartbeats and a fault, with `AloneUnlessRaced`, which says when two runs work at
once. In `Backup`, where checks do not overlap and heartbeats come, it says that
they never do; with races and liveness together the instance is too large. It has
no crash: a run that crashed does not work any more, and its row going stale is
in `Backup`. Three runs are the fewest of which two race while a third comes
later.

| Configuration | What happens |
|---|---|
| `ColdRestoreFinal` | the `catch` of a redelivery writes `Failed` over a finished request |
| `ColdRestoreDiscards` | rows of the last file in flight survive the cancellation |
| `ColdRestoreStranded` | after a crash the redelivered message is refused for ever |
| `ArchiveRestoreCounters` | an increment lands after the final recount |
| `ArchiveRestoreEmpty` | a check meets a job whose progress row is not written yet |
| `ArchiveRestoreStops` | a plan or poll in flight revives a cancelled job |
| `ArchiveRestoreTwice` | two checks restore one blob twice |
| `BackupRace` with `OneActiveRun` | two triggers pass the check together, before either has created its row |
| `BackupRetry` | a second run over a window overwrites the first blob |
| `BackupShort` | a cursor that throws leaves partial rows, and a job that says `Completed` (two properties: `-continue` shows both) |
| `SecretsRevived` | a stale update brings back a deleted secret: the write `ComesBack` allows for, and `StatusKept` does not |
| `SecretsStranded` | a stale rotation writes a value after the purge |
| `SecretsCounted` | two rotations count as one |
| `SecretsCancelled` | an active secret without a value, after an insert that threw late (or a purge that stopped half way, and a restore); a plaintext read without an audit record (two properties: `-continue` shows both) |
| `SecretsBatch` | a roll-back that fails leaves a secret of a failed batch |
| `SecretTagsWiped` | one failed read wipes the catalogue |
| `ConnectWrongEnvironment` (run) | a failed impersonation is swallowed, and the page approves under the tenant of the one before |
| `ConnectStranded` | an approval whose caller leaves, or whose process stops, leaves the request `approving`; the stale clause of `TryStartApprovalAsync` never comes to bear, because `ApproveRequestAsync` refuses such a request before |
| `MigrationTwice` | one code starts two migrations: existence, value and removal are three calls of the cache |
| `MigrationSpinner` | a card stays in progress after the ten minutes, polled by nobody: the last poll brings nothing new, so nothing draws it again |

Met on the way, and in the models as they are in the code: the set-up of a
request that is taken over can rotate a secret already handed out (`takeover` in
`GrantBacked`); a completion that throws leaves an active connection, and the
next try is refused for its name; a code that is burned marks the connection as
never delivered and leaves its credential live; the second save of the hand-off
drops the redirect URI and the state; the one-time code of a migration is
removed before its tracker exists, so a failure between them spends the code; a
migration with a service that has no queue, or whose messages no worker takes,
never ends; the failure notification has another name than the one the page
listens to.

Fairness. `WF` on the steps of deliveries, file threads, checks, jobs, runs and
uploads: a .NET task that is ready to run is run, and a sent message is
delivered by the broker. `WF` on `TimePasses` of `ArchiveRestore`: the clock
goes on and the scheduled checks keep coming. No fairness on anything a user or
the storage account may do: nobody has to cancel, a blob need not rehydrate. No
fairness on faults and crashes. The liveness runs of the restores have no crash,
because with one the property fails (`ColdRestoreStranded`). `ConnectPage` has
`WF` on the answers of impersonation and readiness, on the poll timer, on the
effect that sends a visitor to the login and on the timer that leaves for the
site: a browser settles a request one way or the other, fires its timers and
runs effects. `Migration` has `WF(Fetch)`: the query library fetches what is due
and refetches on its interval; nothing makes a push arrive. A user may stop at
any time in the connect and migration models, so their configurations do not
check deadlock; in all others a terminating state is a stuttering disjunct of
its own and deadlock is checked.

## 4. Proofs

`ColdRestoreProofs` proves of `ColdRestore!Spec`, for every value of the
constants that satisfies `StoreAssumption`, `ThreadAssumption` and `Checks = {}`
(the assumption of `ColdRestore`: a cold restore has no hydration checks):

| Theorem | States |
|---|---|
| `TypeCorrect` | `TypeOK` |
| `Invariance` | the inductive invariant `IInv` |
| `OneExecutor` | `SingleExecution` |
| `OneMail` | `NotifiedAtMostOnce` |
| `HonestMail` | `MailTellsOutcome` |
| `Refinement` | the cold restore implements `RequestLifecycle` |
| `NotReopened` | `NeverReopened` |
| `DataInvariance` | the second inductive invariant `DInv`, given `IInv` |
| `Restored` | `CompletedMeansRestored` |
| `Counters` | `CountersExact` |
| `Bounded` | `LeftoversBounded` |
| `DiscardsAll` | `NoticedCancelDiscardsAll`, when one call failed at most |

The argument. `SingleExecution` alone is not inductive: it needs that an
executor has claimed, so that the claim of a second one finds a status that is
not `Pending` (`ExecutorClaimed`), and that nobody runs before the request
exists (`ClientFirst`). `NotifiedAtMostOnce` needs that a finisher about to mail
finds no mail sent and the status it wrote, or the `Failed` of another
delivery's `catch` (`MailFollowsEnd`); that it is the only one follows from
`SingleExecution`. The refinement needs that the outcome a finisher holds is an
outcome and not `Cancelled` (`SnapIsOutcome`). `IInv` is the conjunction of
these with `TypeOK`. The proof has one lemma per action, and most lemmas about
the store's actions (`RestoreStoreProofs`) are about any set of labels, so that
the archive restore can use them too. The refinement maps the claim to `Begin`,
`TryComplete` to `Finish`, `TryCancel` to `Cancel`, the `catch` to `Fail`, the
mail to `SendMail` or `LoseMail`, and every other step to a stutter.

The data part is `DInv`. Bodies run only in the loop of the one delivery that
executes, and no more of them than the loop allows (`BodiesInLoop`). While the
request may still end well (`Going`), where a body is, its progress row and the
batches in the collection agree (`BodiesAgree`, `RowsBehind`): they do from
the purge before the first batch on. The loop
has ended when the finisher reads the rows, so what it read is still so when it
completes the request (`ReadingHolds`, `EndedWell`), however the increments and
the overwriting of the counters came. From the cancellation on no body passes
its check: the files that have rows, or can still get some, are among those that
ran (`Leftovers`), and the drop on the way out of a loop that saw the
cancellation finds no body left (`DropsAll`). With two failures the `catch` of
the drop fails as well, hence the premise of `DiscardsAll`; the run of
`NoticedCancelDiscardsAll` has one.

`ArchiveRestoreProofs` proves of `ArchiveRestore!Spec`, for every value of the
constants that satisfies `StoreAssumption`, `ThreadAssumption` and
`ArchiveAssumption`:

| Theorem | States |
|---|---|
| `TypeCorrect` | `TypeOK` |
| `Invariance` | the inductive invariant `IInv` |
| `OneExecutor` | `SingleExecution` |
| `OneMail` | `NotifiedAtMostOnce` |
| `HonestMail` | `MailTellsOutcome` |
| `Refinement` | the archive restore implements `RequestLifecycle` |
| `NotReopened` | `NeverReopened` |
| `NoneForgotten` | `WaitingHasJob`, when checks begin after the plan and no process stops (`Orderly`) |

The argument of the first seven is that of the cold restore with one difference:
a delivery and any number of hydration jobs may see the last file finish and go
on to complete the request side by side. That one of them mails does not follow
from a single execution; it is an invariant of its own (`OneMailer`), kept
because only the one that made the transition gets there. Checks and jobs do
nothing before the claim (`ClaimFirst`). `NoneForgotten` has a second inductive
invariant (`WInv`): no check runs during the plan (`PlanFirst`), a row that a job
has begun does not wait any more (`RowTaken`), and a waiting row has a pending
job, or an iteration that has failed the job and fails the row next (`Covered`),
until the request is over or a second call fails. Neither half of `Orderly` can be
dropped: TLC finds a check that stops between failing a job and failing its row
(`MaxCrashes = 1`), and one that meets a job whose row is not written yet
(`EarlyChecks`, which is also `ArchiveRestoreEmpty`).

`BackupProofs` proves of `Backup!Spec`, for every value of the constants that
satisfies `BackupAssumption`, with triggers that overlap as they like and live
runs that miss their heartbeats:

| Theorem | States |
|---|---|
| `TypeCorrect` | `TypeOK` |
| `RunsAlone` | `AloneUnlessRaced` |
| `NothingLost` | `NoLogLost` as long as every run is clean (`Calm`), when no two runs have the same window (`OneRunAWindow`) |

A run is clean (`Clean`) when nobody was between check and row as it entered its
own check, its check did not fail, and it missed no heartbeat while it worked.
That one run works at a time is not so (`OneActiveRun`): the check and the row
are two calls. `RunsAlone` says what the check does give, and about each run
rather than as a premise about all: of two runs that work at the same time one
is not clean. `NothingLost` needs both its conditions: runs that overlap may drop
what the other has still to upload, and `BackupRetry` breaks `NoLogLost` with two
runs of one window.

The argument has two layers. `Control` says that a clean run that works has a
`Running` row that is not stale, that one clean run at most is between its check
and its row, none while another works, and that services are archived and
collections uploaded only in the phase of their run. It is inductive without a
word about logs, and gives `RunsAlone`. `Data`, inductive given `Control` and `Calm`, says where the logs of a
window are: all in the source before its run begins (`Untouched`); while a
service is archived, in the source until all are in the archive, with no blob yet
(`ArchivingOf`); while a collection is uploaded, in the archive until the blob
holds the same (`UploadingOf`). `BlobCovers` is what makes a retry of an upload
safe: an archive that was left over when its drop failed still has all that the
blob has, so writing the blob again loses nothing. Two lemmas carry the data
part, `ServiceData` and `UploadData`: a thread may move its own logs as long as
they stay somewhere, because `Control` leaves no other thread that looks at them
while every run is clean.

`SecretTagsProofs` proves of `SecretTags!Spec`, for every value of the constants:

| Theorem | States |
|---|---|
| `TypeCorrect` | `TypeOK` |
| `Invariance` | the inductive invariant `IInv` |
| `OneEntry` | `EntriesUnique` |
| `SeedsStay` | `SeedsSurviveRaces` |

`EntriesUnique` is inductive together with what a call holds between its read
and its write (`CallsRead`): a catalogue without duplicates, of seeded and stored
tags. `SeedsSurviveRaces` needs that a call that read without a failure has read
the seeded entries (`SeedsRead`): a lost update may drop what another call
added, never what was there from the start. The types of this small module are
proved and not part of its run.

`SecretsProofs` proves of `Secrets!Spec`, for every value of the constants that
satisfies `SecretsAssumption`:

| Theorem | States |
|---|---|
| `SecretTypes` | `TypeOK` |
| `SecretsInvariance` | the inductive invariant `IInv` |
| `ValueBehind` | `ValueBehindSecret` |
| `FailedBatchTold` | `AllOrTold` |
| `OrphansTold` | `OrphanRecorded`, when mutations come one after the other (`Serial`) |
| `RotationsTold` | `BookkeepingTold`, under `Serial` |
| `ComesBackAsked` | `ComesBack`: a deleted secret is back only by a restore, a locked one active only by an unlock, or by a write of a document loaded before another call replaced it |

All but `OrphansTold` and `RotationsTold` hold for calls that overlap as they
like, over both stores. The ground of the first four is that an id is given out
once and that no other call can name it before its metadata is written (`IdsApart`); `SetAt` then says, for each place of a
batch, what of it is stored, and what the roll-back has taken away or told of.
`ComesBackAsked` needs that a mutation past its check has loaded a document with a
status from which it is allowed (`LoadedAllowed`): if that document is still the
stored one when it is written, the step is asked for. That it need not be is
`SecretsRevived`. `OrphansTold` and `RotationsTold` need `Serial`, and the code does
not give it: `SecretsStranded` and `SecretsCounted` are what overlapping mutations
do to them. Under `Serial` what a mutation loaded is still so when it writes
(`LoadedHolds`); a value without metadata belongs to a batch at work or stopped, or was told
(`OrphanKnown`); and the writes of a value are the first one, the rotations
counted and those recorded as partly failed, up to the one at work (`BooksKept`).

`ConnectProofs` proves of `ConnectServer!ServerSpec`, for every value of
the constants that satisfies `ConnectAssumption`:

| Theorem | States |
|---|---|
| `TypeCorrect` | `ServerTypeOK` |
| `Invariance` | the inductive invariant `IInv` |
| `OneSetup` | `OneSetupAtATime` |
| `Backed` | `GrantBacked` |
| `NoneForgotten` | `NoConnectionForgotten` |
| `Released` | `ReservationReleased` |
| `Refinement` | the request implements `OneTimeGrant` |

The argument. Unless a stale reservation was taken over, a call between its
reservation and its end is the only such call, and the request is still
`approving` or removed (`HolderApproves`, `OneSetupAtATime`); so the credential,
secret and record the call has obtained stay as they are until it completes
(`Prepared`), and stand behind the grant from then on (`GrantBacked`). A call
that meets an approved request can only rotate its code, not the secret. `Core`
is the conjunction of these with `NoConnectionForgotten`, which needs that a call
that gives up undoes its connection first, or threw or was cut off. `Whole` says
that what is set up or granted is a credential, takeover or not. For the
refinement every step is first reduced to its `Effect` on the status and the
keys handed out, and each effect is a step of `OneTimeGrant` or a stutter,
because keys go out only when the request is redeemed (`KeysAfterGrant`). That
holds with takeovers as well. `Released` counts no failures: every step between
the reservation and the end leads to that release when it throws (`Caught`),
which is left without releasing only when it throws itself or when the caller has
gone, which `unreleased` and `cuts` remember.

It goes on to prove of `ConnectPage!Spec`, the page with the server, the site and
the login around it, for every value of the constants that satisfies
`PageAssumption` and `CallbackAssumption` too (the callback that says
`access_denied` is not one that carries a code):

| Theorem | States |
|---|---|
| `PageInvariance` | the inductive invariant `Joint` |
| `PageTypeCorrect` | `TypeOK` |
| `PageIsClient` | `ServerSpec`: what the server promises any client holds with the page |
| `PollsOnce` | `OnePoll` |
| `ToldOnce` | `SiteToldOnce` |
| `OneForEachClick` | `OneApprovalPerClick` |

The argument. Each step of the page is, for the server, a step of a client or
nothing (`PageServes`), so the invariant of the server is kept without a second
proof. For the wait, each of the page's twenty-odd actions is reduced to one of
six effects on the live checks, the timer and the phase (`PageEffect`): a step
that ends the poll starts no other, and one that starts a poll found none.
`OneApprovalPerClick` needs that a wait is owed to a click that no approval has
followed (`Asked`), and that once an approval is on its way or has brought a code
nothing polls and `approvalStartedFor` holds the selection (`SentOnce`): it is
what stops the effect from running again. `SiteToldOnce` joins both sides. On the
server a code and a denial exclude each other and a denial is told once
(`Verdict`); on the page a callback that was loaded stands for an answer the page
no longer waits for (`VisitsBehind`). A page that was left waits on: its calls and
those of the page that is mounted are different ones (`CallsApart`), and a call
that was denied is waited for by neither once its callback is loaded
(`DeniedStays`). The second part needs `SentOnce` again: the automatic approval is
not sent once there is a code.

`MigrationProofs` proves of `Migration!Spec`, for every value of the constants
that satisfies `MigrationAssumption`:

| Theorem | States |
|---|---|
| `TypeCorrect` | `TypeOK` |
| `Invariance` | the inductive invariant `IInv` |
| `Started` | `StartedAsReviewed` |
| `Told` | `EndTold` |

The argument. `StartedAsReviewed` follows a request from the form to the tracker:
the code that is asked for and the code the dialog holds stand for the form under
review or have expired (`Composed`), because a step that is left forgets its code
and a code is issued once; and what a call was entered with stays what it reads
and starts (`Carried`). `EndTold` is about the last reports: without failures a
service reports once, and the tracker says what it reported (`OneReport`); when
all have reported, the end has been told or a completion message that has
updated the tracker is still on its way to tell it (`Teller`).

Left to TLC. What is out of the prover's reach: liveness and `ENABLED` (the ends
of restores, waits and migrations, the release of a dead run's row, the card that
catches up). No proof needs what a recursive definition computes. Of the safety
properties that are checked, two are not proved, `CompletedMeansRestored` and
`ReadyMeansOver` of the archive restore: the hand-started `ArchiveRestoreFiles`
checks them for two files.

## 5. Not modelled, and the plan

Most of the repository's lines are the console in `src/client`: about 117,000
lines of TypeScript in 1,100 files. They are forms, tables, dialogs, wrappers of
one HTTP call, query keys, translations and tables of constants. A form reads a
document, keeps a draft and saves it with one call; the cache between the pages
belongs to a library. There is nothing in them that a step of another actor, a
late answer or a failure could break over several steps, and a model would be the
form again in another notation. The two places where the client runs a protocol
of its own, the connect page and the migration wizard with its card, are
modelled; the definitions that map them stand for about 900 lines, so the share
of client lines covered by the models is near one in a hundred, and it cannot
grow much without modelling layout. On the servers the models stand for some
3,700 lines of C#.

Also left out, with the reason:

- queries, redaction, Parquet, controllers, middleware: no state over several
  steps;
- the mail and push services, IAM, Key Vault and the storage account: outside the
  repository, modelled by what the code relies on;
- the workers of a migration: those of the services with queues of their own are
  other programs. Of the generic queue the repository has the code
  (`MigrationService.cs:475-519`, `609-636`, `661-682`) but no consumer that calls it
  (`Worker/Program.cs:53-65`). `Report` stands for both: a report per service. The
  generic worker would report a failure twice (`:633` and `:516`), which writes and
  tells the same again;
- role and permission synchronisation of a set-up, and the disconnect and
  regenerate buttons of a connection: single calls of IAM behind one user;
- retention dates of restores and their clean-up; the admission of a new request
  against pending ones; the trace half of the backup and its schedule.

Done: `RestoreStore`, `ColdRestore`, `RequestLifecycle` and `ColdRestoreProofs`;
`ArchiveRestore` and `ArchiveRestoreProofs`; `Backup` and `BackupProofs`;
`Secrets` and `SecretsProofs`; `SecretTags` and `SecretTagsProofs`;
`ConnectServer`, `OneTimeGrant`, `ConnectPage` and `ConnectProofs`; `Migration`
and `MigrationProofs`.

Left, in the order of what would add most:

1. Proofs: `CompletedMeansRestored` and `ReadyMeansOver` for the archive restore,
   whose bodies belong to a delivery or to a job of a check.
2. `LmtWorker`: services come and go, load and subscription, consumers.
3. Retention: expiry of requests, files and jobs against the clean-up and long
   rehydrations; admission of a new request against pending ones.
4. The trace half of the backup and a schedule over several days.
5. Propagation of notification configuration, project creation.
