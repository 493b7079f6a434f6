# Formal models of agent_treport

`agent_treport` collects the daily holdings of Korean ETFs, keeps them in a
history, builds a signal report and a short alert from it, and lets an operator
send the alert to a Telegram chat after an explicit approval. It is a set of
command-line commands over JSON and JSONL files. There is no server, no
database, no lock, and no file is replaced atomically (`Path.write_text` and
`open("w")` truncate first and write afterwards). Nearly everything that is hard
about it follows from that: what two commands do to the same files, what a
killed command leaves behind, and what a later command believes of what it
finds.

The modules here model that control: each command as the sequence of its reads
and writes, interleaved with crashes, with other commands, with the operator's
edits and with the answers of the services it calls. Paths below are relative to
`src/agent_treport/` unless they start with `tests/`; `telegram_delivery.py`,
`daily_publish_closure.py`, `adapters/` and `external_evidence/` are in
`signal_report/`. Domain terms (TelegramDelivery, DailyPublishClosure,
HoldingsHistoryStore, LiveRetryCooldown...) are those of `CONTEXT.md`.

## 1. The system

```
 catalogs --> universe state --> update-holdings-history-source --> holdings history
 (providers)                      retry state, summary                   |
                                                             export, comparison window
                                                                         |
 external evidence collector ------------------------> readiness --> report run
                                                                         |
                                         preview package: handoff, alert artifact
                                                                         |
      approval files <-- operator --> deliver-telegram-alert --> receipts, summary
                                                                         |
                                       verify-daily-publish-closure --> closure
```

Components interact only through files: the output path of one command is an
input path of the next. The operator is an actor too: he edits approval files,
chooses `--refresh`, `--retry-failed` and `--live`, and starts commands.

| Component | State | Operations | What is hard | Correct when |
|---|---|---|---|---|
| Telegram delivery (`telegram_delivery.py`) | approval template and file, receipts per identity and attempt, delivery summary | `deliver-telegram-alert`: eligibility, template, approval, receipts, send, receipt, summary | overlap, crash around the API call, timeout with unknown outcome, approval file replaced meanwhile, attempt number from a directory listing | only approved messages are sent; no duplicate without a retry flag; receipts tell the truth and are never overwritten |
| Daily publish closure (`daily_publish_closure.py`) | `daily_publish_closure.json` | `verify-daily-publish-closure`: reads handoff, receipts, validation, summary; one verdict | reads files of different moments; several aliases; dry-run and live evidence look alike | a met closure means the chat got the message, and its evidence stays |
| Holdings history (`adapters/operational_holdings.py`) | one JSONL partition per date, manifest with record counts | read, merge, rewrite; native fixture and normalised import; comparison export | rewrite of all files, crash between two of them, the count as the only check | no snapshot lost, or replaced without a refresh of exactly it |
| Source acquisition (`adapters/source_acquisition.py`) | retry state, acquisition summary, the history | `update-holdings-history-source` for a provider, ETFs, a date and refreshes | cooldowns across runs, a latch within a run, answers for other dates, errors in the middle, three files in turn | stored snapshots kept, cooldowns respected, the summary claims only what is stored |
| Live baseline and retention (`adapters/live_source_replacement.py`) | baseline summary, run directories | request loop with its own retry delays; rolling retention | it ignores the cooldowns; removal under a reader | the window is complete or said to be incomplete |
| Provider history (`adapters/provider_history_reconciliation.py`, `adapters/operational_source_cache.py`) | histories per provider | copy out of the canonical history, compare, never overwrite | partial copies, disagreement, updates of either side | what is reported about a provider history is so and has a cause |
| Universe lifecycle (`adapters/operational_universe.py`, `collect_source_catalog`) | source catalog, universe state, summary | `collect-universe-fixture`, `collect-source-catalog`: add, change, remove, reappear; targets of holdings | long sequences of collections; three files in turn, the summary before the state | nothing is forgotten, reported changes add up to the state, a catalog repairs what a killed collection left |
| Readiness and export binding (`adapters/operational_readiness.py`) | readiness report, fingerprints | verdict over a day's files; a report run bound to it | files change between check and use | a report is built from the export that was checked |
| External evidence (`external_evidence/`) | evidence, summary, cooldowns | collect per provider; merge an incremental run | two files in turn, stale reuse | reused evidence belongs to the same inputs |
| Preview and handoff (`cli.py`) | result package, handoff | prepare, evidence, readiness, report, package | what each failure leaves behind | a handoff is user-ready only if every stage was |
| Signal report workflow (`workflows/signal_report.py`) | run record, artifacts, events | collect, analyse, render, evaluate | one store operation of several failing | a completed run has all its artifacts |
| Live call approvals (`signal_report/approval.py`, `approval_trace.py`) | preflight, approval profile | template, evaluation | scopes, expiry | no live call without an approval of its boundary |
| Security resolution (`domain/security_resolution.py`, `adapters/openfigi.py`) | security master, overrides | merge of identities | ambiguity, precedence | a resolved identity has one explanation |
| Payload pipeline (`pipeline/build_payload.py`) | none (pure) | changes, windows, rankings | ties, missing dates | equals its definition |
| Quality gate (`domain/quality.py` and policies) | none (pure) | text checks | order of checks | - |
| Renderers, reviews, fixtures, document evidence | none of their own | formatting, derived summaries | - | - |

`PROJECT.json` has the same list with the state of each model, and every hazard
at the line where it bites.

## 2. The modules

| Module | What it is | Code |
|---|---|---|
| `DeliveryLedger` | abstract: the receipts of one identity as an append-only ledger in which a duplicate block needs an earlier send | what `CONTEXT.md` promises of TelegramDeliveryReceipt |
| `TelegramDelivery` | `deliver-telegram-alert`, the operator, later handoffs, the clock | `telegram_delivery.py` |
| `DailyPublishClosure` | EXTENDS `TelegramDelivery` and adds the verifier: the composition of two commands over one package | `daily_publish_closure.py` |
| `SnapshotStore` | abstract: a history that only grows by what was offered, and replaces only by a refresh | HoldingsHistoryStore and HoldingsSnapshotRefresh of `CONTEXT.md` |
| `HoldingsHistory` | manifest and partitions, read and rewritten file by file; implements `SnapshotStore` | `adapters/operational_holdings.py` |
| `SourceAcquisition` | acquisition runs over history, retry state and summary; implements `SnapshotStore` too | `adapters/source_acquisition.py` |
| `UniverseLifecycle` | collections of fixtures and catalogs, the universe state, the targets of holdings | `adapters/operational_universe.py`, `collect_source_catalog` and `_source_holdings_targets` of `adapters/source_acquisition.py` |
| `OperationalReport` | comparison export, legacy sync, readiness check and report run, interleaved file by file over one export directory and one artifact root | `adapters/operational_holdings.py` (export, sync, fixture collection, fingerprint, loader), `adapters/operational_readiness.py`, `run-report` of `cli.py`, `workflows/signal_report.py` |
| `PrePublishPreview` | `run-pre-publish-preview`: approval, evidence collected or reused, report run, the handoff that is sent | `cli.py` |
| `LiveBaseline` | `run-live-source-baseline`, `reconcile-provider-holdings-history` and updates over one live history and the providers' own | `adapters/live_source_replacement.py`, `adapters/provider_history_reconciliation.py`, what `update-holdings-history-source` does to a history |
| `EvidenceCollection` | `collect-external-evidence` and the cooldown file its runs share | `external_evidence/collector.py`, `external_evidence/providers.py` |
| `DailyPublishClosure_proofs` | theorems about `TelegramDelivery` and, since the verifier's module extends it, about both together | |
| `HoldingsHistory_proofs`, `SourceAcquisition_proofs`, `UniverseLifecycle_proofs`, `OperationalReport_proofs`, `PrePublishPreview_proofs`, `LiveBaseline_proofs`, `EvidenceCollection_proofs` | theorems about the module they extend | |
| `MC...` | instances for TLC: values of the constants, symmetry | |

### TelegramDelivery

A command is a record with a `pc`. Each action is one access to the shared
files, with everything the code computes from it before the next access:

| Action | Code |
|---|---|
| `Start` | the handoff is read, `_delivery_eligibility_error`; not deliverable: the command ends without a trace |
| `WriteTemplate` | the preflight and `_write_template_if_safe` |
| `CheckApproval` | `evaluate_telegram_delivery_approval`; invalid: a failed summary, no receipt |
| `ReadReceipts` | `_existing_receipts` once, the duplicate check, the retry gate, the attempt number, missing credentials |
| `SendFake`, `SendLive` | the clients and the `except` clauses around them |
| `OpenReceipt`, `WriteReceipt` | `_write_receipt`, as truncation and write |
| `OpenSummary`, `WriteSummary` | the delivery summary, likewise |
| `Crash` | the process dies between any two of these |
| `EditApproval`, `CopyTemplate` | the operator |
| `NewHandoff` | a later preview writes to the same package |
| `Tick` | time, which the expiry date is compared with |

A message stands for run id, alert artifact and message fingerprint; with a
target alias it is the duplicate-send identity that `_idempotency_key` hashes.
`delivered`, `authorised` and `lost` are observations for the properties; no
guard reads them. A timeout is an outcome in which the chat may or may not have
got the message. A torn file is one no reader can parse: truncated and not yet
written, or written twice at once with a shorter text over a longer one.

### DailyPublishClosure

The verifier's two reads are two actions. `ReadPackage` takes handoff and
receipts; `WriteClosure` takes the summary and the validation results, chooses
the alias (`_closure_target_alias`) and the verdict (`_closure_status`, the
first thing that is wrong). Commands run between the two.

### HoldingsHistory

Every command reads the manifest, then the partitions from the latest date on
(`_read_history_snapshot_rows`), then decides (`_apply_history_snapshot_update`)
and rewrites all partitions and last the manifest
(`_write_history_snapshot_rows`). A truncated partition is a valid, empty JSONL
file; a truncated manifest is not JSON. The manifest's record count is compared
on reading and is all that ties the two together: the instance has contents of
one row and of two, so that two different partitions can have the same count.
`known` is what the last complete read or write showed, which is what
`SnapshotStore` constrains: a store nobody can read breaks no promise about its
contents, and the model says when that happens (`ReadersSeeTheLastUpdate`: an update that only adds is read as a whole, or not at all;
one that replaces may be read in part if it was killed).

### SourceAcquisition

A run is given a provider, targets, a date and refreshes. Each target is one
action: skipped for its cooldown, skipped for a stored snapshot, answered with
rows (for any date, since providers answer with their latest), failed, or
malformed, which ends the run with nothing written. Then history, retry state
and summary are written in this order. The `latch` is `blocked_hosts`: after a
block or rate limit the process asks that host no more, while a timeout, which
is classified as rate limited, does not set it. Reading and writing the history
is one step here; `HoldingsHistory` takes it apart, and both implement the same
`SnapshotStore`.

### UniverseLifecycle

Two commands write the universe state: `CollectFixture` (all providers at once)
and `CollectCatalog` (one provider, of whose entries only those classified as
active strategies are tracked). Both read the state, compute summary and next
state from it, and write the summary first; the second writes the catalog before
both. Catalog and state are truncated and written in two steps, since commands
read them back; a torn state stops every later collection, a torn catalog only
those that fetch holdings. A summary is no input of a collection and written in
one step. What is gone stays in the state as "removed".

`told` is an observation: what somebody knows who reads every summary, by
applying a fixture's reported changes (added, changed, removed) and by taking a
catalog's list of entries as it is. `Targets` are the ETFs that
`update-holdings-history-source` would fetch: the active strategies of the
catalog that are active in the state. Collections do not overlap: they take no
lock, and nothing promises that they may.

A catalog collected into a directory with another provider's universe marks the
other's ETFs removed, in the code as in the model. The cache layout has one
directory per provider; the model allows any mixture.

### OperationalReport

A check and a report run side by side, and each of them may export first (with
provider cache inputs). Every file that is opened, written or read is one action:

| Action | Code |
|---|---|
| `OpenPartition`, `FillPartition`, `OpenManifest`, `FillManifest` | `export_latest_holdings_comparison`: partitions in place, the latest first, then the manifest |
| `PrintManifest`, `PrintPartition` | the fingerprint: the manifest's file, then every partition it lists, read again from disk |
| `OpenSummary`, `FillSummary` | the collection summary with that fingerprint |
| `Collecting` (a disjunct of `StartCheck`) | `collect_holdings_fixture`: the rows of a fixture's latest dates, written the way an export writes them |
| `StartSync`, `OpenRecord`, `FillRecord` | `sync_operational_holdings`: a copied legacy export over the same names (partitions and manifest as above), then `sync_metadata.json`, a record of the manifest without a fingerprint |
| `InspectManifest`, `InspectEvidence`, `ScanPartition`, `Conclude` | `check-operational-readiness`: is the sync's record of this manifest, or, if there is no record, the summary of this export; are the partitions as the manifest says, which windows are there; the verdict |
| `ReadReadiness`, `LoadManifest`, `LoadPartition`, `Loaded`, `Validate` | `run-report`: the verdict's status, the rows, and after them the export's fingerprint against the verdict's |
| `Begin` | the approval to send the inputs to the model, model and stores opened, the payload put together; nothing is stored yet |
| `Store`, `Render`, `Announce` | the workflow: artifacts stored one by one, the gate, what is printed |
| `Crash`, `UpdateHistory` | an export that dies; the history changes |

A snapshot is one row, known by its revision, and a fingerprint is the content
it covers: hashes are taken to be without collisions. A partition that has been
truncated and not yet written is an empty JSONL file, a manifest or summary in
that state is not JSON. All runs store under the same root and names, as the
artifact store does, and `root` is the set of artifacts that the last run stored
itself and kept: whatever else lies there is an earlier run's. A run can fail for
reasons that pass (`Fails`, bounded) or stop for what it is made of (`Stops`, not
bounded): the approval is missing, or renderers or quality gate refuse what payload
and commentary say, which is the same at the next try. A verdict that is
failed carries its status only, since no report asks it for more. The readiness
verdict is the one printed last. That a verdict is held for other reasons (coverage,
quality, another day) is the argument of `Conclude`. The history changes only while no check runs, since nothing but the
next export reads it. `exported` is an observation.

### PrePublishPreview

One preview at a time, from the files an earlier one left. `Start` takes run id,
request and whether the operator hands in evidence of his own; with the approval
profile that `CheckApproval` reads they are the smoke boundary. `PlanEvidence` is
the reuse plan: everybody is asked, or only those without a usable outcome of the
same boundary, or nobody. `Ask` is one provider, `WriteEvidence`, `WriteSummary`
and `Annotate` the files, in the two orders the code has: a complete collection
writes its summary without a boundary and annotates it afterwards, a merged one
has it at once. `RunReport`, `TimeOut`, `WriteNativeHandoff` and `WriteHandoff`
are the native report run, its time limit, the first handoff file without the
preview's part, and the one with it. `Deliverable` is what
`_delivery_eligibility_error` of `telegram_delivery.py` accepts: where this module
and `TelegramDelivery` meet. `NewHandoff` there is what this module explains, and
`OperationalReport` is what `RunReport` stands for.

Evidence is a bag, since a merge can double an item. `answered` (the providers
whose last answer for a boundary was usable) and `halfway` (a preview died between
evidence and summary) are observations.

### LiveBaseline

`Read`, `Fetch`, `Write` and `Judge` are used in both phases, as in the code: first
one request for the representative of each provider, then, if all agree with the
operational copy, the plan of what each ETF's window still lacks (`Requests`).
`Fetch` is one pass of the loop: a blocked target is tried twice more, any refusal
ends the provider's requests, malformed rows end the command. An answer may be of
an earlier date or have other rows.

The code compares rows in two ways, and `Contents` keeps them apart: the fingerprint
of all fields decides whether an answer is the stored snapshot (`Outcome`:
`refresh_required` otherwise), while a representative agrees with the operational
copy if identity, weight and value do within tolerances (`Passed`, `Confirmed`).
"near" rows pass the second and not the first: they are confirmed when they are
fetched, and where they are stored every later run is told to refresh them, which a
backfill cannot.

`Reconcile` and `ReconcileProvider` copy each provider's part into its own history if
there is none and it is told to write (`create`), and else only compare; `report` is
the list of items it prints. `Update` is any other writer, which the operator runs
between the two: `update-holdings-history-source` with the live history, or with a
provider's own as its `--history-dir`, with or without `--refresh-snapshot`; an import
into either does the same. It is one step here and writes one snapshot; its own steps
and deaths are in `SourceAcquisition` and `HoldingsHistory`. What a crash in the middle of a history write leaves is taken
from `HoldingsHistory`: as it was, as it should be, or unreadable.

### EvidenceCollection

`Start` reads board and cooldown file; `NextProvider` skips a provider that cools
down, without `--live`, or without its credentials; `ReplyMap`, `Reply` and `Fail`
are one HTTP attempt each, with `_request_json`'s retries and the second source of
the SEC ticker map; `EndProvider` fixes the outcome. Then evidence, summary and
cooldowns are written in turn. Providers are of four kinds, by the requests they
make (`KindOf`). Evidence and summary go to paths of the command's own; that a
preview uses the same ones again is in `PrePublishPreview`. `quiet` is an
observation: until when the refusals that were recorded ask for quiet.

## 3. What TLC checks

All runs finish the whole state space of their instance.

| Run | Instance | Shows |
|---|---|---|
| `telegram_overlap` | two commands that overlap, two aliases, two approval files, crashes | `TypeOK`; `OnlyApprovedIsDelivered`: a chat gets only what was approved for that message and alias, whatever is replaced meanwhile; `SentReceiptIsTrue`: even when two commands write the same receipt file, none claims a send that did not happen |
| `telegram_sequential` | three commands in turn, live and dry, expiry, crashes | `SentReceiptBlocksCall`; `NoSilentDuplicate`: a second send needs a retry flag or a crash before the receipt; `DeliveryIsRecorded`: a send leaves a receipt no later command destroys; `ReceiptsAreALedger`: refinement of `DeliveryLedger` |
| `closure_live` | three live commands in turn, two aliases, verifier at any moment | `ClosureMetMeansDelivered`; `ClosureStaysFounded`: the send and the later block that a met closure cites are never overwritten |
| `closure_dryrun` (violation) | two commands, dry or live | `ClosureMetMeansDelivered` fails: section 5 |
| `history_single` | two ETFs, two dates, contents of one and two rows, one command at a time, crashes at any step | `TypeOK`; `ReadersSeeTheLastUpdate`: no update that only adds is ever read in part; `StoreIsKept`: refinement of `SnapshotStore`, through crashes |
| `acquisition_store` | two providers, two dates | `TypeOK`; `StoreIsKept`; `SummaryIsTrue`: whatever died, and whichever run wrote which part, a target reported as fetched or existing is in the history |
| `acquisition_cooldown` | one provider, two ETFs, a clock that passes the end of a cooldown | `CooldownSuppresses`: no request within the cooldown of a refusal unless the run that saw it never came to its end |
| `universe_small` | two ETFs, two brands, one provider, any number of collections and crashes | `TypeOK`; `BrandsOfTheStateFit`: a brand is active exactly when an active ETF has it, however ETFs moved; `NothingIsForgotten`; `ToldIsTrue`: the reported changes add up to the state unless a collection died between the two; `CatalogRestoresTargets`: one complete catalog collection puts catalog and state in step again |
| `evidence_collection` | three providers of three kinds, two tickers, two boards (an ambiguous ticker; a row without one), attempts, a clock, a crash | `TypeOK`; `RefusedAreLeftAlone`: a recorded refusal is respected across commands that keep, ignore or do without the cooldown file; `SummaryTellsTheEvidence`: covered means evidence, no data never hides a failure; `NothingIsLost`: dropping duplicates keeps the richest of each key; `CollectionEnds`: a command ends whatever providers answer |
| `preview` | one run id, two requests about the same targets, two providers, own evidence or not, a crash at any step, torn files, an operator who approves, withdraws and discards | `TypeOK`; `DeliverableIsAnswered` and `DeliverableEvidenceIsExact`: a handoff that may be sent rests on usable answers and exactly the evidence of its own smoke boundary; `RetriesConverge`: reuse of what succeeded lets retries get everybody at last |
| `baseline` | two providers, three ETFs (whole window, none, one date), rows of three kinds, two bad answers or updates, a crash | `TypeOK`; `BulkRestsOnAgreement`: a backfill adds bulk snapshots only while every representative is there and confirmed; `CompletedMeansReady`; `MismatchesHaveACause`: what a reconciliation reports is so, and extra or changed snapshots come from an update of that history or a refresh of the canonical one; `BackfillConverges`: repeated backfills complete every window, unless the history is unreadable or a stored representative is not what its provider serves |
| `report` | two ETFs with different windows, one revision, two exports or syncs, one fault | `TypeOK`; `ReportedRowsWereChecked`; `ReadyIsOneExport`: a ready verdict is never on a mixture of two exports, and after a sync on whole partitions; `AnnouncedWhole`: no announcement refers to a leftover of an earlier run; `ReadyVerdictsGetReported`: a ready verdict that stays, on an export that stays, ends in a report, unless approval or content stop it again and again |

Every property of a passing run has a mutant in `PROJECT.json`: a plausible bug
in a definition that models code (a dropped check, an off-by-one, a lost write)
under which TLC finds the property violated in the same instance.

### Bounds

- `Commands`: two suffice for every race on one file. The sequential instances
  have three, so that a command meets what a killed one left and a third meets
  what the second made of it; the closure needs send, block and one more to try
  to overwrite them.
- `Messages = {m1}` with two aliases: identities are compared as a whole, and
  two aliases make two of them. Template, approval file and handoff can so
  belong to different identities. With one message, `NewHandoff` makes it
  deliverable or not; a second message adds identities, which the aliases do.
- `MaxClock`: 0 where expiry decides nothing that a revoked approval does not
  decide too (expiry dates are still 0 or 1, expired or not), 1 where time
  passes while commands run. For the cooldown: `Cooldown = 2`, `MaxClock = 3`,
  so that a run can start at the refusal, within, at the end and after.
- `MaxDate = 2`: an answer for the date asked for and for another one. The
  cooldown instance has one date because cooldowns belong to ETFs.
- Two ETFs: a partition with one of them missing, a run that fails at the
  second after the first; two providers: a summary with another's part.
- `MaxSnapshots = 2` snapshots per update, out of four. `--refresh` names at
  most one snapshot in `SourceAcquisition`; the code treats them one by one.
- `closure_live` has only deliverable handoffs: `closure_dryrun` and the
  `telegram_*` runs have the others.
- `universe_small` has one provider, since two multiply the fixtures beyond what
  finishes; the theorems hold for any number. Two ETFs and two brands let an ETF
  change its brand while the other keeps the old one active, or does not. The
  number of collections is not bounded.
- `evidence_collection`: `MaxAttempts = 2` and `Cap = 1` (the code has 3 and 5) are
  the least at which a request is tried again and a batch leaves a target out;
  `MaxClock = 1` with cooldowns of 1 and 2 has a refusal that is over and one that
  is not. `Failures` are one that is transient and refuses, one that only refuses,
  and one that does neither; the theorems hold for any of them.
- `preview`: `MaxCrashes = 1`, so that a preview meets what a killed one left, and
  later ones what that one made of it; the number of previews is not bounded. Two
  requests make another smoke boundary with the same files and targets. More run
  ids or profiles add boundaries, which are compared as a whole.
- `baseline`: `MaxFaults = 2` counts requests that are not answered with the rows asked
  for, and updates that write: two bad answers in one or both phases, an update after a
  bad answer, or two updates (one of either history, or of the same snapshot). The
  retries of a blocked request count once, so that a target can be given up as blocked.
  `MaxDate = 2` has whole windows and answers of an earlier date. Backfills and
  reconciliations are not bounded, and once the faults are used up providers answer what
  they are asked. Updates do not overlap with the other commands, as nothing promises
  that they may.
- `report`: `MaxExports = 2` is a second export over the first, by the check or by
  the report, with `MaxUpdates = 1` revision between them and `MaxFaults = 1`
  crash or failure. With more of each `ReportedRowsWereChecked` fails in one way: an
  export that dies before its manifest changes a partition, the report loads it, and
  a second one that also dies puts it back, from a history whose revision was undone
  meanwhile, before the fingerprint is computed again. The theorem for any bounds has
  the absence of this as its premise (`NothingRestored`); the one without a premise has
  the instance's `MaxUpdates`, and any number of exports and faults.
  Exports and syncs of one directory do not overlap (a bound in `Writing`): with two
  at once a summary can certify a mixture, and no document promises that they may.
  Reports do not overlap either. While a report stores its artifacts the check waits
  (`Storing`): neither touches what the other does then. `MaxFaults` does not count
  what stops a report for its approval or its content. A report does not export by
  itself where a sync's record lies (a bound in `StartReport`); the check does, and
  the verdict it then reaches is the failed one of section 5.
- Symmetry is used over commands, over ETFs of the history, over contents of
  the acquisition and over ETFs and brands of the universe, none of which the
  modules distinguish.
- `CHECK_DEADLOCK FALSE` where the system really stops: every invocation runs at
  most once; after a torn retry state no run starts any more, since every run
  refuses to parse it; after a torn universe state no collection does, likewise.
  `history_single` checks for deadlock.

### Fairness

Safety is checked under the same specifications, which fairness does not change.
For liveness:

- `EvidenceCollection`, `PrePublishPreview`, `LiveBaseline`: `WF_vars(Step)`. A
  process that runs goes on: the code is straight-line or a bounded loop, waits only
  for HTTP requests with time limits, and takes no lock. Starting a command, dying,
  the clock and the operator's edits are not part of `Step`. `CollectionEnds` needs
  nothing else, and nothing of the providers.
- `PrePublishPreview` adds `SF_vars(Ask(p, "success"))` for each provider: one that
  is asked again and again answers at last. Weak fairness would say nothing, since a
  provider is asked for a moment only; without any of it a provider that is always
  down refutes every such property. `RetriesConverge` has as premise that previews
  of one boundary keep coming to the plan, and no torn file stops them.
- `LiveBaseline` adds `SF_vars(Start)`: the operator (or the scheduler) runs the
  backfill again and again. Strong, since reconciliations disable it now and then.
  The answers need no fairness: `MaxFaults` bounds the bad ones, which is the assumption
  that every provider at last serves the dates it is asked for with the rows it has now,
  and that updates come to an end. That these rows are not the stored ones, although the
  operational copy confirms both, is not assumed away: it is part of `Rejected`.
- `OperationalReport`: `WF_vars(ReportStep)` and
  `SF_vars(StartReport(TRUE, FALSE))`: a report that runs goes on and one with a
  verdict is asked for again and again. Nothing is assumed of the check. `MaxFaults`
  says that failures which pass (model, stores, a process that dies) come to an end.
  Nothing is assumed of approval, renderers and gate: they may stop every run, and the
  property says so. Each run is taken to have a run id that the run store, which is not
  in this repository, accepts, and the inputs that are no holdings (taxonomy, evidence)
  to load.

None is assumed in the other modules, where no liveness is claimed: commands are
started from outside the code, none waits for another and none retries by itself.

## 4. What is proved

Every safety property that a passing run checks, invariant or action property, is
stated by a theorem; the two refinements are as well. Each theorem rests on an
inductive invariant that TLC had confirmed on the run's instance first.

`DailyPublishClosure_proofs` proves about `TelegramDelivery`, for every set of
commands, messages and aliases, every bound, and commands that overlap or not:

- `TypeCorrect`: `Spec => []TypeOK`. The part that is not obvious is `Fits`: the
  attempt number a command computed from the receipts it could read names an
  existing file or the next one, at every later moment. It holds because readable
  files are at most the files there (`ReadableFinite`, by cardinality) and files
  are never removed, so that another command can only make more of them
  (`CommandUpdate`). Receipts are therefore numbered without gaps.
- `ApprovedOnly`: `Spec => []OnlyApprovedIsDelivered`. Not inductive by itself:
  `ApprovalInv` adds that every file with status "approved" has an authorised
  boundary (`ApprovedFiles`), and that every command past the check has an
  authorised identity (`CheckedCommands`). The second is what makes it immaterial
  that the approval is changed between check and send.
- `SentReceiptsAreTrue`: `Spec => []SentReceiptIsTrue`. The strengthening
  (`SentInFlight`, `SentFiles`) says the same of the receipt a command still
  carries in memory, so that writing it, over whatever is in the file by then,
  keeps the files true.

and for the same constants, with `~Overlap` as an assumption of each theorem (crashes
at any step remain; without it the second theorem is false: section 5):

- `DeliveriesAreRecorded`: `DeliveryIsRecorded`.
- `SentReceiptsBlock`: `SentReceiptBlocksCall`.
- `DuplicatesAreNotSilent`: `NoSilentDuplicate`.
- `ReceiptsImplementLedger`: `ReceiptsAreALedger`, the refinement of
  `DeliveryLedger` under the mapping `Completed`, which takes the statuses of the
  settled receipts and leaves out a torn one at the end.

They share the inductive invariant `SeqInv`, whose parts are: at most one command is
active (`OneAtATime`); only the newest file of an identity can be torn, since a
command that finds it torn computes that same attempt and writes over it
(`FilesInOrder`); and what an active command took from the receipts it read, the
attempt and whether it may send, is still so of the files (`CommandsInStep`). The
lemmas `SettledFiles`, `OpenedFile` and `WrittenFile` say what the two halves of a
receipt's write do to the readable files of one identity: the first changes nothing
that can be read, the second appends one receipt.

About the verifier beside these commands (`ClosureSpec`) it proves:

- `MetClosuresWereDelivered`: `ClosureMetMeansDelivered`, where no command is a dry
  run (`closure_dryrun` is the counterexample otherwise), with commands that overlap or
  not. `MetInv` adds that the sent receipts in the verifier's memory were true when it
  read them (`ReadSendsHappened`) and stay so, since a delivery is never taken back,
  although the files may be torn or written over before the closure is.
- `MetClosuresStayFounded`: `ClosureStaysFounded`, with `~Overlap`. `FoundedInv` says
  that what the verifier has read is still there (`Kept`), and of every identity's
  receipts that a duplicate block has an earlier sent receipt (`Founded`); a step of a
  command takes no readable receipt away (`ReceiptSteps`, the lemma the ledger's
  refinement rests on too).

`HoldingsHistory_proofs` proves for any ETFs, dates and contents:

- `TypeCorrect`: `TypeOK`, for any commands, overlapping or not. Among other things a
  command that is to read or write one more date has one left.
- `WrittenIsReadBack`: `ReadersSeeTheLastUpdate`, and `HistoryIsAStore`:
  `StoreIsKept`, the refinement of `SnapshotStore`. Both assume that there is one
  command at a time (`Commands = {c}`; it starts again and again, and may be killed
  anywhere). Two that overlap lose each other's snapshots, and no document promises
  otherwise: the hazard is in the list, without a property. The invariant `StoreInv`
  says what the files are, whatever was interrupted (`FilesInv`: the manifest, if it
  can be read, lists the dates that are known, and a partition holds what is known of
  its date, or that and what was being added), what a reader has seen so far
  (`ReadingInv`), how far a writer has come (`WritingInv`), and that without an
  interruption files and knowledge are the same (`Settled`). That a partition
  which is empty or has grown is noticed is arithmetic (`CountsFit`,
  `SameCountSameRows`): a manifest that can be read has the counts of what is known,
  these are positive, and rows of more ETFs are more records. This is also why a backfill
  that dies leaves the history as `LiveBaseline` has it: as it was, as it should be, or
  unreadable.

`SourceAcquisition_proofs` proves for any providers, ETFs, dates, contents, failures,
cooldown and bounds:

- `TypeCorrect`: `TypeOK`, from `RunInv`, which adds what the other invariants need
  of a run: a target still to do has no outcome yet, and while a run can still decide
  anything from the retry state, the retry state is readable.
- `StoreImplemented`: `StoreIsKept`, the refinement of `SnapshotStore`.
  `NextExplained` says of every snapshot the run is about to write that it is the
  history's own or has an answer of this run to explain it; the history is written in
  one step only (`HistorySteps`).
- `SummariesAreTrue`: `SummaryIsTrue`. `OutcomesAreTrue` follows a claim from the
  outcomes (true of what will be the history) over the history to the summary, where
  it stays true because the history only grows.
- `CooldownsSuppress`: `CooldownSuppresses`. `CooldownInv` says that a refusal whose
  cooldown is not over, and that no ended run has lost, is in the cooldowns the run is
  about to store, and in the stored ones unless this run saw it and has yet to store
  it. `NotCooling` is why a cooldown can be dropped when its target is dealt with.

What each action does to the run is stated once (`...Effect`) and used by the four
invariants. `FailuresAssumption` is needed for the summary: a failure is none of the
outcomes that claim a snapshot.

`UniverseLifecycle_proofs` proves for any sets of ETFs, brands and providers, and
any number of collections and crashes:

- `TypeCorrect`, `ListsFit`, `StateForgetsNothing`: `TypeOK`,
  `BrandsOfTheStateFit` and `NothingIsForgotten`, from one inductive invariant,
  `StateInv`. It says of the state a collection has read (`run.previous`) what the
  properties say of the file, because the next state is computed from the former
  after the latter is gone. `NextStateFits` is the lemma about `NextEtfs` and
  `NextBrands`: from a fitting universe and a sound collection they make a fitting
  universe, with everything in it that was in either.
- `TargetsRestored`: `CatalogRestoresTargets`. `CatalogInv` ties what a collection
  carries to the catalog it has written, and the state it has read to the file.
- `SummariesAddUp`: `ToldIsTrue`. `ToldInv` adds that between summary and state
  `told` is what the next state will track; `ChangesAddUp` is the lemma that
  overlaying a summary's added, changed and removed entries on what was tracked
  gives what was collected, which is where an ETF that is back must count as
  changed.

`OperationalReport_proofs` proves for any ETFs, dates and bounds, with check, report,
exports and syncs interleaved file by file:

- `TypeCorrect`: `TypeOK`, which includes that a ready verdict compares two dates, the
  earlier one as the previous.
- `ReadyVerdictsAreOfOneExport`: `ReadyIsOneExport`. `ExportsInv` says that every
  partition on disk is of some export and the manifest of one (`FilesInv`), that what an
  export has written and read again is its own (`Writer`), and what the check may
  conclude from what it has read so far (`Checker`). The heart is `Sound`: a fingerprint
  with the manifest of one export covers that export's rows, all of them. It holds of
  what an export writes, because no other writes until it is done (`Turns`); the check
  compares its own fingerprint with that one, so that no mixture of files passes.
- `UserReportsAreOfCheckedRows`: `ReportedRowsWereChecked`, under the premise
  `[]NothingRestored`: no date's rows are exported again once other rows of it were.
  `RowsInv` follows check and report through their reads by what can be on disk from
  then on: the rows of this export or a later one (`Since`, `Later`). When the
  fingerprints agree in the end, rows loaded before them are neither older nor newer
  than those that the verdict was reached on, and `LaterIsOrder` makes them the same.
- `ReportsAfterOneChangeAreOfCheckedRows`: the same property without the premise, for
  `MaxUpdates =< 1`, which implies it (`ChangedOnce`). With two changes the premise is
  needed, since the history may come back to what it was; see the bounds of `report`.
- `AnnouncedReportsAreWhole`: `AnnouncedWhole`. `StoringInv` says that what a
  storing report has stored is there under its own name (`StoredWhenLeft`: all but
  what is left); `AnnouncedInv` that from its first artifact on a report leaves no
  earlier announcement of a success, so that a run that fails in the middle cannot be taken for
  the one announced before it; `CommandsInv` that the check never stores.

`PrePublishPreview_proofs` proves for any runs, requests, providers, categories and
profiles:

- `TypeCorrect`: `TypeOK`, from `Typed`, which adds that a preview past its evidence
  has a summary, and that nobody is asked who is reused or has answered.
- `DeliverableHandoffsAreAnswered`: `DeliverableIsAnswered`. The argument follows a
  usable outcome back to the request: a summary is worth reusing only if the last
  answers behind it were usable (`SummaryInv`); while providers are asked each is to
  be asked, is reused, or has answered, and what the summary on disk could be reused
  for is not asked again (`AskInv`), which is what keeps `SummaryInv` true when an
  answer gets worse; the outcomes a preview goes on with are good (`LateInv`). They
  are suspended (`Suspended`) between a new evidence file and its summary, and where a
  preview died between them (`halfway`).
- `DeliverableEvidenceIsItsOwn`: `DeliverableEvidenceIsExact`. `FilesExact` says that,
  but for the same moments, evidence and summary on disk agree: the bag of items is what
  the outcomes of that boundary brought. `MemoryExact` says it of what the preview
  carries from step to step. `MergedIsExact` is why a merge keeps it: the outcomes kept
  are of providers that are not asked again, so that the two bags are disjoint.

`LiveBaseline_proofs` proves for any cohort, ETFs, operational copy and bounds:

- `TypeCorrect`: `TypeOK`, from `TypeInv`; a provider is asked about its own ETFs only.
- `CompletedBackfillsAreReady`: `CompletedMeansReady`. `BulkInv` says what a bulk phase
  that has gone well so far has done: providers whose turn is over are complete, and of
  the one whose turn it is every date of the planned windows is there or still to be
  asked for (`AllCovered`). `CoveredIsReady` is the lemma behind it: the window of an
  ETF is computed from the dates there are, and may move when some are added; once
  every date of the planned window has come, the window that is computed then has no
  gap either. `PlanInv` keeps it true of the stored summary while other commands run.
- `BulkNeedsAgreement`: `BulkRestsOnAgreement`, an action property, since an update may
  replace a representative later. `GateInv` says that the bulk phase rests on
  representatives that are confirmed, and before it the providers whose turn is over are; `RepresentativeInv` that until then nothing
  but a representative is fetched, and that what was served is there to be compared.
- `ReportedMismatchesHaveACause`: `MismatchesHaveACause`. `MemoryInv`: what a command has
  read is still what there is, and what it will write keeps all of it (`Keeps`), so that
  no backfill takes or changes anything. `CacheInv`: each snapshot of a provider's own
  history was written there by an update, or is the canonical history's, as it is or as
  it was before a refresh. `ReportInv` says the property of the items a reconciliation
  has so far, which must survive the history that it creates for a later provider
  (`OthersStayCaused`).

`EvidenceCollection_proofs` proves for any providers, kinds, boards and cooldowns:

- `RefusalsAreHeeded`: `RefusedAreLeftAlone`. `QuietInv` ties `quiet` to the
  cooldown file and to the table in a command's memory, from which the file is
  rewritten (`Quiets`): whatever quiet the recorded refusals still ask for is in the
  table, and no cooldown is longer than its provider's. `TurnInv` says that each provider is still to be asked or has
  ended, and has a cooldown if it refused.
- `DuplicatesHideNothing`: `NothingIsLost`, from `EvidenceInv` and the lemma
  `DedupedKeepsTheRichest` about dropping duplicates.
- `TypeCorrect`: `TypeOK`, and `SummariesAreTrue`: `SummaryTellsTheEvidence`, from a
  second invariant, `Known`: `FilesTyped` and `CommandTyped` (every provider is still to
  be asked or has an outcome, never both), `SourcesKnown` (each candidate is about a
  target and of a provider that succeeded or whose turn it is, and who succeeded found
  something) and `SummaryInv`. The last includes that a command's new evidence never lies
  beside an earlier summary: a command writes to paths of its own.

The assumptions about constants are those the modules name, and TLC evaluates them in
every run: for `TelegramDelivery` at least one message and alias, the template among
the approval paths, and the ranges of the bounds; for the closure that "no alias" is not
one; for `SourceAcquisition` the kinds of failure; for the others that providers are
listed once, that what is said of providers, ETFs and requests is said of each of them,
that a baseline's representative has an operational date, that a board is a list of rows
with or without a ticker, that the ETFs of a history are finitely many (its record
counts are numbers), and the ranges of the bounds. `UniverseLifecycle` needs none.

Some definitions have the form they have so that one can reason about them. The
library's induction theorems take operators as parameters, which no installed prover can
instantiate, so that nothing can be said of a recursive sort or filter for every input.
What such a function returns is therefore defined by what it is: `Descending` of
`OperationalReport` is the sequence of a set's dates in which each is above the next,
`Among` of `EvidenceCollection` the rows of a board at certain places in their order,
`RecordCount` of `HoldingsHistory` the size of the set of records, and a plan of
`LiveBaseline` a set of requests taken in order (`NextRequest`). The lemmas about them
(`DescendingIsAll`, `AmongAreThose`) count: an element's place is the number of elements
up to it, and distinct places of a finite set fill `1..n` (`FS_Injection`). That sets of
dates have a latest follows from well-foundedness (`Least`), whose library theorem needs
no operator. Choices with overlapping conditions, the code's `elif`, are IF chains:
CASE would leave the value open. `LiveBaseline` has dates that are bounded above only,
since there is a business day before any date.

Only model-checked:

- what is claimed under fairness: `CollectionEnds`, `RetriesConverge`,
  `BackfillConverges` and `ReadyVerdictsGetReported`. Liveness is beyond the prover in
  use, as is ENABLED;
- that `ClosureMetMeansDelivered` fails with dry runs: a counterexample, not a theorem.

Beyond both: `StoreIsKept` and `ReadersSeeTheLastUpdate` for updates that overlap,
where they are false, and whatever the list of what is not modelled has (section 6).

## 5. Where code and documents disagree

One is the counterexample of a run, `closure_dryrun`. The closure asks for
"matching live `sent`" evidence (`CONTEXT.md:412`). Receipts carry no such mark
that is used: the verifier takes it from the summary of the last command
(`daily_publish_closure.py:325`). A dry run leaves a sent receipt, a live command
is blocked by it, and the closure is met although nobody got anything.

Others were met while modelling and are in the models as the code has them; the
properties that pass name them as their exceptions.

- "An existing `sent` receipt for that identity blocks another network call"
  (`CONTEXT.md:404`). Receipts are read once (`telegram_delivery.py:248`); of two
  commands that overlap, one can read before the other writes, and call the API
  while the sent receipt is there. With `Overlap = TRUE` TLC refutes
  `SentReceiptBlocksCall`; `telegram_sequential` and the theorems are about commands
  in turn.
- A LiveRetryCooldown "suppresses repeat retry attempts" after blocked or
  rate-limited evidence (`CONTEXT.md:536`). A run that ends in an error, such as a
  `--refresh` of a snapshot that was not selected (`source_acquisition.py:1288`),
  writes no retry state, and the next run asks at once. `CooldownSuppresses` leaves
  out refusals whose run failed.
- "Correcting an erroneous prior collection requires an explicit refresh path"
  (`CONTEXT.md:520`). A conflict is reported as `refresh_required`, which starts a
  cooldown like any failure but `provider_unavailable`, and the cooldown is looked at
  before the refresh: the explicit refresh is skipped for a day
  (`tests/test_agent_treport_operational_holdings_adapter.py:2295` expects the
  cooldown).
- A preview that dies between the merged evidence and the merged summary
  (`cli.py:2765`) leaves evidence of providers that the summary does not name; the
  next reuse adds it again, and a handoff can carry it twice. No document
  promises otherwise; `halfway` marks it.
- A preview collects without a cooldown file (`cli.py:2731`), so a provider that has
  just refused, in a preview or in a collection with one, is asked again.
- The same fact from two providers is two pieces of evidence: source label, article
  id and title, which name the provider, are part of every key
  (`external_evidence/collector.py`).
- A sync's record (`sync_metadata.json`) has dates and totals and no fingerprint
  (`operational_holdings.py:807`). A sync that rewrites partitions and dies before its
  manifest leaves a mixture that the older record still agrees with if the counts are
  equal, and a verdict on it can be ready; `ReadyIsOneExport` asks for whole partitions
  there. The report is still bound to what was checked.
- The record is looked at before the summary, whatever wrote the manifest
  (`operational_readiness.py:181`): one that is left from an earlier sync makes every
  later native export's verdict failed until somebody removes it.
- With two history updates at once `SnapshotStore` does not hold (each rewrites all
  it read), and with two exports at once neither does `ReadyIsOneExport`; no document
  excludes either, and none promises it.
- A retry state torn by a crash stops every later run until somebody removes it; so
  does a torn cooldown file for collections that are given it, and a torn universe
  state for collections of the universe.

## 6. What is left out

Inside the modelled parts: the text of messages, receipts and errors; network detail
below "accepted, refused, or unknown"; the providers' page parsers beyond what they can
answer; warnings and limitations of the closure, which decide nothing; the sub-second
truncation of cooldown times; the bounded smoke mode that stops after one ETF. The
approval boundary's other fields are functions of the identity and the package.

Operations of the components that are modelled in part:

- history: the patch of the security mapping. Of `sync_operational_holdings` and the
  fixture collection the normalisation of rows is left out, and source partitions whose
  files are missing (they are dates the source has not got);
- baseline: `apply_live_source_rolling_retention` (it sorts and removes directories; what
  it may remove under a reader depends on what operators run at once, and the code
  protects one name only) and the daily health summary, which is derived;
- source cache: the layout of its directories;
- readiness: the reasons for a hold beside windows and fingerprints are one choice; next
  actions are text; the single-focus mode is left out, as is a report with neither verdict nor override, which stops at once;
- workflow: intermediate artifacts nobody is told about, and the run store of the agent
  runtime, which is not in this repository;
- preview: the package of copies, arguments and printing; all report targets of a request
  are answered together, as one item of evidence per provider;
- evidence: the alignment of claims and the check of addresses, which are pure.

Without a model: live call approvals (only the verdict counts, in the preview and in `Begin`), security
resolution and the payload pipeline (pure computations over strings and decimals, which a
model would have to rewrite line by line), the quality gate (regular expressions; its
result is a choice of `Render`), renderers (wording and layout), reviews derived from
finished runs, fixtures and the document evidence adapter (its tools are outside this
repository).

## 7. Plan

The order is by what a mistake would cost: what reaches a chat, then what destroys data,
then what makes a report wrong. Modelled in that order: delivery and closure, history and
acquisition, universe, preview, evidence, baseline, export binding with report.

What is worth doing next:

1. Compose `PrePublishPreview` with `TelegramDelivery` in one state, with the preview's
   handoff in place of `NewHandoff`: `Deliverable` is stated in both, and what the
   composition would add is an operator who delivers while the next preview writes.
2. `HoldingsHistory` under `OperationalReport` and `LiveBaseline`, in place of the step and
   the crash outcomes that stand for it there.
3. Proofs about the operators the modules share, and of variants that decrease: the part of
   the liveness properties that is a safety property.
4. Security resolution and the boundary cases of the payload pipeline as operators checked
   against reference definitions.
