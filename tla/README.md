# TLA+ models of Optimist Briefing

Optimist Briefing publishes one personal news and research edition per day. A cron trigger or the
owner starts a Cloudflare Workflow instance, which collects from public sources, selects, has an
OpenAI model summarise, validates, composes, and stores the edition in a D1 database that a web
interface reads. This directory holds TLA+ models of the parts of that program where several
actors, retries, crashes or money meet, the TLC runs that check them and TLAPS proofs about them.
Paths below are relative to the repository; the program is in `src/`.

## 1. Inventory

For each component: its state, its operations, whom it talks to, what is hard, what makes it
correct.

| Component | State | Operations | Hard behaviour | Correct when |
|---|---|---|---|---|
| Model budget (`models/openai-provider.ts`, `budget-gate.ts`, `cost-ledger.ts`, reservations in `db/d1-repository.ts`) | reservation rows, usage events, run cost | reserve, call, record usage, reconcile, release, terminal cleanup | concurrent calls and runs; a D1 error between two statements; a timed-out attempt that goes on; charges above the reserved maximum | a month never commits more than the limit; a settled row never moves; a cleaned run holds nothing |
| Editorial run (`workflow/run-editorial-pipeline.ts`, `daily-briefing-workflow.ts`) | run row, checkpoints, edition, Workflow instance, step cache | load, ensure, invalidate, the checkpointed stages, publish, final save, catch, retention | isolate eviction and replay, step retries and timeouts, D1 errors, repair of a partial edition, an interrupted deletion | the row agrees with the edition; a visible edition stays visible; an instance ends; a published run is reopened only when its execution was not told that it was saved |
| Run control (`workflow/schedule.ts`, `manual-controls.ts`, `worker.ts`) | none of its own: the run row and the instance | cron coordination, manual start, manual resume, create-failure record | decisions on what was read before; an answer of the Workflows API that is lost; two triggers at once | no trigger undoes a published run; what was started is settled |
| Checkpoint serialisation (`run-editorial-pipeline.ts`, `normalize.ts`, provider-text modules) | chunk rows, version markers | chunk, read, delete, promote an old row, decode | an interrupted deletion, two attempts at one stage, artifacts of an older version | what is read is what was saved; text is decoded once |
| Provider scheduling and HTTP client (`sources/provider-scheduler.ts`, `http-client.ts`) | queue, leases, next start; per request: attempt, redirects, abort timer | acquire, drain, release; request with retries and redirects | leases on error paths, redirect hops that need a second lease, late timers, providers that never answer | limit and interval are kept, no lease leaks, every request ends |
| Collection, sources and their health (`sources/*-collector.ts`, `collection-settlement.ts`, `api/routes/sources.ts`) | the catalog, the lanes of an attempt, merged papers | poll, settle, merge, enrich, record outcomes; create and update sources | partial failure, retries, edits of the owner during a collection | a failing lane takes nothing from the others; the row of a source says what happened |
| Normalisation and identity (`editorial/normalize.ts`, `deduplicate.ts`, `research-identity.ts`, `cluster.ts`) | none | group, merge, attach, cluster, vote | merges that depend on order and on third parties | a group is one paper, a development is compact |
| Selection (`editorial/research-triage.ts`, `shortlist.ts`, `news-score.ts`, `research-first-morning.ts`, `compose-edition.ts`) | none | triage, score, shortlist, compose | quotas that fill in an order, thresholds that are applied twice | places are given fairly; a day that offers an edition gets one |
| Research over runs (`run-editorial-pipeline.ts`, `discovery-diagnostics.ts`) | observations, assessment cache, diagnostics | observe, triage, assess, count | stages repeated after they had their effect; caches that fail; papers of several lanes, joined or routed to the news | new work is offered, paid once, judged by current evidence, and the diagnostics tell what became of it |
| Preferences and feedback (`db/d1-repository.ts`, `api/routes/`, `web/pages/PreferencesPage.tsx`) | weights, feedback with adjustments, snapshots of runs, pages | record, undo, update, reset, show, snapshot | statements of several requests in between each other; edits not yet saved; two ways of rounding; restarts and retention | the recorded weight is the one used; a run uses one snapshot; a page shows the store |
| Edition store (`db/d1-repository.ts`, `pagination/edition-cursor.ts`) | items, editions, entries, summaries | upsert, persist, latest, archive | replacing an edition; items shared by runs | the latest edition only advances |
| Retention (`maintenance/retention.ts`) | everything above | prune by age | references that block a batch; what a later resume still reads; what a removed row had kept away | nothing rated or still needed is removed, nothing old is left |
| Source adapters, summaries | none | parse, prompt, validate | text | choice of entries in `Collection`; else string handling |
| Pages of what is published (`web/pages/ArchivePage.tsx`, list of editions, saved items) | the page shown, its filters and the requests under way | load, search, next page | a listing that is read in pages while editions appear and items are rewritten; answers of superseded requests | who reads to the last page was shown everything |
| HTTP API, access, other pages | none | routes, token check, rendering | | not modelled |

Interactions: the cron trigger and the API call *run control*, which acts on the Workflows
instance and on the run row; the instance executes the *editorial run*; its stages call
*collection* (which goes through the *HTTP client* and *provider scheduling*), *normalisation*,
*selection* and the models (through the *model budget*), keep their results as *checkpoints* and
write the *edition store*; every execution selects with the *preferences* snapshot of its run;
after a visible edition it calls *retention*. All shared state is in D1, where one statement, or
one batch, is atomic.

`PROJECT.json` lists every component with its status and every hazard with its line.

## 2. Modules

| Module | Models | Correspondence |
|---|---|---|
| `BudgetAccount` | what the budget promises: rows move from none to reserved to reconciled or released, and a month's commitment stays within the limit | abstract specification |
| `ModelBudget` | reservations, ledger, provider calls, attempts that were given up, cleanup and its audit | one action per D1 statement; `pc[c]` is the place in `#paidCall`, `phase[r]` the cleanup of run r |
| `PipelineRun` | `DailyBriefingWorkflow.run` and `runEditorialPipeline` for one date | `pc` is the place in the body, `att` the attempt at a stage inside `step.do` and the one that timed out; every D1 call is one action |
| `RunLife` | the life of a run as the triggers see it: row status, instance state, phase of the execution | abstract specification, implemented by `PipelineRun`, extended by `RunControl` |
| `RunControl` | cron, start and resume as invocations that read, ask, and act | `at[t]` is the next call of trigger t, `told[t]` the instance state it was told |
| `Checkpoints` | the artifacts of the stages as `audit_events` rows, interrupted repairs, the upgrade of what an older version stored | `rows` by save and index, `body` the place in `runEditorialPipeline`, `att[w].got` what an attempt has read or computed, and in every entry how often its text was decoded |
| `ProviderAdmission` | `createProviderRequestAdmission` as operators on a state record, times relative to now | `Drain`, `Acquired`, `Granted`, `Released` |
| `SourceRequests` | `SourceHttpClient.request` for several callers of one provider | `req[r].at` is the await the caller is in, `adm` the scheduler's state |
| `Collection` | `collectCandidates`: polling, the lanes and workers of three collectors, merged papers, enrichers, outcomes and failure labels; `createSource`, `updateSource` | `lane[op]` is the state of one lane, `candidates` the merged papers, `polled` the catalog as the attempt read it, `catalog` the table |
| `ItemGroups` | `groupByResearchIdentity`, `consolidateResearchCandidates`, `deduplicateItems`, `clusterNews`, `reconciledMaterialFacts` | one action for each thing that is grouped; functions of a list in the order of the stable keys, which recur over it as the loops do |
| `ResearchTriage` | the discovery pool and `triageResearch` | operators on candidates, a queue grows in the order of the code |
| `EditionSelection` | normalise to compose as functions of one day's candidates: triage, gates, scores, budgets, the morning, coverage | one action per stage |
| `ResearchStages` | the research part of the stages over several runs: observations, cache, paid assessments, diagnostics, checkpoints | a work stands for the records of one identity: `lanes` found the one that is kept, `merged` the one joined into it, `route` is research, news or the reason it is left out; `stage` is the first without a checkpoint, `tracker` the diagnostics of this isolate, `event` those in D1 |
| `EditionStore` | the items, editions, run rows and feedback of several dates, and `pruneExpiredData` | an action per batch: `row[d]` is a run with its checkpoints, `until[i]` the expiry of an item, time in days |
| `Preferences` | weights, feedback, pages and the snapshot of a run | one action per D1 statement; `tab[t]` is a page, what was typed into it since (`edited`) and its request, `exec[r]` an execution loading its preferences |
| `ArchivePages` | the archive, the saved items and the list of editions, read page by page while runs publish and replace editions and collect items again | `topic[i]` is what the row of an item says at present, `request` what is under way, `page` what is shown; the archive continues at an offset, the list at a date |
| `MC*` | the instances TLC checks | |
| `*Proofs` | theorems and their proofs, of the module they are named after; `RunRecordProofs` of `RunControl` and `Checkpoints`, `EditionProofs` of `ItemGroups`, `EditionSelection` (with `ResearchTriage`) and `EditionStore`, `ReaderProofs` of `Preferences` and `ArchivePages`, `ModelBudgetProofs` also of `BudgetAccount` | |

`EditionSelection` extends `ResearchTriage`, `SourceRequests` uses `ProviderAdmission`,
`RunControl` extends `RunLife`, and `ModelBudget` and `PipelineRun` implement `BudgetAccount` and
`RunLife`. `MCReader` and `MCEditorial` put instances side by side that are checked in one run.

Data is reduced to what the properties tell apart. In `PipelineRun` items and summaries are the
number of the collection they come from and the status they compose to, in `Checkpoints` a text
is how often it was decoded, in `ArchivePages` a search is a topic and partial and published
editions are both visible, in `ItemGroups` an item is its identities and the values that are
compared; a charge is a small number of units, weights and scores are hundredths; bodies, URLs
and prompts are gone. The stages between normalisation and validation behave alike under replay,
so `PipelineRun` has a parameter for their number.

A definition that precedes another one with the same parameters and is used nowhere
(`CanReconcileAnyCharge`, `DrainUnpaced`, ...) is a plausible mistake in the code, which the run
of the property named in `PROJECT.json` finds.

## 3. Runs

| Run | Instance | Shows |
|---|---|---|
| `budget` | one run, three calls with maxima 1, 1, 2, limit 2; all faults, or two months without any | the limit, the refinement of `BudgetAccount`, and that a cleaned run holds nothing, under D1 errors, timeouts, crashes and overruns |
| `pipeline` | five stages. Prompt runs: three collections, two retries, three faults among crashes and D1 calls that fail, with or without effect. Slow runs: one collection, one retry, two faults among crashes and timeouts | the row agrees with the edition, compose sees one collection, the visible edition stays and is only replaced by a newer one, a run lives as `RunLife` says, every instance ends |
| `control` | one cron, two starts, two resumes; all faults, or (calm) only create calls that fail or lose their answer | no trigger changes a published run, nor one that an instance has begun or settled; in a calm behaviour every started run is settled |
| `checkpoints` | four stages, chunks of two units, papers, news and names that vanish; artifacts new or of two older versions; two faults | no mixture or part of a checkpoint is read, a repair leaves nothing behind, text is decoded once |
| `requests` | three callers, two leases, interval 2, a retry and a redirect each | limit, interval, and that every request ends |
| `collection` | a research provider with two lanes, one worker and an enricher, a feed, a publication; two attempts, two edits | healthy lanes reach the candidates, papers are not conflated, outcomes tell the truth, disabled sources stay so, every lane settles |
| `editorial` | all lists of four papers and commentaries, of four news items, of three signals; all pools of five research candidates through triage, all pools of five candidates of all kinds through the edition | groups are one paper, explicit commentary stays attached, developments are compact, evidence keeps the fact; triage is fair; a day that offers a complete edition publishes one |
| `stages` | two works, two lanes, two runs a day or a week apart, two faults, all budget states; works of one or both lanes, with a record joined into them, routed to the news or left out | a run does not suppress its own work, pays once, uses current assessments, and its diagnostics tell what became of the records of every lane |
| `edition_retention` | two dates, two items, one retention period | retention is never blocked, keeps feedback and the items of resumable runs; the latest edition never goes back |
| `reader` | one weight, typed as 0.50 or as 0.05; two tabs between runs, or one tab with a run, two-day retention over three days. Or pages of one entry over three dates and two items, one edition replaced, item rewritten or save undone | one snapshot per run; a page shows what is stored but for what is typed since; the recorded weight is the used one, or a tenth from it on a half; who reads a listing to its end was shown all of it |
| `archive_filters` | the archive of `reader` alone | **violated**: the answer of the initial load comes after that of a search, replaces it, and its cursor is used with the filters of the search (`ArchivePage.tsx:66`), against the test quoted under `findings` |
| `selection_near` | the pools of `editorial`, three places | **violated**: a near match that triage admits and the assessment finds good is refused by the topical gate of the shortlist, against the sentence of the design quoted under `findings` |

The instances of `pipeline`, `control`, `budget`, `reader` and `editorial` have several *scenes*
each, chosen in the initial state by a variable that never changes. A scene bounds one kind of
trouble so that another fits: every state of each scene is explored, and the properties that one
kind may break say so (`prompt`, `calm`).

What may break them was seen on the way, and is part of what the models show:

- An attempt that outlives its step timeout saves the row it has read; when this is the last save
  of publish, a published row becomes a running one (`run-editorial-pipeline.ts:3773`). With
  several collections it can also save the checkpoint of another collection, or replace a visible
  edition by a draft. The properties of row, edition and collection are therefore those of prompt
  runs, in which no attempt outlives its timeout.
- When the last save of a run is applied and its answer lost, the body takes it for an error, reads
  the row it has just published and saves it as one that may be resumed
  (`run-editorial-pipeline.ts:3933`, `3937`). The edition stays visible, and a trigger runs the
  date again. `RunLife` has this step (`LoseOutcome`, then `Settle`), and `RunControl` with it.
- A weight typed in halves of a tenth is stored as typed, since the request takes any finite number
  (`repository.ts:483`). On a negative half the SQL of `recordFeedback` rounds away from zero and
  `getPreferences` upwards (`d1-repository.ts:1643`, `1754`): after 0.05 and a "less like this", -0.1
  is recorded and 0 used. `RecordedWeightIsUsed` says that they are equal but for this.
- A stage counts the research of every lane that has found one of its records, and rejects a record
  for the lanes of the record it keeps (`run-editorial-pipeline.ts:2223`, `2539`). For a lane whose
  record was joined into another's, and for articles routed to the news, what a stage keeps and
  what it rejects need not add up to what the stage before has kept. `DiagnosticsTellTheRun` says
  of each of the numbers what it is.
- Ninety days after a date was published its row is removed, a manual start of the date is
  accepted again, and its edition is replaced (`d1-repository.ts:1300`).
- A preference snapshot younger than its run outlives it without its link; the next run of the
  date cannot save its own and fails until retention removes the event
  (`run-editorial-pipeline.ts:769`, `1190`).
- The cap on assessments counts by attempt, so that a repeated attempt may pay up to it again
  (`run-editorial-pipeline.ts:2783`).
- The compact copy of a paper is decoded a second time (`run-editorial-pipeline.ts:1764`), which
  `TextIsDecodedOnce` leaves out.
- The archive continues at an offset, and its filters read the items as they are stored: an edition
  replaced by a shorter one, an item that another run collects again and rewrites
  (`d1-repository.ts:944`), or one no longer saved, while the pages are read, moves what follows past
  the reader. `ListingIsWhole` counts such
  losses and claims nothing after one; the list of editions continues at a date and loses nothing.
- A trigger between the last save of a failing run and the end of its instance is dropped.

**Bounds.** Every bound is a constant: `LastMonth`, `CostBound` (charges are at most the maximum
plus one), `MaxVersions` (collections), `MaxFaults`, `MaxRetries`, `MaxRedirects`, `Lateness`,
`MaxSaves`, `MaxEdits`, `MaxAttempts`, `MaxFeedback`, `MaxDay`, `MaxLosses`, `Runs`.
Three calls are enough for two that fit and one that does not, with one settled in between.
Three collections and three faults allow a repair interrupted twice. The program's two retries
of a step are kept; more stages repeat the behaviour of those that are there. Two triggers of a
kind are enough for one to act on what the other has changed. Seven saves let every stage of the
four be saved, repaired and saved again while an attempt given up saves once more. In
`collection` two lanes with one worker make one wait, the papers have the pairs that merge, that
conflict and that are too long together, and two attempts let a failure follow a success. Lists
of four are enough for two groups that a third member joins and for one that it must not; five
places of the selection exceed the caps of its instance by one or two. Two runs let the second
meet what the first has observed, cached and paid. Pages of one entry over three dates make two
cursors and a date that appears between them. In `edition_retention` the unit of
time is the retention period: one period makes what was stored before old and what is stored
now young, and two dates let one run rewrite the items of the other. Three callers are enough for
one that holds a lease, one being admitted and one in the queue. What holds for every value of
these constants is what is proved in section 5.

**Deadlock.** `CHECK_DEADLOCK FALSE` is set where the system stops of itself: all calls made and
the run cleaned, all requests ended, the run published, the collection or selection done, the
last day over.

## 4. Fairness

- `MCPipelineRun!SceneSpec` (from `PipelineRun!FairSpec`): weak fairness of the body and of the
  awaited attempt. The Workflows engine keeps executing an instance it has started; nothing is
  assumed of triggers, of stages that throw, or of attempts that were given up.
- `MCRunControl!MCSpec` (from `RunControl!FairSpec`): the engine goes on, and an invocation that
  has read the run goes on. No trigger has to come. The calm scene has no D1 error and no dying
  Worker, for which the code has no recovery: a Worker that dies between `createRun` and
  `createBatch` leaves a pending run.
- `SourceRequests!FairSpec`: time passes, timers fire, and a fetch or read whose abort timer has
  fired fails. A provider never has to answer.
- `Collection!Fairness`: a free worker starts a lane, and a lane's requests end, which is what
  `RequestsEnd` says of them.

## 5. Proofs

Every theorem holds for all values of the constants that satisfy the `ASSUME`s of its module:
any number of calls, triggers, stages, sources, lanes, tabs, dates, retries and faults.

- `ModelBudgetProofs`. Of the account: `AccountWithinLimit`. A reservation is made only when it
  fits with all that is committed; reconciling and releasing only lower the sum. The lemmas are
  about sums written as cardinalities of sets of units, which avoids recursion. Of the program:
  `BudgetTypeCorrect`, `BudgetImplementsAccount`, and from the refinement `BudgetWithinLimit`;
  `BudgetSettledRowsAreFinal`; `BudgetCleanedRunHoldsNothing`. The inductive invariant adds to the
  types that a call that has not begun has no row (`NoRowBefore`): without it a reservation might
  overwrite a settled row. Each step is shown to be one of three moves of the table or none
  (`RowStep`), and the properties follow from the moves. For the cleaned run the invariant says
  which attempts of a run can still have a row.
- `PipelineRunProofs`: `RowAndEdition`, `OneCollection`, `VisibleStays`, `NewerOnly`, and
  `LifeRefined`, that a run of the pipeline is a run as `RunLife` describes it to the triggers.
  None of the first four is inductive. `IInv` adds that a prompt run has a single attempt
  (`OneAttempt`), that the row follows the place in the body (`RowFollowsBody`), that the
  checkpoints there are were made from one collection (`SavedAgree`), that the attempt works on
  what they say (`AttemptFollows`), which outcome row and edition can have at each place
  (`RowFits`), and that no edition is of a collection still to come (`EditionMade`). A D1 call
  that fails may have had its effect, in the body (`BodyWrites`) and in an attempt
  (`AttemptWrites`): the row and the checkpoints may be one step ahead of what the execution
  knows, which the invariant allows and the refinement maps to `Fail` and `LoseOutcome`. All of it,
  the refinement included, is about prompt runs; slow runs are kept out of the mapping.
- `RunRecordProofs`, of `RunControl`: `ControlTypeCorrect` and `ControlTriggersUndoNothing`.
  Every action that writes the row reads it in the same step, which is what the conditional
  statements of the code do; `Working` says which rows an instance that runs can have, so that the
  one unconditional write, of a create failure, finds a row nobody has begun.
- `RunRecordProofs`, of `Checkpoints`: `CheckpointsRepairFinishes`. A repair deletes row by row
  and may be interrupted anywhere, also within the chunks of an artifact. `RepairInv` says that
  the rows of a save are all there, or that what is missing was deleted and what is left is
  to go as well (`OthersWhole`, `Going`), and that what is to stay is newer than what the repair
  removes (`OthersNew`). A stage is only begun when nothing is left to go. On the same invariant
  rest `CheckpointsTextIsDecodedOnce` and `CheckpointsReadWhatWasSaved`. `RowsSaved` says that
  every row is a chunk of what its save has put there, or the whole of it, under markers that say
  how often its text was decoded (`Marked`); `TextInv` that what an attempt has read, has computed
  or was given has the text its stage should have. That the chunks joined are the artifact
  (`ConcatChunks`) is an induction over the entries as they are packed. `CheckpointsAssumption`
  is needed twice: the stages follow each other as those of the pipeline do (`Follows`), or an
  output would be given to a stage that decodes it again; and the markers an older version has
  left are true of its text, or nothing could be concluded from them.
- `SourceRequestsProofs`: `RequestsLeasesAreHeld` and `RequestsWithinConcurrency`. Neither is
  inductive: a lease granted to a caller that holds one, or that waits twice, would break the
  count. `IInv` adds that the scheduler's waiters are exactly the queued requests, each once, and
  that a waiter is being admitted only when a lease is left. `RequestsPaced` holds when
  `Lateness = 0`: the planned start of the waiter and `nextStartAt` are kept the interval apart
  from the last start (`OnTime`). A timer that is late moves one start and
  not the next, so that two can be closer than the interval: the assumption is needed.
- `CollectionProofs`, about the rows: `CollectionTypeCorrect`, `CollectionTellsTheTruth` and
  `CollectionLeavesDisabled`. `RowsStay` says that what was polled still has a row,
  `OnlyPolled` that only what was enabled has lanes or enriches, and `RecordedAreTold` that the
  rows written so far tell what became of their sources, which an edit in between leaves true
  because it writes no measured column. `PublicIdAssumption` is needed: were a source called
  like the stand-in of the odd ids, it would answer for their failures.
- `CollectionProofs`, about the papers: `CollectionKeepsHealthyLanes` and
  `CollectionConflatesNothing`. The merge takes the items one by one, and for each the places
  from the last to the first. `Holds` is the invariant of the inner recursion (all that is gone
  is covered by the representative, which is one paper), `MergedWell` that of the outer one (all
  items so far are covered); `DiscoveredIsAll` says that sorting loses nothing, because the places
  of the finds are an injection into as many numbers. `PapersInv` carries the result through the
  enrichers and the check of titles. `FindsAssumption`: an answer is finite, its entries are told
  apart, and no single entry has two arXiv ids, which the adapters guarantee. That the
  representative is compared *again* before it takes another (`Join`) is what
  `CollectionConflatesNothing` rests on.
- `ResearchStagesProofs`: `StagesTypeCorrect`, `StagesUseCurrentAssessments`, `StagesPayOnce`,
  `StagesSelectNewWork` and `StagesTellTheRun`. `PayInv` says that an assessment
  paid once more than a failing cache excuses is in the cache, or its answer is awaited;
  `SelectInv` that what normalize has to select is in what it was given and in what it made;
  `TellInv` that, while no diagnostics call fails, the counters and rejections in D1 and in the
  isolate tell what the checkpoints say (`Tells`), and during an assessment what is done of it
  (`Halfway`), whichever stages were repeated and isolates replaced. That a work is offered once,
  and offers are finite (`OfferedOnce`), is what the identities of `collect` guarantee.
- `EditionProofs`, of `ItemGroups`, for lists of any length and any finite set of signals:
  `GroupsOnePaper`, `GroupsKeepExplicitLinks`, `GroupsDevelopmentsAreCompact` and
  `GroupsMoreEvidenceKeepsTheFact`. A pair of papers joins two groups by their roots;
  `SoundGroups` says that the identities recorded at a root are those of all members of its group
  (`ClassHolds`), and that the members with identifiers of a family are linked. Two linked groups
  with a common identifier are linked, and so are two of which one has none (`TwoAreLinked`):
  that is what comparing the identities of the groups, and not of the two papers, is for. A merged
  item has the identities and links of all its members (`MergeKeeps`), so an explicit link
  survives any merge, and it has the key of one of them. `Placed` says that the developments
  opened so far are compact and what the first item of each was refused by. The weight of a value
  never falls by one more source (`MoreWeighsMore`): a better role leads, a source of the same role
  is counted second, any other third. The order of the weights is lexicographic for any length
  (`AboveTransitive`, `AboveTotal`). What is assumed of the input is in `GroupsInit`: the items
  of a list have different keys, a day is a number with 0 for none, a signal has finitely many
  events, and no event is called like the absence of one.
- `EditionProofs`, of `EditionSelection`: `SelectionTriageIsFair` and
  `SelectionGoodDayIsPublished`, for any candidates, topics, families, limits and budgets.
  Triage only adds to its queue (`Grows`), so a candidate that was tried and has no place has
  met a cap or the limit, and still meets it at the end (`Tried`, `TriedStays`). The topics come
  first, when the queue is shorter than every cap (`ShortIsOpen`), so each gets its candidate:
  this needs `TriageAssumption`, that there are no more topics than the smallest cap lets in (three
  topics, and caps of 6, 12 and 24). Core near matches are all tried before an adjacent
  one. Of the day: the featured papers are as many as there are places or papers
  (`FeaturedFacts`), whatever the topics; the first `Len(featured) + 2` of the morning are those
  papers and one story of each kind (`AdmitsAll`, `MorningFacts`), and the rest either fill the
  morning or leave out nothing. `SelectionAssumption` says that the papers and the two stories fit
  the entries of an edition (3 + 2 of 8). `DayInv` carries through the stages that ids are unique
  and sections tell papers from news, on which the order of the ranking depends (`BetterOrders`).
- `EditionProofs`, of `EditionStore`: `StoreTypeCorrect`, `StoreNormalizedItemsRemain`, `StoreRetentionKeepsUp`,
  `StoreFeedbackIsKept`, `StoreLatestOnlyAdvances`. That a resumable run finds its items rests on
  two facts that are in no line of code together: a row is created before its run retrieves an
  item (`Precedes`), and items are kept at least as long as rows (`RunKeep <= CandidateKeep`; both
  are 90 days). `Stands` says that the expiry a run gave an item stays until another run writes
  the item or retention removes it. The exception in `NormalizedItemsRemain` is needed: an old
  run that is resumed and normalises late gives an item the earlier expiry of its own retrieval.
- `ReaderProofs`, of `Preferences`: `RunsUseOneSnapshot`, for any reader, tabs, runs and retention
  period. `EventOutlivesRow` says that the event an execution can find is not older than its row,
  so that retention, which removes both at the same age, never takes it from a run that goes on;
  `UsedIsStored` that what the executions of a run used is what that event holds. With events
  kept a day less than rows the first is lost, and TLC finds two snapshots in one run.
  `PagesShowTheStore`, for any tabs: `PagesInv` follows a request from the statement that read the
  row to the page, and a change of any tab in between ends what it claims; what the reader types
  (`Edit`) is told from what was shown, and only the weights typed since may differ.
  `PreferencesTypeCorrect`, and `RecordedWeightsAreUsed`, for any weights and any feedback before:
  the SQL of `recordFeedback` adds up the adjustments and rounds once, `getPreferences` rounds
  after every adjustment. Every adjustment is a whole tenth, so that either rounding commutes with
  it, and the two roundings (`SqlRounded`, `Rounded`) differ only below zero and on a half, by a
  tenth: nothing is assumed of the weights a reader types.
- `ReaderProofs`, of `ArchivePages`: `ListingsAreWhole`, for any dates, items, compositions and
  page size. `ReadingInv` says that what is due and not yet seen lies behind the cursor: an
  edition that appears moves entries only towards the end of the archive, so an offset may repeat
  an entry and never skips one, and a date neither. Rewriting an item of the listing, which may take
  it out of a search, counts as a loss like replacing an edition (`losses`).

Assumptions are the `ASSUME`s of the modules: finite sets of calls, callers, dates and answers,
natural numbers for bounds, a positive concurrency limit, items kept no shorter than rows, and
those named above. TLC evaluates them in every run.

Several of the operators recur over lists. The library's induction theorems take an operator as a
parameter, which the provers as installed cannot instantiate; the proofs take the least
number for which a claim fails (lemma `Least`, from the well-foundedness of the naturals) and
refute it. What is still only model-checked, and why:

- Liveness (`InstanceEnds`, `CalmRunsAreSettled`, `RequestsEnd`, `EveryLaneSettles`): fairness and
  `ENABLED` are out of reach of the proof system as installed, as are `RECURSIVE` operators.

## 6. Not modelled

- Text: parsing in the adapters, prompts, validation of summaries, similarity of titles and
  relevance from words. No state, and their correctness is about strings.
- The URL policy, token verification, request validation and rendering.
- The local development launcher and the unused draft interface.
- The pages that only show one run or one edition; on the page of saved items the refresh when an
  item is saved or unsaved.
- The model cost and the failure code in the run row; the quality report of an edition.
- Weights as binary fractions: they are hundredths here, so that a half is a half, where in binary
  some halves of a tenth lie a trifle beside it and round either way.
- An expiry that a candidate brings along (`metadata.expiresAt`, `normalize.ts:313`), which nothing
  that collects sets; the guard on summaries when items are pruned (`d1-repository.ts:2489`), which
  `persistEdition` makes follow from that on entries.
- In `ResearchStages` a work has at most one other record joined into it, the cap of 10 000 on
  counts and references is out of reach, and which candidates a full pool leaves out is given by
  the collection.
- Timestamps other than the pace of requests, the month of a charge, the days of retention,
  windows and clusters.

The Workflows engine, D1 and timers are external and modelled from how the code uses them: a D1
statement or batch is atomic and may fail with or without effect, `step.do` retries and
remembers, an instance is replayed after an eviction, a timer never fires early.

## 7. Plan

1. The repair round of summaries, and the schedule window across a change of daylight-saving
   time.
