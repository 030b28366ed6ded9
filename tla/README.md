# A verification of product-data-verifier

TLA+ specifications of the stateful and concurrent parts of product-data-verifier, the
TLC configurations that model-check them on small instances, and TLAPS proofs of what
matters most for every value of the constants. Every definition is translated from the
code under `src/`; where a doc or a comment says something else, the difference is a
finding (section 7).

1. [The system](#1-the-system)
2. [The modules](#2-the-modules)
3. [The runs](#3-the-runs)
4. [Bounds](#4-bounds)
5. [Fairness](#5-fairness)
6. [The proofs](#6-the-proofs)
7. [Findings](#7-findings)
8. [Not modelled](#8-not-modelled)

## 1. The system

A Telegram user names a product; the bot queues a job; a worker thread verifies the
product: it looks for sources with several search providers, fetches pages, extracts
attributes, searches again for what is missing, and confirms a value only on evidence
strong enough. A regression scheduler runs the same verification for a dataset, one
process per product.

| Part | Code | State it keeps | Operations | Hard behaviour |
|---|---|---|---|---|
| Job manager | `bot/jobs.py` | jobs and their states, four registries, the semaphore, asyncio tasks, the last success and a bounded history per chat | `submit`, `_run`, `_finalize`, `cancel_chat_jobs`, `shutdown` | tasks cancelled at any await; threads that cannot be killed; a shutdown that times out |
| Provider health store | `core/provider_health.py` | a JSON file of circuit breakers, a lock file | `is_open`, `record_success`, `record_failure` | many processes; stale locks stolen; processes killed with the lock; disk errors |
| Verifier service | `services/product_verifier.py`, `services/cache.py` | SQLite rows | `verify` | threads between lookup, workflow and save; a faulty repository; releases with another schema; clock steps |
| Workflow and budget | `core/workflow.py`, `core/budget.py` | the fetch queue, the per-run fetch cache, the sources, the time left, the stage that ran out | discover, fetch, extract, targeted search, authority roles, validate | the queue grows while it is walked; redirects and mirrors; the budget ends anywhere |
| Targeted search | `core/targeted_search.py` | executed queries, inspected candidates, five streaks, coverage, a second cache | plan, query, fetch, extract, account | twelve stop reasons that exclude or hide each other |
| Search session | `core/discovery.py` (`ResilientSearchSession`) | a local breaker per provider, shared breakers, time spent per provider | `search_with_status` | time shares, retries, half-open probes, one budget for everything |
| Evidence decisions | `core/workflow.py`, `core/targeted_search.py`, `core/authority.py`, `core/validation.py` | none | which candidates to fetch, what a page proves, which value is confirmed | claims of a candidate and of a page replace one another |
| Regression scheduler | `regression/runner.py` | pending and running products, worker processes and their queues, the artifact | `run`, `run_products`, resume | hard timeouts racing results; killed workers; interrupted and resumed runs |
| Fetch transport | `core/fetch.py` | the host's shared breaker | `fetch_source`, `fetch_candidate` | a retry, two uses of a browser and a file lock under one deadline; threads that share a host |
| Official sites | `core/discovery.py` (`DirectDomainProbeProvider`) | a count of requests, a stop event, the records of one product | `_discover`: resolve roots, probe, widen, ask DNS, verify | threads that outlive their window and their call; three nested deadlines |
| Discovery | `core/discovery.py` (`discover_identity_with_status`, `discover_identity_query_with_status`), `core/match.py`, `core/sku.py` | the process-wide cache of official domains | plan, queries, official domains, follow-up loops, ranking, gate, trace | three loops under one budget; an early stop; a cache that every thread's runs fill and read |
| Browsers of a thread | `core/discovery.py` (`_SharedPlaywrightHandle`, `GoogleSearchSession`, `BrowserOfficialDiscoveryProvider`), `core/workflow.py` | a driver with a count of holders per thread, Google's profile directory | launch, visit, release, leave a session | two providers share what a third use needs free; launches that break half-way |
| `/discover` and its facts | `services/discovery_debug.py`, `services/raw_extraction.py`, `core/page_inspection.py`, `official_documents.py`, `document_identity.py`, `raw_extraction.py`, `normalization.py`, `canonical_mapping.py` | caches of one call, the stored result | load, assemble, read, query, second pass; extract, normalise, map | links inherit an identity, a PDF's text takes it back; a second pass over the first one's caches; connections that drop |
| Bot conversation | `bot/handlers.py`, `telegram_bot.py` | a pending query per chat, keyboards on the screen | message and command handlers, taps, the outcome of a job | old keyboards; handlers and callbacks interleave at awaits; sends that fail; a bot that stops |
| Extraction for a verification | `core/extract.py`, `official_*.py`, `normalize.py`, `mapping.py`, `schema.py` | none | HTML, PDF, units, synonyms | |
| Identity and category | `core/identity.py`, `category.py` | none | pure decisions over text | |
| Gaps, quality, profile | `core/gaps.py`, `quality.py`, `profile.py`, `export.py` | none | reports over the validated facts | |
| Rendering | `bot/formatters.py`, `i18n.py`, `localize.py`, `attribute_filter.py`, `export.py`, `discovery_formatters.py` | none | text | |
| Support | `observability.py`, `config.py`, `healthcheck.py`, `app.py`, `diagnostics/`, `adapters/` (empty placeholders) | counters under one lock | | |

**How they interact.** A product message leaves a pending query and a keyboard; a tap on a
keyboard turns the query into a job: the handler calls `JobManager.submit` and gets the
outcome by an awaited callback. `_run` calls `ProductVerifierService.verify` with `asyncio.to_thread`,
so several verifications run at once in one process and share the SQLite cache. A
verification that is no hit runs the workflow, in its thread, under one
`WallClockBudget`; the workflow drives one `ResilientSearchSession`, which shares the
health store with every other process, and gives `fetch_once` to the targeted search as
its fetcher, so that both stages share one fetch cache. The regression scheduler starts a
process per product; killing one of them is how a health-store lock becomes stale. The
workflow fetches with `fetch_candidate`, which keeps one breaker per host in the same health
store; the probe of official sites is one of the session's providers. Google's and the official
sites' browsers share one Playwright driver per thread, which has to be gone before the
workflow fetches, because `core/fetch.py` starts one of its own. `/discover` is a second way
into discovery: it keeps what it finds in the chat's data, of which the services' extraction,
normalisation and mapping make facts.

**What makes each part correct**, and would hardly be found by a test:

* *Job manager*: no slot or wake-up is lost however tasks are cancelled; never more
  `verify()` calls than slots, cancelled ones included; one live job per request; an
  outcome is reported once; `/cancel` and shutdown end although threads may not.
* *Health store*: whatever is slow, killed or fails, no entry from which a provider cannot
  recover, no provider skipped without a recent failure, and no operation that hangs. Updates
  may get lost, and are.
* *Service*: a cached answer is sound and fresh whoever writes concurrently.
* *Workflow*: no document is requested twice; a shortened result says where it was
  shortened; a page that stopped being the product confirms nothing of what the initial
  stage read (the targeted search breaks this for its own facts, section 7).
* *Targeted search*: ends with a true reason; every planned field is visited or a global
  reason explains why not.
* *Search session*: no provider takes more than its share of the budget, none is probed
  for ever, and the budget is overrun by less than an attempt.
* *Fetch transport*: everything a fetch does keeps its timeout together; a host's breaker
  hears of the last answer only.
* *Official sites*: the requests for one product and the time of a call stay bounded whatever
  the threads do; a site is only given up for an exact page found elsewhere.
* *Discovery*: only evidence seen for this brand makes a site official; nothing is asked after
  the budget is gone; a variant's page is never the exact product; no result gets lost.
* *Browsers*: whoever searched leaves the thread without a driver and the profile directory to
  the others, however the launches ended.
* *Facts*: a PDF is exact only if its own text says so; values of two variants and the blocks of
  two components stay apart, and so does a neighbour's value unless it is read out of JSON decoded
  apart from the object that names the neighbour (section 7); the second pass loses nothing of
  the first.
* *Conversation*: one verification per message; of a cancelled job nothing but, at most, that it
  failed (section 7); an outcome for every other job; and no update waits for ever.
* *Scheduler*: every selected product gets exactly one honest record; successes survive
  resumes; a hung worker cannot stop the run.

## 2. The modules

| Module | Models | Extends / instantiates |
|---|---|---|
| `JobContract` | abstract: what callers of the job manager may rely on | |
| `JobManager` | `bot/jobs.py` | |
| `JobProperties` | its properties; `ImplementsContract` is the refinement of `JobContract` | `JobManager`; `JobContract` |
| `Conversation` | the handlers of the bot and their properties | `JobProperties` |
| `JobManagerProofs` | theorems of both; the inductive invariant is the end of `JobProperties` | `Conversation` |
| `BreakerEntry` | one breaker entry and the state changes of `provider_health.py` on it | |
| `Breaker` | external view: an atomic table of breakers in time | `BreakerEntry` |
| `HealthStore` | the JSON file and the lock file, one action per system call | `BreakerEntry` |
| `HealthProperties`, `BreakerProofs`, `HealthProofs` | properties and theorems of the store | `HealthStore` |
| `VerifierService`, `VerifierProperties` | `verify()` over the cache | |
| `SearchSession`, `SearchProperties`, `SearchProofs` | the provider chain of one request | `BreakerEntry`; `Breaker` as the shared store |
| `RegressionRunner`, `RunnerProperties`, `RunnerProofs` | the scheduler | |
| `SourceEvidence` | the pure decisions about candidates, pages and values | |
| `ProductWorkflow`, `WorkflowProperties` | one verification with its targeted search | `SourceEvidence` |
| `VerifierProofs` | theorems of a verification and of the cached answers | `WorkflowProperties`, `VerifierProperties` |
| `FetchTransport`, `FetchProperties`, `FetchProofs` | `core/fetch.py` | `BreakerEntry`; `Breaker` as the hosts' shared store |
| `OfficialProbe` | the search on the manufacturer's own sites | |
| `BrowserSessions` | the browsers of a thread and their properties, composed with the fetches of the same thread | `FetchProperties` |
| `ModelMatching` | `match.py`, `sku.py` | |
| `CandidateRanking` | official domains, classification, score, gate, merge and trace of candidates | `ModelMatching` |
| `Discovery` | a discovery run, the shared cache, and their properties | `CandidateRanking` |
| `DiscoveryProofs` | theorems of the official sites' search and of discovery | `OfficialProbe`, `Discovery` |
| `PageInspection` | how a page keeps its specifications, how it is fetched | |
| `OfficialDocuments` | the documents a page links to, and what their text proves | |
| `RawExtraction` | the readers of a page's and a document's pairs | `PageInspection` |
| `Normalization` | pairs to attributes | `RawExtraction`, `OfficialDocuments` |
| `CanonicalMapping` | attributes to fields | `Normalization` |
| `FactsPipeline`, `SearchProofs` | `/discover` and the stages after it, and their properties | `CanonicalMapping` |
| `MCJobs`, `MCBot`, `MCSearch`, `MCFetch`, `MCProbe`, `MCWorkflow`, `MCDiscovery`, `MCFacts` | instances for TLC | |

`SearchSession` and `FetchTransport` use `Breaker` (its actions `Look`, `RecordSuccess`,
`RecordFailure` and `Elapse`) for the shared circuits, the former with another process that
uses it, too. `Breaker` is exact for the store kept in memory by one thread; the file of
`HealthStore` may lose an update, or let a provider in that another process has just seen fail, so
it is no refinement of `Breaker` and none is claimed. What is shown of the two clients is
shown over a shared table whose operations are atomic: of the store they take one answer (skip or
not) at a time and give one result, and their time shares and deadlines hold for either answer.
`JobManager` implements `JobContract`, what its callers may rely on; `Conversation` composes the
handlers with `JobManager` itself, because `/cancel` suspends in the middle of the manager's
registries. `BrowserSessions` composes with `FetchTransport` by the thread: what a
search leaves there decides whether a fetch can render. `PROJECT.json` ("map") gives the source lines of
every definition.

### 2.1 JobManager

An asyncio coroutine keeps the event loop from one `await` to the next, so an action is
the whole stretch of code between two awaits. `pc[j]` is where the task of job `j` is
suspended: `created` (never scheduled yet), `waiting` and `granted` (in
`semaphore.acquire()`), `starting`, `verifying` (in `to_thread`), `finalizing` (delivering
the outcome). `thread[j]` is the worker thread: it outlives its task. `Task.cancel()`
sets `mustCancel[j]`, delivered at the task's next step. The semaphore is CPython 3.13's,
with the queue of waiters kept as `ahead[j]`, the set of jobs queued before `j`.

`SubmitNew` and `SubmitDuplicate` are `submit()`; `TaskStep(j)` collects what a task may do at its next turn: wait,
start, see `cancel_requested`, finish with a result or an exception, be cancelled at each
await, report; `ThreadEnds` is the end of `verify()`; `CancelChatJobs` and `CancelResumes` are
`cancel_chat_jobs`, which looks at its snapshot of the chat's jobs one by one and awaits each
task it cancels; `ShutdownBegins` and `ShutdownStep` (the wait
expires, the jobs are finalized, it returns) are `shutdown`. The
guard `cancel_requested` at `jobs.py:279` is never true in the model either: whoever flags a
queued job also cancels its task.

### 2.2 HealthStore

An action is one system call on the health file or the lock file plus the computation that
follows. `_FileLock.__enter__` is `CreateLock`, `MeetLock`, `WaitForLock`, `FindStaleLock`,
`RemoveStaleLock` and `GiveUp`, which goes on at the timeout *without* the lock; then `Load`, `Save` (temporary file and
`os.replace`, which is atomic) and `Unlock`, which removes whatever lock file is there. A process may stop between any two of these
for as long as it likes, be killed (`MaxCrashes`), and reads and writes may fail (`DiskErrors`).
`failedAgo` is a history variable: how long ago a failure was recorded. Time is counted in
ticks; ages saturate at the longest cooldown.

### 2.3 VerifierService

Each thread is in `verify()` at `checking`, `looking` (the repository read), `judging` (the
clock read), `running` (the workflow), `stamping`, `saving`. An entry remembers when it was
stamped in real time (history, for the properties); `storedAt` is what the wall clock said. A restart may deploy another schema version; the rows stay.

### 2.4 SearchSession

`Query` starts a query; `HalfOpen`, `LocalCircuitOpen`, `SharedCircuitOpen`, `Capped` and
`StartCall` are one iteration of the `for` loop up to the provider's call; `Tick` passes
time during a call; `UsefulResult`, `LowValueResult`, `EmptyResult`, `LateResult`,
`CallFails` and `RetryCall` (after a connection error) end it. `OtherProcess` is anybody else
who uses the shared store. `spent` is `_provider_elapsed`; `used` is the time the calls really
took, kept only for the properties.

### 2.5 RegressionRunner

`pc` is the scheduler's loop: `starting` (fill free slots), `reading` (a `get_nowait` per
worker), `checking` (hard timeouts and exit codes). Workers put a result, have it delivered
some time later, exit, hang, or are killed, at any moment between. `artifact` is the file;
`RunBegins` is `run()` with or without `--resume` and `--retry-failed`, and `Interrupt` leaves
the artifact as the last `save()` wrote it. `worker` is the process the scheduler looks after, not
every process there is: one that does not die within the two seconds of `join` after `terminate`,
or that a killed scheduler leaves behind (the workers are no daemons), lives on outside the model.
Nobody reads its queue, so the records do not depend on it; that the processes alive are never
more than the slots is therefore neither true nor claimed.

### 2.6 SourceEvidence and ProductWorkflow

A *claim* is the four fields a candidate or a source asserts of itself: type, authority,
identity relation, model relevance. A *view* is a `FetchedSource`: what it `says` are its own
fields, `meta` its `discovery_metadata`, `rejected` its `official_rejection_reason`. Keeping both is
essential: validation reads `discovery_metadata`, the fetch decisions read the fields, and
the two may disagree. The text of a page is reduced to what the decisions ask: whether it
names the model, what it links to, which role it claims, which facts are on it.

`step` in `ProductWorkflow` follows the code: `discovery`; the loop over the growing queue
(`queue`, `fetch`, `extract`); `plan`; the targeted search's three nested loops (`query`,
`queryDiscovery`, `candidate`, `candidateFetch`, `candidateExtract`, `account`); `resolve`;
`done`. `TimePasses` may happen between any two steps, so that a check of the budget and the
work it allows see different times; a refused check records the first stage cut off
(`MarkExhausted`). The selection of candidates is stated by what the loops leave, not by how
they go: a pass takes each candidate in the ranking for which those taken before it leave room
(`FirstPass`, `SecondPass`), and there is one such set; likewise `InOrder` is the one list of
some places of a sequence, for the links that are appended to the queue and the fields that
are planned.

### 2.7 FetchTransport

`pc[t]` is what a thread waits for in `fetch_candidate`: `asking` (the store), `requesting`
(the GET), `backing_off`, `rendering` (the browser of `_fetch_source_impl`), `recording` (the
store again), `retrying` (the browser for a verified first-party page). `call[t]` says how long
the wait may last and has lasted; a request or a rendering may exceed its limit by `Overrun`,
since `requests` limits the wait for each byte and Playwright each step. `clock[t]` runs from
`fetch_candidate`, and `began[t]` is where `fetch_source` started its own. A page is the
numbers `_html_content_complete` counts, and `ContentComplete` is that function. `heard` is
history: what the last answer was a failure of.

### 2.8 OfficialProbe

One call of `_discover` goes through the phases `primary`, `family` (sibling sites that
official pages link to) and `regional` (roots that exist in DNS), each with the stages
`resolving` and `probing`, then `verifying`. A thread belongs to a root and resolves it,
probes it or verifies its page; when its window is over or its call has raised, it goes on, with
the shared count, the stop event and the deadline it was given. `Get` is `_get` up to the
request, `Refused` its five reasons not to ask. A probe's surfaces are a sequence of request
limits (`Surfaces`: robots.txt and sitemaps, site search, routes and crawl), since the
URLs they try do not matter to the properties; a surface may always have fewer, and one that
has found an exact page may go on to its limit (`MayAsk`), as the routes of a sitemap do. Reductions:
a root has at most one exact page, the model is always known (without one nothing is probed),
and a product's next call after one that raised begins when the brand's own roots have no
thread left of the first, so that one slot per root and kind suffices; threads of the other
roots may still run.

### 2.9 ModelMatching, CandidateRanking, Discovery

`ModelMatching` is the vocabulary of `match.py` and `sku.py` over words instead of characters: a
title is a sequence of groups of words, an address a sequence of segments; what a decision asks
of a word's spelling (an identifier, a number, the model plus a tail, the words it is written of) is
a constant. A model is a sequence of words, too: `LongerModel`, `OtherNumber` and `LongerNumber` are
the three ways in which `path_names_variant` finds another model in an address, `NearIdentifier` the
comparison of each identifier by itself.
`CandidateRanking` is what discovery makes of results: which domains are official
(`OfficialDomains`: claims corroborated by product pages, proofs by pages of the brand's own
root), `ClassifySource`, `ScoreCandidate`, the relevance gate, the merge of results of one page,
and the trace that says what became of each result.

`Discovery` is the run. `Start` makes the plan from what the cache holds at that moment, `Ask`
asks its next query, `Settle` computes the official domains and writes the cache,
`FollowDomain` and `NextLoop` are the loops over official domains (`site:` queries, then the
rest of the domain), `Rank` ranks and gates. A run is *broad*, *early* (ended by the first
official exact page) or one *field*'s query of the targeted search; runs of several threads
interleave between any two queries. The searcher is the environment: `Answers` gives for each
form of query what it may say. `shown` is history.

### 2.10 From pages to fields

The five operator modules follow the stages of the code, `FactsPipeline` runs them. A page is
a tree of nodes in document order and a list of scripts; a text is a name, and a constant says
what the code tests of it (`Text`, `Spelling`, `Naming`, `Reading`), so that the control over
texts is modelled and their regular expressions are not. `PageInspection` finds where the
specifications are; `OfficialDocuments` types links, judges their model and takes the judgement
back when the text of the PDF says otherwise; `RawExtraction` is the readers in their order
(tables, lists, JSON-LD, the state of scripts as a whole or by its anchors, JSON of `data-*`
attributes) with neighbour scoping, caps, duplicates and node budget; `Normalization` classifies and
clusters; `CanonicalMapping` scores concepts, applies caps and margin, splits axes, derives
hosted values and sets a second component's block aside.

`FactsPipeline`: `Load` is one page of the pool (its URL variants inside), `Assemble` one pass of
merging, reading and verifying documents, `QueryDocuments` a document query of the search session,
`NextPass` the second pass over the same caches, `Attempt` one of three tries to fetch a source
for extraction, `FinishExtraction` normalisation and mapping. `failed` is a call that raised. The
order in which documents are merged is that of the places they come from (`Ahead`): candidates,
product pages by their match, other pages, results of the queries; of one file the first that is
exact stays, or else the first. Clusters are what the code's union-find ends with: record by
record, the clusters it is linked with become one with it. Matching blocks are those of
`SequenceMatcher`: the queue of windows of its `get_matching_blocks`. The lists that the code
builds in loops (`Numbers`, `Concat`) are recursive functions, so that the proofs can unfold them.

### 2.11 Conversation

`handler` is the update that is being handled: python-telegram-bot takes the next one when it is
done. `AskProduct`, `TapLanguage`, `Cancel`, `Discover` and `Answer` begin one, `PromptSent`,
`KeyboardRemoved`, `CancelAnswered`, `DiscoverEnds` and `ReplySent` end it; between, the tasks of
jobs run. `Deliver` is `on_update`, part after part; a part may fail to be sent, and none is sent
after the application is down (`Reachable`). The actions of `JobManager` are used unchanged:
`Quietly` are those that say nothing. Parsing, wording and `/status`, `/export`, `/help` (answers that
change nothing) are one action.

### 2.12 BrowserSessions

`driver[t]` counts the holders of the thread's Playwright driver, `google[t]` and `renderer[t]`
are the two sessions: `open`, `stuck` (a handle and no page), `orphan` (a Chromium whose handle is
forgotten). `AskGoogle` launches, or fails because the profile directory is in use;
`AskOfficial`, `Visit` and `SitesVisited` are the visits of `BrowserOfficialDiscoveryProvider`, with
its count of pages and its end at a challenge; `Release` is the workflow's release before
fetching, `LeaveSession` the `__exit__` of `/discover`'s session, which knows only what Google's
provider offers. `FetchStep` is `FetchTransport` with one difference: a rendering fails where a
driver is left. `left` is history: the threads in which a launch broke or `/discover` left a
browser since the driver was last gone.

## 3. The runs

| Run | Spec | Checks | Distinct states |
|---|---|---|---|
| `Jobs` | `Spec` | the registries, the semaphore, the outcomes and the contract, for every interleaving of two requests for one product, one for another, `/cancel` and shutdown, on one slot | 300 k |
| `Bot` | `FairConversation` | one start per message, silent cancellations, outcomes that arrive, photo buttons that work, updates and shutdown that end | 189 k |
| `HealthFaulty` | `FairSpec` | justified skips and termination with slowness, a kill, disk errors | 238 k |
| `Runner` | `FairSpec` | complete and honest records, successes kept over two runs, termination | 628 k |
| `Search` | `Spec` | time shares, bounded reopens | 4.1 M |
| `Probe` | `Spec` | bounded requests, justified cuts | 2.5 M |
| `Fetch` | `SessionSpec` | drivers and profile returned after searches; the deadline of a fetch, what breakers are told | 1.7 M |
| `Workflow` | `MCSpec` | documents requested once, exact exhaustion, honest stop reasons, withdrawn identities; sound hits of two threads with a faulty repository, two releases, clock steps, a restart | 921 k |
| `WorkflowWithdrawn` | `MCSpec` | violation: finding 2 | |
| `Discovery` | `Spec` | earned authority over the shared cache, the budget over three loops, every result accounted for, variants never exact | 88 k |
| `Facts` | `Spec` | exact PDFs, the second pass, neighbours, clusters and component blocks kept apart | 8 k |
| `FactsNeighbours` | `Spec` | violation: finding 1 | |

Deadlock is checked except in `Runner`, `Discovery` and `Facts`, where a bounded number of
invocations is used up or the pipeline is at its end. Systems that really end have an explicit
final step (`Finished` in the workflow, `Stopped` in the job manager).

Every property of a passing run has a mutant: a plausible bug in one mapped definition (a
forgotten reset, a dropped guard, a swapped order) under which TLC finds the property
violated. The mutants stand in the modules, in front of the definitions they vary. Properties
that are proved for all values of the constants (section 6) and that no longer found anything in
a run of their own are left to the proofs.

## 4. Bounds

* `Jobs`: three job ids. Two for one request exercise duplicates and the reuse of an
  identity after its job ended; the third competes for the only slot. One slot is the hard
  case for the semaphore: every cancellation meets a waiter. `HistoryLimit` 1 makes eviction
  happen. The proofs cover every number of jobs, chats, callers and slots. `j1` and `j2` are
  symmetric (same request).
* `Bot`: one chat (chats do not interact but for the slots), two products with a job each, on
  one slot; three messages and two keyboards, so that a query is replaced, a keyboard outlives
  its query, and both jobs run, wait, fail and are cancelled around one another. No symmetry,
  because of liveness.
* `HealthFaulty`: two processes and one key suffice for every race over a lock (owner and
  thief); thresholds of 1 open the breaker at the first failure, so that open, half-open and
  closed are all within reach.
* `Search`: two providers, one with a quality gate and shared with another process, one
  that short-circuits and counts empty results; budget 7, share 2, provider timeout 2,
  overrun 1: all reasons not to call a provider (open, no share left, budget spent) occur.
* `Probe`: two roots of the brand, one redirecting to the other, one sibling site and one
  regional root: every phase, and a root reached twice. Five requests, three per domain, three
  for the widening: each of the limits is met first in some behaviour. A timeout of 4 with
  3 for the primary phase, windows of 1 and 2 and requests of up to 2 + 1 let every wait end by
  itself, by its window or by the deadline, and threads survive all of them.
* `Fetch`: two threads and one host (hosts do not interact); one of them serves verifications and
  `/discover` with browsers, the other only fetches (`Pool`): drivers belong to a thread, and what
  the profile directory does when another thread has it is `GoogleLaunchFails`, which may happen
  at any launch. Timeout 3, one tick of back-off, minima and overrun: a retry, a rendering and a
  second rendering each fit or just do not; the wait for the store, which the proof covers, is 0.
  Seven pages stand for the outcomes of the completeness test, four for those of an official
  site; two roots and two pages end a visit by either limit; two holders are Google's and the
  official sites' (`MaxHolders`: a broken launch adds another).
* `Runner`: three products on two slots; two invocations, for every way to resume, and a
  smaller selection.
* `Workflow`: three fields (one differs between variants), five URLs: a manufacturer's page
  that may redirect to its landing page, a mirror URL of it, a specification page it links
  to, a reference site. `Total` 6 with minima 3, 2, 1, 1 keeps the order of the code's
  minima (1 s, 0.25 s, 0.1 s, 0.05 s) and lets the budget end at every stage. Streak limits
  1 to 3 make each of the twelve stop reasons happen. A behaviour of the run is either one of a
  verification or one of the service (`part`): `verify` waits for the workflow and knows only its
  result. For the service: two threads, one key (rows of different keys do not interact); `TTL` 1
  and `MaxTime` 2 contain fresh, just fresh and expired rows; one clock step, one restart; the
  proof covers every number of threads.
* `Discovery`: two brands, two threads, two runs (of one brand or of both, of any kind); nine
  pages: a homepage, product pages, a document host, a shop and a marketplace whose names
  resemble the brand, a variant, a blocked host; an identifier with a tail and one that is
  another's near miss; a product whose model is one word, and one whose model is four with a
  hyphenated identifier. `VariantPageNeverExact` also ranges over 121 addresses of two
  segments, each one of eleven (the models, their spellings joined and split, variants, near misses,
  other numbers in the place of the model's, the brand written on to the model, a modifier), with
  every title.
* `Facts`: five worlds, each a page or two with their PDFs: two locales of one page with repeated
  measurements and variants; a comparison with a neighbouring model in tables, JSON-LD,
  state and a `data-*` attribute; the same with the state read by its anchors, as maps and as
  pairs; the same in a `data-*` attribute named like a specification; a probable page without a
  manual, hence document queries. Two products, one scan, three sources, two tries and two queries are
  `MaxProducts`, `MaxScans`, `MaxSources`, `MaxTries` and `MaxQueries` for the code's 6, 3, 8, 3 and 3;
  every load, read, query and attempt may fail. `PairCap`, `NodeBudget` and `TechWindow` are small
  stand-ins for 2,500, 80,000 and 45.

`MaxTime`, `MaxRestarts`, `MaxClockSteps`, `MaxCrashes`, `MaxRuns`, `MaxCalls`, `MaxMessages`,
`MaxKeyboards`, `MaxHolders`, `Pool`, `Jobs` and `Total` are the bounds that stand for nothing (or for a number
too large) in the code; each is named in the module that has it.

## 5. Fairness

* `Conversation.FairConversation`: weak fairness of every job's step, of the handler's and of
  the shutdown's. The asyncio loop runs every ready callback, HTTP calls to Telegram time out,
  and `/discover` has a wall-clock budget; nothing is assumed of users or of threads. `OutcomeSent`
  names its assumption that threads end (`ThreadsEnd`: the wall-clock budget of `verify()`);
  `UpdatesServed` and `BotStopsInTime` need no such assumption.
* `HealthStore.FairSpec`: weak fairness of time and of each process's steps: the operating
  system schedules processes; a killed process takes no step.
* `RegressionRunner.FairSpec`: weak fairness of the scheduler's loop and of time, none of the
  workers: they may hang for ever.

The other runs check safety only and assume no fairness.

## 6. The proofs

Eight proof modules, no assumption but the named ones on the constants, and no theorem of a
specification has a hypothesis. An inductive
invariant is needed because no property is inductive by itself: that one slot is never given
twice, for example, depends on where each task is suspended.

* **JobManagerProofs** (`Invariance`): conjuncts of `Inv` at the end of `JobProperties`: what each `pc`
  implies of the job's state, registries and thread (`PcInv`); who may have flagged a job
  (`CancelInv`); what a waiting canceller holds (`CallerInv`); a running thread belongs to a task
  that holds a slot (`ThreadInv`); the identity registry (`LiveInv`); the phases of shutdown
  (`ShutdownInv`); the outcomes reported (`OutcomeInv`). From it: `TypeCorrect`,
  `Concurrency`, `SlotConservation`, `WakeupsNotLost`, `Deduplication`, `SingleFinalization`,
  `CancelledNeverCompletes` and `Implementation` (every step is a step of `JobContract` or a
  stutter). `RetentionInv` (each history names its own jobs, each once, all over; what left
  `_jobs` left it because that history was full) gives `NothingLeaks`; that a job which is over
  never changes before shutdown runs out of time (`SettledStays`) gives `ExportServesSuccess`.
  Of the handlers, `BotImplementsJobManager`: every step of the bot is a step of
  `JobManager` or a stutter, so each of these theorems holds of the bot, too. On it rest
  `CancelledStaySilent` (`SilenceInv`: an outcome is begun once, by a job not cancelled or one
  that broke, and nobody can cancel it later) and `OffersHonoured` (with `RetentionInv`);
  `OneStart` counts the queries that wait and those that were taken against the messages.
* **BreakerProofs** (lemmas on one entry) and **HealthProofs**: `Coherence` and
  `SkipJustified` with all faults: whoever writes, writes entries derived by the breaker's
  operations from coherent ones. That the lock excludes and that no update is lost is not
  claimed: a lock may be given up or stolen, and then neither holds.
* **VerifierProofs**, the workflow: `FetchesOnce`, `ExhaustionExact`, `StopsHonest`,
  `WorkflowTypeCorrect`, `WithdrawnVouches`. The invariant is a chain, each part kept with the help
  of those before it.
  `Remembered`: a document is requested when its result is remembered, not before. `QueueInv`:
  the growing list names distinct documents and the sources are those of the candidates that
  the loop has passed, so that nothing is remembered of a later one while the initial loop runs
  (the list the selection gives is distinct by lemmas on `SelectSourceCandidates`; that the
  links appended to it are, too, needs that they are looked up in `queued`). `ExhaustionInv`:
  while no initial stage is recorded as cut short, every successful source before the iterator is
  extracted, and no stop says that the budget ran out. `SearchInv`: while a field is searched, its
  results are those of its queries so far (`AtField`), the fields before it have ended without
  ending the search, and the later ones have no result; when it ends, the reason given holds,
  and stays true of the fields that ended earlier because no later query adds to their results.
  `WithdrawnVouches` needs to know where each view comes from and who speaks for a fact.
  `SourcesInv`: a source is the view of what its candidate's own URL was answered, withdrawn if
  an official URL led away. `ProfileInv`: what confirms a value was eligible, so a source of its
  page still had an identity, in its metadata and not only in its fields. The facts of the
  targeted search are left out of the property because the code gives some of them the identity
  back (finding 2).
  The service: `SoundHits` and `FreshHits`: the invariant relates the clock to real
  time and to how far it was set back, for the store and for every entry in a thread's hands.
* **DiscoveryProofs**, the official sites: `ProbeTypeCorrect`, `Requests` (each thread that is
  about to ask has counted itself, and those of a phase never exceed what its limit leaves) and
  `CutsJustified` (the stop event a thread looks at is that of its own phase).
  Discovery: `Authority`, `QueriesOnce`, `Accounted`. What is cached as a brand's official
  domain, and what a run believes, was each shown by a searcher in a run of that brand
  (`CacheInv`, `AuthorityInv`); what is asked was planned and not asked before (`AskInv`).
  `Accounted` rests on the merge: each page's first result stands for one candidate, which
  names every place the page was found at; with these lemmas the trace names each candidate
  once.
  `VariantsRejected` needs no invariant but that a run's product is one of `Products`: whatever the
  title says, a longer model, another number or a near identifier in the address decides `Weighed`
  (`OtherNamed`), and the gate rejects every such verdict (`OtherRejected`). It holds for models of
  any number of words. What counts as another model is `NamesAnother`, in the words of the
  decision: an address that spells the model itself, joined or split, names no other.
* **SearchProofs**: `Fairness`, `Overruns`, `BoundedReopens`, `FinalTimeouts`: `ClockInv`
  bounds a call by the limit computed before it, whatever the time is when it retries;
  `CircuitInv` says when an open provider may have a time to reopen. In the same module, the
  documents of `FactsPipeline`: `ExactDocuments` and `SecondPass`. `ReadInv` is the first without
  its guard: documents and texts change together. `PassInv` relates the two passes by what the
  sources give without any query (`SourceKeys`): it is the whole of the first pass and a part of
  the second, for as long as the pages loaded are the same, and merging keeps each file
  (`MergedKeys`: places are well ordered, so that of the spellings of one file there is a first).
  The facts: `ClustersAgree` and `OnePrimaryEach`. What is known when the extraction ends is
  `FactsInv`: the raw pairs are a list, the attributes are `NormalizeAttributes` of it and the
  fields `MapResult` of those. It rests on `ExtractInv`, that the documents are finitely many at
  known addresses and each source was attempted, because the pairs are a list only if every
  source gave one. The rest is about the operators, for any pairs. `ClustersAgreeing`: when a
  record joins clusters, it has the value and the variant of one record of each, hence of all;
  for an aligned pair that is the lemma on matching blocks (a block is a run of equal values,
  `EqualRun`), and that streams of two variants are never compared. `OnePrimary`: an attribute
  has one row at most that is not derived (one reading of it is ahead of all others, `TopFound`,
  since a reading's confidence is bounded, `ConfidenceBound`), the rows that are derived say so, and
  two attributes never begin with the same record (`AttributesEvidence`); so of two rows of one key
  and section the later has an earlier one to repeat, and the component pass moves it on.
* **FetchProofs**: `DeadlinesKept`: the invariant says, for each wait, how much of the timeout
  had passed when it began and how much the wait was given, so that at most one overrun is
  ever past the timeout. `LastAnswerBlamed`: a thread that is about to record a failure was
  answered with one last (`HeardInv`), and no other operation on a coherent entry has a
  failure's effect (`HostsInv`, `NotAFailure`). `DriversReturned` and `ProfilesReturned` of the browsers: a thread's
  driver has exactly one holder for each handle its searches hold, unless the thread is known
  for a handle that broke half-way, and a thread that is not searching holds none
  (`BrowsersInv`). `SessionsImplementFetching`: every step of a thread with browsers is a step
  of `FetchTransport` or leaves it alone, so that `DeadlinesKept` holds there, too.
* **RunnerProofs**: `Completeness`, `ResumeKeepsSuccesses`,
  `HonestRecords`, for any dataset, selection and concurrency.

The type invariants of the job manager, the health store, the service, the session, the
scheduler and the threads of the fetch transport are conjuncts of these inductive invariants
and proved there.

Proved and in no run's list: `ConcurrencyBound`, `FinalizedOnce`, `CancelDiscardsResult`,
`EntriesCoherent`, `HitsAreFresh`, `TimeoutIsFinal`, `OverrunBounded`, `WorkflowTypeOK`, the types
of the official sites' search.

Where a definition picks from data (the ranking of the candidates, the list of those to
fetch, the merges of results and of documents), the proofs need that it exists or that it is one.
The library's induction theorems take an operator as a parameter, which the provers cannot
instantiate; the lemmas argue with a smallest element instead: a number that is the least with
some property (`LeastNumber`, stated where it is used), or a subset with no smaller one of its kind. From the first follow
induction over the numbers of a set (`Upwards`) and that a recursive function exists when its step
is given as a function (`Recursion`); with these two, `Numbers`, `Concat`, `Clusters` and the matching
blocks are unfolded. Ranking and selection are stated declaratively, by the order and the sets
they leave.

The theorems on the facts use two assumptions on the constants, which TLC evaluates on every
world of the runs. `SchemaAssumption`: the schema is a list, every concept has a key and one of
the five kinds of value. `WorldAssumption`: what a page links to and where a source is found
are addresses the model knows, and what the readers find in a page or a document is a list. The
last is about operators of `RawExtraction` and not only about data: the readers fold over pages,
nodes and rows, and that each fold ends with a list was not worth a proof of its own.

Only model-checked:

* all liveness (`OutcomeSent`, `UpdatesServed`, `BotStopsInTime`, `OperationsEnd`,
  `RunTerminates`), which is beyond the prover;
* `NeighbourStaysOut`: what the pages say of a neighbour is kept out by the readers' scopes,
  which are folds over the nodes and lines of a page; what they find is checked for the worlds
  given.

## 7. Findings

1. `core/raw_extraction.py:22`: "Neighbouring SKUs are never mixed in". A script that is no
   parsable JSON is decoded at each specification key (`_anchored_state`, line 714): the node that
   names the other model lies around the decoded value and is not seen, so that the neighbour's
   pairs are emitted as the product's. `FactsNeighbours` shows it. A `data-*` attribute is decoded
   apart in the same way (line 737): one named like a specification is read wherever its
   element stands, whatever names the model around it. `NeighbourStaysOut` says that in the five
   worlds of the run a neighbour's value comes out of nothing else; other pages are not covered.
2. `core/workflow.py:493`: a page that an official URL bounced to "proves nothing about the model
   (and its page lists many products), so its facts must not be accepted as exact-model official
   evidence". `fetch_once` withdraws the page's identity, and the targeted search lays the
   candidate's claim over it again (`core/targeted_search.py:430`); the page's facts then confirm
   a field. `WorkflowWithdrawn` shows it. `WithdrawnVouchesForNothing` says what remains true: of
   what the initial stage read, nothing is confirmed on the word of such a page.

Seen while modelling, modelled as the code has it, and checked by no run of their own:

* `bot/handlers.py:7`: "A cancelled job delivers nothing further." A running job cancelled by
  the user whose `verify()` then raises is reported as failed: `_run`'s `except Exception`
  (`bot/jobs.py:299`) does not look at `cancel_requested`. `CancelSilences` allows exactly this
  message and no other, so it does not show the divergence.
* `core/discovery.py:5126`: the early stop asks for a page whose host is spelled like the
  brand, not for an official domain ("a first-party page naming the exact model", line 5024). A
  look-alike domain ends discovery, and if no domain was proven by then, "none" is cached for
  the brand until the process ends (line 5366).
* `core/normalization.py:786`: "obvious duplicates" are merged over chains of three relations:
  the ends of a chain may be neither of the same label nor of aligned locales.
  `ClusterAgrees` states what remains true: value and variant agree.
* `core/canonical_mapping.py:1204`: a second component is recognised by its second block of one
  section and one reader only; blocks in two sections both remain primary.
* A browser can be left behind in a thread: by a launch that breaks after `acquire` in
  `_PlaywrightRenderer._ensure_page` (`core/discovery.py:3807`) or in Google's `new_page`, and by
  `/discover`, whose session's `__exit__` calls the providers' `__exit__`, which the official sites'
  browser does not have. The fetches of that thread cannot render from then on, although the
  workflow releases browsers "before document fetch begins" (`core/workflow.py:986`).
  `DriverReturned` states what remains true.
* All threads use one profile directory for Google's browser: of two that search at once, the
  second's launch fails.
* The outcomes of jobs that end during shutdown's 30 seconds are delivered to nobody: the HTTP
  client is closed before `post_shutdown` runs; `submit`'s "shutting_down" branch is unreachable
  for the same reason.
* `extract_documents` marks an address as seen before it judges it: a later, better labelled
  link to the same document is not looked at. A document whose link names another identifier
  becomes exact when the search result's relation is exact; documents over the eighth are
  dropped silently; a second pass may lower "probable" to "unverified".
* A connection that drops while a body is read (`core/page_inspection.py:337`,
  `core/document_identity.py:56`, `services/raw_extraction.py:104`) raises through the whole call,
  which ends without the other pages' facts.
* A tap on an old keyboard answers the newest query.
* `core/provider_health.py:118` says that a lock not acquired promptly means "skip this
  update"; no caller looks at what `__enter__` returned, and the update is done without the
  lock (line 301). `HealthFaulty` checks what survives this.
* `services/product_verifier.py:75`: a forced refresh "is still saved for later requests". A
  slower verification that began earlier replaces it (line 848), with a later stamp.
* `core/fetch.py:389`: after a 429 whose retry no longer fits, the fetch ends without a failure
  class, and the host's breaker does not hear of the rate limit.
* `core/discovery.py:3665`: a probe that raises takes its siblings' exact pages with it.

## 8. Not modelled

* **Extraction for a verification** (`extract.py`, `official_atomic.py`, `official_source.py`,
  `official_spec_table.py`, `mapping.py`, `schema.py`, `normalize.py`): parsers of single sites and tables
  of synonyms and units. Their behaviour is in regular expressions and vocabularies; what the
  workflow does with their facts is modelled, what they find on a page is a constant.
* **Result pages** of search engines and the URLs, texts and scores tried on an official site;
  `_probe_named_domain`, a probe of one domain by the rules of the others.
* **`identity.py` and `category.py`**: one look-up each in word lists, at the start of a request.
* **Quality scores, gaps report, final profile**: reports over the validated facts; the decision
  which value is confirmed is in `SourceEvidence`.
* **Rendering, localisation, export, metrics of the regression, diagnostics scripts,
  configuration, logging**: no state, or counters under one lock.
