# A TLA+ model of the WhatsApp sales agent

The repository is a multi-tenant sales agent for WhatsApp: a FastAPI service
onboards tenants and answers their buyers' messages through an LLM, a
preprocessor turns tenants' files into facts, and a few shell scripts deploy the
whole to one host. This directory holds TLA+ modules of its core logic, TLC
configurations that check them on small instances, and TLAPS proofs of the
theorems that matter most. Paths below are relative to `src/`.

## 1. The system

| part | state it keeps | operations | what makes it correct |
|---|---|---|---|
| tenant repository, manager, router (`src/sample/tenant/`) | a dict of tenants: slug, number, status | create, assign number, update, look-ups, route a number | slugs unique, one tenant per number, tenants persist |
| supervisor, spawner (`src/sample/tenant/supervisor.py`) | containers that run | bring_up, bring_down, activate | recorded status = what runs |
| onboarding flow (`src/sample/onboarding/flow.py`) | (the repository's) | Meta's sign-up callback | idempotent on the number, announced once |
| event bus (`src/sample/events/bus.py`) | recorded events, handlers | publish, subscribe | every handler sees every event, in order |
| admin API (`services/api/main.py`) | (the repository's) | create and patch tenants | no interference with onboarding |
| API processes, rate limiter (`services/api/main.py`, `infra/docker/`) | per worker: a client; in Redis: hits per window | limit a route, restart | bounded admission, one tenant per number |
| webhook (`services/api/main.py`) | deliveries in progress | receive a batch of messages | 200 only when answered, in order, bounded repetitions |
| buyer memory (`src/sample/memory/buyer.py`) | bounded list per buyer | remember, recall | the latest interactions, no loss, no reordering |
| agent loop (`src/sample/agent/loop.py`) | none | compose a prompt, ask the LLM | the prompt tells the dialogue |
| LLM ports (`src/sample/llm/port.py`) | ScriptedLLM's canned replies | complete | a reply or an error the handler survives |
| gateway (`src/sample/whatsapp/gateway.py`) | none (Meta's) | send_text, send_template | delivered or an error, its vendor id |
| ingestion worker and queue (`services/preprocessor/worker.py`) | queue, unfinished count, stop event | put, drain, run_forever | each job once, in order; `join` and `stop` work |
| preprocessor, Hindsight (`src/sample/ingestion/`) | facts in Postgres | process a file, add_fact, query | a job's facts are its chunks |
| sales closer, lead qualifier, catalog look-up, goal judge (`src/sample/skills/`, `src/sample/goal.py`) | none: the caller keeps the stage | invoke, judge | stages follow evidence, verdicts agree with tags, look-ups stay within a tenant |
| project initializer (`scripts/init.py`) | the project's files | stamp, rename, patch, reset git, delete itself | stopped anywhere, it can be run again |
| deploy scripts (`infra/scripts/`, `infra/systemd/`) | git HEAD, last good sha, image, container | update, rollback, healthcheck, boot | what runs is what is checked out; a rollback undoes an update |
| dashboard (`dashboard/`) | views | forms, pings | shows the latest answer |

How they interact. The API process is one asyncio event loop: every request is a
coroutine that shares the repository, the memory and the bus with all others, by
plain method calls. Coroutines interleave only where one awaits something that
suspends: the spawner (a container runtime), event handlers, the LLM, the
gateway. The ingestion workers share an `asyncio.Queue` and suspend on it and on
the extractor. Meta, on the other side of the network, repeats whatever it has
no 200 for, while the first delivery may still be in progress.

What is hard. Objects are read before an await and written back whole after it;
lifecycle calls of one tenant overlap; callbacks are repeated while the first is
still in progress, or after it failed half way; batches are repeated although a
part of them was answered; a timed-out send may have been delivered; a getter is
woken and cancelled at once; workers die of exceptions with jobs in hand; a
deployment stops between git and docker, or is repeated after it failed; the
API's workers know nothing of each other and forget everything when they restart;
the initializer stops half way and is run again.
PROJECT.json lists these hazards, each at its line, with the properties that
cover it.

## 2. The modules

An action is everything a coroutine does between two suspensions. An `await` of a
coroutine that itself suspends nowhere (the in-memory memory and repository,
`Queue.get` on a queue that holds a job) is no boundary. Names of the code are
kept where TLA+ allows it. Definitions named `X_Something` are defective
variants of `X`; no specification uses them, they are there to show that the
properties notice such defects.

**TenantRepository** - the in-memory repository as operators on a value. The
dict keeps insertion order and nothing is ever deleted, so it is a sequence and
a tenant's id its position. Slugs are sequences of words and numbers, so that
`acme` + `-2` and the slug of "Acme 2" collide as they do in the code.

**Onboarding** (extends TenantRepository) - `OnboardingFlow.run`,
`TenantSupervisor`, `TenantManager.activate`, `POST /tenants` and
`PATCH /tenants/{id}`. The code's path is cut at its two awaits:
`Callback` (look-up, slug, create, number, entry of `bring_up`) -> `spawning`
-> `SpawnTakesEffect` -> `spawned` -> `DeliveryActivates` (writes the copy read
before the await, records the event) -> `publishing` -> `HandlersReturn` or
`HandlerRaises`. `SpawnerFails` may strike before or after the spawner's
effect. `copy` is the Tenant object the coroutine holds across the await;
`WriteCopy` stores it whole, as `update` does. `touched` and `disturbed` are
history variables that name the circumstances properties except.

**BuyerMemory** - the bounded list as operators on a value.

**Webhook** (extends BuyerMemory) - `POST /webhook`, the agent loop and the
gateway. A handler is one delivery: `Receive` (routes the payload, remembers the
first message, composes the prompt) -> `llm` -> `Respond` -> `sending` ->
`GatewayDelivers` -> `sent` -> `Resume` (remembers the reply, takes up the next
message or answers 200). `GatewayFails` may strike before or after the
delivery, and answers 500. `Drop` is the 200 for a number nobody holds;
`NumberLeaves` is a PATCH that gives a number's tenant another one. A number that
comes back comes back to the same tenant here, and so to the same memories. A
payload is routed by the number of its first change that carries one. Meta may
repeat a delivery also after its 200, which it may not have seen. The LLM
failing is the fallback reply, and so the same step as its completing. `outbox`,
`log`, `refused` are histories. Tenants come from Onboarding: here only the
numbers routed by now are kept.

**Adapters** (extends Webhook) - the LLM and gateway adapters behind the
handler. Each of its handler's actions is the action of Webhook with what the
adapter adds: `AgentResponds` is `Respond` with `Echo`, `Scripted` (pops the
canned replies, raises when there are none) or `OpenRouter` (`Complete` says
what becomes of each kind of answer), `SendText`, `SendReturns` (`VendorIds` is
`_build_outbound`) and `SendRaises`. Vendor ids are places in the list of
deliveries, so that they can be followed from the memory to the delivery.

**ApiWorkers** - several uvicorn workers, each with a client of its own, and
their restarts. The limiter's counters are in Redis, where
`docker-compose.prod.yml:81` puts them (`APP_RATE_LIMIT_STORAGE`; the memory of
each worker is only the default of `main.py:50`, and what the comment at
`main.py:42-43` speaks of): all workers share them, and a restarted worker finds
them as they were. With the adapters `main.py` builds, what follows the
limiter's hit suspends nowhere, so a request is one action here; overlaps within
a worker are Onboarding's and Webhook's subject. `Counted` is the fixed window of
the limits library, in which a refused hit counts as well; `StorageFails` is
a Redis that does not answer, perhaps after it counted (the limiter is built
without `swallow_errors`, so the request is answered 500).

**SalesDesk** - sales-closer, lead-qualifier, catalog-lookup and the goal judge
as one conversation and the calls made about it. The skills keep nothing: the
stage is what the caller hands back. A message is the set of its keywords; the
sets of keywords say which substrings a word holds ("humano" holds "no",
"curiosidad" holds "si"). `heard` is a history of the evidence.

**Initializer** - `scripts/init.py`, walking the files one at a time: `Substitute`
-> `RenamePackage` -> `RewriteImports` -> `RemoveGit` -> `InitGit` ->
`SelfDestruct`, with `Stop` at any point and the script run again with the same
or other answers.

**JobQueue** - the abstract specification of the ingestion queue: pending jobs
in order, jobs being worked on, finished jobs. IngestionWorker implements it
(`ImplementsJobQueue`) with `pending <- queue`, `working <- InHand` and
`finished` the jobs taken and not in hand.

**IngestionWorker** - `IngestionQueue`, `run_forever`, `drain` and the
preprocessor they call. `getters` is asyncio.Queue's list of sleeping getters;
`Put` wakes the first, `Timeout` cancels one that sleeps or was just woken (then
the wake-up is passed on). `Turn` is the loop's head up to its next suspension.
`conn` is the psycopg connection, which a failed `execute` leaves in an aborted
transaction.

**Deploy** - `update.sh`, `rollback.sh`, `healthcheck.sh` and the systemd unit,
over commits numbered along the main branch. `Update` -> `Record` (writes
`.last_good_sha`) -> `Pull` -> `Build` -> `Up` -> `Gate`; `Rollback` (the tests of
the record) -> `Checkout` (detaches HEAD) -> the same three last commands.
`Stops` is a command that fails or a script that is killed, at every one of
them: a record that is cut off is an empty file (`RecordCut`), a checkout or a
pull that fails leaves HEAD where it was. `Reboot` starts containers of the
latest image. `Gate` compares the container names healthcheck.sh inspects
(`sample-*`) with those of the compose file (`app-*`); it never passes, and so
every update and rollback that rebuilds exits non-zero. One script runs at a
time: the scripts have no lock, and no property here survives an overlap.

`MCOnboarding`, `MCWebhook`, `MCAdapters`, `MCApiWorkers` and
`MCIngestionWorker` give the instances for TLC; `*_proofs` hold the theorems.

## 3. What is model-checked

Deadlock is not checked in OnboardingDuplicate, OnboardingStuck, IngestionWorkers
and Initializer: there callbacks or jobs run out, or the initializer has deleted
itself, and the system then rightly stands still. It is checked in all others.

| run | instance | shows |
|---|---|---|
| Onboarding | 2 callbacks, 2 numbers, 2 business names, 1 operator, an administrator who creates tenants and writes one of the numbers, 2 tenants | `TypeOK`, `SlugsUnique`, `NeverRejected`, `UntouchedNumbersUnique`, `AnnouncedOnce`, `CreatedMeansOnboarded`, `StatusTellsLiveness`, `TenantsPersist`, `RoutesStick` |
| Webhook | 2 batches of one buyer (2 + 1 messages), 2 handlers, 2 deliveries each (also after a 200), 1 error, a number that comes and goes, fair | `TypeOK`, `RingHoldsLatest`, `AckedIsAnswered`, `MemoryTellsTheTruth`, `AnsweredInOrder`, `AnswersWithinDeliveries`, `EventuallyAnswered` |
| Adapters | 1 batch of 2 messages, 2 handlers, 2 deliveries, 2 errors, every pair of adapters, 2 canned replies | `VendorIdsAreTrue`, `OnlyErrorsHideReplies` |
| ApiWorkers | 2 workers, 1 restart, 1 error of Redis, 2 onboardings and 2 webhooks per window of 2 ticks, 3 messages, fair | `AcceptedPerWindow`, `OneTenantPerLife`, `EventuallyAnswered` |
| IngestionWorkers | 4 jobs (2, 1, 0 chunks, unreadable format), 2 daemons, 1 drainer, 1 failure, fair | `TypeOK`, `UnfinishedCounts`, `TakenInOrder`, `FactsAreAPrefix`, `JobsAreTaken`, `StopEndsDaemons`, `ImplementsJobQueue` |
| Deploy | 4 commits, 2 of them broken, 3 failed commands, killed scripts or reboots | `TypeOK`, `RunsWhatIsCheckedOut`, `RollbackUndoesUpdate` |
| SalesDesk | messages of any of 7 keywords, 2 tenants, 1 product, 2 facts | `ClosedOnEvidence`, `HumanOnRequest`, `VerdictFollowsTag`, `SaleNeedsPayment`, `LookupsAreScoped` |
| Initializer | 2 files with placeholders, 2 with imports, 3 slugs, any number of stops | `DestroyedMeansDone`, `OnlyPatchingBreaksImports`, `SameAnswersConverge` |

Why the bounds are enough. Two callbacks and two numbers give the second sign-up,
the repeated one and the overlapping one, each beside an operator's lifecycle
call and an administrator who writes the number of a tenant in between. An
operator and a callback are what it takes for lifecycle calls to overlap: opposite
ones, and two that agree. `MaxTenants` bounds the tenants all of them create; the
second one is enough for a clash of slugs or numbers, and what needs a third (a
suffix that collides with a name that ends in a number) the theorems cover, which
hold for any number of callbacks, operators and tenants. The two business names
are a name and the suffix its second holder gets. Memory holds three
interactions in Webhook (the API keeps 200) so that it overflows within a batch,
and history is two turns long. Two deliveries and one error let a batch fail half
way, be repeated, and be answered twice; two handlers let deliveries of one batch,
or of two batches of one buyer, overlap. Two errors, one per handler, are Adapters'
case. Two canned replies for up to four completions exhaust ScriptedLLM in the
middle of a batch. One buyer is the interesting case: buyers share nothing else.
Two daemons and a drainer let a woken daemon lose its job to another worker, time
out while woken and pass the wake-up on, and let one survive another's death. Four
commits are two updates after the first deployment and one that comes too late;
three failures stop an update, then the rollback, and reboot the host. Two workers
and a restart give three lives; a limit of two within a window of two ticks lets
the end of one window meet the start of the next, which is where the limiter
admits most, and the third of three messages has to wait for a second window over
all workers. Seven keywords hold one of every kind of evidence and the words two
kinds share. Three slugs are the package's own name, one answer and another one,
or one that is taken.

Symmetry is used only in runs without liveness, over deliveries and operators
(a callback's data are chosen by `\E`, not by its name) and over handlers.

Fairness. Webhook assumes that a coroutine that can run does, that the
LLM and the gateway answer or fail (their HTTP clients have timeouts, so a
handler that awaits them goes on) and that Meta repeats what it has no 200 for
(weak fairness of a delivery that is not acknowledged; those after a 200 are
owed by nobody); it does not assume that the gateway ever succeeds: the instance has one delivery
more than errors. IngestionWorkers assumes that started daemons run, that
extraction returns or raises, and that `wait_for` fires; nobody is assumed to
put a job, set the stop event or start a drainer. `JobsAreTaken` excepts the
case that every daemon died of an exception, which the code allows. ApiWorkers
assumes that time passes and that Meta repeats a message it has no 200 for often
enough that a repetition now and then is the first to reach a worker in a new
window; without that, refused requests could use up every window.

### Disagreements found

Four runs end in a violation, each of one sentence of the repository:

| run | the sentence | what happens |
|---|---|---|
| OnboardingDuplicate | `onboarding/flow.py`: idempotent on the number, no duplicates | an administrator moves a tenant to another number while its callback awaits the spawner; a second callback for the freed number creates a second tenant; the first one's stale copy then restores the number. Two tenants hold it |
| OnboardingStuck | `onboarding/flow.py`: `is_new = False` is "already onboarded (no-op)" | the spawner raises after the number was stored, and the callback is answered 500; its repetition is answered 201, `is_new = False`, for a tenant that is not onboarded, and none ever repairs it |
| ApiWorkersDuplicate | `main.py:195`: "Idempotent on `phone_number_id`"; `flow.py:3-5`: "we must NOT create duplicates" | the image runs two uvicorn workers, each with a repository of its own: a repeated callback that reaches the other one creates the tenant again (`OneTenantPerLife` is the bound that does hold) |
| DeployRollback | `rollback.sh`: safe to run after an update that failed its healthchecks | update.sh records HEAD as good on every run: a second update after a failed one replaces the good sha by the broken one, and the rollback exits 0 having done nothing |

Other places where the code does not do what its text says. The models follow the
code; no run is spent on these, since each shows on every path or at one line:

- `whatsapp/gateway.py:38-39` has webhook handlers swallow GatewayError and
  answer 200; `send_text` is awaited outside the try block
  (`services/api/main.py:316`), so Meta is answered 500 and repeats the batch.
  "We never give Meta a non-2xx" (`main.py:274`) is untrue of the limiter's 429
  as well.
- `agent/loop.py:105-106` wants alternating turns; the inbound message is
  remembered (`main.py:292`) before it is recalled, so every prompt ends in it
  twice.
- `worker.py:73` has stop as the only way out; an unreadable file raises through
  `run_forever` and ends the daemon.
- A payload with changes of several numbers goes whole to the tenant of the first
  number found (`whatsapp/webhook.py:45`), although `main.py:271` routes to "the
  owning tenant".
- "30/minute" (`main.py:46`) admits up to 59 requests within a minute, over all
  workers: windows are fixed (`AcceptedPerWindow` is the bound that does hold).
  `default_limits` apply to nothing: SlowAPI's middleware is not installed.
- The comment at `main.py:42-43` has the limiter's storage in memory; the compose
  file sets Redis, for which `pyproject.toml` names no client library.
- `Dockerfile.api` copies a directory `sdk` the repository does not have, so the
  image cannot be built as it is. The models are of the image it describes.
- Null content of OpenRouter is sent as the text "None" (`llm/port.py`), and a
  body of another shape raises a TypeError that is no LLMError; Kapso's 200
  without JSON raises a ValueError after the delivery. `main.py` builds
  `Client()` with EchoLLM and InMemoryGateway only: OpenRouter and Kapso are
  reached by other hosts of the client.
- sales-closer looks for substrings ("humano" is an objection, "curiosidad" is a
  yes), reaches CLOSED on an "ok" without a payment, and heeds a request for a
  human only while objecting. Nobody sets `payment_confirmed`, and `/goal` judges
  by the lead alone, so `sell` and `lookup` are never achieved there
  (`VerdictFollowsTag`).
- lead-qualifier's patterns `cu[ée]nto` and `l[mm]ite` match neither "cuánto" nor
  "límite".
- init.py, stopped while it patches imports, takes the project for initialized
  when it is run again, and never patches the rest.

## 4. What is proved

All theorems hold for every value of the constants, under the assumptions the
modules name: typing of the constants; that kinds of processes are disjoint
(`ProcessesAssumption`); that workers, handlers and keywords are finitely many
(`WorkersAssumption`, `HandlersAssumption`, `WordsAssumption`); and, in Webhook,
that a message has one place in one payload (`MessagesAssumption`: Meta gives
every message an id of its own, and what it repeats it repeats whole). TLC
evaluates all of them in the runs.

Every safety invariant and every action property that a run checks is the
statement of a theorem here. Few are inductive by themselves; what follows names
for each module what had to be added and why. Every strengthening was checked by
TLC on the module's instance before it was proved.

**Onboarding_proofs** - first the operators of TenantRepository:
`UniqueSlugIsFree`: among `Len(repo) + 1` candidates one is free (they are
distinct, and there are fewer tenants; a cardinality argument), so the suffix
loop ends and its result is accepted. Then `TypeCorrect`, `SlugsUniqueThm`,
`NeverRejectedThm`, `UntouchedNumbersUniqueThm`, `AnnouncedOnceThm`,
`CreatedMeansOnboardedThm`, `StatusTellsLivenessThm` and the action properties
`TenantsPersistThm` and `RoutesStickThm`. The invariants are not inductive
because a coroutine writes back a copy that may be arbitrarily old. `IInv` adds
what a copy can still differ in: it has its tenant's slug always, and its
tenant's number unless an administrator touched that tenant; what a delivery's
`pc` says of its tenant's status and announcement; and that deliveries in flight
work on different tenants. For `StatusTellsLiveness`, `Calm` adds that nobody
starts an undisturbed tenant while somebody stops it, and that a call whose
spawner has answered still finds the container as the spawner left it; each step
is first reduced (`StepLife`) to what it means for one tenant, one of five kinds.

**Webhook_proofs** - `TrimKeepsLatest`: trimming after each append is the same
as keeping everything and trimming once. With it `RingHoldsLatestThm` is
inductive together with `TypeOK`. `AnswersWithinDeliveriesThm` counts
(`DeliveryInv`): the replies to a message and the handlers that still have it
before them are together no more than the deliveries of its batch.
`MemoryTellsTheTruthThm` counts too (`MemoryInv`): the replies remembered and
those a handler has sent but not remembered are no more than those delivered, and
the questions remembered exceed the replies remembered by at least the handlers
between the two. `AnsweredInOrderThm` and `AckedIsAnsweredThm` rest on what a
handler leaves behind it (`OrderInv`, `AckInv`): when it works on a message, every
earlier one of its batch has been answered and its reply remembered. The lemmas `CountAppend` and `Beginnings` say what an
append does to the counts of a sequence and of its beginnings.

**Adapters_proofs** - `AdaptersImplementWebhook`: the handler on its adapters is
the webhook, so `AdaptersKeepPromises` carries Webhook's four promises over to
every pair of adapters. `VendorIdsAreTrueThm` and `OnlyErrorsHideRepliesThm` are
the adapters' own. `VendorInv` says that a handler that knows of a delivery holds
its id alone: no other handler has it and no note carries it yet.

**IngestionWorker_proofs** - `TypeCorrect`, `TakenInOrderThm`,
`UnfinishedCountsThm` for any number of workers. The strengthening `Sleepers`
ties asyncio's `getters` to the workers' `pc`: a worker is in the list, once,
exactly while it waits. A worker's turn is proved once (`TurnStep`) for any
intermediate `count`, `getters` and `pc`, and each action uses it.
`ImplementsJobQueueThm`: the initial state maps to JobQueue's, and every step to
a step or a stutter, for any number of workers. It needs `OneHand` (no job is in
two hands, and what is in a hand was taken), so that a worker that takes the next
job and drops it at once still frees exactly its own. `FactsAreAPrefixThm` needs
`FreshInv`: a job in hand has no facts yet and is not completed, and what is
completed was taken; so the facts a worker writes are its job's only ones.

**ApiWorkers_proofs** - `AcceptedPerWindowThm` for windows of any length and any
limits, over all workers, restarts and errors of Redis. `LimiterInv` compares, for
each route, what was accepted in the latest `i` ticks with what Redis still
counts: a stretch within the present window holds at most its hits, one that
reaches back over its start at most the limit less one more, since the window
before ended in it. A hit that was counted and lost (`HitLost`) only makes the
count larger.
`OneTenantPerLifeThm` rests on `TenantInv`: the tenants made for a number and the
workers that do not know it yet are together at most the workers and restarts.

**SalesDesk_proofs** - `ScoreMonotone` about the clamped score, and
`TypeCorrect`, `ClosedOnEvidenceThm`, `HumanOnRequestThm`,
`VerdictFollowsTagThm`, `SaleNeedsPaymentThm`, `LookupsAreScopedThm` for any
finite set of keywords, any tenants and facts. The strengthening says what
`heard` holds at each stage; the look-up needs that a positive `top_k` keeps the
first match of any set that has one (`SliceKeepsFirst`).

**Initializer_proofs** - `TypeCorrect`, `DestroyedMeansDoneThm`,
`OnlyPatchingBreaksImportsThm`, `SameAnswersConvergeThm` for any files and slugs.
The strengthening says what each phase of the script may assume: which forms still hold placeholders, and which imports name what.

**Deploy_proofs** - `TypeCorrect`, `RunsWhatIsCheckedOutThm`,
`RollbackUndoesUpdateThm` for any number of commits, failures and reboots.
`InStep` says what image and container are at each command of a script,
`RecordRan` that the recorded sha is what ran when the record was written, and
`RolledBack` that a rollback which is past its checkout moved HEAD to the record,
and that one which is not has an exit code that says so; `Pulling` that an update
records the HEAD it found.

Only model-checked: liveness (the two `EventuallyAnswered`, `JobsAreTaken`,
`StopEndsDaemons`), which TLAPS does not reach, and the four properties of
section 3 that the code violates.

## 5. What is not modelled, and the plan

Left out for good: HTTP plumbing, authentication and configuration, the wording
of prompts and replies, the LLM's behaviour, text extraction and embeddings
(floats), encryption and log redaction, the commands that only print, the
dashboard's layout, the Honcho adapter (a forwarder), `send_template` and
`summary` (called by nothing in the API), the provisioning and backup scripts,
and the SQL of PostgresHindsight beyond what `conn` says of its transactions.

Approximations. In the API as shipped nothing suspends (EchoLLM, InMemoryGateway
and InMemoryTenantSpawner never do), so the interleavings of Onboarding and
Webhook are those of a client with real adapters. A keyword is in a message at
most once. SalesDesk's caller hands the stage back as it got it: an invented or
invalid `current_stage` is no state of a conversation. Redis is taken to keep what
it counted (a crash of its own, or its eviction under `allkeys-lru`, would start a
window afresh). Initializer writes a file as a whole, and Deploy's git commands do
all of their work or none. The instances hold one WhatsApp number, so that a payload of several
numbers is not checked. Scripts of Deploy run one at a time.

Order of the plan. Done: (1) TenantRepository and Onboarding, where the state
that everything else depends on is written; (2) BuyerMemory and Webhook; (3)
IngestionWorker; (4) Deploy; (5) SalesDesk; (6) ApiWorkers; (7) Adapters; (8)
Initializer; (9) JobQueue and the refinement; (10) proofs of all safety
properties. Next:

11. An abstract specification of what a tenant goes through, which Onboarding
    implements, and of the answers a batch gets, for Webhook.
12. Handlers that subscribe while an event is published; overlapping deployments
    and payloads of several numbers, once the code says what they promise.

## 6. Running

    tlc -config Webhook.cfg MCWebhook.tla
    tlapm Onboarding_proofs.tla
