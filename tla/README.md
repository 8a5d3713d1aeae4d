# Agent-bakery in TLA+

A model of the parts of agent-bakery where concurrency, faults and time decide
whether the system does what it promises: the monitoring agent's triage, its meta sweep
and the heartbeats it reads, the LLM client and the rate limiter that every agent
shares, and the dashboard's sessions, operator actions, boards and cost series. Paths in
this file are relative to `src/`.

## 1. The system

Agent-bakery is a library (`packages/agentkit`), one reference agent
(`agents/monitoring`), a dashboard (`apps/dashboard`) and an operator's command line
(`apps/platform-cli`). An agent is one asyncio process with a FastAPI server, an LLM
client, a Postgres pool and a RabbitMQ publisher. The monitoring agent probes targets on
a schedule and takes webhooks; each problem is a *signal* that a LangGraph graph
triages into an *incident* row and, at most, a page. The dashboard polls every agent's
health and metrics and keeps a series of daily costs.

```
 scheduler ──sweep──┐                             ┌─> incidents (Postgres)
 POST /sweep ───────┼─> triage graph ─────────────┤
 webhooks ──────────┘   ingest classify dedup     └─> notify pool ─> RabbitMQ
 meta sweep ──> probe state   │  decide notify
                              └─> LLM client ─> gateway
 dashboard ──HTTP──> /healthz /readyz /metrics of the agents ──> cost series (Postgres)
```

Concurrency has two grains. Inside a process, tasks of one event loop interleave at
`await`. Between processes (agents, dashboard, database, broker), every request and
every autocommitted statement is a step. `agentkit/db.py:33-58` opens the pools in autocommit, so no
two statements of this code are ever one transaction.

### 1.1 Components

| Component | State | Operations | Talks to | Hard behaviour | Correct means | Module |
|---|---|---|---|---|---|---|
| incident store (`monitoring_agent/store.py`) | table `incidents` | `upsert` (SELECT, then INSERT), `mark_alert_failed`, `clear_alert_failed`, `prune`, reads | Postgres | two statements per upsert, the prune between them | one row per problem; a flag is not lost | `IncidentStore` |
| triage graph (`graph.py`) | the state of each triage in flight | ingest, classify, dedup, decide, notify | store, LLM client, notify pool | several callers, retries, lost confirmations, crashes | suppress only recent repeats, page with one of the causes in `decide`, retry failed pages | `Triage`, `TriageLive`, `Alerting` |
| LLM client (`agentkit/llm.py`) | breaker, usage | `complete`, `complete_with_tools`, `complete_json`, `embed_texts` | gateway | checks before an await, effects after it | trips only on outages, bounded spending, recovery | `CircuitBreaker`, `LLMClient` |
| sweeps, scheduler (`scheduler.py`, `collectors.py`) | the signals of the sweep in progress | `run_sweep`, `run_meta_sweep`, `run_retention_prune` | graph, probe state, HTTP, Docker, RabbitMQ | a manual sweep overlapping a scheduled one, one collector failing | no false crash loop, none lost, what lasts is signalled | `MetaSweep`, `MetaSweepLive`, `Heartbeats`; the prune and the scheduled sweep in `Triage` |
| probe state (`store.py:225-385`) | table `agent_probe_state`: streak, last restart count, last depth | `record_endpoint`, `record_restart`, `record_depth`, `prune` | Postgres | stale writes of overlapping sweeps | a delta is taken against a reading that came before | `ProbeState` |
| monitoring API (`api.py`) | pools across databases, graph, scheduler | webhooks, `POST /sweep`, `POST /meta-sweep`, `GET /agents`, lifespan | all of the above | unlocked cache of pools | pools stay few | `Heartbeats` (pools, `GET /agents`); callers of `Triage` and `MetaSweep` |
| heartbeat (`agentkit/heartbeat.py`) | one row per job | `create_heartbeat_table`, `beat`, `last_beat` | the job's Postgres | overlapping runs of one job, a read that fails | silence is signalled; overdue is only what the reader found old | `Heartbeats` |
| notify pool (`agentkit/notify.py`) | connection, channel, lock | `publish_alert`, `_ensure`, `close` | RabbitMQ | `close` does not take the lock, but nothing calls it | a page is confirmed, refused, or taken without confirmation | outcome in `Triage` |
| server factory (`agentkit/server.py`) | token buckets, readiness flag | rate limits, lifespan, `/readyz` | Redis | two limiters over one key, replicas with clocks of their own, Redis failing | the limit holds, a refusal has a cause | `RateLimiter` |
| metrics (`agentkit/metrics.py`) | LLM usage, rolling counters | `set_llm_usage`, `/metrics.json` | dashboard | restarts, midnight | — | with `CostRollup` |
| tokens (`agentkit/auth.py`, `dashboard/auth.py`) | cached upstream token, refresh tokens | `UpstreamToken.get`, `verify_token` | HTTP | a token that expires on its way | a call never carries an expired token | `Fleet`, `DashboardSession` |
| audit (`agentkit/audit.py`) | table `audit_log` | `append`, reads | Postgres | written after what it records, swallowing its failure | the log is true of what it claims, and complete but for faults | `OperatorActions` |
| dashboard costs (`dashboard/store.py`, `api.py`) | raw snapshots, daily roll-up | `record_cost`, `record_cost_by_model`, roll-up, prune, two loops | agents, Postgres | crash between two statements, midnight, agent restarts, figures that are junk | nothing is pruned uncounted; what is left out is repaired | `CostRollup` |
| dashboard aggregator (`aggregator.py`) | boards cached in Redis | `agents_health`, `cost_rollup`, `_post`, `webext_run`, panel reads | agents, Redis | gathers that overlap and write back out of order, lost answers | a board is recent, a snapshot current | `Fleet`, `OperatorActions` |
| dashboard API (`api.py`) | session and CSRF cookies in the browser | middleware, login, logout, pages, polled fragments, actions | store, aggregator | several tabs, stale or foreign cookies, a rotated secret | no lockout; tabs leave each other alone | `DashboardSession`, `OperatorActions` |
| personal tokens, triage overlay (`pat_routes.py`, `store.py`) | tables `personal_access_tokens`, `incident_triage` | `mint_token`, `revoke_token`, `set_incident_triage` | Postgres | colliding prefixes, two operators at once, no database | what is shown is stored, what happened is audited once | `OperatorActions` |
| platform CLI registry (`config.py`, `registry_cmds.py`) | `.env` file | `agent add`, `agent remove` | file system | read, change, replace | — | not modelled: section 7 |
| configuration, prompts, logging, egress, database helpers, views, CLI tools | none, or one request's | parsing, text, I/O | — | — | — | not modelled: section 7 |

The defaults that matter to the models: `poll_interval_seconds` 60,
`meta_poll_interval_seconds` 120, `dedup_window_minutes` 30, `notify_max_attempts` 3,
`incident_retention_days` 90, `probe_state_retention_days` 30,
`fail_streak_to_alert` 2, `restart_loop_threshold` 3, `queue_depth_threshold` 100,
`llm_breaker_threshold` 5, `llm_breaker_cooldown_s` 30, `llm_timeout_s` 60,
`llm_max_cost_usd` 0.10, `llm_job_cost_cap_usd` 0 (off); a heartbeat's grace of 1.5
intervals; `rate_limit_per_minute` 60, and a bucket's expiry of 120 s; the dashboard's
snapshot every 60 s and prune every 6 h, `DEFAULT_RETENTION_DAYS` 90, `cache_ttl_s` 8,
`upstream_timeout_s` 3, `upstream_token_ttl_s` 3600, renewed 60 s early.

The hazards of each component, at the lines where they bite and with the properties
that watch them, are in `PROJECT.json`.

## 2. Plan

In order of importance; a module is listed with what it composes. All of these are
written.

1. `IncidentStore`, `Triage`, `TriageLive`: the reason the monitoring agent exists.
   `Alerting`, what triage promises about each problem, and the refinement that shows
   `Triage` to implement it, by TLC and by proof.
2. `CircuitBreaker`, `LLMClient`: shared by every agent, all of it checks before an
   await and effects after it.
3. `ProbeState`, `MetaSweep`, `MetaSweepLive`, and `Heartbeats`, the part of the meta
   sweep that reads the batch agents.
4. `CostRollup`: the tables of costs and the two loops over them.
5. `OperatorActions`, `DashboardSession`: what operators do and the log of it, and the
   browser they do it from.
6. `Fleet`: the boards, their cache and the token behind them.
7. `RateLimiter`: the buckets of one client, in Redis and in the replicas.

Every invariant and action property that a run checks is proved (section 6). Left: the
meta sweep's signals that one reading decides.

## 3. Modules

### `IncidentStore`: `monitoring_agent/store.py:16-210`

`rows[k]` is the row of dedup key `k`: its status and its age, the time since
`last_seen`. Each operator is the effect of one SQL statement. Title, body, severity,
count and `first_seen` are left out because no statement and no node reads them back to
decide anything. Ages are in clock ticks and saturate at `Horizon`, which is above
every value they are compared with. `ResolveRow` is external: no code in the
repository writes `resolved`, though the upsert, the prune and the schema all expect it.

### `Triage`: `monitoring_agent/graph.py`

`runs[r]` is the local state of one caller, a task that calls `graph.ainvoke` for one
signal after another: the scheduled sweep, `POST /sweep`, a webhook. A step goes from
one await to the next.

| Action | Code |
|---|---|
| `Ingest` | `ainvoke` with a signal, `ingest` (116-119) |
| `Classify` | the LLM call and the fallbacks of `classify` (121-160); a refusal, an answer that is no JSON and an unknown severity all end in the source's suggestion |
| `AnswerRaises` | what those fallbacks do not cover: a severity that cannot be looked up in a set (a list, an object) raises outside the `try` (150-151), a hypothesis with a NUL is refused by the INSERT. No fault, and not bounded: the model may answer so with every call |
| `SelectPrev` | the SELECT of `upsert` (`store.py:99-103`) |
| `InsertRow` | the INSERT of `upsert` (`store.py:105-144`) and the rest of `dedup` (170-191), which no await separates from it |
| `Decide` | `decide` and the conditional edge (193-205, 264-280) |
| `Deliver`, `PublishFails` | one turn of the loop of `notify` (236-249): confirmed; raised, whether or not the broker took the page |
| `ClearFailed`, `MarkFailed` | the UPDATE that ends `notify` (251-254, 256-262) |
| `StoreFails` | a statement raises; nothing up to the sweep catches it and the run is gone, as after `AnswerRaises` |
| `Crash` | the process restarts: rows stay, runs do not |
| `Resolve`, `Prune`, `Tick` | an operator, `run_retention_prune`, time |

`found` and `raced` (in a run), `owed` and `known` are history variables: no guard
reads them. `found` is what the upsert overwrote; `raced` that another run upserted
between the SELECT and the INSERT; `owed[k]` that a page was given up and neither a
later page nor an operator has settled it; `known[k]` that somebody was told of the
present row.

Two assumptions come from the defaults, not from the code: the dedup window is not
longer than the retention (`WindowAssumption`: 30 minutes, 90 days), and a run ends
before the row it has just upserted can be pruned (`RunsAreShort`: seconds, 90 days). Without the
second the prune could take a row out of the hands of a run that lasted for 90 days.

### `TriageLive`

`Triage` with fairness (section 5), where one run is the scheduled sweep.

### `Alerting`, `TriageRefinement`

`Alerting` is the abstract specification: the life of an incident without callers,
statements or time. An incident is `fresh` (nobody knows, somebody is at work), `told`,
`owed` (a page was given up), `closed`, or `lost` (nobody knows, nobody is at work). Only
`Fault` leads to `lost`, only `Settle` (after a page has arrived) or `Resolve` leaves
`owed`, only `Forget` removes an incident, and only a closed one.

`TriageRefinement` maps the table, the runs and the history of `Triage` to a phase per
key: `PhaseOf` reads the row's status, then `known`, then whether a run carries the
incident's first page. `LifecycleKept` is `Alerting`'s specification under this mapping.
The upsert is `Open`, `Reopen` or a stutter; a delivered page, or one whose confirmation
is lost, is `Page`; `MarkFailed` is `GiveUp`, `ClearFailed` is `Settle`, the prune is
`Forget`, a crash or a failing statement is `Fault`; everything else stutters. `Settle`
does not ask which page it settles: the code's clearing of a flag does not either
(section 7).

### `CircuitBreaker`, `LLMClient`: `agentkit/llm.py:208-259, 324-666`

`breaker` is the failure count and the age of the opening, both saturating at the value
they are compared with. `calls[c]` is the task `c` inside `complete`,
`complete_with_tools`, `complete_json` or `embed_texts`; `spent` is `usage.cost_usd`.

| Action | Code |
|---|---|
| `Submit` | the pre-flight guard (420-448), then `_CircuitBreaker.check` and the cap (387-392), and the request goes out |
| `Overcharged` | an answer over the ceiling: raises before `usage.add` (458-467) |
| `Answered` | metered and returned (468-573) |
| `Retried`, `GaveUp` | `complete_json`: a corrective retry through the same gates, or the end (601-650) |
| `Embedded` | `embed_texts` (652-666): the breaker only, nothing metered |
| `GatewayFails` | the exception path of `_call_gateway` (393-401): an outage counts, a 4xx does not |
| `Tick` | `time.monotonic` |

A price is a natural number; what a request was projected to cost and what it cost are
two choices from `Charges`, as they are two estimates in the code. `outages` (gateway failures
since its last answer) is history.

### `ProbeState`, `MetaSweep`, `MetaSweepLive`: `store.py:225-385`, `scheduler.py:90-246`, `collectors.py`

`ProbeState` is the table `agent_probe_state`, one row per target, and its statements.
`MetaSweep` runs one or more meta sweeps over it: `max_instances=1` keeps the scheduled
one alone, but `POST /meta-sweep` runs another beside it (`api.py:244-247`). Agents, containers and
queues are the targets; each of the three signals that need a memory (`agent-down`,
`container-crashloop`, `queue-backlog`) is kept as its target.

| Action | Code |
|---|---|
| `ProbeAgent`, `RecordProbe` | `probe_agent_endpoint`, then `record_endpoint` and `endpoint_to_signals` (`scheduler.py:105-120`) |
| `ListContainers`, `Inspect` | `collect_container_states`: all inspections come before the first record, and one that fails is a restart count of 0 |
| `SnapshotRestart`, `WriteRestart` | the two parts of `record_restart` (`store.py:334-361`), and `container_to_signals` |
| `ScrapeQueues` | `collect_queue_depths`: one request, which finds all, some or none of the queues |
| `SnapshotDepth`, `WriteDepth` | `record_depth`, and `queue_to_signal` |
| `Collect`, `TriageSignal`, `Return` | the loop of `run_meta_sweep` |
| `TriageRaises` | a triage in that loop raises on an answer of the model: the sweep ends with the signals it still had |
| `StatementFails`, `AnswerLost` | a statement raises, before or after it took effect. `AfterFailure` is the three `except` blocks: an agent loses its own probe, a container or a queue takes all the readings in hand with it; in the loop of triages nothing catches it |
| `Crash`, `LongOutage`, `Prune` | a restart; nothing recorded for longer than the retention; `run_retention_prune` |
| `Flip`, `Restart`, `Recreate`, `Fill` | what is watched, which changes by itself |

Why one statement is two actions: under READ COMMITTED the WITH part reads from the
snapshot taken when the statement starts, while ON CONFLICT DO UPDATE waits for the
row's lock and overwrites the newest version. Two statements at once may both have
taken their snapshots before either writes. `record_endpoint` increments the locked
row itself, so it is one action.

`seen`, `jumped`, `restarted` and `zeroed` are history: the highest count recorded, the
counts that exceeded it by the threshold and are not triaged yet, the containers whose count
changed, those that were given a 0.

Two assumptions are about the deployment: a sweep is over within the retention of its
rows (minutes, 30 days), and a row has never been written when the model starts.

### `Heartbeats`: `agentkit/heartbeat.py`, `monitoring_agent/api.py:115-150`, `collectors.py:739-870`

`row[j]` is the row of job `j`: the age of its `ts` and whether it says failed or
partial; `table` holds the jobs whose table exists. `beats` are the calls of `beat` under
way, several of one job when its runs overlap. `readers` are the callers of
`collect_heartbeats`: the scheduled meta sweep and `GET /agents`, which share the cache
of pools.

| Action | Code |
|---|---|
| `BeginBeat`, `EnsureTable`, `Upsert` | `beat`: the `ts` is taken, the table ensured, the row written, each after an await |
| `CreateTable` | an agent that ensures its table when it starts |
| `LookUp`, `Opened` | `pool_for`: the lookup, and after the await the insertion |
| `Query`, `Answer`, `ReadFails` | `last_beat` for one job, or the `continue` of the loop |
| `Return` | the end of the loop; what has been read is judged then, by the clock of then (`heartbeat_to_signal`) |
| `BeatFails`, `Restart`, `Tick` | a statement raises or the job dies; the agent restarts; time |

A call of `beat` takes at most `MaxBeat` ticks. `written` (the age of the write, not of
its `ts`) is history.

### `RateLimiter`: `agentkit/server.py:75-160, 290-345`

The requests of one client at several replicas. `redis[r][l]` says whether limiter `l` of
replica `r` has a Redis client, has given Redis up, or has not been asked yet; `local`
holds its own buckets; `shared` is the bucket in Redis, one for all of them, because its
key names neither limiter nor replica.

| Action | Code |
|---|---|
| `Arrives`, `Enters` | the two middlewares, LLM paths through both; `allow` up to its first await |
| `PingWorks`, `PingFails` | `_redis_client`; several first requests may ping at once |
| `Evaluated`, `EvalFails` | `_allow_redis`; a call that raises may have run its script, and `_allow_local` decides after it |
| `Restart`, `RedisLosesData`, `Tick` | a replica's process, Redis, time |

A tick is the time it takes to gain a token. The bucket is stamped with `time.monotonic`,
which counts from the boot of each host: `boot` is how far apart those are, and `origin`
whose clock stamped the bucket. A script runs in the tick it was called in. `taken`,
`quiet`, `inUse` and `buckets` are history: for every `n` up to a minute's ticks, the
tokens taken in the last `n`; the time since a limiter decided; the local buckets that
a limiter has decided from; and how many buckets have been in use. That is one for Redis, one
more each time that Redis loses its data, and one for each local bucket (a restarted
replica has new ones) that a failed call makes a limiter fall back to.
`LimitHolds` allows a minute a burst and the refill of each of these, so that a
limiter that failed open, and used no bucket, would break it. Its premise, and that of
`RefusedOnlyIfBusy`, is that the clocks of the hosts agree.

### `CostRollup`: `dashboard/store.py:120-240, 455-500`, `dashboard/api.py:222-330`

`raw` is `cost_events` and `cost_model_events`, kept as the highest figure per agent,
series and day, which is all that a roll-up reads of them; `daily` is `cost_daily`. `snap`
is the round of `_snapshot_loop`: what is still to be written, which INSERT awaits its
fold, and the time that its rows are stamped with. `prune` is the pass of `_prune_loop`.

| Action | Code |
|---|---|
| `Fetch` | `agents_health(refresh=True)`, with the agents' totals and figures per model, of those that answer; any figure may be junk |
| `InsertRaw`, `Fold` | the two statements of `record_cost` and of each model in `record_cost_by_model`, in the order of the registry; the row is stamped after the statement before it and the agent's `record_heartbeat`, which may end on the next day |
| `FigureRaises` | `float()` of a figure that is no number, under the one `try` around all agents: the round ends, for the agents after it too. No fault, and not bounded |
| `StartPrune`, `RollupTotals`, `RollupModels`, `PruneEvents`, `PruneModelEvents` | `rollup_cost_daily`, then `prune_old_data`, statement by statement |
| `SnapshotFails`, `PruneFails` | a fan-out or a statement raises: the round or the pass is dropped, the loop goes on |
| `Boot`, `BootWithoutDatabase`, `Crash` | `lifespan`; without its pool or its schema the process serves and has no loops |
| `Spend`, `Restart`, `Midnight` | the agents' running totals, which a restart resets and midnight does not |

Assumed: a round and a pass see at most one midnight (seconds, against a day), and the
retention is at least three days (90). A delete may keep any part of the day its
horizon lies in. Only `Spenders` call a model; the other agents answer with a zero, or
junk. Negative figures and NaN are left out: the roll-up's GREATEST and `float` would
take them. `written` and `peak` are history: the highest figure ever appended, and
each agent's highest total of today and of yesterday.

### `OperatorActions`: `dashboard/api.py:384-400, 695-838`, `pat_routes.py`, `store.py`, `audit.py`

`requests[o]` is the request of operator `o`, past the session and CSRF checks. `pool`
says whether the process has a database. `tokens[p]` is the row of prefix `p`, `overlay`
that of an incident's triage, `running` the control server's pipeline run.

| Action | Code |
|---|---|
| `Submit` | a route is called; mint and revoke answer 503 without a pool |
| `Decide`, `Revoke`, `Insert`, `Collide` | `set_incident_triage`; `revoke_pat`, audited if it updated a row; `create_pat`, and another secret after a `UniqueViolation` |
| `Call`, `StartRun`, `RunEnds` | `_post` to an agent; `webext_run`, refused with a 409 while one runs; either answer may be lost after it took effect |
| `AppendAudit`, `Answer` | `_audit`, which swallows its failure; the response, with the secret in plain |
| `Fails`, `Crash` | a statement raises; the process restarts, with or without a database |

An audit row says `ok = true`, `ok = false`, or nothing of it: that of a pipeline run has
no `ok` and is written after a 409 or a lost answer too (`api.py:821`), so `AuditIsTrue`
is about the others. `done` and `revealed` are history: the requests that took effect,
the secrets shown.

### `DashboardSession`: `dashboard/api.py:337-620`, `dashboard/auth.py`

`csrf` and `session` are the cookies of one browser; `tabs[t]` is a page with the token in
its forms, the request it has under way and the cookies that went with it. A response
is made and applied in one step, later than the request, so tabs overtake each
other. Nonces are reused: `FreshNonce` is one that no cookie and no page holds, and
`SessionAssumption` gives enough of them.

| Action | Code |
|---|---|
| `Open`, `SubmitLogin`, `Poll`, `Act`, `Logout` | what the user and the polling page send |
| `LoginForm`, `Page`, `PageRedirects`, `Partial` | GETs through `_csrf_middleware`, which keeps a valid token and replaces any other |
| `Rejected`, `Action` | a POST that fails, or passes, the double-submit check |
| `Login`, `LoginFails`, `LoggedOut` | the login rotates the token, the logout deletes both cookies |
| `Rotate`, `Expire` | a restart with another `jwt_secret`; the session's expiry |

### `Fleet`: `dashboard/aggregator.py`, `dashboard/auth.py:60-90`

`viewers` are the requests for a board, and the snapshot loop: a gather has one outcome
per agent and path. `cache` is Redis, `token` the one that `UpstreamToken` keeps, `agents`
what the agents are. Everything has an age or a remaining life, in ticks.

| Action | Code |
|---|---|
| `Hit`, `Gather` | `agents_health`, `cost_rollup`: from the cache, or gathered; the loop never reads the cache |
| `Answered` | `_get` for one path: an answer, a refusal, or a timeout |
| `WriteBack`, `Raises` | the board is composed, and cached if Redis works; an answer that nothing catches ends the whole gather |
| `Changes`, `CacheLost`, `Tick` | an agent, Redis, time |

Assumed: a gather and the write of its board end within `MaxGather` (`upstream_timeout_s`
is 3), which is shorter than `Margin` (60 s) and than a token's life. `steady` is
history: how long an agent has been as it is and no request to it was lost.

## 4. Runs

| Run | Question | Answer | Bounds |
|---|---|---|---|
| `triage` | can any interleaving of two callers suppress wrongly, page for no cause of `decide`, forget a page, or leave the life of an incident that `Alerting` allows? | no | 1 key, 2 callers, 2 attempts, window 2, retention 3, 1 fault; 200,000 states |
| `triage_live` | do failed pages and first pages arrive? | yes | the sweep and one other caller, window 1, no prune, 1 fault; 253,000 states |
| `lost_page` | is every incident paged, faults included? | **no** | the sweep alone, 1 fault |
| `llm` | does the breaker trip for nothing, or the cap leak without bound? do calls return, and does the breaker recover? | no; yes | 3 tasks, threshold 2, cooldown 1, cap of two ceilings, 1 retry; 16,000 states |
| `meta` | can two overlapping meta sweeps lose a crash loop of a known container, or make one up? | no | 1 container, 2 sweeps, counts 0..3, threshold 2, 1 fault; 95,000 states |
| `meta_live` | does what lasts come up for triage again and again, whatever a second sweep does and however triages end? | yes | 1 agent, 1 queue, 2 sweeps, streaks and depths 0..2, 1 fault; 235,000 states |
| `heartbeats` | is a silent or failed job signalled again and again, and overdue only if the beat that was read is, when it is judged? do the pools stay few? | yes | 1 job, 2 beats, 2 readers, interval 1, a beat of up to 1 tick; 801,000 states |
| `limiter` | while clocks agree, does the limit hold whatever fails, and do refusals have a cause? does a pause end them whatever the clocks? | yes | 2 replicas, 2 requests, rate 2, hosts booted at once or 5 ticks apart, 1 fault; 4,800,000 states up to symmetry |
| `cost` | can a figure be pruned before it is counted, or filed under a wrong day? is what was left out repaired? | no; yes | 2 agents, of which the second spends, with 1 blank model key, 4 days, retention 3, 1 fault; 617,000 states |
| `actions` | is the audit log true where it claims an effect, complete but for faults, and are revocations in it once? is the secret shown the one stored? do requests end? | yes | 2 operators, 2 prefixes, 2 attempts, 3 requests, 1 fault; 717,000 states |
| `session` | can a tab lock another out, or a cookie lock out its browser? | no | 2 tabs, 6 nonces, 1 rotation; 135,000 states |
| `fleet` | is a board older than a gather and the cache, a snapshot older than a gather, or a token expired on its way? | no | 1 agent, the loop and 1 operator, gather 1, cache 2, token 3, margin 2; 3,500,000 states |

Why the bounds are enough to meet the hard cases:

- *One key.* Rows of different keys never meet in any statement, run or guard except
  through the crash, the prune and time, which treat them alike. What one signal of a
  sweep can do to a later one, end its sweep, is in the fairness of `TriageLive`. The
  proofs hold for every number of keys.
- *Two callers.* Every race of this code is between one run's read and one other run's
  write. The proofs hold for every number of callers.
- *Two attempts.* One that is repeated and one that is the last.
- *Window 2, retention 3, horizon 4.* There is an age inside the window, one at its
  boundary, one between it and the retention, and one after it. `triage_live` takes
  window 1 (a new row, one at the boundary) and leaves the prune off, which only
  deletes resolved rows.
- *One fault* (`MaxFaults`) is one more than none, at any point of either run. The
  safety properties that exclude faults say so themselves; the others are proved for
  every bound.
- *`llm`.* Three tasks, a threshold of two and charges below, at and above the ceiling:
  the cap can be reached exactly, and be passed by two calls in flight at once.
- *`meta`.* Counts up to 3 with a threshold of 2: a delta below, at and above it, and a
  container that starts with a count that would be a crash loop against 0. The kinds of
  targets share no row, so containers have a run of their own; a prune, an outage and a
  container created anew may come between any two steps.
- *`meta_live`.* A streak of 2 is the default threshold and the first that needs two
  sweeps; a threshold of 0 for the queue leaves two depths above it, so that it can
  grow and drain there.
- *`heartbeats`.* Jobs share no row, no pool and no table. Two beats can overlap and
  write in either order, one of them failed; two readers can both miss the cache.
- *`limiter`.* A rate of 2 is the least that lets an LLM request through, and all four
  limiters meet over the shared bucket. Hosts 5 ticks apart differ by more than the
  bucket's expiry of 4. Two requests can be in a ping, a script or its failure at once.
- *`cost`.* Four days is the first number with a day past a retention of three. A blank
  key is the one that could be taken for the agent's total; a figure comes under it
  while the total is still zero, so a row in the wrong place shows. Of two agents the
  first can only be in the way of the second: it answers with nothing, a zero or junk.
- *`actions`.* Three requests: a mint, a revocation and a second revocation of one
  prefix, or two that race and one behind them. Two prefixes, free or taken at the
  start, let every attempt collide, or only the first.
- *`session`.* One other tab is enough to change a cookie under a page; more of them
  bring more of the same changes. One rotation ages every token there is.
- *`fleet`.* The cache outlasts a gather by one tick, so a slow gather can overwrite a
  newer board, and its entry be read in its last tick; tokens of 3 and 2 ticks are
  above and at the margin. Agents share the board's entry and nothing else.

Symmetry is used in safety runs only.

**What the violation shows.** The row is committed before the page. A crash or a failing
statement between the two leaves an open row that nobody was told of; the next sweep
finds it recent and suppresses itself, and renews `last_seen`, so the sweep after it does
too. `docs/business-rules.md:63` says that a new incident publishes one alert.
`UnpagedIncidentHasCarrier` and `FirstPageArrives` show that a fault is the only way to
it.

## 5. Fairness

What the scheduling of the code gives is kept apart from what is asked of its
environment (`Scheduling` and `Environment` in `TriageLive`).

- *A run of a triage goes on* (`WF Proceeds`): the LLM call has a timeout, a statement
  returns or raises. *Time passes* (`WF Tick`).
- *A publish ends* (`WF PublishEnds`), confirmed or with an exception. This is asked of
  the broker: `notify.py:91-104` sets no timeout on the connection, the channel, the
  exchange or the message, and a broker that keeps silent keeps the run, and with
  `max_instances=1` the scheduled sweep, for ever.
- *The sweep reaches a problem that persists, again and again* (`SF SweepTriages`): the
  interval job (`scheduler.py:249-272`) starts it again, and not every time an
  earlier signal of its loop raises.
- *Not all answers to the sweep raise* (`SF SweepClassifies`, `SF SweepRecords`): a model that
  answers each time with a severity that is a list, or a hypothesis that the database
  refuses, keeps an incident unpaged for ever (section 7). Answers to the other caller
  may raise every time.
- *The broker takes one of the sweep's pages, if pages for a key go on being sent* (`SF
  SweepDelivers`): an outage ends. It is asked of the sweep's own runs only; the other
  callers may fail for ever.
- *Requests return* (`WF Returns`, `llm_timeout_s`), and of those that go on being sent,
  some are answered (`SF Responds`): the gateway's outage ends.
- *An affordable call comes when the breaker would admit it* (`SF Arrives`): the sweep's period
  (60 s) is twice the cooldown (30 s), so each open breaker meets a caller after its
  cooldown.
- *Every await of a meta sweep ends* (`WF SweepStep`): requests time out, statements return or
  raise, and a triage does too, with the same demand on the broker. *The interval job
  starts its sweep again* (`WF Start(scheduled)`, `scheduler.py:273-283`). Triages may raise
  every time (`TriageRaises`).
- *RabbitMQ's API answers the scheduled sweep now and then* (`SF ScrapeQueues`), if it goes on being
  asked. The Docker proxy and the agents may fail for ever.
- *Time passes* in the client (`WF Tick`).
- *`Heartbeats`*: every await of the scheduled sweep ends and its job starts it again; the
  agent is not restarted for ever; a job's database, if it goes on being asked, now and
  then lets a pool open, a query run and its answer arrive. Neither the beats nor the
  other reader are fair.
- *`CostRollup`*: the two loops run on, their statements return or raise (`WF
  SnapshotStep`, `WF PruneStep`: `while True` around a `try` that catches all,
  `api.py:273-328`); a stopped process is started again (`WF Boot`); a spending agent has
  now and then a round in which it answers with a number and no agent before it in the
  registry answers with junk (`SF Reaches`). The last is asked of the agents: one that always
  answers with junk keeps the costs of all those after it out. That the process keeps its loops
  is a premise of the two properties: one that booted without its database never
  starts them.
- *`DashboardSession`*: responses come (`WF Responds`). That the user reloads a page now
  and then, and leaves the other tabs alone, is a premise of `NoLockout`, not a fairness of
  the code.
- *`OperatorActions`*: the next step of a request is taken (`WF Steps`): statements return
  or raise, calls time out. That a request ends although every secret collides is the
  work of the code.

No fairness is put on faults, operators, the prune of incidents, the model's answers, or
callers other than the scheduled ones.

## 6. Proofs

`TriageProof` proves, for any finite or infinite set of keys and callers, any window, retention,
number of attempts and bound on faults that the named assumptions allow:
`TypeCorrect`, `SuppressionIsSound`, `PagesHaveACause`, `FailedPageIsNotLost` and
`FirstPageIsCarried`, that is, every safety invariant of the run `triage`.

None of these is inductive. The invariant that is adds what is true in the middle of a
run:

- `Keyed`: a run at work has a key; it has failed no publish before it starts to page,
  and fewer than it may while it pages;
- `ReadInv`: between SELECT and INSERT, what the run remembers is no younger than the
  row; the row is gone only if it was past its retention; and if nobody upserted the key
  since (`raced` is false), it is exactly the row's age. This is what makes a suppression
  computed from a stale read sound;
- `DecisionInv`: after the INSERT, `supp` says that the row found was recent, and its
  absence that it was not or that the run was overtaken; a suppressed run is not
  critical, and a run in `notify` has passed `Alerts`;
- `OwedInv`: an owed page is flagged and nobody is about to clear the flag;
- `FlightInv`: the row of a run in flight is present, and not older than the retention
  (this is where `RunsAreShort` is needed);
- `KnownInv`: people know of a resolved incident, and of one whose flag is about to be
  cleared;
- `UnpagedIncidentHasCarrier` itself, for which `CarrierMoves` shows that a run that
  carries a first page keeps carrying it.

There is one step lemma per part, split by action, and a temporal theorem that puts
them together.

It also proves `TriageImplementsAlerting`: `Spec => LifecycleKept`, from
the same invariant and the same assumptions. One lemma per action names the abstract
step it is (`InsertIsOpen`, `DeliverIsPage`, `PublishFailsIsPage`, `MarkIsGiveUp`, `ClearIsSettle`,
`ResolveIsResolve`, `PruneIsForget`, `FaultIsFault`, `QuietStep`); what a step leaves alone is
proved once (`PhaseKept`, `ClearingKept`). `FlightInv` is needed because a page for a missing row
would be a page for no incident, and `KnownInv` because a reopened incident must
have been known.

`LLMClientProof` proves `TypeCorrect`, `BreakerIsFair` and `CapIsNearlyKept`, for any
finite set of tasks and any threshold, cooldown, cap, ceiling and number of retries.
`BreakerInv` says that the count never exceeds the outages and that a tripped breaker
has counted the threshold. `SpendInv` is the interesting one: what is spent, plus one ceiling for every
metered request in flight, stays below the cap plus one ceiling for each task, because
a request goes out only while `spent < JobCap`. It is a statement about the
cardinality of a changing set, which the finite-set library's facts carry.

`MetaSweepProof` proves `TypeCorrect`, `CrashLoopIsKept` and `CrashLoopsAreRestarts`, for any sets
of targets and sweeps, any thresholds and bounds.

- For the first of the two, the argument is that a delta is never too small: no row
  holds more than what has been seen (`SeenInv`), no snapshot does (`PrevInv`), and `seen` only
  grows (`SeenGrows`), so a count that exceeds `seen` by the threshold exceeds whatever the
  statement read by at least as much (`JumpIsSignalled`). `SweepMoves` says that a sweep drops a
  signal only by triaging it, and `IdleInv` that no sweep starts with one.
- For the second, `UnmovedInv`: of a container whose count never changed, every row,
  inspection and snapshot holds that count or nothing, so its delta is never positive.
  It holds through faults, prunes and outages.

`CostRollupProof` proves `TypeCorrect`, `PruningCounts` and `SnapshotsAreFiled`, for any
agents, models and reported figures and any retention of three days or more.

- For the first of the two, the danger is a row that is written after the pass has rolled
  its day up and before the pass deletes it. `InTime` bounds how far each loop lags behind
  the clock: a round that began yesterday, or a pass that did, is over before tomorrow. A
  round therefore never writes to a day that a pass may delete, and `RolledUp` says
  what a pass has done so far: of the days before the day before it began, all that was
  ever written is in `daily`, for the totals after one statement, for the models after
  another.
- For the second, `Peaked`: what a round has in hand of an agent is no more than the agent
  had on the day it is filed under; and `Labelled`: no row of a model comes under the
  name of the total.

`OperatorActionsProof` proves `TypeCorrect`, `SecretsAreStored`, `LogIsTrue`,
`RevokedTokenHasOneRow` and `LogIsComplete`, for any finite sets of operators and prefixes
and any number of attempts. `OpInv` says that what a request is about fits its operation
at every stage, and `RequestMoves` how a request can come to its audit row; the rest is
one invariant for each theorem.

- `StoredInv`: not only a secret that was shown, but one that is about to be, is stored;
  a prefix that is taken stays taken (`StoredStays`).
- `TruthInv`: a request that will be recorded as done (a triage, a mint, a revocation, or
  a scan with `ok = true`) is done, since before the row, not since the row.
- `Once`: of the operators who revoke a token, one finds it active; it has yet to
  append its row, or has. There is never both a row and one to come.
- `NumbersInv` and `CompleteInv`: no two requests share a number and none takes effect
  twice, so what took effect has one carrier; and the carrier goes on to its answer only
  with its row in the log. Without the second part a request could end silently.

`DashboardProof` is about both halves of the dashboard. Of `Fleet` it proves `TypeCorrect`,
`BoardsAreRecent`, `SnapshotsAreCurrent` and `TokensOutliveCalls`, for any agents and
viewers, any lifetimes, and any bound on a gather below the renewal margin and the life
of a token.

- `GatherInv`: what a gather has heard of an agent that has not changed since it began is
  what that agent still answers, path by path (`Told`). `CacheInv` says the same of a
  cached board, with the age of the entry and the longest gather that can have written
  it, and `AnswerInv` of an answer. The snapshot loop skips the cache, so that its
  answer carries only its own gather: the two bounds come from this difference.
- `TokenInv`: the life left of a gather's token and the age of the gather together exceed
  the longest gather. Time takes from one what it adds to the other.

Of `DashboardSession` it proves `SessionTypeCorrect`, `ReloadsHeal` and
`TabsLeaveEachOtherAlone`, for any finite set of tabs.

- `FreshIsFresh` is a counting argument: the tabs and the jar hold at most two tokens per
  tab and one more, so that a nonce is free. All three theorems need it.
- `PostInv`: a tab whose page holds the cookie of now has sent that cookie with its
  request. Its form can therefore not be rejected after another tab's token came and
  went, because a token that was replaced never comes back.

`HeartbeatsProof` proves `TypeCorrect`, `OverdueJobsAreSilent` and `PoolsStayFew`, for any
jobs, any number of overlapping beats, any finite set of readers, any interval and any
bound on a beat.

- `RowInv`: wherever a row is, in the table or in a reader's hands, its `ts` is older than
  its write by no more than a beat takes. It must hold of what was read, because the
  table may have moved on when the signal is made.
- `PoolInv`: the pools opened, with the callers who are opening one, are no more than the
  callers. What makes it inductive is that a pool that is not cached has never been
  opened: whoever is opening one looked it up before the first.

`RateLimiterProof` proves `TypeCorrect`, `LimitIsKept`, `RefusalsHaveACause` and
`PausesHeal`, for any replicas and requests, any rate of two or more, any bound on faults
and hosts that booted whenever.

- `ChargeInv` is the accounting behind the limit: for every `n` up to a minute, what was
  taken in the last `n` ticks, with what the bucket in Redis and the local buckets in use
  still hold, is at most a burst and `n` ticks' refill for each bucket that has been in
  use; a local bucket that is not in use is full. It has to be stated for every `n` at
  once, because a tick turns the statement for `n` into that for `n + 1`; `taken` keeps
  all of them for this reason. The sum over the local buckets is the cardinality of the
  set of their tokens (`Spare`). The premise is that the clocks agree (`StampInv`).
- `BusyInv` is the same from below: a bucket lacks no more than what was taken since it
  was full, so an empty one means that a whole minute's tokens are gone.
- `StampInv`: while the clocks agree, the bucket is stamped by a clock that agrees too and is
  not in debt. `QuietInv`, which needs no agreement: an idle bucket has aged or filled for
  as long as no limiter has decided.

**Model-checked only.** The liveness properties (of `TriageLive`, `MetaSweepLive`,
`LLMClient`, `Heartbeats`, `CostRollup`, `DashboardSession` and `OperatorActions`): they
need fairness and `ENABLED`, which the prover does not handle. The violation is TLC's
counterexample. No definition is recursive, so no proof needs an induction over data. The
`TypeOK` of the six newer modules is part of no run; it is proved.

## 7. What is not modelled

- In the meta sweep, the signals that one reading decides (not ready, slow, OOM,
  exited, unhealthy) and the host's memory: they depend on nothing that an earlier
  sweep left behind. That two containers share the failure of one is in
  `AfterFailure`, which drops all readings in hand.
- The text of prompts, pages and logs, and parsing of settings: no property is about
  them. The severity a model answers is a choice of all of them, of one that is not
  recognised, and of an answer that raises (`AnswerRaises`).
- `notify.py`'s connection: it is opened and used under one lock. `close` does not take
  the lock, but nothing in the repository calls it.
- The readiness flag of `server.py`: it is set once and cleared once, by one task.
- `auth.py`'s refresh tokens: `pop` has no await in it, and nothing in the repository
  calls it. JWT encoding. The role that a new token is clamped to
  (`pat_routes.py:36-40`), which is one comparison.
- The rolling counters of requests and errors (`metrics.py`): `Fleet` takes it as given
  which agents fail more than a tenth of their requests.
- The readers of costs, of the audit log and of the panels: SELECTs of one request.
- The platform CLI: commands run by hand that read, change and replace a `.env` file.
  The replacement is atomic; two commands at once lose one change, and nothing says
  that two may run.
- `egress.py`: matching one host against a list, no state.
- `config.py`, `prompts.py`, `observability.py`, `web.py`, `db.py`, `views.py`,
  `registry.py`, `doctor.py`, `compose.py`, `token_cmds.py`: pure functions of one
  request or one command, or I/O without a decision.
- Postgres, RabbitMQ, Redis, the gateway, Docker and the control server are
  environments: a statement takes effect once or not at all, a page is confirmed,
  refused, or taken without confirmation, a request is answered, fails, or fails after
  it took effect.

### Known disagreements

Where the code does not do what a comment or a docstring says. The models do what the
code does; apart from `lost_page` no run shows these.

- `graph.py:109-110` promises that a page that was given up is tried again. The run that
  has delivered a retried page clears the flag because of the status that its upsert had
  returned (`graph.py:252`); a mark set by another run in between is cleared with it.
  `FailedPageStaysFlagged` shows that this race is the only way to lose a flag.
- `llm.py:242` says a single half-open trial; `check` lets every caller through once the
  cooldown is over.
- `store.py:340-343` says that overlapping sweeps cannot lose a crash-loop delta. Two that
  meet at a container without a row take their snapshots first and both get `None`.
  `CrashLoopIsCarried` shows that it takes a missing row.
- `container_to_signals` calls the previous value the last one seen; an inspection that
  failed is recorded as 0 (`collectors.py:669-679`), so the next good reading may be a
  crash loop that never was. `CrashLoopOnlyIfRestarted` shows that a container whose count
  never changed is not paged without such a 0.
- `heartbeat_to_signal` speaks of a *successful* run within the interval; any beat counts,
  also that of a run that has only started. A failed beat that is overwritten before a
  sweep reads it is never signalled, nor is a job whose table does not exist: its read
  fails, and it is skipped (`collectors.py:858`).
- `metrics.py:138-145` leaves a long-lived process without a reset at midnight, while
  `dashboard/store.py:164-168` takes its total for that of the day: what was spent
  yesterday counts again today. Since rows of cost zero are kept too, `last_active` can
  be a day without spend.
- `dashboard/api.py:229-230` says that the series is skipped until the database returns;
  without a pool at boot, or a schema (`api.py:255`), this process never starts its
  loops.
- `panel_routes.py:69-71` says a live fan-out on each call; the board comes from the cache
  for `cache_ttl_s`.
- A tile is green when the answer of `/readyz` was lost, and one answer that cannot be
  decoded ends the gather of the whole board (`aggregator.py:249`).
- `server.py:315` says a separate, stricter limiter for LLM paths: it has the rate and the
  key of the other, so such a request takes two tokens of one bucket, and with a rate
  of 1 none passes. With clocks that disagree, a client may be refused although it took
  nothing, until it pauses for the bucket's expiry (`PauseHeals`).
- `server.py:201-202` and `215-216` say that readiness is withdrawn before the pools are
  closed; the wrapped lifespan has ended by then.
- BR-009 (`docs/business-rules.md:58`, `64`) and `docs/domain-model.md:89` want one page per
  firing incident and none for a repeat. `decide` (`graph.py:193-205`) also pages for every
  critical repeat, and again when a problem was silent for a window.
  `PagesOnlyWithCause` says what the code does, with these among its causes.
- `classify` falls back on any failure of the model (`graph.py:121-160`), but looks its
  severity up outside the `try`: a list or an object raises `TypeError` at line 151. So does
  the INSERT for a hypothesis with a NUL. The run is gone, and the signals that its sweep
  still had with it (`scheduler.py:78-82`, `197-201`); a crash-loop delta that was
  recorded in that sweep is not signalled again.
- `dashboard/store.py:204` calls an agent's figures untrusted, but only its keys are
  checked: `float()` of a figure that is no number (180, 216) raises under the one `try`
  around all agents (`api.py:279-305`). An agent that always reports one keeps the costs
  and heartbeats of those after it in the registry out of the database.
- `server.py:76-77` says that the limit is shared across replicas. Between hosts that booted
  at different times, a call from the later clock refills the shared bucket by the
  difference (`server.py:117-127`), and a minute may pass more than a burst and its refill.
- The row of a pipeline run carries no `ok` (`dashboard/api.py:821`) and is written after a
  409 or an unreachable control server too, so the log does not say whether it started.
