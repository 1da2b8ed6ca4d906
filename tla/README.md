# TLA+ models of the D365 employee portal

The portal lets an employee sign in with Microsoft Entra and see his or her own
profile and leave balances, which a FastAPI backend reads from Dynamics 365
(D365) with an application identity that may read everyone's. These modules
model the parts of the system whose correctness depends on the order in which
things happen: who a caller is bound to, which token a call to D365 carries,
which signing keys and access tokens are trusted, which connection a request
holds, which entity a query goes to, and what the page in the browser shows
whom. TLC checks them on small instances, and TLAPS proves
their main safety properties for every value of the constants.

`PROJECT.json` names, for every definition, the lines of the source it
translates, for every property the run that checks it and a mutated definition
that the run refutes, and for every hazard of the code the properties that guard
against it.

## 1. Inventory

Two gunicorn workers run the backend, each with one asyncio loop. A coroutine
can be interleaved with others at every `await`, and with those of the other
process at every statement, so an action of a model is the code from one await
to the next. Paths are relative to `src/backend/app` unless they start with
`src/`.

| Component | State | Operations | Interacts with | What is hard |
|---|---|---|---|---|
| Identity resolution (`employees/`) | rows of `employee_identity_mapping` and its history | `find_verified`, `provision`, the three `/me` routes | D365 client, audit, approval tool, database | check and insert in two steps; a lost race; two commits per request |
| Approval tool (`tools/create_identity_mapping.py`) | the same rows | check, insert | requests that provision | no lock between the two |
| Audit (`audit/service.py`) | rows of `audit_event` | `record_audit`, a commit | every route | a crash between commits |
| D365 token service (`d365/token_service.py`) | a cached token, an asyncio lock | `get_access_token`, `invalidate` | MSAL with a cache of its own, every call to D365 | who refreshes, tokens about to end, a rejected token |
| D365 client (`d365/client.py`) | one call's attempt, refresh flag and token | `get_entity`, `get_metadata` | token service, D365 | 401, 429, 5xx, network errors and retries in any mixture |
| Signing keys (`auth/service.py`) | the cached key set, its time, a lock | `_get_key`, `_refresh_keys` | Entra, every request | expiry met by many requests, rotation, late or failed answers |
| Token validation (`auth/service.py`, `dependencies.py`) | the token a request came with | `get_current_user`, `validate`, `require_roles` | signing keys | checks of a token that has waited for its key, which another request may have fetched |
| Sessions and readiness (`database/session.py`, `health/`) | pooled connections | `get_session`, `database_is_ready` | every request, D365 | connections held across slow calls |
| Entity mappings (`tools/apply_d365_mapping.py`) | rows of `d365_entity_mapping` | validate a file, upsert its items | metadata, profile and leave services | overlapping runs, columns a file is silent about |
| Profile and leave services (`d365/profile_service.py`, `leave_service.py`) | one request's configuration and records | `get_profile`, `get_balances` | entity mappings, D365 client | two entities, rows that change meanwhile |
| Metadata (`d365/metadata.py`) | none in use | `fetch_xml`, `parse`, `search` | D365 client | size limit |
| OData queries (`d365/query.py`) | none | build, validate, escape | services | pure |
| Read-only tools (`tools/`) | none | look up, search, test | D365 client | one read each |
| Frontend (`src/frontend/src/App.tsx`) | the React state of one page | `signIn`, `signOut`, `showProfile`, `showLeave`, the effect for `/me` | MSAL in the browser, the API through the gateway | answers after sign-out, state that outlives the account |
| Gateway (`src/nginx/nginx.conf`) | requests on their way | turn away, forward, time out | browser, backend | 60 s here, more than 120 s behind |
| Configuration, middleware, assembly (`core/`, `main.py`) | none that changes | | | |

What makes each correct:

- *Identity*: a row says only what D365 or an administrator stated; one row per
  person; a caller sees only the worker of his or her own row; a withdrawn row is
  not used; the loser of a race is served and not refused; rows and history agree;
  nothing is answered that is not audited.
- *Token service and client*: one acquisition at a time, none needless, no token
  that is about to end, bounded requests, every call ends.
- *Signing keys*: one refresh at a time; a withdrawn key loses its trust in time
  whatever fails; no key is refused on old knowledge; every request ends.
- *Token validation*: only the bearer of a token that is genuine when it is judged
  is let in or told why not; a good token is not refused because of the keys that
  were fetched, or not, for others.
- *Page and gateway*: no tab is ever blank; a spinner stands for a request under
  way and stops; an error beside data has a cause; what a sitting has asked for is
  its person's own; who sees data is in the audit trail, and who is refused is not.
- *Sessions*: nothing leaks, everyone ends, readiness tells of the database.
- *Entity mappings and services*: what a query uses was checked against the
  metadata; answers stay within the worker and company and keep hidden records
  hidden; a run of the tool does what its file says or fails for cause.

## 2. Modules

| Module | Models | Composes |
|---|---|---|
| `IdentityRegistry` | what identity resolution promises, without rows, races or audit | |
| `Identity` | `provisioning_service`, `mapping_service`, `router`, `audit/service`, `create_identity_mapping` | implements `IdentityRegistry` |
| `IdentityRaces` | `Identity` with a history variable: which rows a creator of a mapping saw | extends `Identity` |
| `IdentityProofs`, `IdentityRefinement` | theorems | extend `IdentityRaces` and `Identity` |
| `D365TokenService` | `token_service`, with MSAL from its use | |
| `TokenCache` | what the token service promises, without clock, lock, queue or retries | |
| `D365Client` | `client.py`, several calls at once | extends `D365TokenService`, implements `TokenCache` |
| `D365Proofs` | theorems | extends `D365Client` |
| `EntraKeys` | the key cache of `auth/service.py` | |
| `EntraKeysProofs` | theorems | extends `EntraKeys` |
| `TokenValidation` | the rest of `auth/service.py`, `auth/dependencies.py` | extends `EntraKeys` |
| `TokenValidationProofs` | theorems | extends `TokenValidation` and `EntraKeysProofs` |
| `ConnectionPool` | `session.py`, `health/service.py`, and the requests that use them | |
| `ConnectionPoolProofs` | theorems | extends `ConnectionPool` |
| `EntityMappings` | `apply_d365_mapping`, `profile_service`, `leave_service` | |
| `EntityMappingsProofs` | theorems | extends `EntityMappings` |
| `Gateway` | `nginx.conf`, and the route behind it up to its answer | |
| `PortalPage` | `App.tsx`, one page and all its requests | extends `Gateway` |
| `PortalProofs` | theorems | extends `PortalPage` |
| `MC...` | the instances TLC checks: model values, spellings, files, symmetry | |

Each definition named `X_Something` is a *fault*: a plausible mistake in the code
that `X` models. It is used by nothing; putting it in the place of `X` must make
the run named in `PROJECT.json` fail, which shows that the property depends on
the code.

### Identity

`mappings`, `history` and `audit` are the committed rows. `pc[r]` is where request `r` is,
`held[r]` the `EmployeeIdentityMapping` object it has, as it was when it was read. The
phases are the awaits of `resolve_identity` and `provision`: `find` (`find_verified`),
`configure` and `lookup` (the exact-UPN query), `conflicts` (`_find_conflicts`), `insert`
(commit, or `IntegrityError` and rollback), `recheck`, `auditProvision`, `fetch` (profile
or balances), `auditView`. `CommitMapping` commits the row and its history together and
`RollBackMapping` neither. `Abort` ends a request at any await, as an exception, a
disconnect or the death of the process does. `ApproveCheck` and `ApproveCommit` are the
tool. `Suspend` is an administrator's edit of `enabled` or `verified`: it is assumed that
rows are only withdrawn, and never enabled again or edited otherwise, which no code of the
repository does either. D365 may answer the lookup with anything: an error, no list,
several records, or one of anybody.

Data: object ids are model values with several *claims* that spell them
(`Canonical` is `str(UUID(..))`), companies have spellings with a `CaseFold`; the
code compares them exactly in some places and folded in others, and so do the
actions. `vouched` and `barred` are auxiliary: who was ever stated to be which
worker, and which rows were withdrawn when a request looked.

`IdentityRegistry` is what remains when all that is forgotten: people are bound
once, only as stated; bindings are withdrawn; a caller is told of the worker of
his or her own binding if it stood when the request looked. The refinement
mapping at the end of `Identity` computes the registry's state from the tables.

`IdentityRaces` adds `seen`: the rows that were in the table when a creator
looked for conflicts and found none. It constrains nothing (`Remember` sets it in
every step of `Next`), and lets a property say who could have known of whom.

### D365TokenService and D365Client

The lock is `holder` and `queue`: `asyncio.Lock` hands itself to the first waiter,
which runs later. `Ask` is `get_access_token` up to its first await;
`ResumeReusing` and `ResumeAcquiring` are a waiter that wakes and finds the token
fresh or not; `ObtainCached`, `ObtainNew` and `Fail` are MSAL's answers in the
worker thread. MSAL keeps a cache of its own, given to it in `_build_application`, and
returns the token in it while it has `Skew` left, or may get a new one. Time is a
counter; `since` is the code's `now` of before the acquisition, from which the
expiry is reckoned. `Lifetimes` are what Entra may grant, zero included.

The client's `_get` is `Begin`, one `Send` per attempt, and after each answer
`Conclude` (success or a terminal error), `BackOff` (throttling, network errors, 5xx:
the next attempt or the end), `Refresh` (the first 401) or `GiveUp` (the second).
`Accepts` says whether D365 takes the token: it has not expired and was not
revoked. How long the client sleeps is left out; other calls and time may come
between.

`TokenCache` forgets the clock, the queue, MSAL and the reasons of failures. A call
is answered at once (`Hit`), or joins those that wait (`Join`); one of them at a time
asks Entra (`Join`, `TakeOver`) and ends with the newest token (`Fill`) or none
(`Abandon`), and the others share what it brought (`Share`). The mapping at the end
of `D365Client` takes the one that acquires for the filler, those inside
`get_access_token` for the pending, and a request at D365 for a held token.

### EntraKeys

`line` is the lock with its waiters. `Look` is `_get_key` until it answers from the
cache, or waits for the lock, forced (an unknown key id) or not (an expired
cache). `ResumeUsing` is the early return of `_refresh_keys` for a cache that is
fresh by now, `ResumeFetching` goes on to fetch, `Answer` is Entra's answer being
made, which is in transit for up to `FetchTime`, and `Store` or `FetchFails` its arrival.
`Rotate` changes what Entra publishes. `lastPublished`, `answeredAt` and
`consulted` are auxiliary. `Leave` is a request that ends without a look.

### TokenValidation

`Arrive` is a request that comes with credentials whose header names a key, up to where it
waits or is judged; `GoOn` is any step of `EntraKeys` that takes a waiting request
further, with `Conclude` for what the step means to it; `Reject` a request with no
credentials or an unusable header. `Judge` has the checks in the code's order: `Decodes`
(signature, times, issuer, audience, the claims that must be there), tenant and version,
client, scope, object id, role. They run in one step with the end of the wait, because no
`await` separates them, and at the clock of that step: `Leeway` is `jwt.decode`'s. A claim
is modelled by whether it is the right one (`flaws`), a signature by the key that made it.
A malformed key in Entra's answer, which raises an exception that nobody catches, ends the
request as `FetchFails` does, with a 500 for its 503. `arrived` and `lastHidden` are
auxiliary.

### ConnectionPool

`held` are the connections in use. `Ask` is a session's first statement or the
probe's `engine.connect`, `Connect` and `ConnectFails` the pool's answers, `Call`
and `Return` a request to D365 in the middle of a transaction, `Commit` and
`Raise` the ways in which a session gives its connection back, `Ping` the
probe's `SELECT 1`. `Outage` and `Recover` are PostgreSQL. `Tick` lets time
pass, for nobody beyond a timeout.

### EntityMappings

`mapping` is the table, one row or `None` per key. A run of the tool validates its whole
file (`Validate`), reads the row of each key (`Load`, one SELECT each), and commits
(`Commit`): new rows get the defaults of the model where the file is silent, and of an
existing row only those columns are written that the file names *and* that differ from the
value the run has read, since SQLAlchemy's UPDATE has only changed attributes.
`CommitFails` is the unique constraint, and `Dies` every other end before the commit: an
item without a key, a value the table refuses, a lost database or process. A request reads
its row (`Start`, for leave perhaps later `FallBack`), queries D365 and checks what comes
(`ShowProfile`, `ShowLeave`, `AskFails`). D365 refuses a query for columns it has not and
may otherwise return any records.

### Gateway and PortalPage

`shown`, `name`, `loading`, `error`, `view` and `account` are the React state of `App`
(`profile`, `leaveBalances`, `mappingStatus`, `displayName` and so on); of a record
they keep whose it is and in which sitting it was asked for. A sitting begins with
`SignIn`, whose effect asks for `/me` at once (`AskAgain` is the effect running again for
the same account), and ends with `SignOut`, which clears
the account and nothing else. `Show` is `showProfile` or `showLeave` when there is
nothing to show yet, `Return` the same when there is, `Dashboard` the navigation
back. A request waits for MSAL (`GetToken`, `GetNoToken`, `by` being the account its
closure holds), then for an answer, and stores what arrives (`ArriveData`,
`ArriveError`), whoever is signed in by then. `session`, `during` and `crowded` are
auxiliary.

On its way it is turned away (`TurnAway`: `limit_req`, or no backend) or forwarded; nginx
gives up after `proxy_read_timeout` (`GiveUp`) while the backend goes on, which refuses
(`Refuse`), or records the view (`View`) and then answers (`Reply`), or dies (`Die`, which
is also a record whose commit was not acknowledged). Only the first answer reaches the
browser. What the route does before, and for whom, is `Identity`.

## 3. Runs

| Run | Instance | Distinct states | Shows |
|---|---|---|---|
| `identity_race` | 2 requests, 1 approval, 1 person in 2 spellings, 1 worker, 2 spellings of the company | 961 000 | types; history and rows agree; answers and creations are on record; withdrawn rows stay out; nobody is refused without cause |
| `identity_registry` | 1 request, 1 approval, 2 persons, 4 claims (one not a UUID), 2 workers | 93 000 | one row per person, and two of a worker only by a race; rows are vouched for; answers and audit events are of the caller's own worker; refinement of `IdentityRegistry`; every request ends |
| `identity_duplicate` | 1 request, 1 approval, 2 persons, 1 worker | violation | one worker can be the active identity of two persons |
| `identity_creation` | 2 requests, 1 person | violation | a creation can stay unaudited |
| `d365_calls` | 2 calls of 3 attempts, 2 tokens, time 0..3 | 448 000 | types; one acquisition; no usable token that is about to end; bounded requests and a refresh that is of use; no needless acquisition; every call ends; refinement of `TokenCache` |
| `d365_refresh` | 1 call of 2 attempts | violation | the refresh after a 401 may bring the rejected token |
| `entra_keys` | 3 requests, one of them with any of 10 tokens or none, 2 key ids, 1 rotation, leeway 1, time 0..2 | 742 000 | types; one refresh; trust ends; refusals are heard; expiry is met once; only the genuine are told; good tokens pass; every request ends |
| `pool` | 3 requests, 1 probe, 2 connections, 1 outage | 199 000 | types and limit; nothing leaks; false alarms need every connection; everyone ends |
| `pool_readiness` | the same with 2 commits | violation | slow calls to D365 make readiness fail |
| `mappings` | 3 runs of the tool, 5 files, 1 request, 2 workers, 3 spellings of companies | 627 000 | types; scoped answers; unconfirmed rows come of files that disagree on the entity, and their columns were each confirmed; runs are refused for cause; files are applied as they are, but for columns another run changed after they were found so |
| `portal` | 2 people one after the other, 3 requests | 296 000 | types; no blank tab; errors beside data need overlapping requests; strangers' data are leftovers; data mean an audit event; every spinner stops |
| `mappings_confirmed` | 2 runs, 5 files | violation | a confirmed row may have a column its entity lacks |

### Why the bounds are enough

- *Identity*: every race in the code is between the steps of two actors on one row, so two
  requests of one person and one run of the tool reach each of them, with a third row
  impossible for one object id. That answers keep people apart needs two persons and not
  two requests, and has a run of its own. The two spellings are there because the code
  compares spelled and folded values in different places.
- *D365*: two calls suffice for a lock with a waiter and for a 401 that arrives after the
  other call has renewed the token. Three attempts contain every order of a refresh, a
  back-off and an end. `Skew` 2, `MinLife` 1 and lifetimes 0 and 3 keep the order of the
  code's 300 s, 60 s and Entra's hour, and a life below the minimum. The bounds are
  `MaxTime`, `MaxIssued`, `MaxRetries`, `MaxRevoked`.
- *EntraKeys*: three requests give a holder and two waiters of different kinds. `MaxTime`
  exceeds `CacheLife`, so the cache expires; one rotation gives a withdrawn and a new key.
  The bounds are `MaxTime` and `MaxRotations`. One request may come with any of the
  tokens: good ones, one that expires within the run, one that is not valid yet, a forged
  one, one without a key id, and one for each answer that a wrong or missing claim can
  get, with a flaw of a later check beside it. (A wrong issuer, audience or version is
  answered as a wrong tenant is.) The others come with good tokens, since only their looks
  for a key can touch it. `Leeway` 1 lets the clock pass both boundaries of a token's
  times.
- *PortalPage*: two sittings are what it takes for data to outlive an account, and three
  requests for two that overlap on one tab beside the `/me` of a sitting. The bounds are
  `Sittings` and `MaxFetches`.
- *ConnectionPool*: a database that is up takes no unit of time for a statement, so the
  false alarms of `FalseAlarmNeedsEveryConnection` are those of slow calls to D365 and not
  of a slow database. One request more than connections, `CallTime` longer than
  `PoolTimeout` as in the code (four attempts of 30 s against 30 s). The bounds are
  `MaxCalls`, `MaxCommits` and `MaxOutages`; `MaxCommits` is 1 where the liveness is
  checked and 2, a request's audit commits, in the other run.
- *EntityMappings*: two runs that overlap on a row that a third has inserted reach every
  mixture of two files. The files are one that confirms all, one that names every column
  and clears one, one that only names the entity, one that disables, and one that is
  wrong. Two records of D365 are enough for any two to differ.

The requests, calls and runs of an instance end, so each specification has a step
`Finished` that stutters when all have; TLC checks for deadlock everywhere.

### Fairness

Safety is checked and proved without fairness. Liveness assumes weak fairness of each
request's or call's own steps: the event loop runs every coroutine that is ready, httpx,
MSAL's thread and the pool give up when their timeouts have passed, and PostgreSQL answers
or fails. In `PortalPage`, MSAL in the browser and `fetch` end with each request that has
an answer, and nginx turns away, forwards or times out; neither the user nor the backend
is assumed to do anything. Nothing is assumed of time, of D365 or Entra answering well, of
administrators, of outages ending or of runs of the tool; an answer that never comes is a
failure that the timeout reports.

## 4. Findings

Each is a violation run; `PROJECT.json` quotes the sentence that the code does
not keep.

1. `NoDuplicateWorker`: `_find_conflicts` and the tool's query are reads with no
   lock, and only the object id is unique in the table. A first access and an
   approval that overlap bind one worker to two people. README.md says duplicate
   mappings fail closed.
2. `CreationIsAudited`: the mapping and its audit event are two commits; a request
   that dies between them leaves a mapping whose creation is never recorded.
3. `RefreshBringsAnother`: `force_refresh` passes by the service's cache but not
   MSAL's, so the retry after a 401 may carry the token D365 has rejected.
4. `ReadinessIgnoresD365`: sessions keep their connection while D365 does not
   answer; when that exhausts the pool, `/health/ready` reports the database down.
5. `MappingsAreConfirmed`: the tool validates the file and not the row that results;
   columns the file does not name stay from an earlier one and are marked confirmed.

Three remarks need no run, since they hold of single statements: every 409 of
`provision` is raised before anything is audited, where SECURITY.md line 45 asks for
conflicts in the trail; `/me` answers an unmapped caller, where SECURITY.md line 11
speaks of callers with a verified mapping; and a first 401 on the last attempt
drops the token and ends the call as unavailable. `StrangersAreLeftovers` says what
the page guarantees after a change of account, and no more: what the last person
has seen is there for the next until the page is loaded again.

## 5. Proofs

TLAPS proves each theorem for all values of the constants that satisfy the named
assumption of its module. The assumptions say what constants are: numbers are
numbers, `None` is none of the values, actors of two kinds are different, the pool's
actors are finitely many, and `Skew` is more than zero, as the code's 300 s are. None
says anything about behaviour. Two theorems name a hypothesis of their own
(`FilesAreMeant`, `EntitiesStay`), which is about the files an administrator writes.

Beside the properties that the runs check, three kinds of theorems go further:

- *The extent of a finding.* A violation run shows that the code does not do what a
  document says; a theorem says how far it does. A creation lacks its event only if
  its request died between two commits (`CreationIsAuditedUnlessAborted`); a worker
  has two rows only if neither creator could see the other's row, or the company is
  spelled differently (`DuplicatesComeFromRaces`); a refreshed token is refused
  again only if D365 revoked it before its time (`RequestsAreBounded`); the probe
  errs only if requests that have called D365 are as many as connections
  (`FalseAlarmsAreCrowds`); a row has columns its entity lacks only if two files give
  its key different entities (`ConfirmedWhileEntitiesStay`).
- *What an abstract specification is worth.* The registry and the token cache have
  invariants of their own, proved of the abstract specification and carried to the
  code's model by the refinement (`BindingsAreForGood`, `NewestTokensLeave`,
  `TokensNeverGoBack`).
- *The safety half of liveness.* Each liveness property says that steps which are
  possible are taken; that there are boundedly many of them, that each leads on, and
  that nothing others do adds any, is safety: a number of steps left, bounded, that
  each step of its own lowers and no other step touches. With it goes that nobody
  waits but for somebody who can go on.

**Identity** (`IdentityAssumption`). The invariant is built in layers, each
inductive given those before it.

- `Typed`: `TypeOK`, and what each phase implies about `user`, `cand` and `held`.
  → `TypeCorrect`.
- `Rows`: `UniqueOid`, `MappingVouched`, and that what a request or the tool is
  about to insert was stated of the right person. Neither is inductive alone: a row is
  inserted several steps after D365 stated it. → `IdentityIsUnique`, `RowsAreVouched`.
- `Creators`: an actor's id is on a row only when it is past its insert, hence a
  new row's id is fresh. → `HistoryIsComplete`.
- `Held`: what a request has in hand is, but for its flags, a row of its own
  object id that was active when it looked, and barred rows are never active
  again. → `DisabledMappingsStayOut`, and that answers are the caller's own.
- `Refusals`: a conflict found stays one, since rows keep everything but their
  flags. → `RefusalsHaveCause`.
- `Audited`: an answer has its event; `Trail`: a creation has its event unless its
  request is about to write it or died, and an event names the worker of a row of its
  caller, which a row keeps for good. → `AnswersAreOwn`, `AnswersAreAudited`,
  `CreationIsAuditedUnlessAborted`.
- `Races` (of `RaceSpec`, every behaviour of which is one of `Spec`): what a creator
  has seen it keeps away from, at the insert because it decided so, and later because
  rows keep object id and worker. → `DuplicatesComeFromRaces`.
- `Left`, the number of phases ahead of a request: → `RequestsOnlyAdvance`.
- `IdentityImplementsRegistry`: each step of `Identity`, in a state that satisfies
  all the layers, is a step of `IdentityRegistry` or leaves its state alone;
  an insert is a `Bind`, for which the layers give that the person was unbound and the
  binding stated. `Sound`, an invariant of the registry alone, gives
  `BindingsAreForGood`: bound once, as stated, never live again once withdrawn, and one
  worker in all answers to one person.

**D365Client** (`TokenAssumption`, `ClientAssumption`). `ServiceTypeOK` and `SingleFlight`
for the service are inductive as they stand; `AcquisitionsAreSerial` and
`AcquisitionsAreNeeded` follow. `Believed` says that what the service believes of a
token's life is at most what Entra granted, or at most the minimum life counted from an
acquisition in progress, which is below the skew: `CachedTokensLive`. `Accounts` relates
requests sent, attempts, rejections and the refresh flag of a call in each of its phases:
`TypesAreCorrect`. `Learned` says what a 401 tells of the token it rejected: it is revoked
or has expired, so that the next one is newer, or revoked too; this needs
`FreshMeansValid`, `Newest` and `Skew` > 0, without which MSAL might return a token in the
second it ends. With `Accounts`: `RequestsAreBounded`. `Newest` says that what either
cache holds is the last token that Entra issued; with `SingleFlight`, which makes the
filler unique, and `Accounts`, by which a request at D365 carries a token, each step maps
to one of `TokenCache` or to none: `ServiceImplementsCache`. `CacheSound` is the cache's
own invariant, for `NewestTokensLeave` and `TokensNeverGoBack`. `StepsLeft` counts the
places of a call within each attempt, and `HolderGoesOn` says that the lock is with one
that can acquire: `CallsOnlyAdvance`.

**EntraKeys** (`KeysAssumption`). `Dated`: the cached keys and the answer in transit
were published no earlier than their dates, and the answer is no older than
`FetchTime`. It gives `WithdrawnKeysEnd`. `Heard`: a request that was told of no
key has been preceded by an answer that came after it began; it gives
`RefusalsAreHeard`. `Stocked`: Entra always publishes some key, so the cache is
empty only before its first answer, when it also counts as expired; it gives
`RefreshIsShared`. `OneRefresh` is inductive: `RefreshesAreSerial`. `AnswerIsHis`, that an
answer in transit is for the head of the line, makes the steps left of a request
countable: `RequestsOnlyAdvance`.

**TokenValidation** (`KeysAssumption`, `TokensAssumption`). Each step of a request is
one of `EntraKeys` and changes none of its variables otherwise
(`ValidationKeepsToKeys`), so the theorems above hold here too
(`KeysKeepTheirPromises`). A request is judged
in the step in which its look for the key ends, with the token it came with
(`ValidationTypesHold`). → `TheToldAreGenuine`, with `Dated`'s bound on the age of keys.
`Hidden`: a key that is missing from an answer in transit, or from the cache a
request has to go by, was not published when that answer was made; the early
return takes an answer that was made no more than its delay before the request came.
→ `GoodTokensAreHeard`.

**PortalPage** (`PageAssumption`). `Typed` adds to the types that somebody signed in
sits at the page. `Trailed`: the trail has a request exactly when its route has got as
far as recording it. → `TypesOfPage`, `AnswersAreRecorded`. `Alone`: a tab for which
requests have never overlapped has one under way at most, and then neither error nor
data. → `ErrorsBesideDataAreCrowds`. `Dated` and `Backed`: whoever sits at the page in
a sitting is whom its requests are made for, and what is shown comes of a recorded
view. → `LeftoversAreOld`. `NeverBlank` is inductive with the types: an answer that
ends a spinner leaves data or an error. → `TabsAreNeverBlank`. `AnswerAhead`: a
request the page waits for has its answer or is where nginx will give one up.
→ `FetchesOnlyAdvance`.

**ConnectionPool** (`PoolAssumption`). `CallersCall`, `OutagesTrouble` and
`WaitsForCallers`: time passes for an untroubled waiting probe only while every
connection is held across a call, so that as many requests as there are connections
have called D365; they stay that many because calls are only added.
→ `PoolIsBounded`, `ConnectionsReturn`, `FalseAlarmsAreCrowds`. Calls and commits ahead
of a request count two steps each: `ActorsOnlyAdvance`.

**EntityMappings** (`MappingAssumption`). `Checked`: a run that reads or writes has a
valid file. `Owned`: a row was written, by runs that have ended. `Read`: what a
run found is still there, unchanged unless another commit came between.
→ `TypesStay`, `FailuresHaveCause`. `Going`: a request that waits for D365 goes
by one whole row and reads with its fields. `AnswersKeepScope` then needs
`FilesAreMeant`, that the files name for the personnel number and for hidden
records the columns of that meaning, since the tool accepts any column D365 has.
`Filed`: every column of a row is a default or as the file of one of its writers has it,
and the entity is of one of them too; hence each column was confirmed, and of the row's
entity if its writers agree on that. → `ConfirmationIsLostByMixing`, and with
`EntitiesStay` `ConfirmedWhileEntitiesStay`. `Kept`: a column a run has read is as it
was, or as the file of a run that has committed since has it, so what a run leaves out of
its UPDATE and does not find as its file says is another run's. → `ApplicationIsExact`.

Checked by TLC only:

- liveness (`EveryRequestAnswered`, `EveryCallEnds`, `EveryRequestEnds`,
  `EveryoneEnds`, `EverySpinnerStops`), which the prover cannot reach; what of them is
  safety, bounded steps and nobody stuck, is proved;
- the violations.

## 6. Left out

- The content of profiles and balances, error texts, logging, headers: no property
  is about them.
- The metadata service: no code gives it a Redis connection, so its cache is never
  in use; its result is the constant `Properties`. A change of D365's metadata
  between the tool's check and a query is not modelled.
- A mapping file with a key twice; a run of the tool that loses the acknowledgement of
  its commit, after which the table is as after `Commit`.
- The default of 3600 s for a token answer without `expires_in`: Entra always
  names one.
- The OData query builder and the read-only tools: pure, or one read.
- Alembic migrations: run once before the server.
- Redis in the readiness probe: its own connection.
- In the page: the languages, texts and icons, failed popups, which bring a text
  and change nothing else, what the tabs do without an account, when they are not shown,
  and loading the page anew, which begins with the state of `Init` because MSAL keeps
  its tokens in memory. In the gateway: headers, limits of sizes, static files.
- Configuration, logging and middleware: read once, or wrapped around one request.

## 7. Plan

Done, in this order: identity and its refinement; D365 token service and client;
signing keys; connection pool; entity mappings with the services that read them;
the page with the gateway; token validation over the signing keys; the token cache
as an abstract specification and the proof that the service implements it; the
scope of answers proved; the extent of each finding, what the abstract
specifications are worth, and the safety halves of the liveness properties proved.

What could follow:

1. A shared abstract specification of a *view* (asked, recorded, answered) that both
   `Identity` and `Gateway` implement, in place of the route's outline in `Gateway`.
2. Revocation by roles: a role withdrawn from a caller shows only when the access
   token ends, which `TokenValidation` has as a token's times and does not name.
3. Metadata that changes between the tool's check and a query.
