# TLA+ model of the NetBird integration for Home Assistant

The code under `src/custom_components/netbird` is an integration of Home
Assistant: it polls a NetBird management service, shows its peers, networks and
resources as devices and entities, and removes what the service no longer lists.
Almost nothing in it is a hard computation. What is hard is *when* things run:
two coordinators poll independently, plain listeners hear of changed data only,
stale handling hears of every success, reloads wipe memory but not the
registries, requests are cancelled half way, and configuration flows overlap with
the setup of the entry they change. Around that core lie pure translations - from
an HTTP answer to an error, from a JSON body to a state - that are easy to get
wrong in one case of many. The modules here model both, TLC checks them on
small instances, and TLAPS proves all of the safety properties for every value
of the constants.

## The system

All of it runs on one event loop. A callback never awaits, so it is one atomic
step; whatever runs between two awaits of a coroutine is one too. That decides
the grain of every action below.

| Part (file) | State it keeps | Operations | Correct if | Module |
|---|---|---|---|---|
| Peer coordinator (`coordinator.py`) | `data`, `last_update_success`, next poll | refresh: success, 401, other failure | stale data is never published; the lifecycle hears of successes only | PeerMonitor |
| Peer stale lifecycle (`lifecycle.py`) | known ids, omission counts | start (reseed), handle a snapshot, clean up, Repairs | removes only what was omitted `Threshold` times in a row and belongs to it alone; says so when blocked | PeerMonitor, PeerRetention |
| Peer discovery (`sensor.py`, `binary_sensor.py`, `entity.py`) | known entities of each platform's closure | run on changed data | a listed peer has its entities, after a cleanup and return too | PeerMonitor |
| Routing resolution (`routing.py`) | none | resolve, count, availability | says nothing the snapshots do not prove | Routing |
| Routing entities (`binary_sensor.py`, `sensor.py`, `topology_entity.py`) | the state last written | written on either coordinator's listener | never out of date with either coordinator | RoutingView |
| Topology coordinator (`topology.py`) and `async_utils.py` | one refresh in flight: tasks, a semaphore, nested gathers | list, fan out, fail, cancel, drain | at most six requests, none outlives the refresh, the outcome is honest | TopologyRefresh |
| Topology stale lifecycle and discovery (`topology_lifecycle.py`, platforms) | known networks and resources, counts | as for peers, in two levels, with sections that may be unknown | as for peers; a network never goes before its resources | TopologyMonitor |
| Entry setup and unload (`__init__.py`) | entry state, runtime data, own session | setup, unload, reload | no session is lost, only the entry's own account is used | EntryFlows (and the two monitors for what setup starts) |
| Config flows (`config_flow.py`) | one form per flow | user, reauthentication, reconfiguration | what is stored was validated as a whole, and used | EntryFlows, TopologyRefresh (contract check) |
| Deployment and sessions (`deployment.py`, `transport.py`) | own sessions | resolve, open, close | every session has an owner who closes it | EntryFlows (ownership only) |
| API client and parsing (`api.py`, `models.py`) | none | one request, one body, `retry_delay` | every answer has one outcome; nothing is guessed | ApiErrors, Payloads, Polling |
| Poll scheduling (both coordinators, Home Assistant) | a timer each | scheduled and manual refresh, deferral, stop after a 401 | waits for what the service asked, goes on unless refused | Polling |
| Entities' values and names (`entity.py`, `sensor.py`, `binary_sensor.py`, `topology_entity.py`) | device names | state from a snapshot | nothing stale, defaulted or undercounted is shown | EntityValues |
| Migration and creation of entries (`__init__.py`, `config_flow.py`) | entries, entity registry, their stores | migrate, create, remove | the user's choices and existing entries stay | EntryLifetime |
| Live contract script (`scripts/live_api_contract.py`) | none | validate bodies | what it certifies is enough for the client | Payloads, EntityValues |
| Diagnostics (`diagnostics.py`) | none | read-outs | counts agree with the sensors | EntityValues (complete sections) |
| Dashboard URLs, dashboards | none | formatting | | not modelled |

How they interact: `async_setup_entry` resolves the profile, checks the account,
makes both coordinators, lets the platforms run discovery once and register as
listeners, and starts the two lifecycles last. Afterwards a refresh of a
coordinator ends in one step: it stores data and success, calls the lifecycle if
it succeeded (`_async_refresh_finished`), and calls the plain listeners if
success or data changed (`always_update=False`). Entities of networks and
resources also listen to the peer coordinator. All parts meet in Home Assistant's
entity, device and issue registries, which outlive a reload and which users and
other integrations change too.

## Modules

**PeerRetention** is the abstract promise: a peer is registered as soon as a
successful snapshot lists it, and is dropped only by a snapshot that completes a
run of `Threshold` omissions. It knows nothing of registries, reloads or Repairs.

**PeerMonitor** is the implementation. `data`, `ok`, `polling` are the
coordinator's; `discovered` is the union of the two platforms' `known_entities`
(the two closures run on the same events and differ only in their descriptions);
`known` and `missing` are the lifecycle's; `link`, `devices`, `foreign` and
`issues` are the registries, seen as: the device of each own entity, the own
devices that exist, the own devices another integration is attached to, and the
Repairs. `absent` is history: the true run of omissions, which no reload resets.
A refresh (`RefreshSucceeds`) is the whole chain of callbacks. `AttachForeign`,
`DetachForeign` and `Relink` are the rest of Home Assistant. `RequiredKeys` and
`OptionalKeys` stand for unconditional descriptions and those created once their
value is present.

**TopologyMonitor** does the same for networks and resources. A snapshot omits a
network, lists it with its resources, or lists it with an `Unknown` section (the
code's `None`). A network is cleaned up after its resources; its unique-id prefix
covers theirs (`Under`). A setup may go on without topology data
(`SetupWithoutData`). It reuses PeerRetention for its networks.

**TopologyRefresh** is one refresh: the list request, then a task per network and
section, a semaphore, a gather per section and one over both, each of which on
its first error cancels and drains its tasks. `IsCancelled` is a task's end after
a cancellation, at any later moment. The setup flow's contract check is the same
algorithm with one gather and no tolerated failure; the constants `Batches`,
`BatchOf` and `FatalKinds` select one or the other. Failure kinds are a 401, a
429, any other API error and an unexpected exception. Which error wins when a
gather sees several, and cancellation arriving while draining, are left open as
asyncio leaves them.

**Routing** holds `routing.py` as operators, and a reference: a *world* settles
everything the snapshots leave open. **RoutingView** is the two entities that read
both coordinators, with the state last written.

**EntryFlows** is one config entry: its setup step by step (`step` says which
await it is in), unload, scheduled reload, the three kinds of flow, the profile
they store and the own sessions that are open. A profile is a token and a server;
the account id, dashboard URL and CA bundle travel with the server or the token
and add no case of their own. `account` is the account the setup was answered with
(`runtime_data.account`); what the platforms create bears it, and `entities` is the
history of that. That it is the entry's own rests on the check of the setup alone,
which the mutant of `OnlyOwnEntities` drops.

Removal and creation of the entry are EntryLifetime's.

**ApiErrors** is the error hierarchy as sets, what one request ends with, and each
caller's `except` clauses as a sequence: the first clause that catches decides
(`Handle`), as in Python. **Payloads** is the parsing of each body, field by field, in
the order that decides which error is raised first, and beside it what the live
contract script requires of the same body. A field is absent, null, of a wrong
type, or has a value; one field stands for all those read in the same way.

**EntityValues** composes them: each refresh takes a reply, parses it or fails, and
either publishes a new snapshot or keeps the old one; states, totals and device
names are computed from the snapshots as the entities do. The last replies are
kept as history, so that the properties speak of what the service *said* and not
of what the code made of it. The two entities that need both coordinators are
RoutingView's.

**Polling** is what is left of each coordinator's timer, the refreshes in flight, and
the reauthentication flow. Time is relative and `Tick` takes a unit off every
timer; `owed` is what the last answer to a refresh still asks for. It uses the
clauses of ApiErrors to decide whether a refresh defers, goes on or stops.

**EntryLifetime** is the entries of all accounts over the life of an installation:
stores left by any release, migration, user flows that validate and then create,
the user's decisions about entities, removal, and the two stores that Home
Assistant saves each in its own time. `choice` is history: what the user decided
last.

**MC** modules give the constants of each their small values; **Proofs** modules
hold the theorems.

## What the runs check

| Run | Instance | What it shows |
|---|---|---|
| `peer_monitor` | 2 peers, one required and one optional entity each, foreign entities, threshold 3 | counts are earned, discovery is complete, removal is earned, PeerRetention is implemented |
| `peer_ownership` | 2 peers, one entity each, moved at will to the other peer's device, another entry's device or none, threshold 2 | cleanup is all or nothing and takes nothing of anybody else; Repairs follow what is refused, retried, removed or listed again; a reload tracks the same peers; a peer that stays away is in the end cleaned up or reported |
| `topology_monitor` | 1 network, 2 resources, unknown sections, setups without data, threshold 3 | two-level counting, discovery, tracking after reload, removal is earned |
| `topology_ownership` | 1 network, 1 resource, entities moved to either device or away, threshold 2 | no orphan, exclusive removal; a network or resource that stays away is in the end removed unless its cleanup stays blocked |
| `topology_refresh` | up to 2 networks, 2 sections, limit 2, every failure and cancellation | bounded, drained, honest, always ends |
| `contract_check` | the same with one gather | the setup flow's check always ends |
| `routing_view` | every peer list over 2 peers and 1 group, routers sections of up to 2 of 5 kinds of router | what is shown is current, and true in every possible world; what is proven is shown |
| `entry_flows` | 2 tokens, 2 self-hosted servers and the Cloud, 2 accounts | sessions, stored profile and the account of what is created, under every overlap of flows, setups and reloads |
| `entity_values` | 2 peer ids with every class of value of each field, 3 networks, sections of every outcome, 9 statuses, 5 transport failures | states are served, totals sound, names current; poll, setup and flow diagnose alike; the live contract is enough |
| `polling` | intervals 1 and 2, headers from below the interval to 3, every error, a manual and a scheduled refresh at once | the wait is what was asked; only a 401 stops polling |
| `entry_lifetime` | 1 account, 2 flows, a promoted and an optional key, versions 1 to 4 | the user's choices survive migrations that are interrupted and repeated; between two stops no flow or migration replaces an entry or takes its version back |
| `timestamps` | the instance of `entity_values` | **violated**: see below |

Each property has a mutant: a plausible bug in the mapped code (a dropped guard, a
missing reset, a changed order) under which TLC finds the property violated.

### What the code does not keep

`_optional_timestamp` promises to "treat an invalid optional timestamp as unknown,
not a bad snapshot" (`api.py:454`; `docs/QUALITY_SCALE.md:63`). Its last line
converts to UTC outside the `try`. `datetime.fromisoformat` accepts
`0001-01-01T00:00:00+01:00`, whose instant lies before year 1 in UTC;
`astimezone(UTC)` raises an `OverflowError`, the client maps it to nothing, and the
coordinator's last clause fails the whole refresh as `unknown`. The run
`timestamps` reaches such a reply. The other properties hold with it included.

### Bounds

No guard of a specification is bounded: every state space is finite because the
code's own counters are capped (`Threshold`) and history counters with them.

- *Two peers*: the ownership checks compare one peer with one other; a third adds
  no case. *Threshold 3* where counting matters leaves room below, at and just
  before the limit; 2 is enough where only reaching it matters. The code's value
  is 10. The proofs hold for every threshold.
- *One network, two resources*: the network's cleanup must tell "all its
  resources" from "some". Two networks do not interact except through relinked
  entities; with one, moving an entity between a network's and its resource's
  device covers the overlapping prefixes. Two networks are left to the proofs.
- *Two networks, limit two* for the fan-out gives four requests, so some wait
  while others hold the semaphore, and both gathers can fail at once. The code's
  limit is six.
- *Two tokens and two self-hosted servers* let a flow store a token for a server
  other than the one it was validated against, if it could.
- *One field of a kind, one broken at a time* for bodies: parsing stops at the first
  error, and fields do not look at each other. Two items are enough for a
  duplicate and for one good beside one bad. In `entity_values` each coordinator is
  explored with the other at rest: no variable or property of that module relates
  the two (`MCSpec`).
- *Small times*: only the order of timers matters. The intervals differ, one header
  asks for less than either and one for more than both, with and without a zone.
- *One account* in `entry_lifetime`: accounts share nothing but the moment their
  stores are saved. Two flows are what a race needs.
- Symmetry is used in runs without liveness properties only, over sets of model
  values no definition distinguishes.

### Fairness

`PeerMonitor!Fairness` assumes that a scheduled poll is in the end successful and
that a setup that began goes on; the property itself supposes that the polls are
not stopped by a 401 (`polling`) and that the entry stays loaded. The coordinator
reschedules itself after every refresh that was not a 401, so this is what the
code gives while the service does not fail for ever. A user who keeps attaching
and detaching other entities is not assumed to stop: the property then promises a
Repair instead of a cleanup.

`TopologyMonitor!Fairness` is the same for the topology coordinator: successes go
on, so `StaleIsRemoved` speaks of an entry that stays loaded while the service
answers. It promises nothing while a cleanup is blocked, and the code reports
nothing then either (unlike for peers); but a block that goes away, sections that
could not be read, and a network that is gone while its resource is held back are
only delays.

`TopologyRefresh!Fairness` is the event loop's: a task that can run does, every
request is answered or times out (10 s in the client), and a gather whose tasks
are done resumes. Starting a refresh or cancelling it is never fair.

`Polling!Fairness`: time passes, a timer that is due fires, and a refresh in flight
ends (requests have a timeout). `PollingGoesOn` supposes that the entry is not
reloaded over and over, since each reload sets the timers anew. The user's own
refreshes are never assumed to come.

### What is assumed of Home Assistant

- Adding an entity is atomic with the event that asked for it, creates or reuses
  its device, and links the registry entry to it.
- A coordinator's listeners run only on a change of success or data; a 401 stops
  its polling and starts a reauthentication unless a reauthentication or
  reconfiguration of the entry is in progress.
- An entry is never set up twice at once; a reload waits for a setup in progress.
  What `async_on_unload` collected runs after a failed setup and after an unload.
- A reauthentication carries the entry's unique id from its start, so that
  `async_set_unique_id` (called by the code with its default
  `raise_on_progress=True`) aborts another flow that ends meanwhile. The mutant of
  `StoredProfileWasValidated` drops exactly this: reauthentication reads the
  server, awaits, and then stores the token alone, so without the abort it could
  put its token beside a server a reconfiguration stored meanwhile.
- A flow is not dismissed while its validation runs.
- A refresh cancels the timer when it begins and sets it when it ends, with the
  deferral its `UpdateFailed` carries, if any; one that raises
  `ConfigEntryAuthFailed` sets none. Manual refreshes are debounced, so at most one
  is in flight beside the scheduled one. A setup's entities listen to both
  coordinators, and listening schedules a refresh also after a topology 401.
  The option that disables polling for an entry is not modelled.
- After a 401 that leads to no new token (the flow was refused for another
  account) a coordinator stays silent until the next reload or manual refresh: the
  code leaves this to the user.
- A 429 during setup has no deferral of its own: it is `ConfigEntryNotReady`, and
  the retry is Home Assistant's.
- Nothing is awaited between `_abort_if_unique_id_configured` and the insertion of
  the new entry in memory. The config entries and the entity registry are
  separate stores, saved with a delay; a stop may lose either's last changes. A
  promotion of `last_seen` may thus be lost if the new version was saved and the
  registry was not; `UserChoiceKept` promises only what holds then too.
- A network id is one segment of a path or has a slash. The client puts ids into
  paths unquoted, the live contract script quotes them; an id with a `?` or a `#`, or
  `..`, would name another path to the client only, and `ContractIsEnough` says
  nothing of it.
- The ids in a network list, and in each section, are distinct
  (`ReplyAssumption`): the code checks this of peers only.
- Nobody deletes the integration's registry entries by hand.

## What is proved

`PeerMonitorProofs`, `TopologyMonitorProofs`, `RoutingProofs`,
`TopologyRefreshProofs`, `EntryFlowsProofs`, `PollingProofs`,
`EntryLifetimeProofs` and `EntityValuesProofs` are checked by TLAPS from the modules' named assumptions only
(`ThresholdAssumption`, `KeyAssumption`, `NameAssumption`, `RoutingNames`,
`InputAssumption`, `LimitAssumption`, `FiniteAssumption`, `BatchAssumption`,
`EntryAssumption`, `IntervalAssumption`, `HeaderAssumption`, `LifetimeAssumption`,
`TextAssumption`, `ReplyAssumption` and their like). Finiteness is needed only for what
a refresh requests and for its gathers, because they are counted. The type invariants of all of them are proved too.

- **PeerMonitor.** `IInv == TypeOK /\ Safety /\ PresentRegistered /\ IdleTracking`
  is inductive. `Safety` alone is not: `StartLifecycle` tracks
  `devices \cup Present(data)`, which equals `devices` only because every peer of
  the *current data* has a device, also while a failed refresh keeps that data
  unpublished (`PresentRegistered`); and a platform-only refresh must find no
  counts (`IdleTracking`). The key lemma `CleanedOwnsOneDevice` says that a peer
  the cleanup accepts has exactly its own device, in any consistent registry.
  From it follow `SafetyHolds`, `RemovalEarned`, `RemovalExclusive`, and
  `RefinesRetention`: every step is a snapshot of PeerRetention or a stutter.
- **TopologyMonitor.** The same plan in two levels. `Safety` needs again that what
  the current data lists is registered, and in addition that a resource's device
  implies its network's at every step of a cleanup that takes resources first and
  the network only if none is left. All its safety and action properties are
  proved, and that it implements PeerRetention for its networks
  (`RefinesRetention`).
- **Routing.** `AvailabilitySound` and `CountSound`: whatever the two functions
  answer definitely is true in every world the snapshots allow. `ShownCurrent`
  is the invariant of RoutingView, and gives the same of the states shown.
  `ProvenShown` goes the other way: if no connected path is proven there is a
  world without one, built in `AvailabilityComplete` by leaving everything unknown
  disconnected and empty.
- **TopologyRefresh.** A request that has not ended belongs to a gather that has not
  (`UnfinishedHasBatch`), whence nothing outlives the refresh; a request that raised
  or was cancelled has a gather that will raise (`FailureIsKept`), whence success is
  honest; once the outer gather stops, whoever waits for the semaphore has been
  cancelled (`WaitingIsCancelled`), whence nothing more is sent. `CancelInv` carries
  all of these through a cancellation at any moment. The proofs leave the gathers
  and the tolerated failures open, so they cover the contract check too.
  Two theorems are the safety content of `RefreshEnds`. `GoesOn`: while sections are
  fetched the guard of some fair action holds (`NeverStuck`), whichever requests
  wait, are in flight or are being cancelled; it needs that the gathers exist
  exactly then (`BatchesFit`). `EndsInBoundedSteps`: every step of a refresh brings
  `StepsLeft`, a natural number, down (`NearsEnd`), so a refresh takes a bounded
  number of steps. That the fair actions are then taken is left to TLC.
- **EntryFlows.** The invariants, strengthened by `ProfileInUse` (a profile is
  held exactly during setup and while loaded), `OwnedIsClosed` (what on_unload
  holds is exactly what is open) and `InputsFit` (the server of a running
  reauthentication is the stored one). The last is inductive because nothing
  stores while a reauthentication exists, except itself; it gives
  `ProfileValidated`.

- **EntryFlows** also proves `EntitiesOwn`: nothing is created for another account than
  the entry's. What is created takes the account that was answered, so this is
  inductive only with `AccountChecked`: from the answer on a setup holds an account
  exactly if it goes on, and then the entry's.
- **Polling.** `WaitsAreAsked`: a timer is off or equal to what is owed. The step that
  matters is a refresh that ends while the other one has set the timer: both are
  overwritten together, and `RetryDelay` equals what the header asked for
  (`PollsAreClassified`: the deferring clause catches rate limits and nothing
  else). `OnlyRefusalSilences` is the safety content of `PollingGoesOn`: a coordinator
  whose last answer was no 401 has a timer set or a refresh in flight.
- **EntryLifetime.** `UserChoiceHolds` needs its own invariant of the *saved* copies,
  since a restart brings back any combination of the two stores, and a link
  between them: whatever the version an entry is brought back with, an entity
  disabled by the user is no longer the integration's to enable. `EntriesStay`
  follows from the uniqueness check being in the step that creates.

- **EntityValues.** `IInv` says that a coordinator's last refresh succeeded exactly if
  what was answered last can be read (`PeersAsRead`, `TopologyAsRead`), that its data
  are then what was read, that they are well formed (`TypeOK`), and that devices
  bear the names the *kept* data give them, also while refreshes fail
  (`PeersNamed`, `NetworksNamed`, `ResourcesNamed`). The last part is why a refresh
  that brings unchanged data after a success need not tell the listeners. Below it
  lie lemmas about parsing: a body without an error has only good items
  (`PeersErrorNone`, `ListErrorsNone`), whose fields have the types of `models.py`
  (`PeersParsed`, `ResourcesParsed`, `RoutersParsed`, `TopologyParsed`); above it,
  that looking an id up finds exactly the item answered for it (`PeerAsRead`,
  `NetworkAsRead`, `ResourceAsRead`). All five invariants of the run follow, for
  bodies of any length. `TotalsAreAlwaysSound` needs that the sum of the networks'
  counts is the number of all items; that is an induction over the list
  (`SumCountsPairs`). The library's induction rules take a predicate, which the
  provers cannot instantiate, so `Induction` is stated of a *set* of numbers, and
  proved from the naturals being well founded; `UptoEquation` shows by it that the
  recursive function behind `Sum` exists. `DiagnosesAlwaysAgree` first computes what
  each table of clauses does with every error (`PollHandles`, `SetupHandles`,
  `FlowHandles`), so that also shows that no error is without a clause.

What replies may be is the type `Reply`: any status, any body, with fields that are
absent, null, of a wrong type or hold any text, group or time. `NoneAssumption` and
`UnavailableAssumption` say that Python's `None` and Home Assistant's "unavailable"
are no object and no state; the rest of the assumptions is about ids being texts
and, in `ReplyAssumption`, distinct where the code does not check it.

Only model-checked: liveness (`StaleIsResolved`, `StaleIsRemoved`, `RefreshEnds`,
`PollingGoesOn`), because `ENABLED` and fairness are out of the prover's reach. What
these need of states and steps is proved for the last two (`GoesOn`,
`EndsInBoundedSteps`, `OnlyRefusalSilences`).

## What is not modelled

- URL, address and certificate checks of `deployment.py` and the guarded resolver of
  `transport.py`: string, DNS and TLS work without state. EntryFlows keeps that
  resolving may fail, and who owns the session.
- Repairs after the removal of an entry: the code has no handler for it and
  promises nothing.
- A service that lists a network id twice (see the assumptions).
- The account list's cardinality, the text of ids, timestamps and headers, wording
  of errors, forms, redaction, dashboard links, the example dashboards, the
  script's transport and report.

## Plan

Done: PeerMonitor with PeerRetention, Routing and RoutingView, TopologyRefresh,
TopologyMonitor, EntryFlows, ApiErrors, Payloads, EntityValues, Polling and
EntryLifetime; proofs of every invariant and action property they are checked for.

1. Duplicate network ids: the lists of TopologyMonitor as sequences of items.
2. The two monitors over one shared registry: prefixes of one entry's unique ids
   never overlap across peers and networks.
3. Polling together with EntryFlows, so that a reload's setup can fail.
