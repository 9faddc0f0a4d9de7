# TLA+ models of the console's address service, filter toolbar and metadata table

This directory holds TLA+ models of the stateful parts of the code under `src/`, with TLC configurations that check them. Each `MC_*.tla` module gives a specification small constants. Each `.cfg` is one run. `PROJECT.json` lists the runs, the mutants that test each property, the map from every definition to the source lines it models, the findings and the hazards.

## 1. The system

`src/agent/www/shared/address_service.js` is the console's synchronisation engine. The parts interact as follows:

| Part | Lines | State | Operations |
|---|---|---|---|
| `coalesce(f, delay, max_delay)` | 3-33 | `start`, `scheduled`, `timeout` | the returned function, `fire`, `can_delay`, `schedule` |
| `on_update` / `_notify` | 334-350 | `_reasons`, `_callback`, `notify` | `callback(reason)`, then `_notify` per flush |
| `TimeSeries` | 35-58 | `xData`/`yData` with a header, `max_size`, `last` | `push` (evicts the oldest sample), `push_delta` |
| `WindowedDelta` | 60-83 | ring `deltas[window]`, cursor `current`, `last` | `push`, `update`, `total` |
| `AddressDefinition` | 85-137 | the message fields, a depth series, two trackers | `update`, `update_depth_series`, `update_periodic_deltas` |
| `AddressService` | 151-332 | `address_index`, `connection_index`, `users`, `address_types`, `address_space_type`, `admin_disabled` | `on_message` per subject, two interval timers (5 s and 30 s), `create_address`, `delete_selected`, `is_unique_valid_name`, `create_user`, `delete_selected_users`, `update_user` |

How the parts interact:
- The agent sends one message per change over a reconnecting AMQP link. `on_message` applies it to an index and calls `callback(reason)`.
- `callback` records the reason and calls the coalesced `notify`. It arms a 10 ms timer, re-arms it while `can_delay()`, and stops re-arming at the 500 ms ceiling.
- When the timer fires, `_notify` calls the observer once per reason.
- The timers feed every address's trackers and depth series.
- The UI's commands go back to the agent.
- Nothing is resent after a reconnect, and there is no resynchronisation.

`AddressSpaceFilterContainer.tsx` is the filter toolbar of the address-space list. Its parent owns the chosen filter, the name and namespace chips and the type filter. The container owns the typeahead state of the two search fields.
- Typing a term long enough sends a GraphQL query.
- The code after the `await` sets the dropdown options whenever the response arrives.
- Picking an option and clicking the search icon adds an exact chip. With nothing picked, the click adds the typed text as a non-exact chip.

`components/MetadataListTable/TableRow.tsx` renders one node of a metadata tree. When the node's value is an array, it renders one nested `TableRow` per element.
- Each instance keeps its own `expandedList` in `useState`.
- A click on the toggle runs `toggle`, which reads `event.target.id`. That is the row's key when the button is hit, and `""` when the icon inside it is hit.
- Nested rows are keyed with `uniqueId()`, so every render of a row mounts its nested rows afresh.

### Hard behaviours

- **Debounce bound.** The re-arm test uses the time already armed, so the flush can slip to max_delay + delay.
- **Starvation.** A stream of callbacks must never starve the flush.
- **Counters.** Counter resets and missing counters skip a slot without moving the cursor. The cursor wrap and the eviction boundary are off-by-one hazards.
- **Local deletes racing updates.** A local delete can race an update still in flight, so the entry can come back before the agent's deletion arrives.
- **Partial failure.** An `address_types` message without `application_properties` throws after its first assignment.
- **Reconnects** lose messages in both directions.
- **Typeahead.** Responses may come back out of order and overwrite newer options. The namespace handler also resets the name field's options, a slip copied from the name handler.
- **Expand toggle.** An empty target id goes through `&&`, `>=` and `slice` as if it were the number 0. Re-renders remount the nested rows.

### What makes each part correct

- **Notifier:** every reason is delivered once, and within a bounded time.
- **WindowedDelta:** it holds exactly the last W non-negative deltas.
- **TimeSeries:** it holds the N most recent samples.
- **AddressService:** it never changes unreported, and once the links are quiet it agrees with the agent.
- **Filter:** chips are unique, exact chips are real names, and the options match the text.
- **TableRow:** a click on a toggle flips that row, whichever element of the button it lands on.

## 2. Modules

| Module | Models | Abstract spec it implements |
|---|---|---|
| `Notifier` | pending reasons, delivered reasons, `Flush` | (abstract) |
| `Coalesce` | `coalesce` + `on_update` + `_notify` | `Notifier`, via `RefinesNotifier` |
| `SlidingWindow` | FIFO of the last `Window` deltas | (abstract) |
| `WindowedDelta` | `WindowedDelta` | `SlidingWindow`, via `RefinesSlidingWindow`, with the ring read from the cursor |
| `TimeSeries` | `TimeSeries` | reference definition: `SubSeq` of the push history |
| `MC_AddressMetrics` | `WindowedDelta` and `TimeSeries`, interleaved | checks both of the above in one run |
| `MC_NotifierTable` | `Coalesce` and `TableRow`, interleaved | checks both in one state space; they share no state |
| `AddressService` | `AddressDefinition` + `AddressService` + the agent as environment | uses `Notifier`'s `Flush`. It INSTANCEs `WindowedDelta` and `TimeSeries` for their operators |
| `AddressSpaceFilterContainer` | every handler of the container, and the in-flight queries | (none) |
| `TableRow` | every `TableRow` instance of a fixed tree, `toggle`, and the remount of nested rows | (none) |

### Coalesce

- Time is relative to `start`: `elapsed` = now − start, and `scheduled` is stored as scheduled − start. The absolute clock does not matter to the code.
- `Tick` advances time but cannot pass a due timer.
- `calls` bounds the callbacks per time unit.
- Fairness is WF on `Fire` and `Tick`. The event loop runs due timers, and time passes. Callers get no fairness.

### WindowedDelta and TimeSeries

- The operators take the record as a parameter, so `AddressService` applies them per address.
- A history variable records what each step contributed. It bounds the runs through a CONSTRAINT on its length.
- `MC_AddressMetrics` instantiates both and explores them together. Each step is a step of one of them, with the other unchanged, so one run checks both while the products of their states stay small.

### AddressService

Each `on_message` subject, each timer and each UI operation is one action.
- The guards and branches follow the `if` chains.
- `Notify` is `callback(reason)`.
- A ghost `stale` is set when a service step changes what the observer reads, and cleared by `Flush`. It is also cleared by a UI step, because Angular re-renders after a UI event.

The agent holds `srvAddr`, `srvConn`, `srvUser` and the catalog.
- It sends a message on every change, in order, over `inbox`.
- It executes the commands in `outbox` in order.
- `Reconnect` empties both links, at most `MaxReconnects` times.

The plan lookups `get_plan_display_name` and `get_valid_plans` are operators over `TypeList`, the catalog held. `ByName` is `filter(by_name(..))`, and `[0]` is the head of the result. `CatalogEntries` gives each catalog model value its list of types and plans. `RefValidPlans` and `RefPlanDisplayName` restate spec §4.5 with sets, as the reference definitions.

Data is abstracted as follows:
- Counters lie in 0..MaxCount.
- Timestamps are 0.
- Names are model values, with their character sets given by `NameChars`.
- Subscriptions carry their counters only in `shards[0]`, as the agent sends them.

Fairness:
- WF on `OnMessage`: the event loop delivers messages.
- WF on `Flush`: the due timer fires.
- SF on the agent executing a command. Executing a command needs room on the bounded inbox. The agent's own connection changes can keep refilling that inbox, so the command is enabled only now and then. The real link has no such bound, and the agent works through its command queue, so strong fairness is what the code's environment gives.
- The user and the agent's own changes get no fairness.

### AddressSpaceFilterContainer

- The props are variables that the setters change. React re-renders before the next event.
- `pending` is the sequence of queries awaiting a response. `Response(i)` may answer any of them, so responses can be reordered.
- `Trim`, the required length (`Short`) and what a query matches (`Match`) are constant tables.
- There is no fairness: only safety is checked.

### TableRow

- The tree is a set of constants. `Children[r]` is the value array in order, `Type[r]` the data type and `Key[r]` the key.
- `expandedList[r]` is row r's state. The ghost `lastEvent` records the last click, so that `ToggleFlips` can name the clicked row.
- `Toggle(r, id)` is the whole handler and the render it causes:
  - `Index` models the `&&` chain, with `""` acting as position 0;
  - `NewExpandedList` models the slice or append;
  - every descendant's list is reset, because the nested rows are mounted again.
- The guard `r \in ToSet(Displayed(Root))` allows only displayed rows to be clicked. A hidden `DataListContent` cannot be clicked. `Displayed` is a RECURSIVE operator that follows the render, row by row in array order.
- There is no fairness. Clicks are the user's choice, and only safety and action properties are checked.

## 3. Runs

| Run | Cfg | Checks | Shows |
|---|---|---|---|
| notifier_table | MC_NotifierTable.cfg | NotifierTypeOK, MaxLatency, RefinesNotifier, TableTypeOK | Delivery is exactly-once and eventual, and within max_delay + delay. Each table row's list holds at most its own key. |
| coalesce_spec_latency | MC_NotifierTable_spec_latency.cfg | SpecLatency (violation) | The §4.1 bound of max_delay is exceeded by re-arms. |
| address_metrics | MC_AddressMetrics.cfg | TrackerTypeOK, SeriesTypeOK, KeepsMostRecent, RefinesSlidingWindow | The ring is the window of the last W deltas. Eviction keeps exactly the max_size newest samples. |
| service_queue | MC_AddressService_queue.cfg | ObserverCoverage, QuiescentAgreement, CatalogLookupsAgree | A queue with traffic, restarts, UI and agent deletes, and catalog changes. The plan lookups follow §4.5 for whichever catalog is held. |
| service_subscription_connections | MC_AddressService_subscription_connections.cfg | ObserverCoverage, AlwaysEventuallyAgrees | A subscription's shard counters and a connection opened, updated and closed. Every address and connection agrees with the agent again and again (liveness). |
| service_users | MC_AddressService_users.cfg | TypeOK, UserNamesUnique, QuiescentAgreement | Users with updates racing deletions, and a reconnect. |
| service_missing_props | MC_AddressService_missing_props.cfg | ObserverCoverage (violation) | An `address_types` message without properties changes state silently. |
| service_user_selection | MC_AddressService_user_selection.cfg | SelectionKept (violation) | An agent update for a selected user drops the selection. |
| filter | MC_AddressSpaceFilterContainer.cfg | TypeOK, ChipsUnique, ExactChipsAreReal | Chip integrity under late responses. |
| filter_typeahead_race | MC_AddressSpaceFilterContainer_race.cfg | NamespaceOptionsFresh (violation) | A stale response overwrites the dropdown. |
| filter_name_options | MC_AddressSpaceFilterContainer_name_options.cfg | NamespaceTypingKeepsNameOptions (violation) | Typing in the namespace field wipes the name field's suggestions. |
| table_row_icon_click | MC_NotifierTable_icon.cfg | ToggleFlips (violation) | A click on the icon of a collapsed toggle does nothing. |

AlwaysEventuallyAgrees is the liveness form of QuiescentAgreement: a handler that loses a change leaves an entry wrong for good. That run has no reconnects, so the traffic never stops.

QuiescentAgreement holds only until the first connection loss. After that the code cannot agree with the agent, because it has no resynchronisation.

Every property has a mutant in `PROJECT.json`: a plausible bug in the mapped code that the run catches.

### Bounds and why they are enough

- **Coalesce:** Delay 2, MaxDelay 5 and 2 callbacks per tick. This is enough for a burst to hit the ceiling after several re-arms, and for the off-by-one between `<` and `<=` to show.
- **WindowedDelta:** window 3, values 0..2, and 6 updates. The cursor wraps twice, with resets and undefined values in between.
- **TimeSeries:** max_size 3 and 5 pushes, so eviction happens repeatedly (1.4·10^6 states together with WindowedDelta).
- **AddressService:** counters 0..1, window 1 and series size 1.
  - The queue and users runs allow two messages in flight per link. That is enough for an update to be in flight while a local delete and the agent's delete pass it.
  - The subscription-and-connection run allows one message in flight per link (5·10^5 states). With two, it reaches 5·10^6.
  - The two catalogs of the queue run differ: the second drops a type and a plan of the first, so every lookup meets both a hit and a miss.
  - Each concern gets its own cfg: a queue with two catalogs, a subscription with a connection, or two users. The combinations exceed 10^7 states.
- **Filter:** three typed texts, one of them with a blank, and one pending query. The race run allows two pending queries so that two namespace queries can cross.
- **TableRow:** a tree of depth three with four toggles: three under the root and one grandchild. The icon click can hit both a root-level and a nested toggle. The toggle states of the rows are all combined (103 states, 3.7·10^4 together with Coalesce's 360).

## 4. Findings

- **Debounce ceiling.** `can_delay()` (line 14) compares the armed time, not the new one. Latency reaches max_delay + delay − 1, against the spec's max_delay.
- **WindowedDelta** does not advance the cursor on a skipped update (line 75). Spec §3 says the slot is overwritten every tick, but §4.3 says a skipped update writes nothing, and the code follows §4.3. `RefinesSlidingWindow` checks the §4.3 reading: the window holds the last W written deltas. The §3 reading is not checked.
- **`address_types` without `application_properties`** throws at line 297 after assigning `address_types`. The callback is skipped, so the observer misses the new catalog. The spec says such events are ignored without side effects.
- **User selection:** `update_user` (line 276) replaces the record with the agent's copy, which has no `selected` flag. A user selected before an agent update arrives is no longer selected, and `delete_selected_users` skips it.
- **Name suggestions:** `onChangeNamespaceData` resets the name options (line 216, and line 218 for a short term), where its twin `onChangeNameData` resets its own field's options. Typing in the namespace field wipes the suggestions of the name field.
- **Namespace typeahead:** a late response (line 246) replaces the options for the current text, for example after the field was cleared.
- **TableRow toggle:** a click on the chevron icon, whose `event.target.id` is `""` (line 56), runs as index 0 (line 60). On an expanded row it collapses, but on a collapsed row it does nothing. Only a hit on the button itself expands the row.

## 5. Not modelled, and the plan for later

- **`list_topic_names`** is a read-only filter of the index that no property tells apart. `get_valid_address_types` returns `address_types` itself.
- **Re-entrant observer:** an observer that calls `callback` inside `_notify` has its reason erased at line 338. No observer is registered by code under `src/`, so the model's observer only receives reasons. So this is not a hazard of this code, and it is not listed.
- **The duplicate-name race** (line 252) needs no second console. Two creates for one name can pass `is_unique_valid_name` before the agent's `address` message returns. The agent ignores the second create, and QuiescentAgreement shows that the console still converges.
- **Composition:** the coalesced notifier composed with `AddressService`, which currently uses the abstract Flush. Also a rate property across `WindowedDelta` inside the service.
- **`AddressListFilterPage`:** layout, plus `onDeleteAll`, which only calls four setters of its parent. The filter it resets (`AddressListFilter`) is not under `src/`, so no property could tell the handler apart.
- **`TableRow` layout:** the CSS classes and the cells (lines 84-94 and 114-132) are display only.
- **Rendering and display I/O:** tooltip loading, layout (`AddressListFilterPage`), and the display-only components (`IoTProjectReview`, stories) are left out.
- **`CreateMetadata`** keeps `metadataList` in `useState`. Its only handler here, `handleAddParentRow`, appends a default row. The rows are edited and removed by `MetaDataRow`, which is not under `src/`, so no property could be about the list's content.
- **Nested expansion after a collapse:** `Toggle` models the remount caused by `uniqueId()` keys (line 140), which discards the expansion under a re-rendered row. Nothing in the repository says whether that expansion should be kept, so no property takes a side.
- **The agent** is modelled only as the environment. It is out of scope per the spec.
