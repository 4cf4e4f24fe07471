# A verification development for dmx-box

dmx-box is ESP32 firmware (ESP-IDF, FreeRTOS on two cores) that turns Art-Net,
a DMX input and stored effects into a DMX512 output. The repository has no
tests and no design documents, so everything here is read off the C source;
what the code says of itself is in its comments and log messages.

Paths below are relative to `src/components/` unless they begin with `src/`.

## 1. Inventory

### Tasks

`app_main` (`src/main/main.c:60-97`) loads everything from flash, starts the
Wi-Fi, the web server and the DNS responder, then creates the tasks. Both cores
run them, so two critical sections under *different* spinlocks do overlap.

| task | priority | does | shares |
|---|---|---|---|
| DMX send | 5 | every period: `dmxbox_dmx_out_data` to the bus | out data |
| recalc | 4 | every 30 ms: merges the three sources, publishes, sets LEDs | in data, universes, effects data, out data |
| ESP-NOW receive, send | 4 | sync events to and from other boxes | their queues |
| effects | 3 | every tick: reads the control universe, runs the effects, publishes their levels | effects data, sync queue |
| Art-Net AP, STA loops | 2 | open and close the sockets as the networks come and go | listener contexts |
| Art-Net AP, STA receive | 2 | packets | universes, client records |
| DMX receive | 2 | packets of the DMX input | in data, connected flag |
| web server | 1 | one request at a time | everything in flash; clears; reboots; the Wi-Fi driver |
| reset button, autosave, poll reply | 1 | clear; store snapshots; announce | universes, flash, sockets |
| event task, timer task, Wi-Fi task (ESP-IDF) | high | Wi-Fi events, the back-off timer, reception of ESP-NOW packets | event bits, retry counter, receive queue |

### Components

| component | state | operations | what makes it hard | what makes it correct |
|---|---|---|---|---|
| Art-Net universes (`dmxbox_artnet/dmxbox_artnet.c`) | `data` and `last_snapshot` per universe, under one spinlock | ArtDmx packet, clear, autosave, save before reboot, load at boot | a packet takes three critical sections; a clear takes many; two receive tasks | the last controller to move a channel has it; nothing else moves |
| client tracking (`dmxbox_artnet/artnet_client_tracking.c`) | last frame per controller and universe | get, set, reset | records are read, used and rewritten in separate steps | as above |
| snapshots (`dmxbox_storage/`) | a blob per universe in flash | set, get | the write reads live levels without the lock; `last_snapshot` runs ahead of the flash | what is believed saved is saved |
| Art-Net listeners (`artnet_loop`, `artnet_receive_loop`, poll reply) | sockets, shared packet buffers | start, stop, reconnect | bits that change at any point, too few descriptors, busy retry | no descriptor leaks; a connected box listens on the address it has |
| DMX input, recalc, DMX output | three buffers, three spinlocks, a flag, LEDs | receive, time out, merge, publish, send | reads under the wrong lock, or under none | highest takes precedence; dark in, dark out |
| effects engine (`dmxbox_effects/`) | list of effects with chase positions; sync queue | tick, lead, follow | lost and late messages, late ticks, restarts, fade tails across the loop point | followers at a leader's settings and in phase; no seam |
| ESP-NOW (`dmxbox_espnow/`) | queues, peers | send, receive | full queues, garbled packets, peer limit | bounded queues lose, never block; what is lost is made up for |
| effect store (`dmxbox_storage/private.c`, `effect_storage.c`, `effect_step_storage.c`, `dmxbox_api/effects*.c`) | blobs by (parent, id), id counter | post, put, batch put, delete, list | power cuts between writes; orphaned steps; 16-bit counter | a new effect has an id of its own |
| effect loader (`dmxbox_effects.c:191-453`) | the list of effects | sample effect, load by pages | broken effects, page boundaries | a whole store is loaded whole |
| REST routing (`dmxbox_rest/`) | none | parse a path, dispatch | ids, optional parts, overflow | a request touches what its path names |
| settings (`dmxbox_api/settings_*.c`, `api_config.c`, `dmxbox_storage/`) | NVS entries | get, put | several writes a request, their order | station mode is never on beside a network no client has sent |
| Wi-Fi (`dmxbox_wifi/`) | event bits, retry counter, timer, flag | connect, retry, back off, reconfigure, scan | three threads race; events lag behind the driver | keeps trying while station mode is on; the bits tell the truth |
| boot, factory reset (`src/main/`) | first-run flag | defaults, reset | power cuts in the middle, a stuck button | the next boot completes it |
| web sockets (`dmxbox_api/ws.c`) | a flag per session | scan, send | answers after the socket is gone | every result is freed |
| DNS, LEDs, static files, JSON, hash map | none worth a model | | | |

Interactions: Art-Net, the DMX input and the effects task write buffers the
recalc task reads; recalc writes the buffer the send task reads. Effects are
steered by levels of an Art-Net universe and by other boxes. The web server
writes the effect store, which is read at the next boot only, calls the clear
and the save of the Art-Net component, and reconfigures the Wi-Fi. The Wi-Fi
tells the Art-Net loops of connections by bits of an event group.

## 2. Modules and how they compose

| component modules | composed in | abstract or reference specification | proofs |
|---|---|---|---|
| `ArtnetUniverse` | | `LtpMerge` (refinement) | `ArtnetProofs` |
| `DmxPipeline` | takes Art-Net as an environment that sets the native universe, which is what `ArtnetUniverse` does to it | histories of what was offered | `DmxProofs` |
| `RestApi`, `EffectStore` | `EffectStore` dispatches its requests by `RestApi` | what a path names | `EffectProofs`, with `Induction` |
| `ChaseEffect`, `DistributedEffects` | `DistributedEffects` runs the chases on several boxes | `LaidOut`, a chase on a time line without end | `ChaseProofs` (the arithmetic), `SyncProofs` |
| `Settings`, `WifiStation`, `ArtnetListener` | `DmxBoxNetwork` | | `NetworkProofs` |

What a further step would be: the Wi-Fi scan with its web sockets
(`wifi_scan.c`, `ws.c`); the receive task as a thread of its own, apart from its
socket, which would discharge the assumption `OneTaskPerClient` of
`ArtnetUniverse` or show when it fails.

## 3. What the modules model

Each component module has its CONSTANTS with named assumptions, one action per
critical section, driver call or unlocked access, a type invariant, and its
properties. The `MC...` modules give values to constants, nothing else.
Definitions marked "mutant" are deliberately wrong variants of the definition
that follows them; no specification uses them, they document which mistake each
property detects.

### LtpMerge
The promise of the Art-Net side without tasks: a *latest takes precedence*
merge. State: the levels `shown`, the `desk` (last frame) of every controller,
and the `owner` of a channel. `Present` is a whole packet, `Blackout` one
universe of a clear, `Forget` the reset of the tracking, `PowerUp` a boot.

### ArtnetUniverse
| model | code |
|---|---|
| `data`, `last_snapshot` | fields of `dmxbox_artnet_universe_t` (41-46) |
| `client_map` | `artnet_client_tracking.c`, a record per client and universe |
| `flash` | the snapshot blobs |
| `rx[t]` | locals of receive task t in `handle_dmx_data` (428-463): `ReceiveDmx`, `ApplyChanges`, `SetLastData` are its three critical sections |
| `sv[s]` | position of autosave, reset button or web server in the loop over the universes |
| `nvs` | the inside of `nvs_set_blob`: its mutex and its copy, level by level, of the *live* levels (`dmxbox_artnet.c:199`) |
| `owner`, `torn`, `changed` | histories: they read the rest of the state and never steer it |

Ip addresses are model values; frames are functions from channels to levels.
Restarts and power cuts are the action `Boot`. Failed flash writes abort
(`ESP_ERROR_CHECK`), so they are power cuts too.

Assumption `OneTaskPerClient`: a controller is heard by one receive task. The
two sockets are bound to different interfaces, so this is true as long as a
receive task ends before its socket number is given out again (see section 6).

### DmxPipeline
| model | code |
|---|---|
| `in_data`, `in_connected`, `in_task` | `dmxbox_dmx/dmxbox_dmx_receive.c`; the levels are locked, the flag is not |
| `artnet`, `control` | native universe; level fader of an effect. Any change, except while recalc holds the Art-Net spinlock |
| `followed` | whether a distributed effect that never led here holds a level of its leader above 0. Set or cleared by `handle_sync_queue` at the end of a tick (`CopyTick`), and given up when its own fader is up, since then it leads (`Tick`) |
| `effects_data`, `fx` | output of `dmxbox_effects_tick` (696-735), dark when no fader is up and no leader followed; copied channel by channel, since the reader does not take its lock |
| `rc` | locals of `dmxbox_recalc` and its task |
| `out_data`, `wire`, LEDs | `dmxbox_dmx/dmxbox_dmx_send.c` |
| `lo`, `hi`, `complete`, `whole` | histories: bounds of what each source offered during the pass; frames the effects completed |

### RestApi
A path is the sequence of its segments, each a word or a number. `Id` is
`match_positive_u16` with its limit looked at *before* the last digit and its
result cut to 16 bits; `Names` and `Route` are `dmxbox_rest_parse_uri` with what
becomes of `id`, `parent_id` and `has_id` along the path; `Wanted` and
`Dispatched` choose the handler, or none (404, 405).

### EffectStore
| model | code |
|---|---|
| `effects`, `steps` | blobs of the two namespaces; keys as `make_blob_key` makes them, id 0 losing its parent |
| `next_id` | the counter, 16 bits: `Advanced` wraps at `NumIds` |
| `task` | the request or boot step under way; there is one thread of control (the web server starts after the boot) |
| `running` | `effects_head` |
| `planted`, `wrapped` | histories of the two exceptions of `CreatesAreFresh` |

A `Request` is a method and a path of `Paths`, and reaches the store by
`RestApi!Route`. `Restart` is enabled in every state: each NVS write is a step
of its own, so power can be lost between any two. `Load` goes through a listing
in *any* order, the order of entries in flash being unspecified, page by page
(`Loaded`) and through each page effect by effect (`LinkAll`); `Link` keeps the
list exactly as the loop does, including what happens to it when `load_effect`
returns NULL.

### ChaseEffect
The arithmetic of `process_chase_effect` and `advance_chase_effect_progress`:
offsets, length, fades, overlap with the previous pass. Microseconds in a double
become whole numbers, the multiplier of a rate fader a whole number too; the
offsets and the length keep their modulus (`Wrap`). `LaidOut` is the reference:
the same chase repeated on a time line without end.

### DistributedEffects
| model | code |
|---|---|
| `fader[b][e]` | level and rate of an effect in the control universe of box b |
| `state[b][e]` | `effect_t`: activity, position, first pass, role, last level and rate, age of `last_sync_us` |
| `gap[b]` | time since the last tick of b; a task may be late by `MaxGap` periods |
| `recv_queue[b]` | from the Wi-Fi task's callback to `espnow_recv_loop`; what does not fit is dropped |
| `sync_queue[b]` | `effect_state_sync_queue`, with the age of each event in place of its time stamp |
| `listening[b]`, `peers[b]` | the five seconds before the first packet; the peer list |
| `lead`, `told` | histories: the leader a position was taken from; settings that were broadcast |

`Process` is a tick: faders, role, position, output, broadcasts; `Hearable` is
what each other box hears of them, anything from nothing to all. `HandleSync` is
one event of `handle_sync_queue`, after the tick. `Forward` is one turn of the
receive loop, on a packet as it was sent or garbled. An event is stamped when it
enters the sync queue (`Aged`); a packet that waits for a receive loop that has
not begun is not, and the history in it is marked so (`Stale`). `Restart` is a power cut or
an abort. A tick takes microseconds of its period and shares nothing but queues,
so no other action is interleaved with one; everything else is.

### Settings, WifiStation, ArtnetListener, DmxBoxNetwork
| model | code |
|---|---|
| `flash`, `enabled` | NVS entries, `"absent"` before they are written; the copy of the station flag in RAM |
| `boot`, `reset_reason` | where `app_main` is; each default of a first run is a write and a step (`WriteDefault`) |
| `station`, `address`, `events` | the driver (external): what it does when told to, and the events it posts |
| `bits`, `retry_num`, `armed`, `in_disconnect` | `wifi_events.c` |
| `event_task`, `connect[t]`, `http` | program counters: the handler under way; `dmxbox_wifi_connect` in each of three threads; what is left to do of a request |
| `loop[c]`, `sock[c]`, `fds`, `poll` | `artnet_loop` of the access point and of the station, their sockets, descriptors in use, the poll reply's own socket |
| `untried` | history: `settings/sta`, which does not dial, turned the station on, or gave one that was on a network when it had none with a name; and no attempt was begun since |
| `missed` | history: the station's loop slept its 50 ms while it was told of a disconnect and of another address, and has not closed its socket since |
| `about` | chosen once, see below |

A request is the list of the calls it makes, in order (`WifiConfig`,
`EnableSta`, `DisableSta`), each of them a step between which the event task and
the timer task run. The name of a network is not looked at by the code, so a
request carries a network with a name or an `"empty"` one, and each is stored as
it came; the driver dials only one that has a name (`Named`). The default network
has no name either, and is kept apart as `"unnamed"`.

A failed check is a panic (`Abort`), after which the reset button is looked at
like after a power cut; only a restart by `esp_restart` (`Reboot`, the end of a
factory reset) ignores it. The driver refuses a network while it is connecting,
and may refuse the one of `settings/sta` at any time (`NetworkRefused`), because
`wifi.c:220` hands it a configuration most of which is not initialized.

A socket is had in three calls that may fail (`OpenFails`, `OptionFails`,
`BindFails`); the second is closed inside `create_socket`, which the loops and the
poll reply share.

The driver posts each event when the change happens, and the event task handles
it later: the bits lag behind. The loops sleep on the bits and are woken by the step that sets
them (`Woken`); they see nothing else of the station. `LocalAddress` is read
when the socket is bound, so a socket can be bound to an address that is gone.

`about` splits the behaviours in two: about the station (a box that starts from
an empty flash and is sent requests; the loops stay off), and about the listener
(a box that was joined to a network; clients join its access point, no requests
come). Nothing flows back from the listener to the station, so the station's
properties lose nothing. The listener sees two bits and an address, and each of
their changes also occurs without requests: drops, failures, new addresses and
restarts come by themselves. Only the first client to join matters, since nothing
clears its bit. The proofs hold for both and do not look at `about`.

## 4. Runs

| run | instance | checks |
|---|---|---|
| `artnet_merge` | 2 controllers, 2 receive tasks, reset button, 1 universe, 1 channel, levels 0/1 | `TypeOK`, `MoverIsShown`, `MergesLatest` |
| `artnet_channels` | 1 controller, autosave and web server, 2 channels | `MoverIsShown`, `SnapshotIsStored`, `SavedBeforeRestart` |
| `artnet_walk` | 1 controller, web server, 2 universes | `SnapshotIsStored`, `SavedBeforeRestart` |
| `artnet_live` | 1 controller, autosave and web server, fairness | `DirtyIsSnapshotted`, `JobsFinish` |
| `artnet_reboot` | as `artnet_channels` with 1 channel | refutes `RebootSavesState` |
| `dmx_merge` | 2 channels, DMX input and Art-Net | `TypeOK`, `HighestTakesPrecedence`, `LedsAgree` |
| `dmx_live` | 1 channel, all sources, leaders that are followed, fairness | `HighestTakesPrecedence`, `BlackoutReachesTheWire` |
| `dmx_torn` | 2 channels, Art-Net and effects | refutes `EffectsAreWhole` |
| `effect_store` | 4 ids, pages of 2, a list of two steps, one of them step 0; paths with small, large, zero and refused numbers | `TypeOK`, `CreatesAreFresh`, `HealthyStoreLoads`, `WritesWhatItNames` |
| `effect_skip` | same | refutes `BrokenEffectIsSkipped` |
| `sync` | 2 boxes, a chase of two overlapping steps, queues of 1, one fader that moves, sync period of 1 tick, fairness | `TypeOK`, `InPhase`, `FollowsALeader`, `SeamlessLoop`, `SyncHeals` |
| `network` | every request, with networks that have a name and networks that have none (`settings/sta` off stores none), 2 retries, 2 events, 2 addresses, 2 descriptors for 3 tasks, fairness | `TypeOK`, `SettingsComplete`, `EnabledHasNetwork`, `BitsAgree`, `KeepsTrying`, `DescriptorsAccounted`, `ComesUp`, `Reconnects`, `ArtnetServed` |

Deadlock is checked in every run; no component can stop. Nothing is cut off by a
state constraint: all instances are finite, and are explored completely.

### Why the bounds suffice
* The merge treats channels and universes independently, so one of each shows
  all races of the merge, and two controllers are the fewest that contend; two
  levels tell moved from repeated. Two channels are needed where a frame can be
  torn or a packet short, two universes where a walk has a middle.
* Four ids give stores of 0 to 4 effects against pages of two: an empty page, a
  partial one, a full one followed by nothing, two full ones; and the counter
  goes round within one behaviour. With four ids a path of 7 is what 65539 is to
  the code, and 40 what 655360 is.
* Queues of one are full whenever anything is in them, so packets are dropped in
  every way a longer queue drops them. Steps of 2 and 1 periods, with fades that
  reach over the loop point, give a chase of 3 positions and two passes; a level
  of 0, half and full tells a fade from a flash. `MaxGap` 1: a tick may or may
  not come between two events, each box at its own moment; `InPhase` is stated
  for any gap. Only one box has a fader to move, so that there is one leader, or
  none yet, or one that restarted.
* Two retries have a first, a last and a none left; two places in the event
  queue let an event wait behind another and make the driver wait. Two addresses
  tell a new socket from an old one. With two descriptors for two loops and the
  poll reply, each of them meets a full table.

### Fairness, and why the code justifies it
* Art-Net: tasks block only on the NVS mutex and on timers. Priorities never
  starve the savers for good, because every task of a higher priority sleeps
  every period, hence weak fairness of each step; a waiter of the NVS mutex is
  woken in turn, hence strong fairness of `OpenBlob` (the mutex is free again and
  again, not continuously). Only the autosave job starts by itself.
* Pipeline: the three periodic tasks are weakly fair.
* Sync: time and ticks go on (weak). Leaders broadcast for ever, and of
  broadcasts without end some come through, whole: strong fairness of
  `ProcessHeard`, a tick everyone hears, and of handing on an intact packet. The
  queue may drop each packet but not for ever, since the effects task empties it.
* Network: each thread runs and the timer fires (weak). Strong fairness of
  `Associates` says that a network that is there is joined if tried again and
  again, that of `OpenSocket` that a descriptor is had if one is free again and
  again: the poll reply gives its one back after a send. That of `SetOption` says
  that an option that is set again and again is taken in the end: it names the
  interface, which is there as long as its station is.
* Nothing forces a packet, a request, a power cut, a drop, a restart or a
  timeout of the DMX input to happen, or not to.

The premises of the liveness properties are what the environment must do for its
part. `BlackoutReachesTheWire`: every source is dark and stays so, and no leader
is followed at a level above 0: a follower goes on by its leader's last level, so
the faders of this box do not turn it off. `SyncHeals`: faders rest, one leader is
left, boxes listen. `ComesUp`: power is not cut for ever; panics may go on.
`Reconnects`: no more requests and drops while the station stays wanted.
`ArtnetServed`: the station stays connected, and its loop did not sleep through
the change to the address it has (`missed`): after that it stays on the old one.

### What the three refuted properties show
* `RebootSavesState`. `system.c:44` logs "saving artnet state" and restarts.
  `store_universe_snapshot` marks a universe saved (`dmxbox_artnet.c:190-196`)
  before it writes it (199), so when autosave has just marked a universe the
  reboot finds nothing to do and may restart before autosave has written. What
  does hold, and is proved, is `SavedBeforeRestart`, which excepts exactly that.
* `EffectsAreWhole`. The effects publish under `dmxbox_effects_spinlock`
  ("Synchronizes module output", `dmxbox_effects.c:133`), recalc reads under
  `dmxbox_artnet_spinlock` only. A frame may mix two ticks. Each channel is still
  right by itself: `HighestTakesPrecedence` does not need the lock.
* `BrokenEffectIsSkipped`. `load_effect` says "skipping effect" and returns NULL,
  which the caller links in (`dmxbox_effects.c:426-434`): the tail of the list is
  lost, the next effect becomes its head, and those loaded before are gone. When
  no effect follows the broken one, the list before it is kept. `HealthyStoreLoads` is what remains: a store without broken
  effects is loaded whole. A store gets broken by a power cut during the first
  boot, or by a client that stores an effect before its steps.

## 5. Proofs

All for every value of the constants that satisfies the named assumptions.

* `LtpMerge!MergeRule`: the abstract merge keeps its rule.
* `ArtnetProofs!TypeCorrect`. `TypeOK` is not inductive: a merge needs to know
  that the frame in hand is a frame, a walk that its cursor is in the list.
  `TypeInv` adds `HandlerInv` and `CursorInv`.
* `ArtnetProofs!MergeCorrect` and `Refinement`. The mapping sends `desk` to
  `Desk`, the record *or* what the handler that is busy with it has in hand.
  Each code step simulates an abstract step or a stutter (`BootSimulates`,
  `ReceiveSimulates`, `ApplySimulates`, `SetLastSimulates`, `ForgetSimulates`,
  `SaveSimulates`); `ApplyChanges` is the moment of `Present`, or `SetLastData`
  for the first frame of a controller. `MoverIsShown` follows by the abstract
  rule (`LtpMerge!MergeStep`).
* `ArtnetProofs!SnapshotCorrect` and `SavedCorrect`. `SnapInv` adds that an
  undisturbed pending store copies what was decided (`StoreInv`) and that a
  universe a walk has passed is as it left it unless it changed (`WalkInv`).
* `DmxProofs!PipelineTypes`, `MergeIsHighest`, `LedsCorrect`. `PipelineInv`
  follows a pass channel by channel: what a source offers now is within its
  bounds (`OfferInv`), merged channels are settled and the others hold a level of
  the input (`PassInv`), the flags sum up the merged channels (`FlagInv`).
* `EffectProofs!FreshIds`. Until it goes round, the counter is above every id
  under which anything, an effect or an orphaned step, is stored, except planted
  ones (`SpentInv`), and above that of an effect being created (`HeldInv`).
* `EffectProofs!StoreTypes` and `HealthyLoads`. `Loaded` is a fold over pages of
  folds over effects, so what it returns is an induction. `Induction` derives
  induction over the naturals, as a statement about a set, from well-foundedness,
  and from it that every recursion over `0..m` has values (`RecursionExists`).
  With it, what one page adds to the list is proved first, then what all pages
  add; the pages cut a listing without gap or overlap, full last page or not.
  `LoadInv` says that a boot gets to the listing with something stored.
* `EffectProofs!WritesNamed`. An id within 16 bits is what `Id` makes of it
  (`RouteNames`), and each handler writes under the ids of its route only. A batch
  is started for the effect its path names, and each of its steps stays with it
  (`BatchStep`): `StepKey` keeps the parent of every step but step 0.
* `NetworkProofs!SettingsAreComplete`, `StationHasNetwork`. `SettingsInv` says
  that the first-run flag is the last thing there (`FirstRunInv`), that a request
  that will turn the station on has a network to store before it does or finds
  one that a client has sent (`RequestInv`, `NetworkSent`), and that the flag in
  RAM is the one in flash (`EnabledInv`).
* `NetworkProofs!NetworkTypeCorrect`, `NoDescriptorLeaks`, `BitsTellTheTruth`,
  `StationKeepsTrying`: the other invariants of run `network`, from `NetworkInv`.
  The bits: the *last* telling event in the queue says how the station is, and if
  there is none the bits do (`EventsInv`). The next attempt: a wanted idle station
  has an armed timer, a thread on its way to dial, an event that will make one
  dial, or a request that still dials or turns it off (`TryInv`). A request that is
  to make a station wanted that was not is one that dials at its end, or the
  station is `untried` (`ToBeWanted`): for that, requests store one network, before
  they set the mode (`NamesOne`, `NetworkThenMode`). The window in which a
  disconnect is ignored lies inside a request that dials after it, which is why
  ignoring it is safe. The descriptors: a loop holds one exactly between opening
  and closing (`ListenerInv`).
* `SyncProofs!SyncTypes`. `TypeInv` adds that the position in every packet and
  event is within the chase of every distributed effect of that length.
* `SyncProofs!FollowersAreFaithful`. `TrustInv` says of every packet in either
  queue that it carries settings that were broadcast together (one that is garbled
  on the way does not get past `Accepted`), and of every box that does not lead
  that its settings were broadcast together or are those it started with.
* `SyncProofs!FollowersInPhase`, for boxes whose distributed effects have one
  length c > 0 (`Lengths`): the code sends a position and no length, so it takes
  that for granted, and with two lengths being in phase means nothing. `PhaseInv`
  puts the property on the whole way of a position: a packet on the air, brought
  forward by nothing, an event in the sync queue, brought forward by its age, and
  a follower, brought forward by the time since its tick, are each behind the
  leader by at most `MaxGap` periods of movement, up to whole passes (`Near`).
  Everything that moves, moves by the same amount (`NearShift`): time, a tick of
  the leader, a tick of the follower, the handling of an event. What breaks the
  relation (a start, a stop, another rate, a restart) is what the histories note.
* `ChaseProofs!Seam`, and from it `SyncProofs!ChasesAreSeamless`, for steps that
  are not longer than their chase (`Fits`) and start before it ends (`Unwrapped`:
  the sum of the step times has not gone round at 2^32 us; it does in a chase of
  more than 71 minutes). A tick at position r after q passes lights what the time
  line lights at q L + r: of all passes laid out there, only the current one and
  the one before can still be lit, and `ProgressInStep` chooses the right one of
  the two. The rest is that `Advance` keeps q and `first_pass` in agreement
  (`WrapsBy`, `Placed`). A chase of length 0 shows nothing, on either side. The
  run `sync` checks both hypotheses on its chase.

Every invariant and every action property of the passing runs is proved. Only
model-checked: the liveness properties (`DirtyIsSnapshotted`, `JobsFinish`,
`BlackoutReachesTheWire`, `SyncHeals`, `ComesUp`, `Reconnects`, `ArtnetServed`),
since fairness and ENABLED are out of the prover's reach, and the refuted ones.

## 6. Known deviations and limits of the code

Seen while modelling; the models do what the code does, and the properties say
where they except it. The three of section 4 have runs.

Effects and sync
* `effect_t.distributed_id` is a bool (`DistributedId`): every distributed effect
  has id 1, and a box applies what it hears to its first one.
* A box without a distributed effect crashes at the first sync event
  (`dmxbox_effects.c:664-666` uses the result of the search unseen): a restart
  in `HandleSync`.
* Leadership is never given up (`Leads`): two boxes whose faders were raised both
  lead until one restarts. A leader that is gone leaves its followers
  running, at its last level, with their own faders down (`followed`).
* A leader that starts, or changes its rate, sends the position of the tick
  before; a follower that starts is at position 0 until the next sync. `InPhase`
  is about followers that took a position which still holds (`lead`).
* In the first five seconds packets wait for the receive loop, and are stamped when
  they leave it: a follower that takes its position from such a packet is behind by
  the time it waited, until the next sync. `InPhase` excepts them (`Stale`).
* At the peer limit `esp_now_add_peer` restarts the box (`Hand`).
* A chase of length 0 divides by it; lengths and offsets go round at 2^32 us. A
  step is dark at exactly its start.

REST and store
* Numbers from 65536 to 655359 are cut to 16 bits; `WritesWhatItNames` excepts
  them.
* `has_id` is false for a single step: GET returns the list, PUT is taken for a
  batch. DELETE of a list deletes item 0.
* Step 0 of one effect is step 0 of all (`StepKey`); `WritesWhatItNames` excepts it.
* `receive_json` returns success with no object when the content is too long.

Network and settings
* The driver refuses a new network while it is connecting: such a PUT panics
  (`NetworkRefused`). So does a `settings/sta` whose uninitialized rest
  (`wifi.c:220`) the driver dislikes, and a back-off that finds its timer running
  (`BackOff`). A panic with the reset button held leads to a factory reset.
* Names of networks are not looked at; an empty one is stored. `wifi-config` stores
  the network (`wifi.c:320`) before the flag (323): power lost in between, with an
  empty name and the station turned off, leaves a station with nothing to join.
  Turning it on with an empty name panics when it dials, and leaves the same.
* `settings/sta` stores a network but never dials when the station is already
  started (`untried`); and refuses open networks with and without a password.
* `settings/artnet` makes two writes: power lost between them leaves half.
* A loop that sleeps after opening its socket does not see a disconnect that is
  over when it wakes; it stays on an address that is gone (`missed`).
* A hostname that is too long is answered with 400 but cut and used until the
  next boot.

## 7. Not modelled

* A receive task that outlives its socket. If it has not noticed the close when
  the number is given out again, two tasks share a packet buffer; the Art-Net
  results assume this away (`OneTaskPerClient`), and `ArtnetListener` identifies
  a receive task with its socket.
* Priorities: `artnet_loop` retries a failed socket without a delay, at the cost
  of the tasks below it.
* The failure of `esp_netif_get_netif_impl_name` and `esp_netif_get_ip_info`, on
  interfaces that exist from the start (`dmxbox_artnet.c:224, 256, 288`).
* An interrupted `nvs_flash_erase`: flash is erased in one step.
* Wi-Fi scanning and the web sockets, which serve only it. One thread reads and
  writes the sessions. A scan result the web server has no room for is leaked
  (`dmxbox_api/ws.c:105`).
* ArtPoll replies and advertisements beyond their socket: they announce, and keep
  no state.
* The send queue of ESP-NOW: a packet it gives up is one the radio loses. The
  callback that may wait for a full receive queue during the first five seconds.
* JSON, static files, CORS, DNS, LEDs' pins: conversions and I/O without state.
* `hashmap.c` (vendored), and the empty submodules `esp_dmx` and `esp32-button`:
  modelled by their use (a function; a whole packet; a press). The Wi-Fi driver,
  from how `wifi.c` and `wifi_events.c` use it and what they check.
* The interior of NVS, beyond a blob write being durable when made and copying
  its argument.

`PROJECT.json` lists, per definition, the source lines it stands for, and the
hazards of this code with the properties that cover them.

## 8. Running

    tlc -config MCNetwork.cfg MCDmxBoxNetwork
    tlapm SyncProofs.tla

The largest runs are `dmx_merge` (466,800 distinct states), `effect_store`
(464,235), `dmx_live` (255,288), `network` (171,224) and `sync` (96,568); the last
three take two to three minutes on two workers, most of them for the liveness
properties.
