# Verification of base_utilities_esp

`base_utilities_esp` is a component for ESP-IDF: C++ wrappers over the services of
the ESP32 (WiFi, tasks, timers, events, websockets, files) together with the
libraries they stand on, the largest of which is FlashDB, a key-value database in
flash.  This directory holds TLA+ models of it, their model-checking
configurations for TLC, and proofs for TLAPS.

    tlc -workers 2 -config KvdbPowerLoss.cfg MCFdbKvdb.tla   # a run, see section 2
    tlapm WiFi_proofs.tla                                    # a proof module

`PROJECT.json` lists every run with what it shows, the source lines behind every
definition, and for every property a plausible bug that violates it.

## 1. The system

| part | state | operations | what makes it correct |
|---|---|---|---|
| **FlashDB key-value database** `deps/flashdb/src/fdb_kvdb.c` | per sector a store and a dirty status; nodes with a status, name, value, CRC; in memory: oldest sector, collection request, recovery flag, address cache | init/load, set, delete, get, set_default; inside them allocate, create, move, delete, collect garbage, recover | a call takes effect at once or not at all, also when the power is lost; reads see the last value; every call ends; garbage collection loses nothing |
| **FlashDB low level** `fdb_utils.c`, `fdb_file.c`, `fdb.c` | status tables (bits cleared one by one), two cached file descriptors, `init_ok` | set/get status, read/write/erase, open a sector's file | a status reads back as written last; a descriptor belongs to the sector it is used for |
| **WiFi facade** `src/WiFi.cpp` | station, access point, IP, user callbacks | begin, connect, end, softAP, scan, setMode | callbacks report each connection and loss; the old station is gone before the new one acts |
| **WiFi station** `deps/wifi/include/wifi_sta.hpp` | atomic flags connected, disconnecting; retry counter; configuration under a mutex | start, connect, disconnect, scan, reconfigure, event handler | a wanted disconnection is never retried, an unwanted one is retried up to the limit; flags agree with the driver |
| **WiFi access point, interface registry** `wifi_ap.hpp`, `wifi_internal.hpp` | registered configurations, the one active interface | register, switch, remove, stop | at most one interface is active, and it is a registered one |
| **Thread** `include/Thread.hpp` | task handle, stop flag, both unprotected | start, stop, is_running; the task's entry function | a task is deleted once, by its handle; is_running tells the truth |
| **Delayed execution** `include/DelayExec.hpp` | one FreeRTOS timer and one heap context per call | delay_exec, the timer callback | the callback runs once, context and timer are freed once |
| **Ticker, Timer** `deps/ticker`, `src/Timer.cpp` | an esp_timer and a callback | attach, once, detach, active | the callback fired belongs to the current attachment |
| **WebSocket client** `include/WebsocketClient.hpp` | client handle, connected flag, callbacks | connect, disconnect, send, event handler | the flag follows the events; no event reaches a destroyed client |
| **Event registrations** `deps/esp_event_cxx` | handler instance, timer | register, timed register, dispatch, time-out | of the event and the time-out exactly one is delivered |
| **FTP client** `src/FtpClient.c` | control and data connection, response | connect, login, access, read, write, close, quit | replies are matched to commands; no handle is lost on an error |
| **FileHandle, KVHandle, KVDB, Preferences** | an owned handle and a flag | open, close, move, typed get and put | the handle is released once; sizes and defaults are right |
| start-up, IP address, UUID, log box | none | formatting, one-time initialisation | - |
| vendored: stb_ds, magic_enum, the time-series database (compiled out) | - | - | - |

How the parts interact.  The facade owns a station and an access point and gets
their events from the system event task through callbacks; the station's flags
are shared by that task and every caller.  KVDB and KVHandle call FlashDB, which
serialises its calls with a lock the user supplies and reaches flash through one
file per sector.  Delayed execution and Ticker run callbacks in the timer tasks,
concurrently with the callers that start and stop them.  Nothing else is shared.

What is hard here: losses of power between two flash writes (the database),
callbacks of system tasks racing with callers (WiFi, Thread, timers, websocket,
events), retries and time-outs (WiFi, events, FTP), and command queues that are
full (timers).  `PROJECT.json` lists these hazards with the lines where they bite.

## 2. The models

| module | what it is |
|---|---|
| `KVStore`, `FdbKvdb`, `MCFdbKvdb`, `FdbKvdb_proofs`, `FdbKvdbPowered_proofs` | the key-value database and the map it implements (section 3) |
| `WiFi`, `MCWiFi`, `WiFi_proofs` | facade, stations, access points, event task and driver together (section 4) |
| `Thread`, `Thread_proofs` | one Thread object: owner and tasks (section 5) |
| `DelayExec`, `OneShot`, `DelayExec_proofs` | `delay_exec` with the timer service, and the promise it implements (section 5) |
| `ThreadTimers`, `MCThreadTimers`, `ThreadTimers_proofs` | the composition of the two: bodies that call `delay_exec` and are deleted inside it (section 5) |
| `WebsocketClient`, `MCWebsocketClient`, `WebsocketClient_proofs` | user task, event handler and library (section 6) |
| `FtpClient`, `MCFtpClient`, `FtpClient_proofs` | the client against a server and two connections (section 7) |

The `MC` modules only name the values a `.cfg` gives to constants.  A definition
whose name extends that of an action of the code and which no specification uses
(`DropOldApKept` beside `DropOldAp`) is that action with a plausible bug;
`PROJECT.json` says under "mutants" which property finds it.

| run | properties | states |
|---|---|---|
| `kvdb_power_loss` | `TypeOK` `Atomic` `ReadsAreCurrent` `OneNodePerKey` `AllRecovered` `ReserveKept` `CommittedIsComplete` `StatusForward` | 466,170 |
| `kvdb_lengths` | `ReadsAreCurrentPowered` `AtomicPowered` `ReserveKept` `CollectsGarbageOnly` | 249,874 |
| `kvdb_ends` | `Terminates` | 10,012 |
| `wifi` | `WiFiTypeOK` `NoFalseLink` `HandlersAlive` `Reconnects` | 574,896 |
| `tasks` | `TypeOK` `NoOrphan` `HandleLive` `ContextLive` `FreedTimersUnused` `OneShotSpec` `StopNotRevoked` `StopReturns` `ContextsFreed` | 69,208 |
| `websocket` | `TypeOK` `CallbacksInOrder` `ConnectedIsAnnounced` `FlagAgrees` `LossReported` | 150 |
| `ftp_client` | `TypeOK` `RepliesMatch` `InStep` `SocketsOwned` `LocalFileKept` `PutLosesStoppedOnly` `CallsReturn` | 899,184 |
| `kvdb_recovery_stops`, `kvdb_collection_loses`, `thread_stop`, `websocket_end_reported`, `ftp_proper_reply` | one each; end in a counterexample: what the code does is not what its comments say | |

Proved for every value of the constants (`tlapm`): `TypeInvariant`, `Completeness`,
`ReserveAlwaysKept` and `NeverFull` of the database, and, as long as power is lost only while the
database is settled (section 3.3), its refinement of `KVStore` (`SettledImplementsMap`) and
every other safety property of its runs;
all the safety of the WebSocket client; `TypesKept`, `HandlersSafe`, `ConnectedIsTrue` of
WiFi; `ThreadSafety`, `ThreadStopNotRevoked` of Thread; `DelaySafety`,
`DelayImplementsOneShot` of `delay_exec`, and all of the safety and the
refinement again for their composition; `TypesKept`, `RepliesAreAnswers`,
`StaysInStep`, `SocketsHaveOwners`, `FailedGetLeavesNoFile` and `PutsAreWhole`
(`PutLosesStoppedOnly`), all
the safety of `ftp_client`.

## 3. The key-value database

### 3.1 What is modelled

`FdbKvdb` follows `fdb_kvdb.c` as this repository configures it (`fdb_cfg.h`:
key cache on, write granularity one bit, collection threshold one sector).
Each action ends with at most one write of the flash: one program of a header,
contents or status, or one erase (the two places where an action stands for two
programs are named under Abstractions).  What the code computes between two writes
belongs to the action of the later one, because the lock of the database keeps
other calls out and a loss of power destroys everything but the flash.

State.  `store[s]` and `dirty[s]` are the status tables in the header of sector
`s`.  `flash[s][o]` is the node that starts at offset `o`: key, value, status and
whether name and value were written and match the CRC.  `oldest`, `gcRequest`,
`lastDel`, `recovering` and `cache` are the fields of `struct fdb_kvdb`.  `pc`,
`ret`, `call`, `new`, `old`, `gc` and `scan` are the program counter and the local
variables of the running procedure: `ret.create` is where `create_kv_blob`
returns to, and so on.

| code | actions |
|---|---|
| `set_kv`, `new_kv`, `alloc_kv` | `Set`, `SetAlloc`, `SetPrepare`, `SetFresh`, `SetDelete`, `SetEnd` |
| `create_kv_blob`, `update_sec_status`, the copy loop of `move_kv` | `WriteSector`, `WriteHeader`, `WriteData`, `WriteCommit` |
| `del_kv` | the status write inside `SetPrepare`, `SetDelete`, `MovePrepare`, `MoveDelete`, `DelFound`, then `MarkDirty` |
| `fdb_kv_del` | `Del`, `DelFound`, `DelMissing`, `Return` |
| `move_kv` | `MovePrepare`, `MoveAlloc`, `MoveDelete` |
| `gc_collect_by_free_size`, `do_gc`, `format_sector` | `GcBegin`, `GcMark`, `GcMove`, `GcErase`, `GcFormat`, `GcEnd` |
| `fdb_kv_get_blob`, `find_kv` | `Read`, `Find` |
| `fdb_kv_set_default` | `Reset`, `ResetErase`, `ResetFormat` |
| `fdb_kvdb_init`, `_fdb_kv_load` | `Boot`, `LoadHeader`, `LoadHeadersEnd`, `LoadCheck`, `LoadGc`, `LoadStart`, `LoadKv`, `LoadKvEnd`, `LoadEnd` |
| loss of power | `Crash` |

`KVStore` is what the database promises: a map from keys to values, a call that
takes effect in one step or not at all, and a reset that forgets keys one after
the other.  `FdbKvdb` implements it with the map `View`: the value of the written
node of a key, or else of the one prepared for deletion, the node the recovery
would bring back.

Abstractions.  Addresses are a sector and an offset behind its header.  A header,
a node's contents or a status is programmed in one step; the status byte and the
header of a node are separate programs in `write_kv_hdr` but a node whose header
is missing is invisible to the walk, except at the start of a sector in use,
where the model counts it (`EmptyKv`); the name and the value of a node are two
programs as well (`create_kv_blob`, :1235 and :1247), and a node with only the first
fails its CRC like one with neither.  The sector cache repeats what was written
and is left out; the key cache has an entry for every key (no eviction and no
collision of the 16-bit name hash).  Flash writes do not fail.  There are no
default key-value pairs.  The structure is zeroed at power-on, as `_fdb_init_ex`
needs (it reads `init_ok` first); `fdb_kvdb_init` does not set
`last_is_complete_del` itself.

Two facts the model made visible.  A sector never becomes full (`NeverFull`):
`alloc_kv_cb` demands `remain > size + threshold`, after which `update_sec_status`
never finds less than the threshold, so the collection "when current sector is
full" is dead code.  And a set may fail with the database far from full, because only sectors
marked dirty are collected.

### 3.2 What is checked

The constants: three sectors of four units, a node header of one unit, a
collection threshold of one sector (as in `fdb_cfg.h`).  Three sectors are the
fewest with an empty reserve, a sector being filled and one being collected; four
units hold two or three nodes above the threshold, so that allocation has to
choose, sectors fill up, and a collection has something to move.  `OneSize` gives
all nodes one unit, `TwoSizes` one and two: with two lengths the slot found for
one node may not hold another.  `MaxCrashes` bounds the losses of power.

| run | instance | shows |
|---|---|---|
| `kvdb_power_loss` | 2 keys, 2 values, one length, 1 loss | `TypeOK`, `Atomic` (the refinement of `KVStore`), `ReadsAreCurrent`, `OneNodePerKey`, `AllRecovered`, `ReserveKept`, `CommittedIsComplete`, `StatusForward` |
| `kvdb_lengths` | 2 keys, 2 values of two lengths, 1 loss | `ReserveKept`, `CollectsGarbageOnly`; until the loss also `AtomicPowered`, `ReadsAreCurrentPowered` |
| `kvdb_ends` | one length, threshold 2, 1 loss | `Terminates` |

Symmetry in keys, and in values of one length, is used for the safety runs only.
The walk over the database orders sectors and offsets, never keys or values, so
the symmetry is sound.

Two runs end in a counterexample, each a disagreement between the code and what
its comments or messages say:

| run | what happens |
|---|---|
| `kvdb_recovery_stops` | the recovery callback returns `true` at a half-written node, which ends the walk ("check all KV for recovery"); a node prepared for deletion behind it is not recovered and its key cannot be read |
| `kvdb_collection_loses` | `do_gc` logs a move that failed and formats the sector anyway: the last value of a key is gone |

Two more properties fail in these instances, and have no run of their own.
`DeletedNotCached`, in that of `kvdb_collection_loses`: a move that failed leaves
`last_is_complete_del` set, so the next `fdb_kv_del` keeps the address of the deleted
node in the cache and reads return the deleted value (`fdb_kvdb.c:969`).  `Terminates`, in
that of `kvdb_recovery_stops` without its symmetry: `_fdb_kv_load` collects and walks
again for ever when a node can never be moved (`fdb_kvdb.c:1657`).

All but the first need a database so full that a move finds no space, which the
reserve prevents until losses of power have left copies behind.

Fairness.  The only assumption is `WF_vars(Work)`: once called, the code runs on.
That is what a function that does not block does; the lock is held by the caller
that runs.  Nothing is assumed of the callers, and the losses of power are
bounded by `MaxCrashes`, so the liveness says "when the power stays on, the call
in progress ends".

### 3.3 What is proved

Everything here holds for every number of sectors, sizes, keys, values, lengths of
values and bound on the losses of power that satisfy `FdbAssumption` and
`NoneAssumption`.  `FdbAssumption` says that a node is no shorter than its header,
that the thresholds are natural numbers and the reserve is at least one sector
and smaller than the database (the assertion of `fdb_kvdb_init`).
`NoneAssumption` keeps `None` apart from all other values.

**After any losses of power** (`FdbKvdb_proofs`):

* `TypeInvariant`: `Spec => []TypeOK`.  This is more than typing: a slot
  allocation computes lies inside its sector, every `CHOOSE` of a nearest or
  farthest sector, node or place is of a nonempty set that has one, and no
  procedure reads a local variable it did not set.
* `Completeness`: `Spec => []CommittedIsComplete`.
* `NeverFull`: no sector gets the status `FULL`.
* `ReserveAlwaysKept`: `Spec => []ReserveKept`, there is an empty sector between
  calls wherever the power was lost.

The first two are not inductive.  `IInv` adds where each procedure may return to
(`ReturnsOK`), which variables hold a value while it runs (`RunningOK`), that
empty sectors hold no node (`BlankOK`), that a reserved slot is free and a slot
being written is in use (`NewOK`), that the node being replaced is complete
(`OldOK`), and that the address cache leads to complete nodes (`CacheOK`): without
it a stale address could take a half-written node to "deleted" by way of
`fdb_kv_del`.  The proof has a lemma for each action; the lemmas `QuietStep`,
`CalmStep` and `StatusStepPreserves` treat the steps that write nothing, lead into
a procedure, or write a status.

`ReserveKept` fails at many steps inside a call: a collection fills the last
empty sector, and a loss of power may fall before it has emptied another.
`LeftInv` says what takes the place of the empty sector then.  `LeftOK`: while a
sector is emptied its header says `GC`; with the power off there is an empty
sector, one without header (the load formats it) or one marked `GC` (the load
collects it); during the load's walk a marked sector is still ahead of the walk,
and of the collection it calls.  `TakenOK`: outside a collection a reserved slot
is not in the last empty sector.  This needs `AskedOK`, that `gc_request`, which
opens the reserve to `alloc_kv`, is set only in a collection and where one is
about to run; that in turn needs `NeverFull`, since a full sector would set it
in the middle of a set.  `CleanOK` keeps a deletion from taking the `GC` mark
off a header.

**With losses of power while the database is settled** (`FdbKvdbPowered_proofs`).
The counterexamples of section 3.2, `DeletedNotCached` included, lose the power while a node is being
replaced or moved.  These theorems say which losses they need: with
`LossesSettled`, that whenever the power is lost no node is prepared for deletion,
and if a sector is marked for collection there is an empty one (`Settled`), there are none.  The
power may be lost any number of times.  A new node may be half-written, a
collection half done, or its sector erased and not formatted, a reset in the
middle, a load anywhere.  `RestIsSettled`
proves the hypothesis from the place of the loss alone: it holds when no node is being
replaced, no sector emptied or formatted and no database reset (`AtRest`), so in
particular between calls, in reads, in deletions, in sets of new keys and in loads
outside the collection they may run.

* `SettledImplementsMap`: `Spec /\ LossesSettled => Atomic`, the refinement of `KVStore`.
* `ReadsSettled`, `OneNodeSettled`, `RecoveredSettled`, `DeletionsUncachedSettled`: what
  holds between calls (`ReadsAreCurrent`, `OneNodePerKey`, `AllRecovered`,
  `DeletedNotCached`).
* `CollectsGarbageSettled`: the collection erases only nodes that carry no value.
* `StatusForwardSettled`: a status never goes back.
* Without any loss: `PoweredImplementsMap`, `CollectsGarbagePowered` and
  `StatusForwardPowered` follow from these.  `ImplementsMapPowered`, `ReadsPowered`,
  `OneNodePowered`, `RecoveredPowered` and `DeletionsUncached` hold up to the first loss,
  also one that is not settled.

They rest on one invariant, `Powered`, preserved by each of the 37 actions and by a
settled loss of power.  The
heart is why a move never fails, although `do_gc` does not look whether it did:

* `ReserveOK`: outside a collection some sector is empty, and a set does not
  take the last one.  When a set asks for a collection this sector is where the
  first node can go.
* `RoomOK`: while a sector is emptied there is another with room for all that is
  still ahead (`Ahead`).  With values of different lengths this is not a matter of
  counting bytes: the sector a node is copied to is filled no further than the
  offset the walk has reached in the sector being emptied (`Takes`), because a
  copy starts no later than its original and is as long, and originals do not
  overlap.  Then whatever is still ahead fits at its own offset, and the
  threshold behind it with it (`Spaced`: every node leaves the threshold behind it).
* `EmptyingOK`: what the walk has passed carries no value (`Garbage`).
* After a loss the load runs the collection again: the sector it empties may hold
  nodes that were deleted by moves before the loss, and the half-written node of a
  set.  `LoadingOK` gives it the empty sector to begin with, as `ReserveOK` does in a set.

The rest says what the nodes of a key look like on the way: `StatusOK` (which
node is half-written or prepared for deletion: the one being created or replaced, or
one half-written node a loss left, which is there until the load's walk has met it or a
collection has erased its sector, `Left` and `Unwalked`; since there is only one, the walk
that stops at the first half-written node has passed all), `KeysOK` (one written
node of a key, none while the old one is prepared and not replaced), `LeadsOK`
(the cache leads to the node that counts), `LinkOK`, `CallOK`, `ControlOK` (the
node being created, the one it replaces and the call belong together, and the two
flags `gc_request` and `last_is_complete_del` follow the program counter),
`LayoutOK`, `SectorsOK` (nodes do not overlap; an empty sector is not marked dirty).  `IInv` and
`Powered` were checked with TLC on small instances before they were proved.

For the refinement, `Shows(k, v)` says which nodes carry the value of a key;
`ViewsAreShown` proves that the `View` of the refinement mapping computes it.  Then
a set takes effect in `WriteCommit`, a deletion in `DelFound`, a reset forgets
keys in `ResetErase`, and every other step, a loss of power and the load's discarding of a
half-written node included, keeps what every key shows.

Only model-checked: the same properties across losses of power (`Atomic`,
`ReadsAreCurrent`, `OneNodePerKey`, `AllRecovered`, `StatusForward` with one loss and
values of one length, `CollectsGarbageOnly` with one loss and two lengths: recovery
leaves copies behind, and with enough losses, or values of different lengths, some
of them fail for the reasons the counterexamples show), and `Terminates`, since TLAPS does not treat liveness.

## 4. WiFi

### 4.1 What is modelled

`WiFi` is `src/WiFi.cpp` with the parts of `wifi_sta` and `wifi_ap` it calls.  One
task calls the facade.  A call is a list of steps in `todo`, each of which reads
and writes shared state once; the event task runs between any two of them.

| code | model |
|---|---|
| `WiFiClass::sta_`, `ap_`, `m_connected` | `sta_`, `aps` (how many access points are constructed), `m_connected` |
| the station being made or destroyed by `begin` and `end` | `fresh` |
| `WifiSta` objects and their registration with the event loop | `alive`, `registered` |
| `WifiSta::connected_`, `disconnecting_` | `connected_`, `disconnecting_`, by station |
| `begin(ssid, password)`; `connect(ssid, password)` | `Construct`, `Configure`, then `~WifiSta` of the old station; for the latter then `connect` |
| `~WifiSta` | `DestroyFlags`, `Unregister`, `Shutdown` |
| `connect`, `WifiSta::connect` | `CheckConnected`, `EnsureReady`, `ResetConnected`, `Join` |
| `end` | `StopFlags`, `StopLink`, `~WifiSta`, `StopAp`, `DestroyAp`, `EndFacade` |
| `softAP`, `softAPend` | `MakeAp`, `DropOldAp`; `StopAp`, `DestroyAp` |
| `scanNetworks` | `Scan` |
| `WifiSta::event_handler`, the facade's callbacks | `Dispatch`, `NextHandler`, `OnStart`, `OnDisconnected`, `Retry`, `handle_disconnect`, `OnGotIp`, `handle_ip` |

The driver of ESP-IDF is external: `mode`, `started`, `link`, the queue `events`,
and the operators `esp_wifi_*`, which say what a call does to them.  Assumed of
it: a link that is up or being made and is given up or lost is reported by one
`STA_DISCONNECTED`; `STA_GOT_IP` is posted when the link comes up, before any
later loss; events are handled one at a time and in order, by every handler that
is registered when the event is taken from the queue; registering and
unregistering wait for the handler that runs.

Abstractions.  An address is there when the link is.  Scan results, host names,
static addresses and power saving are left out, and calls of the driver do not
fail for want of memory or a bad configuration; so is the attempt counter
(the facade sets no limit, `wifi_sta.hpp:690`).  `MaxEvents` bounds the queue: no
call starts and no link changes while so many events wait; with three, a loss,
a new link and a start can wait together while a call runs.  Two stations are
all there ever are: `begin` destroys one before it makes the next.

### 4.2 What is checked

`wifi` lets every order of the six calls run against the event task and a link
that comes and goes.  `NoFalseLink`: between calls `isConnected` says yes only of
a link that is up, or one whose loss this station's handler has still to see.
`HandlersAlive`: no event is handled for a station that is not constructed, and
between calls the facade's station is the only one registered.  `Reconnects`: a
link that was lost without being asked for is set up again as long as the
application makes no call and the driver runs the station.

Fairness.  `WF(CallStep)`: a call, once begun, goes on; every step is a bounded
computation of its task.  `WF(EventTask)`: the event task runs.
`SF(Associates)`: the access point is in reach often enough; without it no code
can reconnect.  Nothing is assumed of the application, nor of losses.

### 4.3 What is proved

`WiFi_proofs` proves `WiFiTypeOK` (`TypesKept`), `HandlersAlive` (`HandlersSafe`)
and `NoFalseLink` (`ConnectedIsTrue`) for `WiFiSpec`, which the run's
`FairWiFiSpec` implies, for every set of at least two stations
(`StationAssumption`), every choice of calls (`CallAssumption`) and every
`MaxEvents`.

None is inductive.  `Shape` adds what the steps left in `todo` can be (`Plan`: each
step is followed by one of those that may follow it, and a call ends as it must),
which stations are constructed and registered at each step (`StationsOK`), and
that the event task handles events for registered stations only (`HandlingOK`).
`NoFalseLink` needs in addition `LinkOK` (a station that says connected while the
link is down has a `STA_DISCONNECTED` coming), `AddressOK` (after a `STA_GOT_IP`
in the queue or being handled, the link is up or a `STA_DISCONNECTED` follows)
and `EndOK` (once `end` has let go of the station no handler is left that could set
`m_connected` again).  The driver's calls enter only by the lemmas `WifiStart` to
`StaShutdownGrows`: each leaves the queue as it was or appends to it, and a link
that goes down appends `STA_DISCONNECTED`.

### 4.4 Where the code does less than one would expect

The model contains these; they are no violations of what the source says of
itself, or the source says nothing.

* `connect` clears `connected_` after it has looked at it (`wifi_sta.hpp:566`); when
  `STA_GOT_IP` is handled in between, `isConnected` stays false on a link that is up.
* `setMode` asks `esp_wifi_get_mode(NULL)` first (`WiFi.cpp:243`), which the driver
  refuses, so it never sets the driver's mode: only the station and the access point do.
* `softAPend` stops the access point and then destroys it, which stops it again:
  with both interfaces on, the first stop leaves the station, the second stops
  WiFi and the station with it (no property forbids it: the source promises nothing).  A second `softAP` starts the new access point
  before the destructor of the old one stops "the" access point, so none is left.
* A second `begin` while an access point runs: the destructor of the old station
  leaves the driver in access-point mode, where the new station cannot connect
  (again nothing forbids it, and the two hazards in `PROJECT.json` say so).
* A scan gives up the link; its loss counts as unasked for and is retried.
* `begin(ssid, password)` never connects (`auto_connect` is false), though the example
  at `WiFi.hpp:21-25` waits for the connection after it.
* `~WifiSta` clears the callbacks without the mutex the handler takes
  (`wifi_sta.hpp:112`); the model lets the handler find them or not (`Cleared`).

## 5. Threads and delayed execution

### 5.1 What is modelled

`Thread` (`Thread.hpp`): the owner's `start` and `stop` and the task's entry
function, each access of the unprotected `m_task` and `m_should_stop` a step.

| code | actions |
|---|---|
| `start`, `xTaskCreate` | `Start`, `CreateTask` (may fail) |
| `stop`: the look at the handle, the flag, the wait, `vTaskDelete`, the reset | `Stop`, `SetFlag`, `WaitForTask`, `ReadHandle`, `DeleteTask`, `ClearHandle` |
| `task_entry` | `Begin`, `RunReturns`, `ClearOwnHandle`, `DeleteOwnTask` |

`owner` is where the owner is, or how it was lost: `asserted` in `eTaskGetState`
of a null handle, `deleted` by a `vTaskDelete` of a null handle, `corrupt` by the
use of a dead handle.  FreeRTOS is external: it stores the handle before the new
task can run.  Each of `Tasks` is created once, which bounds the run.
`MayReturn` says whether a body may end without being told to.

`DelayExec` (`DelayExec.hpp`): `delay_exec` is `Create`, `StartTimer`,
`DeleteUnstarted`, `FreeContext`; the callback is `Expire`, `CallbackEnds`,
`DeleteSelf`.  The timer service (the daemon, its queue of `QueueLength` commands)
is external: `ProcessStart`, `ProcessDelete`, and `OtherUsers`, whose commands fill
the queue as well.  `OneShot` is the promise: a request is accepted or refused,
an accepted callback runs once, a refused one never.

`ThreadTimers` composes them: the bodies of tasks call `delay_exec`, and a task
that `stop` deletes leaves its call where it was.

### 5.2 What is checked

`tasks` has two tasks (a restart needs two, and two requests compete for the
queue) and a queue of two, which one request and another user fill.
`NoOrphan`: a task that has not finished is named by the handle, so it can be
stopped, and there is one at most.  `HandleLive`: outside `stop` a handle names a
task that is there.  `StopNotRevoked`: `start` does not take the stop flag back
from a task that has to see it.  `ContextLive`, `FreedTimersUnused`: nothing that
was freed is used.  `OneShotSpec`: the refinement.  `StopReturns`: `stop` ends, or the
owner is lost.  `ContextsFreed`: contexts are freed in the end, except in the two
cases the code has: the calling task was deleted inside `delay_exec`, or the
daemon waits for room in a queue only it can empty (`DaemonStuck`,
`xTimerDelete(portMAX_DELAY)` at `DelayExec.hpp:22`, in the daemon's own task).  So this
property says nothing of that hazard.  The model reaches it: other users fill the queue
while a callback runs, `xTimerDelete` waits for room in the task that alone makes room,
and the timer service stands still for good, although `DelayExec.hpp:34` promises that
the timer is deleted after its callback has run.
Deadlock is not checked, because the system really stops: the owner may be lost,
the daemon stuck, the tasks used up.

Fairness.  Weak fairness of `stop` and `CreateTask`, of a call of `delay_exec` once
begun, and of the daemon: the scheduler runs tasks that do not block.  `stop`'s wait has a
timeout, so its loop is left.  Nothing is assumed of bodies or of the application.

`thread_stop` ends in a counterexample of `StopComesBack`: a body that ends while
`stop` waits for it clears the handle, and `stop` goes on with what the variable
holds.

### 5.3 What is proved

`Thread_proofs`: `ThreadSafety` (`ThreadTypeOK`, `NoOrphan`, `HandleLive`) and
`ThreadStopNotRevoked`, from `ThreadInv`, which adds what the owner's position says
of the handle it has read and of the flag.  `DelayExec_proofs`: `DelaySafety` and
`DelayImplementsOneShot`, from `DelayInv`, which gives every request one of a few
lives (where its call is, whether its command waits, its timer's and its context's
state) that exclude each other.  `ThreadTimers_proofs`: each step of
the composition is a step of one part and a stutter of the other
(`PartsImplemented`), so the theorems carry over: a task deleted anywhere inside
`delay_exec` breaks none of them.  Assumed are `TaskAssumption` (null is no task),
`QueueAssumption` (the queue has room for one command) and `OneRequestPerTask`.

Outside the model: a body that calls `stop` on its own thread, which deletes the
running task at `Thread.hpp:158`; and a delay of less than a tick, for which
`xTimerCreate` fails an assertion (`DelayExec.hpp:42`).

## 6. The WebSocket client

`WebsocketClient` has a user task (`connect`, `InitClient`, `StartClient`, `disconnect`,
`StopClient`, `DestroyClient`, `CheckSend`, `send`, `set_auto_reconnect`), the event handler
(`OnConnected` to `InCallback`, named as its branches and callbacks; `OnOther` is its
default branch) and the library `esp_websocket_client`.  The library is external.
Assumed of it: it changes its own state and then dispatches the event, one event at a
time under its lock; `stop` returns when its task has ended, and `destroy` follows; a
send that fails gives up the connection and runs the handler in the task that sent,
also inside a callback; it connects again after a loss.  When the server closes the
connection (`Closes`) it answers the close, no longer counts as connected, and ends
its task with `WEBSOCKET_EVENT_CLOSED` (`Ends`): that is what it does unless
`enable_close_reconnect` is set, and `connect` does not set it
(`WebsocketClient.hpp:111-130`).  The handler is registered for every event and drops
this one.  It drops the events that say a task or a connection attempt begins, and
that the task is finished, as well; nothing depends on these and the model has none.
`told` is a history variable: what the callbacks have told the application.

The client has no constants, so `websocket` checks the whole state space: that
callbacks come in order (`CallbacksInOrder`), that a connection the application may
use was announced to it (`ConnectedIsAnnounced`), how the flag and the library agree
when nothing is under way (`FlagAgrees`: the flag is set exactly while the library is
connected, or after a connection the server closed), and that a connection lost while
the library goes on is reported to an application that was told of it
(`LossReported`).  Fairness: the handler runs to its end, a `disconnect` that was begun
goes on, and the library ends a connection that is closing, for which it waits a
bounded time only.

`websocket_end_reported` ends in a counterexample of `EndReported`, that the end of every
announced connection reaches `on_disconnected` (`WebsocketClient.hpp:21`, `:284`): the
event of a connection the server closed is dropped.  Nor does anything connect again
then, with `m_auto_reconnect` or without: the comment at `:392` leaves this to the library,
whose task has ended.

`WebsocketClient_proofs` proves the four safety properties (`ClientTypeInvariant`,
`CallbackOrder`, `ConnectionAnnounced`, `FlagAgreement`).  None is inductive: what the
application was told agrees with the flag only up to the callback that is about to
run (`ToldOK`), the flag with the library up to the event not handled yet, and up to a close by
the server, after which it stays set (`FlagOK`), an event is handled in the library's state that dispatched it
(`EventOK`), and the library has a task only between start and stop (`UserOK`).
`ClientInv` is these four and the types.

Where the code does less than one would expect: `auto_reconnect` is stored and never given
to the library, which reconnects after a loss anyway (`WebsocketClient.hpp:96`, `:312`); `send_frame`
ignores `fin` (`:264`); the library keeps a pointer into the certificate string that the
setters change (`:121`).  Two tasks that call the object at once are outside the
model: nothing protects it from them.

## 7. The FTP client

### 7.1 What is modelled

`FtpClient` follows `FtpClient.c` for one task that calls it.  A call that only
exchanges commands is a script: the commands in order, with their lengths and the
digit of the reply each needs (`Scripts`).

| code | actions |
|---|---|
| `sendCommand`, `readResponse`, `readLine` | `SendCommand`, `ReadResponse`, `Rests` |
| the calls without a data connection | `StartScript`, `ContinueScript`, `QuitEnds` |
| `connectFtpClient` | `connectFtpClient`, `ConnectEnds` |
| `accessFtpClient`, `openPort` | `StartAccess`, `TypeReplied`, `openPort`, `PortReplied`, `TransferReplied`, `AccessFails`, `AccessSucceeds` |
| `acceptConnection` | `acceptConnection` |
| `xfer`, `readFtpClient`, `writeFtpClient` | `xferLoop` (`xferSend`, `xferReceive`), `xferFinish`, `readFtpClient`, `writeFtpClient` |
| `writeLine`, `socketWait` | `WritesBlock`, `WritesShort`, `Stops` |
| `closeFtpClient` | `StartClose`, `closeFtpClient`, `CloseEnds` |
| `setCallbackFtpClient`, `setOptionsFtpClient` | the same |

`ctl` and `data` are the two `NetBuf`s, `socks` the open sockets, `local` the local
file of `xfer`.  Reply lines are abstracted to their first digit, whether more
lines follow, and whether the line fits the response buffer; `"text"` stands for
`response` holding an error text.  The server, the
network and the data connection (`wire`, `srv`, `flow`) are external: the server
takes one command at a time, answers it with one reply, refuses, or begins a transfer and ends it
with a second reply; the control connection may break at any point and lose what
is on its way.  Assumed of the application: one data connection at a time, and
no control command while it is open; the client has one response buffer and
does not work otherwise.

Every failure that returns early is there: name lookup, sockets, allocation,
refusals, timeouts, callbacks that stop a transfer, paths that do not fit.  A read
error of the local file looks like its end to `xfer` (`FtpClient.c:334`), so a put may
end after any block (`xferSend`).

A line that does not fit.  `readLine` gives up a line of 1024 bytes or more: the
response becomes empty and the rest stays in the buffer (`FtpClient.c:184-187`).  So does
`ReadResponse` with a line of kind `long`: the call fails, and the rest is put in front of
the next lines (`Rests`), with any first character, as a line that answers nothing.
Among the lines of a longer reply (`among`) it keeps `readResponse` looking for a last
line (`pc = "skip"`, `FtpClient.c:242`).  Bounds: one such line on a connection, in
any of its replies (`srv.long` remembers it), whose rest fits the buffer, has no `-` in
its fourth place and does not happen to repeat the code `readResponse` looks for; after it
the application begins no access on that connection, since the model has one data
connection and the server would still be busy with the last.  The
constant `Overlong` turns such lines on.

The end of an ASCII write.  `writeLine` gathers bytes and sends them when its buffer is
full and once more at the end.  A stop of `socketWait` before that last flush returns
less than was given (`WritesShort`); one at the last flush returns all of it, with bytes
not sent (`WritesBlock`, second disjunct).  `flow.lost` remembers both.  A connection
holds at most `FileBlocks` blocks that were not taken from it yet.

Left out: `closeFtpClient` on a control structure (`FtpClient.c:1338-1345`), which
closes the socket and frees the structure as `quitFtpClient` does; `getLastResponse`, a
read; `clearCallback` is `setCallback` switched off.

### 7.2 What is checked

`ftp_client` runs a call of each form (`FormCalls`; the others differ in verbs and lengths
only), without a path, with a short one, and with the two lengths 1017 and
1018 at which the buffers of the client end; files have up to two
blocks (`FileBlocks`), the least with a first, a last and a lost block; a connection may
have an overlong line.  `RepliesMatch`: a reply that is read answers the command
sent last.  `InStep`: between calls no reply is outstanding, which is what
`closeFtpClient` has to see to after a transfer.  Both are said of a connection up to its
overlong line, also of the next connection after one that had it.  `SocketsOwned`: the open sockets
are those of the structures; the one exception, the listening socket that
`openPort` forgets when `getsockname` fails (`FtpClient.c:461`), is kept apart as
`lost`.  `LocalFileKept`: a `get` that reports a failure leaves no file (one the server cuts
short returns 1 and keeps what came).  `PutLosesStoppedOnly`: a `put` that succeeds has sent
every block it read, but for an ASCII put whose last flush was stopped: there the code
reports success for bytes that were never sent (`FtpClient.c:574-576`), against its
comment "return 1 if successful" (`:293`).  `CallsReturn`: every call
returns, except in `WaitsForNobody`, see below.

`ftp_proper_reply` ends in a counterexample of `ProperReply`, that `sendCommand`
succeeds only by the reply to its command ("wait for expected response",
`FtpClient.c:265`): after an overlong line the rest of that line counts as the next reply.

Fairness.  `WF(Client)`: the caller runs on.  `WF(Server)`: the server answers or the
connection breaks; the control connection is read without a timeout
(`FtpClient.c:224`), so with a silent server no call need return.

Where the code does less than one would expect: a path of exactly 1017 characters
passes the test of `accessFtpClient` (`FtpClient.c:1232`) but its command does not pass
that of `sendCommand` (`FtpClient.c:277`); the data connection is open, the
command is not sent, and `closeFtpClient` waits for the reply to it for ever
(`WaitsForNobody`, like the reply of several lines with an overlong one); a login whose `USER` was not
answered takes the first digit of an earlier response for the answer
(`FtpClient.c:883`); `xfer` ignores the reply that ends the transfer
(`FtpClient.c:372`), so a `get` or `put` the server ended with an error counts as
complete.

### 7.3 What is proved

`FtpClient_proofs` proves the six safety properties of `ftp_client` for `Spec`, which
`FairSpec` implies, for every set of calls, paths of every length and files of
any number of blocks, with overlong lines and without.  The one assumption is
`ConstantsAssumption`: lengths and the number of blocks are natural numbers.  The lengths of the two buffers are those
of the source.

The properties speak of the moments between two calls; that they hold there depends
on every step inside one.  `IInv` has five layers:

* `Shape`: the place of the caller says which commands are left (`OnScript`,
  `OnAccess` with its plan of one to three commands, `OnStream`, `OnClose`) and
  whether the data structure exists.
* `Exchange`: as long as every line of the connection fitted, the exchange is
  `Orderly`.  `Due` says for each place which replies are outstanding: none,
  those to a plain command, to a transfer, or the one that ends it.  `Answer` ties
  the digit in `response`, by which `closeFtpClient` decides whether to read once
  more, to what is outstanding; `Reached` says the data connection is there
  before the server uses it (else a transfer could end without a refusal);
  `Tagged` says the lines belong to the command sent last.  A path of 1017
  characters keeps this invariant: nothing is outstanding, and the client waits.
  After an overlong line nothing of this is left, and nothing restores it before
  the control structure is freed (`FlagLives`, `FlagFalls`); then a new connection
  begins in order.
* `Sockets`: which sockets are open inside `openPort` and `acceptConnection`.
* `Files`: what each kind of call may have open.
* `Puts`: the data connection has the type and the callback of its call, and a put
  that is to report success has lost a block only if it is an ASCII put with a
  callback.

The first two are proved on their own, since every other layer needs them; then
each layer has one lemma for the caller's steps and one for the rest.  `Inductive`
puts them together.  The layers were checked with TLC on smaller instances before
they were proved.

## 8. Only model-checked

Liveness (`Terminates`, `Reconnects`, `StopReturns`, `ContextsFreed`, `LossReported`,
`CallsReturn`), because TLAPS does not treat it; and the properties of the database
after a loss of power in the middle of replacing or moving a node, or in a collection that
has used up the empty sector, except its types, `CommittedIsComplete`, `ReserveKept` and
`NeverFull`, which hold after any.  After such a loss the properties hold in `kvdb_power_loss`
(one loss, nodes of one length); with other constants the counterexamples of
section 3.2 violate `AllRecovered`, `CollectsGarbageOnly` and `DeletedNotCached`, so these
are theorems only with a restriction on the losses.

## 9. Not modelled

* **FlashDB low level**: status tables and the cache of two descriptors; sequential
  encodings that `FdbKvdb` takes as atomic writes and reads.
* **FlashDB time-series database**: compiled out (`fdb_cfg.h`).
* **KVDB, KVHandle**: wrappers that call functions the FlashDB in `deps/` does not have
  (`fdb_kvdb_clean`, `fdb_kv_get` with four arguments), so there is no behaviour to
  follow.
* **Preferences**: one call of the NVS library per operation.
* **WiFi interface registry** (`wifi_internal.hpp`): not used by the facade; locked by
  one mutex from end to end.
* **Ticker, Timer**: thin wrappers over `esp_timer`, whose guarantees about a callback
  that is running decide everything and are outside the repository.
* **esp_event registrations**: a vendored wrapper; its timed registration is used by
  nothing in `src/` or `include/`.
* **FileHandle**: one `FILE` owned by one task.
* **Start-up, IPAddress, UUID, log helpers, vendored containers**: sequential
  formatting and initialisation without state to speak of.

Of the modelled parts, left out are: the database's default values,
iteration, check and control calls, cache eviction and hash collisions, and
failing flash writes; the station's reconfiguration while in use, its attempt
limit and its getters, and calls of the WiFi driver that fail; the access point's list of stations and DHCP; certificates
and message contents of the WebSocket client; the closing of a control structure
by `closeFtpClient` in the FTP client.
