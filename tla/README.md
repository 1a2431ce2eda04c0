# Gateway Firesmart: a verification project

The repository (`src/fcom_V2-ace`) is the firmware of an ESP32 gateway for fire
detectors: FreeRTOS on two cores, a 433 MHz radio behind a UART, one wired input,
Wi-Fi and a SIM modem, MQTT to a server, BLE for commissioning. It brings its own copies
of the ESP-IDF components it talks through (`components/mqtt`, `modem`, `esp_netif`,
`tcp_transport`, cJSON), some of them changed. These TLA+ modules model the firmware's
tasks and the parts of those components that its operation rests on. What lies outside
`src` (FreeRTOS, lwIP, mbedTLS, the broker, the phone) is modelled by what the code makes
of it and named *external* in PROJECT.json.

## Inventory

| part | code | state | operations |
|---|---|---|---|
| radio task (core 0) | `task/uart_task.c` | `ssStateMachine`, `isRegisterSensor`, `isSensorFeedback`, probe counter, the radio's configuration | probing, configuring the radio for pairing or listening, `{N00}` pairing, `{F,L,E,T..}` reports |
| panel task (core 1) | `hmi/hmi_service.c` | `is_start_add_device`, report timers, relay, LEDs, button | wired pairing, wired reports, factory reset |
| command handler (MQTT client task) | `json_parser/json_parser.c` | `rf_config_mode`, `sync_code`, `is_start_ota` | add, stop add, remove, update firmware |
| sender (core 1) | `task/mqtt_task.c` | `data_process`, `mqtt_status` | publish per event, save the registry, reset alarms, stop MQTT for an update |
| registry file | `user_driver/flash/user_flash.c` | `/spiffs/sensor_data.txt` | save, restore, erase |
| heartbeat monitor (core 1) | `task/alarm_task.c` | linked list of (id, time stamp) | add or refresh, drop the silent ones and report them |
| provisioning | `task/plan_task.c`, `task/mqtt_task.c` | certificate files, `get_active_start`, plan state | fetch certificates, start MQTT, wait for an update |
| firmware update | `task/ota_task.c` | `is_start_ota`, link | download, restart |
| network switch | `main/main_app.c` | Wi-Fi and modem status, `mqtt_count`, event groups | connect, fail over between Wi-Fi and SIM, restart |
| BLE commissioning | `ble/ble_service.c`, `main/main_app.c` | receive queue, pair key | receive the Wi-Fi credentials, report an update |
| start-up | `main/main_app.c` | everything | restore, create queues, start the tasks |
| MQTT client | `components/mqtt/esp-mqtt` | client state, outbox, `pending_msg_count`, both buffers | connect, publish, resend, stop, destroy; message formats |
| SIM modem and PPP | `components/modem`, `esp_netif_lwip_ppp.c` | DTE, DCE, mode, line buffer, netif | AT commands, PPP mode, teardown |
| interfaces | `components/esp_netif` | list of interfaces, addresses, DHCP state, default | start, stop, up, down, lost-address timer |
| transports | `components/tcp_transport` | list of transports, contexts, error handle, web socket frame | connect, read, write, close, destroy |
| JSON | `components/json_parser/cJSON*` | items on the heap | parse, print, compare, change, patch |
| UART, flash drivers, user timer, Ethernet | `user_driver`, `esp_eth` | hardware | not modelled |

The tasks interact through plain globals (`sensor_data`, `gateway_data`,
`ssStateMachine`, `rf_config_mode`, `is_start_ota`), one queue (`data_process`) whose
events carry no data, and the file. There is a mutex, `xMutex`, but only the radio
task ever takes it, and `alarm_mutex` is taken by the heartbeat monitor alone:
neither excludes anything. The two cores run truly in parallel. Drivers talk to the
tasks through the default event loop, whose handlers run in one more task; the MQTT
client has its own task and one lock, which its poll for data does not hold.

Which behaviours are hard, part by part, and what makes each part correct:

- *Radio mode*: three tasks store one variable while the radio task spends seconds in
  a configuration. Correct: the radio has the settings of the mode; the machine comes
  to rest; commands are carried out; probing is over once it is over.
- *Registry*: slots are given out by two tasks, given back by a third and copied to
  flash by two, and the power can go at any point. Correct: a slot in use was paid for
  by a pairing, and lies where the loops over the registry find it.
- *Heartbeat monitor*: a list is changed by several tasks without a common lock and its
  memory is freed under the walk. Correct: the list stays a list; losses are real and
  are noticed.
- *Sender*: a short queue of events without data, a connection that comes and goes.
  Correct: what was accepted for publishing is published and saved in the end.
- *Network switch*: modem events arrive in the middle of the task's checks. Correct:
  the modem is taken down once; the status is true; the gateway comes back.
- *Provisioning*: three downloads and three files, a reboot that only asks whether the
  files exist. Correct: credentials of two activations are never mixed, and never lost.
- *Start-up*: tasks start before the queues and event groups they use exist. Correct:
  nobody uses a handle that is not there, and boot comes to its end.
- *MQTT client*: packets lost with the connection, a full outbox, messages that expire,
  `stop` and `destroy` from other tasks. Correct: what was enqueued reaches the broker
  at least once or expires; a message acknowledged is gone; nothing is used after free.
- *Message formats*: lengths with continuation bits, fragments, reads in pieces. Correct:
  what is written is read as what was asked.
- *Modem*: answers late or missing, PPP ending by itself during the teardown. Correct:
  both ends agree on the mode; objects are freed when nobody uses them.
- *Interfaces*: three of them, one default, a timer that fires for an address that came
  back. Correct: the default is the best one that is up; what was told is what is.
- *Transports*: contexts shared by several transports, frames read in pieces. Correct:
  no socket leaks, no context is used after free; bytes arrive in order and once.
- *JSON*: references, names and values that may be shared. Correct: every item has one
  owner and is freed once; what is printed is read back as the same.

PROJECT.json lists the hazards line by line with the properties that watch over them.

## Modules

Every specification has the same layout: constants with a named assumption, variables
with the source's names, `TypeOK`, `Init`, one action per step of a task, `Next`,
fairness, properties. Definitions called `X_Y` right before a definition `X` are
variants of it with a plausible bug; they are used to see that a property notices it.
`MC*.tla` and `*.cfg` give the constants values for TLC, `*Proofs.tla` hold the proofs.
An MC module may put several independent parts side by side: the variables of one
rest while another runs, so that one run answers for all of them. Where two parts
interact, one of the modules below has both; where a module only needs what another one
promises, the text says so.

### RfMode (uart_task.c, json_parser.c, hmi_service.c)

`ss` is `ssStateMachine`; `radio` is what the radio module is configured to: what it
held at boot, the factory settings (`RF_config_default`) or a sync code
(`SET_RF__SYNC_config`). `pc` is the radio task's place in the pass of
`rf_handle_ext_task`, `cmd` the command handler's place in `json_parser_gw_job`,
`panel` that of the wired pairing in `hmi_process`. **A step is one store or one test of
a shared variable**, since that is where the cores interleave. A sync code is stored byte
by byte, so a configuration that overlaps may read a `Torn` one; a later command stores
it completely. `Tick` stands for the 500 ticks between probes.

### Registry (uart_task.c, hmi_service.c, user_flash.c, json_parser.c, mqtt_task.c)

`activated` is the set of slots with `device_activated = 1`, with `maxDetector`,
`inputChannel`, `curDetector` and `isRegisterSensor` as in the code. `rf`, `panel`,
`remove` and `save` say where the four tasks are. **A step is the code between two
blocking calls** (UART writes, delays, file operations, `xQueueSend`). A save copies
`sensor_data` onto the stack (it is passed by value), truncates with `fopen`, writes
with `fclose`; `Restart` keeps the file and `FactoryReset` takes it away. Feedback
events are a counter here; Uplink has the queue.

### DetectorList (alarm_task.c)

`dtor` is memory: each cell an id, the age of its stamp and a link. Reports and the walk run
on two cores, and only the walk takes `alarm_mutex`, so both are taken apart at what they
share. `add_state` copies the head (`AddBegin`), searches cell by cell (`AddNext`,
`AddFound`), stamps (`AddStamp`) or puts a cell in front (`AddPush`, `AddFails`), and stores
the head (`AddStore`). The walk compares (`WalkFresh`, `WalkLost`), copies the head
(`PopGet`), takes the cell out (`PopHead`, `PopInner`, `PopNone`) and steps to
`checker->next` after `print_state` (`WalkStep`), where the cell may be a freed one. A
head that `add_state` stores between `get_head` and `set_head` of a removal is overwritten.

The heap is shared. `add_state`'s own `malloc` can hand out a freed cell at once, and so can
anybody's: `Overwrite` is any other task that is given a freed cell on the way of the walk or of
a search and writes anything into it. From then on that task is `misled`: the walk until it
comes to the end of a list, a search until the next start, and either may dereference what
is no address (`Panic`, a restart). Cells that nobody will read again need not be
overwritten. One step are the search and unlinking of `pop_state` (145-161), and the copy of
the head and the reading of the clock by the caller (uart_task.c:435-436).

`Chain(link)` is the set of cells a loop along `next` from there would visit: `Reached`
defines it as what is in every set of cells that has `link` and is closed under `next`, so
that one need not walk, and can be proved about. Time passes at any point.

### Uplink (mqtt_task.c, uart_task.c, hmi_service.c, alarm_task.c)

`data_process` is the queue; `rf`, `panel`, `heartbeat` are the tasks that report, each
between its store to the detector's state (with `curDetector`) and its post, which drops
the event if there is no room; `sender` and `c` are the places in `mqtt_send_task`;
`server` and `file` are what the outside and the flash know. Storing the state with
`curDetector`, and saving, are one step each (Registry takes saves apart). `Init` allows
any saved states and any knowledge of the server and so covers restarts. That a published
message arrives is MqttClient's concern. `MCReports` has the reset of alarms for two
detectors, one of them at the wired input, with reports and removals in the pauses between
them, and the variable `unheard`, the alarms that nobody touched since it began; beside it
DetectorList with `due`, the silent detectors the walk under way must come to.

### NetworkSwitch (main_app.c, mqtt_task.c, plan_task.c, json_parser.c, ota_task.c)

`pc` is the network task's place between blocking calls and reads of what handlers
write; `modem` is the fate of the modem objects, from `off` to `ended`; the handler of
the modem's address, which stops and starts the MQTT client, has four steps; the other
handlers are one. `client` says whether there is an MQTT client and which way it goes;
`is_start_ota`, `job` and `download` follow an update by command. `accessPoint` and
`simNet` are the environment's. `MCNetworkSim` adds one history variable.

### NetInterfaces (esp_netif_lwip.c, esp_netif_handlers.c, esp_netif_lwip_ppp.c)

Three interfaces, `STA`, `AP` and `PPP`, with their `route_prio` of this copy (PPP 100,
station 20, access point 10). `esp_netif` and `lwip_netif` are the two records of each;
`s_head` has those in the list, `netif_default` is the one lwIP routes by and
`s_last_default_esp_netif` the one that was chosen last; `timeouts` are lwIP's pending calls
of `ip_lost_timer`, `events` PPP's events that wait, `action` the place of the event task
in a handler. `told` and `lostTold` are what the application knows; `unseen` and `raced`
record changes that no choice of the default, or no report, has seen. The actions are the
calls the drivers' event handlers and the firmware make, the callbacks of lwIP (DHCP,
PPP phases) and the timer; `esp_netif_update_default_netif` (`UpdateDefaultStarted`,
`UpdateDefaultStopped`) is part of every action that calls it and of no other.

### Provisioning (main_app.c, plan_task.c, mqtt_task.c, user_flash.c, json_parser.c)

`plan` is first `app_main`'s and then `plan_task`'s place, one HTTP call or file operation
per step. A file is missing, empty (open), bad, or of an *issue*: what one activation was
answered with. `answer`, `cert`, `key` are the copies in RAM, `client` what the MQTT client
was started with. The message over BLE, the pair key and its file, Wi-Fi's name (`ssid`)
and the wait for it at boot, the forced restart and the update that comes with the
activation are there as far as provisioning meets them; the modem, Wi-Fi and updates by
command are NetworkSwitch's. Boot's reads of the files are one step, and so is the second
half of a factory reset. A missing, empty or truncated text and an error page are all `Bad`.

### Transport, WebSocket (tcp_transport)

`Transport` has the list of transports a client holds, the contexts of TCP and TLS (which
transports of one kind may share), their sockets, the blocking and the stepwise connection
and the error handle all of a list share. `WebSocket` has one connection after its upgrade,
byte by byte: `toClient` is what the server sent and nobody read yet, `frame_state` how far
a read is in a frame, `due` the data among that, `written` the frame the last call sent; reads return less than asked, time out or fail. Lengths are scaled down: 2 stands
for 125, the largest short length, and a key has 2 bytes.

### Startup (main_app.c, ble_service.c)

`app_main` statement by statement as far as it creates, waits or starts; the event task
with the Wi-Fi events, the BLE task with a message that takes several writes, and the
driver. A handle is absent until its statement; a task or handler that uses an absent one
sets `crashed`, as `xQueueReceive` and `xEventGroupSetBits` do on NULL.

### Modem (main_app.c, esp_modem.c, sim800.c, esp_modem_dce_service, esp_modem_netif.c)

From `main_sim_init` to `sim_denit`: the sending task with its command and the semaphore
it waits on, the line handler that is installed, the UART task with its buffer, the
modem, the DTE's event loop, PPP. An answer may be on time, late or never come; `late`
counts those that came after their command had been given up. The two reads of
`handle_line` in `esp_dte_handle_line` may or may not be one, both are modelled.

### MqttClient, Delivery, MqttMessages, MqttOutput, MqttInput (esp-mqtt)

`MqttClient`: `state`, `run`, the outbox with each message's state, the connection with
the packets on the way in both directions, `pending_msg_count`; the client's task
poll by poll, the firmware's `publish`, `stop`, `start` and `destroy`. `Delivery` is
what a user of it may count on: a message is accepted, delivered any number of times
from then on, confirmed after it was delivered, or dropped; nothing else is delivered.
`MqttOutput` builds each kind of message byte by byte with `mqtt_msg.c` and sends
fragments; `MqttInput` is `mqtt_message_receive`, which reads in pieces, with
`deliver_publish`; `MqttMessages` is the format itself as MQTT 3.1.1 defines it, against
which both are compared. Digits of a length have base 8 in place of 128.

### JsonTree, JsonText, JsonPatch (cJSON.c, cJSON_Utils.c)

`JsonTree` is the heap: cells with `next`, `prev`, `child`, owned or constant names,
references; one action per call of the library, with allocations that fail. What links lead
to (a list, what `cJSON_Delete` frees) is the least set of cells that holds the first one
and is closed under them (`Reach`), so that it can be reasoned about without recursion. The
caller is taken to keep the rules of cJSON.h, which are guards of the actions: it adds what
it holds, puts no item below itself, and does not delete what a reference shows. A reference
that `cJSON_AddItemReferenceToObject` has no memory to name is lost; `leaked` says so, and
the model gives its cell back. Arrays of numbers are created with one or two elements.

`JsonText` has parsing, printing into every kind of buffer, minifying and comparing as
functions, against a grammar; `JsonPatch` pointers, sorting, patches and merge patches,
against what RFC 6901, 6902 and 7396 ask. Numbers are texts; a conversion to `double` is
left out.

## Runs

`tlc -config X.cfg M`. All bounds are constants of the configuration.

| run | bounds | states | what it shows |
|---|---|---|---|
| rf_mode | 2 codes, 3 commands, 1 pairing, 3 probes | 111,974 | the mode machine settles, with the radio on the settings of the mode; commands the radio task sees are carried out |
| registry | 3 slots, queue of 1, 2 pairings, 1 removal, 1 restart | 1,020,120 | no stranger is registered and none out of reach, on a site without wired input and with reports from any address, and on one with a wired input whose addresses stay within `maxDetector` |
| data | 4 items, texts of 4 pieces, nesting 2, numbers of 3 | 30,110 | every item keeps one owner and its place, and none is lost; texts are read as the grammar says; what is printed is exact in every buffer; patches do what they ask |
| uplink | 2 detectors, queue of 1 | 156,936 | accepted reports, losses and alarms reach server and file |
| reports | list: 1 adder, 3 detectors, 3 cells, 1 tick to be silent; reset: 2 detectors, one of them wired, queue of 2 | 662,751 | the heartbeat list stays sound, no fresh detector is declared lost and no silent one is missed by a walk that is not misled; the reset leaves out no alarm, whatever is reported or removed in its pauses |
| uplink_alarm | as uplink | *violated* | finding 1 |
| network_switch | thresholds 2, 3, 5 for 3, 6, 60; 3 interfaces, 1 lease, 1 event | 328,666 | the modem is taken down once, statuses are true, the default interface is the best one and addresses are as told, the gateway comes back |
| network_sim | the same, without updates | *violated* | finding 2 |
| provisioning | 2 issues, 2 pair keys; 1 TCP and 1 TLS transport, 2 sockets; frames up to 5 bytes | 269,436 | credentials are never mixed nor lost, and the client comes; sockets and contexts have owners; bytes arrive in order |
| provisioning_bad | 2 issues, 1 pair key | *violated* | finding 3 |
| mqtt_client | 2 messages, 5 ids, outbox of 2, 1 packet each way; buffers of 32 and 12 bytes | 150,564 | the count covers the outbox, nothing is used after free, delivery is as `Delivery` promises, the client confirms all and `stop` returns; messages are written and read right |
| links | 1 BLE message, 3 events, 1 power cut; 2 commands in sync, 1 late answer | 93,213 | nothing is used before it exists, boot completes; modem and gateway agree on the mode and the teardown is clean |

Three properties are violated on purpose, each in a run of its own: they state what the
repository says of itself (see *Findings*).

What the names that bundle several facts stand for: `CommandsHonoured` is `AddHonoured`,
`AddDuringProbing`, `ListenCodeFresh`; `EventsPublished` is `LatestPublished`,
`LossPublished`; `NetifSound` is `DefaultRight`, `NoneDestroyed`, `AddressTold`,
`AddressAgrees`; `TransportSound` is `SocketsOwned`, `ContextsLive`, `OptionsKept`,
`ErrorTold`; `WebSocketSound` is `BytesInOrder`, `FramesRight`; `StartSafe` is
`HandlesReady`, `CanBeCommissioned`; `StartSettles` is `StartCompletes`, `WifiRecovers`;
`ModemSound` is `ModeAgrees`, `TeardownClean`; `ModemReturns` is `DialEnds`, `DenitEnds`;
`ClientProgress` is `AllConfirmed`, `StopReturns`; `TextsRead`, `ValuesPrinted` and
`ValuesPatched` are `ParseAgrees`, `TerminatedAgrees`; `PrintExact`, `CompareExact`;
`PointersLead`, `SortExact`, `MovesExact`, `PatchesExact`.

Why the bounds are enough. Two sync codes, issues or pair keys tell new from old, and the
code compares nothing else about them. With three slots there can be a free
one below and above a slot in use, and the other way around; two pairings can be under way at once. Three commands are add, stop,
add: everything a command can interrupt is interrupted by a later one. Three detectors give
the list a first, an inner and a last cell. While somebody is misled no report comes, no time
passes and no second cell is overwritten: nothing is claimed until the walk is over, and what
it leaves behind is the same. The reset works through two detectors, so that one is done and
one is to come while a report arrives; none is registered or declared lost meanwhile, and
the connection stays. What matters about the queue is that posts find it full and that events wait in
it, and one or two places are enough for both. The
thresholds of the network switch keep their order, the only thing the code uses: the SIM
is turned off before it can be dialled again, and that before the forced restart. One
lease tells an address from none, and an address that comes back from one that is told
again (two were checked once: 207,664 states for the interfaces alone). Two messages let
one be acknowledged while the other waits, two ids let a resent one meet a fresh
one. A length of one digit, of two, and the step between them all occur with base 8;
`in_buffer_length` is short enough that a publish takes several reads. Short, long and
empty frames all occur, each read whole and in pieces. One late answer is enough to
shift all that follow. The proofs do not depend on any of these bounds.

`registry`, `data` and `links` do not check for deadlock: once the bounds on pairings,
restarts, items or lines are used up the model stops. All the others run for ever.

## Fairness

Weak fairness of a task's steps is the scheduler's: every task blocks or delays in each
pass, so that none starves. Beyond that:

- *RfMode*: a command or wired pairing that has begun goes on; new ones need not come.
- *Uplink*: the sender's steps; `Connected` is weakly fair (the client reconnects by itself);
  `Receive` strongly, as it polls each 20 ms and the connection may be lost in between.
  Nothing is assumed about the tasks that report.
- *NetworkSwitch*: `ClientStart`, `ClientConnected`, `ClientFails` and `UpdateBegins` are
  strongly fair, since the links flap and attempts are repeated for ever. Nothing is
  assumed about an answer of the modem: the task waits for it without limit
  (main_app.c:610, 714), so `ComesBack` has it as a premise that dialling ends, as it has
  that dialling takes longer than plan_task takes to see Wi-Fi.
- *Provisioning*: `Accepted`, `GetCert`, `GetKey` are strongly fair, as requests are
  repeated each 20 ms for ever and succeed at times. `ClientComes` presupposes a pair key,
  a link that stays, boots that complete, nobody who pulls the plug or presses the
  button, and that the ten minutes before a forced restart suffice for one activation.
- *Startup*: `app_main`, the event task and the BLE task; the Wi-Fi driver answers each
  attempt to connect, with success or failure. Nothing is assumed about the phone.
- *Modem*: the tasks, and a modem that answers (`ModemAnswers`) or PPP that comes up or
  ends; `ModemReturns` says what follows from that.
- *MqttClient*: the client's task; `ConnectOk`, `ReceiveFails` and `Resend` strongly, as
  connections are tried for ever and a poll may be cut off by a lost one; the broker reads
  what is on the way; the handler and the sender go on with a stop, start or destroy they
  have begun.

DetectorList, Registry, NetInterfaces, Transport, WebSocket, the formats and JSON have no
liveness property. `SilenceNoticed` and `ResetClearsAlarms` speak of the end of a walk, or of a
reset, that comes to one: a walk that is sent back to the head by a freed cell which
`add_state` was given need not.

## Proofs

`tlapm *Proofs.tla` proves, for all values of the constants under the named assumptions:

- **RfModeProofs**: `TypeCorrect`, `RadioCorrect`, `ProbingEnds`. The invariant adds to the
  three properties `AtPoint`: what the radio task knows at each of its points, such as that it is about to
  store REGISTER_SUB only with the factory settings in the radio. Without it a
  pending store could contradict the mode.
- **RegistryProofs**: `TypeCorrect`; `StrangersKeptOut`, with a *ledger*: slots in use plus
  pairings under way never exceed the pairings made, in RAM, in every copy a saver holds
  and in the file, so that a restart from any of them is covered; `ReachCorrect`, for
  gateways without wired input and for those with one that hear no address above
  `maxDetector`. Its invariant is a *promise* (`Promise`): without wired input, a free slot
  within reach is kept while a detector is expected to report, so that a report from an
  arbitrary address does not take one out of reach; with it, no address above `maxDetector`
  is in `curDetector` or `inputChannel`. `SiteCorrect` puts both together for the two
  kinds of site of the run.
- **DetectorListProofs**: `ListCorrect` and `LossCorrect`, for one adding task (`OneAdder`):
  until a search is misled, the list never loops, never holds a freed cell and never two of
  one detector, also while and after the walk is misled; and a heartbeat task that is not,
  while the search is not either, declares no detector lost that reported within the time. It
  is not claimed that no cell is lost: one pushed during a removal at the head is. What a walk
  reaches is the least closed set, so that each step is handled by giving a closed set in
  place of an induction. The invariant `HeartbeatInv` (`HeartbeatHolds`): the list from the
  head, from the copy the walk removes in, and from each link about to be stored, is a path of
  cells in use with one cell per id (`Good`).
  With two adders both properties are false.
- **NetworkProofs**: `TypeCorrect`, `TeardownCorrect`, `StatusCorrect`, `NetifCorrect`, and
  `NetworkSafe` for all of them together. `SwitchInv` ties
  `modem_is_disconnected` and the statuses to the modem's state at each point of the task
  (`SwitchFlags`, `AtPoints`), says which events can be under way (`Events`) and that the
  count leaves room for one more check (`Room`). `NetifInv` says of each interface
  which combinations of netif, link, DHCP state and timer occur (`Station`, `Others`),
  that the default is the best choice at the last time it was looked for (`Chosen`,
  `Remembered`), and what the queued events will tell (`Tells`).
- **ConnectionProofs**: `TypeCorrect`, `FilesCorrect`, `ClientCorrect`, `FullSetKept`,
  `TransportCorrect`, `WebSocketCorrect`, and `ConnectionSafe`. Credentials: the
  key is saved last (`KeyIsLast`), and at each point of an activation the files and copies
  in RAM agree so far as it has come (`Fetching`, `Progress`, `ClientWaits`, `PairSaved`); a
  gateway that counts as activated has the files in RAM (`Activated`). Transports: every
  socket in use is in exactly one context, every context of a transport is live, and the
  flags of a context tell whether it holds a socket (`Placed`, `Sole`, `Owned`,
  `Initialized`, `Idles`). Web socket: what is on the wire is a sequence of frames, and the
  proof must say so without induction over it: `Wire` is the least set of pairs of bytes
  and the data they carry that holds the empty pair and, with each pair, those with another
  frame in front, and `InPlace` says where in such a pair the reader stands
  (before a header, in a payload of `bytes_remaining`, or behind a lost frame). `WebInv`
  adds what the last call wrote.
- **MqttClientProofs**: `CountCovers`, `DestroyedUnused`, and `Delivers`: MqttClient
  implements `Delivery`, step by step: the messages the client is responsible for are those
  in its outbox (`Promise`). An acknowledgement must be about the message of the item it
  takes, so ids in use are apart, a new one is fresh (`FreshIdFree`), and what is on
  the way in both directions agrees with the outbox (`Consistent`); that a destroyed client
  is not used needs that `STOPPED_BIT` goes with a task that has ended (`Ended`).
  `MessagesCorrect`: whatever the client writes is read as what was asked, for every base
  up to 128, every size of the buffer and every topic, text and id. The lemmas on the format
  come first: a length is read as written (`LengthWritten`, `HeaderRead`); a part
  written at a place of a message is found there, whatever follows (`At`, `Framed`); a
  publish is put together from its fragments; the strings of a CONNECT are found by walking
  over them as the flags say (`Walk`). The invariant itself, `OutputInv`, is small:
  the description of a fragmented message is set only if one was not sent.
  `ReadingCorrect`: however the bytes of the broker arrive, the client acts on its messages
  in order and as they were written, until a byte of the next one is taken for one of a
  length (`swallowed`). `Laid` is the least set of pairs of bytes and messages with
  the empty pair and, with each pair, those with another message in front (`LedBy`), so
  that a pair is taken apart and grows without induction. `InputInv` says where in such
  a pair the client stands: `in_buffer` and what follows it on the wire, with the
  messages not yet acted on, are a pair of `Laid` (`Ahead`); in the middle of a
  publish, what was handed on and what is left make up its data (`Amid`). The central lemma, `ReadKeeps`, goes through one call of
  `mqtt_message_receive`: a prefix of a message tells its type, its length and its
  topic as the whole does (`Alike`), so a call waits, or ends with the message or with
  as much of a publish as `in_buffer` takes (`Wants`).
- **LinksProofs**: `StartIsSafe`: `StartInv` says which handles exist at each statement
  and that a task that runs was given them (`HandlesPassed`, `TasksPassed`), where a message
  is (`MessagesPlaced`) and what ends the wait (`WaitEnds`). `LinkSound`: while no answer
  was late, both sides agree on the mode and the objects are freed when nobody is in them;
  `ModemInv` is `Sound` (at each point of dialling and teardown: what exists, who uses it,
  which line handler is installed) and, while `late = 0`, `InOrder`: an answer on the way
  belongs to the command that waits. `LinksSafe` is both, as the run composes them.
- **JsonTreeProofs**: `TreesCorrect`: after every call of cJSON the trees are sound and no
  list changed its order. The invariant, `Trees`, is `TreeSound` in the form the proof
  needs. Without its links the heap is a forest (`Forest`): every item is held by the
  caller or in one list, and every set that holds what the caller holds, and the list of
  each of its items, holds all. With them, every list is a chain (`Chain`). There is one lemma
  for each way a forest changes (`PutKeeps`, `TakeKeeps`, `ExchangeKeeps`, `DeleteKeeps`,
  `JoinKeeps`), one for each way the links of one list change, and one per function that
  takes it to these. What links lead to is a least set, so a chain is followed by naming
  a set that the links do not leave, in place of induction. `cJSON_Duplicate` goes through
  `CopyJoins`: no item is below itself as long as no reference shows children, and a copy is
  a forest apart from the one it was made of.

In each, the invariant holds initially, each task's steps keep it (a lemma per task, a step
per action), and it implies the properties. Each was an invariant of a TLC run before it was
proved, but for those of `WebSocketCorrect`, `ReadingCorrect` and `TreesCorrect`: `Wire` and
`Laid` are infinite and `Forest` quantifies over sets of cells, and TLC checks what follows
from them. Assumptions on constants are the `...Assumption`s of the modules, which TLC
evaluates in the runs; they say that sets are finite, thresholds ordered, or that `NULL` is
no cell, as the code has them. `OutputAssumption` has `buffer_length` within what two bytes
can hold, so that the two bytes before each string of a message that fits tell its length;
the firmware's buffer is of 1024 bytes. `InputAssumption` is about the broker: its messages
are correct, an answer to a subscription is short enough for one digit of length, and a
publish has a topic that `in_buffer` takes behind the longest fixed header. A longer topic
does not fit and the client gives the connection up, as the code says (`Wanted`).

Only model-checked, and why:

- all liveness (`ModeSettles`, `EventsPublished`, `AlarmSaved`, `ComesBack`, `ClientComes`,
  `ClientProgress`, `StartSettles`, `ModemReturns`, and `CommandsHonoured`): fairness is
  beyond the prover;
- `SilenceNoticed` and `ResetClearsAlarms`, which speak of what a whole walk or reset did and
  rest on the history variables of `MCReports`;
- what is true of texts and values of every size: `TextsRead`, `ValuesPrinted` and
  `ValuesPatched`. They need induction over data, and their modules have
  recursive operators.

## Findings

1. **An alarm can go unpublished** (`uplink_alarm`, mqtt_task.c:487). Events carry no
   detector. While an event waits, another report renames `curDetector`; the sender
   publishes that one, and the alarm stays in RAM and in the file only.
2. **A SIM is turned off before it was tried** (`network_sim`, main_app.c:264). After a
   redial at `mqtt_count > 6` the count is not reset, and the test for turning off follows
   in the same pass.
3. **A bad certificate is kept for good** (`provisioning_bad`, mqtt_task.c:805). Neither
   status code nor length of a download is looked at; what came is saved, counts as an
   activation from the next boot on, and only the factory reset takes it away.

## What fails and is not claimed

These came up while modelling; no property states the opposite, and where one comes near
its definition has the exception in it.

- *Radio mode.* An add command stored while `SET_RF__SYNC_config` runs is overwritten at
  uart_task.c:200; `AddHonoured` speaks of commands the radio task sees.
- *Registry.* Wired input *and* reports from addresses above `maxDetector`:
  `RegisteredInReach` fails, as the check at uart_task.c:308 is commented out. Hence the
  two kinds of site in `MCRegistry`.
- *Heartbeat, one adding task.* A cell that `add_state` pushes between `get_head`
  (alarm_task.c:78) and `set_head` (156) of a removal is lost: its detector is not watched until
  it reports again. A stamp may go into a cell that was taken out or freed (178), and a report
  between the test of a stamp (69) and the removal is forgotten: the same until the next.
  `checker` is read at 86 after line 159 freed it and `print_state` (162) ran, and the search of
  `add_state` may stand on a freed cell: if any task's `malloc` was given it meanwhile, the walk
  or the search follows whatever was written there. Such a walk can declare any detector
  lost, miss one that is silent, visit cells twice or crash the gateway; such a search can
  push a second cell, write its stamp anywhere, or crash. `misled` is this exception:
  `NoFalseLoss` and `SilenceNoticed` claim nothing until the walk is over, and all three
  nothing after a misled search until the next start. The stamp is of 64 bits and stored in
  two halves; that the walk reads one of each is left out. Cells taken from the head are
  never freed. The cell `add_state` stamps is that of `curDetector` read again
  (uart_task.c:436).
- *Heartbeat, two adding tasks* (radio and panel; also `app_main`'s loop at 866-873 with its
  stale head): cells are lost, kept twice and reached after they were freed; `ListSound` and
  `NoFalseLoss` fail and nothing is claimed.
- *Sender.* `GW_RESET_SS_STATE` clears alarms reported while it runs; `ResetClearsAlarms`
  says what it clears, not that it should. Reset reason 14 on the second core asks for it at
  every boot (main_app.c:749), also after the forced restart; no property is about that. A full queue drops the event of a detector that was
  removed from the list.
- *Network switch.* With a SIM that does not answer, the network task waits for ever, and so
  does the forced restart. An update command while the interface is being switched cuts the
  download.
- *Interfaces.* `esp_netif_stop_ppp` chooses the default while the link still counts as up;
  PPP that ends by itself or by an error gives no lost address and no new choice. A static
  address told by `esp_netif_action_connected` can be one that was changed meanwhile. The
  timer of a lost address is started by `esp_netif_start_ip_lost_timer` only if `ip_info`
  still has an address, which `dhcpc_stop`, `dhcpc_start` and `down` have just cleared,
  although Kconfig:10-14 says it starts each time the address is lost; and after it fired,
  the same address bound again is not told. An access point whose DHCP server was stopped
  is no candidate for the default.
- *Provisioning.* A gateway that loses power while it saves the key counts as activated with
  an empty one (the disjunct `Empty` in `FilesOfOneIssue`); while it saves the pair key, it
  has an empty pair key and turns BLE off (hence the premise of `ClientComes`). `app_main`
  reads the pair key while the BLE task may be saving a newer one.
- *Transports.* A client that fails with TLS and goes on with TCP over a shared context
  without closing leaks the socket, as `ssl_initialized` stays set (`MayConnect` excludes
  it). A transport outside a list would dereference a NULL error handle, and a context whose
  allocation failed is used.
- *Web socket.* `bytes_remaining` survives closing and reconnecting; a time-out between a
  header and its payload makes the reader take payload for a header; a header that could
  not be written leaves the message masked, and MQTT resends it masked; the mask starts
  over with each read; a full buffer is terminated one byte behind its end;
  an empty PING or CLOSE answer that timed out counts as sent. After a frame was
  lost in one of these ways (`misframed`) nothing is said about bytes.
- *Start-up.* A BLE message with only a pair key erases the Wi-Fi credentials. An access
  point that associates but gives no address blocks start-up; main_app.c:495-496 can store
  `wifi_status = false` after the address came. A phone that is earlier than the queue or the
  event group meets NULL (838, 346): `HandlesReady` says that only such a phone does.
- *Modem.* A late answer is taken for the answer to the next command, and so on from then
  on; `ModeAgrees` is claimed while none was late. A failing `esp_modem_start_ppp` inside
  `esp_netif_attach` is ignored (main_app.c:712), and the wait at 714 does not end.
  `STOP_BIT` is set before the link closed, so that an old `exit_sem` or 20 s let the
  interface be destroyed while closing (`errors`, `gaveUp`). The LCP terminate is written
  in command mode. The test at esp_modem.c:199-200 can never end the read-on loop.
- *MQTT client.* A `stop` during the unlocked poll leaves `WAIT_RECONNECT` after the stop;
  the next start is refused (mqtt_client.c:1563) until the forced restart. The stop on
  switching to the SIM drops what is not acknowledged; more than 30 s offline drops
  messages right after the reconnect. Destroying while a switch's `stop` is under way frees
  memory under the task (excluded by a guard). `stop` gives no DISCONNECTED event, so that
  `mqtt_status` stays TRUE. `publish` returns -1 on a failed write although the message
  stays. Random ids are assumed fresh. The task that ends empties the outbox without the
  lock (mqtt_client.c:1548) while `publish` may add to it: a message added before is dropped,
  but that both may work on the links of the outbox at once, and corrupt them, is left out.
- *Messages.* After a fragmented publish that could not be sent
  `fragmented_msg_data_offset` stays (mqtt_client.c:1889), after a failing
  `mqtt_enqueue_oversized` `fragmented_msg_total_length` (1786). A QoS 0 publish after any
  failed build closes the connection (1281); the byte swallowed at 1133-1134. The comment
  there says at most 2 length bytes; the code takes up to 5. The size test at
  1192-1196 forgets the two bytes of the topic's length; `event.msg_id` is computed with
  the length of the data (983).
- *JSON.* `AddItemReferenceToObject` leaks its reference if there is no memory for the key;
  `Create*Array` with count 0 dereferences NULL. `parse_string` reads one byte behind a text
  that ends in a comma; `\u` without four digits reads as NUL; `Minify` mistakes a string
  that ends in a backslash; `Compare` is not reflexive for repeated names; pointers
  with `~` or `/` in a name are decoded wrongly, `detach_path` ignores case, a merge patch
  is generated from an order without case but compared with it; a patch that fails
  halfway leaves the tree without what it took out. The firmware does not call
  cJSON_Utils, and does not look at failed allocations.

## Not modelled

LED patterns, the relay (it follows the detector that reports), GATT, the notifications
about an update, battery states, the restart for want of memory, a gateway without
Wi-Fi credentials once started, the UART and flash drivers (a save that truncates and
writes is Registry's), the user timer. Ethernet (`esp_eth`) is compiled and called by
nothing. `sim7000e_task.c` and `fire_detector.c` are not called. Of the components: IPv6,
DNS servers, host names, DHCP options and SLIP (esp_netif); voice, SMS and the other
modems' drivers (modem); QoS 2, the configuration, transports by URI (esp-mqtt); the
texts of the upgrade request, certificates and masked server frames (tcp_transport); the
conversion of numbers, `SetValuestring` and `InitHooks` (cJSON). `gateway_data.alarm_status`
is written only; `SS_UPLOAD_DB` is never posted.

## Plan

Done: all the modules above; theorems for every safety property of a run but those
named under *Only model-checked*. What is worth doing next:

1. **Monitor**: an abstract specification of the heartbeat (watched detectors with ages, a
   loss per silent one), implemented by DetectorList with one adder.
2. **Reports**: Uplink composed with the list and the registry, so that a
   removal of a detector with events in the queue can be stated.
