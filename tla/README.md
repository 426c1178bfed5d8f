# Verification of the "Internet of Things with ESP32" firmware

The repository holds the programs of a book, one or more firmware images per
chapter. They share a style: an `app_main` that initialises some libraries,
interrupt handlers, a few FreeRTOS tasks, and callbacks between the libraries.
The last chapter, the *smart fan* (`ch12/smart_fan`), puts all of it together:
interrupts, a queue, tasks of two priorities, a mutex, Wi-Fi, MQTT, the AWS
device shadow and an Alexa skill. It is the core of this project and is modelled
completely, its Alexa skill included. Beside it stand the programs of the other
chapters that keep state between several tasks, nodes or devices: the mesh home,
the multisensor, the IFTTT client, and the protocol to the Optiga security chip.

## Inventory

`ch` paths are under `src/`.

### Smart fan (ch12)

| Part | State | Operations | Talks to |
|---|---|---|---|
| Hardware, `lib/hw/app_hw.c` | relay pins, APP_OE, `idx_queue`, `next`, `active_btn_idx` | `apphw_init`, `button_handler` (interrupt), `set_relay_task`, `apphw_set_state`, `apphw_get_state` | calls `fan_cb` = `appaws_publish` |
| Cloud, `lib/aws/app_aws.c` | `aws_client`, `aws_guard`, `desired_state` | `appaws_init`, `appaws_connect` (a task for ever), delta callback, `appaws_publish` | calls `fan_cb` = `apphw_set_state`; the SDK |
| Wi-Fi, `lib/wifi/app_wifi.c` | `retry_cnt`, station | `appwifi_connect`, event handler | calls `handle_wifi_connect`, `handle_wifi_failed` |
| `src/main.c` | none | `app_main`, `handle_wifi_connect` | starts `appaws_connect` tasks |
| AWS IoT SDK (vendored) | client state, handlers, delta tokens, flag, version | connect, yield, publish, register delta | broker |
| Shadow and broker (external) | desired, reported, version, session | update, delta | SDK, Lambda |
| Alexa skill, `aws/lambda_function.py` | none | set, adjust, report | shadow |

What is hard here: the interrupt may come before the queue exists and while
relays are half switched; the relay task and the cloud tasks call each other,
one of them while it holds the mutex the other waits for; one static MQTT client
is cleared by every new task without that mutex; `desired_state` is read outside
it; deltas are lost and reordered; a press and a request cross; restarts forget
half of what the shadow remembers; tick counts wrap.

What makes it correct: never two windings on; off between two speeds; the
recorded speed is the one that runs; the mutex is never leaked and no call is
stuck; the client is never left busy; old deltas are never acted on after newer
ones; motor, reported and desired level agree when everything is quiet; the two
sides do not set each other off for ever; a report that arrives says what the
motor is doing; the buttons go on working when the Wi-Fi has given up.

### Other chapters

| Part | State | Operations | Hard behaviour | What makes it correct |
|---|---|---|---|---|
| BLE mesh home (ch9): gateway, light sensor, switch, `common/` | provisioning of each node, `m_status`, `light_level_low`, `retry_cnt` | form, command, publication, provisioning, reset, reboot | unacknowledged messages, two controllers of one switch, reset of a node, power failures | the relay contradicts the sensor only for a reason that can be named; the next change of the light repairs it |
| Multisensor power (ch5), `pmsub.cpp` | `next_sleep` | `pir_handler`, `pmsub_update`, `sleep_check` | interrupt and two tasks write one deadline without a lock; tick counts wrap | no sleep within a period of activity; sleep soon after |
| Multisensor display (ch5), `uisub.cpp`, `rotenc.cpp`, `sesub.cpp` | `rotenc_pos` twice, `disp_guard`, `last_reading` | interrupt, encoder task, `uisub_show`, reading task | resume races suspend, a busy display, an unlocked copy, interrupt before the mutex exists | no turn is forgotten; the screen shows what was drawn last and in the end the newest |
| IFTTT client (ch11) | queue of ten readings | reader, poster, Wi-Fi handler | producer faster than consumer, failed posts, more tasks with every address | each reading is posted once or given up, in order; what waits is fresh |
| Optiga I2C data link (ch7, vendored) | frame numbers, `resynced`, retry counter, one frame buffer | send, receive, one event handler | lost frames, repetitions, resync of either side, a timeout racing an answer | what is reported is true, a command runs once, each exchange ends |
| Alexa sensor (ch11), AWS example (ch10) | one MQTT client | publish, yield | publish beside a yield without a mutex | |
| MQTT, CoAP, WebSocket (ch10) | connection flag, last reading | publish, answer | publish while disconnected | |
| UDP service (ch6) | `temperature`, `humidity` | answer, read | torn reading, a task per address | |
| OTA update (ch7) | partitions | update | an update task per address, restart | |
| Queue, touchpad (ch3); PIR relay, buttons, encoder (ch2) | a queue or a deadline | interrupt, loop | interrupt between check and use | |
| BLE GATT server, beacon, mesh (ch8) | a connection, a value | notify | notification after disconnect | |
| Drivers, displays, camera, sleep, UART, I2S examples (ch2, 3, 4) | none of their own | | | |

`PROJECT.json` lists every component with its status, and under `hazards` every
place where this code can go wrong in a way a test would hardly reach.

## Modules

    RelayInterlock      abstract: what a relay board promises
    FanHw               app_hw.c                    (implements RelayInterlock)
    ButtonDebounce      the tick arithmetic of button_handler
    FanAws              app_aws.c, the SDK it runs on, the shadow
    FanWifi             app_wifi.c
    SmartFan            main.c: FanHw, FanAws and FanWifi composed
    FanSkill            lambda_function.py beside the whole fan   (extends SmartFan)
    PowerSave           pmsub.cpp
    SensorUi            uisub.cpp, rotenc.cpp, the reading task of sesub.cpp
    MeshHome            the three nodes of ch9 on one mesh        (uses FanWifi)
    IftttFeed           abstract: what becomes of a reading
    IftttClient         ifttt_ex              (implements IftttFeed, uses FanWifi)
    I2cLink             ifx_i2c_data_link_layer.c and a chip that speaks it
    MCFanHw, MCSmartFan, MCFanSkill   values of the constants for TLC
    FanPartsProofs      theorems about FanHw and FanAws
    SmartFanProofs      theorems about SmartFan and FanSkill
    ButtonDebounceProofs, PowerSaveProofs, SensorUiProofs, MeshHomeProofs,
    IftttClientProofs, I2cLinkProofs    theorems about one module each

**FanHw.** `apphw_init` is four steps (`ConfigurePins`, `OutputsOff`,
`CreateQueue`, `CreateTask`): an interrupt may come between any two of them. Before the queue exists it aborts the chip (`IsrWithoutQueue`).
Relays close at level 0, and every output is 0 after a reset, so the model keeps
the pins at level 0 (`low`) apart from the windings under current (`Energised`).
`set_relay_task` takes an index and either skips it, switches off, or opens all
relays, sleeps 250 ms (`rpc = "delay"`), closes one; then it is in the call of
`fan_cb` until `CallReturns`. Four bytes per item are sent from and received
into the address of a variable of one or four bytes; the index is the low byte.

**ButtonDebounce.** FanHw sees the filter as a flag, `armed`, which an accepted
interrupt clears unless the deadline wraps, and which the wrap of the tick count
may clear. This module has the unsigned arithmetic and its property
`FilterOfFanHw` says what FanHw assumes.

**FanAws.** One record of SDK state and any number of tasks at a step of
`appaws_connect`. `ClearClient` and `InitClient` overwrite the client whoever
uses it, as the code does. A yield takes the mutex (`BeginYield`), may receive
deltas, run the callbacks one by one, and ends, with or without a
disconnection. `BuildDocument` reads `desired_state` before the mutex is taken.
The SDK state CONNECTED_WAIT_FOR_CB_RETURN is not told apart from
CONNECTED_YIELD_IN_PROGRESS: only a subscribe and a publish would see the
difference, the publish is kept out by the mutex and the subscribe by the flag,
which is the invariant `DispatchMeansSubscribed`.

**FanWifi.** The handler and its counter, which nothing sets back. An address comes
with a connection, and also without one: a station that is associated may be given
another address, or its own again after it was lost. The handler calls
`on_connected` for each of them.

**SmartFan.** A step is a step of one part, or a call that is a step of two:
`DeltaCallback` runs the callback and `apphw_set_state`, `PublishStep` ends a
report and returns to the relay task, `handle_wifi_connect` obtains an address
and starts a task, `WifiLost` takes the session with it, `Restart` resets all
but the shadow. `count`, `lastBtn` and `lost` are history; `lost` records that a
request, a delta or a report was dropped at a place where the code drops it; one of
these places is between two tasks: one that sets the client up again while
another dispatches a delta ends that dispatch, because the loop over the callbacks
re-reads `tokenTableIndex`.

**FanSkill.** A directive that sets a level is one request to the shadow; one
that adjusts it is two steps, the read of the reported level (`ReadReported`) and
the request (`DesireAdjusted`), between which anything may happen, another
invocation included. `update_power` is the Lambda's rounding, and
`RoundsAsFirmware` compares it with `FirstAtLeast`, the rounding of
`apphw_set_state`. `told` remembers what Alexa announced when everything was at
rest, until somebody else intervenes.

**PowerSave.** The motion interrupt is one step. A task that pushes the deadline
reads the tick count (`ReadTick`) and writes the sum later (`WriteDeadline`), as
the compiled code does on two cores without a lock. `sleep_check` is a step per
access to shared state: it looks at the time, compares, switches the display off,
sleeps, wakes, pushes the deadline, looks again and waits. A task that can run is
kept waiting for at most `MaxSlip` ticks. The sum, the comparison and the
difference are unsigned, modulo `W`.

**SensorUi.** The interrupt counts edges and resumes the encoder task, which has
no effect unless it is suspended. The task reads the position, compares, takes it
over, copies `last_reading`, shows it and suspends itself. The copy is a function
from values to numbers, mixed of two readings when the other task is storing
(`Copies`). Both tasks are the two users of `uisub_show`, which gives up when the
mutex is taken. A mutex that does not exist, and a failing sensor, abort the
chip (`Abort`).

**MeshHome.** Each node is before `init_ble`, unprovisioned (`open`) or on the
mesh (`node`), and remembers in flash that it has been provisioned. A message is
sent only by a node on the mesh, and is else dropped with an error that nobody
looks at. `newest` says where the sensor's newest word is: on the way, obeyed, or
lost. Messages on the way are one sequence per sender.

**IftttClient.** A reader holds a reading or has found the queue full; a poster
holds a reading or none. Sending to the queue and resetting it are two steps.
`IftttFeed` knows readings that are unsettled, posted or given up; its refinement
mapping collects what the tasks and the queue hold.

**I2cLink.** An action is one call of `ifx_i2c_pl_event_handler`, which loops
until it waits for the physical layer. `tx` is the frame to be written. Every
control frame but a resync is built in `tx_frame_buffer`, which also holds the
payload of the command (offset 3): two bytes of its CRC overwrite the first two
of the payload, which is `spoilt`, and what is sent after that is `Unknown`. The
chip is modelled from the code as a peer that runs the same protocol.

Operators written above a definition and called "Mutant" are plausible bugs of
that definition: each property is known to fail with one of them.

### Assumptions and abstractions

- Levels are those of `btn_map`: the Lambda rounds to them. FanHw alone takes
  every value of a byte; those above the highest button send nothing.
- `app_main` finishes `appaws_init` and `appwifi_connect` within the 250 ms that
  the relay task sleeps before its first report.
- An update reaches the shadow in the step that ends the send: one connection
  keeps updates in order. Messages to the device have QoS 0 and may be lost or
  reordered. A session is clean: it and its deltas end with the connection.
- JSON documents are records. TLS, certificates, keep-alive, formatting and
  logging are left out. Auto-reconnect is off, as in the firmware.
- Nothing in the firmware limits the addresses between two restarts, each of which
  starts a task. `Tasks` (SmartFan) and `MaxAddresses` (IftttClient) bound them.
- The tick count wraps after 2^32 ticks, 497 days at 100 Hz.
- FanSkill: the Lambda's read and its update each take effect at one moment.
- PowerSave: the tick count stands still in light sleep; a task is delayed by
  others for less than a period (`MaxSlip < Period`).
- SensorUi: the value drawn and the position it is drawn for are one step of the
  mutex holder. Drawing and the buzzer are output.
- MeshHome: messages of one sender keep their order and may be lost, those of two
  senders may overtake each other; the relay opens when its node reboots; a sender
  has at most `MaxAir` messages on the way, as it speaks once a second.
- IftttClient: connecting, TLS, writing and reading an answer are one outcome.
- I2cLink: a corrupted frame fails its CRC. The chip takes a frame when it has
  done with the last one, offers an answer until it is acknowledged and forgets
  what it was doing when told to resync. Commands and answers fit in one frame.
  The chip sends no data frame that carries a NACK, as the host's code sends none.

## Runs

| Run | Instance | What it shows |
|---|---|---|
| `hw` | 4 buttons with the levels of `btn_map`, queue of 3, all 256 levels, any number of presses, resets and wraps | the relay board is a correct interlock, `RelayInterlock!Spec` with its liveness included |
| `debounce` | tick count modulo 32, window 4 | a bounce is filtered unless the deadline wrapped; buttons are dead only within the window or after a wrap, and never for ever |
| `fan_agree` | 3 buttons, 1 task, 2 presses, 1 request, no fault but the loss of the Wi-Fi | motor, reported and desired level agree at rest; the system comes to rest; a report always ends; what is queued gets its turn at the motor, also when the Wi-Fi has given up (MAX_RETRY 0: the first loss ends it); of two deltas that arrive in the wrong order the older is dropped |
| `fan_faults` | 3 buttons, queue of 1, 2 tasks, 1 press, 1 request, 1 drop, 1 restart, lossy, MAX_RETRY 1 | mutex, client and versions stay consistent with every fault the code can meet, and each report that arrives is true |
| `skill` | 4 buttons, 1 task, 2 adjustments at a time, 1 press, 2 requests | the level Alexa announced while everything was at rest is the level the motor ends at; firmware and Lambda round alike |
| `power` | W 12, period 4, slip 1, any number of events | sleep is decided only after a quiet period and soon after it; what the wrap and the unlocked write cost |
| `ui` | 2 values of 2 edges, 5 edges, 2 readings, 1 failure | no turn forgotten but in one window; screen and `last_reading` agree; in the end the newest reading is shown at the position taken over |
| `mesh` | 2 messages on the way per sender, 1 form, 2 faults, MAX_RETRY 1 | when the relay may contradict the light; the next change repairs it |
| `ifttt` | queue of 2, 5 readings, 2 addresses | the client implements `IftttFeed!Spec` with its liveness; what waits is fresh |
| `i2c` | 2 commands, 4 faults, 1 repetition before a resync | reports are true and commands run once but for the exceptions below; every exchange ends |
| `off_button` | 2 presses, no request | finding, below |
| `reconnect` | 1 dropped connection | finding, below |

Bounds. `hw` has none: the state is finite as it is. In `debounce` the period
only has to be several windows long. In `fan_agree` two presses and a request are
enough for a press to cross a request and its echo, and for a report to overtake
a delta; the queue keeps its three places, so that nothing is dropped.
`fan_faults` uses a queue of one place so that it is full at once, and two tasks
because every conflict over the client is between two of them and the relay task;
tasks are interchangeable, hence the symmetry, and the run has no liveness
property. MAX_RETRY 1 lets the second task come from a connection after a loss as
well as from another address without one. The runs of the fan, `skill`, `reconnect`, `ifttt` and `i2c` stop when the bounded
environment has nothing left to do, so deadlock is not checked there; the other
runs check it.

`skill` has two invocations, because a third adds no new pair, and one press; the
invocations are interchangeable, hence the symmetry, and the run has no liveness
property. `power` is unbounded; the period is long enough for two updates to
overlap and the width for a deadline to lie before, across and after the wrap.
`ui` has five edges, so that a turn can be followed, missed and made up for in
both directions, and two readings, so that a copy can be old or mixed. In `mesh`
two messages of the sensor can be on the way at once, and two faults are enough
for a lost word after a reset. `ifttt` needs three readings to fill a queue of
two and reset it, and two more to see the queue afterwards; two addresses
(`MaxAddresses`) give two readers and two posters, with a loss between them or
without. In `i2c` two corrupted frames reach the overwritten
buffer, and the other two let a resync be lost or a command be sent again beside
it; the second command is there for an answer to be mistaken for its own. What is
proved of the numbers holds for any count of commands. One repetition before a
resync, of the three in the firmware, only brings the resync nearer.

Fairness. Every task of the device runs (weak fairness of its steps). The relay
task has priority 10, waits for `aws_guard` without a limit and is given it when
it is released; the other tasks have priority 5, poll, and hold it at most 250 ms at a
time: strong fairness of `PublishStep` and of the loop. Connecting is tried for
ever and assumed to succeed if it can again and again (strong fairness of
`ConnectStep`); a delta that stays available is read. Nothing is owed by people,
by the network or by the Wi-Fi: presses, requests, addresses, losses, restarts
and the end of the bounce window carry no fairness. `debounce` needs only that
time passes.

In `ui` every task runs and a new reading comes every ten seconds; nobody has to
turn the encoder. In `mesh` a program that can run does, a message that is not
lost arrives, and the sensor reads every second; the light, people, the Wi-Fi,
provisioning and faults owe nothing, and `RepairedByNextChange` has as its
premise that the two nodes stay on the mesh and the light keeps crossing the
threshold. In `ifttt` readers and posters run and a connection answers or fails,
because the TLS library has timeouts. In `i2c` the physical layer ends each
transfer with one of its three events, the transport layer asks for the answer,
time passes and the chip reads what is written to it; it need not answer.
`power` and `skill` check no liveness.

## Findings

- **The OFF button** (`off_button`). `desired_state` is set by deltas only.
  After a reset it is 0. A speed button reports its level and desires it too,
  since it differs from `desired_state`; OFF then reports 0, which *equals* the
  stale `desired_state`, so the desire is not withdrawn. The shadow answers with
  a delta and the fan starts again. Only after the cloud has set
  `desired_state` once does OFF keep the fan off. `QuietMeansAgreed` still holds:
  the three levels agree, on the wrong level.
- **"reconnecting..."** (`reconnect`). `disconnected_handler` logs it, but
  nothing reconnects: auto-reconnect is off and the loop only yields on a
  disconnected client. Only a new address starts a task that connects, and none is
  owed.

Seen while modelling, and part of the models, but not contradicting anything the
repository says:

- *Fan.* Registration for deltas that is refused sets the SDK's flag, so the
  session stays deaf; `retry_cnt` is never set back, so MAX_RETRY + 1 disconnections
  over the whole uptime end the Wi-Fi; an address that is changed or regained while
  the station is associated starts one more task beside those that run, and nothing
  limits their number; nothing is reported after a restart.
- *Skill.* A second request that arrives while the first is being carried out can
  be undone by the report of the first, which desires its level too: that is why
  `AnswerCarriedOut` speaks of requests made at rest. A change of -12 from 66 is
  rounded up to 66 again, and a change below zero turns a fan that is off to 33.
- *Shadow.* A client that desires a level between two buttons, while the fan runs at
  the upper of the two, is never answered: the level is rounded up to the speed
  that runs, and its index is skipped. The skill cannot do that; others can.
- *Power.* A task kept from running for more than half a period, between its look
  at the time and its wait, computes a negative wait, which `vTaskDelay` takes for a
  turn of the tick count. An encoder task that has read the tick count may overwrite a later
  deadline of the motion interrupt. When the deadline lies beyond the wrap and
  the tick count does not, the device sleeps at once; the other way round it waits
  for a deadline one revolution away.
- *Display.* A turn between the encoder task's reading and its suspension waits
  for the next edge. A redraw that has copied `last_reading` before a new reading
  is drawn puts the old one, or a mixture, back. Turned left of its start, the
  display is blank but at every fourth value.
- *Mesh.* A form posted before the gateway is on the mesh is answered with a page
  and lost. A switch that reboots in the dark stays off, and a sensor that reboots
  has forgotten that it said "dark" and says nothing when it gets bright. A node
  provisioned again within five seconds of a reset is rebooted by the old task.
- *IFTTT.* With a second address there are two readers and two posters:
  readings can be posted out of order.
- *I2C.* The payload of a command that is sent again after a NACK, or after an old
  answer was acknowledged once more, begins with two bytes of a CRC, under a CRC
  of its own: the chip receives another command. Without the condition `~mangled`
  `ReportsAreTrue` fails after two corrupted frames. When a resync is lost, an old
  number can acknowledge a command that never arrived (`apart`). A resync in the
  middle of a command makes the chip run it twice (`renumbered`); the second answer,
  when it comes after the first has been accepted, can pass for the answer to the
  next command (`leftover`, found when the proof of `ReportsAreTrue` failed: the
  smallest trace needs two commands and four faults). NACKs and
  discarded frames look neither at the repetition counter nor at the exit timeout.

## Proofs

All theorems hold for any number of buttons, levels, places in the queue, tasks,
retries, presses, requests, commands and faults, under the assumptions on the
constants that the modules name (`HwAssumption`, `AwsAssumption`,
`WifiAssumption`, `FanAssumption`, `SkillAssumption`, `UiAssumption`,
`PowerAssumption`, `MeshAssumption`, `IftttAssumption`, `LinkAssumption`). Three
theorems have a hypothesis of their own, written into them: `FirmwareTable`
(`SkillRounds`), `LevelsOfButtons` (`AgreedWhenQuiet`, `SkillCarriesOut`) and
`Prompt` (`SleepsSoon`).

*FanPartsProofs, hardware.* `EnergisedIsActive` is not inductive: what the pins are
depends on where boot and task are. `HwInv` ties `boot`, `oe`, `low` and
`active_btn_idx` to each other: outputs are enabled only by the task, which exists
only after the pins were written; in `recv` and `call` the closed relays are
exactly those of `active_btn_idx`; in `delay` none is closed and the index is not
0. From it `Windings` gives the energised winding as a function of the state of the
task, which yields `OneWinding`, `ReportedSpeedRuns`, `BreaksBeforeMaking` (only
`MakeRelay` can energise a winding) and `HwImplementsInterlock`, with the
refinement mapping `TheWinding`, `Heading`.

*FanPartsProofs, cloud.* `AwsInv` is the conjunction of the invariants of
`fan_faults` and `TokensMeanSubscribed`, without which a dispatch could begin in a
state where the flag is not set. `UpdateFacts` covers the shadow; one lemma per
part of the program (`OpeningInv`, `LoopInv`, `PublishInv`, `EnvironmentInv`)
covers the steps. The interesting cases are those of the opening, which takes no
mutex. `GuardNeverLeaks`, `ClientNeverStuckBusy`, `DispatchProtected`,
`DeviceBehindShadow` and `StaleDeltasFiltered` follow.

*SmartFanProofs, the parts.* `PartsStep`: every step of the firmware is a step of
each part or leaves it alone. It needs the invariants of the parts, because a
callback must hand over a level in the callee's domain (`CallsInDomain`), and
`NoSessionNoDelta`, because the loss of the Wi-Fi must be a lost session of FanAws.
Hence `SystemImplementsParts`, and every theorem about a part holds of the system
(`SystemInterlock`, `SystemGuard`, `SystemVersions`). No assumption is made that
`Tasks` is finite.

*SmartFanProofs, agreement.* `QuietMeansAgreed` says nothing until everything is
quiet, so its invariant has to follow a level all the way. `Recorded` and
`Reporting`: what runs is what is on record, but while it is reported. `Owed`: a
level that is desired and not reported is on its way, as the newest delta, in the
callback, in the queue, in the relay task, or behind a report about to be sent,
which the service answers. Each step passes it on (`OwedHw`, `OwedCallback`,
`OwedPublish`, `OwedRequest`, `OwedConnection`) or is one that sets `lost`. The
newest delta is never filtered because versions are `Distinct` and the device's is
behind the shadow's, and never dispatched to nobody because a client that hears
deltas has a callback (`Heard`). The callback queues the very level because
`apphw_set_state` maps the level of a button to that button
(`LevelReachesButton`). The hypothesis `LevelsOfButtons`, that nobody desires a
level between two buttons, is what the Lambda guarantees; without it the property
is false (Findings, *Shadow*). The proof found a gap: with two tasks, setting the
client up again ends a dispatch of the other, and `lost` did not record it.
`AgreedWhenQuiet` holds for any number of tasks, `fan_agree` has one.

`ReportsAreCurrent` needs only `Reporting` and the windings of `HwInv`: whatever was
lost, restarted or cleared by another task before, the relay task is still in its
call when its report arrives, so what the report was built from still runs.

*SmartFanProofs, the skill.* `UpdateRange`: whatever change is asked for, a level of
the fan comes out. With what invocations hold being levels (`AdjustInv`), a step of
the skill is one of the requests the firmware was specified for
(`SkillIsRequest`), so `SkillImplementsFan`, and every theorem about the fan holds
with any number of overlapping invocations (`SkillKeepsFan`). `SkillRounds` needs
the table of the firmware: with other levels the two sides would differ.
`SkillCarriesOut` adds to `AgreedWhenQuiet` that from a request at rest until the
next intervention only one level is on its way anywhere (`OnlyTold`): deltas,
callback, queue, relay task and the desire in a report are all of the level told.

*ButtonDebounceProofs.* The properties speak of `age`, the code compares `next`
and `now`. `FilterInv` connects them: a deadline that lies ahead of a tick count
that has not wrapped is exactly one window after the last accepted interrupt
(`DeadlineAhead`), and within the window it still is unless it wrapped itself
(`DeadlineInWindow`). `DeadTimeBounded`, `BouncesNeverPass` and `FilterIsFlag`
follow for every period and window, the real 2^32 and 10 included.

*PowerSaveProofs.* The properties speak of `left` and `idle`, which do not wrap, the
code of `next_sleep`, `now` and `tick`, which do. `DeadlineInv`: the two agree up
to a turn or two of the count; `SlipInv`: what a task has read is as old as it has
been kept waiting; `IdleInv`: the deadline is a period after the last activity, or
earlier by one delay of a task that overwrote a later one. They give
`SleepsOnlyIdle` for every width and period. For `SleepsSoon`, `SleepInv` bounds
how late the task is at each of its steps, in delays; the wait it begins is one to
the deadline. That needs `Prompt`, two delays in one period: otherwise TLC has a
trace (`W` 40, period 4, delay 3) in which the wait comes out negative. The
firmware's period is 20 seconds.

*SensorUiProofs.* `TurnInv` adds to `TurnNotForgotten` what the task knows before it
suspends itself. `ScreenInv` has three parts: who holds the mutex and that a
reading waiting to be drawn is the newest (`ShowTypes`), that what is on the screen
is what is stored or about to be stored (`DrawnInv`), and that every copy is the
newest reading drawn unless overtaken (`CopyInv`). No bound on turns or readings is
used. `UiTyped` splits the types by who writes them: the encoder, the two drawers, the
reading task, and the abort that sets all back.

*MeshHomeProofs.* `RelayFollowsLight` is not inductive: it says nothing while the
word is on its way. `WordInv` says that the word `newest` stands for is the last of
the sensor's sequence and equals `light_level_low`, and that the sequence is empty
once the switch has obeyed it. `TakenFacts` carries that over a message taken,
whatever becomes of it. `MeshTyped` is the type invariant.

*IftttClientProofs.* `OnePlace` (a reading is held once), `Known` (none is from the
future) and `InOrder`: with one reader and one poster the queue is the interval
after `Gone`, and nothing posted or held by the poster lies beyond it. From them
`QueueStaysFresh` for every queue length, and `ClientKeepsOrder`: every step is a
step of `IftttFeed`, or a stutter. `AtPlaces` makes the refinement mapping usable.

*I2cLinkProofs.* Three layers, each inductive given the ones before. `Types`.
`Numbering`: what the frames under way and the two-bit numbers of both sides have
to do with each other; its heart is `Agree`, that while nobody has started afresh
alone the host is at most one frame ahead, and a data frame on its way is the one
the chip has got or the one it waits for. That is all `RunsOnceEach` needs.
`Bookkeeping`: which command the frames, the chip's work and its answers are of,
for `ReportsTrue`. Its part `ThisCommand` could not be made inductive until the
third exception, `leftover`, was stated: the chip may still owe an answer to a
command it ran twice.

Only model-checked: everything with fairness (the liveness half of
`RelayInterlock!Spec`, `ComesToRest`, `SettlesInAgreement`, `ReportEnds`,
`RequestsCarriedOut`, `OpensAgain`, `ScreenSettles`, `RepairedByNextChange`, `EachExchangeEnds`, the
liveness of `IftttFeed`), which is beyond the prover. Every safety property and
every type invariant that a passing run checks is stated by a theorem.

## Plan

Done, in this order: the fan and its proofs; its skill; the multisensor; the mesh
home; the IFTTT client; the data link layer of the Optiga chip; the proofs about
the skill, the display, the mesh and the client; the proofs about the power
management and the data link layer; agreement of fan, shadow and skill. What is
left:

1. The number of steps behind the liveness properties as safety: how far the relay
   task can be from its next report, and how often buttons and cloud can answer
   each other.
2. `MqttSensor`: the publishers of ch10 and ch11 on the client of FanAws, without a
   mutex. The transport layer of the Optiga chip above I2cLink: fragments that are
   chained, and its error frames.
3. The update tasks of ch7, the UDP service of ch6, the relay of ch2.

## Not modelled

By far most of the repository is code of others that comes with it: displays and
fonts, the camera driver, sensor drivers, the DTLS client and the command library
of the Optiga chip, and the rest of the AWS SDK. It runs as one sequence of calls
in one task, and its correctness is that of drawing, register values, parsers and
cryptography. What of it decides the behaviour of the programs is modelled: the
client of the SDK, its shadow and version filter, and the data link layer.

The book's own code that is left out reads a sensor, draws, plays or logs in one
loop around library calls, with no state between its rounds; or repeats a pattern
that is modelled elsewhere (the Wi-Fi handlers of ch6 and ch7, the button filter
and the encoder library of ch2, the queue of ch3). Within the modelled programs
the buzzer, the attention LED, the page of the gateway and the wording of answers
are output only and left out, and so is the start of libraries, which is taken to
succeed. Each component's entry in `PROJECT.json` says what of it is missing.
