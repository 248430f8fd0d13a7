# DigiRadio: TLA+ models, checks and proofs

DigiRadio is the firmware of a DAB+/FM/web radio: an ESP32-S3 that drives a
Si4684 tuner over SPI, an ADAU1701 sound processor over I2C and a BT1035
Bluetooth module over a UART, and serves a web page and a JSON API.  The
firmware is C++ on ESP-IDF/FreeRTOS, under `src/Software`.  Its pure logic
(`components/core`) has host tests; what those tests do not reach is what
happens between tasks, between two writes, with an answer that comes late and
after a reset, and that is what these modules are about.

Paths below are relative to `src/Software/`, and `C/` stands for `components/`.

## 1. Inventory

### 1.1 Who runs

| Task | Priority | Started in | What it does |
|---|---|---|---|
| `httpd` | default | `C/net/src/SetupWebServer.cpp` | all API handlers, one at a time |
| `web_radio` (player) | 4 | `main/web_radio_stream.cpp` | session loop, decoder, I2S |
| `web_radio_net` | 5 | `main/web_radio_stream.cpp` | HTTP fetch, playlists, fills the ring |
| `phone_pcm` | 5 | `main/phone_pcm_server.cpp` | PCM from a phone over TCP to the same I2S |
| `alarm` | 3 | `main/alarm_clock.cpp` | once a second: ramp, deadlines, table |
| `af_follow` | 3 | `main/main.cpp` | every 3 s: alternative frequencies, DAB following |
| spectrum | 3 | `C/services/tuner/src/SpectrumScanService.cpp` | one sweep over a band |
| `si_store` | 1 | `main/hardware_bootstrap.cpp` | copies the tuner images to flash |
| `esp_timer` | high | `main/system_diag.cpp` | probation of a new firmware |
| `bt1035_retry` | 3 | `main/hardware_bootstrap.cpp` | starts the Bluetooth module when the boot could not |
| `bt_reconn` | 4 | `C/services/bluetooth/src/BluetoothService.cpp` | reconnects the saved speaker after the start |
| `heartbeat` | 5 | `main/main.cpp` | health log |
| reboot tasks | 5 | `C/net/src/SetupWebServer.cpp`, `C/net/src/BleProvisioning.cpp` | restart the radio a few seconds after an answer |
| SigmaStudio TCP | 5 | `C/net/src/SigmaStudioTcpServer.cpp` | live DSP design from a PC |
| event loop | system | ESP-IDF | Wi-Fi and BLE events |

`AudioService` has no lock of its own; `TunerService` has a recursive mutex
taken per call; the DSP has `sigma_studio_lock`; `WebRadioService` and
`PresetService` have a mutex each.  Nothing guards the UART of the Bluetooth
module, the list of stations, or the partition of the DSP program.

### 1.2 Components, what they keep, what makes them correct

| Component | State | Operations | What must hold | Module |
|---|---|---|---|---|
| Web radio (`main/web_radio_stream.cpp`, `web_radio_fetch.cpp`, `C/services/webradio`) | configuration and its generation, published status, ring buffer, session flags, claim of the sink | `setConfig`, session start and stop, fetch, push, pull | one network task at a time; the ring outlives it; a new URL is played; off frees the wire | `WebRadio` |
| Safeload access (`C/drivers/adau1701`, `C/net/.../SigmaStudioTcpServer`) | five safeload slots, the lock, parameter RAM | volume, equaliser, bass boost, TCP writes | a burst is exclusive; the lock comes back; a cell takes only values asked for | `Safeload` |
| Audio output (`C/services/audio`, `main/audio_routing.cpp`, `main/esp32_i2s_sink.cpp`) | profile, power state, the copy in NVS, DSP source and gain, the source to go back to, the sink | apply profile, volume, power, switch of input with fades, claim and restore | DSP and profile agree; a stream puts back what it took | `AudioOutput` |
| Alarm clock (`main/alarm_clock.cpp`, `C/core/src/AlarmSchedule.cpp`) | table, ramp, two deadlines, last minute checked | a round per second; table, sleep, power, volume over HTTP | a row fires once; the ramp reaches its target; the sleep timer ends | `AlarmClock` |
| OTA (`C/services/ota`, `main/system_diag.cpp`) | two slots, otadata, upload session, probation | begin, write, finish, confirm, roll back | there is always an image to return to; a healthy one is confirmed | `FirmwareUpdate` |
| Image store (`C/drivers/si4684/src/Si4684ImageStore.cpp`, `C/core/src/BlobStore.cpp`) | header and three images in flash, state shown by the API | open, fillFrom | ready means whole; the store ends up filled | `FirmwareUpdate` |
| Tuner (`C/drivers/si4684/src/Si4684Tuner.cpp`, `C/services/tuner/src/TunerService.cpp`) | band image loaded, station, service, volume, last service played | tune, play, list, volume, status | (operators used by the next module) | `Tuner` |
| Following (`AfFollowService`, `AlternateFrequencyFollower`, `DabServiceFollower`, `DabReturnPolicy`, `SpectrumScanService`) | streaks, cooldowns, linkage, return target, sweep | a tick; a sweep; calls of the listener | a tick that finds nothing leaves the radio where it was; a sweep is alone and puts everything back; fallback and return come to an end | `Following` |
| Presets (`PresetService`, `AudioPresetBank`, `AudioPresetCodec`, the NVS and EEPROM stores) | bank in RAM, in NVS and page by page in the EEPROM | recall, save, delete, default per input, switch of input | what was answered survives a restart; a backup written to its end decodes to the bank; a switch never stays muted | `Presets`, in `Settings` |
| Stations and recall (`StationService`, `StationList`, `IntegrationService`) | list in RAM and NVS, index of the last recall | add, remove, reorder, recall, start | what is shown is saved; the last station returns after a start | `Stations`, in `Settings` |
| DSP programs (`SigmaStudioTcpServer`, `FlashDspProgramSource`, `FallbackDspProgramSource`, `DspProgramBlob`) | capture of a download, partition in flash, registers of the chip | capture, POST, store, boot | what is stored is what ran; what boots is a whole program | `DspProgram`, implementing `ProgramStore` |
| Network (`StaClient`, `NetBootstrap`, `BleProvisioning`, `SoftApHost`) | credentials, event group and its bits, retries, mode of the driver | join, fall back, provision over HTTP and BLE, clear | the radio comes up, stays reachable, and joins what was saved | `Provisioning` |
| Bluetooth (`BluetoothService`, `Bt1035Driver`, `Bt1035At`) | `booted_`, `pairingActive_`, the UART, the module | every operation as a sequence of AT exchanges | what is reported of the link is true; a booted module is configured; off stays off | `Bluetooth` |
| Slideshow (`main/dab_slideshow.cpp`, `MotSlideAssembler`, `FlashSlideStore`) | segments received, slots of flash, the slide shown | header, segment, change of service | a slide is whole and of the service that plays | `Slideshow`, in `Reception` |
| RDS and labels (`RdsMetadataAccumulator`, `DabDynamicLabelAccumulator`, `DlsDecoder`) | candidates, confirmed parts, A/B flag, tags | feed, reset | what is shown was sent by the station on the air | `Metadata`, in `Reception` |
| Tuner driver (`Si4684Driver`, the state of `Si4684Tuner`) | image in the chip and the flags that say so | boot, tune, play, mute | each call does what `Tuner` says | `Receiver`, in `Reception` |
| ICY metadata, resampler (`IcyStreamFilter`, `PcmResampler`) | byte counter, phase | feed | sequential arithmetic of one task, with host tests | not modelled |
| Secure store, EEPROM | key-value pairs, pages | load, save | inside the callers, as saves that may fail or be cut short | (callers) |
| HTTP server | none of its own that matters here | handlers | each is an action of the module it changes | (all) |
| JSON codecs, filter design, exported DSP tables, bench tools, web pages | | | stateless, floating point, data, or not part of the running radio | not modelled |

### 1.3 Where it is hard

`PROJECT.json` lists the hazards line by line, each with the properties that
would catch it going wrong.  They are of seven kinds:

1. *No lock, several callers*: `AudioService` (HTTP, alarm, player, phone),
   `WebRadioService::setConfig`, the bass boost of the DSP, the UART of the
   Bluetooth module (five tasks), the partition of the DSP program (two).
2. *A lock per call, an operation of several calls*: recall of a station, the
   spectrum sweep, `restorePreviousSource`, a switch of input that waits, muted,
   for the presets.
3. *One step of several fails*: profile writes, ramps, standby, flash erase,
   retuning after a hunt, a command to the tuner that acts and is not answered,
   a save after the RAM has changed.
4. *Reset in between*: the copy of the tuner images, a new image on probation,
   the erase and write of a DSP program, the pages of the preset backup, the two
   keys of the Wi-Fi credentials.
5. *Lost, corrupted, late*: RDS groups, labels and slide segments; an answer of
   the Bluetooth module that comes after its command has timed out, or is read by
   another task.
6. *A wait and its event race*: the event group that `connect()` deletes while
   the handler may be about to set a bit; retries, the timeout of the join, the
   minute after which BLE is offered.
7. *Something has to happen in the end*: the wire is freed, a new URL plays, the
   sleep timer ends, a healthy image is confirmed, DAB comes back, a posted DSP
   program runs, the radio is reachable, every Bluetooth operation ends.

## 2. How the project is built

One module per component, its state as variables, one action per operation or
step of a task.  `MC*` modules only give values to constants.  The order of the
work was that of the damage an error does and of how little a test sees of it:
memory shared between tasks, then timers and resets, then what is kept in flash,
then the network, Bluetooth and what is received.

Components that interact are composed:

* `Settings` puts `Stations` and `Presets` beside each other (`INSTANCE`): one
  `httpd` serves both, one power cut hits both, one erased NVS empties both.
* `Following` is built on `Tuner`, which gives the calls of `TunerService` as
  operators from a state to the set of its results.
* `Receiver` is the driver below these calls, with commands that fail halfway and
  with the text that a station sends (`Metadata`); `Reception` puts it beside
  `Slideshow`, the calls of any task beside the task that drains the chip.
* `AlarmClock`, `AudioOutput` and `WebRadio` each see the other two as calls of an
  environment that may come at any time.

Two abstract specifications say what a part promises, and the detailed one is
shown to implement it:

* `ProgramStore`, a place in flash that loads either nothing or a whole program
  somebody offered; `DspProgram` implements it (`StoreIsWhole`), with the sectors
  mapped to the program they parse to.  Checked, and proved.
* `TunerCalls`, a radio on which every call has one of the outcomes of `Tuner`, is
  what `Following` is built on; `Reception` implements it (`ActsAsTuner`), with
  the flags of the driver and the chip mapped to the state of `Tuner`.

## 3. The modules

Every module names the code's functions where it can: an action `OffClear` is
the part of `turnOff` that clears the deadlines, `FadeDownTest` is the test of
`fadeMaster`.  An action is as long as the code is atomic: what is under one
mutex and does not block is one action, everything else is split where another
task may run.  Failures are choices of the environment, within a bound.
Variables marked *history* are written and never read by the actions; only
properties read them.  Operators named `Mutant...` are variants with a plausible
bug; `PROJECT.json` says which property notices each.

### 3.1 `WebRadio`

The player (`pc`), the network task (`net`), any number of tasks inside
`WebRadioService::setConfig` (`wcall`), and phones that compete for the I2S sink.
A chunk of audio is a unit of `ring.fill`.  The semaphore `done` and the flag
`stop` are those of `Session`.  The generation is read before the URL
(`web_radio_stream.cpp:455-456`), as two actions.  Decoder errors, ends of the
stream, playlists (bounded by `MaxHops`, which is `kMaxPlaylistHops`) and refused
allocations are choices.  Not modelled: ICY, the resampler, back-off durations.

### 3.2 `Safeload`

A task runs an operation as a list of *blocks* (one `sigma_safeload_block` each),
with a note of which block takes and which returns the lock; each I2C
transaction of a block is a step.  `bass` is the operation whose filter goes out
without the lock.  The chip's five slots are cut to two, the widest block here,
and cells to one or two per operation.  The read-back, which only logs, is left
out.

### 3.3 `AudioOutput`

Two cells of the DSP (source, master gain), the profile, the power state and the
copy in NVS.  As `AudioService` has no lock, each DSP write, each test of the
power state and each assignment of the profile is an action.  A write that fails
may or may not have reached the chip.  `sure` (history) records the cells whose
last operation did not fail, `overlap` whether two calls were ever inside the
service at once and whether one was a change of profile, `chosen` the source of
the last profile applied.

### 3.4 `AlarmClock`

The alarm task with its three parts (`stepRamp`, `checkDeadlines`,
`checkSchedule`), each read or write of the shared fields an action, and the
HTTP handlers in between.  Time is a counter of seconds; a minute has
`MinuteLength` of them.  `fired` (history) is the sequence of minutes in which
a row fired.

### 3.5 `FirmwareUpdate`

Two OTA slots, otadata, the bootloader with rollback (external: ESP-IDF), the
upload handler, the probation timer, the store of tuner images and the task that
copies them.  A *bare* build has no images of its own and cannot start without
the store.  A reset may come between any two steps and loses everything but
`slot`, `selected`, `header` and `image`.

### 3.6 `Tuner` and `Following`

`Then` composes two calls of `Tuner` and stops at the first failure, as the code
does.  `Following` composes it with the listener, the tick of the `af_follow`
task (under the mutex from its first read to its last tune) and the spectrum
sweep, which takes the mutex call by call.  Reception is 0, 1 or 2 per carrier
and changes at any time; a PI may be unknown in any status.  Times are ages in
ticks, saturating at their limits.

### 3.7 `ProgramStore` and `DspProgram`

A SigmaStudio connection writes frames to the running chip; until the run bit
rises they are also captured as regions, which `AddWrite` joins where one
continues the last.  The capture, or the program of a POST, goes to flash by
`Erase` and `Write`, one sector each.  Nothing keeps the two callers of
`storeBlob` apart, so a sector is the *set* of programs written since its erase:
NOR flash keeps the AND of them, and only a set of one passes the checksum.  A
sector cut short holds `Torn`.  `captured` (history) is the set of registers whose
value on the chip the capture knows.

### 3.8 `Provisioning`

`app_main` (`main`), the event-loop task (`handler`) and `httpd`.  `StaClient` is
moved several times on its way; `MovedFrom` says what a move leaves behind and
`Destroyed` what its destructor does to the driver.  The event group has three
states, because `vEventGroupDelete` comes before the pointer is cleared: setting a
bit in between writes to freed memory (a choice: nothing, or a panic).  Names and
keys are model values, right when both are of the same network; the two keys of
NVS are written one after the other.

### 3.9 `Stations`, `Presets`, `Settings`

`Stations`: an edit changes the list in RAM, then saves, then rolls back where the
code does (`removeAt` does not); a recall of a DAB station tunes and plays in two
lock sections, with a reference into a vector that an edit may move in between.
`Presets`: every request under the mutex, the save to NVS in one piece, and then
to the EEPROM page by page, after comparing with what is there; a page may be
torn.  A page holds a sound only coarsely (`Coarse`), and slots 6 to 8 have no
page.  The player switches input muted and waits for the mutex.
`answered` (history) is the bank of the last request that was answered well.

### 3.10 `Bluetooth`

Nothing guards the UART.  An operation is a *plan*: scripts, each the alternative
of the one before, each a sequence of steps as the code issues them.  A step is an
AT command — whose failure ends the script or is ignored, behind `ensureBooted` or
not — a wait that polls, or an act of the driver itself.  `cmds` are the commands
the module is behind with, `rx` what it has answered and nobody has read: a task
that reads takes whatever is there.  `crowded` (history) says that a task used the
UART while another was booting the module.

### 3.11 `Metadata`, `Slideshow`, `Receiver`, `TunerCalls`, `Reception`

A text is two parts and a slide a few segments; version `n` of what station `s`
sends is `<<s, n>>`, so that a mixture can be told.  Stations send carousels; a
packet may be lost or corrupted, and a station changes what it sends.  `Receiver`
has the chip (which image runs, where it is tuned, what plays) beside the flags
that the driver keeps about it; each command may fail before or after it has
acted, and the boot of an image in several places.  Flash slots of `Slideshow` are
erased by sector at the first touch, and a write over what was not erased spoils
the unit.

## 4. The runs

Each run takes TLC one to three minutes with two workers.

| Run | Bounds | States | What it shows |
|---|---|---|---|
| `webradio` | 2 URLs (one TLS), 1 writer, 1 phone, ring of 1, 1 playlist hop, 2 changes | 834 236 | `RingOutlivesFetch`, `NewUrlPlays`, `OffFreesSink` |
| `safeload` | 2 tasks, volume, equaliser and TCP, 2 values, 1 failure | 556 168 | `ParamsRequested`, `FiltersWhole` |
| `audio` | HTTP task, player, phone; 3 sources, 2 levels, 1 failure; symmetric in streams, levels and the two other sources | 2 761 411 | `DspAgrees`, `PreviousBelongsToHolder`, `SourceRestored` |
| `alarm` | 3 levels, minutes of 2 s, 5 s, 2 HTTP calls, 1 failure | 179 378 | `FiresOncePerMinute`, `SleepEnds`, `WakesUp` |
| `firmware` | 2 full builds, a bare and a foreign one, 2 uploads, 1 reset, 1 failure | 469 480 | `RollbackTargetWhole`, `ReadyIsSound`, `HealthyIsConfirmed` |
| `follow` | 2 ensembles, 2 frequencies, all fading; 3 calls, 1 failure | 921 051 | `StaysPut` |
| `follow_live` | 1 ensemble, 2 frequencies; 3 calls, 1 sweep | 155 673 | `SweepAlone`, `SweepRestores`, `ReturnsToDab`, `LeavesWeak` |
| `dsp_program` | 2 words, 2 registers and the run register, 4 frames, 2 sectors, 2 regions of up to 2 words; 2 stores, 1 power cycle, 1 failure | 213 429 | `PersistedIsWhatRan`, `StoreIsWhole`, `PostTakesEffect` |
| `provisioning` | a network that exists and one that does not, 1 retry, 3 incidents of any kind (requests, failures, outages, timeouts, resets) | 72 731 | `WifiMatchesMode`, `ComesUp`, `StaysReachable`, `ProvisionedJoins` |
| `settings` | 3 stations on 2 ensembles, a list of 2, a slot with a page and one without, 2 sounds; 4 requests or failures, power cuts and NVS erased without bound | 641 190 | `ShownIsSaved`, `LastReturns`, `AnsweredSurvives`, `BackupIsWhole`, `SwitchEnds` |
| `bluetooth` | 2 operations, faults, overlaps or link changes beside the tasks of the start, which a module that did not boot sets going; 1 poll per wait, 2 tasks at once, 1 command behind | 284 407 | `ConnectIsTrue`, `BootedIsConfigured`, `OffStaysOff`, `OpsEnd` |
| `reception` | 2 ensembles (one received) with 2 services, 2 frequencies, 3 slots of 4 units in sectors of 2, slides of 3 and 2 segments; 1 failed command, 1 packet lost or corrupted, 3 calls or changes | 281 085 | `ShownIsOnAir`, `ItemIsOfText`, `SlideIsWhole`, `ActsAsTuner`, `CatchesUp` |

What each property says is in the comment above it.  Every one has a mutant of the
code's model that breaks it under the same instance.

**Why these bounds are enough.**  Two configuration changes let a session be
outdated while the one before is still being stopped.  Two tasks and one failed
transaction leave slots loaded for the other task's burst.  In `audio` three
sources are needed: the one to go back to, the ESP32 input, and one the user
picks meanwhile.  In `alarm` five seconds in minutes of two hold a first ramp, a
second one, and the end of its duration; a user needs two calls to set a timer
and disturb it.  In `firmware` two uploads go from a full build to a bare one and
back, with a reset inside; the two full builds are interchangeable, so that the
one flashed first (`Flashed`) is fixed.  In `follow` three calls are a tune, a
start of a service, and switching following on; the second ensemble carries the
same service and one more.  In `dsp_program` two stores run beside each other, and
two sectors are the fewest that can disagree; the frames contain a region that
continues another, one that starts inside it, and both values of the run bit.  In
`provisioning` three incidents are a request, a failure in the middle of what it
starts and a reset.  In `settings` four uses are two edits with a recall, one of
them failing, or a save and a second save that fails in the backup.  In
`bluetooth` two uses are a fault that makes an answer late and an operation that
reads it, on top of the retry and reconnect tasks.  In `reception` a change of
what a station sends between two losses, or a retune after a failure, fit in
three, and three slots with slides of different sizes reuse a slot that still
holds the end of a longer slide.

**Fairness and why the code justifies it.**  FreeRTOS runs every ready task, and
the waits in question have time limits; nothing is assumed of users, phones,
power or radio reception.

* `WebRadio`: weak fairness of the player and of the network task; socket calls
  have a timeout, and every wait of the player but the one for `done` is bounded.
* `AlarmClock`: the task and the clock.
* `FirmwareUpdate`: the tasks, the boot, the handler of an upload under way, the
  60 s timer, and strong fairness of the health request, which the web page sends
  while it is open; none for resets, uploads or failures.
* `Following`: the two tasks; the listener and the reception are not fair, so the
  liveness properties say what happens if they stay away long enough, or name the
  exception.
* `DspProgram`: a start, a flash operation under way, and a reboot task, which only
  sleeps.
* `Provisioning`: `app_main`, the handler, an attempt to join that ends one way or
  the other, a save under way and the reboot task.  Nothing says that an access
  point comes back, so `StaysReachable` and `ProvisionedJoins` make an exception.
* `Settings`: whoever has the preset mutex goes on, and a free one is taken.
* `Bluetooth`: some task that can go on does, and the module works through the
  commands it is behind with; every wait has a deadline.
* `Reception`: the carousel is drained again and again, because `afFollowTask`
  polls periodically; every other step is bounded.

Liveness properties that a failed call can defeat say so (`failures > 0` in
`SleepEnds`, `WakesUp`, `HealthyIsConfirmed`, `PostTakesEffect`): the code does not
retry, see section 6.  Where a configuration switches deadlock checking off, the
system really may stop: a halted boot, a radio with following off, bounded calls.

## 5. The proofs

TLC says what holds on a small instance; the theorems hold for every value of the
constants that satisfies the module's assumptions.  Each proof module first proves
that the initial states satisfy an inductive invariant and that each action keeps
it, one lemma or step per action.

`WebRadioProofs`
: `TypeCorrect`.  `FetchHandshakeHolds`, `ClaimFollowsPlayerHolds` and
`RingOutlivesFetchHolds` follow from one inductive invariant, `Handshake`: the
first two and `RingFollowsPlayer`, which says where the player is while the ring
exists.  `RingOutlivesFetch` is not inductive alone: that `deleteRing` runs only
with no network task follows from the place of the player.
`SessionUrlCurrentHolds` uses `SessionInv`: a session whose generation is still the
live one has the live URL.  It is inductive because the generation is read before
the URL and every change of `cfg` raises it.

`SafeloadProofs`
: `TypeCorrect` (with `CallOK`: the place of a call exists in its operation).
`LockReturnedHolds` from `LockInv` (a task is inside a locked burst exactly when
it owns the lock), with any number of failures and without the bass boost, the
one operation that enters a burst without it.  `ParamsRequestedHolds` and `FiltersWholeHolds`
from `SlotInv`, which says what each slot holds at each step of the burst under
way: the half-loaded slot, the loaded ones, those a failed burst left behind.
They assume `"bass" \notin Ops` and at most one failed transaction; without the
first, TLC finds a cell with a value nobody asked for (section 6).

`AudioOutputProofs`
: `TypeCorrect` and `PreviousBelongsToHolderHolds`.  The property says when a
source to go back to is remembered; it is kept by a claim only because the
claiming task is at the place of its call where it holds the sink, which is what
`CallsFit` (each call is at a step of its own operation) and `SinkHeld` (the
stream between claim and release is the holder) add.
: `SourceRestoredHolds` from `SourceInv`: as long as no call has failed and no two
have written the profile at once, the profile holds the source the user chose, or
the ESP32 with a stream that will go back.  `ProfileAlone` and `SourceKept` say
which call of which task may differ from that, and at which step.
: `DspAgreesHolds` from `DspInv`: with no overlap, at most one task is inside
`AudioService`, and `InCall` says what its call has done to the two DSP cells at
each of its steps.  Between `fadeDown` and `fadeUp` the master cell is anywhere
below the level; `Dimmed` (the call switches the source of a radio that is on)
is what guarantees that the call comes past the step that brings it back.

`FirmwareBluetoothProofs`, of two components that share nothing
: Firmware update: `TypeCorrect`, `RollbackTargetWholeHolds`, `ReadyIsSoundHolds`, from `BootInv`
(what runs is confirmed, or it is on probation, was selected and the other slot is
good), `UploadInv` (what the upload handler has received at each of its places) and
`StoreInv` (images change only while the state says `writing`; `ready` means a
valid store).  A reset may come at any step, so the invariant speaks of the
persistent part alone wherever `mode` is `off`.
: Bluetooth: `BootedIsConfiguredHolds` and `OffStaysOffHolds` from the inductive
invariant of `BluetoothPower`.  `ShapeInv` says what a plan can be: one that leaves
the power alone (`Calm`), a boot at its step n (`Booting`) or a shutdown
(`Cutting`).  `PowerInv` says that, unless the UART was crowded amid a boot or a
shutdown, either nobody is at one and a booted module is configured (`Settled`),
or one task is and the chip, the commands under way and the text in the UART are
as far as its step says (`Rising`, `Falling`): that the UART holds at most one
final line is what makes the answer to each init command its own.  `OffInv` adds to
`OffStaysOff` that no boot is left in any plan and that the retry task has ended.
: `ConnectIsTrueHolds` from `TrueInv`, which looks at the script of each task and not
at the task.  A script that ends in "up" is `Safe` while a wait for a link that
streams is ahead and no flush is behind that wait; one that is no longer safe has
seen the link stream since its flush.  The text "streaming" in the UART is from a
link that streamed while every connect past its flush looked on; so it does not
matter whose answer the text was.  Scripts change by dropping their first step, by
a wait that puts steps before them, by the skip of a wait when the link streams
already (sound because the skipped wait is for just that: `Tame`), or by the
next alternative, which has not begun (`Unbegun`); one lemma follows each
(`AdvanceFits`, `RepeatFits`, `SkipFits`, `FreshFits`).

`DspProgramProofs`
: `StoreIsWholeHolds`, that `DspProgram` implements `ProgramStore`: initial states
map to initial states, and each step to a step or a stutter.  Erasing or writing a
sector changes what the flash parses to only from or to a program that fills every
sector (`SectorStep`, `HeldEverywhere`); with two writers at once it can only
become invalid.  The invariant holds the shape of the callers and of the flash and
that nothing is loaded while the radio starts.
: `PersistedIsWhatRanHolds`: what a download leaves in the capture, and the program
stored of it, replays to the registers of the chip, for any number of registers,
frames and regions.  `Replayed` is a recursion over a program, and a theorem on
induction cannot be cited for it; so the proof reads it as a `Trace` of contents
(`ReplayedIs`, `ReplayedNext`) and takes the least place where two traces would
differ, which the well-foundedness of the naturals gives (`Least`, `Counting`,
`TracesAgree`).  The invariant, `DownloadInv`, says besides that a connection is a
connection, and that while the radio starts none is open and nothing is being
stored.  The one fact about the code it turns on is that
a frame which lengthens the last region is, to a replay, one more write
(`WrittenTogether`, `AddedIsWritten`); a write that does not reach the chip only
takes its registers from those the property speaks of (`Reaching`, `Missing`).

`AlarmProvisioningProofs`, of two components that share nothing
: Provisioning: `WifiMatchesModeHolds`, from `NetworkInv`.  `Places` says what `app_main` holds at each place: from
the wait for an address to the end of `startStaMode` the handlers are registered
and the driver runs, before and after a failed attempt there is no client and no
handler under way.  The second half is what keeps the set-up network quiet: an
event that arrives late finds nobody registered.  That moving a `StaClient` leaves
its source without a connection is what keeps its destructor from stopping the
driver of the object that has moved on.
: Alarm clock: `FiresOncePerMinuteHolds`, from `FiredInv`: the minutes in which a row fired are strictly
increasing and none is later than the minute checked last, which is no later than
the present one.  It needs that a quotient by the length of a minute never falls
as time goes on (`MinutesGoOn`).

`FollowingReceptionProofs`, of the tuner and of those who use it
: Following: `FollowingTypeCorrect`, `StaysPutHolds`, `SweepAloneHolds` and
`SweepRestoresHolds`.  A call of the tuner has many results, so each operator of
`Tuner` gets a lemma on what all its results have in common (`Lasting`, `Counted`:
it stays a receiver's state, and a result that failed is counted) and on what one
that worked ensures; the steps of the tasks cite those and never open a call.
`RoundInv` (a round of the follower that has had no failure since its snapshot
is, before it goes and at its end, where the snapshot was taken) and `SweepInv`
(from its first tune to its release the sweep has the radio to itself, and what it
has put back of its origin at each step) carry the proofs.  They count failures
and calls since the snapshot instead of remembering whether there was one, because
a count is what survives the calls of other tasks in between.  They assume a
non-empty set of ensembles (`TunerAssumption`), as the tuner starts with an index
into one.
: Reception: `ReceptionInvariant`, and from it `ShownSlideIsWhole` and
`DriverActsAsTuner`.  Of the slides the invariant says two things.  `ShownWhole`: the
picture on show is, unit by unit, an object that the service sent.  `BegunWhole`: an
object under way lies in another slot, and in every sector that was erased since it
began each unit holds its segment if that was received and is empty if not; only so
does a segment that comes later find nothing to spoil.  They hold for slots, sectors
and slides of any size and any number of groups lost, writes that fail and changes
of service; that a count of segments is all of them is a fact of finite sets
(`AllReceived`).  Of the driver the invariant says that a chip taken as booted has
the image of `loadedBand_` in it and every property set (`Radios`).  The refinement
then goes call by call: each lemma `Seen...` takes one call of `TunerService` apart,
from a boot that may fail in four places to the second tune after a seek, and finds
every result, seen through `AsTuner`, among those of `Tuner`.  An FM image whose
first tune was not confirmed is tuned again by the call that finds it; seen from
outside, that is a call which tunes the default frequency (`LoadingBand`), and the
results of all FM calls together are compared for that reason (`FmResults`).
: So `Following`, proved over the calls of `Tuner`, speaks of the driver too.
: The texts: `ShownIsOnAirHolds` and `ItemIsOfTextHolds`, from `TextInv`.  A call that
chose what is heard leaves no text behind, nor does one that loads the other image,
and one that fails is counted (`Renewed`, `SameText`, `CallsKeep`).  For the packets the
invariant says what an accumulator may hold at each place of the carousel, after each
number of losses.  A name: a part that is confirmed is the candidate of its place, and
a part whose other half is missing was received last, unless a group was lost; without
that, a half confirmed before a change could meet the other half of the next name
(`PartHeld`).  A radiotext: its parts are those of the text whose flag was read, and
tags that belong to the text before can only be there before the parts of the new one
came (`TagsHeld`).  A label: a first part waits for the second of the same label, until
three segments in a row were lost (`LabelHeld`).
: These two theorems have hypotheses on what goes wrong (`FewerThanConfirms`, and one
loss for the tags), and hold for any number of stations, calls and, except for the
radiotext, changes.  The hypotheses are those the accumulators need, not the proof:
with any of the four bounds one higher TLC finds a text that was never sent.  Two
groups of a name misread alike confirm each other; a station that changes its
radiotext twice restores the A/B flag, and parts of two texts meet; with two groups
lost, tags come for a text whose flag was not seen; and after three lost segments a
label is joined of two, as `applySegment` does not look at the toggle bit.

`SettingsProofs`
: `TypeCorrect` for stations and presets together, then `ShownIsSavedHolds`,
`LastReturnsHolds`, `AnsweredSurvivesHolds` and `BackupIsWholeHolds`.  For the
presets: what is in NVS is the answered bank unless a save is under way or has
failed; every page holds a coarse sound; an image under work differs from its
target in the pages still to be written.  For the stations: where a request is,
between its change in RAM, its save and its roll-back, and that the recorded index
names the last station recalled until a shift.  The attempt to prove
`LastReturns` showed that an earlier form of it was true only within the bound on
requests: a list that could not be read had to count as a shift.

`TypeOK` is proved in the modules above that have a theorem on it, for Bluetooth as
part of `ShapeInv`, and was checked by TLC in the others.  Every other invariant and
action property of the runs is the subject of a theorem.  Out of the prover's reach
are the liveness properties.

## 6. Where code and documents disagree

The models keep the behaviour of the code.  Where a property would contradict it,
the property excludes the case; the promise as a document states it is kept as a
definition beside the properties, checked by no run, because TLC refutes it:

* `SavedMatchesLive` (`WebRadio`): `setConfig` saves and publishes in two steps, so
  that two callers leave one configuration live and the other in NVS.
* `ParamsRequested` with `"bass" \in Ops` (`Safeload`): the bass boost burst runs
  without the lock, and a slot filled for one task goes out with the other's.
* `MutedInStandby` (`AudioOutput`): a fade goes on after standby and unmutes.
* `InterruptedCopyRedone` (`FirmwareUpdate`): a build on probation erases the tuner
  images of the build it may have to return to.
* `BackToOriginal` (`Following`): a hunt that finds nothing "plays" a service on an
  ensemble that is not received, and nothing starts it again.
* `RetriesForever` (`Provisioning`): a link lost between the address and the end of
  `connect()` still counts against the retries of the start; once they are used up
  nobody calls `esp_wifi_connect` again (`C/net/src/StaClient.cpp:149`), where the
  comment at line 154 speaks of retrying forever.
* `LastStationReturns` (`Stations`): an edit moves stations, the recorded index stays.
* `DisabledIsOff` (`Bluetooth`): disable does nothing after a boot that failed
  (`C/drivers/bt1035/src/Bt1035Driver.cpp:1057`), though the module may have power.
* `AutoWaitIsArmed` (`Bluetooth`): reconnecting waits for the module to reconnect by
  itself, which an earlier step of the same operation has switched off.

Others were met while modelling:

* `main/web_radio_stream.cpp:443`: the ring is sized once, from the URL configured
  when streaming was switched on; a later https URL plays from a ring without the
  TLS headroom of `docs/manual/ch-api.tex:791-792`.
* `main/web_radio_stream.cpp:349`: when the decoder or the network task cannot be
  created, the published status stays `connecting`, where
  `C/core/include/core/WebRadioStatus.hpp:33` has `Error`.
* `C/services/audio/src/AudioService.cpp:210`: the last write of a fade takes the
  level before it writes it; a volume change in between is lost on the DSP and
  kept in the profile.
* `main/audio_routing.cpp:68`: `restorePreviousSource` tests the source and then
  fades before it switches; a source the user applies in between is replaced,
  against the comment two lines above.  A user who picks the ESP32 input itself
  during a stream is taken back too.
* `C/services/audio/src/AudioService.cpp:84`: saving any setting while a stream
  plays saves the stream's input, which `main/audio_routing.hpp:41` calls not
  persisted.
* `main/alarm_clock.cpp:249`: a failed ramp step is noted as taken; a second later
  the difference counts as the user's (line 54) and the ramp is dropped.
* `main/alarm_clock.cpp:271`: standby and back on within a second is not seen, so
  the sleep timer survives it; `ch-api.tex:674-675` says it is cancelled.
* `main/alarm_clock.cpp:202`: the timer is cleared before a standby that may fail,
  and nothing tries again (`ch-api.tex:673-674`).
* `main/alarm_clock.cpp:358`: a table whose save failed is used and answered with
  200 OK; `ch-api.tex:643-644` says it is stored.
* `C/drivers/si4684/src/Si4684ImageStore.cpp:179`: after a failed erase or write
  the API says `writing` until the next reset.
* `C/services/tuner/src/AfFollowService.cpp:56`: the stale test of the return
  target runs on FM only, so going back to DAB by hand does not end the fallback
  (`C/core/include/core/DabReturnPolicy.hpp:65-67`).
* `C/services/tuner/src/SpectrumScanService.cpp:86`: a sweep that cannot read the
  status mutes the radio and never restores it (`ch-classes.tex:327-328`).
* `C/drivers/si4684/src/Si4684Tuner.cpp:387`: listing DAB services on FM loads the
  DAB image, where `ch-api.tex:285-286` has 409 Conflict.
* `C/core/src/DabServiceFollower.cpp:62`: the streak of a service survives while
  none plays, so a later hunt is for a service the listener has left
  (`C/services/tuner/include/tuner/AfFollowService.hpp:42-45`).
* `C/net/src/StaClient.cpp:319`: the name handed to the driver has 31 bytes at most;
  a radio with a name of 32 saved never joins (`Shortened`; `ProvisionedJoins` leaves
  such names out).
* `C/services/station/src/StationService.cpp:74`: a removal that was not saved stays
  in RAM, comes back with the next start, and moves what the recorded index means.
* `C/services/station/src/IntegrationService.cpp:31`: a list that cannot be read
  leaves the empty one in RAM, and the next edit that is saved overwrites NVS.
* `C/services/audio/src/PresetService.cpp:43`: NVS that cannot be read counts as
  empty, and an older backup is copied over it.
* `C/services/bluetooth/include/bluetooth/BluetoothService.hpp:233-239` speaks of a
  fallback to a scan, the code connects again; line 240 promises Ok when A2DP is
  connected, and with no speaker saved it returns Ok at once.
* `C/drivers/bt1035/include/bt1035/Bt1035Driver.hpp:64` has `AT+I2SCFG=35`, the code
  sends 67.  A connect clears `pairingActive_` without `AT+PAIR=0`; an enable over
  HTTP leaves out `applyBt1035PostBootSetup`; a stale `+A2DPSTAT` that is read first
  makes the branch for a link that exists give up.
* `main/main.cpp:335`: the reconnect of the start may run before the module has
  booted.
* Reception: the RDS accumulators are not reset by a tune that acted and failed; an
  A/B flag read wrong in a doubtful group leaves the tags of the old text on the new
  one; tags of an older DL Plus message apply to a later label with the same toggle
  bit; with two losses, or one loss at a change, a name, radiotext or label is spliced
  of two; the slide of a service stays when one without slides is chosen; after a
  failed volume command while DAB is loaded the chip stays loud.
* `C/net/src/SetupWebServer.cpp:2495`: a slide committed between two chunks of its
  GET mixes two slides in the answer.
* `C/services/tuner/src/TunerService.cpp:388`: a full scan never lists a station at
  the very bottom of the band.

## 7. Not modelled

* Floating-point design of filters, JSON codecs, the web page, bench tools, the
  resampler and ICY parsing: arithmetic and formatting of one task, with host tests
  where they can be tested.
* The chip protocols below the level of a command; I2C retries of the EEPROM.
* Weekdays, time zones and jumps of the wall clock in `AlarmClock`.
* The full scans of `TunerService`: sequences of modelled calls under a recursive
  mutex.  `recalibrateXtal` and the antenna calibration: bench operations.
* The stop of the SigmaStudio server, which deletes a task that may hold the
  safeload lock (`C/net/src/SigmaStudioTcpServer.cpp:494`): a started server is
  stopped only with the network object, which is static in `app_main`.
* The split of a SigmaStudio frame over TCP segments, the parsing of MOT headers and
  the CRC of data groups: data that arrives or does not.
* mDNS, the list of networks and of Bluetooth devices, the device name, passwords of
  the API, the crash log and counters of `system_diag`.

ESP-IDF, its bootloader, FreeRTOS and the chips appear through the results of the
calls the code makes.

About 9 000 lines of the repository have a definition here that translates them.
The rest is, for the larger part, nothing that has behaviour of its own: the tables
SigmaStudio exports (some 12 000 lines, several times over), the web page, the
interfaces with their documentation comments, tests and scripts.
