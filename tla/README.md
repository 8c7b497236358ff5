# TLA+ models of the EC firmware

This directory holds TLA+ specifications of the embedded controller firmware in this
repository (application, bootloader, services and drivers), TLC configurations that
model-check them on small instances, and TLAPS proofs of their most important
invariants for every instance. The code is the reference: where a document or a comment
says something else, the model does what the code does, and the difference is listed
under [Divergences](#divergences).

1. [The system](#the-system) — components, state, operations, how they meet
2. [Modules](#modules) — which module models what, and the conventions they share
3. [Runs](#runs) — what each run checks, its bounds and its fairness
4. [Proofs](#proofs) — what holds for every value of the constants, and why
5. [Divergences](#divergences)
6. [Not modelled](#not-modelled)
7. [Plan](#plan)

## The system

A Zephyr program with one thread per service. Services share variables without locks
and rely on priorities, on kernel objects (`k_event`, `k_msgq`, `k_sem`, `k_timer`) and
on the order of single statements. What runs can be preempted as follows.

| Context | Priority | Preempts |
|---|---|---|
| I2C target callbacks, `k_timer` handlers | interrupt | everything |
| system work queue (delayed works) | -1, cooperative | all threads |
| ACPI service, `main` | 0 (`APP_PRIO_H`) | the threads below |
| fan, thermal, power, SCI, SoC-CP and flash services | 5 (`APP_PRIO_M`), time-sliced | the shell |
| shell | lower | — |

A handler that runs on the ACPI thread is therefore one atomic step for everything at
priority 5, while two services at priority 5 can be switched between any two accesses.

### Components

**SCI service** (`service/sci/service.c`). State: a queue of events, a one-place mailbox
`sci_buf`, the interrupt line, a read timer, the enable bit. `sci_enque` (fan service,
ACPI handlers) queues an event; the thread moves the head of the queue to the mailbox,
asserts the line and starts the timer; the host reads the mailbox with command 0x05,
which frees it; a disallowed power state or a cleared enable bit flushes all of it. Hard:
every one of these steps is several accesses, on four contexts. Correct when each
accepted event reaches the host once, in order, or is dropped by a flush; when the
thread never sleeps on a queued event; when it goes quiet without permission.

**Power service** (`service/power/service.c`, `driver/power.c`). State: the current and
the next power state, an event object, the permission of deep sleep. `pwr_state_set`
(host command 0x23, SoC-CP, shell) compares, stores and posts; the thread carries the
change out, assigns and announces it. Hard: `k_event_wait` with reset drops what was
posted before, `next_pwr_state` is read twice, requests overlap. Correct when a request
that overlaps nothing is honoured and deep sleep is limited to Modern Standby, as far as the
two transitions that write its permission can see to it.

**System events** (`interface/system.h`, `app/system.c`). A broadcast into the event
objects of the SCI, fan and thermal services. Hard: two of the three wait with reset
and can be elsewhere in their loops.

**Fan service and driver** (`service/fan/service.c`, `driver/fan.c`). State: tables per
profile, temperatures, trip points, debug mode, the fan's status and speed, fan power.
Host commands write it on the ACPI thread, shell commands below every service; a loop at
priority 5, every second or when woken, reads the tachometer, reports changes as SCI events
and sets the speed. Hard: the loop reads the tables one row at a time under the handlers; its
wait drops events; reports are refused by a full SCI queue and dropped without permission; a
shell command can be cut into by a host's; the power permission has three writers that know
nothing of one another, and is two writes. Correct when settings take effect, when no
source is served too slowly, when changes are reported, and when power follows the power
state.

**Thermal service** (`service/thermal/service.c`). State: the thresholds of each thermistor,
the sampling rate. Samples in S0, sleeps without limit elsewhere. Hard: the announcement
of S0 has to wake it and can fall between its look and its wait; a new rate does not; the
shell writes four thresholds one by one. Correct when sampling follows the power state and
the rate, whichever thermistor fails, and thresholds are of one writer.

**ACPI and SoC-CP transport** (`driver/acpi.c`, `service/acpi/service.c`,
`service/soccp/service.c`). I2C callbacks store bytes in one receive buffer per target;
the services look up the opcode, check the length, run the handler and leave the
response in one shared buffer. A command runs at its mandatory length already and again
at the end of the transfer. Hard: bytes keep arriving while the service reads; a repeated
START begins the next command without the end of the one before; handlers fail. Correct when
no command that has ended is overlooked and, with a host that waits, when commands run once
and responses belong to them.

**Flash service** (`service/flash/service.c`, `driver/flash.c`, bootloader). Callers put
a message with pointers to a result and a semaphore on their own stacks, and wait for
ever; one low-priority thread executes the messages. Correct when the pointers are live
and the result is the caller's own, and when every call returns.

**Bootloader** (`driver/storage_bootloader.c`, `bootloader/main.c`,
`service/acpi/ec_fw_update_bootloader.c`). State: boot info in RAM and retained, flash,
the RAM the application is loaded to, the host's staging buffer and write address.
`ec_validate_image_header` validates and loads on `main` and again on the work queue when
the host says "exit", while host commands erase, write, compute CRCs and reset. Hard:
two validations at once, shared buffers, resets at any step, which may keep the boot info or
lose it. Correct when what is
started is what was validated, when an image that fails again and again is not tried for
ever, when orders to stay are kept as long as they are retained and the reason of a reset is
reported once.

**Application side of the update** (`service/acpi/ec_fw_update.c`, `driver/storage.c`,
`app/main.c`). Records the reason, and jumps to the bootloader a little later.

The list in `PROJECT.json` also names the parts that are not modelled.

### How they meet

- fan service, ACPI handlers, shell → `sci_enque` → SCI thread → line → host → 0x05;
- host 0x23, SoC-CP, shell → `pwr_state_set` → power thread → `SYS_EVENT_SUBMIT` → SCI, fan
  and thermal threads;
- host → I2C interrupts → ACPI thread → handlers → state of fan, SCI, power, bootloader;
- SoC-CP → I2C interrupts → SoC-CP thread → power state and fan constraint;
- `main`, work queue, ACPI thread → flash service → flash and RAM → boot info → next start.

## Modules

| Module | Models | State ↔ code |
|---|---|---|
| `PwrStates` | the power states and the one after boot | `pwr_sta_t` |
| `Sci` | the SCI service and all its callers | `sci_buf`, `sci_queue`, `sci_en`, `acpi_int`, `sci_tmr`, `event` as in the code; `spc`, `evt`, `sci` and `pc`, `got` are the places and locals of the threads |
| `SciChannel` | what the SCI service promises: an ordered channel with reads and drops | — |
| `Power` | the power service, its driver, `pwr dp` | `pwr_state`, `next_pwr_state`, `event`; `dp_en` stands for the deep-sleep policy; `dp` is the shell's command under way |
| `Thermal` | `Power` with the thermal service: sampling loop, suspension outside S0, thresholds and rate from host and shell | `sys` is its SYS_PWR_STA_CHG bit; `adc_wait`, `sample_ms` as in the code; `thr` is the four thresholds of each thermistor, each known by who wrote it; `set` is the shell's `therm set` under way |
| `FlashService` | the flash service and its callers | `queue`, `operation_result`, `completion` as in the code |
| `FlashCalls` | what the flash service promises: a synchronous call | — |
| `Boot` | boot, update and hand-over; extends `FlashService` and gives its operations their effect | `info`, `retained` (or `LOST`), `flash`, `ram`, `ram_buffer`, `flash_wr_addr`; `hdr` is each thread's copy of the header |
| `HostBus` | I2C target and the two dispatchers up to the handler | `i2c_state`, `opcode` = `rece_cmd[0]`, `cmd_idx`, `mand`, `dispatched`, `resp_buf`; `failed` remembers that a handler failed |
| `FanTables` | the fan tables and the two functions over them, translated with their numbers | `fan_profiles`, `better_performance`, `best_performance`, `track` |
| `FanCurve` | properties of those tables and functions, one step per degree and speed | — |
| `FanCtrl` | the loop of the fan service for one fan, every command of the host and of the shell that changes its state, fan power with its three writers, the queue of reports to the host with the permission to notify and the flush, and the other fan's reports | `temps`, `lut`, `profile`, `trip`, `dbg_mode`, `state`, `rpm`, `fan_allow_on` as in the code; `tab` is the LUT each source points into, `fan_en` the pin, `soc` what is left of the SoC-CP's message, `sci` the SCI queue with its mailbox, `sci_en` the permission, `sh` what is left of the shell's command |
| `SciProofs`, `ThermalProofs` (with the power service), `FanProofs`, `FanCurveProofs`, `HostBusProofs`, `FlashProofs`, `BootProofs`, `BootLoadProofs` | theorems | — |
| `MC*` | instances for TLC | — |

Conventions. An action is one handler, or, where a thread can be preempted, one access
of it to shared state; the action's name is the function's or names the statement.
Kernel calls are atomic. History variables are marked as such in the declarations: no
guard of the code's behaviour reads them. Bounds are constants whose comment begins
"bound". Each module has a section of *mistakes*: single definitions with one slip each
(a dropped post, a missing check, an off-by-one), which no specification uses;
`PROJECT.json` ("mutants") names, for each property of each run, the definition that is
replaced by such a slip and makes TLC find the property violated.

Composition. `Thermal` extends `Power` and replaces its last step, the announcement, by one
that also sets the thermal service's bit, so that resume, overlapping requests and sampling
are checked together. `Boot` extends `FlashService` and strengthens its `Execute`. `Sci` and
`FanCtrl` contain the part of the power service they can observe (a change, then its
announcement): with all of its steps the instances would be too large, and what they
check needs no more of it. `FanCtrl` uses the promise of `SciChannel`, an ordered queue with
flushes, in place of the SCI service's steps, and adds what `sci_enque` does before an event
gets there: without permission it is dropped with a return of 0, and a full queue refuses it.
A full queue holds as many events as it has places, or one more while the mailbox is
occupied; at the lower of the two the model may refuse and may accept. `SciProofs` proves the
promise.

## Runs

Every configuration uses two or three of everything that can be many; the comments give
the reason why that is enough for the interesting cases. State counts are distinct states.

| Run | Specification and bounds | States | Shows |
|---|---|---|---|
| `MCSci` | `FairSpec`; one preemptible caller beside the ACPI thread, queue of 2, 3 events, states S0 and S3 | 475 000 | `ExactlyOnce`, `NoLostWakeup`; implements `SciChannel`; `EveryEventSettles`; `DisallowedQuiesces` |
| `MCSciShell` | `Spec`; the shell as the caller, which also reads and enables, and can stop halfway | 2 986 000 | `NoLostWakeup` against a second, preemptible reader |
| `MCPower` | `PowerSpec`; host (S0, MS), SoC-CP (S0, MS, S3), `pwr dp` with and without a timeout | 90 000 | `SpacedHonoured`, `SleepOnlyInStandby` |
| `MCThermal` | `Spec`; host (S0, MS) as requester, 2 thermistors of which one cannot be read, a rate below the minimum from the host and one of 0 from the shell | 582 000 | `ResumeLostOnlyInWindow`, `ThresholdsOfOneWriter`, `SamplingFollowsPower` |
| `MCFan` | `FairSpec`; 2 sources, profiles 6 (with a table) and 9 (invalid) beside the one of the boot, 2 tables of 2 rows, SCI queue of 1, 2 commands or changes of power after the boot, out of one of four mixes | 418 000 | `StatusAnnounced`, `HottestSourceServed`, `SettingsTakeEffect`, `CrossingRepeats`, `FanPowerFollows` |
| `MCFanCurve` | the firmware's own tables, all profiles, temperatures and speeds | 41 600 | `EveryDegreeServed`, `HotterSpinsFaster`, `DutyInvertsTrack` |
| `MCFlash` | `FairFlashSpec`; 3 callers, 2 kinds of request, queue of 2 (so that it is full) | 4 400 | `StackSafe`, `OwnResult`; implements `FlashCalls`; `EveryCallReturns` |
| `MCBoot` | `Spec`; CHECKSUM image, failing flash, exit and 2 update commands, 1 reset that keeps or loses the boot info, limit of 2 failures | 4 087 000 | `LoadedIsVerified`, `StuckImageStays` |
| `MCBootControl` | `FairSpec`; CRC image, all control commands, 3 starts, resets that keep or lose the boot info | 964 000 | `ReasonIsLastAsked`, `StaysUntilTold`, `GoodImageBoots`, `GoodNotCondemned` |
| `MCHostBus` | `FairSpec`; 2 commands in buffers of 3, to both targets, one of up to 4 bytes and one of up to 2, with a STOP or a repeated START between | 861 000 | `LastCommandSeen`, `EveryTransferSeen`, `AnswerStands`, `RunsOnce` |
| `MCSciLine` | violated: `LineMeansPending` | — | divergence 1 |
| `MCFanConstraint` | violated: `ConstraintHolds` | — | divergence 2 |

Each of the passing runs also checks the module's type invariant (`MCSciShell` leaves it
to `MCSci`, `MCPower` to `MCThermal`, whose `TypeOK` contains it, `MCBootControl` to `MCBoot`,
and `MCFanCurve` has none of interest).

Why the bounds are enough.
- `MCSci`: three events are one in the mailbox, one in the queue behind it and one more
  that meets a full or a just emptied queue; every pair of contexts (SCI thread, ACPI
  thread, power thread, timer, preemptible caller) interleaves at every access. Its
  invariants and its refinement are proved for every queue length and number of callers.
- `MCPower`, `MCThermal`: unbounded in time, the states are finite; in `MCPower` the SoC-CP asks
  for the host's states as well as for one the host cannot ask for, which makes a third path,
  and can be switched out between its check and its write. S4 and S5 are treated
  by the code like S3. Thresholds of one thermistor are enough to be torn; the other one is
  there to be skipped when its ADC fails.
- `MCFan`: two rows are enough to overlap and to leave a gap while a rewrite is in
  progress; two commands are a setting and another one in the middle of the same pass, or
  a shell command and the host's inside it; a queue of one is full after one report. A
  behaviour has the events of one of four mixes, each with what its properties relate:
  `Tables` what selects and fills the tables, `Crossings` and `Status` what is reported, with
  the permission to notify, the power states that take it away and, for the crossings, the
  other fan, `Supply` the three writers of fan power. Leaving the state of the boot is not
  counted. Events of different mixes meet in the wake-up and the queue of reports only; the
  safety properties are proved for any mix, so with all of them at once.
  72 degrees lies in a different row of each table. The safety properties are proved for
  any number of sources, any tables and commands and any queue.
- `MCFlash`: one caller in service, one queued, and one that finds the queue full needs
  three callers and a queue of two at most; proved for every number of both.
- `MCBoot`, `MCBootControl`: every reset keeps the boot info or loses it, whatever caused it.
  An image in three pieces (header, two halves) is the least that can be mixed;
  two update commands are an erase and a write, a stage and a write, or two erases around
  a validation; `MaxFails` = `FailLimit` lets the counter saturate. A limit of two failures and one
  reset put the reset before, between and after them.
- `MCHostBus`: a command with and one without optional bytes per target, one byte more than
  the buffer holds, and a second transfer at any moment of the first one or of its handling:
  after a STOP, or after a repeated START in place of one. Each handler may fail.

Deadlock is checked everywhere but in the `Boot` runs: there the EC halts after `k_panic`
and the application's part of the model ends.

### Fairness

- `Sci`: weak fairness of the SCI thread, of the power thread's pending announcement and
  of a caller inside `sci_enque`. They are ready threads of equal, time-sliced priority and
  what runs above them is short. Nothing is assumed of the host or of the timer:
  `EveryEventSettles` names its own premise, a host that goes on reading (`PollingHost`).
- `Thermal`: weak fairness of the thermal thread. Its wait may be without limit, and then its
  step is not enabled. Nothing is assumed of requesters and writers.
- `FanCtrl`: weak fairness of the fan thread, whose wait times out after a second; of the
  shell's command under way, which is ready whenever the service waits; of the SoC-CP
  thread between its two writes, which has the service's priority; and of the host
  taking an event that is queued, which is what the SCI interrupt asks of it and without
  which no report can be promised (`CrossingRepeats` is about a host that reads).
- `FlashService`: weak fairness of the thread and of the flash operation; strong fairness of
  a caller waiting for a place in the queue, because `k_msgq` hands a free place to the
  waiting thread of the highest priority and longest wait, and there are fewer callers than
  could starve one another. This is the only strong fairness in the project.
- `Boot`: weak fairness level by level (work queue, `main`, ACPI, flash), each under the
  condition that nothing above it is ready; of the pending reset and jump. Nothing is assumed
  of the host or of resets.
- `HostBus`: weak fairness of the ACPI thread, and of the SoC-CP thread while the ACPI thread
  has nothing to do. Nothing is assumed of the bus.

## Proofs

The theorems are about the specifications TLC checks, for every value of the constants: any
set of callers, any queue length, any tables, images, requests and bounds. Their assumptions
are the named `ASSUME`s of the modules (`SciAssumption`, `PowerAssumption`,
`ThermalAssumption`, `FanCtrlAssumption`, `CurveAssumption`, `HostBusAssumption`,
`FlashAssumption`, `BootAssumption`, `BootFlashAssumption`), which say that lengths and limits are numbers of the
right kind and that sets hold what their names say; TLC evaluates them on every run. What
a theorem assumes beyond them stands in its row.

| Theorem | States |
|---|---|
| `SciProofs!TypeCorrect` | `Spec => []TypeOK` |
| `SciProofs!NeverSleepsOnWork` | `Spec => []NoLostWakeup` |
| `SciProofs!ImplementsChannel` | `Spec => ChannelSpec`, the refinement of `SciChannel`, with `ShellThreads = {}` |
| `SciProofs!EachEventOnce` | `Spec => []ExactlyOnce`, with `ShellThreads = {}` |
| `ThermalProofs!PowerTypeCorrect` | `PowerSpec => []PowerTypeOK` |
| `ThermalProofs!SpacedRequestsHonoured` | `PowerSpec => []SpacedHonoured` |
| `ThermalProofs!SleepsOnlyInStandby` | `PowerSpec => []SleepOnlyInStandby` |
| `ThermalProofs!KeepsPowerService` | `Spec => PowerSpec`: the composition implements the power service alone |
| `ThermalProofs!ComposedRequestsHonoured`, `ComposedSleepsOnlyInStandby` | the two properties above of the composition |
| `ThermalProofs!ThermalTypeCorrect`, `ResumeIsSeen`, `ThresholdsAreOfOneWriter` | `Spec => []TypeOK`, `[]ResumeLostOnlyInWindow`, `[]ThresholdsOfOneWriter` |
| `FanProofs!TypeCorrect`, `StatusIsAnnounced`, `HottestIsServed` | `Spec => []TypeOK`, `[]StatusAnnounced`, `[]HottestSourceServed` |
| `FanProofs!PinIsFlag`, `TablesAreOfProfile` | the safety parts of `FanPowerFollows` and `SettingsTakeEffect` |
| `FanCurveProofs!EveryDegreeIsServed`, `HotterIsFaster`, `DutyIsInverse` | `Spec => []EveryDegreeServed`, `HotterSpinsFaster`, `[]DutyInvertsTrack` |
| `HostBusProofs!HostBusTypeCorrect`, `CommandsAreSeen`, `TheLastCommandIsAnswered` | `Spec => []TypeOK`, `[]LastCommandSeen`, `[]AnswerStands` |
| `HostBusProofs!CommandsRunOnce` | `Spec => RunsOnce`, an action property |
| `FlashProofs!FlashTypeCorrect`, `StackIsSafe`, `ResultIsOwn` | `FlashSpec => []...` |
| `FlashProofs!NoCallIsForgotten` | the safety part of `EveryCallReturns` |
| `FlashProofs!NobodyWaitsForRoom` | nobody waits for a place, with no more callers than places |
| `FlashProofs!ImplementsCalls` | `FlashSpec => CallsSpec`, the refinement of `FlashCalls` |
| `BootProofs!ReasonIsReported`, `BootloaderStays`, `StuckImageIsKept` | `Spec => []ReasonIsLastAsked`, `[]StaysUntilTold`, `[]StuckImageStays` |
| `BootLoadProofs!BootTypeCorrect`, `LoadedImageIsVerified` | `Spec => []BootTypeOK`, `[]LoadedIsVerified` |
| `BootLoadProofs!GoodImageIsNotCondemned` | `Spec => GoodNotCondemned`, an action property, with `NothingDisturbs` |
| `BootLoadProofs!BootCallsAreSafe` | the flash service's three properties in the bootloader, over resets |
| `BootLoadProofs!BootNeverWaitsForRoom` | no thread of the bootloader waits for a place, with at least three |

*Never sleeps on work.* `NoLostWakeup` speaks of the waiting thread only and is not
inductive: how the thread got there matters. `WakeInv` adds that queued events and the
thread's local copy are never `SCI_NONE` (so that taking one really fills the mailbox),
that from the moment the thread has looked at the queue (`PastLook`) a free mailbox with a
queued event means that a wake-up is set or about to be posted, and that the same holds in
the second half of a flush, when an event may have slipped in after the purge. The bits are
cleared before the thread looks (`ClrNotify` before `ChkEn`); were it the other way round
the step that clears them would not preserve the invariant.

*The channel.* An event between the queue and the mailbox is in the thread's local variable:
`Pending` is mailbox, local, queue, in this order. A step that takes or puts an event changes
no `Pending` only if the mailbox is still free when the thread fills it; `HeldInv` says so, and
it needs that nobody but the host reads. The shell's `sci get` does read, in two steps
(`service/sci/service.c:115-116`), and an event the thread puts there in between is lost: hence
the assumption. One lemma per action shows which action of `SciChannel` it is; `ExactlyOnce`
is then proved of the channel's actions, not of the thread's.

*Spaced requests.* `SpacedInv` says that as long as no request overlapped another one,
the last one is on its way: it sits in `next_pwr_state` with its bit posted or the thread
past its wait, or it has been assigned. The reset of `k_event_wait` is harmless exactly
because a spaced request is made while the thread waits.

*Deep sleep.* `dp_en` is written by the two direct transitions between S0 and Modern Standby
only. `strayed` remembers that it is no longer what such a transition left: the shell wrote it, a
third state was entered or left, or a caller that had been switched out between its check and
its write (`service/power/service.c:61`, 66) asked for the state the platform had got to meanwhile; the
next complete transition between the two clears it. As long as it is clear, `SleepInv` follows
`chgd`, the state the thread is changing to: in the middle of a change `dp_en` already belongs
to the state to come, and a request between the two reads of `next_pwr_state` that would part
the driver from the service is one of the above.

*The composition.* A step of `Thermal` is a step of `Power`, the announcement included, or leaves the
variables of `Power` alone: that is all a subscriber of a system event may do. What is proved of
`Power` then holds in the composition, with no proof of its own.

*Thermal.* `ResumeLostOnlyInWindow` is inductive with the types. For the thresholds,
`WrittenSoFar` says that while a `therm set` the host has not cut into is under way, the
fields written so far are the shell's; the last write then leaves four of the same.

*Fan.* `TypeInv` adds to the types what the thread holds in its hands: while it reads rows, a
source of the system and a table that has some. `StatusAnnounced` is then inductive. `HottestSourceServed` speaks of the
end of a pass; `SoFar` follows the pass: no source asks for more at the moment than `floor`
says it has asked for throughout, every source passed was given its floor, and in the middle
of a table either the maximum has reached it or one of the rows still to come matches and
gives it. A rewrite of the table lowers the floor in the same step. What is written in several
steps needs to know where it is: inside a `fan_constraint_set`, of the fan service, the SoC-CP
or the shell, the flag is what this caller wrote and no other one is inside its own
(`FlagStands`); inside `fan profile` the sources it has passed read the new LUT (`LoadedSoFar`).
Another writer inside is what `crossed` and `mixed` record.

*Fan curve.* Nothing in the proofs but two lemmas speaks of the firmware's numbers. A LUT whose
rows rise, and overlap or meet (`Ladder`), serves every degree: the last row that begins below the
temperature matches it. It does so monotonically: at a higher temperature there is a matching row
of the same number or a later one. On a track that rises (`Rising`), the duty for a speed lies on one
segment, and integer division leaves it below the line by less than one: hence the inverse, and,
as the point two segments share is on both, no drop from one to the next. `TablesAreLadders` and
`TracksRise` check the code's tables; with others in their place, these are what must be shown
again. The run is exhaustive for the firmware's numbers; the proof says why, and for which others.

*Host bus.* `SeenInv` says, of each target whose last command has ended, that when it stands
in the buffer with bytes the thread has not seen its event is posted, or its thread is between the
clear and the match, and that what the thread noted as seen is what stands there. A repeated
START takes the end from the command before it; of an ACPI command that already has its
mandatory bytes the same is said for these (`Early`). `AnswerInv`, about
paced masters, adds that only the target addressed last has anything to do, that the index
counts the bytes sent as long as they fit, that what its thread has taken is of the last
command, and that its handler has failed or answered. `OnceInv` adds that the one event of a command is that of its last mandatory byte and
is pending until the handler has run.

*Flash service.* `FlashInv` adds to the three properties that a queued message's caller
waits for it, that no caller is queued twice or queued while in service, and that a given
semaphore belongs to a waiting caller whose message is gone. For the refinement, `Execute`
is the step at which a call takes effect; one lemma per action shows that it maps to an
action of `FlashCalls` or to a stutter. Of `EveryCallReturns` the part without time is proved: a
waiting caller is in the queue, in service, or has its result (`CallKept`). The callers in the
queue are different ones and none of them is putting a message, so that with as many places as
callers there is always room (`RoomInQueue`). The code has four places
(`service/flash/service.c:12`) and three threads that call: the bootloader does not need the
strong fairness of a caller waiting for a place, which is there for `MCFlash`, where the queue is
made to be full.

*Boot info.* Three threads and the application write two copies of the boot info. `Inv` is
three invariants: the copies agree in mode, failure count and reasons, which are those asked
for (`InfoInv`); a bootloader that is held has the mode STAY and no thread on the way to a jump
(`StayInv`); at rest, a count at its limit has the mode STAY (`StuckInv`). Any reset may lose what
is retained, those the EC asks for included (`LOST`): what a start then finds is a power-on with no
orders and no failures, and the three properties say what is promised of it.

*Load.* `BootInv` conjoins `FlashInv`, by which a thread gets the result of its own request,
the types, and for each thread: its place tells which request it waits for (`CallOf`), and
while nothing has written to flash since it read the header, the image it validated is the
one in flash and in each half of RAM it has loaded (`LoadOf`). A second thread that loads at
the same time then loads the same image; this is why `LoadOf` is about flash and RAM, and not
about what this thread has copied.

*Good images.* `GoodNotCondemned` asks of each validation that it ends with a pass. `GoodInv` adds to
`BootInv`, for each thread and as long as the flash it has looked at is untouched, that the header it
holds is the one in flash and that the results it has been given are those of a good image: the
image's own CRC, and a copy that went well. It is `BootInv` that makes a result the thread's own when
the other validation, or a CRC command of the host, is in the queue with it. `NothingDisturbs` says
that no flash operation fails and that no image has a checksum in place of a CRC. Without the
first, a good image whose flash cannot be read is counted, as the code means to. Without the
second, it is counted too: the checksum is computed in the buffer the flash service's CRC uses
(`crc_clash`). Both are seen in the model, and `MCBootControl`, which checks the property,
is an instance of these assumptions.

Every invariant and action property of the runs is thereby proved. Only model-checked: what is
temporal under fairness, which the prover does not treat (`EveryEventSettles`,
`DisallowedQuiesces`, `EveryCallReturns`, `GoodImageBoots`, `EveryTransferSeen`,
`SettingsTakeEffect`, `CrossingRepeats`, `FanPowerFollows`, `SamplingFollowsPower`). Under several of
these lies a safety property that is proved: `NoLostWakeup` under `EveryEventSettles`,
`LastCommandSeen` under `EveryTransferSeen`, `ResumeLostOnlyInWindow` under
`SamplingFollowsPower`, `GoodNotCondemned` under `GoodImageBoots`, and `CallKept`,
`PinFollowsFlag` and `TablesOfProfile` under `EveryCallReturns`, `FanPowerFollows` and
`SettingsTakeEffect`; what is left to fairness is that the threads go on.

## Divergences

With a run of their own:

1. *The line outlives its event* (`MCSciLine`). `service/acpi/readme.md:38-39`: the line is
   asserted while an SCI is pending. The thread publishes the event (`service/sci/service.c:170`)
   before it asserts the line (172). A host that reads in between finds the line asserted with
   nothing to read, and the timeout does not mend it (182-185).
2. *The SoC-CP's constraint does not hold* (`MCFanConstraint`). `interface/fan.h:115-117`:
   constrained fans stay OFF. In S0 the fan service turns the permission on again at its next
   pass (`service/fan/service.c:231-232`).

Met while modelling, without a run of their own. The model follows the code, and where a
property is weaker than the document it says so:

3. `doc/acpi_test.md:404` says an event that is not read in time is dropped and the next one
   takes its place; `sci_timeout_hdl` (`service/sci/service.c:182`) lowers the line and keeps it.
4. `service/sci/Kconfig:18-21` gives the host the whole timeout for each event; a timeout bit set
   for an event that has just been read is handled after the next one was asserted and lowers
   its line (203-206).
5. `interface/sci.h:34-35` drops events when notification is disabled or the state cannot
   service them; the thread decides at 156 and purges at 67, and drops what was accepted in
   between with everything allowed again.
6. `doc/EC_modern_standby_test_en.md:51`: status 0 takes the EC from Modern Standby to S0. One
   that comes while the entry is in progress is compared with the state not yet left
   (`service/power/service.c:61`) and ignored. Hence "spaced" in `SpacedHonoured`.
7. The same line: heavy sleep is disabled on the way to S0. `driver/power.c:261` disables it on
   the step from Modern Standby to S0 only, and a request of the SoC-CP can come in between:
   Modern Standby, S3, S0 leaves it permitted. So does a caller that is switched out between its
   check and its write (`service/power/service.c:61`, 66) long enough to ask for the state the platform
   is in by then. Hence `strayed` in `SleepOnlyInStandby`.
8. `driver/storage_bootloader.c:251`: the image is read again only after it was verified. The host
   can write flash between the check (215) and the load (253). Hence `touched` in
   `LoadedIsVerified`. An image whose validation control is NONE is loaded with its header checked
   and nothing else (`Verified`).
9. `interface/storage.h:118`: mode 0xDC stays in the bootloader. One that comes during the load is
   overwritten (`driver/storage_bootloader.c:261`). Hence `StaysUntilTold` is about orders given
   before a start.
10. `service/acpi/ec_fw_update_bootloader.c:219`: health flags are updated after an erase; 0x21
    erases the partition the EC boots from and clears the flag of the backup only.
11. 0xC1 stores the reason PANIC before an `__ASSERT` that the build leaves out (500-504,
    `CONFIG_ASSERT` is not set); the EC runs on, and a later hardware reset that keeps the boot
    info is reported as a panic although `interface/storage.h:121` calls it unknown. The reason
    recorded last is what `ReasonIsLastAsked` is about.
12. `service/acpi/service.c:42-43` says the end of a transfer does not run a command twice; one with
    optional bytes runs again at every STOP, that of a later read included (90). Two commands in
    close succession can run the second one twice (144). Hence the premises of `RunsOnce`. A
    write after a repeated START, which `driver/acpi.c:104-119` takes in any state, takes the place
    of a transfer that has had no STOP: the first one is seen with its mandatory bytes or not at
    all, and what optional bytes it had are lost. Hence `Ended` in `LastCommandSeen`.
13. A command that fills the receive buffer does not run at that length: the STOP sets the index back
    (46-49) before the thread reads it. `service/fan/service.c:596` declares such a length.
14. `service/acpi/service.c:76-77` says the response is ready when the host reads without ending the
    transfer; the handler runs on a thread the read does not wait for. Hence `Quiet` in
    `AnswerStands`. A handler that fails leaves the response of the command before
    (`service/acpi/service.c:114-116`, `service/soccp/service.c:83-93`) for the host to take for its own:
    `failed`.
15. A pass of the fan loop that reads a table while the host rewrites it (`service/fan/service.c:144`,
    555) may match no row of either and stop the fan for a second. `HottestSourceServed` promises
    nothing for such a pass.
16. `doc/acpi_test.md:218-224` writes rows to profile 1 and reads them back; `tbl_size` of that
    profile stays 0 and the answer is empty. In general a LUT is written up to its byte count, and
    read and used up to a size no command changes (`service/fan/service.c:546-555`, 572).
17. `interface/thermal.h:37` gives the sampling rate a minimum of 100 ms. The host's command keeps
    it (231-234 of `service/thermal/service.c`), `therm sample` stores whatever it is given (304).
18. `service/thermal/readme.md` shows crossings going to an event dispatcher and the fan service;
    the code logs them (105-117), and events 0x36 to 0x38 of `interface/sci.h:18-20` are never
    enqueued.
19. `sci_enque` refuses when the queue is full, and the fan service does not look
    (`service/fan/service.c:198`, 209, 338, 556): a change of the status or a setting is then not
    reported. While notification is disabled or the power state is none of S0 and Modern Standby it
    drops the event and returns 0 (87-95), and what the queue then holds is flushed (63-77); the
    status is not announced again when the permission comes back. Hence `lost` in
    `StatusAnnounced`. A crossing is reported again a second later; but one report at a time
    reaches a slow host, and a fan that keeps starting and stopping can fill every place that frees
    with its own, or with the other fan's. Hence the steady speed, the permission and the silence
    of the other fan in `CrossingRepeats`.
20. `fan state` (`service/fan/service.c:654`) changes the status without an SCI, and `sci get` takes one
    from the host. Also `lost`.
21. A host's 0x24 between the two writes of `fan profile` (`service/fan/service.c:686-687`) leaves the
    LUTs of one profile under the number of another, or of both mixed, until the next selection.
    Hence `mixed` in `SettingsTakeEffect`.
22. `fan_constraint_set` writes the flag and then the pin (`driver/fan.c:364-365`). Of its three
    callers the fan service and the SoC-CP share time slices, and both preempt the shell: one that
    is switched out between the writes while another one makes its own leaves the flag and the
    enable pin apart, and the fan service, which compares the flag, does not bring them together
    (`service/fan/service.c:227-232`). In S0 the pin can then be off with the flag on until the next
    constraint or change of power. Hence `crossed` in `FanPowerFollows`. The pin gets the caller's value or
    the flag as it is by then: the C compiler may read it again or not, and the model has both.
23. `therm set` and the host's 0x32 write the same four thresholds; a host's command inside the
    shell's leaves a mixture. Hence `torn` in `ThresholdsOfOneWriter`.
24. `sci get` reads the mailbox and clears it in two steps; see *The channel* under Proofs.
25. `fw disbbk` says "exited bootloader" and clears the mode only: nothing is validated or started
    (`service/acpi/ec_fw_update_bootloader.c:618-626`). `CONFIG_FW_UPDATE_SHELL` (586) is declared in
    no Kconfig, so the `fw` commands are in no build.
26. `merge_bin.py:20`, 27, 52, 58 speak of an offset of 0x10000 and an image of 0x40000; the code writes
    at 0x11000 into 0x80000 (4, 6).
27. A handler reads the receive buffer while bytes of the next command may be arriving in it
    (`service/acpi/service.c:113`, `service/soccp/service.c:81`): opcode, length and bytes can be of two
    commands. What a handler makes of them is not modelled; the properties of the host bus are
    about the last command, which is looked at again, and about masters that wait.
28. A temperature of 256 degrees is 0 (`service/fan/service.c:142`), so that a source that reports it
    asks for nothing. `HotterSpinsFaster` ends at 255.
29. `interface/storage.h:122-123` has 0x02 for a reset the host asks for (0xCC) and 0x01 for a cold start.
    `doc/EC_firmware_update_test_en.md:1177-1207` shows a 0xCC after which "Retention data is invalid":
    the reset is reported as 0x01 and the mode 0xDC the bootloader stayed in until then (1159, 1173) is
    gone, so that the application is started. Whether retained memory outlives a reset is up to the
    board; in the model each reset may keep it or lose it. `ReasonIsLastAsked`, `StaysUntilTold` and
    `StuckImageStays` promise of a reset that loses it no more than a power-on.

## Not modelled

- The registers behind the drivers: tachometer, PWM, ADC, GPIO and flash are the environment,
  with any value they can give and with failures where the code tests for them. The sleep
  registers and the residency policy of `driver/power.c` are one flag, allowed or not.
- `driver/aoss*.c`, `driver/i2c_pm.c`, `driver/btn.c`, `service/blink`, `driver/simulator.c`: register
  access, pins, logging or stand-ins, with no protocol of their own.
- The out-of-band flag of the SoC-CP: one assignment that only a getter reads.
- Commands that only read (versions, capabilities, health and status read-outs), except 0x05 and
  the fan status, whose reads are part of a protocol.
- The shell, except `sci`, `pwr dp`, `therm`, `fan` and `jump` of the application. `fan_dev set_pwm` and
  `set_rpm` set the duty behind the service's back, which sets its own within a second; `jump`
  of the bootloader checks nothing; `fw` is not compiled.
- Temperatures of thermistors and the crossings of their thresholds: what is found is logged, and
  nothing depends on it.
- The second fan in `FanCtrl` (the loop's body is the same for both), but for the reports it
  puts in the queue the two share. Its own check of fan power, which repeats the first one's with
  the same power state, is left out.
- Programs of the host: `pack_ec_image.py`, `merge_bin.py`, `kf_flsh_util.py` transform files in one go;
  `fw_upgrade.py` talks to a mailbox in RAM whose other side is not in this repository.
- `tools/openocd*`: vendored. Its headers are two thirds of the lines of C in the repository and
  none of the firmware's, so the share of all lines that the map covers says little; of the
  firmware's own code the models cover the parts above, about a third of the lines, and what is left is
  tables of commands, shell listings, logging, registers and argument checks.

## Plan

Done, in this order: SCI, power, flash service, bootloader, host bus, fan curve; then the thermal
service in full, the fan service with all of its commands, power and SCI queue; proofs of every
invariant and action property the runs check, of both refinements, and of the power service's
properties in the composition.

Left, should the code grow towards it:

1. Both fans in `FanCtrl` with all their state, in place of the other one's reports only, to tell how
   long one can crowd out the other (divergence 19).
2. The flags of command 0x35 beyond bit 0, once something reads them.
3. The SoC-CP as a requester of power states in `MCThermal`, whose state space it multiplies;
   `ResumeIsSeen`, `ComposedRequestsHonoured` and
   `ComposedSleepsOnlyInStandby` already cover it.
