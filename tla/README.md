# A TLA+ development of the NRF52 IR remote

The program is the firmware of a BLE infrared remote control (nRF52810, nRF5
SDK with a SoftDevice).  A phone writes commands to a custom GATT service; the
device learns infrared codes, keeps them in flash, sends them on command, at a
time of day, when it is moved or when it has not been moved for a while.  The
program's own logic is in `src/Source/Application`; the rest of the repository
is the vendor's SDK, of which this development models the three libraries whose
concurrency the program rests on: the scheduler, the flash storage and the
negotiation of connection parameters.

## 1. Inventory

There is one thread, the main loop (`main.c:39-45`: `ProcessMain`,
`app_sched_execute`, `IdleStateHandle`), preempted anywhere by interrupts.  The
application's interrupts have one priority, so their handlers never preempt one
another: the 50 us infrared sampling timer, the 10 ms, 100 ms and 1 s timers,
the key and motion inputs, and the SoftDevice's BLE and flash events.  They
share global variables with the main loop, without locks, and events in the
scheduler's queue.

| Component | State | Operations | What makes it correct |
|---|---|---|---|
| IR receiver, `Mid_IrRemote.c` | `irparams`, its timer | sampling interrupt, start/stop scan, decode, resume | rawbuf never overrun; a frame handed over stays fixed until given back; overflow reported for the right frame |
| Scheduler, `app_scheduler.c` | ring of entries, two indices | `put` from interrupts, `execute` from the main loop | a bounded FIFO, whatever preempts whatever |
| Learn session, `main.c`, `App_Control.c` | flags of `g_FubOperation1`, two counters, two buffered IDs | learn and erase commands, `App_ControlHandle`, `ProcessMain`, 100 ms tick | every command answered; the receiver switched off; the stored signal is the requested one |
| Code table, `Mid_Decode.c:324-381` | `t_IRDataCommom` | insert, remove, erase all, look up | what was learned is what is sent |
| Flash persistence, `Mid_Flash.c`, `nrf_fstorage_sd.c` | operation queue, two pages | erase (queued), write (waited for), read at start | the tables survive a restart |
| Trigger store and alarms, `Mid_Decode.c:241-322`, `App_AlarmControl.c` | `g_atIRDataTrigger`, minute memories | insert, remove; one-shot, window, motion and time-out triggers | a trigger fires once when due |
| Motion sensor, `Mid_MotionSensor.c` | motion count, grade, flags, two counters | 50 ms sample, 100 ms tick | a sensing is graded by its own motions; the quiet time is counted once |
| Clock, `Mid_RTC.c` | UNIX time, `g_tCommonTime` | second, conversion, set | the conversions are the Gregorian calendar; no second is lost |
| Keys, `Mid_KeyControl.c` | debounce buffer, two 16-bit counters, flags | 20 ms scan | three seconds of the one key erase everything, once |
| LEDs, `Mid_LedControl.c` | pattern, step, time, `LedFlag1` | set, 100 ms handle | a pattern is shown and ends dark |
| Command parser, `Mid_Decode.c:12-239` | `g_ubTriggerType`, sensitivity | writes to the characteristics, parsing from the queue | a trigger is what was written, in order |
| BLE connection, `lib_ble.c`, `ble_conn_params.c` | connection flag, negotiation, timer | GAP and GATT events, time-out | it agrees with the SoftDevice; a phone can connect again |
| Decoders, `Ir_*.c`, `Mid_IrRemote.c:249-404` | `decodedIRData` | fifteen decoders tried in order | a frame is read by its own decoder |
| Transmitter, `Mid_IrSend.c`, `Ir_*.c` | toggle bit of RC5 and RC6 | a sender per protocol | what is emitted is the key that was learned |
| Board support, hardware tests | registers | set-up, bench tests | not modelled |
| Standard BLE services | vendor's | battery, device information | not modelled |

Behaviours that are hard: preemption between the load and the store of a flag
byte; the time-out of a request against a frame that is just complete; commands
that overlap; a scan that is stopped in the middle of a frame; puts nested in
puts; a full queue or table whose caller does not look at the result; a clock, a
trigger or a flag byte read half written by an interrupt; events of a link that
is gone when they are handled; short repeat frames that stand for whatever came
before; a restart between the erase of a page and its write.  `PROJECT.json` lists
each hazard with its line.

## 2. Modules

| Module | Models | Kind |
|---|---|---|
| `FrameReceiver` | what the main loop may rely on: a frame is begun, completed, given back | abstract specification |
| `IrReceiver` | the receiver in detail | implements `FrameReceiver` |
| `EventQueue` | a bounded FIFO with a handler | abstract specification |
| `AppScheduler` | the scheduler in detail | implements `EventQueue` |
| `AppScheduler_proofs` | | theorems |
| `IrTable` | the code table and its operations | operators |
| `LearnSession` | main loop, 100 ms tick, commands, receiver as `FrameReceiver` promises it | composition |
| `Learning_proofs` | | theorems of the receiver and, as the instance `S`, of the session |
| `Fstorage` | the operation queue of `nrf_fstorage_sd` | operators and its variables |
| `IrStore` | both tables, their pages, saves and restarts, over `IrTable` and `Fstorage` | composition |
| `IrStore_proofs` | | theorems |
| `Calendar` | the conversions of `Mid_RTC.c` | operators |
| `CalendarWalk` | the Gregorian calendar, day by day | reference the operators are compared with |
| `AlarmClock` | clock and one-time triggers, main loop against the 100 ms interrupt | state machine |
| `MotionAlarms` | motion sensor; window, motion and time-out triggers | state machine |
| `TimerEvents` | scans and seconds in the scheduler's queue | state machine |
| `Clock` | the four parts that go by the time: calendar, alarms, motion, seconds | composition |
| `Clock_proofs` | | theorems |
| `KeyControl` | debouncing, counters and flags of the keys | state machine |
| `LedControl` | patterns, set from two contexts and played by a third | state machine |
| `TriggerCommands` | commands of triggers from the write to the table | state machine |
| `TriggerCommands_proofs` | | theorems |
| `IrPulse` | timings, words, pulse and biphase coding, matching | operators |
| `IrTransmitter`, `IrDecoders` | one sender, one decoder for each protocol, over `IrPulse` | operators |
| `IrRelay` | receive, learn, emit, over `IrDecoders` and `IrTransmitter` | composition |
| `IrRelay_proofs` | | theorems: how a key is read, toggles |
| `IrEmission_proofs` | | theorems: what is sent of it, over `IrRelay_proofs` |
| `BleLink` | the link, its negotiation, advertising, the SoftDevice beneath | state machine |
| `Panel` | link, keys and LEDs | composition |
| `Panel_proofs` | | theorems |
| `MC...` | small instances for TLC | |

`Clock` and `Panel` hold several machines that share no state.  `part` says which
of them runs; the others stay as they start, and a machine that has not started
has no step that its fairness could ask for.  A machine that is instantiated has
its assumption as a named definition (`WalkAssumption`, `ClockAssumption`,
`TimerAssumption`, `KeyAssumption`), and the composition assumes these of its
constants (`PartsAssumption`).  An `MC` module gives the constants values and
adds nothing else.

### IrReceiver

One action per branch of `timer_led_event_handler`, joined by the handler of the
same name, which takes the level of the pin as its input; `Mid_IrRemoteStartScan`
and `Mid_IrRemoteStopScan` as other interrupts call them; and the main loop in
four steps (test and read the overflow flag, decode, stop, resume), so that the
interrupt falls between any two of them.  The levels and the timing are free.
Three constants scale `RAW_BUFFER_LENGTH`, `RECORD_GAP_TICKS` and the clip value
of the counter.  Their assumption is where the model and the code depend on an
even buffer length: only the branch that records a space compares `rawlen` with
the length.

`FrameReceiver` lets a frame begin, end as a well-formed sequence of an even
number of durations, be given back, and nothing else; in particular a frame does
not change while it is decoded.  `Phase`, and the record as far as it has been
filled, are the refinement mapping.  A scan stopped in the middle of a frame is
not a promise the code makes: the next session continues the frame.

### AppScheduler

`Claim` is the critical region of `app_sched_event_put`, `Fill` the rest;
`puts` is the stack of preempted puts, of which the innermost runs.
`app_sched_execute` is `BeginHandler` and `EndHandler`, which run only when no
put does.  A put that is refused changes nothing.  The abstract queue contains
the events claimed, in the order of the claims, including those still to be
filled, for which the mapping looks into the stack.

### LearnSession

The main loop is a program counter over `App_ControlHandle` and `ProcessMain`.
`g_FubOperation1` is one byte of bit-fields and the compiler changes a bit by
loading, modifying and storing the byte: `LoadFlags` and `StoreFlags` are two
steps, and what an interrupt writes between them is lost, as on the device.
`FlagWrites` lists the assignments in the order of the code.  Commands and the
100 ms tick are single actions.  A frame decodes to some code or to `UNKNOWN`.
The flash call inside a learn or an erase is a step of its own, during which
interrupts run.  `App_ControlStartEmitIR` touches none of this state.

Five history variables are read by no action: what is `owed` to the phone, its
last `answer`, the IDs still `toErase`, whether the last frame began after the
last command (`fresh`), and `odd`, what has happened that the code makes no
provision for: an update of the flags was lost, a command came before the last
one was done with, a time ran out with a frame in hand, a request ended in
silence.  The promises of the session hold, and are stated, outside of what
`odd` names; each excuse is a real behaviour of the code that TLC found as a
counterexample to the property without it:

* *lost update*: `main.c:59-60`, `App_Control.c:15-17,25-27,43` against a
  command or a tick.
* *early command*: a learn command while a frame is in hand has its `LEARN`
  flag cleared with that frame's, and the scan it started is never stopped; its
  `DETECT` flag may be that of the old frame, whose signal is then stored.
  These two are the only excuses for a signal that is not fresh.
* *late frame*: the phone is told FAIL by the tick and SUCCESS by the main loop;
  since a time-out leaves `LEARN` on, the delay after that frame may switch the
  scan on again with `COUNT` off, with no limit.
* *silence*: the table is full, or `decodedIRData.protocol` is still that of an
  earlier signal at the time-out, so that no FAIL is sent.

### Fstorage and IrStore

`queue_process` is one operator with the three answers of the SoftDevice: the
operation is started, somebody else's is in the way, or it is refused.  A call
(`Request`) and the three kinds of event use it.  The model keeps what the code
does after a refusal: the operation is dropped and the rest of the queue stays,
with the state idle, until the next call.

`IrStore` changes a table in RAM and then walks through `Save`: the erase is
requested and its result ignored, the write is requested, and the main loop
waits until fstorage is idle.  `Mid_RemoveIRCode` saves once for each entry that
holds the ID.  The three-second key queues both erases and waits for neither.
The queue has room for two operations at least (`StoreAssumption`;
`NRF_FSTORAGE_SD_QUEUE_SIZE` is 4): with room for one, the erase of a page behind
that of the other would be dropped, and the write that follows it meet a page that
is not erased.
Programming clears bits only (`Both`), so a write on a page that was not erased
shows in the page.  A `Restart` is possible in every state, is also what
`APP_ERROR_CHECK` does when the write finds the queue full, and reads both
pages; the operation at the SoftDevice may have been carried out in part.

A trigger is its ID and whether its mode is one of the program's.  `GARBAGE` is a
trigger page on which there is something else than triggers: half a table, or the
table of codes that `Mid_RemoveIRTrigger` writes there (`Mid_Decode.c:307`).
It reads back as any triggers.  This is a real fault of the program: after the
removal of a trigger and a restart, before another trigger is inserted, the
triggers are those that the bytes of the IR codes happen to spell.
`RestartKeepsTriggers` leaves these pages out, by name.

`failed` is a history variable: an operation was refused or given up since the
last restart.  `Mid_FlashWrite` returns true all the same, so that `WriteOnErased`,
`SaveIsDurable` and the two restart properties are stated for the time before a
failure.  They are not stated while an operation on the page is queued either: a
restart between the erase and the write loses the table, which has no second copy.

### Calendar and CalendarWalk

The formulas are translated as they are written, with divisions that truncate;
hours, minutes and seconds are the remainder of a division by 86400 and have no
part in them.  `CalendarWalk` counts days, dates and weekdays by the rules of the
calendar and compares.  The conversion from a date to UNIX time (`Mid_RTC.c:98-132`)
keeps the year in a `uint8_t`: it is right for 2000 to 2047, and off by a
constant for other years.  Nothing calls it.  The year is a `uint16_t`, so that the
walk ends in 65535 at the latest.

### AlarmClock

The main loop stores the fields of the date one after the other, and copies a
trigger with its mode first; the 100 ms interrupt compares the two at any moment.
A time is the days of the week, the hour and the minute; seconds are left out,
because a conversion in the same minute stores what is there.  Histories: the
slots `owed` this minute, those that have `rung`, and `odd`, the excuses.  An
alarm can be missed, or go off when it should not, because

* the clock was *set* within the minute;
* the interrupt read a *torn clock*: the new minute with the old hour, say, so
  that a trigger of an hour ago goes off, and `uuPreMinutes` then says that this
  minute is done with;
* the *queue* was *full*: the result of `app_sched_event_put` is ignored.

### MotionAlarms

The three handlers are of one priority and are single actions; they are called by
repeated timers, so that samples, ticks and seconds alternate as their periods
say.  Two things of the code are not obvious, and are what the properties say.
The motion count is cleared neither at the begin nor at the end of a sensing,
but by a sample that finds the sensor ignored; that the sensor is ignored for
longer than a sample takes is what makes a grade that of one sensing.
`uuPreMinutes` (`App_AlarmControl.c:72-76`) is written inside the loop over the
triggers and lacks the hour, so that of two window triggers of one minute only
the first looked at has a chance, and a sensing in a minute of the same number as
the last is passed over; `WindowPassedOver` says exactly which are.

A timeout trigger of zero seconds goes off at every second of quiet, since the
count is then never below it; `TimesOutOncePerQuiet` is about the others.

### TimerEvents

What finds the queue of 24 full is dropped.  A second that is dropped is never
made up for.  The clock keeps time if the main loop never leaves the queue
standing for longer than 460 ms, less 20 ms for each other event in it
(`overran`); a flash erase and an emission of several frames come near to this.

### KeyControl

Several scans may run in one pass of the main loop before `App_ControlHandle`
looks at the flags, all with the keys as they are now; a scan and a pass are
therefore separate actions.  The counters are 16 bits wide and wrap around, in a
hold of 22 minutes, which then erases again; the model has a smaller width, so that
this is reached.  The
excuse `mixed` is a pass whose scans saw different keys.  Flags nobody reads are
left out.

### LedControl

`Mid_LedControlSet` runs in the BLE interrupt and in the main loop, and there is
preempted between its stores; `LedFlag1` is one byte, not volatile, and is loaded,
modified and stored.  `raced` names the interrupts that cut across a setting in
the main loop.  A pattern that replaces another inherits its step and loses its
first flash; one that is raced may be lost, and yet no LED stays lit: `PatternIsShown`
and `DarkWhenDone`, which `PatternPlaysOut` of `Panel` puts together.

### TriggerCommands

A write sets `g_ubTriggerType` in the interrupt and queues the text; the main loop
reads the type when it parses.  A text has a verb, an ID, a number of parts, a
first time that is four digits or another number, and whether the rest parses.  The
sensitivity of a motion trigger is a write of its own, used by the next trigger
that is created, whichever that is; `InitVarialbe`, which would clear it, is
never called, so that the first trigger after a start has sensitivity 0 in any
case.  The excuses: a command was *overtaken* by one of the other type, *refused*
by a full queue, or is a text of six parts that *overran* `TempData`, the buffer it
is parsed in, which is too short for it: what the rest of the text meets there
depends on the build, so that the model lets it parse or not.

### IrPulse, IrTransmitter, IrDecoders and IrRelay

A word is the sequence of its bits and a frame the sequence of its durations, so
that joining bytes is concatenation and the two directions can be compared.
`Mid_IrRemoteDecode` tries fifteen decoders in an order that matters, each with
its own checks of header, length and stop mark; what a decoder rejects goes to the
next.  `decodedIRData` is kept between frames, and short repeats are read from it.
`IrRelay` composes both with the part of `App_ControlHandle` that stores a code.
The receiver samples the frame every 50 us at any of several phases and with marks
lengthened by the demodulator, by 10 to 50 us (`RelayAssumption`): modules lengthen
them, the code allows for 20, and without any lengthening an RC6 frame of 31 entries
can be read as Denon, whose last mark is shorter than one of RC6 by too little.
Durations are matched within 25 per cent by `TICKS_LOW` and `TICKS_HIGH` as they are
compiled: the `#if` of `Op_HeaderDefine.h:412` that would choose simpler divisions
comes before `MICROS_PER_TICK` is defined, and is false. A key is external: its
frames, by the protocols' definitions as the decoders' own tables give them.

`Lossy` names the codes that do not survive, each a behaviour of the code that
TLC found: LG is emitted with 8 bits of its command; an NEC address or a Samsung
command of 16 bits below 256 is taken for a byte and its complement; NEC2 is
emitted as NEC; an Onkyo address that is a byte and its complement is read as a byte
and sent as 16 bits; four protocols are decoded and have no sender in
`Mid_IrSendCommon`; a repeat frame whose first frame was not heard stands for an
earlier key.  A frame of NEC in the first moments of a scan is read as NEC2.
Frames are at most 255 bits long: the byte counters of the decoders would wrap.

### BleLink

The SoftDevice queues its events; when one is handled, the link it is about may be
gone, and a call that fails for it ends in a reset.  `events` is that queue.
`Handle` is one event as `ble_conn_params.c` and then `ble_evt_handler` see it;
`update_timeout_handler` is the negotiation's timer.  There is one link.
Over a link that is up, the SoftDevice's headers allow it to refuse a reply or a
request (`NRF_ERROR_BUSY`, `NRF_ERROR_NO_MEM`); `lib_ble.c` hands this to
`APP_ERROR_CHECK` like every other error, so that a phone that has done nothing wrong
can see the device reset.  `Refused` is that outcome, at any reply and any request for
other parameters, and `refused` remembers it: `ResetOnlyLateOrRefused` says that a reset
has no other cause over a good link, and `PanelGoesOn` that a phone can connect again.

## 3. Runs

| Run | Shows | Bounds |
|---|---|---|
| `ir_receiver` | types, `MarkWriteInBounds`, `OverflowReport`, refinement of `FrameReceiver` | buffer of 6, gap of 2 ticks, clip at 4: full, overflowing, cut and stitched frames all occur |
| `ir_overflow_doc` | the comment at `Op_HeaderDefine.h:143` (on overflow `rawlen` is set to 0) is not what the code does | same |
| `app_scheduler` | types, `HandlerDataStable`, refinement of `EventQueue`, `HeadIsHandled` | 3 entries, 2 nested puts, 2 events and one too long: the queue wraps and fills with claims pending |
| `learn_session` | types, `StoredSignalIsFresh`, `NoSuccessAfterFail`, `FrameGivenBack`, `LearnAnswered`, `ScanStops`, `EraseServed` | one ID, one code, a table of one entry; 2 ticks to time out, 1 of delay |
| `ir_store` | types, `WriteOnErased`, `SaveIsDurable`, `RestartKeepsCodes`, `RestartKeepsTriggers` | two entries, one ID, one code, queue of 3, no retry |
| `ir_store_liveness` | `SaveEnds` | one entry, queue of 3, one retry |
| `clock` | `CalendarIsGregorian`, `NoAlarmMissed`, `OnlyDueRings`, `SensingPutsItsGrade`, `WindowPassedOver`, `TimesOutOncePerQuiet`, `ClockKeepsTime` | every day to 2105; alarms: two days of two hours of two minutes, two slots, a queue of 5; motion: two samples in a tick, two ticks in a second, sensings of 3 ticks, pauses of 2, quiet times up to 3 s, a timeout of zero seconds among the triggers; seconds: of ten ticks, the same queue of 5, three other events |
| `panel` | `AgreesWithStack`, `ResetOnlyLateOrRefused`, `HoldErasesOnce`, `PatternPlaysOut`, `PanelGoesOn` (the link and the LEDs come to an end of what they are doing) | three requests as in the program, three events waiting; a click of 2 scans, "three seconds" of 5, short-circuit error at 7, counters that wrap at 12; four patterns set |
| `trigger_commands` | `IDsAreUnique`, `TriggerIsAsSent`, `CommandsInOrder` | two slots, three IDs, a queue of 2, four writes out of nine texts |
| `ir_relay` | `FrameReadByItsDecoder`, `EmitsTheKey`, `NextPressToggles`, `HeldKeyIsTheKey` | 30 keys of all protocols; pauses of 400 and 30000 ticks, phases of 0 and 25 us, marks longer by 10 and 50 us; two frames |
| `ir_relay_lg_doc` | the sender of LG is written for 16 bits of command (`Ir_LG.c:40`) and gets 8 (`Mid_IrSend.c:53`) | the keys of LG |
| `ir_relay_rc5_doc` | the length checks of RC5 and RC6 (`Ir_RC5_RC6.c:80`, `:276`) ask for a length that is too small and too great at once, and refuse nothing | a single burst |

With two entries an ID may be held twice, and removed by two saves.  A queue of
3 is full after the key is held twice, with erases of both pages in it, so that
erases are dropped and writes reset the device.  A retry repeats the state before
it, and matters to `SaveEnds` only.

One ID and one code are enough for the session because no action compares IDs
but the table's, and a second entry only postpones the full table.  The tick
counts keep the order the code has (delay shorter than time-out), which
`LearnAssumption` states.

Two slots let one trigger be looked at after another, in one minute or one
sensing, and a queue that other events fill to any degree lets the first of two be
refused or only the second.
Two days, hours and minutes have a change of each, alone and together, and a
minute with the number of one an hour before.  Four writes are two overlapping
commands, with a sensitivity before each.  The times of the motion sensor keep
their order (`MotionAssumption`); the sensor is ignored for one tick at least,
which is what clears the count.  Two frames are a press and its repeat, or the
repeats of two keys.

Fairness.  The receiver, the clock and the commands have safety properties only.
In the scheduler an
interrupt's handler returns (weak fairness of `Fill`) and the interrupts leave
the main loop some time between any two puts (strong fairness of the two main
loop steps).  In the session the main loop runs on (weak fairness; it never
waits for an event that may not come: the wait for the flash ends after a
bounded number of retries) and the 100 ms timer is repeated.  In the store the
main loop runs on and the SoftDevice reports the end of every operation, its own
or another's, with success or not.  For the LEDs the 100 ms timer is repeated and
the main loop comes out of a setting.  For the link the program's interrupts are
served, its one-shot timer expires and a reset is carried out; the SoftDevice
answers a request, if only with a refusal, and ends a link that is being closed.
Nothing is assumed
of the user, the phone or the remote control being learned.

The three runs that expect a violation show disagreements of the code with its
own comments.  `ir_relay_lg_doc` and `ir_relay_rc5_doc` are faults of the program:
a learned LG code whose command exceeds a byte does not work, and a single
burst of 889 us of any light is learned as an RC5 code of no bits.

## 4. Proofs

The theorems hold for every value of the constants that the assumptions allow.
The assumptions are:

* `ConstantsAssumption`: the receiver's buffer has an even length.
* `SchedulerAssumption`: 1 to 254 entries, for the indices are bytes.
* `FstorageAssumption`, `StoreAssumption`: room for two operations (see above).
* `TableAssumption`, `CommandAssumption`: tables that are not empty, 16-bit and
  8-bit IDs.
* `LearnAssumption`: the delay after a signal is shorter than the time of a request
  (2 s and 5 s).  `Learning_proofs` has the session as an instance, in which the
  assumption is a hypothesis of the theorems that need it.
* `MotionAssumption`: rising levels, a sensing longer than a second (2 s), a pause of
  two ticks at least (3 s), and, of the bounds of the model, quiet times counted as
  far as any timeout goes.
* `RelayAssumption`: the durations of a key's frames are numbers, no frame is longer
  than 255 bits, a phase is less than a tick, marks are lengthened by 10 to 50 us.
* `LinkAssumption`, and `PartsAssumption` for the machines that are instantiated: an
  hour has two minutes at least, so that two minutes running differ in number; the
  counts of the keys rise and are within their counters; a second is long enough
  for as many scans as the queue holds (24 of 20 ms); the last year fits into the
  16 bits of a year.

### What is proved, and along which argument

| Theorem (module) | States | Argument |
|---|---|---|
| `ReceiverTypes`, `BufferSafety`, `OverflowSafety`, `ReceiverRefinement` (`Learning_proofs`) | `TypeOK`, `MarkWriteInBounds`, `OverflowReport`, `ReceiverPromise` | parity: in `MARK` the length is odd, in `SPACE` and `STOP` even, so that the check at `SPACE` also covers the write at `MARK`; the overflow flag is only set in `STOP` or left over in `IDLE` |
| `TypeCorrect`, `HandlerDataSafety`, `SchedulerRefinement` (`AppScheduler_proofs`) | `TypeOK`, `HandlerDataStable`, `QueuePromise` | a claimed entry lies in the occupied part of the ring and is claimed once; read from start to end, with what a preempted put is about to write in the place of what is there, the ring is the abstract queue |
| `SessionTypes`, `SignalFreshness`, `FailureIsFinal` (`Learning_proofs`) | `TypeOK`, `StoredSignalIsFresh`, `NoSuccessAfterFail` | whatever holds a frame or its signal got it from one that began after the last command; a receiver closed after a signal reopens before the request's time is up, so that after a FAIL nothing is under way |
| `TypeCorrect`, `ErasedBeforeWritten`, `DurableSaves`, `CodesSurvive`, `TriggersSurvive` (`IrStore_proofs`) | `TypeOK`, `WriteOnErased`, `SaveIsDurable`, `RestartKeepsCodes`, `RestartKeepsTriggers` | until something fails, a write waits only as the last of the queue, its page is erased or its erase waits before it, and a page with nothing waiting holds what its table holds |
| `UniqueIDs`, `TriggersAsSent`, `InOrder` (`TriggerCommands_proofs`) | `IDsAreUnique`, `TriggerIsAsSent`, `CommandsInOrder` | a queued command not marked as overtaken is of the type that is set; while one is in hand the table does not change; the commands that wait lead from the IDs in the table to those wanted; a sensitivity is known by the write that sent it |
| `NoneIsMissed`, `OnlyTheDueRing` (`Clock_proofs`) | `NoAlarmMissed`, `OnlyDueRings` | what the minute owes is due by the table, and once looked for either put or excused; `uuPreMinutes` is the minute exactly when the triggers have been looked through |
| `SensingsPutTheirGrade`, `WindowsByTheMinute`, `TimeoutsByTheQuiet` (`Clock_proofs`) | `SensingPutsItsGrade`, `WindowPassedOver`, `TimesOutOncePerQuiet` | what the three interrupts leave to each other: the count is cleared while the sensor is ignored, the quiet time before a sensing is forgotten since a sensing is longer than a second, what has gone off since the last motion is marked as done |
| `ClockKeepsPace` (`Clock_proofs`) | `ClockKeepsTime` | while the main loop keeps up, at most one second waits, and the scans put in the meantime leave it room |
| `CalendarIsRight` (`Clock_proofs`) | `CalendarIsGregorian` | a date's number is a sum of quotients of its year and month; the walk adds one to it through every kind of year; each division of the conversions leaves a remainder proved to be in range |
| `Agreement`, `ResetsAreLateOrRefused` (`Panel_proofs`) | `AgreesWithStack`, `ResetOnlyLateOrRefused` | what the program believes is what the SoftDevice knows less what the waiting events will tell: the begin of a link can only be the first of them and its end the last |
| `HoldsErase` (`Panel_proofs`) | `HoldErasesOnce` | a flag was set in this pass by the key that is seen; having erased, the counter is past three seconds until it wraps; a hold is at most three scans ahead of the counter |
| `PatternsPlayOut` (`Panel_proofs`) | `PatternPlaysOut` | what has flashed is what the handler has counted, but for the flash that was lost to the replaced pattern; a byte the main loop writes back without `CONTROL` was read after the tick that ended the pattern, and no other tick comes before it is stored |
| `TogglesAlternate` (`IrRelay_proofs`) | `NextPressToggles`, which holds the types | whatever is received, the decoder that takes it leaves words; what is emitted is the stored code with one toggle and then the other; and from the durations of a biphase frame its levels can be told, hence the word |
| `FramesAreRead` (`IrRelay_proofs`) | `FrameReadByItsDecoder`, for keys of protocols with a name | see below |
| `RepeatsMeanTheSame` (`IrEmission_proofs`) | `RepeatMeansTheSame`, the half of `EmitsTheKey` about the repeat | each protocol is sent as a frame that its own decoder reads, followed by that frame again or by one that stands for the code before it |
| `KeysAreEmitted` (`IrEmission_proofs`) | `EmitsTheKey`, for genuine keys | protocol by protocol the sender's word is the inverse of the decoder's, but for the codes that are `Lossy`; see below |
| `HeldKeysAreRead`, `HeldRemoteIsRead` (`IrEmission_proofs`) | `HeldKeyIsTheKey`, for genuine keys | the frame of a held key is read as the code before it, whether it is a short repeat, a frame without a header, an inverted frame or the frame again |

`FramesAreRead` is about fourteen decoders in their order and every word of each
protocol.  A frame is followed from its edges to the ticks (a mark of d microseconds
becomes a number of ticks within d - 40 to d + 100 microseconds, a space within
d - 100 to d + 40), and each decoder that is tried before the frame's own is shown to
refuse these ticks: most by the number of entries or the first mark, RC5 and RC6
because a mark or a space in the frame is too long for them or comes at a place where
they want a change of level.  For RC5 and RC6 themselves the frame is the runs of equal levels,
each run becomes one entry, and the intervals that `getBiphaselevel` takes out of
the entry are the units of that run; so the decoder sees the levels that were sent.
`Known` says that each of the key's frames is one of its protocol: any word, put on the
air with the protocol's timings.  All keys of the run satisfy it but those
of unknown protocols (`PULSE_DISTANCE`, `PULSE_WIDTH`): whether an earlier decoder takes
a frame of unknown timings depends on these timings.

`KeysAreEmitted` goes on from there to the other end of the device.  A frame of a key
carries a word; the decoder takes it apart into an address and a command of 16 bits,
what does not fit being cut off or, if it is a check, left out; the sender builds a
word of them anew, with its own checksums and complements, and the theorem is that
this is the same word, hence the same frame, duration for duration.  `GoodInv` says of
the stored code what is needed: sent with either toggle bit it is a frame of the key,
unless what was read of the first frame is `Lossy`, and while the key is still held its
next frame will be read as the same address and command.  `Genuine` says which keys are
meant: their frames have the protocol's timings and any word that the protocol's own
checks allow (the command and its complement of FAST, Bose and Samsung of 48 bits, the
checksums of LG, Lego and MagiQuest, the vendor parity of Kaseikyo), their held
frames are those that the protocol prescribes, and Denon's inverted frame and JVC's
headerless one come within the time the decoders allow.  All keys of the run satisfy
it but, again, those of unknown protocols.  For Whynter and for Kaseikyo of an unknown
vendor the theorem says nothing: there is no sender, and the code is `Lossy`.

The invariants stand, part by part and named, before the lemmas that use them.
None of the properties is inductive by itself: each speaks of the moment when
something is done with, and the strengthening says what is true on the way there.
`Clock_proofs` and `Panel_proofs` prove about each machine by its own specification,
and then that these specifications follow from that of the composition.

Three things the proofs found that the runs had not.  The guards of a case
distinction in `IrStore` overlapped.  A timeout trigger of zero seconds goes off
every second, which the first statement of `TimesOutOncePerQuiet` denied and no
trigger of the run had shown; the run has one now.  An excuse of `OnlyDueRings` (a
trigger being copied) was never needed, for the interrupt compares what the table
says at that moment; it is gone.

### What is only model-checked

* Liveness: `FrameGivenBack`, `LearnAnswered`, `ScanStops`, `EraseServed`, `HeadIsHandled`,
  `SaveEnds` and `PanelGoesOn` rest on fairness, about which the installed provers do
  not reason (`ENABLED`).
* `IrRelay`: `FrameReadByItsDecoder`, `EmitsTheKey` and `HeldKeyIsTheKey` for the keys of
  unknown protocols.  Their timings are measured, and what is emitted is within a
  fourth of them; whether a decoder of a named protocol takes such a frame first, and
  which durations the measurement rounds together, depends on the timings.

What a recursive definition computes is out of the provers' reach when stated by an
induction over an operator; in `IrRelay_proofs` an induction over a set of numbers
(`Climb`, from the least element of what is left out) takes its place.

## 5. Plan

Nothing is left of the plan.  What could be added is a condition on the timings of an
unknown protocol under which no decoder takes its frames, and with it the theorems
about `IrRelay` for such keys.

## 6. Not modelled

* Board set-up and the hardware tests: writes to registers, no state of their own.
* The vendor's BLE services (`ble_bas`, `ble_dis`) and the internals of the
  SoftDevice, which is a binary.  What the program relies on of it is modelled where
  it is used.
* Logging.
* The carrier of a mark and the pauses between frames of an emission: analogue
  timing by busy waiting.
* In the codecs, flags that nobody reads, the hash of a frame that no decoder
  knows, and senders that nothing calls.
* The GATT table, built once in a straight line at the start.

Nearly all lines of the repository are the vendor's SDK: register definitions of
chips this program does not run on, drivers, libraries that are not linked.  The
map covers the program's own code and the three libraries named above.
