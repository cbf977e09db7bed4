# crossxtch in TLA+

A verification development for **crossxtch**, the XTCH reader firmware for the Xteink X3 and X4 (ESP32-C3, e-ink, SD card). It holds TLA+ models of the parts of the firmware whose correctness depends on *order*: which step comes before which, what fails in between, and who remembers what. TLC checks the models on small instances, and TLAPS proves the central properties for every value of the constants. Paths below are relative to the repository (`src/core/...`, `lib/...`).

- [1. The system](#1-the-system)
- [2. Modules](#2-modules)
- [3. The models and the code](#3-the-models-and-the-code)
- [4. What the runs check](#4-what-the-runs-check)
- [5. Fairness](#5-fairness)
- [6. What is proved](#6-what-is-proved)
- [7. Divergences found](#7-divergences-found)
- [8. Not modelled](#8-not-modelled)
- [9. Plan](#9-plan)
- [10. Running it](#10-running-it)

## 1. The system

One Arduino task runs everything. `setup()` mounts the card, loads the settings and chooses the root screen; `loop()` then ticks for ever: take a key snapshot, apply the power policy, run the current screen, draw if asked. There is no second task and no interrupt handler with state of its own. The hard behaviour comes from elsewhere:

- a panel refresh blocks the tick for up to seconds, and **polls the keys while it waits** (`MappedInput::busyWaitPoll`), so keys are seen by two kinds of snapshot;
- **every allocation may fail** (`makeUniqueNoThrow`, `malloc`), and every operation on the card may fail or stop short;
- **power goes at any time**, and deep sleep and Wi-Fi both end in a restart: only the card, the flash and the panel image survive;
- screens hold **C++ references to screens below them**, and navigation goes through one overwritten slot applied later in the tick;
- caches (a prefetched page, a window on the page table, remembered clusters, the display controller's old image) must agree with what they cache on every error path.

### Inventory

| Component | State it keeps | Operations | Interacts with | What is hard | What makes it correct |
| --- | --- | --- | --- | --- | --- |
| Screen stack (`core/ScreenManager`, `core/Screen`) | current, covered stack, one pending request, dirty | push, pop(1/2), replace, apply, draw | every screen; `WifiSession` | requests overwrite each other; a push finds no memory; a pop of two levels; a restart in `onExit` | references stay live; the visible screen gets the keys; nothing covered is lost |
| Screens (`screens/*`) | their list, cursor, small state machine | `onEnter`, `onResume`, `loop`, `draw`, `onExit` | stack, `Settings`, `XtchBook`, `WifiManager` | coming back fresh after a child; leaving in every state | what runs was entered and refreshed |
| Main loop and power (`main.cpp`, `core/Power`) | wake press, latched power-off, gyro lock, activity time | tick steps, deep sleep, toggle | `MappedInput`, screens, `HalGPIO` | the press that wakes the device; a hold inside a refresh; a marker painted mid-tick | the wake press never sleeps or toggles; a hold always powers off |
| Key mapping (`core/MappedInput`) | queued forward and back taps, latched Confirm/Back | `update`, `busyWaitPoll`, two delta functions | refreshes, screens | two observers of one release, four key layouts | one release moves one step, in its own direction |
| Firmware update (`core/SdUpdate`, `UpdateScreen`) | two app partitions, two otadata sectors | inspect, erase, write, switch boot sector | flash, bootloader | power loss at any step; blocks larger than chunks; fallback boots | a whole image always boots; success means the new one |
| File server (`network/FileTransferServer`, `FileTransferScreen`) | `UploadState`, write buffer, card | upload, delete, rename, move, mkdir, list, download | card, `BookCache`, Wi-Fi | a peer that leaves; short writes; a deletion that stops half way | success means the whole book; no remains of a cut one |
| Sidecars (`core/BookCache`) | `/.crossxtch/p_*.bin`, `c_*.bin`, `settings.lastBookPath` | `removeFor` | file server, reader, Home | the path is the only key | a position is found only by its own book |
| Reader and XTCH (`ReaderScreen`, `lib/Xtch`) | page, refresh count, position file, page buffer, table window, cluster cache, pending resync | open, turn, jump, draw, prefetch, save | card, heap, display, lock marker | each load can fail in ten places; the resync is deferred to a later tick | the page drawn is the page asked for |
| Wi-Fi list, join, password (`WifiListScreen`, `KeyboardScreen`, `WifiManager`) | scan list, attempt, entered password | scan, connect, poll, abort | credential store, radio | a late status; automatic and manual attempts | only joined passwords are saved; attempts end |
| Credential store (`WifiCredentialStore`) | five slots, eviction index, last network | add/update, remove, save | Wi-Fi screens, card | eviction with holes; a torn file | no duplicates; the file is what memory holds |
| Clock (`ClockSync`, `HalClock`) | RTC, last NTP month, time zone | sync on connect, zone by hand, format | settings, RTC, network, file server | a partial success; an RTC that stops; a power cut at the save | NTP is not asked again in a month it answered in, as long as the RTC and the file say so; a zone set by hand stays; the time shown is local time |
| Settings (`core/Settings`) | one struct on the card | load (with migration), save | everything | a torn file, an older layout, bytes out of range | every field in range after a load; nothing unsaved between saves |
| System and log (`HalSystem`, `Logging`) | panic capture and log ring in RTC memory | capture, begin, check, log | every reset, card | a crash at any point of the boot; garbage after a power-on | a captured crash is kept until told, and not told again once it is marked; the log is the last lines |
| Tilt sensor (`HalTiltSensor`) | awake, in a flick, two pending events, activity | `update`, stand by, ask and consume, clear | tick, reader, gyro lock | an event made in one tick and consumed in a later one; an IMU that refuses | a flick turns one page, of the visit it was made in |
| CPU clock (`HalPowerManager`) | low or normal, one lock | save power, lock, battery | tick, `render`, Wi-Fi | the clock is lowered by one owner and restored by four others | low only while the reader waits |
| Other HALs (`lib/hal`) | wake reason, front light, card | thin wrappers | hardware | a wake that is not one | — |
| Drawing, fonts, text (`lib/Gfx`, `lib/EpdFont`, `lib/Utf8`, `core/UiText`, `core/UiList.h`) | frame buffer | pure drawing | screens | window arithmetic, decoding at boundaries | the selection is visible, decoding ends |
| Display and drivers (`lib/hal/HalDisplay`, `lib/EInkDisplay`) | two planes of controller RAM, the glass, flags that say what may be trusted | refresh modes, gray planes, resync, inversion | reader, every screen, deep sleep | a refresh is a *difference* from what the controller believes is shown; gray planes overwrite that belief; two drivers with different rules | what was asked for is on the glass |

Each hazard of the code that an ordinary test would hardly reach is listed, at its line, under `hazards` in `PROJECT.json`, with the properties that cover it or the reason none does.

## 2. Modules

| Module | Models | Composed with |
| --- | --- | --- |
| `ScreenManager` | the stack, and the navigation part of every screen's `loop()` | `MCScreenManager`, `ScreenManagerProofs` |
| `MainLoop` | one tick of `loop()` with `Power.cpp` and `MappedInput.cpp`, and the polls of a blocking refresh | `MCMainLoop`, `MainLoopProofs`, extended by `Device` |
| `TiltSensor` | `HalTiltSensor.cpp`: the gesture machine and its pending events | extended by `Device` |
| `CpuClock` | `HalPowerManager.cpp`: power saving and its lock | extended by `Device` |
| `Device` | `MainLoop`'s tick with the sensor and the clock it drives | `MCDevice`, `MainLoopProofs` |
| `SdUpdate` | `flash()` and `switchBoot()` with the power failing anywhere, begun with any file that `inspect()` accepts | `MCSdUpdate`, `SdUpdateProofs` |
| `FirmwareImage` | `inspect()`: which files it lets through to `flash()`, with offsets that wrap | extended by `SdUpdate` |
| `AtomicUpdate` | what an update promises: one image is replaced by another in one step, or not at all | refined by `SdUpdate`, `SdUpdateProofs` |
| `FileTransfer` | the file server, `BookCache::removeFor`, and the reader's visits that leave sidecars behind | `MCFileTransfer`, `FileTransferProofs` |
| `Bookshelf` | what books on the card promise: a book and what is remembered of it come and go as one | refined by `FileTransfer`, `FileTransferProofs` |
| `Reader` | `ReaderScreen` with `XtchBook`'s caches, the deferred resync and the position file | extended by `ReaderPanel` |
| `EInk` | one pixel: its tones, the waveforms, the state of a driver | extended by the next three |
| `Ssd1677`, `Uc8253` | the drivers of the X4's and the X3's panel | instances in `FreeInkDisplay` |
| `FreeInkDisplay` | the display facade: inversion, gray planes, resync, over the driver of the board | extended by `ReaderPanel` |
| `ReaderPanel` | `Reader` with every call it makes on the display, the other screens' paints, night mode and deep sleep | `MCReader`, `ReaderProofs` |
| `XtchFormat` | the chapter table of a book: what the parser lets through, where the list opens, where a page jump goes | extended by `Reader` |
| `Keychain` | what the password store promises: a table of one password per network, changed in single steps, and the network joined last | refined by `WifiJoin`, `WifiJoinProofs` |
| `WifiJoin` | `WifiListScreen`, `KeyboardScreen`, `WifiManager` and the credential store with its file | `MCWifiJoin`, `WifiJoinProofs` |
| `TimeZone` | the zone byte: rounding of an offset, the two answers of the services, the local time | extended by `Settings` |
| `Settings` | the settings struct, what `load()` takes, fills in and corrects | extended by `ClockSync` |
| `ClockSync` | `onWifiConnected()`, the zone set by hand, the RTC and the settings file | `MCClockSync`, `ClockSyncProofs` |
| `CrashReport` | `HalSystem` and `Logging`: the capture and the ring in RTC memory, the boots after a crash | `MCCrashReport`, `CrashReportProofs` |

`FileTransfer` composes three components that share the card: the server, the sidecar code and the reader (reduced to the visit that writes a sidecar and the last book). `WifiJoin` composes two screens, the radio wrapper and the store. `ClockSync` composes the settings and their file, the settings screens, the connect and the page's handler. `CrashReport` composes the panic hooks, the log and `setup()`. `ScreenManager` composes the stack with all fourteen screen classes. `Device` composes `MainLoop` with `TiltSensor` and `CpuClock`: each of its actions is one of `MainLoop`'s, conjoined with the calls the same code makes on the sensor and the clock. `ReaderPanel` does the same for `Reader` and the display. The models of the loop, the stack and the reader overlap at one interface each: `MainLoop` reduces screens to "Reader", "List", "Busy"; `ScreenManager` reduces the tick to apply, run, apply, draw; `Reader` reduces other screens to "other" and "child".

Every module declares its parameters as CONSTANTS with named, minimal ASSUMEs, has one action per operation and no RECURSIVE operator. Definitions commented `Mutant:` are not used by any specification. Each is a wrong version of the definition below it, kept to show that a property notices.

## 3. The models and the code

### ScreenManager

`pc` cuts one call of `ScreenManager::loop()` at its calls: `tick` (between calls) → `applyBefore` → `run` → `applyAfter` → `draw`. A screen is a record: class, identity (heap address), the identity of the screen it holds a reference to, and what its own state machine remembers. `pending`, `action`, `levels` are the single request slot.

| Action | Code |
| --- | --- |
| `Boot` | end of `setup()` (`main.cpp`): language, recovery picker, Home, or the last book; each may find no memory |
| `LoopStarts`, `Draw` | `ScreenManager::loop()` |
| `ApplyPop`, `ApplyPopRoot`, `ApplyEntry`, `Applied` | `applyPending()`, one action per trip of its `while` |
| `ApplyExitRestarts` | an `onExit()` that ends a Wi-Fi session and restarts the chip |
| `HomeLoop` … `TransferLoop` | each screen's `loop()`: every request it can make, on every branch, with every push able to fail |
| `DeepSleep` | `power::maybeSleep()` between two calls |

Addresses are reused as soon as nothing alive has or refers to them, as a heap does, so a dangling reference would be caught as a reference to the wrong screen, not only to none.

### MainLoop

`pc` cuts a tick at the steps of `loop()`: `update`, `wake` (`consumeWakeRelease`), `activity` (`noteUserActivity`), `sleep` (`maybeSleep`), `toggle` (`maybeToggleTiltLock`), `screens`, `draw`; `paint` is a blocking refresh, and `after` the place it returns to. The user (`Press`, `Release`, `HoldPower`, `TimePasses`) acts before the tick's own snapshot and inside refreshes; between two snapshots any number of keys may change. `Poll` is `busyWaitPoll` with `pollForHold`. `Update` keeps the short circuit of `MappedInput::update()`: with a release of Confirm or Back in this very snapshot, the taps queued for that key are not consumed and latch in the next tick (`TapsAfter`).

Abstracted: time is three facts (`held`, `allowed`, `idle`), as the code asks only whether thresholds have passed; the debouncer; the tilt gesture, which may turn a page at any time here (`Device` says when). `wanted`, `press` and `cause` are history variables: what queued taps meant when they were made, whether the current press is the waking one, and why the device went to sleep.

### TiltSensor, CpuClock, Device

`TiltSensor` has the members of `HalTiltSensor` under their names, without the underscore; of a gyro reading only its range of speed is kept, of time only whether the two delays have passed. `Sample` is the state machine of `update()`; `ConsumeTilt` keeps the short circuit of `wasTiltedForward() || wasTiltedBack()`, which leaves a backward event for the next tick. With `ImuFails` the IMU may refuse to wake and to stand by. `spent`, `due` and `refused` are history: whether the flick under way has triggered, which flicks of this visit to the reader have no turn yet, and whether a refused standby left an event behind.

`CpuClock` is one flag and one lock. `Device` puts both into the tick: `DeviceActivity` asks `hadActivity()` only if no key was seen, `DeviceSleep` and `DeviceToggle` stand the sensor by before the marker is painted, `DeviceScreen` consumes an event where the reader turns pages and drops it where the reader is left, `DeviceDraw` and `DevicePaintEnds` hold the `Lock` of `render()` across the refresh, and `IdleDelay` ends the tick.

### SdUpdate

Two partitions of chunks, two otadata sectors reduced to their sequence number while it counts. `EraseBlock`, `WriteChunk`, `ImageWritten`, `EraseSector`, `WriteSector` are the steps of `flash()` and `switchBoot()`; `FlashFails` and `SwitchFails` are every error return, leaving anything in the range given to the failing operation; `Reboot` is a power cut between or inside any of them. NOR flash is modelled as it is: writing on what was not erased gives a bad chunk. The card holds files, images or not, each with a number, and `Start` flashes any that `Accepts` (`FirmwareImage`, the whole of `inspect()`) lets through: `Images`, the files the bootloader would start, is a definition the flashing code does not know. The bootloader is not in the repository: `BootSlot` is what `switchBoot()` relies on.

`SdUpdate` takes the image as accepted; `FirmwareImage` says of what files `inspect()` accepts. A file is its size and what is read from it: `SegmentsEnd` is the loop over the segments with the check that wraps at `Word` (2^32) and the reads that fail past the end, `PadEnd` the padding with its checksum byte, `HeaderAccepted` the tests before them. `WholeImage` is the image format itself, computed in another way. `MCSdUpdate` puts the two together: when `flash()` starts, the file it was given is accepted, and of every file damaged from it `inspect()` accepts exactly those that are again an image for this device.

### FileTransfer

Paths are folder × name; a file is the book it holds and the bytes written of it; `side` is the book whose reading position is filed under a path; `last` is `settings.lastBookPath`. `pc` is where the one request being served has got to: `body` (an upload receiving), `delete` (`deleteDirContents` with its list), `drop` and `forget` (the two halves of `BookCache::removeFor`), `answer`. Uploads keep their real buffering: `room`, `filled`, `Due`, `Left` follow `handleUploadChunk` byte by byte, with and without a buffer.

`Trouble` names what may go wrong: `power` (a cut at any step of a request), `peer` (the client leaves), `short` (short writes, files that do not open, a final flush or close that fails, and saves that do), `stuck` (the card refuses to remove), `folders` (folders are renamed).

Three calls fail without the code noticing, and the model lets them: the flush and close that end an upload (`Close`; the answer is still "uploaded successfully"), the removal of a sidecar (`DropSidecars`; `removeFor()` goes on), and the saves of the settings and of the position. `spoilt` and `stale` are history that remembers the first two: an upload whose close failed, until it is answered, and the paths where a sidecar was refused, until it is written anew or goes. The properties name them as their exceptions, so that what is claimed is exactly what the code gives.

`Unit`, `Shelf` and `Continued` are the refinement mapping to `Bookshelf`. A book counts from the end of its upload on, and what is remembered of it is gone from the moment the request has removed it, although its sidecar and the settings follow later. A sidecar in `stale` is not on the shelf either. Nothing else is hidden: any other sidecar without its book, or a last book that is not there, is on the shelf as well, and breaks the refinement.

### Reader

A load is written as the **set of its outcomes**: each seek, read, reopen, refill and allocation of `loadPageData` either goes on or leaves behind exactly what the code leaves behind. `cache` is `XtchBook`: the buffer and its capacity, the page recorded as loaded, the table window, the cluster slots. `fb`, `bank` and `panel` are the frame buffer, the controller's old-image bank and the glass; `pending` is the resync left for a later tick (`flushPendingCleanup`). The book's file is any of `Books`, so the chapters it offers are what `Chapters` (`XtchFormat`) makes of some chapter table, and `LeaveChild` comes back with a row of the list or a typed number, which `jumpToPage` refuses outside the book. `until` is `pagesUntilFull`; `fast` counts the pages drawn since the last clean refresh.

`Trouble` here is `card`, `memory`, `power`, and `save` (a position save that fails). The code ignores a failing save, so the position cannot survive it: no run includes `save`, and `PositionKept` holds only without it. `LoadProgress` is `loadProgress()` with a file that does not open or is read short: the code takes it for none and opens at page 0, which the next save then writes over the position. `left` and `misread` are history: the page last saved, and whether the file was not read on this opening.

### EInk, Ssd1677, Uc8253, FreeInkDisplay, ReaderPanel

Every operation of the display library treats all pixels alike, so the model has **one pixel with arbitrary contents**. Its tone on the glass is one of four. The controller's RAM has two planes: `old` is what the controller takes to be shown, `new` the frame. What a waveform does to the ink is hardware: `Driven` (a differential refresh leaves a pixel alone where `old` equals `new`) and `Nudged` (the gray waveform moves what is in a plane) are external.

A driver is a set of operators on the record `Epd`, whose fields are the driver's flags. They differ as the drivers do. The SSD1677 makes its first refresh absolute, and any fast one that finds gray planes in the RAM. The UC8253 refuses to be fast while its old plane is not known to be the glass (`Unsure`), and goes back to white when it finds gray on the glass (`GrayscaleRevert`). `FreeInkDisplay` chooses between these two drivers (newer panel batches have others: section 8), inverts the frame in night mode, and then leaves the gray planes out. Modelled are the calls the firmware makes. Asynchronous and windowed refreshes, factory looks and turning the panel off are in the library and used by nobody. `HalDisplay`'s resync before a `HALF` gray base is not reached, because `combinesGrayscaleBase()` is false for both drivers.

`ReaderPanel` adds to each action of `Reader` what the same code does to the display: `PanelFlush` in every tick of the reader, `DrawsPage` (base, gray planes, marker) with any tone in the pixel, `Marks` (the corner dots of the gyro lock), `PanelDrawOther`. New are the actions that `Reader` need not know: `OtherPaints` (any other frame, half or fast), `NightMode`, and `SleepsWhite` (deep sleep outside the reader). `PowerLost` restarts the driver and keeps the glass, so a start finds any image of the last session on the panel. `asked` is history: the tone last requested; `flashed`: whether a refresh that was to be fast drove every pixel.

### XtchFormat

Operators: what `readChapters()` makes of a chapter table (its availability, the end given by whichever table follows, the number of rows, the three ways the loop ends, the pages counted from 1 with 0 as a synonym of 1, the clamp), the row at which the chapter list opens, and the page a typed number leads to. `PagesOf` is what a row *says*, written without them. The offsets of a header are as the file gives them; the header's own refusals are an open that fails in `Reader`.

### WifiJoin

The state is `WifiListScreen`'s members under their own names (`found` is `networks`, `skip` is `skipAutoJoin`, `auto` is `autoConnecting`), the store's slots, eviction index and last network, and `file`, what `wifi.bin` holds. `loop()` is one action per branch: `Scan` (with Confirm possible in the tick that ends the scan), `Choose`, `Interrupt`, `PollJoined`, `PollFails`, `BackToList`, `ClearPassword`. `goToFileTransfer` saves twice before it pushes, so it is three actions (`PollJoined`, `AddOrUpdate`, `SetLastConnected`) with the power able to go between and inside the saves. The keyboard is `EnterPassword` and `CancelPassword`. The radio is external: it joins only with what the access point asks for, may refuse or lose an attempt at any time, and is not joined after `disconnect()`. Access points change what they ask for between sessions, so a saved network may be open or have another password.

`Keys` is the refinement mapping to `Keychain`: each network with the password `find()` returns for it. Slots and their order, holes, the victim's index and the file are hidden. The two saves of a connection are `Learn` (or `Replace`, of the victim of a full table) and `Join`; a removal is `Forget`; a restart that finds a torn file is `LoseAll`, every other one changes nothing.

`Trouble` is `power`, `memory` (a keyboard or transfer screen that cannot be allocated) and `card` (a save that fails). A failing save is not reported by the code, so memory and file part ways: `card` is in no run, and the theorems that need it absent say so.

### TimeZone, Settings, ClockSync

`TimeZone` and `Settings` are operators: `Biased`, `OffsetOf` and `LocalMinutes` divide towards zero, as C++ does; `Load` is `Accepted`, then `Migrated`, then `Corrected`, as in `Settings::load()`. A file is a record of the struct's fields, an older layout one with a lower `version`. The two `ntpSync` fields are one count of months; `nightMode`, `tiltPageTurn`, `refreshEveryNPages` and `fontFile` are taken from any file as they are, and left out; `lastBookPath` is in `FileTransfer`.

In `ClockSync` a session goes from `Boot` (the load in `setup()`) over the settings screens (`SetOption`) to one `Connect` (`onWifiConnected()`, called once when the transfer screen opens) and the page served after it (`SetZone` is `handleTimezone()`), until the restart. Every handler changes the struct and then saves it: `saving` marks the time in between, where `PowerGoes` may leave the old file, the new one, or a truncated one. `Connect` has every combination of a reading of the RTC before the request (`read`; without it `NtpDue` has nothing to compare, and NTP is asked), an NTP answer, a read-back that fails (`noted`) and a lookup that answers. Time is counted in months, as the code does: `MonthPasses` is the calendar and the RTC; `RtcStops` raises the flag that makes `nowUtc()` fail; a board without an RTC reads `Absent`.

`chosen`, `asked`, `memo`, `ntp`, `unread` and `reported` are history: the zone set by hand that the file holds, the true month of the last NTP answer, where that month is noted (in memory, in the file, or nowhere), whether the server answered in this session, whether the RTC was not read before the request, and the offset a service reported. `asked` and `memo` are kept apart from the settings: an answer whose month is never noted is an answer all the same.

`Trouble` is `power` (a save that is cut), `rtc` (a reading of the RTC that fails, before the request or after it) and `card` (a save that fails). `save()` does not tell its caller, so `card` is in no run, and the theorems that need it absent say so.

### CrashReport

What is in RTC memory: the ring (`logMessages`, `logHead`, `logMagic`), the capture (`message`, `stack`, `marker`) and `cause`, the reset reason. `pc` is how far `setup()` has got, and a crash (`Panic`), any other reset (`Restart`) or a loss of power (`PowerOn`, which leaves garbage) may come at any point, also before `Begin`, between `Begin` and `CheckPanic`, and between the close of the report and the clearing of the marker: `CheckPanic` writes and closes, `Consume` clears. `Log` may run at any time after `Begin`, so boot lines mix into the ring. Crashes are numbered, and a message or stack is the number of the crash that wrote it: what the report shows can be traced to its crash.

`close()` may fail after a write that took everything; the code looks only at the write, so the report is lost and the marker goes.

`crashes`, `owed`, `told`, `dropped`, `unmarked` and `said` are history: the crashes so far, the one whose report is due, the last one told, the one whose report was lost on closing it, the one a reset kept from being marked after its report, and the last lines logged. That garbage should happen to spell the 32-bit marker or magic is left out.

## 4. What the runs check

| Run | Shows | Instance |
| --- | --- | --- |
| `screens` | whatever is requested, popped by one or two levels, or finds no memory: references point to live screens of the right class, the panel shows the screen that gets the keys, the reader's page buffer is never used while lent to Wi-Fi, what runs was refreshed | 12 addresses |
| `keys_x4` | without side buttons, every release moves a list or turns pages as pressed, whoever saw it; a hold seen in a refresh always ends in sleep | Power, Up, Down; one tap per direction in one refresh |
| `power` | the tick with its sensor and clock: the waking press neither sleeps nor toggles; a flick turns one page, in the visit it was made in and never after the lock was set; the low clock never outlives the reader | Power, Confirm; gyro, an IMU that may refuse; side buttons |
| `flash` | whatever fails, a whole image boots; a success boots the image that was written, whatever files the card holds | 5 chunks of 16 bytes, blocks of 2; images of 3, 5 and 6 chunks, and some seventy damaged ones |
| `flash_atomic` | `SdUpdate` implements `AtomicUpdate` | the same |
| `books` | positions and sidecars go with their book, also when the card refuses a removal half way, but for a sidecar it refuses to remove; a refused removal costs no position; the server and the reader implement `Bookshelf` | 2 folders, 2 names, 2 books |
| `uploads` | with the peer, the card and the power failing: success is reported only of a whole book, a file that was open is closed whole or removed, both unless the last flush or close fails; every request ends | 3 folders, books of 3 bytes, buffer of 2 |
| `pages` | the page drawn is the page asked for; window and buffer agree with the book; on the SSD1677 and the UC8253 the glass shows what was asked for, and nothing flashes that was to be fast; ghosting is bounded; the book opens at the page last saved, or at the first where the position file was cut short or could not be read; chapters and page jumps lead into the book | 4 pages, window 3, 2 slots, clean every 3; both panels, any glass at the start |
| `wifi` | a password is saved only as one the radio has just joined with, for that network; none is lost or comes back; the store implements `Keychain`; automatic attempts stop when interrupted; every attempt ends | 3 networks, 2 slots, one password or none |
| `clock` | settings in range whatever file is loaded; the zone set by hand is never looked up over; between saves the file is what memory holds; local time right to half a quarter hour; NTP answers once a month, but where the RTC was not read, the read-back failed or the save was lost | 3 months, files of versions 2 to 10, 5 offsets, 2 zones |
| `crash` | a captured crash is kept until it is told or its report is lost by a failing close; it is told again only after a reset between report and mark; the log in a report is the last lines, in order | 3 crashes, ring of 3 lines, 2 lines |
| `stale_name` | a violation, see [section 7](#7-divergences-found) | 1 name, 2 books |

**Why the bounds are enough.**

- `screens`: the deepest path the screens can build has five screens (Home, Browser, Reader, Chapters, PageJump), and the state space closes by itself. Twelve addresses are more than can be alive plus the one on the panel and those referred to, so none runs out.
- `MainLoop`: taps of one refresh only add up, so one per direction already separates "kept", "dropped", "counted twice" and "reversed" (queues of any length are covered by the proofs). Paging keys and latched keys feed different counters, so a run takes one kind with Power.
- `SdUpdate`: the partition is not a multiple of the block, one image ends inside a block, one fills the partition, one does not fit. Sequence numbers up to 4 go through both parities from every pair of sectors, good or bad. Every size and number is covered by the proofs.
- `FileTransfer`: a book larger than the buffer and not a multiple of it, chunks of one and two bytes, so that the buffer fills exactly, overflows, and is left partly full. Two names in two folders allow a move within a folder, between folders and onto a taken name. In `uploads` two folders besides the root let a folder take another's old name. `books` uses a write-through buffer, as buffering is the other run's subject.
- `Reader`: the window (three rows of four) is smaller than the book and has one row of lookbehind, so it moves, is clipped at both ends, and is refilled; two slots overflow with the third page, and moving a slot from the back differs from a no-op; jumps of two leave the prefetched page unused. Pages have two sizes, so the buffer must grow with a page in it.
- `ReaderPanel`: one pixel is every pixel, as said above; it takes all four tones, both polarities and both boards. A clean page, two fast ones and the marker on any of them make every order of gray planes, resyncs and refreshes that the reader can ask for, with other screens, a change of polarity, deep sleep and a power cut between any two.
- `XtchFormat`: every row of first and last page up to two past the book, named and not, alone and in a table of three rows and unused ones, behind every kind of following table, with every offset at and around its limit.
- `Device`: as `MainLoop`; a flick lasts as many readings as it likes, and may come at every point of the sensor's two delays. The keys Power and Back, which leave the reader by a latched Back, were run once by hand (2.3 million states) with the same result.
- `WifiJoin`: one more network than slots makes eviction happen, and the index wraps. Several passwords would only add ways to be refused, which may happen to any attempt anyway; that a password goes with its network is told apart by the network.
- `FirmwareImage`: offsets wrap at 256 rather than 2^32, with images of 48, 80 and 96 bytes, far enough from the wrap that only the lengths made to wrap do. The damages are: every part missing or too long by one, one block or one hash; segment lengths at the wrap; no segment, the most and one more; each verdict turned.
- `ClockSync`: versions on both sides of every change of layout and outside the accepted range, each field in and out of range; offsets east and west, two of whole quarter hours and two that round (20 and -44 minutes), and one no zone has; three months, so that an answered month can be over, be the current one, and be behind an RTC that stopped. The minutes 0, 29, 719 and 1439 lie on both sides of both midnights; every minute is covered by the same arithmetic.
- `CrashReport`: a ring of three lines is partly full, full, and wraps twice; with three crashes one can be told, one owed and one come on top of it.

CHECK_DEADLOCK is left on in every run: none of these systems stops.

## 5. Fairness

- `MainLoop!FairSpec` is `WF_vars(Loop)`: the loop task keeps running. The code justifies it: a refresh waits for BUSY with a timeout, and every handler returns. A refresh may end at any time, so polling cannot keep it going. Nothing is assumed of the user, who may never press or release anything; `HeldPowersOff` follows from the loop alone.
- `FileTransfer!FairSpec` is `WF_vars(Serve)`: `handleClient()` serves a request to its end before it returns, and a socket read that brings nothing times out, which is `AbortUpload`. Nothing is assumed of the peer or of the order of requests.
- `WifiJoin!FairSpec` is `WF_vars(Poll) /\ WF_vars(TimePasses)`: `loop()` polls the attempt in every tick, the two saves are straight-line code, and `millis()` runs. Nothing is assumed of the radio or the user. `AttemptsEnd` allows one exception, which the code has: connected, but without the memory for the next screen, it tries again every tick.

Other specifications have no fairness: their properties are safety.

## 6. What is proved

All theorems hold for every value of the constants that satisfies the ASSUMEs of the module. `TLC` has checked the inductive invariants on the instances above before they were proved.

**`SdUpdateProofs`**: `TypeCorrect`, `UpdateNeverBricks` (`AlwaysBoots`), `SuccessBootsTheNewImage` (`DoneBootsNew`), `ErasedBeforeWritten` (`WrittenSoFar`: nothing is written unerased), `RunningImageIsKept` (`RunningIsKept`: the running image is untouched), for every partition size, block size, set of images and sequence bound. `AlwaysBoots` is not inductive: that some image boots says nothing about which. `IInv` adds that the *running* partition holds a whole image (nothing writes to it, and a reboot goes to a whole one), that the target fits, that the destination holds it from the end of the loop on, and that the sequence number chosen names the destination and beats the other sector. Lemmas `SlotsAlternate` and `NextSeqNamesDest` carry the arithmetic: a number's successor names the other partition, so one or two steps from the active number always name the destination.

`UpdateIsAtomic` proves the refinement `UpdatesAtomically` for the same constants, starting from a flash whose active sector names the running partition (`CleanInit`: what updates alone lead to; after a fallback boot the two differ, and a lost sector may then change what boots next). The abstract `boots` is the image the next boot runs (`BootVersion`, single-valued by `OneVersion`). `CleanInv` keeps sector and running partition in agreement until an update is done; with it every step leaves `boots` alone but one, the write of the new otadata sector, which is the abstract `Commit`.

`SuccessBootsTheNewImage` and `UpdateIsAtomic` speak of any set of files on the card, so they rest on `inspect()`: `AcceptedBoots` says that every file it accepts would be started by the bootloader. It follows from `InspectAcceptsImages`: for every size, every sequence of segments and every `Word`, `Accepts(f)` holds exactly when `f` is a whole image for the device of at least the minimum size. The loop over the segments and the sum that defines an image's size are recursive functions; that each exists and is unique is shown by taking the first place where it would fail (`SumsExist`, `SumsAgree`, `EndsAgree`). `SegmentFits` says why the check that wraps does no harm: what it lets through wrongly, the read behind it refuses.

**`MainLoopProofs`**: `TypeCorrect`, `WakePressIsSafe`, `WakeReleaseIsSafe`, `LatchedPowerOffIsKept` (`PowerOffIsKept`: a latched power-off is dropped by no step but falling asleep), `PowerOffIsNear` (it then takes at most nine steps of the loop, each of which leads on, and no step of anyone else takes one back: the safety half of `HeldPowersOff`) for every set of keys and board; `ListsMoveAsPressed`, `PagesTurnAsPressed` under `ASSUME ~EdgeSides, ~HasTilt` (with either, the code does otherwise: section 7). The heart of `IInv` is `WakePressSeen` (while the waking press lasts, every snapshot shows the key and nothing counts it as released), `WakeReleaseOnce` (its release is the current edge only in the tick that consumes it) and `PendingExcludesHold`. The tap theorems add that the queued counts agree with `wanted` and that a tick never sees a refresh's edges. `DeviceIsMainLoop`: every behaviour of `Device` is one of `MainLoop`, so these theorems hold of the composition. `LowClockStaysInReader` (`LowOnlyInReader`) and `FlicksTurnOnce` (`OnlyFlicksTurn`) are proved for every set of keys, with an IMU that fails or not.

**`ScreenManagerProofs`**: `TypeCorrect`, `NothingDangles` (`ReferencesAreLive`), `NothingIsDropped` (`ReplaceDropsNothing`), `KeysGoToWhatIsSeen` (`ShownIsCurrent`), `NoReaderWithoutScratch` (`ReaderHasScratch`) and `RunsWhatIsReady` (`RunningIsFresh`), for every set of addresses. Every screen's `loop()` is shown to have one of four shapes: it stays, pops, pushes or replaces; each invariant is then kept by the shapes and by the trips of `applyPending()`. `Inv` has nine parts: among them that the slot agrees with what was asked for and with `pc` (`SlotInv`), that a root is only ever at the bottom (`BottomInv`), that every reference is to a screen further down, of the class it needs (`RefInv`), and that the screen painted last is the one that ran (`PaintInv`).

**`ReaderProofs`**: `TypeCorrect`, `CachesAgreeWithBook` (`CachesAgree`), `ShowsWhatIsAsked` (`ShownIsAsked`), `ShowsTheBaseline` (`BaselineIsShown`, which no run repeats) and `CleansInTime` (`CleanEveryN`) for every book, window, slot count and trouble; `ReopensWhereLeft` (`PositionKept`) under `ASSUME "save" \notin Trouble` (`SavedInv`: the position file leads to the page last saved, or is torn). The argument is `Good`, a predicate of the caches alone (the page recorded as loaded is in the buffer, the window's rows are the table's, a remembered cluster is its page's), with one lemma per step of a load: every outcome of the step, success or failure, keeps `Good`.

`PanelIsReader` says that every behaviour of `ReaderPanel` is one of `Reader`, so the theorems above hold of the composition. `GlassIsRight` (`GlassShowsImage`) is proved for the SSD1677 and the UC8253 and every book. `GlassShowsImage` is not inductive: that the glass is right now says nothing of the next difference. `PanelInv` says in which of three states the panel is. *Fresh*: nothing has been painted, and the driver will make its first refresh absolute. *Settled*: the old plane agrees with the glass about what is white, and the driver trusts it. *Grayed*: gray planes are in the RAM, and then the reader's resync is still pending and the frame buffer holds the ink of what is shown. Each driver call has a lemma that takes one of these to another; the facade's lemmas join the two drivers; the actions of `ReaderPanel` are sequences of facade calls.

`ChaptersStayInBook` (`ChaptersInBook`) holds for every set of files a book may be. It rests on `ChaptersAreTheRows` and `ListOpensInBook`: for any offsets, counts, rows and any read that falls short, a list of chapters is made of exactly the rows read that name pages of the book, in their order, and the list and the page jump lead to pages there are. `PlainIsTable` says that a table of no more chapters than pages with the page table right behind it is taken for what it is, so the theorem is not about files whose chapters are all refused. The loop of `readChapters()` is a recursive function; `RoundsExist` and `RoundsList` show by a least counterexample that it can be run and what it has listed after each round (`Listed`).

**`FileTransferProofs`**: `TypeCorrect` and `ReportedUploadIsWhole` for every trouble (the latter with the two exceptions it names); `ProgressStaysWithBook`, `SidecarsFollowBooks`, `ContinueStaysWithBook` under `ASSUME Calm` (`Trouble \subseteq {"stuck"}`). `IInv` says that what was received is on the card or in the buffer (`Received`), that a failed upload buffers nothing (`Drained`), and that a good one stays whole until its answer unless its close failed (`Stored`). The same invariant gives `CutBooksAreRemoved` (`WholeOrGone`), under `ASSUME "stuck" \notin Trouble` only: a card that refuses to remove a cut book does keep it. `PositionsOutliveRefusals` (`ProgressKept`) holds for every trouble; it adds `DropIsDue`, that a handler comes to `removeFor()` only when the book is gone or an upload has just replaced it as a whole. `CInv` says that a sidecar, and the last book, match the file at their path unless `removeFor` of that path is under way or the card refused the sidecar's removal, and that a folder under deletion still lists every file in it. `ShelfIsKept` (`BooksAreUnits`) proves under `Calm` that the server and the reader implement `Bookshelf`, one lemma per action: the end of an upload is `Put`, its beginning over an old book and every removal are `Lose`, a rename is `Move`, a visit of the reader is `Read`, and `removeFor()` and the rest change nothing on the shelf (`Same`). `RequestsShrink` is the safety half of `RequestsEnd` for any finite number of paths and any sizes: every step anyone takes while a request is served, a power cut included, lowers `Rank`, a natural number of bytes owed, files to delete and steps to the answer. That some such step can be taken, which liveness needs besides, is TLC's.

`Calm` is needed: a power cut or a peer that leaves in an upload over an old book, and the renaming of a folder, do separate a position from its book (section 7).

**`WifiJoinProofs`**: `TypeCorrect`, `NoSecondSlot` (`OneSlotEach`) and `AutomaticIsQuiet` (`AutoIsQuiet`) for every trouble, a failing card included; `OnlyJoinedIsSaved` (`SavesWhatJoined`) and `SavedIsKept` (`NothingForgotten`) under `ASSUME "card" \notin Trouble`, for every number of networks, passwords and slots. `TableIsKept` (`KeychainIsKept`) proves under the same assumption that the store implements `Keychain`, the two saves, the removal and the restart one lemma each; it needs that as many networks are in the table as slots are in use (`TableSize`, a bijection), for which no network may have two slots, and that only a network of the air, with a password that is one, comes to be saved (`Asked`). `NoneIsMadeUp` is what remains for a card that fails: a password enters memory as the one just joined with or out of the file, and the file only out of memory. `OneSlotEach` needs that the *file* has no second slot either, as a restart loads it. `SavesWhatJoined` needs three facts the code never states: while it is connecting, the screen's pending network and entered password are what the radio was given (`AttemptIsEntered`); between the two saves the radio is still joined (`StillJoined`); and memory and file agree after every step (`FileIsStore`), which a card that fails breaks. Lemmas say what `addOrUpdate()` and `remove()` do to the slots: exactly one gets a new content. `SlotForHolds` needs the least element of a set of slots, from the library's well-foundedness of `<`.

**`ClockSyncProofs`**: `TypeCorrect`, `SettingsStayInRange` (`SettingsInRange`) and `LocalTimeIsShown` (`ShowsLocalTime`) for every trouble; `MemoryIsInTheFile` (`NothingUnsaved`), `HandSetZoneStays` (`ManualZoneIsKept`) under `ASSUME Keeps` (`"card" \notin Trouble`); `AnsweredOncePerMonth` (`OncePerMonth`) again for every trouble, a card that fails included; for every calendar, every set of files of the struct's type, every zone and every offset. None of the last three is inductive alone: a hand-set zone stays because the *file* that holds it also holds `clockHasBeenSynced` (`ChoiceInFile`, `HandSynced`), so that no session that loads it asks for the zone; a month is answered for once because the month of the last answer, as long as it is noted anywhere, is in memory, then in the file and in every struct loaded from it, and the RTC it set reads the true month or nothing (`MonthIsNoted`). `LoadOfSaved` says that `load()` of what `save()` wrote is the identity on settings in range. `LocalTimeIsShown` is arithmetic: `NearestQuarter` (rounding towards zero after adding half, on both sides), `WrittenIsWhole` (hours and minutes give the seconds back, for whole minutes: `SecondsAssumption`), `IntoTheDay` and `RightToTheQuarter`.

**`CrashReportProofs`**: `TypeCorrect`, `CapturedIsKept` (`OwedIsKept`), `EachCrashToldOnce` (`ToldOnce`) and `ReportEndsWithTheLog` (`LogIsTheLastLines`) for every ring, set of lines and number of crashes. `IInv` adds that a set marker belongs to a crash newer than any told, except between its report and the clearing or after a reset there (`MarkerIsNew`), that a marker about to be cleared is of a crash told or lost by the close (`WroteIsSettled`), that a panic reset before the report has its marker (`PanicIsMarked`), and that nothing is numbered beyond the last crash. The log needs `RingInv`: as long as the magic is right, slot `logHead + i` holds the `i`-th of the last `LogLines` lines, or is blank while fewer were logged (`Fits`). `AddFits` carries the arithmetic of the ring, also where the index wraps. What `getLastLogs()` puts together is then `Told(i)` after each round of its loop; as induction is out of reach, `OutputIsSaid` takes the smallest round where it is not, and finds the one before.

**Only model-checked**: liveness (`HeldPowersOff`, `RequestsEnd`, `AttemptsEnd`), which is out of the prover's reach; that the steps which lead to the end of the first two are finitely many is proved (`PowerOffIsNear`, `RequestsShrink`), that one of them can be taken is not. Every other property of a passing run is stated by a theorem.

## 7. Divergences found

Shown by a run:

- **`stale_name`**: an upload refused for its name returns before it clears `destPath` (`FileTransferServer.cpp:406`), and its end removes the book the previous upload completed (`:476`).

Met while modelling, and left without a run of their own:

- With side buttons (X3), UP released inside a refresh is queued as a *forward* tap whatever screen is up (`MappedInput.cpp:57`), so it moves a list down, where the same release seen by the tick moves it up. `MCMainLoop` with `Keys = {"Power", "Up"}`, `EdgeSides = TRUE`, `HasTilt = FALSE`, `MaxTaps = 1` violates `ListMovesAsPressed`.
- The gyro auto-lock paints its marker in the middle of a tick (`Power.cpp:159`); a release seen by the last poll of that refresh is queued *and* still the current edge when the reader runs, and turns two pages. `Keys = {"Power", "Down"}`, `EdgeSides = TRUE`, `HasTilt = TRUE` violates `ReaderTurnsAsPressed`.
- The time zone is looked up only on connects before the first success (`ClockSync.cpp:187`), and success is NTP's or a choice by hand. If NTP answers and the lookup does not, the zone stays at UTC and is never asked for again, where the comment (`:213`) says the first connect looks it up. On a board without an RTC it is asked for on every connect until one is set by hand.
- A save of the settings truncates the file first (`Settings.cpp:70`): a power cut loses every setting, not only the changed one. `refreshEveryNPages` is the one numeric choice that `load()` does not check.
- A CPU lockup is reported as a panic without asking for the marker (`HalSystem.cpp:167`, where `:22` says only the marker proves a capture): such a report shows an earlier crash or what `begin()` cleared. `ToldOnce` leaves it out.
- An exception writes the stack but not the message (`HalSystem.cpp:45`), so its report may carry the message of an earlier abort that was kept or already told; a crash before `begin()` on the first power-up reports a garbage message.
- Lines logged by the boot go into the ring before the report is written, and push out the last lines of the session that crashed (`main.cpp:84`).
- Renaming a folder calls `removeFor` with the folder's path (`FileTransferServer.cpp:527`). The positions of the books in it stay behind under their old paths, and another book that takes such a path opens at that page. Adding `"folders"` to `Trouble` in `FileTransfer.cfg`, with a third folder, shows it as a violation of `ProgressBelongs` and of `BooksAreUnits`.
- `WifiCredentialStore.h:30` promises to evict the oldest slot; after a removal the freed slot is filled out of turn, and the round-robin index may then name a newer network than another (`WifiCredentialStore.cpp:115`).
- A saved password that has just joined is offered for deletion when the transfer screen finds no memory and the connection is then lost (`WifiListScreen.cpp:136`).
- A key tapped inside a refresh does not clear the gyro lock, which looks only at the tick's own edges (`Power.cpp:180`), where `Power.h:21` says any other key clears it.
- A short release of the power key ends the tick before the screen runs (`Power.cpp:177`), and drops a Confirm or Back latched from a refresh for that tick (`MappedInput.h:48`).
- An upload over an existing book that is cut leaves the old book's sidecars behind, because `removeFor` runs only on success (`FileTransferServer.cpp:387` is the removal without it, `BookCache.h:7` the promise). This is why `ProgressBelongs` and `SidecarsGoWithBook` are claimed under `Calm`.
- When the running partition cannot be read, the chip check of an update is off until the next boot (`SdUpdate.cpp:46`), and an image for another device is accepted. The device still boots its old image, but the update has reported success: `DoneBootsNew` and `UpdatesAtomically` are claimed where the chip is known (`ChipKnown`).
- The gyro auto-lock paints its marker at whatever clock the tick runs at: it takes no `Lock` (`Power.cpp:159`, `:82`), so after a wait of the reader the refresh runs at 10 MHz, where the comment at `:64` says a refresh never does.
- `begin()` stands the IMU by (`HalTiltSensor.cpp:23`), but `_isAwake` starts as false, so a standby that is refused there is never tried again, and the gyro runs until the reader is opened and left.
- An IMU that refuses to stand by keeps a pending flick, as `deepSleep()` clears nothing on that path; it turns a page later, also while the gyro lock is set. `OnlyFlicksTurn` has this as its exception.
- A flick back turns a page forward like one forward (`MappedInput.cpp:133`), where `HalTiltSensor.h` documents two directions.
- A key tapped only inside refreshes is no activity (`Power.cpp:118` asks the tick's edges), so the idle timeout may fall due while a user pages.
- The smoothed battery percentage stays one percent low while charging (`HalPowerManager.cpp:133`): its division rounds down in both directions.
- A chapter area with room for more 96-byte rows than the book has pages loses all its chapters (`Xtch.cpp:548`), although unused rows at its end are allowed (`:572`).
- When the file cannot be reopened to read the chapters (`Xtch.cpp:511`), the chapters are marked as read, and stay hidden until the book is opened again.
- A position save that fails is not reported or retried, and truncates first (`ReaderScreen.cpp:60`).
- A position file that does not open, or is read short, is taken for none (`ReaderScreen.cpp:36`, `:45`): the book opens at page 0, and leaving it saves page 0 over the position that was still on the card. `PositionKept` has this as its exception (`misread`).
- The upload's final `flush()` and `close()` are called for their effect only (`FileTransferServer.cpp:469`, `:470`): when they fail, the answer is still "File uploaded successfully" (`:491`), and the cut book stays. `UploadOkIsWhole` and `WholeOrGone` have this as their exception (`spoilt`).
- `removeFor()` does not look at `Storage.remove()` and logs "Removed" either way (`BookCache.cpp:34`). A sidecar that stays is found by the next book at that path, which opens at the old book's page. `ProgressBelongs`, `SidecarsGoWithBook` and `BooksAreUnits` have this as their exception (`stale`).
- `Settings.h:32` says "NTP at most once per calendar month". It is asked for again in the same month when the RTC cannot be read before the request (`ClockSync.cpp:191`), when the read-back failed, so that the answer's month was never noted (`:201`), and when the save of it was lost. `OncePerMonth` has these as its exceptions.
- A crash report whose `close()` fails is taken for written (`HalSystem.cpp:111`), and the marker is cleared: the crash is lost although only a whole report is to consume it (`:112`). `OwedIsKept` has this as its exception (`dropped`). A watchdog reset between the close and the clearing of the marker (`:114`) tells the same crash again; `ToldOnce` has this as its exception (`unmarked`).
- A Confirm or Back tap queued by a refresh is not consumed in a tick that sees another release of that key (`MappedInput.cpp:48`, `||` stops short). It latches in the next tick, so two taps that `busyWaitPoll` and the tick saw one after the other are delivered in two ticks, the second perhaps to another screen.

## 8. Not modelled

- Fonts and `puff.c`: generated and vendored. They are most of the repository: the glyph tables alone are 86 of its 106 thousand lines, and hold data without control. An inflate that fails is a choice of `Reader`.
- The `Uc8179` and `Uc8279` drivers. The boot probe chooses them on newer panel batches of the X4 and the X3 (`HalGPIO.cpp:54`, `FreeInkDisplay.cpp:123`), so `GlassShowsImage`, `GlassIsRight` and `ShowsTheBaseline` say nothing of those units: they hold for panels with the SSD1677 and the UC8253.
- The drivers of other boards (`PaperMono`, `It8951`, ...): vendored, and not chosen in this firmware's builds. Of the two drivers modelled: the SPI commands and tables of waveforms, which are data; `BUSY` with its timeout; the parts of the library nobody calls (`ReaderPanel` names them).
- Pure drawing and layout; lists, cursors and the keyboard grid of the screens, apart from the navigation they cause.
- The refusals of an XTCH header: an open that fails. Errors of the card while `inspect()` reads (they reject any file).
- The HTTP requests of the zone lookup: an answer, or none. Formatting of the time, the cached minute of `HalClock`, the day and hour of the RTC.
- `preAllocate()` and the final `truncate()` of an upload: the raw reader ends an upload only with every byte received, so there is nothing to cut.
- Collisions of the path hash that names sidecars; the wrap of `millis()` after 49 days; four thousand million firmware updates of one device.
- Download and directory listing: they read only.
- Scripts, the web page, CI.

Status per component is in `PROJECT.json`.

## 9. Plan

In order of importance.

1. `ScreenManager`, `ScreenManagerProofs` — stack and navigation. *Done, proved.*
2. `MainLoop`, `MainLoopProofs` — tick, power policy, key queues. *Done, proved.*
3. `SdUpdate`, `AtomicUpdate`, `SdUpdateProofs` — update with power loss from any files on the card, refinement. *Done, proved.*
4. `FileTransfer`, `Bookshelf`, `FileTransferProofs` — server and sidecars, refinement. *Done, safety proved.*
5. `Reader`, `ReaderProofs` — caches, resync, position. *Done, proved.*
6. Hazards and divergences of the above. *Done.*
7. `WifiJoin`, `Keychain`, `WifiJoinProofs` — joining, and the credential store, refinement. *Done, safety proved.*
8. `TimeZone`, `Settings`, `ClockSync`, `ClockSyncProofs` — time zone, settings file of every layout, monthly NTP. *Done, safety proved.*
9. `CrashReport`, `CrashReportProofs` — panic capture, log ring, report. *Done, proved.*
10. `FirmwareImage` — `inspect()`. *Done, proved.*
11. `XtchFormat` — the chapter table, as operators that `Reader` uses on any set of files. *Done, proved.*
12. `TiltSensor`, `CpuClock`, `Device` — the gesture machine, the clock and its lock, in the tick. *Done, proved.*
13. `EInk`, `Ssd1677`, `Uc8253`, `FreeInkDisplay`, `ReaderPanel` — what is on the glass. *Done, proved.*
14. The window and cursor arithmetic of `UiList.h`, the keyboard and digit grids, and UTF-8 decoding as operators, checked against a reference. *Open.*

## 10. Running it

```
tlc -config ScreenManager.cfg       MCScreenManager
tlc -config MainLoopX4.cfg          MCMainLoop
tlc -config Device.cfg              MCDevice
tlc -config SdUpdate.cfg            MCSdUpdate
tlc -config SdUpdateAtomic.cfg      MCSdUpdate
tlc -config FileTransfer.cfg        MCFileTransfer
tlc -config FileTransferTrouble.cfg MCFileTransfer
tlc -config Reader.cfg              MCReader
tlc -config WifiJoin.cfg            MCWifiJoin
tlc -config ClockSync.cfg           MCClockSync
tlc -config CrashReport.cfg         MCCrashReport

tlapm ScreenManagerProofs.tla
tlapm SdUpdateProofs.tla
tlapm MainLoopProofs.tla
tlapm FileTransferProofs.tla
tlapm WifiJoinProofs.tla
tlapm ClockSyncProofs.tla
tlapm CrashReportProofs.tla
tlapm ReaderProofs.tla
```

The community modules (SequencesExt, FiniteSetsExt) must be on the library path. `FileTransferReject.cfg` ends with the violation of `stale_name`.
