# TLA+ models of the Camera firmware

The repository is the firmware of an ESP32-S3 board with a 320x240 ST7789
display, a touch panel, an I/O expander, microphones, a motion sensor and an SD
card, built on a vendored ESP-IDF and LVGL 8.3. Its own code is a few hundred
lines under `src/components` and `src/main`; what makes it hard to get right is
how these lines use the asynchronous SPI panel driver, the LVGL port with its
task and mutex, the SD mount code and the I2C bus. The models cover the firmware's
own functions together with those parts of the drivers that carry the protocol.

## 1. The system

| Component | State | Operations | Talks to |
|---|---|---|---|
| **Display flush path** `lv_refr.c`, `lv_hal_disp.c`, `esp_lvgl_port.c`, `esp_lcd_panel_st7789.c`, `esp_lcd_panel_io_spi.c`, `spi_master.c` | draw buffer, `draw_buf->flushing`; pool of transaction descriptors, `num_trans_inflight`; the driver's `trans_queue`, `cur_trans_buf`, `ret_queue` | `refr_area_part`, `draw_buf_flush`, `lvgl_port_flush_callback`, `draw_bitmap`, `tx_param`, `tx_color`, `queue_trans`, `get_trans_result`, polling transmit, `spi_intr`, post callback | LVGL task and SPI interrupt, through the queues and the completion callback |
| **Direct drawing** `LCD.c` | short-lived heap and stack buffers | `lcd_set_color`, `lcd_draw_pictrue`, `lcd_draw_point` | the same panel IO, without a callback |
| **LVGL port** `esp_lvgl_port.c`, `main.c`, `lv_timer.c` | `lvgl_port_ctx` (mutex, running, timer, max sleep), `lv_timer_run`, `already_running`, LVGL's display list; one task per `lvgl_port_init` | `lvgl_port_init`, `_deinit`, `_stop`, `_resume`, `_lock`, `_unlock`, `_task`, `_add_disp`; application calls | LVGL task, main task |
| **I/O expander PCA9557** `LCD.c` | output and configuration registers (they survive a CPU reboot) | `pca9557_init`, `pca9557_set_output_state` (`lcd_cs`, `pa_en`, `dvp_pwdn`) | I2C bus |
| **SD card** `SD.c`, `vfs_fat_sdmmc.c` | static `card`, VFS registration, directory entry on the card, stdio buffers | `SD_Init`, `SD_Unmount`, `SD_Write_Data` | recorder, application |
| **Audio recorder** `myES7210.c` | I2S channel, `wav_written`, `ret` | `RecordAudio` and the functions it calls | SD card, codec |
| **Codec driver** `es7210.c` | the codec's registers (they survive a CPU reboot) | `es7210_config_codec`, `es7210_config_volume` | I2C |
| **I2C port** `i2c.c` and its users | is the driver installed? | `i2c_driver_install` from `bsp_i2c_init`, `QMI8658_Init`, `es7210_codec_init` | all I2C devices |
| **Display bring-up and backlight** `LCD.c`, `esp_lcd_panel_st7789.c` | panel and IO handles, LEDC duty, the panel's own state (which survives a CPU reboot) | `bsp_lvgl_start`, `bsp_lcd_init`, `bsp_display_new`, `bsp_display_brightness_set`, panel reset, init, invert, swap, mirror, on | the expander, whose pin LCD_CS selects the panel |
| **Touch panel** `LCD.c`, `esp_lcd_touch*.c`, `esp_lvgl_port.c` | chip registers, `tp->data`, the input device's state and point | `bsp_touch_new`, `lvgl_port_add_touch`, LVGL's read callback, `LCD_Touch` | I2C, LVGL task |
| **Motion sensor** `QMI8658.c` | the sensor's registers (they survive a CPU reboot), its current sample, the caller's structure | `QMI8658_Init` (identify with retries, configure), `QMI8658_Read_AccGry`, `QMI8658_Read_Temperature` | I2C |

The behaviours that are hard to test, and what must hold in spite of them:

* **Two actors on one queue.** The SPI interrupt works through descriptors on one
  core while the LVGL task drains, recycles and refills them on the other. No
  descriptor may be rewritten while the driver holds it, the counter must agree
  with the queues, and `flushing` may fall only when the last chunk is out.
* **A buffer given away.** LVGL owns one draw buffer; `lcd_set_color`,
  `lcd_draw_pictrue` and `lcd_draw_point` give theirs up with transfers queued.
* **Two tasks in a library that is not thread safe,** one of them deleting the mutex,
  and a port that is initialised again before the task of the last time has ended.
* **Ignored errors.** `draw_bitmap`, `fclose`, the expander's, the touch panel's and the
  motion sensor's transfers, `bsp_display_new`, `SD_Init` and `lvgl_port_init` fail without their
  caller noticing.
* **A register pair that is not read at once.** Fingers move between the read of the
  number of touch points and that of the position.
* **Power loss and reboots** between the steps of a write or of a configuration, while
  the expander keeps driving its pins, codec and motion sensor keep their registers
  and the card keeps its data.
* **Boundaries:** a full descriptor pool, a sleep time of exactly 0 or 1 ms or of
  2^32 - 1, the last retry, a temperature below zero, a recording size that is no multiple of the read buffer.

`PROJECT.json` lists each of these as a hazard at its line, with the properties
that would catch it going wrong.

## 2. Modules

| Module | Models | Composes |
|---|---|---|
| `SpiPanelIo` | `draw_bitmap`, the SPI panel IO, the SPI master driver and its interrupt | – |
| `DisplayFlush` | the boot code that fills the screen and registers the display; LVGL's refresh and flush | extends `SpiPanelIo` |
| `FrameChannel` | the abstract promise of the display path to LVGL | – |
| `SpiPanelIoProofs` | lemmas about `SpiPanelIo`, whoever calls it | extends `SpiPanelIo` |
| `DisplayFlushProofs` | theorems about `DisplayFlush` | extends `DisplayFlush`, `SpiPanelIoProofs` |
| `LcdDraw` | the direct drawing functions | extends `SpiPanelIo` |
| `LcdDrawProofs` | theorems about `LcdDraw` | extends `LcdDraw`, `SpiPanelIoProofs` |
| `LvglPort` | port tasks, locks, main task, restart of the port | – |
| `LvglPortProofs` | theorems about `LvglPort` | extends `LvglPort` |
| `SdCard` | mount, unmount, `SD_Write_Data`, stdio and FatFs as seen by their callers | – |
| `I2cDriver` | the one installation of the I2C driver that succeeds in a boot | – |
| `Es7210` | the codec's registers and their configuration in stages | extends `I2cDriver` |
| `Recorder` | `RecordAudio`, beside the application's own use of the card | extends `SdCard`, `Es7210` |
| `Qmi8658` | the motion sensor and its driver | extends `I2cDriver` |
| `Sensors` | an application that records, or one that uses the motion sensor, on the shared port | extends `Recorder`, `Qmi8658` |
| `SensorsProofs` | theorems about card, recorder, codec and motion sensor | extends `Sensors` |
| `Pca9557` | the I/O expander | – |
| `Board` | bring-up of the display, panel chip, backlight, reboots | extends `Pca9557` |
| `BoardProofs` | theorems about `Pca9557` and `Board` | extends `Board` |
| `Touch` | touch chip, both ways of reading it | – |
| `TouchProofs` | theorems about `Touch` | extends `Touch` |

The `MC*` modules are the ones TLC is started on. Definitions that begin with
"Mutant of" are faulty variants of the definition that follows them; no
specification uses them. They document what each property is able to notice.

### SpiPanelIo

A descriptor is an index of `trans_pool`. What the driver holds is one sequence,
`flight`: oldest first, its first `nret` entries are in `ret_queue`, the next is on
the wire unless `wire = "idle"`, the rest are in `trans_queue`. A step is what happens
between two points where the other actor can be seen: `DrainOne` is one
`spi_device_get_trans_result` of the "wait queued transactions finished" loop,
`TxParamWindow`, `TxParamOther` and `TxColorCommand` are a whole polled transfer
(which waits until the driver is idle, and whose end also calls the post callback),
`TakeDescriptor` / `RecycleDescriptor` the two ways the chunk loop gets a
descriptor, `QueueTrans` the `memset`, the filling and the queueing (which copies
memory that is not DMA-capable). The interrupt has three steps: `SpiStart`,
`SpiDone` (data sent, post callback called) and `SpiReturn` (descriptor put into
`ret_queue`); the gap between the last two is where `flushing` is already clear
and the descriptor is not yet back.

Pixels are abstracted to the content of a whole buffer, an image to the number of
chunks received and the set of contents they had. That tells apart what matters:
a missing or additional chunk, and a chunk of another frame, of freed memory or of
a reused stack slot.

### DisplayFlush and FrameChannel

The main task runs `lcd_set_color`, switches the display on and registers it; then
LVGL's handler refreshes 1 to `MaxParts` parts, each: wait for `flushing`, render,
raise `flushing`, draw. `FrameChannel` says it without any of this: a buffer owned by
LVGL or by the panel; drawing only by the owner; when it comes back, the image that
was handed over is on the panel. The refinement mapping takes `flushing` for the
owner, `mem[drawBuf]` for the content, the last flush for the pending image and what
had been received at the last callback for the shown one.
`drawBuf` is the draw buffer, in one of the memories `DrawBufs` that the flags of
`lvgl_port_add_disp` choose from; a copy of a buffer in `MayRunOut` may fail to be allocated.

### LvglPort

The n-th `lvgl_port_init` of a boot makes mutex n and task n; `lvgl_port_ctx` (`mux`,
`running`, `maxSleep`, `tick`) is shared and always speaks of the latest ones, so an old
task that is still asleep wakes up to a context that is not its own. `lvPc[i]` follows
`lvgl_port_task`; the check of the mutex pointer and the take are two steps, as the
pointer is read twice. `lv_timer_handler` is left at once (`TaskHandlerBusy`) or runs
(`TaskHandlerBegin`, `TaskHandlerEnd`). `lv_disp_drv_register` is two steps: after the
first the refresh timer exists and the screens do not. `lvgl_port_init` is two steps
(`PortInit`, `PortCreate`) with its three failures. `lvgl_port_task_deinit` is two steps,
whoever calls it: `TaskDeinit` deletes the mutex, `ClearCtx` clears the context. In between
`lvgl_mux` points to freed memory (`freed`); a call on it may find the mutex as it was or
fail an assert (`MuxWorks`). A failed assert stops everything
until `Reboot`. `Locked` chooses between the documented use and what the firmware does.
The history `overlap` remembers what old tasks were doing at the last restart.

### SdCard and Recorder

One file stands for all. `disk` is its length as the directory entry on the card has
it; `wrote` is what stdio accepted. `fopen("w")` may or may not have truncated the
entry, `fclose` may fail (`closeOk`, which no caller looks at), a mount may format
the card, or fail after it has set the caller's pointer. `SdReboot` stands for power
loss and for the abort of `ESP_ERROR_CHECK`.

### I2cDriver, Es7210, Qmi8658 and Sensors

Whoever calls `i2c_driver_install` first in a boot gets the driver, everyone else an
error, which `bsp_i2c_init` and `QMI8658_Init` return or ignore and `es7210_codec_init`
turns into an abort. The codec's registers are a set of stages that are in effect;
`WriteStage` is one stage with all writes acknowledged, and a write that fails is the
recorder's `Reboot`, which may leave the registers as they are. `Qmi8658` follows
`QMI8658_Init` register by register; every transfer may fail, a failed read leaves an
uninitialized byte, and `Measure` changes the sensor's sample between any two steps (a
read of the 12 bytes itself is taken to be one sample). The histories `ok`, `answered`,
`missed` and `lost` record which transfers failed. The two devices share the driver and
nothing else, and one task uses them, so `Sensors` lets an application use one of them
and represents the other by its installing the driver (`CallI2cInit`).

### Pca9557

A register is the set of pins whose bit is 1. Every transfer can fail: a failed
write changes nothing, a failed read leaves the caller's byte uninitialized, that
is, any value. `known` remembers whether a read has failed since the levels were
last written by `pca9557_init`.

### Board

`bootPc` is the main task's place between `pca9557_init` and the lit backlight;
`entry` says whether the application goes through `bsp_lvgl_start` or `bsp_lcd_init`.
Every call can fail; `bsp_display_new` returns early or through its error path, and
its callers go on. The ST7789 listens to a command only if the expander drives
LCD_CS low (`Selected`; an undriven select floats), so the actions that send
commands change `chip` and `applied` only then. `BoardReboot` restarts the CPU and
leaves panel and expander as they are; a power cycle is the initial state.

### Touch

`Finger` changes the chip's registers at any moment. A round of LVGL is four steps
(`ReadTimerCb`, `ReadPoints`, `ReadCoords`, `GetCoordinates`), a call of `LCD_Touch`
two; the transfers fail at will, and `LCD_Touch` then works on uninitialized bytes.
The two readers share nothing but the chip, so they are not run side by side. The
history `seen` collects what the chip sensed while a round lasted; `Under` is the
reference for both coordinate conversions, the pixel under a raw position on the
rotated panel.

## 3. Runs

| Run | Checks | Result |
|---|---|---|
| `flush_ok` | `IInv`, `RenderExclusive`, `FlushFaithful`, `ImplementsFrameChannel`, `HandlerReturns`, `FlushCompletes` | hold with the draw buffer in PSRAM and copies to be had (the firmware's configuration), and with a DMA-capable draw buffer even when memory runs out |
| `flush_lost` | `FlushCompletes` | violated: a PSRAM buffer whose bounce buffer cannot be allocated is never reported ready |
| `draw_heap` | `TypeOK`, `HeapDrawsFaithful`, `InflightExact`, `DescriptorsIntact`, no deadlock | hold |
| `draw_point` | `PointsFaithful` | violated: the stack slot is sent in place |
| `port_locked` | `TypeOK`, `OneTaskInLvgl`, `LockBalanced`, `StaysUp`, `Served` | hold for an application that takes the lock, and may restart the port |
| `port_app` | `OneTaskInLvgl` | violated: `app_main` takes no lock |
| `port_deinit` | `DeinitStopsTask` | violated: the task asserts on the mutex that `lvgl_port_deinit` has deleted under it |
| `rec_ok` | `SensorsTypeOK`; card and recorder: `RecordedIsComplete`, `SafeToRemove`, `NothingLeftRunning`, `AckedIsStored`, `MountedIsKnown`, `CodecReady`, `RecordingEnds`; motion sensor: `Configured`, `VerdictHonest`, `InitReturns`, `SampleIsMeasured`, `TemperatureExact` | hold with every transfer failing and restarts at any moment |
| `rec_header` | `HeaderDescribesFile` | violated: 2048 bytes more than the header says |
| `board_ok` | `BoardTypeOK`, `PinsAsAsked`, `NeverDrivenUnasked`, `AcceptedPinSet`, `HandlesValid`, `LitShowsPicture` | hold with every call failing and reboots at any moment |
| `board_reset` | `ResetReachesPanel` | violated: the software reset is sent while the panel is not selected |
| `touch_ok` | `TypeOK`, `NoGhostTouch`, `NoFalseRelease`, `CrossAtTouch`, `ReleaseSeen` | hold |

The violated ones contradict a line of the repository that the finding quotes.
More observations follow from the models without a run of their own:

* `AckedIsStored` and `RecordedIsComplete` need `closeOk` because SD.c:204 and
  myES7210.c:114 drop the result of `fclose`.
* A mount that fails at its last allocation leaves `card` pointing to freed memory
  (`MountNoMem`) and the volume registered; an `fopen` on it fails or aborts.
* A `pca9557_init` whose first write fails goes on to drive all pins with what the latches
  hold, zeros after power-on and the levels of the last boot after a CPU reboot, and a failed
  read in `pca9557_set_output_state` changes the other pins too (`known` in
  `NeverDrivenUnasked` and `PinsAsAsked`).
* A `lvgl_port_deinit` that comes before the task has run its first line finds `running`
  false: it leaves mutex and sleep time in the context, and the task starts after it and
  runs on (`Deinit`, `TaskStart`). `DeinitStopsTask` speaks of tasks that had started.
* A `lvgl_port_init` that comes while the old task is inside LVGL breaks the exclusion:
  that task holds a mutex no one looks at any more (`overlap = "inside"` in
  `OneTaskInLvgl` and `LockBalanced`). One that comes while the old
  task sleeps does not, but the old task may run on beside the new one, or end and
  delete the new mutex, after which the new task ends or asserts (`StaysUp` asks for
  `overlap = "gone"`).
* After `lvgl_port_stop`, `lvgl_port_deinit`, `lvgl_port_init` LVGL's timers are still
  disabled, as `lv_init` does nothing the second time: the new task runs and
  `lv_timer_handler` returns at once, until `lvgl_port_resume`.
* Once anyone has installed the I2C driver, `RecordAudio` aborts (`CodecInitAborts`); it
  works once in a boot, and not after `bsp_i2c_init` or `QMI8658_Init`.
* If the write of CTRL1 fails, `QMI8658_Init` says nothing and every later sample is
  junk; so is a sample whose read fails (the exceptions in `SampleIsMeasured`). Before
  the first sample all axes are zero and the angles are 0/0.
* A mount that runs out of memory for FatFs's mutex gets `FR_INT_ERR` and formats the
  card (`MountOk`, `MountFails`).
* At 100 Hz a sleep of less than 10 ms is no tick at all, so that `vTaskDelay` only yields.
* The LVGL task sleeps `task_max_sleep_ms` when `lv_timer_handler` asks for 1 ms (`SleepMs`).
* Both touch conversions compute 240 - x where the last row is 239: raw 0 ends one row
  below the screen. `Near` allows for it.
* After a failed transfer, or with an undefined number of points, `LCD_Touch` may draw
  its cross anywhere, off the screen too (`CrossAtTouch` excludes both).
* With `bsp_lcd_init` the backlight goes on even if there is no panel
  (`LitShowsPicture` speaks of LVGL, or of a panel that exists).

**Bounds.** `Depth = 2` with `MaxChunks = 4`: the third and fourth chunk of a flush find
the pool used up, so both descriptors are recycled once, in order; the code has 10.
`DrawBufs` has one buffer that is copied and one that is sent in place; in `flush_ok` the
row buffer's copies may fail as well. `Rows = 2` leaves a row in flight when the next is drawn and when the buffer is
freed. Two pixel contents suffice to tell a frame from the one before, `Freed` from
both. `MaxParts = 2` gives a wait for the flush of the part before within one handler
call, and another across two calls. `Delays = {0, 1, 2, 5}` with `NoTimer = 9` around
`MaxSleep = 5` hits each branch of the sleep. `MaxInits = 2` lets one old task meet a new
one; the invariants also hold with 3. `WavSize = 7` with `ReadSize = 2` keeps the overshoot of the
real sizes, which `rec_header` uses themselves. Three pins are all the board has; the percentages of `MCBoard` lie on both sides of
the clamp. `MCTouch` has two opposite corners and a position in between, and numbers of
points at 0, 1, the largest valid 5 and the first undefined 6.
`MaxRetries = 2`, for 10 in the code, has a first, a middle and a last read of the ID. Two
samples tell a stale one from a new one; `MCTemperatures` has both ends, both sides of
zero and a carry between the bytes. The I2S ports are two, as on the chip. Nothing else is bounded.

**Deadlock** is checked except for LvglPort with `lvgl_port_deinit`, after which both
tasks have really stopped.

**Fairness.** `DisplayFlush`: weak fairness of the main task, of the LVGL task (inside
and outside the panel IO) and of the interrupt: FreeRTOS runs them on two cores, and
the SPI peripheral ends each transfer it started. Waits use `portMAX_DELAY`, so
nothing ends by a timeout instead. `LvglPort`: weak fairness of the port tasks, of the
return of an LVGL call or of the `lvgl_port_deinit` the main task is in, and of the reboot that follows a panic;
none for the main task's decision to make a call. `TaskTake` is strongly fair: the LVGL
task has priority 4 and the main task 1, so giving the mutex back to a waiting LVGL task
preempts the main task before it can take it again; `Served` needs it. `Recorder`: weak fairness of
what `RecordAudio` does by itself once called (`RecordStep`); `i2s_channel_read` has a timeout of
1 s (`ReadTimeout`), and that samples ever come is not assumed. `Qmi8658`: weak
fairness of the steps of a call; each transfer has a timeout; none for the caller or the
sensor. `Touch`: weak fairness of the LVGL task, which polls; none for fingers. `Board` has
no liveness.

## 4. Proofs

Every invariant and action property that a run checks is also proved, for every value
of the constants. The proofs have one shape: an inductive invariant in named parts, which
TLC checked first on the instance of the run (and with larger bounds where that is quick),
a lemma that the initial states satisfy it, a lemma per action or group of actions that it
is preserved, and one theorem per property that follows from it. The only assumptions are
the `ASSUME`s next to the constants, which TLC evaluates on every run, and the
hypotheses that a theorem names.

### The SPI panel IO (`SpiPanelIoProofs`) and LVGL's flush (`DisplayFlushProofs`)

For every `Depth`, every set of buffers (DMA-capable or not), any number of rows, parts,
chunks and pixel contents, and with or without failing allocations:

* `Invariance`: `SafetySpec => []IInv`;
* `TypeCorrect`, `InflightIsExact`, `DescriptorsStayIntact`, `RenderingIsExclusive`,
  `FlushesAreFaithful`: the consequences;
* `Refinement`: `SafetySpec => FC!SafetySpec`, the safety part of `FrameChannel`.

They rest on `DepthAssumption`, `BufferAssumption`, `PixelAssumption`,
`MayRunOutAssumption` and `ClientAssumption`.

Neither `RenderExclusive` nor `FlushFaithful` is inductive. That `flushing` falls at
the right moment depends on which descriptor asks for the callback (`LastInv`: only the
youngest transaction, and only once its call has queued all chunks), which depends on
descriptors not being rewritten in flight (`DescriptorsIntact`), which depends on the
chunk loop never taking a slot the driver holds (`CallInv`: slots in use are below
`inflight` until the pool is full, then the recycled slot is the only free one),
which depends on the counter (`InflightExact`). The last three and the types of the panel
IO's state are `SpiInv`, which `SpiPanelIoProofs` shows to be preserved by every step of
the panel IO and of the interrupt and by entering the panel IO, so that both callers can
use it; it also says what each step does to `flight`, `Sents` and `Unsent`
(`GetTransResultFacts`, `QueueTransFacts`, `SpiDoneFacts`, ...). `TaskInv` says that one
task at a time is in the panel IO, `QuietInv` that nothing is unsent while LVGL owns the
buffer, and `ImageInv` that what was sent, what is held and what is yet to be queued add up
to the flushed image. `IInv` is their conjunction with `TypeOK` and `FlushFaithful`.

### Drawing without LVGL (`LcdDrawProofs`)

* `TypeCorrect`, `InflightIsExact`, `DescriptorsStayIntact`: under the assumptions above
  and `DrawAssumption`, from `DrawInv` (`SpiInv`, and that the call in the panel IO is the
  one that `drawn` describes);
* `HeapDrawsAreFaithful`: `HeapDrawsFaithful`, if the heap buffer is not DMA-capable
  (`MALLOC_CAP_SPIRAM`) and bounce buffers can be had (`HeapBuf \notin MayRunOut`). Without the first
  hypothesis it is false for the same reason as `PointsFaithful`, without the second
  a picture may stay incomplete;
* `HeapColoursAreFaithful`: without the second hypothesis, the panel still never shows a
  colour that is not in the picture.

`PictureInv` is what makes them inductive: once `draw_bitmap` has returned, the content of
the picture is in the bounce buffers and no longer in the buffer, so that freeing or
refilling it cannot matter; sent, held and unqueued chunks add up to the picture.

### LVGL port (`LvglPortProofs`)

For any number of restarts of the port, any maximal sleep and whatever
`lv_timer_handler` returns (`PortAssumption`): `TypeCorrect`, `LockIsBalanced`,
`PortStaysUp`, and, for an application that takes the lock (hypothesis `Locked`; `port_app`
shows that it is needed), `Exclusion`: `OneTaskInLvgl`. `HolderInv` says who can hold the
last mutex and that whoever is inside LVGL holds it, `CountInv` that the context knows no
mutex but the last and that later ones are untouched, `TaskInv` that without overlap the
last task is the only one alive, and that the flag `running` stays up once it is up.

### SD card, recorder, codec, motion sensor (`SensorsProofs`)

For every length of data and recording, every read size, number of I2S ports and of
retries, every set of samples and every set of 16-bit temperatures, with failures and
restarts everywhere: `SensorsTypeCorrect`, `AckedDataIsStored`, `MountedVolumeIsKnown`,
`RecordingIsComplete`, `RemovalIsSafe`, `CallsCleanUp`, `CodecIsReady`,
`SensorIsConfigured`, `IdVerdictIsHonest`, and the action properties `SamplesAreMeasured`
and `TemperaturesAreExact` (the two bytes of a signed 16-bit number put together again).

`SensorsInv` joins `RecInv` and `QmiInv`. In `RecInv`, `FileInv` says when a file is open and
that nothing is acknowledged of an open file; `MountInv` that a recording in progress is on
a volume that `SD_Unmount` will find; `LengthInv` and `CompleteInv` follow the length from
`fwrite` to the card; `CodecInv` that the codec holds exactly the stages written since its
reset. In `QmiInv`, `ConfigInv` says which registers are written or lost at each step, `IdInv`
what the reads of the ID have found, and `SampleInv` that nobody finds a sample ready
without the address increment of CTRL1, unless that write was lost.

### Expander and bring-up (`BoardProofs`)

For every set of pins, of default levels and of percentages:

* `PinsKept`, `NoGlitch`, `AcceptedSets`: `PinsAsAsked`, `NeverDrivenUnasked` and
  `AcceptedPinSet` of the expander;
* `HandlesStayValid`, `LitIsSetUp`: `HandlesValid` and `LitShowsPicture` of the bring-up;
* `BoardTypeCorrect`, with `DutyInRange`: every percentage gives a duty cycle of ten bits.

They rest on `PcaAssumption` and `BoardAssumption`. The expander's part needs `PcaInv`:
unless a transfer went wrong the register is what was asked for, save between power-on
and the first write, when all pins are inputs, and a byte read for a modification is
still current when it is written back. `BoardStep` shows that every step of the board is
a step of the expander's code or leaves it alone, so that `PcaInv` carries over. The
bring-up needs `BootInv`: which handles exist at which place (`HandlesInv`), that the light
comes last (`LightInv`), and that from an accepted `lcd_cs(0)` until the display is on
LCD_CS stays low, so that nothing sent in between is lost (`SelectInv`).

### Touch panel (`TouchProofs`)

For every set of positions on the panel, of values of the points register and of
uninitialized bytes (`TouchAssumption`): `TypeCorrect`, `NoTouchIsInvented`,
`NoTouchIsMissed` and `CrossIsAtTouch`. `RoundInv` says that a round has seen what the
chip senses now, that the position the second transfer reads was touched in this round
although the finger may have gone, and that points are kept only until they are consumed.
`AdjustedFacts` and `ConvertedFacts` compare the two coordinate conversions with the
reference `Under`, for the whole panel.

### Only model-checked

The liveness properties (`HandlerReturns`, `FlushCompletes`, `Served`,
`RecordingEnds`, `InitReturns`, `ReleaseSeen`, and the fairness part of `FrameChannel` in
`ImplementsFrameChannel`): the proof system does not handle fairness and `ENABLED`. The
absence of deadlock. And the six properties that do not hold, of which TLC shows a
counterexample.

## 5. What is not modelled

* LVGL's drawing, styles, widgets and demos, and the parts of ESP-IDF and FreeRTOS
  that the firmware only calls: third-party code with no protocol of its own here.
  Scheduling appears as fairness, task priorities not at all.
* The second draw buffer of LVGL, rotation, monochrome displays, `remove_disp`, and the
  port's encoder, button and USB devices: not used by this firmware.
* Register values, the clock table of `es7210.c` and the angles of `QMI8658.c`: arithmetic
  on data that no later step depends on.
* The static read and append helpers of `SD.c` and `es7210_del_codec`: no caller.
* The rest of the vendored trees. `src/esp-idf` and `src/managed_components` hold 3.3
  million lines for all chips, peripherals and widgets; the firmware's own code is under
  a thousand lines, of which the models cover nearly all functions, and of the vendored
  code what these reach and depend on. A larger share of the vendored trees would be a
  model of another system.
* Build output and picture data.

## 6. Plan

In this order; the most important behaviour came first.

1. `SpiPanelIo`, `DisplayFlush`, `FrameChannel` with their proofs; `LcdDraw`; `LvglPort`;
   `SdCard` and `Recorder`; `Pca9557` and `Board` with their proofs; `Touch` – done.
2. `Qmi8658`, `Es7210` and the I2C driver they share, composed in `Sensors`; `LvglPort` with
   a second `lvgl_port_init` after a deinit – done.
3. Proofs of every invariant and action property the runs check: `LvglPort`, `Sensors` with
   its parts, `Touch`, `LcdDraw` (sharing the lemmas about `SpiPanelIo` with
   `DisplayFlush`), types of `Board` – done.
