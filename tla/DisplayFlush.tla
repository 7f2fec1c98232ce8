---------------------------- MODULE DisplayFlush ----------------------------
(***************************************************************************)
(* The display as the firmware drives it.  The main task boots it          *)
(* (bsp_display_lcd_init: fill the screen, switch it on, add the display to*)
(* LVGL), then the LVGL task renders parts of the screen into its single   *)
(* draw buffer and flushes each through the panel IO of SpiPanelIo.        *)
(***************************************************************************)
EXTENDS SpiPanelIo

CONSTANTS
  DrawBufs,   \* where buf1 of lvgl_port_add_disp may be allocated
  RowBuf,     \* the row buffer of lcd_set_color
  Rows,       \* rows lcd_set_color draws (240 in the code)
  MaxParts,   \* bound: parts one lv_timer_handler call refreshes
  MaxChunks   \* bound: SPI transfers one part needs

ASSUME ClientAssumption ==
  /\ DrawBufs \subseteq Buffers /\ RowBuf \in Buffers \ DrawBufs
  /\ Rows \in Nat /\ MaxParts \in Nat /\ MaxChunks \in Nat \ {0}

VARIABLES
  drawBuf, \* buf1: flags.buff_dma and buff_spiram choose its memory, once
  bootPc,  \* where the main task is in bsp_display_lcd_init
  rows,    \* lcd_set_color: rows still to be drawn
  lvPc,    \* where the LVGL task is
  parts,   \* parts still to be refreshed in this lv_timer_handler call
  handed   \* content and number of chunks of the last flush

clientVars == <<drawBuf, bootPc, rows, lvPc, parts, handed>>
vars == <<spiVars, mem, ioVars, clientVars>>

Init ==
  /\ SpiInit
  /\ drawBuf \in DrawBufs
  /\ bootPc = "alloc"
  /\ rows = Rows
  /\ lvPc = "idle"
  /\ parts = 0
  /\ handed = NoImage

-----------------------------------------------------------------------------
(* The main task: lcd_set_color(0xffff); disp_on_off(true); add_disp.      *)

BootAlloc ==
  /\ bootPc = "alloc"
  /\ \/ /\ \E v \in Pixels : mem' = [mem EXCEPT ![RowBuf] = v]
        /\ bootPc' = "rows"
     \/ bootPc' = "dispon" /\ UNCHANGED mem   \* no memory: nothing is drawn
  /\ UNCHANGED <<spiVars, ioVars, drawBuf, rows, lvPc, parts, handed>>

BootRow ==
  /\ bootPc = "rows"
  /\ rows > 0
  /\ TxBegin("caset", RowBuf, 1)
  /\ rows' = rows - 1
  /\ UNCHANGED <<spiVars, mem, drawBuf, bootPc, lvPc, parts, handed>>

BootFree ==
  /\ bootPc = "rows"
  /\ rows = 0 /\ ioPc = "idle"
  /\ mem' = [mem EXCEPT ![RowBuf] = Freed]
  /\ bootPc' = "dispon"
  /\ UNCHANGED <<spiVars, ioVars, drawBuf, rows, lvPc, parts, handed>>

BootDispOn ==
  /\ bootPc = "dispon"
  /\ TxBegin("param", RowBuf, 0)
  /\ bootPc' = "register"
  /\ UNCHANGED <<spiVars, mem, drawBuf, rows, lvPc, parts, handed>>

(* lvgl_port_add_disp: allocate the draw buffer, register the callback,    *)
(* then the display.                                                       *)
BootRegister ==
  /\ bootPc = "register"
  /\ ioPc = "idle"
  /\ \E v \in Pixels : mem' = [mem EXCEPT ![drawBuf] = v]
  /\ cb' = TRUE
  /\ bootPc' = "run"
  /\ UNCHANGED <<pool, inflight, flight, nret, wire, flushing, gram, screen,
                 ioVars, drawBuf, rows, lvPc, parts, handed>>

MainStep == BootAlloc \/ BootRow \/ BootFree \/ BootDispOn \/ BootRegister

-----------------------------------------------------------------------------
(* The LVGL task: lv_timer_handler under the port's lock.                  *)

HandlerEnter ==
  /\ lvPc = "idle"
  /\ bootPc = "run"
  /\ parts' \in 1 .. MaxParts
  /\ lvPc' = "wait"
  /\ UNCHANGED <<spiVars, mem, ioVars, drawBuf, bootPc, rows, handed>>

(* refr_area_part: while(draw_buf->flushing) spins without a wait_cb ... *)
SpinWhileFlushing ==
  /\ lvPc = "wait"
  /\ flushing
  /\ UNCHANGED vars

(* Mutant of BufferFree: render without waiting for the flush. *)
BufferNotAwaited ==
  /\ lvPc = "wait"
  /\ lvPc' = "render"
  /\ UNCHANGED <<spiVars, mem, ioVars, drawBuf, bootPc, rows, parts, handed>>

(* ... and falls through once it is clear. *)
BufferFree ==
  /\ lvPc = "wait"
  /\ ~flushing
  /\ lvPc' = "render"
  /\ UNCHANGED <<spiVars, mem, ioVars, drawBuf, bootPc, rows, parts, handed>>

Render ==
  /\ lvPc = "render"
  /\ \E v \in Pixels : mem' = [mem EXCEPT ![drawBuf] = v]
  /\ lvPc' = "rendered"
  /\ UNCHANGED <<spiVars, ioVars, drawBuf, bootPc, rows, parts, handed>>

(* draw_buf_flush: raise flushing, then lvgl_port_flush_callback. *)
FlushBegin ==
  /\ lvPc = "rendered"
  /\ flushing' = TRUE
  /\ \E n \in 1 .. MaxChunks :
       /\ TxBegin("caset", drawBuf, n)
       /\ handed' = [cnt |-> n, vals |-> {mem[drawBuf]}]
  /\ lvPc' = "flush"
  /\ UNCHANGED <<pool, inflight, flight, nret, wire, cb, gram, screen, mem,
                 drawBuf, bootPc, rows, parts>>

(* flush_cb returned; next part, or the end of the handler. *)
FlushReturn ==
  /\ lvPc = "flush"
  /\ ioPc = "idle"
  /\ parts' = parts - 1
  /\ lvPc' = IF parts = 1 THEN "idle" ELSE "wait"
  /\ UNCHANGED <<spiVars, mem, ioVars, drawBuf, bootPc, rows, handed>>

LvglStep ==
  \/ HandlerEnter \/ SpinWhileFlushing \/ BufferFree \/ Render
  \/ FlushBegin \/ FlushReturn

-----------------------------------------------------------------------------
Next ==
  \/ MainStep
  \/ LvglStep
  \/ IoStep /\ UNCHANGED clientVars
  \/ IsrStep /\ UNCHANGED clientVars

(* FreeRTOS keeps running both tasks, and the SPI hardware ends every      *)
(* transfer it started.                                                    *)
Fairness ==
  /\ WF_vars(MainStep)
  /\ WF_vars(LvglStep)
  /\ WF_vars(IoStep /\ UNCHANGED clientVars)
  /\ WF_vars(IsrStep /\ UNCHANGED clientVars)

SafetySpec == Init /\ [][Next]_vars
Spec == SafetySpec /\ Fairness

-----------------------------------------------------------------------------
TypeOK ==
  /\ SpiTypeOK
  /\ drawBuf \in DrawBufs
  /\ bootPc \in {"alloc", "rows", "dispon", "register", "run"}
  /\ rows \in Nat
  /\ lvPc \in {"idle", "wait", "render", "rendered", "flush"}
  /\ parts \in Nat
  /\ handed \in Image

(* lv_refr.c:711 waits for draw_buf->flushing before it draws into the only*)
(* buffer: while LVGL renders, the DMA is through with every transaction   *)
(* that was ever queued on that buffer.                                    *)
RenderExclusive == lvPc \in {"render", "rendered"} => Unsent = 0

(* lv_disp_flush_ready is called for a flush only after its last chunk is  *)
(* on the panel, and the panel then holds exactly what was rendered: no    *)
(* chunk missing, none from another frame and none from freed memory.      *)
FlushFaithful == cb /\ ~flushing /\ handed # NoImage => screen = handed

(* Every flush that starts is reported ready in the end (lv_hal_disp.h:105 *)
(* "'lv_disp_flush_ready()' has to be called when finished").              *)
FlushCompletes == flushing ~> ~flushing

(* lv_timer_handler always returns, so the LVGL lock is always released.   *)
HandlerReturns == lvPc # "idle" ~> lvPc = "idle"

-----------------------------------------------------------------------------
(* The promise of FrameChannel, with draw_buf->flushing as the owner.      *)
FC == INSTANCE FrameChannel WITH
  Sizes   <- 1 .. MaxChunks,
  owner   <- IF flushing THEN "panel" ELSE "lvgl",
  content <- mem[drawBuf],
  pending <- handed,
  shown   <- screen

(* The display path implements FrameChannel: rendering only into a buffer  *)
(* it owns, and every hand-over ends with that very image on the panel     *)
(* (lv_refr.c:711, draw_buf_flush, lv_disp_flush_ready).                   *)
ImplementsFrameChannel == FC!Spec

-----------------------------------------------------------------------------
(* The inductive invariant behind RenderExclusive, FlushFaithful and the   *)
(* refinement, in named parts.                                             *)

(* Where the tasks are: only one of them is ever inside the panel IO. *)
TaskInv ==
  /\ cb <=> bootPc = "run"
  /\ bootPc # "run" => /\ lvPc = "idle" /\ ~flushing
                       /\ handed = NoImage /\ screen = NoImage
  /\ bootPc \in {"alloc", "dispon"} => ioPc = "idle"
  /\ bootPc = "register" => ioCmd = "param" /\ (ioPc = "idle" => flight = <<>>)
  /\ bootPc = "run" /\ lvPc # "flush" => ioPc = "idle"
  /\ lvPc \in {"render", "rendered"} => ~flushing
  /\ lvPc # "idle" => parts > 0
  /\ cb /\ ioPc # "idle" => flushing /\ ioBuf = drawBuf /\ ioCmd # "param"

(* Only the youngest transaction asks for the callback, and only once all  *)
(* chunks of its call are queued.                                          *)
LastInv ==
  \A i \in Held : pool[flight[i].slot].en_trans_done_cb =>
                    i = Len(flight) /\ ioPc \in {"idle", "drain"}

(* When LVGL owns the buffer, or the call still drains, nothing is unsent. *)
QuietInv == cb /\ (~flushing \/ ioPc = "drain") => Unsent = 0

(* What has been sent, what is held and what is yet to be queued make up   *)
(* the flushed image.                                                      *)
ImageInv ==
  cb /\ flushing =>
    /\ handed.vals = {mem[drawBuf]}
    /\ ioPc = "drain" => ioChunks = handed.cnt
    /\ ioPc # "drain" =>
         /\ \A i \in Sents + 1 .. Len(flight) :
              flight[i].buf = drawBuf /\ flight[i].copy \in {NoCopy, mem[drawBuf]}
         /\ gram.vals \subseteq handed.vals
         /\ ioPc \in {"chunk", "queue"} => gram.cnt + Unsent + ioChunks = handed.cnt
         /\ \A i \in Sents + 1 .. Len(flight) :
              pool[flight[i].slot].en_trans_done_cb => gram.cnt + Unsent = handed.cnt

IInv ==
  /\ TypeOK /\ SpiInv
  /\ TaskInv /\ LastInv /\ QuietInv /\ ImageInv /\ FlushFaithful
=============================================================================
