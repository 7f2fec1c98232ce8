------------------------------ MODULE LcdDraw -------------------------------
(***************************************************************************)
(* Drawing without LVGL: lcd_set_color, lcd_draw_pictrue and lcd_draw_point*)
(* of LCD.c hand a short-lived buffer to the panel IO and give it up when  *)
(* esp_lcd_panel_draw_bitmap returns, with transactions still queued and no*)
(* completion callback to wait for.  The first two use a heap buffer in    *)
(* PSRAM, the last its own parameter on the task's stack.                  *)
(***************************************************************************)
EXTENDS SpiPanelIo

CONSTANTS
  HeapBuf,    \* heap_caps_malloc(.., MALLOC_CAP_SPIRAM)
  StackBuf,   \* &color in lcd_draw_point
  Rows,       \* rows lcd_set_color draws (240 in the code)
  MaxChunks   \* bound: SPI transfers one picture needs

ASSUME DrawAssumption ==
  /\ HeapBuf \in Buffers /\ StackBuf \in Buffers /\ HeapBuf # StackBuf
  /\ Rows \in Nat /\ MaxChunks \in Nat \ {0}

VARIABLES
  pc,     \* which drawing function the task is in, or "idle"
  rows,   \* lcd_set_color: rows still to be drawn
  drawn   \* the image given to the last draw_bitmap, and its buffer

drawVars == <<pc, rows, drawn>>
vars == <<spiVars, mem, ioVars, drawVars>>

Init ==
  /\ SpiInit
  /\ pc = "idle"
  /\ rows = 0
  /\ drawn = [buf |-> HeapBuf, img |-> NoImage]

(* esp_lcd_panel_draw_bitmap of buffer b, now holding v, in n transfers *)
DrawBitmap(b, v, n) ==
  /\ TxBegin("caset", b, n)
  /\ drawn' = [buf |-> b, img |-> [cnt |-> n, vals |-> {v}]]

(* Without memory both heap functions return having done nothing. *)
SetColorAlloc ==
  /\ pc = "idle"
  /\ \E v \in Pixels : mem' = [mem EXCEPT ![HeapBuf] = v]
  /\ pc' = "set_color"
  /\ rows' = Rows
  /\ UNCHANGED <<spiVars, ioVars, drawn>>

SetColorRow ==
  /\ pc = "set_color"
  /\ rows > 0
  /\ DrawBitmap(HeapBuf, mem[HeapBuf], 1)
  /\ rows' = rows - 1
  /\ UNCHANGED <<spiVars, mem, pc>>

Picture ==
  /\ pc = "idle"
  /\ \E v \in Pixels, n \in 1 .. MaxChunks :
       /\ mem' = [mem EXCEPT ![HeapBuf] = v]
       /\ DrawBitmap(HeapBuf, v, n)
  /\ pc' = "pictrue"
  /\ UNCHANGED <<spiVars, rows>>

(* free(buffer) / heap_caps_free(pixels) *)
FreeHeap ==
  /\ \/ pc = "set_color" /\ rows = 0
     \/ pc = "pictrue"
  /\ ioPc = "idle"
  /\ mem' = [mem EXCEPT ![HeapBuf] = Freed]
  /\ pc' = "idle"
  /\ UNCHANGED <<spiVars, ioVars, rows, drawn>>

Point ==
  /\ pc = "idle"
  /\ \E v \in Pixels :
       /\ mem' = [mem EXCEPT ![StackBuf] = v]
       /\ DrawBitmap(StackBuf, v, 1)
  /\ pc' = "point"
  /\ UNCHANGED <<spiVars, rows>>

(* The parameter's stack slot is reused by whatever the caller calls next. *)
PointReturn ==
  /\ pc = "point"
  /\ ioPc = "idle"
  /\ mem' = [mem EXCEPT ![StackBuf] = Freed]
  /\ pc' = "idle"
  /\ UNCHANGED <<spiVars, ioVars, rows, drawn>>

CallerStep ==
  SetColorAlloc \/ SetColorRow \/ Picture \/ FreeHeap \/ Point \/ PointReturn

Next ==
  \/ CallerStep
  \/ IoStep /\ UNCHANGED drawVars
  \/ IsrStep /\ UNCHANGED drawVars

Spec == Init /\ [][Next]_vars

-----------------------------------------------------------------------------
TypeOK ==
  /\ SpiTypeOK
  /\ pc \in {"idle", "set_color", "pictrue", "point"}
  /\ rows \in 0 .. Rows
  /\ drawn \in [buf : {HeapBuf, StackBuf}, img : Image]

(* Everything queued so far has reached the panel. *)
Settled == ioPc = "idle" /\ Unsent = 0

(* lcd_set_color and lcd_draw_pictrue free their buffer with transactions  *)
(* still queued: the panel nevertheless gets exactly the picture, since    *)
(* memory that is not DMA-capable is copied when it is queued.             *)
HeapDrawsFaithful == Settled /\ drawn.buf = HeapBuf => gram = drawn.img

(* lcd_draw_point likewise hands over a buffer and returns.  "Recycling of *)
(* color buffer should be done in the callback `on_color_trans_done()`"    *)
(* (esp_lcd_panel_io.h:89): the panel shows the colour that was asked for. *)
PointsFaithful == Settled /\ drawn.buf = StackBuf => gram = drawn.img
=============================================================================
