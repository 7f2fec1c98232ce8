----------------------------- MODULE SpiPanelIo -----------------------------
(***************************************************************************)
(* The path of a bitmap to the ST7789 panel: panel_st7789_draw_bitmap, the *)
(* SPI panel IO below it (esp_lcd_panel_io_spi.c) and the SPI master driver*)
(* with its interrupt (spi_master.c).  Two actors meet here: the one task  *)
(* that calls the panel IO (the LVGL task, or the main task while it boots)*)
(* and the SPI interrupt, which may run on the other core.                 *)
(*                                                                         *)
(* A transaction descriptor is an index of trans_pool.  The descriptors    *)
(* that the driver holds are one sequence, oldest first:                   *)
(*                                                                         *)
(*    flight = ret_queue \o <<cur_trans_buf>> \o trans_queue               *)
(*                                                                         *)
(* of which the first nret entries are in ret_queue, and the next one is   *)
(* the transaction on the wire unless wire = "idle".                       *)
(***************************************************************************)
EXTENDS Integers, Sequences

CONSTANTS
  Depth,       \* trans_queue_depth: descriptors in trans_pool, slots of both queues
  Buffers,     \* the colour buffers that are drawn from
  DmaBuffers,  \* those in DMA-capable memory; the others are copied when queued
  Pixels,      \* contents a buffer can have
  Freed,       \* the content of memory that is not allocated
  NoCopy,      \* buffer_to_send is the caller's buffer, not a bounce buffer
  MayRunOut    \* buffers whose bounce buffer's heap_caps_malloc can fail

ASSUME DepthAssumption == Depth \in Nat \ {0}
ASSUME BufferAssumption == DmaBuffers \subseteq Buffers
ASSUME PixelAssumption == Freed \notin Pixels /\ NoCopy \notin Pixels \cup {Freed}
ASSUME MayRunOutAssumption == MayRunOut \subseteq Buffers

VARIABLES
  pool,       \* trans_pool: descriptor -> its en_trans_done_cb and tx_buffer
  inflight,   \* num_trans_inflight
  flight,     \* descriptors held by the SPI driver, oldest first
  nret,       \* how many of them are in ret_queue
  wire,       \* cur_trans_buf: "idle", "busy" (DMA running), "posted" (post_cb ran)
  cb,         \* on_color_trans_done is registered
  flushing,   \* draw_buf->flushing, which that callback clears
  mem,        \* content of each buffer
  gram,       \* what the panel received since the last RAMWR command
  screen,     \* gram when the callback last ran
  ioPc,       \* where the calling task is inside the panel IO
  ioCmd,      \* lcd_cmd of the call
  ioLeft,     \* its loop counter: transactions still to be waited for
  ioBuf,      \* its color argument
  ioChunks,   \* chunks of color still to be queued
  ioSlot      \* lcd_trans

ioVars == <<ioPc, ioCmd, ioLeft, ioBuf, ioChunks, ioSlot>>
spiVars == <<pool, inflight, flight, nret, wire, cb, flushing, gram, screen>>

Slots == 0 .. Depth - 1
NoBuf == "NULL"
Blank == [en_trans_done_cb |-> FALSE, tx_buffer |-> NoBuf]
Descriptor == [en_trans_done_cb : BOOLEAN, tx_buffer : Buffers \cup {NoBuf}]
Transaction == [slot : Slots, buf : Buffers, copy : Pixels \cup {Freed, NoCopy}]
Image == [cnt : Nat, vals : SUBSET (Pixels \cup {Freed})]
NoImage == [cnt |-> 0, vals |-> {}]

SpiTypeOK ==
  /\ pool \in [Slots -> Descriptor]
  /\ inflight \in 0 .. Depth
  /\ flight \in Seq(Transaction)
  /\ nret \in Nat
  /\ wire \in {"idle", "busy", "posted"}
  /\ cb \in BOOLEAN
  /\ flushing \in BOOLEAN
  /\ mem \in [Buffers -> Pixels \cup {Freed}]
  /\ gram \in Image
  /\ screen \in Image
  /\ ioPc \in {"idle", "drain", "chunk", "queue"}
  /\ ioCmd \in {"caset", "raset", "ramwr", "param"}
  /\ ioLeft \in Nat
  /\ ioBuf \in Buffers
  /\ ioChunks \in Nat
  /\ ioSlot \in Slots

SpiInit ==
  /\ pool = [s \in Slots |-> Blank]
  /\ inflight = 0
  /\ flight = <<>>
  /\ nret = 0
  /\ wire = "idle"
  /\ cb = FALSE
  /\ flushing = FALSE
  /\ mem = [b \in Buffers |-> Freed]
  /\ gram = NoImage
  /\ screen = NoImage
  /\ ioPc = "idle"
  /\ ioCmd = "param"
  /\ ioLeft = 0
  /\ ioBuf \in Buffers
  /\ ioChunks = 0
  /\ ioSlot = 0

-----------------------------------------------------------------------------
(* The calling task.                                                       *)

(* Mutant of Memset: the descriptor keeps what its last use left in it. *)
MemsetForgotten(s) == pool[s]

(* memset(lcd_trans, 0, sizeof(lcd_spi_trans_descriptor_t)) *)
Memset(s) == Blank

(* Mutant of PostCb: the callback is never called. *)
PostCbLost(d, img) == UNCHANGED <<flushing, screen>>

(* lcd_spi_post_trans_color_cb of descriptor d, with lvgl_port's           *)
(* flush-ready callback and lv_disp_flush_ready behind it; img is what the *)
(* panel has received by then.                                             *)
PostCb(d, img) ==
  IF d.en_trans_done_cb /\ cb
    THEN flushing' = FALSE /\ screen' = img
    ELSE UNCHANGED <<flushing, screen>>

(* Entry of panel_io_spi_tx_param / _tx_color: take the bus and note how   *)
(* many transactions must be waited for.                                   *)
TxBegin(cmd, b, n) ==
  /\ ioPc = "idle"
  /\ ioPc' = "drain"
  /\ ioCmd' = cmd
  /\ ioLeft' = inflight
  /\ ioBuf' = b
  /\ ioChunks' = n
  /\ ioSlot' = ioSlot

(* Mutant of GetTransResult: num_trans_inflight is not counted down. *)
GetTransResultUncounted ==
  /\ nret > 0
  /\ flight' = Tail(flight)
  /\ nret' = nret - 1
  /\ inflight' = inflight

(* spi_device_get_trans_result: take the oldest result of ret_queue *)
GetTransResult ==
  /\ nret > 0
  /\ flight' = Tail(flight)
  /\ nret' = nret - 1
  /\ inflight' = inflight - 1

(* One round of "wait queued transactions finished". *)
DrainOne ==
  /\ ioPc = "drain"
  /\ ioLeft > 0
  /\ GetTransResult
  /\ ioLeft' = ioLeft - 1
  /\ UNCHANGED <<pool, wire, cb, flushing, gram, screen, mem,
                 ioPc, ioCmd, ioBuf, ioChunks, ioSlot>>

(* spi_device_polling_transmit of the command (and, for a parameter        *)
(* command, of the parameter) with descriptor 0.  It waits until the       *)
(* driver's background work is done; its end calls post_cb as well.        *)
PollingTransmit ==
  /\ ioPc = "drain"
  /\ ioLeft = 0
  /\ wire = "idle" /\ nret = Len(flight)
  /\ pool' = [pool EXCEPT ![0] = Memset(0)]
  /\ PostCb(Memset(0), gram)
  /\ UNCHANGED <<inflight, flight, nret, wire, cb, mem, ioBuf, ioChunks, ioSlot>>

(* draw_bitmap sets the column and the row window, then writes the pixels. *)
NextCmd == [caset |-> "raset", raset |-> "ramwr"]

TxParamWindow ==
  /\ ioCmd \in {"caset", "raset"}
  /\ PollingTransmit
  /\ ioPc' = "drain"
  /\ ioCmd' = NextCmd[ioCmd]
  /\ ioLeft' = inflight
  /\ UNCHANGED gram

(* Any other parameter command, such as esp_lcd_panel_disp_on_off. *)
TxParamOther ==
  /\ ioCmd = "param"
  /\ PollingTransmit
  /\ ioPc' = "idle"
  /\ UNCHANGED <<ioCmd, ioLeft, gram>>

TxColorCommand ==
  /\ ioCmd = "ramwr"
  /\ PollingTransmit
  /\ ioPc' = "chunk"
  /\ gram' = NoImage
  /\ UNCHANGED <<ioCmd, ioLeft>>

(* Get the next available transaction ... *)
TakeDescriptor ==
  /\ ioPc = "chunk"
  /\ inflight < Depth
  /\ ioSlot' = inflight
  /\ ioPc' = "queue"
  /\ UNCHANGED <<spiVars, mem, ioCmd, ioLeft, ioBuf, ioChunks>>

(* Mutant of RecycleDescriptor: it takes descriptor 0, not the returned one. *)
RecycleFirst ==
  /\ ioPc = "chunk"
  /\ inflight = Depth
  /\ GetTransResult
  /\ ioSlot' = 0
  /\ ioPc' = "queue"
  /\ UNCHANGED <<pool, wire, cb, flushing, gram, screen, mem,
                 ioCmd, ioLeft, ioBuf, ioChunks>>

(* ... or, when the pool has been used up, recycle the oldest one. *)
RecycleDescriptor ==
  /\ ioPc = "chunk"
  /\ inflight = Depth
  /\ GetTransResult
  /\ ioSlot' = Head(flight).slot
  /\ ioPc' = "queue"
  /\ UNCHANGED <<pool, wire, cb, flushing, gram, screen, mem,
                 ioCmd, ioLeft, ioBuf, ioChunks>>

(* Mutants of ChunkDescriptor: every chunk asks for the callback, or none. *)
EveryChunkCallsBack ==
  [Memset(ioSlot) EXCEPT !.en_trans_done_cb = TRUE, !.tx_buffer = ioBuf]
NoChunkCallsBack ==
  [Memset(ioSlot) EXCEPT !.en_trans_done_cb = FALSE, !.tx_buffer = ioBuf]

(* Only the last chunk asks for the completion callback. *)
ChunkDescriptor ==
  [Memset(ioSlot) EXCEPT !.en_trans_done_cb = (ioChunks = 1), !.tx_buffer = ioBuf]

(* Mutant of ChunkTransaction: the caller's buffer is sent as it is. *)
ChunkInPlace == [slot |-> ioSlot, buf |-> ioBuf, copy |-> NoCopy]

(* setup_priv_desc: memory that is not DMA-capable is copied now. *)
ChunkTransaction ==
  [slot |-> ioSlot, buf |-> ioBuf,
   copy |-> IF ioBuf \in DmaBuffers THEN NoCopy ELSE mem[ioBuf]]

(* spi_device_queue_trans succeeds; the loop ends with the last chunk. *)
QueueTrans ==
  /\ ioPc = "queue"
  /\ pool' = [pool EXCEPT ![ioSlot] = ChunkDescriptor]
  /\ flight' = Append(flight, ChunkTransaction)
  /\ inflight' = inflight + 1
  /\ ioChunks' = ioChunks - 1
  /\ ioPc' = IF ioChunks = 1 THEN "idle" ELSE "chunk"
  /\ UNCHANGED <<nret, wire, cb, flushing, gram, screen, mem,
                 ioCmd, ioLeft, ioBuf, ioSlot>>

(* No memory for the bounce buffer: tx_color gives up with ESP_ERR_NO_MEM, *)
(* which draw_bitmap and lvgl_port_flush_callback drop.                    *)
QueueTransNoMem ==
  /\ ioPc = "queue"
  /\ ioBuf \in MayRunOut \ DmaBuffers
  /\ pool' = [pool EXCEPT ![ioSlot] = ChunkDescriptor]
  /\ ioPc' = "idle"
  /\ UNCHANGED <<inflight, flight, nret, wire, cb, flushing, gram, screen, mem,
                 ioCmd, ioLeft, ioBuf, ioChunks, ioSlot>>

IoStep ==
  \/ DrainOne \/ TxParamWindow \/ TxParamOther \/ TxColorCommand
  \/ TakeDescriptor \/ RecycleDescriptor \/ QueueTrans \/ QueueTransNoMem

-----------------------------------------------------------------------------
(* The SPI interrupt and the DMA transfer.                                 *)

(* spi_new_trans of the oldest entry of trans_queue *)
SpiStart ==
  /\ wire = "idle"
  /\ nret < Len(flight)
  /\ wire' = "busy"
  /\ UNCHANGED <<pool, inflight, flight, nret, cb, flushing, gram, screen, mem, ioVars>>

(* What the DMA sent: the bounce buffer, or the caller's buffer as it is. *)
Sent(t) == IF t.copy = NoCopy THEN mem[t.buf] ELSE t.copy

(* The transfer has ended: spi_post_trans calls post_cb on the descriptor. *)
SpiDone ==
  /\ wire = "busy"
  /\ wire' = "posted"
  /\ LET t == flight[nret + 1]
         img == [cnt |-> gram.cnt + 1, vals |-> gram.vals \cup {Sent(t)}]
     IN  gram' = img /\ PostCb(pool[t.slot], img)
  /\ UNCHANGED <<pool, inflight, flight, nret, cb, mem, ioVars>>

(* ... and only then is the descriptor given to ret_queue. *)
SpiReturn ==
  /\ wire = "posted"
  /\ wire' = "idle"
  /\ nret' = nret + 1
  /\ UNCHANGED <<pool, inflight, flight, cb, flushing, gram, screen, mem, ioVars>>

IsrStep == SpiStart \/ SpiDone \/ SpiReturn

-----------------------------------------------------------------------------
(* How many of the held transactions the DMA is through with. *)
Sents == nret + (IF wire = "posted" THEN 1 ELSE 0)

(* Transactions whose data the DMA has yet to read. *)
Unsent == Len(flight) - Sents

(* The driver's two queues have Depth slots and the interrupt ignores a    *)
(* full ret_queue (spi_master.c:697), which would lose a descriptor and    *)
(* leave the next drain waiting for ever: num_trans_inflight always counts *)
(* exactly the descriptors the driver holds, and there is a slot for each. *)
InflightExact ==
  /\ inflight = Len(flight)
  /\ inflight <= Depth
  /\ nret <= Len(flight)
  /\ wire # "idle" => nret < Len(flight)

(* A descriptor is never rewritten, nor handed over a second time, while   *)
(* the driver holds it: the interrupt reads en_trans_done_cb from it when  *)
(* the transfer ends.                                                      *)
DescriptorsIntact ==
  /\ \A i \in 1 .. Len(flight) : pool[flight[i].slot].tx_buffer = flight[i].buf
  /\ \A i, j \in 1 .. Len(flight) : flight[i].slot = flight[j].slot => i = j

-----------------------------------------------------------------------------
(* The inductive invariant behind those two, whoever calls the panel IO.   *)

Held == 1 .. Len(flight)

(* Where the call is: what it still waits for, and which descriptors the   *)
(* chunk loop may take.                                                    *)
CallInv ==
  /\ ioPc = "drain" => ioLeft = inflight
  /\ ioPc = "drain" /\ ioCmd # "param" => ioChunks > 0
  /\ ioPc \in {"chunk", "queue"} => ioChunks > 0 /\ ioCmd = "ramwr"
  /\ ioPc = "chunk" => \A i \in Held : flight[i].slot < inflight
  /\ ioPc = "queue" => /\ inflight < Depth
                       /\ ioSlot <= inflight
                       /\ \A i \in Held : /\ flight[i].slot <= inflight
                                         /\ flight[i].slot # ioSlot

SpiInv == SpiTypeOK /\ InflightExact /\ DescriptorsIntact /\ CallInv
=============================================================================
