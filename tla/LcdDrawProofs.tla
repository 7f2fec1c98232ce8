--------------------------- MODULE LcdDrawProofs ----------------------------
(***************************************************************************)
(* Proofs about drawing without LVGL, for every pool depth, every set of   *)
(* buffers and contents and any number of rows and chunks.                 *)
(***************************************************************************)
EXTENDS LcdDraw, SpiPanelIoProofs

(* Where the task is: a drawing function is in the panel IO or has left it,*)
(* and what it handed over is what it still draws.                         *)
PlaceInv ==
  /\ pc = "idle" => ioPc = "idle"
  /\ ioPc # "idle" => ioCmd # "param" /\ ioBuf = drawn.buf

DrawInv == TypeOK /\ SpiInv /\ PlaceInv

(* The last image given to draw_bitmap has one colour or does not exist;   *)
(* the panel has a colour exactly if it has received something.            *)
ImagesInv ==
  /\ \/ drawn.img = NoImage
     \/ drawn.img.cnt > 0 /\ \E v \in Pixels \cup {Freed} : drawn.img.vals = {v}
  /\ gram.cnt = 0 <=> gram.vals = {}

(* Chunks that the call has yet to queue. *)
Unqueued == IF ioPc = "idle" THEN 0 ELSE ioChunks

(* What has been sent, what is held and what is yet to be queued make up a *)
(* picture drawn from the heap, whose content is in the bounce buffers and,*)
(* while the call lasts, in the buffer itself.  Chunks are missing only if *)
(* a bounce buffer could not be allocated.                                 *)
PictureInv ==
  drawn.buf = HeapBuf =>
    /\ ioPc # "idle" => mem[HeapBuf] \in drawn.img.vals
    /\ ioPc = "drain" => ioChunks = drawn.img.cnt
    /\ ioPc # "drain" =>
         /\ \A i \in Sents + 1 .. Len(flight) : flight[i].copy \in drawn.img.vals
         /\ gram.vals \subseteq drawn.img.vals
         /\ HeapBuf \notin MayRunOut => gram.cnt + Unsent + Unqueued = drawn.img.cnt

(* Even when bounce buffers run out, no colour from another picture and no *)
(* freed memory shows in one that was drawn from the heap.                 *)
HeapColoursFaithful ==
  Settled /\ drawn.buf = HeapBuf => gram.vals \subseteq drawn.img.vals

-----------------------------------------------------------------------------
(* What a buffer holds, allocated or not. *)
LEMMA MemType ==
  ASSUME SpiInv, NEW b \in Buffers, NEW v \in Pixels \cup {Freed}
  PROVE  /\ [mem EXCEPT ![b] = v] \in [Buffers -> Pixels \cup {Freed}]
         /\ [mem EXCEPT ![b] = v][b] = v /\ mem[b] \in Pixels \cup {Freed}
BY DEF SpiInv, SpiTypeOK

(* esp_lcd_panel_draw_bitmap hands over an image of one colour. *)
LEMMA DrawnType ==
  ASSUME NEW b \in {HeapBuf, StackBuf}, NEW v \in Pixels \cup {Freed}, NEW n \in Nat
  PROVE  [buf |-> b, img |-> [cnt |-> n, vals |-> {v}]]
           \in [buf : {HeapBuf, StackBuf}, img : Image]
BY DEF Image

(* A call into the panel IO by a drawing function preserves DrawInv. *)
LEMMA DrawBitmapInv ==
  ASSUME DrawInv, NEW b \in {HeapBuf, StackBuf}, NEW v \in Pixels \cup {Freed},
         NEW n \in Nat \ {0}, DrawBitmap(b, v, n), UNCHANGED spiVars,
         mem' \in [Buffers -> Pixels \cup {Freed}],
         pc' \in {"set_color", "pictrue", "point"}, rows' \in 0 .. Rows
  PROVE  DrawInv'
<1>1. b \in Buffers /\ n \in Nat /\ n > 0
  BY DrawAssumption
<1>2. TxBegin("caset", b, n) /\ drawn' = [buf |-> b, img |-> [cnt |-> n, vals |-> {v}]]
  BY DEF DrawBitmap
<1>3. SpiInv /\ flushing' \in BOOLEAN
  BY DEF DrawInv, SpiInv, SpiTypeOK, spiVars
<1>4. SpiInv'
  BY <1>1, <1>2, <1>3, TxBeginSpi DEF spiVars
<1>5. drawn' \in [buf : {HeapBuf, StackBuf}, img : Image]
  BY <1>1, <1>2, DrawnType
<1>6. TypeOK'
  BY <1>4, <1>5 DEF TypeOK, SpiInv
<1>7. PlaceInv'
  BY <1>2 DEF PlaceInv, TxBegin
<1> QED
  BY <1>4, <1>6, <1>7 DEF DrawInv

(* So does what a drawing function does to its buffer outside of it. *)
LEMMA BufferInv ==
  ASSUME DrawInv, UNCHANGED <<spiVars, ioVars, drawn>>, ioPc = "idle",
         mem' \in [Buffers -> Pixels \cup {Freed}],
         pc' \in {"idle", "set_color", "pictrue", "point"}, rows' \in 0 .. Rows
  PROVE  DrawInv'
<1>1. SpiInv /\ cb' \in BOOLEAN /\ flushing' \in BOOLEAN
  BY DEF DrawInv, SpiInv, SpiTypeOK, spiVars
<1>2. SpiInv'
  BY <1>1, OutsideSpi DEF spiVars
<1>3. TypeOK'
  BY <1>2 DEF DrawInv, TypeOK, SpiInv
<1>4. PlaceInv'
  BY DEF PlaceInv, ioVars
<1> QED
  BY <1>2, <1>3, <1>4 DEF DrawInv

(* Every step of lcd_set_color, lcd_draw_pictrue and lcd_draw_point        *)
(* preserves DrawInv.                                                      *)
LEMMA CallerDraw ==
  ASSUME DrawInv, CallerStep
  PROVE  DrawInv'
<1>0. /\ HeapBuf \in Buffers /\ StackBuf \in Buffers /\ SpiInv /\ PlaceInv
      /\ rows \in 0 .. Rows /\ Rows \in 0 .. Rows
      /\ mem \in [Buffers -> Pixels \cup {Freed}]
  BY DrawAssumption DEF DrawInv, TypeOK, SpiInv, SpiTypeOK
<1>1. CASE SetColorAlloc
  <2>1. mem' \in [Buffers -> Pixels \cup {Freed}]
    BY <1>0, <1>1, MemType DEF SetColorAlloc
  <2>2. /\ ioPc = "idle" /\ pc' = "set_color" /\ rows' = Rows
        /\ UNCHANGED <<spiVars, ioVars, drawn>>
    BY <1>0, <1>1 DEF SetColorAlloc, PlaceInv
  <2> QED
    BY <1>0, <2>1, <2>2, BufferInv
<1>2. CASE SetColorRow
  <2>1. mem' = mem /\ mem[HeapBuf] \in Pixels \cup {Freed}
    BY <1>0, <1>2 DEF SetColorRow
  <2>2. rows' \in 0 .. Rows
    BY <1>0, <1>2, DrawAssumption DEF SetColorRow
  <2>3. /\ DrawBitmap(HeapBuf, mem[HeapBuf], 1) /\ UNCHANGED spiVars
        /\ pc' = "set_color"
    BY <1>2 DEF SetColorRow
  <2> QED
    BY <1>0, <2>1, <2>2, <2>3, DrawBitmapInv
<1>3. CASE Picture
  <2>1. PICK v \in Pixels, n \in 1 .. MaxChunks :
          mem' = [mem EXCEPT ![HeapBuf] = v] /\ DrawBitmap(HeapBuf, v, n)
    BY <1>3 DEF Picture
  <2>2. mem' \in [Buffers -> Pixels \cup {Freed}]
    BY <1>0, <2>1, MemType
  <2>3. n \in Nat \ {0}
    BY DrawAssumption
  <2>4. pc' = "pictrue" /\ rows' = rows /\ UNCHANGED spiVars
    BY <1>3 DEF Picture
  <2> QED
    BY <1>0, <2>1, <2>2, <2>3, <2>4, DrawBitmapInv
<1>4. CASE FreeHeap
  <2>1. mem' \in [Buffers -> Pixels \cup {Freed}]
    BY <1>0, <1>4, MemType DEF FreeHeap
  <2>2. /\ ioPc = "idle" /\ pc' = "idle" /\ rows' = rows
        /\ UNCHANGED <<spiVars, ioVars, drawn>>
    BY <1>4 DEF FreeHeap
  <2> QED
    BY <1>0, <2>1, <2>2, BufferInv
<1>5. CASE Point
  <2>1. PICK v \in Pixels :
          mem' = [mem EXCEPT ![StackBuf] = v] /\ DrawBitmap(StackBuf, v, 1)
    BY <1>5 DEF Point
  <2>2. mem' \in [Buffers -> Pixels \cup {Freed}]
    BY <1>0, <2>1, MemType
  <2>3. pc' = "point" /\ rows' = rows /\ UNCHANGED spiVars
    BY <1>5 DEF Point
  <2> QED
    BY <1>0, <2>1, <2>2, <2>3, DrawBitmapInv
<1>6. CASE PointReturn
  <2>1. mem' \in [Buffers -> Pixels \cup {Freed}]
    BY <1>0, <1>6, MemType DEF PointReturn
  <2>2. /\ ioPc = "idle" /\ pc' = "idle" /\ rows' = rows
        /\ UNCHANGED <<spiVars, ioVars, drawn>>
    BY <1>6 DEF PointReturn
  <2> QED
    BY <1>0, <2>1, <2>2, BufferInv
<1> QED
  BY <1>1, <1>2, <1>3, <1>4, <1>5, <1>6 DEF CallerStep

(* Inside the panel IO the caller's buffer is neither written nor replaced.*)
LEMMA IoPlace ==
  ASSUME IoStep
  PROVE  /\ ioPc # "idle" /\ UNCHANGED <<ioBuf, mem>>
         /\ ioCmd # "param" => ioCmd' # "param"
BY DEF IoStep, DrainOne, TxParamWindow, TxParamOther, TxColorCommand, PollingTransmit,
   TakeDescriptor, RecycleDescriptor, QueueTrans, QueueTransNoMem, NextCmd

(* Every step of the task in the panel IO preserves DrawInv. *)
LEMMA IoDraw ==
  ASSUME DrawInv, IoStep, UNCHANGED drawVars
  PROVE  DrawInv'
<1>1. SpiInv'
  BY IoStepSpi DEF DrawInv
<1>2. TypeOK'
  BY <1>1 DEF DrawInv, TypeOK, SpiInv, drawVars
<1>3. PlaceInv'
  BY IoPlace DEF DrawInv, PlaceInv, drawVars
<1> QED
  BY <1>1, <1>2, <1>3 DEF DrawInv

(* Every step of the SPI interrupt preserves DrawInv. *)
LEMMA IsrDraw ==
  ASSUME DrawInv, IsrStep, UNCHANGED drawVars
  PROVE  DrawInv'
<1>1. SpiInv'
  BY IsrStepSpi DEF DrawInv
<1>2. TypeOK'
  BY <1>1 DEF DrawInv, TypeOK, SpiInv, drawVars
<1>3. PlaceInv'
  BY DEF DrawInv, PlaceInv, drawVars, IsrStep, SpiStart, SpiDone, SpiReturn, ioVars
<1> QED
  BY <1>1, <1>2, <1>3 DEF DrawInv

(* DrawInv holds in every reachable state. *)
LEMMA DrawInvariance == Spec => []DrawInv
<1>1. Init => DrawInv
  <2> SUFFICES ASSUME Init PROVE DrawInv
    OBVIOUS
  <2>1. SpiInv /\ PlaceInv
    BY SpiInitial DEF Init, SpiInit, PlaceInv
  <2>2. NoImage \in Image /\ 0 \in 0 .. Rows
    BY DrawAssumption DEF NoImage, Image
  <2>3. TypeOK
    BY <2>1, <2>2 DEF Init, TypeOK, SpiInv
  <2> QED
    BY <2>1, <2>3 DEF DrawInv
<1>2. DrawInv /\ [Next]_vars => DrawInv'
  <2> SUFFICES ASSUME DrawInv, [Next]_vars PROVE DrawInv'
    OBVIOUS
  <2>1. CASE UNCHANGED vars
    <3>1. SpiInv'
      BY <2>1 DEF vars, spiVars, ioVars, DrawInv, SpiInv, SpiTypeOK, InflightExact,
         DescriptorsIntact, CallInv, Held
    <3> QED
      BY <2>1, <3>1 DEF vars, ioVars, drawVars, DrawInv, TypeOK, SpiInv, PlaceInv
  <2> QED
    BY <2>1, CallerDraw, IoDraw, IsrDraw DEF Next
<1> QED
  BY <1>1, <1>2, PTL DEF Spec

(* Type correctness of drawing without LVGL. *)
THEOREM TypeCorrect == Spec => []TypeOK
<1>1. DrawInv => TypeOK
  BY DEF DrawInv
<1> QED
  BY <1>1, DrawInvariance, PTL

(* The drawing functions return without waiting for their transactions,    *)
(* and num_trans_inflight still counts exactly what the driver holds.      *)
THEOREM InflightIsExact == Spec => []InflightExact
<1>1. DrawInv => InflightExact
  BY DEF DrawInv, SpiInv
<1> QED
  BY <1>1, DrawInvariance, PTL

(* However many rows and points are drawn in a row, tx_color never rewrites*)
(* a descriptor the driver still holds, and never queues one twice.        *)
THEOREM DescriptorsStayIntact == Spec => []DescriptorsIntact
<1>1. DrawInv => DescriptorsIntact
  BY DEF DrawInv, SpiInv
<1> QED
  BY <1>1, DrawInvariance, PTL

-----------------------------------------------------------------------------
(* ImagesInv and PictureInv are about what draw_bitmap was given ...       *)
PaintInv == ImagesInv /\ PictureInv

(* A call into the panel IO starts a picture; nothing of it is queued yet. *)
LEMMA DrawBitmapPaint ==
  ASSUME DrawInv, PaintInv, NEW b \in {HeapBuf, StackBuf}, NEW v \in Pixels \cup {Freed},
         NEW n \in Nat \ {0}, DrawBitmap(b, v, n), UNCHANGED spiVars, mem'[b] = v
  PROVE  PaintInv'
<1>1. /\ drawn' = [buf |-> b, img |-> [cnt |-> n, vals |-> {v}]]
      /\ ioPc' = "drain" /\ ioChunks' = n /\ gram' = gram
  BY DEF DrawBitmap, TxBegin, spiVars
<1>2. /\ drawn'.buf = b /\ drawn'.img.cnt = n /\ drawn'.img.vals = {v}
      /\ drawn'.img.cnt > 0
  BY <1>1
<1>3. ImagesInv'
  BY <1>1, <1>2 DEF PaintInv, ImagesInv
<1>4. PictureInv'
  BY <1>1, <1>2 DEF PictureInv
<1> QED
  BY <1>3, <1>4 DEF PaintInv

(* ... and once draw_bitmap has returned the buffer no longer matters:     *)
(* freeing it or filling it again leaves the bounce buffers as they are.   *)
LEMMA BufferPaint ==
  ASSUME PaintInv, UNCHANGED <<spiVars, ioVars, drawn>>, ioPc = "idle"
  PROVE  PaintInv'
<1> USE DEF spiVars, ioVars
<1>1. Sents' = Sents /\ Unsent' = Unsent /\ Unqueued' = Unqueued
  BY DEF Sents, Unsent, Unqueued
<1>2. ImagesInv'
  BY DEF PaintInv, ImagesInv
<1>3. PictureInv'
  BY <1>1 DEF PaintInv, PictureInv
<1> QED
  BY <1>2, <1>3 DEF PaintInv

(* Every step of the drawing functions preserves PaintInv. *)
LEMMA CallerPaint ==
  ASSUME DrawInv, PaintInv, CallerStep
  PROVE  PaintInv'
<1>0. HeapBuf \in Buffers /\ StackBuf \in Buffers /\ SpiInv /\ PlaceInv
  BY DrawAssumption DEF DrawInv
<1>1. CASE SetColorAlloc \/ FreeHeap \/ PointReturn
  <2>1. ioPc = "idle" /\ UNCHANGED <<spiVars, ioVars, drawn>>
    BY <1>0, <1>1 DEF SetColorAlloc, FreeHeap, PointReturn, PlaceInv
  <2> QED
    BY <2>1, BufferPaint
<1>2. CASE SetColorRow
  <2>1. mem'[HeapBuf] = mem[HeapBuf] /\ mem[HeapBuf] \in Pixels \cup {Freed}
    BY <1>0, <1>2 DEF SetColorRow, SpiInv, SpiTypeOK
  <2>2. DrawBitmap(HeapBuf, mem[HeapBuf], 1) /\ UNCHANGED spiVars
    BY <1>2 DEF SetColorRow
  <2> QED
    BY <2>1, <2>2, DrawBitmapPaint
<1>3. CASE Picture
  <2>1. PICK v \in Pixels, n \in 1 .. MaxChunks :
          mem' = [mem EXCEPT ![HeapBuf] = v] /\ DrawBitmap(HeapBuf, v, n)
    BY <1>3 DEF Picture
  <2>2. n \in Nat \ {0} /\ UNCHANGED spiVars
    BY <1>3, DrawAssumption DEF Picture
  <2>3. mem'[HeapBuf] = v
    BY <1>0, <2>1, MemType
  <2> QED
    BY <2>1, <2>2, <2>3, DrawBitmapPaint
<1>4. CASE Point
  <2>1. PICK v \in Pixels :
          mem' = [mem EXCEPT ![StackBuf] = v] /\ DrawBitmap(StackBuf, v, 1)
    BY <1>4 DEF Point
  <2>2. mem'[StackBuf] = v /\ UNCHANGED spiVars
    BY <1>0, <1>4, <2>1, MemType DEF Point
  <2> QED
    BY <2>1, <2>2, DrawBitmapPaint
<1> QED
  BY <1>1, <1>2, <1>3, <1>4 DEF CallerStep

-----------------------------------------------------------------------------
(* Getting results back moves the unsent transactions to the front, no more*)
LEMMA GetTransResultPaint ==
  ASSUME DrawInv, PaintInv, UNCHANGED drawVars, DrainOne \/ RecycleDescriptor
  PROVE  PaintInv'
<1>0. SpiInv /\ GetTransResult /\ UNCHANGED <<pool, wire>>
  BY DEF DrawInv, DrainOne, RecycleDescriptor
<1>1. /\ UNCHANGED <<gram, mem, ioChunks, drawn>> /\ ioPc' # "idle" /\ ioPc # "idle"
      /\ ioPc' = "drain" <=> ioPc = "drain"
  BY DEF DrainOne, RecycleDescriptor, drawVars
<1>2. Unsent' = Unsent /\ Unqueued' = Unqueued
  BY <1>0, <1>1, GetTransResultFacts DEF Unqueued
<1>3. \A i \in Sents' + 1 .. Len(flight') :
        i + 1 \in Sents + 1 .. Len(flight) /\ flight'[i] = flight[i + 1]
  BY <1>0, GetTransResultFacts
<1>4. ImagesInv'
  BY <1>1 DEF PaintInv, ImagesInv
<1>5. PictureInv'
  BY <1>1, <1>2, <1>3 DEF PaintInv, PictureInv
<1> QED
  BY <1>4, <1>5 DEF PaintInv

(* The window commands leave the picture alone; RAMWR starts it, with      *)
(* nothing held that belongs to another.                                   *)
LEMMA PollPaint ==
  ASSUME DrawInv, PaintInv, UNCHANGED drawVars,
         TxParamWindow \/ TxParamOther \/ TxColorCommand
  PROVE  PaintInv'
<1>0. SpiInv /\ PollingTransmit /\ UNCHANGED <<mem, ioChunks, drawn, flight, nret, wire>>
  BY DEF DrawInv, TxParamWindow, TxParamOther, TxColorCommand, PollingTransmit, drawVars
<1>1. ioPc = "drain"
  BY <1>0 DEF PollingTransmit
<1>2. CASE TxParamWindow
  <2>1. ioPc' = "drain" /\ gram' = gram
    BY <1>2 DEF TxParamWindow
  <2> QED
    BY <1>0, <1>1, <2>1 DEF PaintInv, ImagesInv, PictureInv
<1>3. CASE TxParamOther
  BY <1>1, <1>3 DEF TxParamOther, DrawInv, PlaceInv
<1>4. CASE TxColorCommand
  <2>1. ioPc' = "chunk" /\ gram'.cnt = 0 /\ gram'.vals = {}
    BY <1>4 DEF TxColorCommand, NoImage
  <2>2. Len(flight') = 0 /\ Unsent' = 0 /\ Sents' = 0
    BY <1>0, PollingFacts DEF Unsent, Sents
  <2>3. ioChunks \in Nat /\ Unqueued' = ioChunks
    BY <1>0, <2>1 DEF SpiInv, SpiTypeOK, Unqueued
  <2>4. gram'.cnt + Unsent' + Unqueued' = ioChunks
    BY <2>1, <2>2, <2>3
  <2>5. ImagesInv'
    BY <1>0, <2>1 DEF PaintInv, ImagesInv
  <2>6. PictureInv'
    BY <1>0, <1>1, <2>1, <2>2, <2>4 DEF PaintInv, PictureInv
  <2> QED
    BY <2>5, <2>6 DEF PaintInv
<1> QED
  BY <1>2, <1>3, <1>4

(* Queueing a chunk copies the picture's colour, since the heap buffer is  *)
(* not DMA-capable.                                                        *)
LEMMA QueuePaint ==
  ASSUME HeapBuf \notin DmaBuffers,
         DrawInv, PaintInv, UNCHANGED drawVars, QueueTrans
  PROVE  PaintInv'
<1>0. SpiInv /\ PlaceInv /\ gram.cnt \in Nat /\ ioChunks \in Nat
  BY DEF DrawInv, SpiInv, SpiTypeOK, Image
<1>1. /\ ioPc = "queue" /\ ioChunks' = ioChunks - 1 /\ UNCHANGED <<gram, mem, drawn>>
      /\ ioPc' = IF ioChunks = 1 THEN "idle" ELSE "chunk"
  BY DEF QueueTrans, drawVars
<1>2. Unqueued = ioChunks /\ Unqueued' = ioChunks - 1
  BY <1>0, <1>1 DEF Unqueued
<1>3. Unsent' = Unsent + 1 /\ Unsent \in Nat /\ Sents' = Sents /\ Sents \in Nat
  BY <1>0, QueueTransFacts
<1>4. gram'.cnt + Unsent' + Unqueued' = gram.cnt + Unsent + Unqueued
  BY <1>0, <1>1, <1>2, <1>3
<1>5. drawn.buf = HeapBuf => flight'[Len(flight) + 1].copy = mem[HeapBuf]
  BY <1>0, <1>1, QueueTransFacts DEF PlaceInv
<1>6. \A i \in Sents' + 1 .. Len(flight') :
        \/ i \in Sents + 1 .. Len(flight) /\ flight'[i] = flight[i]
        \/ i = Len(flight) + 1
  BY <1>0, <1>3, QueueTransFacts
<1>7. ImagesInv'
  BY <1>1 DEF PaintInv, ImagesInv
<1>8. PictureInv'
  BY <1>1, <1>4, <1>5, <1>6 DEF PaintInv, PictureInv
<1> QED
  BY <1>7, <1>8 DEF PaintInv

(* Taking a descriptor changes nothing of the picture, and a chunk without *)
(* a bounce buffer only ends it early.                                     *)
LEMMA TakePaint ==
  ASSUME DrawInv, PaintInv, UNCHANGED drawVars, TakeDescriptor \/ QueueTransNoMem
  PROVE  PaintInv'
<1>1. /\ UNCHANGED <<gram, mem, drawn, flight, nret, wire, ioChunks>>
      /\ ioPc \in {"chunk", "queue"} /\ ioPc' \in {"queue", "idle"}
      /\ drawn.buf = HeapBuf /\ HeapBuf \notin MayRunOut => ioPc' = "queue"
  BY DEF TakeDescriptor, QueueTransNoMem, spiVars, drawVars, DrawInv, PlaceInv
<1>2. Sents' = Sents /\ Unsent' = Unsent
  BY <1>1 DEF Sents, Unsent
<1>3. drawn.buf = HeapBuf /\ HeapBuf \notin MayRunOut => Unqueued' = Unqueued
  BY <1>1 DEF Unqueued
<1>4. ImagesInv'
  BY <1>1 DEF PaintInv, ImagesInv
<1>5. PictureInv'
  BY <1>1, <1>2, <1>3 DEF PaintInv, PictureInv
<1> QED
  BY <1>4, <1>5 DEF PaintInv

(* A transfer moves one chunk of the picture from the bounce buffer to the *)
(* panel.                                                                  *)
LEMMA IsrPaint ==
  ASSUME DrawInv, PaintInv, UNCHANGED drawVars, IsrStep
  PROVE  PaintInv'
<1>0. SpiInv /\ drawn' = drawn /\ drawn.img \in Image
  BY DEF DrawInv, TypeOK, drawVars
<1>1. CASE SpiStart \/ SpiReturn
  <2>1. Sents' = Sents /\ Unsent' = Unsent /\ UNCHANGED <<flight, gram, mem, ioVars>>
    BY <1>0, <1>1, SpiStartReturnFacts
  <2>2. Unqueued' = Unqueued
    BY <2>1 DEF Unqueued, ioVars
  <2>3. ImagesInv'
    BY <1>0, <2>1 DEF PaintInv, ImagesInv
  <2>4. PictureInv'
    BY <1>0, <2>1, <2>2 DEF PaintInv, PictureInv, ioVars
  <2> QED
    BY <2>3, <2>4 DEF PaintInv
<1>2. CASE SpiDone
  <2> DEFINE t == flight[nret + 1]
  <2>1. UNCHANGED <<flight, mem, ioPc, ioChunks>>
    BY <1>2 DEF SpiDone, ioVars
  <2>2. /\ gram'.cnt = gram.cnt + 1 /\ gram.cnt \in Nat
        /\ gram'.vals = gram.vals \cup {Sent(t)}
        /\ Unsent' = Unsent - 1 /\ Unsent \in Nat
        /\ Sents' = Sents + 1 /\ Sents \in Nat
        /\ nret + 1 \in Sents + 1 .. Len(flight)
    BY <1>0, <1>2, SpiDoneFacts
  <2>3. gram'.cnt # 0
    BY <2>2
  <2>4. ImagesInv'
    BY <1>0, <2>2, <2>3 DEF PaintInv, ImagesInv
  <2>5. Unqueued' = Unqueued /\ Unqueued \in Nat
    BY <1>0, <2>1 DEF Unqueued, SpiInv, SpiTypeOK
  <2>6. gram'.cnt + Unsent' + Unqueued' = gram.cnt + Unsent + Unqueued
    BY <2>2, <2>5
  <2>7. ASSUME drawn.buf = HeapBuf, ioPc # "drain"
        PROVE  gram'.vals \subseteq drawn.img.vals
    <3>1. t.copy \in drawn.img.vals /\ gram.vals \subseteq drawn.img.vals
      BY <2>2, <2>7 DEF PaintInv, PictureInv
    <3>2. NoCopy \notin drawn.img.vals
      BY <1>0, PixelAssumption DEF Image
    <3>3. Sent(t) = t.copy
      BY <3>1, <3>2 DEF Sent
    <3> QED
      BY <2>2, <3>1, <3>3
  <2>8. \A i \in Sents' + 1 .. Len(flight') : i \in Sents + 1 .. Len(flight)
    BY <2>1, <2>2
  <2>9. PictureInv'
    BY <1>0, <2>1, <2>6, <2>7, <2>8 DEF PaintInv, PictureInv
  <2> QED
    BY <2>4, <2>9 DEF PaintInv
<1> QED
  BY <1>1, <1>2 DEF IsrStep

(* PaintInv holds in every reachable state, if the heap buffer is in PSRAM.*)
LEMMA PaintInvariance ==
  ASSUME HeapBuf \notin DmaBuffers
  PROVE  Spec => []PaintInv
<1>1. Init => PaintInv
  <2> SUFFICES ASSUME Init PROVE PaintInv
    OBVIOUS
  <2>1. /\ drawn.img = NoImage /\ gram = NoImage /\ ioPc = "idle" /\ Len(flight) = 0
        /\ nret = 0 /\ wire = "idle"
    BY DEF Init, SpiInit
  <2>2. gram.cnt = 0 /\ gram.vals = {} /\ drawn.img.cnt = 0
    BY <2>1 DEF NoImage
  <2>3. Unsent = 0 /\ Sents = 0 /\ Unqueued = 0
    BY <2>1 DEF Unsent, Sents, Unqueued
  <2>4. ImagesInv
    BY <2>1, <2>2 DEF ImagesInv
  <2>5. PictureInv
    BY <2>1, <2>2, <2>3 DEF PictureInv
  <2> QED
    BY <2>4, <2>5 DEF PaintInv
<1>2. DrawInv /\ PaintInv /\ [Next]_vars => PaintInv'
  <2> SUFFICES ASSUME DrawInv, PaintInv, [Next]_vars PROVE PaintInv'
    OBVIOUS
  <2>1. CASE CallerStep
    BY <2>1, CallerPaint
  <2>2. CASE IoStep /\ UNCHANGED drawVars
    BY <2>2, GetTransResultPaint, PollPaint, QueuePaint, TakePaint DEF IoStep
  <2>3. CASE IsrStep /\ UNCHANGED drawVars
    BY <2>3, IsrPaint
  <2>4. CASE UNCHANGED vars
    <3>1. /\ UNCHANGED <<gram, drawn, mem, ioPc, ioChunks, flight>>
          /\ Sents' = Sents /\ Unsent' = Unsent /\ Unqueued' = Unqueued
      BY <2>4 DEF vars, spiVars, ioVars, drawVars, Sents, Unsent, Unqueued
    <3> QED
      BY <3>1 DEF PaintInv, ImagesInv, PictureInv
  <2> QED
    BY <2>1, <2>2, <2>3, <2>4 DEF Next
<1> QED
  BY <1>1, <1>2, DrawInvariance, PTL DEF Spec

(* lcd_set_color and lcd_draw_pictrue give their buffer back with          *)
(* transactions still queued on it.  In PSRAM, as they allocate it, that is*)
(* harmless: as long as bounce buffers can be had the panel ends up with   *)
(* exactly the picture, whatever is drawn before and after.                *)
THEOREM HeapDrawsAreFaithful ==
  ASSUME HeapBuf \notin DmaBuffers, HeapBuf \notin MayRunOut
  PROVE  Spec => []HeapDrawsFaithful
<1>1. DrawInv /\ PaintInv => HeapDrawsFaithful
  <2> SUFFICES ASSUME DrawInv, PaintInv, ioPc = "idle", Unsent = 0, drawn.buf = HeapBuf
               PROVE  gram = drawn.img
    BY DEF HeapDrawsFaithful, Settled
  <2>1. gram \in Image /\ drawn.img \in Image /\ gram.cnt \in Nat
    BY DEF DrawInv, TypeOK, SpiTypeOK, Image
  <2>2. Unqueued = 0
    BY DEF Unqueued
  <2>3. gram.cnt + Unsent + Unqueued = drawn.img.cnt /\ gram.vals \subseteq drawn.img.vals
    BY DEF PaintInv, PictureInv
  <2>4. gram.cnt = drawn.img.cnt
    BY <2>1, <2>2, <2>3
  <2>5. gram.vals = drawn.img.vals
    <3>1. CASE drawn.img = NoImage
      BY <2>3, <3>1 DEF NoImage
    <3>2. CASE drawn.img # NoImage
      <4>1. PICK v : drawn.img.vals = {v}
        BY <3>2 DEF PaintInv, ImagesInv
      <4>2. gram.vals # {}
        BY <2>1, <2>4, <3>2 DEF PaintInv, ImagesInv
      <4> QED
        BY <2>3, <4>1, <4>2
    <3> QED
      BY <3>1, <3>2
  <2> QED
    BY <2>1, <2>4, <2>5 DEF Image
<1> QED
  BY <1>1, DrawInvariance, PaintInvariance, PTL

(* If bounce buffers can run out, tx_color gives up in the middle of a     *)
(* picture and nobody is told; still the panel never shows a colour that is*)
(* not in it, although its buffer has been freed or filled again.          *)
THEOREM HeapColoursAreFaithful ==
  ASSUME HeapBuf \notin DmaBuffers
  PROVE  Spec => []HeapColoursFaithful
<1>1. PaintInv => HeapColoursFaithful
  BY DEF PaintInv, PictureInv, HeapColoursFaithful, Settled
<1> QED
  BY <1>1, PaintInvariance, PTL
=============================================================================
