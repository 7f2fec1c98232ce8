------------------------- MODULE DisplayFlushProofs -------------------------
(***************************************************************************)
(* IInv of DisplayFlush is inductive, for every pool depth, every set of   *)
(* buffers and contents, any number of rows, parts and chunks, and whether *)
(* or not bounce buffers can run out.  RenderExclusive, FlushFaithful and  *)
(* the refinement of FrameChannel follow.                                  *)
(***************************************************************************)
EXTENDS DisplayFlush, SpiPanelIoProofs

(* The parts of IInv that the main task and LVGL can disturb, when they do *)
(* not enter the panel IO and leave the driver alone.                      *)
LEMMA MainStepInv ==
  ASSUME IInv, MainStep
  PROVE  IInv'
<1> USE DepthAssumption, PixelAssumption, ClientAssumption
<1> USE DEF IInv, TypeOK, SpiInv, SpiTypeOK, Image, NoImage, InflightExact,
            DescriptorsIntact, TaskInv, CallInv, LastInv, QuietInv, ImageInv, FlushFaithful,
            Held, Sents, Unsent, spiVars, ioVars
<1>1. CASE BootAlloc
  BY <1>1 DEF BootAlloc
<1>2. CASE BootRow
  BY <1>2 DEF BootRow, TxBegin
<1>3. CASE BootFree
  BY <1>3 DEF BootFree
<1>4. CASE BootDispOn
  BY <1>4 DEF BootDispOn, TxBegin
<1>5. CASE BootRegister
  BY <1>5 DEF BootRegister
<1> QED
  BY <1>1, <1>2, <1>3, <1>4, <1>5 DEF MainStep

(* A step of the LVGL task that stays outside the panel IO, or enters it  *)
(* with a new flush (refr_area_part, draw_buf_flush), preserves IInv.      *)
LEMMA LvglStepInv ==
  ASSUME IInv, LvglStep
  PROVE  IInv'
<1> USE DepthAssumption, PixelAssumption, ClientAssumption
<1> USE DEF IInv, TypeOK, SpiInv, SpiTypeOK, Image, NoImage, InflightExact,
            DescriptorsIntact, TaskInv, CallInv, LastInv, QuietInv, ImageInv, FlushFaithful,
            Held, Sents, Unsent, spiVars, ioVars
<1>1. CASE HandlerEnter
  BY <1>1 DEF HandlerEnter
<1>2. CASE SpinWhileFlushing
  BY <1>2 DEF SpinWhileFlushing, vars, clientVars
<1>3. CASE BufferFree
  BY <1>3 DEF BufferFree
<1>4. CASE Render
  BY <1>4 DEF Render
<1>5. CASE FlushBegin
  BY <1>5 DEF FlushBegin, TxBegin
<1>6. CASE FlushReturn
  BY <1>6 DEF FlushReturn
<1> QED
  BY <1>1, <1>2, <1>3, <1>4, <1>5, <1>6 DEF LvglStep

(* The panel IO and the interrupt leave the state of the two tasks alone.  *)
LEMMA ClientType ==
  ASSUME IInv, SpiInv', UNCHANGED clientVars
  PROVE  TypeOK'
BY DEF IInv, SpiInv, TypeOK, clientVars

(* One round of the wait for queued transactions in tx_param and tx_color  *)
(* preserves IInv.                                                         *)
LEMMA DrainOneInv ==
  ASSUME IInv, DrainOne, UNCHANGED clientVars
  PROVE  IInv'
<1>1. SpiInv /\ SpiInv' /\ TypeOK'
  BY DrainOneSpi, ClientType DEF IInv
<1> USE <1>1 DEF DrainOne, clientVars
<1>0. GetTransResult /\ UNCHANGED <<pool, wire>>
  OBVIOUS
<1>2. TaskInv' /\ FlushFaithful'
  BY DEF IInv, TaskInv, FlushFaithful
<1>3. LastInv'
  <2> SUFFICES ASSUME NEW i \in 1 .. Len(flight'), pool[flight'[i].slot].en_trans_done_cb
               PROVE  i = Len(flight')
    BY DEF LastInv, Held
  <2>1. i + 1 \in 1 .. Len(flight) /\ pool[flight[i + 1].slot].en_trans_done_cb
    BY <1>0, GetTransResultFacts
  <2>2. i + 1 = Len(flight)
    BY <2>1 DEF IInv, LastInv, Held
  <2> QED
    BY <2>2, <1>0, GetTransResultFacts
<1>4. QuietInv' /\ ImageInv'
  BY <1>0, GetTransResultFacts DEF IInv, QuietInv, ImageInv
<1> QED
  BY <1>1, <1>2, <1>3, <1>4 DEF IInv

(* Recycling the oldest descriptor when all are in flight preserves IInv:  *)
(* its slot is free again, and none of the others is touched.              *)
LEMMA RecycleDescriptorInv ==
  ASSUME IInv, RecycleDescriptor, UNCHANGED clientVars
  PROVE  IInv'
<1>1. SpiInv /\ SpiInv' /\ TypeOK'
  BY RecycleDescriptorSpi, ClientType DEF IInv
<1> USE <1>1 DEF RecycleDescriptor, clientVars
<1>0. GetTransResult /\ UNCHANGED <<pool, wire>>
  OBVIOUS
<1>2. TaskInv' /\ FlushFaithful'
  BY DEF IInv, TaskInv, FlushFaithful, SpiInv, CallInv
<1>4. LastInv'
  <2> SUFFICES ASSUME NEW i \in 1 .. Len(flight')
               PROVE  ~ pool[flight'[i].slot].en_trans_done_cb
    BY DEF LastInv, Held
  <2>1. flight'[i] = flight[i + 1] /\ i + 1 \in 1 .. Len(flight)
    BY <1>0, GetTransResultFacts
  <2> QED
    BY <2>1 DEF IInv, LastInv, Held
<1>5. QuietInv'
  BY <1>0, GetTransResultFacts DEF IInv, QuietInv, TaskInv
<1>6. ImageInv'
  <2> SUFFICES ASSUME cb, flushing
               PROVE  ImageInv'
    BY DEF ImageInv
  <2>1. \A i \in Sents' + 1 .. Len(flight') :
          i + 1 \in Sents + 1 .. Len(flight) /\ flight'[i] = flight[i + 1]
    BY <1>0, GetTransResultFacts
  <2> QED
    BY <2>1, <1>0, GetTransResultFacts DEF IInv, ImageInv
<1> QED
  BY <1>2, <1>4, <1>5, <1>6 DEF IInv

(* The polled command of tx_param and tx_color preserves IInv: it never    *)
(* calls back, since descriptor 0 has just been cleared.                   *)
LEMMA PollInv ==
  ASSUME IInv, UNCHANGED clientVars,
         TxParamWindow \/ TxParamOther \/ TxColorCommand
  PROVE  IInv'
<1>0. PollingTransmit
  BY DEF TxParamWindow, TxParamOther, TxColorCommand
<1>1. SpiInv /\ SpiInv' /\ TypeOK'
  BY PollSpi, ClientType DEF IInv
<1> USE <1>0, <1>1, PollingFacts
<1> USE DEF TxParamWindow, TxParamOther, TxColorCommand, clientVars, NextCmd
<1>2. LastInv'
  BY DEF PollingTransmit, LastInv, Held
<1>3. TaskInv' /\ FlushFaithful'
  BY DEF PollingTransmit, IInv, TaskInv, FlushFaithful, SpiInv, SpiTypeOK
<1>4. Unsent' = 0 /\ Len(flight') = 0 /\ Sents' = 0
  BY DEF PollingTransmit, Sents, Unsent
<1>5. ASSUME TxColorCommand, flushing, cb
      PROVE  gram'.cnt + Unsent' + ioChunks' = handed.cnt /\ gram'.vals = {}
  <2>1. ioChunks = handed.cnt /\ ioChunks \in Nat /\ UNCHANGED ioChunks
    BY <1>5 DEF IInv, ImageInv, PollingTransmit, TypeOK, SpiTypeOK
  <2>2. gram'.cnt = 0 /\ gram'.vals = {}
    BY <1>5 DEF NoImage
  <2> QED
    BY <1>4, <2>1, <2>2
<1>6. QuietInv' /\ ImageInv'
  BY <1>4, <1>5 DEF PollingTransmit, IInv, TaskInv, QuietInv, ImageInv
<1> QED
  BY <1>2, <1>3, <1>6 DEF IInv

(* Taking the next unused descriptor of trans_pool preserves IInv.         *)
LEMMA TakeDescriptorInv ==
  ASSUME IInv, TakeDescriptor, UNCHANGED clientVars
  PROVE  IInv'
<1>1. SpiInv' /\ TypeOK'
  BY TakeDescriptorSpi, ClientType DEF IInv
<1> USE DEF TakeDescriptor, clientVars, spiVars
<1>2. TaskInv' /\ FlushFaithful'
  BY DEF IInv, TaskInv, FlushFaithful, SpiInv, CallInv
<1>3. LastInv' /\ QuietInv' /\ ImageInv'
  BY DEF IInv, LastInv, QuietInv, ImageInv, Held, Sents, Unsent
<1> QED
  BY <1>1, <1>2, <1>3 DEF IInv

(* A chunk that gets no bounce buffer, and so ends its call, preserves     *)
(* IInv: the flush stays pending.                                          *)
LEMMA QueueTransNoMemInv ==
  ASSUME IInv, QueueTransNoMem, UNCHANGED clientVars
  PROVE  IInv'
<1>1. SpiInv /\ SpiInv' /\ TypeOK'
  BY QueueTransNoMemSpi, ClientType DEF IInv
<1> USE <1>1, TakenDescriptor DEF QueueTransNoMem, clientVars
<1>2. TaskInv' /\ FlushFaithful'
  BY DEF IInv, TaskInv, FlushFaithful, SpiInv, CallInv
<1>3. \A i \in Held : ~ pool'[flight[i].slot].en_trans_done_cb
  BY DEF IInv, LastInv, Held
<1>4. LastInv'
  BY <1>3 DEF LastInv, Held
<1>5. QuietInv'
  BY DEF IInv, QuietInv, TaskInv, Sents, Unsent
<1>6. ImageInv'
  <2>1. \A i \in Sents + 1 .. Len(flight) : i \in Held
    BY Counts DEF Held
  <2> QED
    BY <2>1, <1>3 DEF IInv, ImageInv, Sents, Unsent
<1> QED
  BY <1>2, <1>4, <1>5, <1>6 DEF IInv

(* Queueing a chunk (spi_device_queue_trans) preserves IInv; the last one  *)
(* becomes the only transaction that asks for the callback.                *)
LEMMA QueueTransInv ==
  ASSUME IInv, QueueTrans, UNCHANGED clientVars
  PROVE  IInv'
<1>u. /\ ioPc = "queue" /\ inflight' = inflight + 1 /\ ioChunks' = ioChunks - 1
      /\ pool' = [pool EXCEPT ![ioSlot] = ChunkDescriptor]
      /\ ioPc' = IF ioChunks = 1 THEN "idle" ELSE "chunk"
      /\ UNCHANGED <<nret, wire, cb, flushing, gram, screen, mem, ioCmd, ioLeft,
                     ioBuf, ioSlot, drawBuf, bootPc, rows, lvPc, parts, handed>>
  BY DEF QueueTrans, clientVars
<1>1. SpiInv /\ SpiInv' /\ TypeOK'
  BY QueueTransSpi, ClientType DEF IInv
<1> USE <1>u, <1>1
<1>2. TaskInv' /\ FlushFaithful'
  BY DEF IInv, TaskInv, FlushFaithful, SpiInv, CallInv
<1>3. LastInv'
  <2>1. \A i \in 1 .. Len(flight) : ~ pool'[flight'[i].slot].en_trans_done_cb
    BY QueueTransFacts, TakenDescriptor DEF IInv, LastInv, Held
  <2>2. pool'[flight'[Len(flight) + 1].slot].en_trans_done_cb => ioPc' = "idle"
    BY QueueTransFacts, TakenDescriptor
  <2> QED
    BY <2>1, <2>2, QueueTransFacts DEF LastInv, Held
<1>4. QuietInv'
  BY DEF IInv, QuietInv, TaskInv
<1>5. ImageInv'
  <2> SUFFICES ASSUME cb, flushing
               PROVE  ImageInv'
    BY DEF ImageInv
  <2>0. Unsent' = Unsent + 1 /\ Unsent \in Nat /\ Sents' = Sents /\ Sents \in Nat
    BY QueueTransFacts
  <2>1. ioBuf = drawBuf /\ gram.cnt + Unsent + ioChunks = handed.cnt
    BY DEF IInv, ImageInv, TaskInv
  <2>2. \A i \in Sents' + 1 .. Len(flight') :
          flight'[i].buf = drawBuf /\ flight'[i].copy \in {NoCopy, mem[drawBuf]}
    <3>1. flight'[Len(flight) + 1].buf = drawBuf
          /\ flight'[Len(flight) + 1].copy \in {NoCopy, mem[drawBuf]}
      BY <2>1, QueueTransFacts
    <3>2. \A i \in Sents + 1 .. Len(flight) :
            flight[i].buf = drawBuf /\ flight[i].copy \in {NoCopy, mem[drawBuf]}
      BY DEF IInv, ImageInv
    <3>3. \A i \in Sents' + 1 .. Len(flight') :
            \/ i \in Sents + 1 .. Len(flight) /\ flight'[i] = flight[i]
            \/ i = Len(flight) + 1
      BY <2>0, QueueTransFacts
    <3> QED
      BY <3>1, <3>2, <3>3
  <2>3. gram.cnt \in Nat /\ handed.cnt \in Nat /\ ioChunks \in Nat
    BY DEF IInv, TypeOK, SpiTypeOK, Image
  <2>4. ASSUME NEW i \in Sents' + 1 .. Len(flight'), pool'[flight'[i].slot].en_trans_done_cb
        PROVE  gram.cnt + Unsent' = handed.cnt
    <3>1. i \in 1 .. Len(flight')
      BY QueueTransFacts
    <3>2. ioChunks = 1
      BY <1>3, <3>1, <2>4 DEF LastInv, Held
    <3> QED
      BY <3>2, <2>0, <2>1, <2>3
  <2>5. gram.cnt + Unsent' + ioChunks' = handed.cnt
    BY <2>0, <2>1, <2>3
  <2> QED
    BY <2>1, <2>2, <2>4, <2>5 DEF IInv, ImageInv
<1> QED
  BY <1>2, <1>3, <1>4, <1>5 DEF IInv

(* The end of a transfer, with spi_post_trans and the flush-ready callback,*)
(* preserves IInv: if it calls back, it was the last chunk of the image.   *)
LEMMA SpiDoneInv ==
  ASSUME IInv, SpiDone, UNCHANGED clientVars
  PROVE  IInv'
<1> DEFINE t == flight[nret + 1]
           img == [cnt |-> gram.cnt + 1, vals |-> gram.vals \cup {Sent(t)}]
<1> USE DEF clientVars
<1>1. /\ wire = "busy" /\ wire' = "posted" /\ gram' = img /\ PostCb(pool[t.slot], img)
      /\ UNCHANGED <<pool, inflight, flight, nret, cb, mem, ioVars>>
  BY DEF SpiDone
<1>2. /\ nret + 1 \in 1 .. Len(flight) /\ Len(flight) \in Nat
      /\ Sents = nret /\ Sents' = nret + 1 /\ nret \in Nat
      /\ Unsent' = Unsent - 1 /\ Unsent > 0 /\ Unsent \in Nat /\ Unsent' \in Nat
      /\ Unsent = Len(flight) - nret
  BY SpiDoneFacts DEF IInv
<1>4. SpiInv' /\ TypeOK'
  BY SpiDoneSpi, ClientType DEF IInv
<1>5. LastInv'
  BY <1>1 DEF IInv, LastInv, Held, ioVars
<1>6. CASE ~ (pool[t.slot].en_trans_done_cb /\ cb)
  <2>1. UNCHANGED <<flushing, screen>>
    BY <1>1, <1>6 DEF PostCb
  <2>2. TaskInv' /\ FlushFaithful'
    BY <1>1, <2>1 DEF IInv, TaskInv, FlushFaithful, ioVars
  <2>3. QuietInv'
    BY <1>1, <1>2, <2>1 DEF IInv, QuietInv, ioVars
  <2>4. ImageInv'
    <3> SUFFICES ASSUME cb, flushing
                 PROVE  ImageInv'
      BY <1>1, <2>1 DEF ImageInv
    <3>1. ioPc # "drain"
      BY <1>2 DEF IInv, QuietInv
    <3>2. /\ handed.vals = {mem[drawBuf]} /\ gram.vals \subseteq handed.vals
          /\ Sent(t) = mem[drawBuf]
      <4>1. nret + 1 \in Sents + 1 .. Len(flight)
        BY <1>2
      <4>2. t.buf = drawBuf /\ t.copy \in {NoCopy, mem[drawBuf]}
        BY <3>1, <4>1 DEF IInv, ImageInv
      <4>3. handed.vals = {mem[drawBuf]} /\ gram.vals \subseteq handed.vals
        BY <3>1 DEF IInv, ImageInv
      <4> QED
        BY <4>2, <4>3 DEF Sent
    <3>3. gram'.vals \subseteq handed.vals
      BY <1>1, <3>2
    <3>4. gram'.cnt + Unsent' = gram.cnt + Unsent /\ gram'.cnt \in Nat
      <4>1. gram'.cnt = gram.cnt + 1 /\ gram.cnt \in Nat
        BY <1>1 DEF IInv, TypeOK, SpiTypeOK, Image
      <4>2. gram.cnt + 1 + (Unsent - 1) = gram.cnt + Unsent
        BY <4>1, <1>2
      <4>3. gram'.cnt + Unsent' = gram.cnt + 1 + (Unsent - 1)
        BY <4>1, <1>2
      <4> QED
        BY <4>1, <4>2, <4>3
    <3>5. \A i \in Sents' + 1 .. Len(flight') : i \in Sents + 1 .. Len(flight)
      BY <1>1, <1>2
    <3>6. ioChunks \in Nat /\ gram.cnt \in Nat
      BY DEF IInv, TypeOK, SpiTypeOK, Image
    <3> QED
      BY <1>1, <2>1, <3>1, <3>2, <3>3, <3>4, <3>5, <3>6 DEF IInv, ImageInv, ioVars
  <2> QED
    BY <1>4, <1>5, <2>2, <2>3, <2>4 DEF IInv
<1>7. CASE pool[t.slot].en_trans_done_cb /\ cb
  <2>1. flushing' = FALSE /\ screen' = img
    BY <1>1, <1>7 DEF PostCb
  <2>2. nret + 1 = Len(flight) /\ ioPc = "idle" /\ flushing
    BY <1>2, <1>7 DEF IInv, LastInv, QuietInv, Held
  <2>3. img = handed
    <3>1. /\ handed.vals = {mem[drawBuf]} /\ gram.vals \subseteq handed.vals
          /\ Sent(t) = mem[drawBuf]
          /\ gram.cnt + Unsent = handed.cnt
      <4>1. nret + 1 \in Sents + 1 .. Len(flight)
        BY <1>2
      <4>2. /\ t.buf = drawBuf /\ t.copy \in {NoCopy, mem[drawBuf]}
            /\ gram.cnt + Unsent = handed.cnt
        BY <1>7, <2>2, <4>1 DEF IInv, ImageInv
      <4>3. handed.vals = {mem[drawBuf]} /\ gram.vals \subseteq handed.vals
        BY <1>7, <2>2 DEF IInv, ImageInv
      <4> QED
        BY <4>2, <4>3 DEF Sent
    <3>2. gram.cnt + 1 = handed.cnt /\ gram.vals \cup {Sent(t)} = handed.vals
      BY <3>1, <2>2, <1>2 DEF IInv, TypeOK, SpiTypeOK, Image
    <3> QED
      BY <3>2 DEF IInv, TypeOK, Image
  <2>4. TaskInv' /\ FlushFaithful'
    BY <1>1, <1>7, <2>1, <2>2, <2>3 DEF IInv, TaskInv, FlushFaithful, ioVars
  <2>5. QuietInv' /\ ImageInv'
    BY <1>1, <1>2, <2>1, <2>2 DEF QuietInv, ImageInv
  <2> QED
    BY <1>4, <1>5, <2>4, <2>5 DEF IInv
<1> QED
  BY <1>6, <1>7

(* Starting a transfer and giving its descriptor to ret_queue preserve IInv. *)
LEMMA SpiStartReturnInv ==
  ASSUME IInv, SpiStart \/ SpiReturn, UNCHANGED clientVars
  PROVE  IInv'
<1>1. Sents' = Sents /\ Unsent' = Unsent
  BY SpiStartReturnFacts DEF IInv
<1>2. SpiInv' /\ TypeOK'
  BY SpiStartReturnSpi, ClientType DEF IInv
<1> USE DEF SpiStart, SpiReturn, clientVars, ioVars
<1>3. TaskInv' /\ LastInv' /\ FlushFaithful'
  BY DEF IInv, TaskInv, LastInv, FlushFaithful, Held
<1>4. QuietInv' /\ ImageInv'
  BY <1>1 DEF IInv, QuietInv, ImageInv
<1> QED
  BY <1>2, <1>3, <1>4 DEF IInv

-----------------------------------------------------------------------------
(* IInv holds when the panel IO has been created and nothing was drawn. *)
LEMMA InitInv == Init => IInv
<1> SUFFICES ASSUME Init
             PROVE  IInv
  OBVIOUS
<1> USE DEF Init, SpiInit
<1>1. SpiInv
  BY SpiInitial
<1>2. TypeOK
  <2>1. NoImage \in Image
    BY DEF NoImage, Image
  <2> QED
    BY <1>1, <2>1, ClientAssumption DEF TypeOK, SpiInv
<1>3. LastInv /\ TaskInv /\ QuietInv /\ ImageInv /\ FlushFaithful
  BY DEF LastInv, Held, TaskInv, QuietInv, ImageInv, FlushFaithful
<1> QED
  BY <1>1, <1>2, <1>3 DEF IInv

(* Every step of either task and of the SPI interrupt preserves IInv. *)
LEMMA NextInv == IInv /\ [Next]_vars => IInv'
<1> SUFFICES ASSUME IInv, [Next]_vars
             PROVE  IInv'
  OBVIOUS
<1>1. CASE MainStep
  BY <1>1, MainStepInv
<1>2. CASE LvglStep
  BY <1>2, LvglStepInv
<1>3. CASE IoStep /\ UNCHANGED clientVars
  BY <1>3, DrainOneInv, PollInv, TakeDescriptorInv, RecycleDescriptorInv,
     QueueTransInv, QueueTransNoMemInv DEF IoStep
<1>4. CASE IsrStep /\ UNCHANGED clientVars
  BY <1>4, SpiDoneInv, SpiStartReturnInv DEF IsrStep
<1>5. CASE UNCHANGED vars
  BY <1>5 DEF vars, spiVars, ioVars, clientVars, IInv, TypeOK, SpiInv, SpiTypeOK,
     InflightExact, DescriptorsIntact, TaskInv, CallInv, LastInv, QuietInv,
     ImageInv, FlushFaithful, Held, Sents, Unsent
<1> QED
  BY <1>1, <1>2, <1>3, <1>4, <1>5 DEF Next

(* IInv holds of every state of the display path. *)
THEOREM Invariance == SafetySpec => []IInv
BY InitInv, NextInv, PTL DEF SafetySpec

(* Type correctness of the display path. *)
THEOREM TypeCorrect == SafetySpec => []TypeOK
<1>1. IInv => TypeOK
  BY DEF IInv
<1> QED
  BY <1>1, Invariance, PTL

(* refr_area_part never draws into the buffer while a queued transaction   *)
(* has yet to be sent, whatever the memory the buffer is in.               *)
THEOREM RenderingIsExclusive == SafetySpec => []RenderExclusive
<1>1. IInv => RenderExclusive
  BY DEF IInv, TaskInv, QuietInv, RenderExclusive
<1> QED
  BY <1>1, Invariance, PTL

(* num_trans_inflight always counts exactly the descriptors the SPI driver *)
(* holds, and there is a slot for each in its queues: none is ever lost.   *)
THEOREM InflightIsExact == SafetySpec => []InflightExact
<1>1. IInv => InflightExact
  BY DEF IInv, SpiInv
<1> QED
  BY <1>1, Invariance, PTL

(* tx_color never rewrites a descriptor that the driver holds, and never   *)
(* queues one twice, whatever the depth of the pool.                       *)
THEOREM DescriptorsStayIntact == SafetySpec => []DescriptorsIntact
<1>1. IInv => DescriptorsIntact
  BY DEF IInv, SpiInv
<1> QED
  BY <1>1, Invariance, PTL

(* When LVGL gets its buffer back, the panel holds the flushed image. *)
THEOREM FlushesAreFaithful == SafetySpec => []FlushFaithful
<1>1. IInv => FlushFaithful
  BY DEF IInv
<1> QED
  BY <1>1, Invariance, PTL

-----------------------------------------------------------------------------
(* Every step of the display path is a step of FrameChannel or leaves what *)
(* FrameChannel speaks of unchanged: drawing happens only in a buffer LVGL *)
(* owns, and the buffer returns with the handed image on the panel.        *)
LEMMA StepRefines ==
  ASSUME IInv, IInv', [Next]_vars
  PROVE  [FC!Next]_(FC!fcVars)
<1> USE DEF FC!Next, FC!Draw, FC!HandOver, FC!Present, FC!fcVars
<1>1. CASE MainStep
  BY <1>1, ClientAssumption
     DEF MainStep, BootAlloc, BootRow, BootFree, BootDispOn, BootRegister, spiVars,
         IInv, TaskInv, TypeOK, SpiTypeOK
<1>2. CASE LvglStep
  <2>1. CASE Render
    BY <2>1, ClientAssumption DEF Render, spiVars, IInv, TaskInv, TypeOK, SpiTypeOK
  <2>2. CASE FlushBegin
    BY <2>2 DEF FlushBegin, IInv, TaskInv
  <2>3. CASE HandlerEnter \/ SpinWhileFlushing \/ BufferFree \/ FlushReturn
    BY <2>3 DEF HandlerEnter, SpinWhileFlushing, BufferFree, FlushReturn, vars,
                spiVars, clientVars
  <2> QED
    BY <1>2, <2>1, <2>2, <2>3 DEF LvglStep
<1>3. CASE IoStep /\ UNCHANGED clientVars
  <2>1. UNCHANGED <<flushing, screen, mem, handed, drawBuf>>
    <3>0. SpiInv
      BY DEF IInv
    <3>1. CASE TxParamWindow \/ TxParamOther \/ TxColorCommand
      BY <1>3, <3>0, <3>1, PollingFacts
         DEF TxParamWindow, TxParamOther, TxColorCommand, PollingTransmit, clientVars
    <3>2. CASE ~ (TxParamWindow \/ TxParamOther \/ TxColorCommand)
      BY <1>3, <3>2 DEF IoStep, DrainOne, TakeDescriptor, RecycleDescriptor, QueueTrans,
                   QueueTransNoMem, spiVars, clientVars
    <3> QED
      BY <3>1, <3>2
  <2> QED
    BY <2>1
<1>4. CASE IsrStep /\ UNCHANGED clientVars
  <2>1. UNCHANGED <<mem, handed, cb, drawBuf>>
    BY <1>4 DEF IsrStep, SpiStart, SpiDone, SpiReturn, clientVars
  <2>2. CASE UNCHANGED <<flushing, screen>>
    BY <2>1, <2>2
  <2>3. CASE ~ UNCHANGED <<flushing, screen>>
    <3>1. SpiDone /\ cb /\ flushing' = FALSE
      BY <1>4, <2>3 DEF IsrStep, SpiStart, SpiDone, SpiReturn, PostCb
    <3>2. flushing
      BY <3>1, SpiDoneFacts DEF IInv, QuietInv
    <3>3. handed # NoImage
      <4>1. handed.vals = {mem[drawBuf]}
        BY <3>1, <3>2 DEF IInv, ImageInv
      <4> QED
        BY <4>1 DEF NoImage
    <3>4. screen' = handed
      BY <2>1, <3>1, <3>3 DEF IInv, FlushFaithful
    <3> QED
      BY <2>1, <3>1, <3>2, <3>4
  <2> QED
    BY <2>2, <2>3
<1>5. CASE UNCHANGED vars
  BY <1>5 DEF vars, spiVars, clientVars
<1> QED
  BY <1>1, <1>2, <1>3, <1>4, <1>5 DEF Next

(* The display path implements the safety part of FrameChannel. *)
THEOREM Refinement == SafetySpec => FC!SafetySpec
<1>1. Init => FC!Init
  BY DEF Init, SpiInit, FC!Init, NoImage, FC!Empty
<1> QED
  BY <1>1, StepRefines, Invariance, PTL DEF SafetySpec, FC!SafetySpec
=============================================================================
