-------------------------- MODULE SpiPanelIoProofs --------------------------
(***************************************************************************)
(* SpiInv of SpiPanelIo is preserved by every step of the panel IO and of  *)
(* the SPI interrupt, for every pool depth and every set of buffers and    *)
(* contents, whoever calls.  The proofs of the two callers rest on it.     *)
(***************************************************************************)
EXTENDS SpiPanelIo, TLAPS

(* Taking the oldest transaction out shifts the others by one place. *)
LEMMA TailFacts ==
  ASSUME NEW S, NEW s \in Seq(S), Len(s) > 0
  PROVE  /\ Tail(s) \in Seq(S)
         /\ Len(Tail(s)) = Len(s) - 1
         /\ Head(s) = s[1]
         /\ s[1] \in S
         /\ \A i \in 1 .. Len(s) - 1 : Tail(s)[i] = s[i + 1] /\ s[i + 1] \in S
OBVIOUS

(* Queueing a transaction leaves the others where they are. *)
LEMMA AppendFacts ==
  ASSUME NEW S, NEW s \in Seq(S), NEW e \in S
  PROVE  /\ Append(s, e) \in Seq(S)
         /\ Len(Append(s, e)) = Len(s) + 1
         /\ \A i \in 1 .. Len(s) : Append(s, e)[i] = s[i] /\ s[i] \in S
         /\ Append(s, e)[Len(s) + 1] = e
OBVIOUS

(* What the driver holds is a transaction of one of the pool's descriptors. *)
LEMMA FlightType ==
  ASSUME SpiInv, NEW i \in 1 .. Len(flight)
  PROVE  /\ flight[i] \in Transaction
         /\ flight[i].slot \in 0 .. Depth - 1 /\ flight[i].slot \in Slots
<1>1. flight[i] \in Transaction
  BY DEF SpiInv, SpiTypeOK
<1> QED
  BY <1>1 DEF Transaction, Slots

(* The counts of what the DMA is and is not through with. *)
LEMMA Counts ==
  ASSUME SpiInv
  PROVE  /\ Len(flight) \in Nat /\ Sents \in Nat /\ Unsent \in Nat
         /\ Sents <= Len(flight) /\ Unsent = Len(flight) - Sents
BY DEF SpiInv, SpiTypeOK, InflightExact, Sents, Unsent

-----------------------------------------------------------------------------
(* Entering the panel IO (panel_st7789_draw_bitmap with something to send, *)
(* or a parameter command) preserves SpiInv.                               *)
LEMMA TxBeginSpi ==
  ASSUME SpiInv, NEW cmd \in {"caset", "param"}, NEW b \in Buffers, NEW n \in Nat,
         cmd = "caset" => n > 0, TxBegin(cmd, b, n),
         UNCHANGED <<pool, inflight, flight, nret, wire, cb, gram, screen>>,
         flushing' \in BOOLEAN, mem' \in [Buffers -> Pixels \cup {Freed}]
  PROVE  SpiInv'
<1> USE DEF TxBegin
<1>1. SpiTypeOK'
  BY DEF SpiInv, SpiTypeOK
<1>2. InflightExact' /\ DescriptorsIntact'
  BY DEF SpiInv, InflightExact, DescriptorsIntact
<1>3. CallInv'
  BY DEF CallInv
<1> QED
  BY <1>1, <1>2, <1>3 DEF SpiInv

(* What a task does to its buffers, to flushing or to the callback outside *)
(* the panel IO does not concern it.                                       *)
LEMMA OutsideSpi ==
  ASSUME SpiInv, UNCHANGED <<pool, inflight, flight, nret, wire, gram, screen, ioVars>>,
         cb' \in BOOLEAN, flushing' \in BOOLEAN, mem' \in [Buffers -> Pixels \cup {Freed}]
  PROVE  SpiInv'
<1> USE DEF ioVars
<1>1. SpiTypeOK'
  BY DEF SpiInv, SpiTypeOK
<1>2. InflightExact' /\ DescriptorsIntact' /\ CallInv'
  BY DEF SpiInv, InflightExact, DescriptorsIntact, CallInv, Held
<1> QED
  BY <1>1, <1>2 DEF SpiInv

-----------------------------------------------------------------------------
(* spi_device_get_trans_result takes out the oldest transaction, which the *)
(* DMA is through with, and the others move up.                            *)
LEMMA GetTransResultFacts ==
  ASSUME SpiInv, GetTransResult, UNCHANGED <<pool, wire>>
  PROVE  /\ flight' \in Seq(Transaction) /\ Len(flight) \in Nat
         /\ Len(flight') = Len(flight) - 1
         /\ \A i \in 1 .. Len(flight') :
              flight'[i] = flight[i + 1] /\ i + 1 \in 1 .. Len(flight)
         /\ Head(flight) = flight[1] /\ 1 \in 1 .. Len(flight)
         /\ inflight' \in 0 .. Depth /\ nret' \in Nat
         /\ Sents' = Sents - 1 /\ Unsent' = Unsent
         /\ Sents' \in Nat /\ Unsent' \in Nat /\ Sents \in Nat /\ Unsent \in Nat
         /\ InflightExact' /\ DescriptorsIntact'
<1>1. Len(flight) > 0 /\ flight \in Seq(Transaction)
  BY DEF SpiInv, GetTransResult, InflightExact, SpiTypeOK
<1>2. /\ flight' \in Seq(Transaction) /\ Len(flight) \in Nat
      /\ Len(flight') = Len(flight) - 1
      /\ \A i \in 1 .. Len(flight') :
           flight'[i] = flight[i + 1] /\ i + 1 \in 1 .. Len(flight)
      /\ Head(flight) = flight[1] /\ 1 \in 1 .. Len(flight)
  BY <1>1, TailFacts DEF GetTransResult
<1>3. inflight' \in 0 .. Depth /\ nret' \in Nat /\ InflightExact'
  BY <1>2, DepthAssumption DEF GetTransResult, SpiInv, SpiTypeOK, InflightExact
<1>4. /\ Sents' = Sents - 1 /\ Unsent' = Unsent
      /\ Sents' \in Nat /\ Unsent' \in Nat /\ Sents \in Nat /\ Unsent \in Nat
  BY <1>2 DEF GetTransResult, SpiInv, SpiTypeOK, InflightExact, Sents, Unsent
<1>5. DescriptorsIntact'
  <2>1. ASSUME NEW i \in 1 .. Len(flight')
        PROVE  pool[flight'[i].slot].tx_buffer = flight'[i].buf
    <3>1. flight'[i] = flight[i + 1] /\ i + 1 \in 1 .. Len(flight)
      BY <1>2
    <3> QED
      BY <3>1 DEF SpiInv, DescriptorsIntact
  <2>2. ASSUME NEW i \in 1 .. Len(flight'), NEW j \in 1 .. Len(flight'),
               flight'[i].slot = flight'[j].slot
        PROVE  i = j
    <3>1. i + 1 = j + 1
      BY <1>2, <2>2 DEF SpiInv, DescriptorsIntact
    <3> QED
      BY <3>1, <1>2
  <2> QED
    BY <2>1, <2>2 DEF DescriptorsIntact
<1> QED
  BY <1>2, <1>3, <1>4, <1>5

(* One round of the wait for queued transactions in tx_param and tx_color  *)
(* preserves SpiInv.                                                       *)
LEMMA DrainOneSpi ==
  ASSUME SpiInv, DrainOne
  PROVE  SpiInv'
<1> USE DEF DrainOne
<1>0. GetTransResult /\ UNCHANGED <<pool, wire>>
  OBVIOUS
<1>1. SpiTypeOK' /\ InflightExact' /\ DescriptorsIntact'
  BY <1>0, GetTransResultFacts DEF SpiInv, SpiTypeOK
<1>2. CallInv'
  BY DEF SpiInv, CallInv, GetTransResult, SpiTypeOK
<1> QED
  BY <1>1, <1>2 DEF SpiInv

(* Recycling the oldest descriptor when all are in flight preserves SpiInv:*)
(* its slot is free again, and none of the others is touched.              *)
LEMMA RecycleDescriptorSpi ==
  ASSUME SpiInv, RecycleDescriptor
  PROVE  SpiInv'
<1> USE DEF RecycleDescriptor
<1>0. GetTransResult /\ UNCHANGED <<pool, wire>>
  OBVIOUS
<1>1. SpiTypeOK' /\ InflightExact' /\ DescriptorsIntact'
  BY <1>0, GetTransResultFacts, FlightType DEF SpiInv, SpiTypeOK
<1>2. inflight' = Depth - 1 /\ ioSlot' = flight[1].slot /\ ioSlot' \in 0 .. Depth - 1
  BY <1>0, GetTransResultFacts, FlightType DEF GetTransResult
<1>3. ASSUME NEW i \in 1 .. Len(flight')
      PROVE  flight'[i].slot \in 0 .. Depth - 1 /\ flight'[i].slot # flight[1].slot
  <2>1. flight'[i] = flight[i + 1] /\ i + 1 \in 1 .. Len(flight) /\ i + 1 # 1
    BY <1>0, GetTransResultFacts
  <2> QED
    BY <2>1, <1>0, GetTransResultFacts, FlightType DEF SpiInv, DescriptorsIntact
<1>4. CallInv'
  BY <1>2, <1>3, DepthAssumption DEF SpiInv, CallInv, Held
<1> QED
  BY <1>1, <1>4 DEF SpiInv

-----------------------------------------------------------------------------
(* A polling transmission finds nothing in flight, uses descriptor 0 and   *)
(* never calls back, since that descriptor has just been cleared.          *)
LEMMA PollingFacts ==
  ASSUME SpiInv, PollingTransmit
  PROVE  /\ flight = <<>> /\ Len(flight) = 0 /\ inflight = 0 /\ nret = 0 /\ wire = "idle"
         /\ pool' \in [Slots -> Descriptor]
         /\ UNCHANGED <<flushing, screen>>
<1>1. Len(flight) = 0 /\ inflight = 0 /\ nret = 0 /\ wire = "idle"
  BY DEF PollingTransmit, SpiInv, CallInv, InflightExact, SpiTypeOK
<1>2. flight = <<>>
  BY <1>1 DEF SpiInv, SpiTypeOK
<1> QED
  BY <1>1, <1>2, DepthAssumption
     DEF PollingTransmit, PostCb, Memset, Blank, Descriptor, Slots, SpiInv, SpiTypeOK

(* The polled command of tx_param and tx_color preserves SpiInv. *)
LEMMA PollSpi ==
  ASSUME SpiInv, TxParamWindow \/ TxParamOther \/ TxColorCommand
  PROVE  SpiInv'
<1>0. PollingTransmit
  BY DEF TxParamWindow, TxParamOther, TxColorCommand
<1> USE <1>0, PollingFacts, DepthAssumption
<1> USE DEF TxParamWindow, TxParamOther, TxColorCommand, NextCmd
<1>1. SpiTypeOK'
  BY DEF PollingTransmit, SpiInv, SpiTypeOK, NoImage, Image
<1>2. InflightExact' /\ DescriptorsIntact'
  BY DEF PollingTransmit, InflightExact, DescriptorsIntact
<1>3. CallInv'
  BY DEF PollingTransmit, SpiInv, CallInv, Held, SpiTypeOK
<1> QED
  BY <1>1, <1>2, <1>3 DEF SpiInv

(* Taking the next unused descriptor of trans_pool preserves SpiInv.       *)
LEMMA TakeDescriptorSpi ==
  ASSUME SpiInv, TakeDescriptor
  PROVE  SpiInv'
<1> USE DEF TakeDescriptor, spiVars
<1>0. inflight \in Slots
  BY DepthAssumption DEF SpiInv, SpiTypeOK, Slots
<1>1. SpiTypeOK' /\ InflightExact' /\ DescriptorsIntact'
  BY <1>0 DEF SpiInv, SpiTypeOK, InflightExact, DescriptorsIntact
<1>2. \A i \in Held : flight[i].slot \in 0 .. Depth - 1
  BY FlightType DEF Held
<1>3. CallInv'
  BY <1>2, DepthAssumption DEF SpiInv, CallInv, Held, SpiTypeOK
<1> QED
  BY <1>1, <1>3 DEF SpiInv

-----------------------------------------------------------------------------
(* The descriptor that the chunk loop has taken is not held by the driver, *)
(* so writing it disturbs no transaction in flight.                        *)
LEMMA TakenDescriptor ==
  ASSUME SpiInv, ioPc = "queue"
  PROVE  /\ pool \in [Slots -> Descriptor] /\ ioSlot \in Slots
         /\ ChunkDescriptor \in Descriptor
         /\ ChunkDescriptor.tx_buffer = ioBuf
         /\ ChunkDescriptor.en_trans_done_cb <=> ioChunks = 1
         /\ Len(flight) \in Nat
         /\ \A i \in 1 .. Len(flight) :
              /\ flight[i].slot # ioSlot
              /\ [pool EXCEPT ![ioSlot] = ChunkDescriptor][flight[i].slot]
                   = pool[flight[i].slot]
<1>1. \A i \in 1 .. Len(flight) : flight[i].slot # ioSlot /\ flight[i].slot \in Slots
  BY FlightType DEF SpiInv, CallInv, Held
<1>2. /\ pool \in [Slots -> Descriptor] /\ ioSlot \in Slots /\ Len(flight) \in Nat
      /\ ioBuf \in Buffers /\ ioChunks \in Nat
  BY DEF SpiInv, SpiTypeOK
<1>3. /\ ChunkDescriptor \in Descriptor
      /\ ChunkDescriptor.tx_buffer = ioBuf
      /\ ChunkDescriptor.en_trans_done_cb <=> ioChunks = 1
  BY <1>2 DEF ChunkDescriptor, Memset, Blank, Descriptor
<1> QED
  BY <1>1, <1>2, <1>3

(* A chunk that gets no bounce buffer, and so ends its call, preserves     *)
(* SpiInv.                                                                 *)
LEMMA QueueTransNoMemSpi ==
  ASSUME SpiInv, QueueTransNoMem
  PROVE  SpiInv'
<1> USE TakenDescriptor DEF QueueTransNoMem
<1>1. SpiTypeOK' /\ InflightExact' /\ DescriptorsIntact'
  BY DEF SpiInv, SpiTypeOK, InflightExact, DescriptorsIntact
<1>2. CallInv'
  BY DEF CallInv
<1> QED
  BY <1>1, <1>2 DEF SpiInv

(* spi_device_queue_trans: the chunk becomes the youngest transaction, the *)
(* others stay where they are.                                             *)
LEMMA QueueTransFacts ==
  ASSUME SpiInv, QueueTrans
  PROVE  /\ ChunkTransaction \in Transaction
         /\ ChunkTransaction.slot = ioSlot /\ ChunkTransaction.buf = ioBuf
         /\ ChunkTransaction.copy = IF ioBuf \in DmaBuffers THEN NoCopy ELSE mem[ioBuf]
         /\ flight' \in Seq(Transaction) /\ Len(flight') = Len(flight) + 1
         /\ \A i \in 1 .. Len(flight) : flight'[i] = flight[i]
         /\ flight'[Len(flight) + 1] = ChunkTransaction
         /\ \A i \in 1 .. Len(flight') : i \in 1 .. Len(flight) \/ i = Len(flight) + 1
         /\ Sents' = Sents /\ Unsent' = Unsent + 1 /\ Sents \in Nat /\ Unsent \in Nat
         /\ Sents' \in Nat /\ Unsent' \in Nat /\ Sents <= Len(flight)
<1>1. /\ ChunkTransaction \in Transaction
      /\ ChunkTransaction.slot = ioSlot /\ ChunkTransaction.buf = ioBuf
      /\ ChunkTransaction.copy = IF ioBuf \in DmaBuffers THEN NoCopy ELSE mem[ioBuf]
  BY DEF SpiInv, SpiTypeOK, ChunkTransaction, Transaction
<1>2. /\ flight' \in Seq(Transaction) /\ Len(flight') = Len(flight) + 1
      /\ \A i \in 1 .. Len(flight) : flight'[i] = flight[i]
      /\ flight'[Len(flight) + 1] = ChunkTransaction
      /\ \A i \in 1 .. Len(flight') : i \in 1 .. Len(flight) \/ i = Len(flight) + 1
  BY <1>1, AppendFacts, TakenDescriptor DEF QueueTrans, SpiInv, SpiTypeOK
<1>3. /\ Sents' = Sents /\ Unsent' = Unsent + 1 /\ Sents \in Nat /\ Unsent \in Nat
      /\ Sents' \in Nat /\ Unsent' \in Nat /\ Sents <= Len(flight)
  <2>1. Sents' = Sents
    BY DEF QueueTrans, Sents
  <2>2. Unsent' = Unsent + 1
    BY <1>2, <2>1, Counts DEF Unsent
  <2> QED
    BY <2>1, <2>2, Counts
<1> QED
  BY <1>1, <1>2, <1>3

(* Queueing a chunk preserves SpiInv: there is a slot for it. *)
LEMMA QueueTransSpi ==
  ASSUME SpiInv, QueueTrans
  PROVE  SpiInv'
<1>0. /\ ioPc = "queue" /\ inflight' = inflight + 1 /\ ioChunks' = ioChunks - 1
      /\ pool' = [pool EXCEPT ![ioSlot] = ChunkDescriptor]
      /\ ioPc' = IF ioChunks = 1 THEN "idle" ELSE "chunk"
      /\ UNCHANGED <<nret, wire, cb, flushing, gram, screen, mem, ioCmd, ioLeft,
                     ioBuf, ioSlot>>
  BY DEF QueueTrans
<1> USE <1>0
<1>1. SpiTypeOK'
  BY QueueTransFacts, TakenDescriptor, DepthAssumption DEF SpiInv, SpiTypeOK, CallInv
<1>2. InflightExact'
  <2>1. /\ inflight = Len(flight) /\ inflight < Depth /\ inflight \in Nat /\ nret \in Nat
        /\ nret <= Len(flight) /\ Depth \in Nat
    BY DepthAssumption DEF SpiInv, SpiTypeOK, InflightExact, CallInv
  <2> QED
    BY <2>1, QueueTransFacts DEF InflightExact
<1>3. DescriptorsIntact'
  <2>1. pool'[ioSlot].tx_buffer = ioBuf
    BY TakenDescriptor
  <2>2. \A i \in 1 .. Len(flight') : pool'[flight'[i].slot].tx_buffer = flight'[i].buf
    BY <2>1, QueueTransFacts, TakenDescriptor DEF SpiInv, DescriptorsIntact
  <2>3. ASSUME NEW i \in 1 .. Len(flight'), NEW j \in 1 .. Len(flight'),
               flight'[i].slot = flight'[j].slot
        PROVE  i = j
    <3>1. i \in 1 .. Len(flight) \/ flight'[i].slot = ioSlot
      BY QueueTransFacts
    <3>2. j \in 1 .. Len(flight) \/ flight'[j].slot = ioSlot
      BY QueueTransFacts
    <3>3. CASE i \in 1 .. Len(flight) /\ j \in 1 .. Len(flight)
      BY <2>3, <3>3, QueueTransFacts DEF SpiInv, DescriptorsIntact
    <3>4. CASE flight'[i].slot = ioSlot
      <4>1. i \notin 1 .. Len(flight) /\ j \notin 1 .. Len(flight)
        BY <2>3, <3>4, QueueTransFacts, TakenDescriptor
      <4> QED
        BY <4>1, QueueTransFacts
    <3>5. CASE flight'[j].slot = ioSlot
      BY <2>3, <3>4, <3>5
    <3> QED
      BY <3>1, <3>2, <3>3, <3>4, <3>5
  <2> QED
    BY <2>2, <2>3 DEF DescriptorsIntact
<1>4. CallInv'
  <2>1. /\ inflight \in Nat /\ ioSlot \in 0 .. Depth - 1 /\ Depth \in Nat
        /\ ioSlot <= inflight
        /\ \A i \in 1 .. Len(flight) : flight[i].slot <= inflight
    BY DepthAssumption DEF SpiInv, CallInv, Held, SpiTypeOK, Slots
  <2>2. ASSUME NEW i \in 1 .. Len(flight')
        PROVE  flight'[i].slot < inflight + 1
    <3>1. CASE i \in 1 .. Len(flight)
      <4>1. flight'[i].slot \in 0 .. Depth - 1 /\ flight'[i].slot <= inflight
        BY <3>1, QueueTransFacts, <2>1, FlightType
      <4> QED
        BY <4>1, <2>1
    <3>2. CASE i = Len(flight) + 1
      BY <3>2, QueueTransFacts, <2>1
    <3> QED
      BY <3>1, <3>2, QueueTransFacts
  <2> QED
    BY <2>2 DEF SpiInv, CallInv, Held, SpiTypeOK
<1> QED
  BY <1>1, <1>2, <1>3, <1>4 DEF SpiInv

(* Every step of the calling task inside the panel IO preserves SpiInv. *)
LEMMA IoStepSpi ==
  ASSUME SpiInv, IoStep
  PROVE  SpiInv'
BY DrainOneSpi, PollSpi, TakeDescriptorSpi, RecycleDescriptorSpi, QueueTransSpi,
   QueueTransNoMemSpi DEF IoStep

-----------------------------------------------------------------------------
(* The end of a transfer: what was on the wire counts as sent, and the     *)
(* panel has received its content.                                         *)
LEMMA SpiDoneFacts ==
  ASSUME SpiInv, SpiDone
  PROVE  /\ nret + 1 \in 1 .. Len(flight) /\ Len(flight) \in Nat
         /\ Sents = nret /\ Sents' = nret + 1 /\ nret \in Nat
         /\ Unsent' = Unsent - 1 /\ Unsent > 0 /\ Unsent \in Nat /\ Unsent' \in Nat
         /\ Unsent = Len(flight) - nret
         /\ flight[nret + 1] \in Transaction /\ flight[nret + 1].slot \in Slots
         /\ Sent(flight[nret + 1]) \in Pixels \cup {Freed}
         /\ gram' \in Image
         /\ gram'.cnt = gram.cnt + 1 /\ gram.cnt \in Nat
         /\ gram'.vals = gram.vals \cup {Sent(flight[nret + 1])}
<1>1. /\ wire = "busy" /\ wire' = "posted"
      /\ gram' = [cnt |-> gram.cnt + 1, vals |-> gram.vals \cup {Sent(flight[nret + 1])}]
      /\ UNCHANGED <<pool, inflight, flight, nret, cb, mem, ioVars>>
  BY DEF SpiDone
<1>2. /\ nret + 1 \in 1 .. Len(flight) /\ Len(flight) \in Nat
      /\ Sents = nret /\ Sents' = nret + 1 /\ nret \in Nat
      /\ Unsent' = Unsent - 1 /\ Unsent > 0 /\ Unsent \in Nat /\ Unsent' \in Nat
      /\ Unsent = Len(flight) - nret
  BY <1>1 DEF SpiInv, SpiTypeOK, InflightExact, Sents, Unsent
<1>3. /\ flight[nret + 1] \in Transaction /\ flight[nret + 1].slot \in Slots
      /\ Sent(flight[nret + 1]) \in Pixels \cup {Freed}
  BY <1>2, FlightType DEF SpiInv, SpiTypeOK, Transaction, Sent
<1>4. gram.cnt \in Nat /\ gram.vals \in SUBSET (Pixels \cup {Freed})
  BY DEF SpiInv, SpiTypeOK, Image
<1>5. gram' \in Image
  BY <1>1, <1>3, <1>4 DEF Image
<1> QED
  BY <1>1, <1>2, <1>3, <1>4, <1>5

(* The end of a transfer preserves SpiInv. *)
LEMMA SpiDoneSpi ==
  ASSUME SpiInv, SpiDone
  PROVE  SpiInv'
<1>1. /\ wire = "busy" /\ wire' = "posted"
      /\ UNCHANGED <<pool, inflight, flight, nret, cb, mem, ioVars>>
      /\ \/ UNCHANGED <<flushing, screen>>
         \/ flushing' = FALSE /\ screen' = gram'
  BY DEF SpiDone, PostCb
<1>2. SpiTypeOK'
  BY <1>1, SpiDoneFacts DEF SpiInv, SpiTypeOK, ioVars
<1>3. InflightExact' /\ DescriptorsIntact' /\ CallInv'
  BY <1>1, SpiDoneFacts DEF SpiInv, InflightExact, DescriptorsIntact, CallInv, Held, ioVars
<1> QED
  BY <1>2, <1>3 DEF SpiInv

(* Starting a transfer and giving its descriptor to ret_queue move nothing *)
(* between what was and what was not sent ...                              *)
LEMMA SpiStartReturnFacts ==
  ASSUME SpiInv, SpiStart \/ SpiReturn
  PROVE  Sents' = Sents /\ Unsent' = Unsent /\ UNCHANGED <<pool, flight, gram, mem, ioVars>>
BY DEF SpiStart, SpiReturn, SpiInv, SpiTypeOK, Sents, Unsent

(* ... and preserve SpiInv. *)
LEMMA SpiStartReturnSpi ==
  ASSUME SpiInv, SpiStart \/ SpiReturn
  PROVE  SpiInv'
<1> USE DEF SpiStart, SpiReturn, ioVars
<1>1. SpiTypeOK' /\ InflightExact' /\ DescriptorsIntact'
  BY DEF SpiInv, SpiTypeOK, InflightExact, DescriptorsIntact
<1>2. CallInv'
  BY DEF SpiInv, CallInv, Held
<1> QED
  BY <1>1, <1>2 DEF SpiInv

(* Every step of the SPI interrupt preserves SpiInv. *)
LEMMA IsrStepSpi ==
  ASSUME SpiInv, IsrStep
  PROVE  SpiInv'
BY SpiDoneSpi, SpiStartReturnSpi DEF IsrStep

(* SpiInv holds when the panel IO has been created. *)
LEMMA SpiInitial == SpiInit => SpiInv
<1> SUFFICES ASSUME SpiInit
             PROVE  SpiInv
  OBVIOUS
<1> USE DEF SpiInit
<1>1. NoImage \in Image /\ Blank \in Descriptor /\ 0 \in Slots
  BY DepthAssumption DEF NoImage, Image, Blank, Descriptor, Slots
<1>2. SpiTypeOK
  BY <1>1, DepthAssumption DEF SpiTypeOK
<1>3. InflightExact /\ DescriptorsIntact /\ CallInv
  BY DepthAssumption DEF InflightExact, DescriptorsIntact, CallInv
<1> QED
  BY <1>2, <1>3 DEF SpiInv
=============================================================================
