--------------------------- MODULE SensorsProofs ----------------------------
(***************************************************************************)
(* Proofs about the SD card, the recorder, the codec and the motion sensor,*)
(* for every length of the data and of the recording, every number of I2S  *)
(* controllers and of retries, whatever is measured, and with every abort, *)
(* loss of power and failed transfer on the way.                           *)
(***************************************************************************)
EXTENDS Sensors, TLAPS

(* From fopen to fclose RecordAudio has the file open. *)
Recording == {"header", "enable", "samples", "err"}

(* A file is open exactly inside SD_Write_Data and between fopen and fclose*)
(* of RecordAudio, and only one of them runs; nothing is acknowledged of a *)
(* file that is open, and no message is still valid while a call runs.     *)
FileInv ==
  /\ pc # "idle" => sdPc = "idle" /\ said = ""
  /\ sdPc # "idle" => said = ""
  /\ open <=> sdPc # "idle" \/ pc \in Recording
  /\ open => acked = NotAcked
  /\ AckedIsStored
  /\ enabled => pc \in {"samples", "err"}

(* A file that RecordAudio has opened, and did not fail with, is on a      *)
(* volume that is mounted and known, so that SD_Unmount will find it.      *)
MountInv ==
  /\ MountedIsKnown
  /\ pc \in Recording => vfs = "mounted"
  /\ pc = "unmount" /\ ret => vfs = "mounted"
  /\ said = "recorded" => vfs = "none"

(* What fwrite was given at each place of record_wav *)
LengthInv ==
  /\ pc = "header" => wrote = 0 /\ written = 0
  /\ pc = "enable" => wrote = Header /\ written = 0
  /\ pc = "samples" => wrote = Header + written

(* How the complete length gets to the card, if nothing failed, and stays  *)
(* there as long as the message is valid                                   *)
CompleteInv ==
  /\ pc = "err" /\ ret => wrote >= Header + WavSize
  /\ pc = "unmount" /\ ret /\ closeOk => disk >= Header + WavSize
  /\ RecordedIsComplete

(* What the codec holds: the stages written so far in this attempt, on top *)
(* of nothing, since the reset came first; a boot's second attempt does not*)
(* get as far as the codec, since the driver is installed.                 *)
StagesUpTo(k) == {Stages[i] : i \in 2 .. k}

CodecInv ==
  /\ stage > 1 => i2c
  /\ pc = "config" => stage <= Len(Stages)
  /\ pc = "config" /\ stage > 1 => codec = StagesUpTo(stage - 1)
  /\ pc \in {"mount", "open", "header", "enable", "samples"} => codec = Settings
  /\ "on" \in codec => Settings \ {"volume"} \subseteq codec

RecInv == TypeOK /\ FileInv /\ MountInv /\ LengthInv /\ CompleteInv /\ CodecInv

(* QMI8658_Init at each of its places: the registers written or lost so    *)
(* far, and what the reads of the ID found.  While it runs there is no     *)
(* verdict before the configuration, and the loop goes on only as long as  *)
(* the sensor has not answered.                                            *)
RegistersUpTo(k) == {Writes[i] : i \in 2 .. k}

ConfigInv ==
  /\ qPc = "config" => RegistersUpTo(step - 1) \subseteq regs \cup lost
  /\ verdict # "" => qPc \in {"config", "idle", "burst"}
  /\ Configured

IdInv ==
  /\ qPc = "id" => ~answered
  /\ qPc = "check" => (right => answered \/ missed) /\ (~right => ~answered)
  /\ VerdictHonest

(* Whoever finds a sample ready, or the sensors on, finds an address that  *)
(* counts up, unless the write of CTRL1 was lost.                          *)
SampleInv ==
  /\ "CTRL7" \in regs => "CTRL1" \in regs \cup lost
  /\ ready => "CTRL1" \in regs \cup lost
  /\ qPc = "burst" /\ ok => "CTRL1" \in regs \cup lost

QmiInv == QmiTypeOK /\ ConfigInv /\ IdInv /\ SampleInv

(* An application that only uses the motion sensor has not begun to        *)
(* configure the codec.                                                    *)
SensorsInv ==
  /\ RecInv /\ QmiInv
  /\ app \in {"record", "motion"}
  /\ app = "motion" => stage = 1 /\ pc = "idle"

-----------------------------------------------------------------------------
(* The recorder *)

(* The stages and the settings, spelled out *)
LEMMA StagesFacts ==
  /\ Len(Stages) = 7
  /\ Stages[1] = "reset" /\ Stages[2] = "interface" /\ Stages[3] = "analog"
  /\ Stages[4] = "clock" /\ Stages[5] = "power" /\ Stages[6] = "on" /\ Stages[7] = "volume"
  /\ Settings = {"interface", "analog", "clock", "power", "on", "volume"}
<1>1. /\ Len(Stages) = 7
      /\ Stages[1] = "reset" /\ Stages[2] = "interface" /\ Stages[3] = "analog"
      /\ Stages[4] = "clock" /\ Stages[5] = "power" /\ Stages[6] = "on" /\ Stages[7] = "volume"
  BY DEF Stages
<1>2. 2 .. 7 = {2, 3, 4, 5, 6, 7}
  OBVIOUS
<1>3. Settings = {Stages[i] : i \in {2, 3, 4, 5, 6, 7}}
  BY <1>1, <1>2 DEF Settings
<1> QED
  BY <1>1, <1>3

(* One more stage of the codec is in effect, and none out of order. *)
LEMMA WriteStageInv ==
  ASSUME CodecTypeOK, CodecInv, pc = "config", WriteStage
  PROVE  /\ CodecTypeOK'
         /\ codec' = StagesUpTo(stage' - 1)
         /\ stage' > 1
         /\ stage' > Len(Stages) => codec' = Settings
         /\ "on" \in codec' => Settings \ {"volume"} \subseteq codec'
<1>1. stage \in 1 .. 7 /\ stage' = stage + 1
  BY StagesFacts DEF WriteStage, CodecTypeOK
<1>2. codec' = StagesUpTo(stage)
  <2>1. CASE stage = 1
    BY <1>1, <2>1 DEF WriteStage, StagesUpTo
  <2>2. CASE stage # 1
    <3>1. codec = StagesUpTo(stage - 1) /\ codec' = codec \cup {Stages[stage]}
      BY <1>1, <2>2 DEF WriteStage, CodecInv
    <3>2. 2 .. stage = (2 .. stage - 1) \cup {stage}
      BY <1>1, <2>2
    <3> QED
      BY <3>1, <3>2 DEF StagesUpTo
  <2> QED
    BY <2>1, <2>2
<1>3. codec' \subseteq Settings
  BY <1>1, <1>2, StagesFacts DEF Settings, StagesUpTo
<1>4. ASSUME "on" \in codec' PROVE Settings \ {"volume"} \subseteq codec'
  <2>1. PICK i \in 2 .. stage : "on" = Stages[i]
    BY <1>2, <1>4 DEF StagesUpTo
  <2>2. i = 6
    BY <1>1, <2>1, StagesFacts
  <2> QED
    BY <1>1, <1>2, <2>2, StagesFacts DEF StagesUpTo
<1> QED
  BY <1>1, <1>2, <1>3, <1>4, StagesFacts DEF CodecTypeOK, Settings, StagesUpTo

(* fopen and fwrite on the file keep the types of what they change. *)
LEMMA FopenWType ==
  ASSUME SdTypeOK, FopenW
  PROVE  disk' \in Nat \cup {NoFile} /\ wrote' \in Nat
BY DEF SdTypeOK, FopenW, NoFile

LEMMA FwriteType ==
  ASSUME SdTypeOK, NEW n \in Nat, Fwrite(n)
  PROVE  wrote' \in Nat
BY DEF SdTypeOK, Fwrite

(* Every step of the recorder keeps CodecInv: only es7210_codec_init, the  *)
(* configuration and a reboot concern the codec.                           *)
LEMMA CodecStepInv ==
  ASSUME RecInv, RecNext
  PROVE  CodecTypeOK' /\ CodecInv'
<1>0. CodecTypeOK /\ CodecInv
  BY DEF RecInv, TypeOK
<1>a. codec \subseteq Settings /\ stage \in 1 .. 8
  BY <1>0, StagesFacts DEF CodecTypeOK
<1>1. CASE Reboot
  <2>1. stage' = 1 /\ pc' = "idle" /\ (codec' = codec \/ codec' = {})
    BY <1>1 DEF Reboot, CodecReboot
  <2>2. CodecTypeOK'
    <3>1. codec' \subseteq Settings
      BY <1>a, <2>1
    <3>2. stage' \in 1 .. Len(Stages) + 1
      BY <2>1, StagesFacts
    <3> QED
      BY <3>1, <3>2 DEF CodecTypeOK
  <2>3. "on" \in codec' => Settings \ {"volume"} \subseteq codec'
    BY <1>0, <2>1 DEF CodecInv
  <2> QED
    BY <2>1, <2>2, <2>3 DEF CodecInv
<1>2. CASE CodecInit
  <2>1. stage = 1 /\ UNCHANGED <<codec, stage>> /\ pc' = "config"
    BY <1>0, <1>a, <1>2 DEF CodecInit, InstallOk, CodecInv, codecVars
  <2> QED
    BY <1>0, <1>a, <2>1, StagesFacts DEF CodecTypeOK, CodecInv
<1>3. CASE CodecConfig
  <2>1. pc = "config" /\ WriteStage /\ i2c /\ i2c' = i2c
    BY <1>3 DEF CodecConfig, WriteStage
  <2>2. pc' = IF stage' > Len(Stages) THEN "mount" ELSE "config"
    BY <1>3 DEF CodecConfig
  <2>3. stage' \in 1 .. 8
    BY <1>0, <2>1, WriteStageInv, StagesFacts DEF CodecTypeOK
  <2> QED
    BY <1>0, <2>1, <2>2, <2>3, WriteStageInv, StagesFacts DEF CodecInv
<1>4. CASE CallI2cInit
  <2>1. UNCHANGED <<codec, stage, pc>> /\ pc = "idle" /\ (i2c => i2c')
    BY <1>4 DEF CallI2cInit, BspI2cInit, InstallOk, InstallFails, codecVars, recVars
  <2> QED
    BY <1>0, <2>1 DEF CodecTypeOK, CodecInv
<1>5. CASE I2sInit \/ AppUsesCard \/ Mount \/ Open \/ OpenFails \/ WriteHeader \/ ChannelEnable
           \/ Sample \/ GotoErr \/ SamplesDone \/ CloseFile \/ Unmount
  <2> DEFINE Ready == {"mount", "open", "header", "enable", "samples"}
  <2>1. UNCHANGED <<codec, stage, i2c>>
    BY <1>5 DEF I2sInit, AppUsesCard, Mount, Open, OpenFails, WriteHeader, ChannelEnable,
      Sample,
                GotoErr, SamplesDone, CloseFile, Unmount, bus, codecVars
  <2>2. pc' # "config" /\ (pc' \in Ready => pc \in Ready)
    BY <1>5 DEF I2sInit, AppUsesCard, Mount, Open, OpenFails, WriteHeader, ChannelEnable,
      Sample,
                GotoErr, SamplesDone, CloseFile, Unmount
  <2> QED
    BY <1>0, <2>1, <2>2 DEF CodecTypeOK, CodecInv
<1> QED
  BY <1>1, <1>2, <1>3, <1>4, <1>5
  DEF RecNext, RecordAudio, RecordStep, ReadTimeout, CodecInitAborts

(* The application's own use of the card preserves RecInv. *)
LEMMA AppUsesCardInv ==
  ASSUME RecInv, AppUsesCard
  PROVE  RecInv'
<1> USE DEF RecInv
<1>c. CodecTypeOK' /\ CodecInv'
  BY CodecStepInv DEF RecNext
<1>n. /\ Header \in Nat /\ WavSize \in Nat /\ ReadSize \in Nat
      /\ wrote \in Nat /\ written \in Nat
  BY RecorderAssumption DEF TypeOK, SdTypeOK
<1>1. CASE CallSdInit
  <2>1. SdTypeOK'
    BY <1>1, <1>n
       DEF CallSdInit, SD_Init, MountOk, MountFails, MountNoMem, AppUsesCard, bus, TypeOK,
           SdTypeOK, NoFile, NotAcked
  <2>2. TypeOK'
    BY <1>1, <1>c, <2>1
       DEF CallSdInit, SD_Init, MountOk, MountFails, MountNoMem, AppUsesCard, bus, TypeOK
  <2>3. FileInv'
    BY <1>1
       DEF CallSdInit, SD_Init, MountOk, MountFails, MountNoMem, AppUsesCard, bus, FileInv,
           Recording, AckedIsStored, TypeOK, SdTypeOK, NoFile, NotAcked
  <2>4. MountInv'
    BY <1>1
       DEF CallSdInit, SD_Init, MountOk, MountFails, MountNoMem, AppUsesCard, bus,
           MountInv, FileInv, MountedIsKnown, Recording, TypeOK, SdTypeOK, NoFile, NotAcked
  <2>5. LengthInv'
    BY <1>1, <1>n
       DEF CallSdInit, SD_Init, MountOk, MountFails, MountNoMem, AppUsesCard, bus,
           LengthInv
  <2>6. CompleteInv'
    BY <1>1, <1>n
       DEF CallSdInit, SD_Init, MountOk, MountFails, MountNoMem, AppUsesCard, bus,
           CompleteInv, LengthInv, FileInv, RecordedIsComplete
  <2> QED
    BY <1>c, <2>2, <2>3, <2>4, <2>5, <2>6
<1>2. CASE CallSdUnmount
  <2>1. SdTypeOK'
    BY <1>2, <1>n
       DEF CallSdUnmount, SD_Unmount, AppUsesCard, bus, TypeOK, SdTypeOK, NoFile, NotAcked
  <2>2. TypeOK'
    BY <1>2, <1>c, <2>1 DEF CallSdUnmount, SD_Unmount, AppUsesCard, bus, TypeOK
  <2>3. FileInv'
    BY <1>2
       DEF CallSdUnmount, SD_Unmount, AppUsesCard, bus, FileInv, Recording, AckedIsStored,
           TypeOK, SdTypeOK, NoFile, NotAcked
  <2>4. MountInv'
    BY <1>2
       DEF CallSdUnmount, SD_Unmount, AppUsesCard, bus, MountInv, FileInv, MountedIsKnown,
           Recording, TypeOK, SdTypeOK, NoFile, NotAcked
  <2>5. LengthInv'
    BY <1>2, <1>n DEF CallSdUnmount, SD_Unmount, AppUsesCard, bus, LengthInv
  <2>6. CompleteInv'
    BY <1>2, <1>n
       DEF CallSdUnmount, SD_Unmount, AppUsesCard, bus, CompleteInv, LengthInv, FileInv,
           RecordedIsComplete
  <2> QED
    BY <1>c, <2>2, <2>3, <2>4, <2>5, <2>6
<1>3. CASE WriteOpen
  <2>1. SdTypeOK'
    <3>1. disk' \in Nat \cup {NoFile} /\ wrote' \in Nat
      BY <1>3, FopenWType DEF WriteOpen, TypeOK
    <3>2. length' \in Nat
      BY <1>3, SdAssumption DEF WriteOpen
    <3> QED
      BY <1>3, <3>1, <3>2 DEF WriteOpen, FopenW, TypeOK, SdTypeOK, NotAcked
  <2>2. TypeOK'
    BY <1>3, <1>c, <2>1 DEF WriteOpen, FopenW, AppUsesCard, bus, TypeOK
  <2>3. FileInv'
    BY <1>3
       DEF WriteOpen, FopenW, AppUsesCard, bus, FileInv, Recording, AckedIsStored, TypeOK,
           SdTypeOK, NoFile, NotAcked
  <2>4. MountInv'
    BY <1>3
       DEF WriteOpen, FopenW, AppUsesCard, bus, MountInv, FileInv, MountedIsKnown,
           Recording, TypeOK, SdTypeOK, NoFile, NotAcked
  <2>5. LengthInv'
    BY <1>3, <1>n DEF WriteOpen, FopenW, AppUsesCard, bus, LengthInv
  <2>6. CompleteInv'
    BY <1>3, <1>n
       DEF WriteOpen, FopenW, AppUsesCard, bus, CompleteInv, LengthInv, FileInv,
           RecordedIsComplete
  <2> QED
    BY <1>c, <2>2, <2>3, <2>4, <2>5, <2>6
<1>4. CASE WriteData
  <2>1. SdTypeOK'
    <3>1. PICK n \in 0 .. length : Fwrite(n)
      BY <1>4 DEF WriteData
    <3>2. SdTypeOK /\ length \in Nat
      BY DEF TypeOK, SdTypeOK
    <3>3. wrote' \in Nat
      BY <3>1, <3>2, FwriteType
    <3> QED
      BY <1>4, <3>3 DEF WriteData, Fwrite, TypeOK, SdTypeOK
  <2>2. TypeOK'
    BY <1>4, <1>c, <2>1 DEF WriteData, Fwrite, AppUsesCard, bus, TypeOK
  <2>3. FileInv'
    <3>1. UNCHANGED <<open, closeOk, disk, acked, pc, enabled>>
      BY <1>4 DEF WriteData, Fwrite, AppUsesCard
    <3>2. sdPc = "write" /\ sdPc' = "close" /\ pc = "idle" /\ said' = ""
      BY <1>4 DEF WriteData, AppUsesCard
    <3> QED
      BY <3>1, <3>2 DEF FileInv, AckedIsStored, Recording
  <2>4. MountInv'
    BY <1>4
       DEF WriteData, Fwrite, AppUsesCard, bus, MountInv, FileInv, MountedIsKnown,
           Recording, TypeOK, SdTypeOK, NoFile, NotAcked
  <2>5. LengthInv'
    BY <1>4, <1>n DEF WriteData, Fwrite, AppUsesCard, bus, LengthInv
  <2>6. CompleteInv'
    BY <1>4, <1>n
       DEF WriteData, Fwrite, AppUsesCard, bus, CompleteInv, LengthInv, FileInv,
           RecordedIsComplete
  <2> QED
    BY <1>c, <2>2, <2>3, <2>4, <2>5, <2>6
<1>5. CASE WriteClose
  <2>1. SdTypeOK'
    BY <1>5, <1>n DEF WriteClose, Fclose, AppUsesCard, bus, TypeOK, SdTypeOK, NoFile, NotAcked
  <2>2. TypeOK'
    BY <1>5, <1>c, <2>1 DEF WriteClose, Fclose, AppUsesCard, bus, TypeOK
  <2>3. FileInv'
    BY <1>5
       DEF WriteClose, Fclose, AppUsesCard, bus, FileInv, Recording, AckedIsStored, TypeOK,
           SdTypeOK, NoFile, NotAcked
  <2>4. MountInv'
    BY <1>5
       DEF WriteClose, Fclose, AppUsesCard, bus, MountInv, FileInv, MountedIsKnown,
           Recording, TypeOK, SdTypeOK, NoFile, NotAcked
  <2>5. LengthInv'
    BY <1>5, <1>n DEF WriteClose, Fclose, AppUsesCard, bus, LengthInv
  <2>6. CompleteInv'
    BY <1>5, <1>n
       DEF WriteClose, Fclose, AppUsesCard, bus, CompleteInv, LengthInv, FileInv,
           RecordedIsComplete
  <2> QED
    BY <1>c, <2>2, <2>3, <2>4, <2>5, <2>6
<1> QED
  BY <1>1, <1>2, <1>3, <1>4, <1>5 DEF SdNext, AppUsesCard

(* A reboot, by an abort or by a loss of power, preserves RecInv.          *)
LEMMA RebootInv ==
  ASSUME RecInv, Reboot
  PROVE  RecInv'
<1>0. /\ card' = "NULL" /\ vfs' = "none" /\ UNCHANGED <<disk, closeOk, acked>>
      /\ open' = FALSE /\ wrote' = 0 /\ sdPc' = "idle" /\ length' = 0
      /\ pc' = "idle" /\ i2c' = FALSE /\ chans' = 0 /\ enabled' = FALSE /\ written' = 0
      /\ ret' = TRUE /\ said' = ""
  BY DEF Reboot, SdReboot
<1>1. CodecTypeOK' /\ CodecInv'
  BY CodecStepInv DEF RecNext
<1>2. SdTypeOK'
  BY <1>0 DEF RecInv, TypeOK, SdTypeOK
<1>3. TypeOK'
  <2>1. chans' = 0 /\ I2sPorts \in Nat
    BY <1>0, RecorderAssumption
  <2>2. chans' \in 0 .. I2sPorts
    BY <2>1
  <2> QED
    BY <1>0, <1>1, <1>2, <2>2 DEF TypeOK
<1>4. FileInv'
  BY <1>0 DEF RecInv, FileInv, Recording, AckedIsStored
<1>5. MountInv' /\ LengthInv' /\ CompleteInv'
  BY <1>0 DEF RecInv, MountInv, MountedIsKnown, Recording, LengthInv, CompleteInv,
    RecordedIsComplete
<1> QED
  BY <1>1, <1>3, <1>4, <1>5 DEF RecInv

(* Every step of the recorder preserves RecInv. *)
LEMMA RecStepInv ==
  ASSUME RecInv, RecNext
  PROVE  RecInv'
<1> USE DEF RecInv, sdVars, notSd, bus, codecVars, recVars
<1>c. CodecTypeOK' /\ CodecInv'
  BY CodecStepInv
<1>n. /\ Header \in Nat /\ WavSize \in Nat /\ ReadSize \in Nat
      /\ wrote \in Nat /\ written \in Nat
  BY RecorderAssumption DEF TypeOK, SdTypeOK
<1>1. CASE I2sInit
  <2>1. SdTypeOK'
    BY <1>1, <1>n DEF I2sInit, TypeOK, SdTypeOK, NoFile, NotAcked
  <2>2. TypeOK'
    <3>1. /\ chans \in 0 .. I2sPorts /\ I2sPorts \in Nat
          /\ chans < I2sPorts /\ chans' = chans + 1
      BY <1>1, RecorderAssumption DEF I2sInit, TypeOK
    <3>2. chans' \in 0 .. I2sPorts
      BY <3>1
    <3> QED
      BY <1>1, <1>c, <2>1, <3>2 DEF I2sInit, TypeOK
  <2>3. FileInv'
    BY <1>1 DEF I2sInit, FileInv, Recording, AckedIsStored, TypeOK, SdTypeOK, NoFile, NotAcked
  <2>4. MountInv'
    BY <1>1
       DEF I2sInit, MountInv, FileInv, MountedIsKnown, Recording, TypeOK, SdTypeOK, NoFile,
           NotAcked
  <2>5. LengthInv'
    BY <1>1, <1>n DEF I2sInit, LengthInv
  <2>6. CompleteInv'
    BY <1>1, <1>n DEF I2sInit, CompleteInv, LengthInv, FileInv, RecordedIsComplete
  <2> QED
    BY <1>c, <2>2, <2>3, <2>4, <2>5, <2>6
<1>2. CASE CodecInit
  <2>1. SdTypeOK'
    BY <1>2, <1>n DEF CodecInit, InstallOk, TypeOK, SdTypeOK, NoFile, NotAcked
  <2>2. TypeOK'
    BY <1>2, <1>c, <2>1 DEF CodecInit, InstallOk, TypeOK
  <2>3. FileInv'
    BY <1>2
       DEF CodecInit, InstallOk, FileInv, Recording, AckedIsStored, TypeOK, SdTypeOK,
           NoFile, NotAcked
  <2>4. MountInv'
    BY <1>2
       DEF CodecInit, InstallOk, MountInv, FileInv, MountedIsKnown, Recording, TypeOK,
           SdTypeOK, NoFile, NotAcked
  <2>5. LengthInv'
    BY <1>2, <1>n DEF CodecInit, InstallOk, LengthInv
  <2>6. CompleteInv'
    BY <1>2, <1>n DEF CodecInit, InstallOk, CompleteInv, LengthInv, FileInv, RecordedIsComplete
  <2> QED
    BY <1>c, <2>2, <2>3, <2>4, <2>5, <2>6
<1>3. CASE Mount
  <2>1. SdTypeOK'
    BY <1>3, <1>n
       DEF Mount, SD_Init, MountOk, MountFails, MountNoMem, TypeOK, SdTypeOK, NoFile,
           NotAcked
  <2>2. TypeOK'
    BY <1>3, <1>c, <2>1 DEF Mount, SD_Init, MountOk, MountFails, MountNoMem, TypeOK
  <2>3. FileInv'
    BY <1>3
       DEF Mount, SD_Init, MountOk, MountFails, MountNoMem, FileInv, Recording,
           AckedIsStored, TypeOK, SdTypeOK, NoFile, NotAcked
  <2>4. MountInv'
    BY <1>3
       DEF Mount, SD_Init, MountOk, MountFails, MountNoMem, MountInv, FileInv,
           MountedIsKnown, Recording, TypeOK, SdTypeOK, NoFile, NotAcked
  <2>5. LengthInv'
    BY <1>3, <1>n DEF Mount, SD_Init, MountOk, MountFails, MountNoMem, LengthInv
  <2>6. CompleteInv'
    BY <1>3, <1>n
       DEF Mount, SD_Init, MountOk, MountFails, MountNoMem, CompleteInv, LengthInv,
           FileInv, RecordedIsComplete
  <2> QED
    BY <1>c, <2>2, <2>3, <2>4, <2>5, <2>6
<1>4. CASE Open
  <2>1. SdTypeOK'
    <3>1. disk' \in Nat \cup {NoFile} /\ wrote' \in Nat
      BY <1>4, FopenWType DEF Open, TypeOK
    <3> QED
      BY <1>4, <3>1 DEF Open, FopenW, TypeOK, SdTypeOK, NotAcked
  <2>2. TypeOK'
    BY <1>4, <1>c, <2>1 DEF Open, FopenW, TypeOK
  <2>3. FileInv'
    BY <1>4
       DEF Open, FopenW, FileInv, Recording, AckedIsStored, TypeOK, SdTypeOK, NoFile,
           NotAcked
  <2>4. MountInv'
    BY <1>4
       DEF Open, FopenW, MountInv, FileInv, MountedIsKnown, Recording, TypeOK, SdTypeOK,
           NoFile, NotAcked
  <2>5. LengthInv'
    BY <1>4, <1>n DEF Open, FopenW, LengthInv
  <2>6. CompleteInv'
    BY <1>4, <1>n DEF Open, FopenW, CompleteInv, LengthInv, FileInv, RecordedIsComplete
  <2> QED
    BY <1>c, <2>2, <2>3, <2>4, <2>5, <2>6
<1>5. CASE OpenFails
  <2>1. SdTypeOK'
    BY <1>5, <1>n DEF OpenFails, TypeOK, SdTypeOK, NoFile, NotAcked
  <2>2. TypeOK'
    BY <1>5, <1>c, <2>1 DEF OpenFails, TypeOK
  <2>3. FileInv'
    BY <1>5 DEF OpenFails, FileInv, Recording, AckedIsStored, TypeOK, SdTypeOK, NoFile, NotAcked
  <2>4. MountInv'
    BY <1>5
       DEF OpenFails, MountInv, FileInv, MountedIsKnown, Recording, TypeOK, SdTypeOK,
           NoFile, NotAcked
  <2>5. LengthInv'
    BY <1>5, <1>n DEF OpenFails, LengthInv
  <2>6. CompleteInv'
    BY <1>5, <1>n DEF OpenFails, CompleteInv, LengthInv, FileInv, RecordedIsComplete
  <2> QED
    BY <1>c, <2>2, <2>3, <2>4, <2>5, <2>6
<1>6. CASE WriteHeader
  <2>1. SdTypeOK'
    <3>1. wrote' \in Nat
      BY <1>6, <1>n, FwriteType DEF WriteHeader, TypeOK
    <3> QED
      BY <1>6, <3>1 DEF WriteHeader, Fwrite, TypeOK, SdTypeOK
  <2>2. TypeOK'
    BY <1>6, <1>c, <2>1 DEF WriteHeader, Fwrite, TypeOK
  <2>3. FileInv'
    BY <1>6
       DEF WriteHeader, Fwrite, FileInv, Recording, AckedIsStored, TypeOK, SdTypeOK,
           NoFile, NotAcked
  <2>4. MountInv'
    BY <1>6
       DEF WriteHeader, Fwrite, MountInv, FileInv, MountedIsKnown, Recording, TypeOK,
           SdTypeOK, NoFile, NotAcked
  <2>5. LengthInv'
    BY <1>6, <1>n DEF WriteHeader, Fwrite, LengthInv
  <2>6. CompleteInv'
    BY <1>6, <1>n DEF WriteHeader, Fwrite, CompleteInv, LengthInv, FileInv, RecordedIsComplete
  <2> QED
    BY <1>c, <2>2, <2>3, <2>4, <2>5, <2>6
<1>7. CASE ChannelEnable
  <2>1. SdTypeOK'
    BY <1>7, <1>n DEF ChannelEnable, TypeOK, SdTypeOK, NoFile, NotAcked
  <2>2. TypeOK'
    BY <1>7, <1>c, <2>1 DEF ChannelEnable, TypeOK
  <2>3. FileInv'
    BY <1>7
       DEF ChannelEnable, FileInv, Recording, AckedIsStored, TypeOK, SdTypeOK, NoFile,
           NotAcked
  <2>4. MountInv'
    BY <1>7
       DEF ChannelEnable, MountInv, FileInv, MountedIsKnown, Recording, TypeOK, SdTypeOK,
           NoFile, NotAcked
  <2>5. LengthInv'
    BY <1>7, <1>n DEF ChannelEnable, LengthInv
  <2>6. CompleteInv'
    BY <1>7, <1>n DEF ChannelEnable, CompleteInv, LengthInv, FileInv, RecordedIsComplete
  <2> QED
    BY <1>c, <2>2, <2>3, <2>4, <2>5, <2>6
<1>8. CASE Sample
  <2>1. SdTypeOK'
    <3>1. wrote' \in Nat
      BY <1>8, <1>n, FwriteType DEF Sample, TypeOK
    <3> QED
      BY <1>8, <3>1 DEF Sample, Fwrite, TypeOK, SdTypeOK
  <2>2. TypeOK'
    <3>1. written' \in Nat
      BY <1>8, <1>n DEF Sample
    <3> QED
      BY <1>8, <1>c, <2>1, <3>1 DEF Sample, TypeOK
  <2>3. FileInv'
    BY <1>8
       DEF Sample, Fwrite, FileInv, Recording, AckedIsStored, TypeOK, SdTypeOK, NoFile,
           NotAcked
  <2>4. MountInv'
    BY <1>8
       DEF Sample, Fwrite, MountInv, FileInv, MountedIsKnown, Recording, TypeOK, SdTypeOK,
           NoFile, NotAcked
  <2>5. LengthInv'
    BY <1>8, <1>n DEF Sample, Fwrite, LengthInv
  <2>6. CompleteInv'
    BY <1>8, <1>n DEF Sample, Fwrite, CompleteInv, LengthInv, FileInv, RecordedIsComplete
  <2> QED
    BY <1>c, <2>2, <2>3, <2>4, <2>5, <2>6
<1>9. CASE GotoErr
  <2>1. SdTypeOK'
    BY <1>9, <1>n DEF GotoErr, TypeOK, SdTypeOK, NoFile, NotAcked
  <2>2. TypeOK'
    BY <1>9, <1>c, <2>1 DEF GotoErr, TypeOK
  <2>3. FileInv'
    BY <1>9 DEF GotoErr, FileInv, Recording, AckedIsStored, TypeOK, SdTypeOK, NoFile, NotAcked
  <2>4. MountInv'
    BY <1>9
       DEF GotoErr, MountInv, FileInv, MountedIsKnown, Recording, TypeOK, SdTypeOK, NoFile,
           NotAcked
  <2>5. LengthInv'
    BY <1>9, <1>n DEF GotoErr, LengthInv
  <2>6. CompleteInv'
    BY <1>9, <1>n DEF GotoErr, CompleteInv, LengthInv, FileInv, RecordedIsComplete
  <2> QED
    BY <1>c, <2>2, <2>3, <2>4, <2>5, <2>6
<1>10. CASE SamplesDone
  <2>1. SdTypeOK'
    BY <1>10, <1>n DEF SamplesDone, TypeOK, SdTypeOK, NoFile, NotAcked
  <2>2. TypeOK'
    BY <1>10, <1>c, <2>1 DEF SamplesDone, TypeOK
  <2>3. FileInv'
    BY <1>10
       DEF SamplesDone, FileInv, Recording, AckedIsStored, TypeOK, SdTypeOK, NoFile,
           NotAcked
  <2>4. MountInv'
    BY <1>10
       DEF SamplesDone, MountInv, FileInv, MountedIsKnown, Recording, TypeOK, SdTypeOK,
           NoFile, NotAcked
  <2>5. LengthInv'
    BY <1>10, <1>n DEF SamplesDone, LengthInv
  <2>6. CompleteInv'
    <3>1. wrote' >= Header + WavSize
      BY <1>10, <1>n DEF SamplesDone, LengthInv
    <3> QED
      BY <1>10, <3>1 DEF SamplesDone, CompleteInv, FileInv, RecordedIsComplete
  <2> QED
    BY <1>c, <2>2, <2>3, <2>4, <2>5, <2>6
<1>11. CASE CloseFile
  <2>1. SdTypeOK'
    BY <1>11, <1>n DEF CloseFile, Fclose, TypeOK, SdTypeOK, NoFile, NotAcked
  <2>2. TypeOK'
    BY <1>11, <1>c, <2>1 DEF CloseFile, Fclose, TypeOK
  <2>3. FileInv'
    BY <1>11
       DEF CloseFile, Fclose, FileInv, Recording, AckedIsStored, TypeOK, SdTypeOK, NoFile,
           NotAcked
  <2>4. MountInv'
    BY <1>11
       DEF CloseFile, Fclose, MountInv, FileInv, MountedIsKnown, Recording, TypeOK,
           SdTypeOK, NoFile, NotAcked
  <2>5. LengthInv'
    BY <1>11, <1>n DEF CloseFile, Fclose, LengthInv
  <2>6. CompleteInv'
    BY <1>11, <1>n DEF CloseFile, Fclose, CompleteInv, LengthInv, FileInv, RecordedIsComplete
  <2> QED
    BY <1>c, <2>2, <2>3, <2>4, <2>5, <2>6
<1>12. CASE Unmount
  <2>1. SdTypeOK'
    BY <1>12, <1>n DEF Unmount, SD_Unmount, TypeOK, SdTypeOK, NoFile, NotAcked
  <2>2. TypeOK'
    BY <1>12, <1>c, <2>1 DEF Unmount, SD_Unmount, TypeOK
  <2>3. FileInv'
    BY <1>12
       DEF Unmount, SD_Unmount, FileInv, Recording, AckedIsStored, TypeOK, SdTypeOK,
           NoFile, NotAcked
  <2>4. MountInv'
    BY <1>12
       DEF Unmount, SD_Unmount, MountInv, FileInv, MountedIsKnown, Recording, TypeOK,
           SdTypeOK, NoFile, NotAcked
  <2>5. LengthInv'
    BY <1>12, <1>n DEF Unmount, SD_Unmount, LengthInv
  <2>6. CompleteInv'
    BY <1>12, <1>n DEF Unmount, SD_Unmount, CompleteInv, LengthInv, FileInv, RecordedIsComplete
  <2> QED
    BY <1>c, <2>2, <2>3, <2>4, <2>5, <2>6
<1>13. CASE CallI2cInit
  <2>1. SdTypeOK'
    BY <1>13, <1>n
       DEF CallI2cInit, BspI2cInit, InstallOk, InstallFails, TypeOK, SdTypeOK, NoFile,
           NotAcked
  <2>2. TypeOK'
    BY <1>13, <1>c, <2>1 DEF CallI2cInit, BspI2cInit, InstallOk, InstallFails, TypeOK
  <2>3. FileInv'
    BY <1>13
       DEF CallI2cInit, BspI2cInit, InstallOk, InstallFails, FileInv, Recording,
           AckedIsStored, TypeOK, SdTypeOK, NoFile, NotAcked
  <2>4. MountInv'
    BY <1>13
       DEF CallI2cInit, BspI2cInit, InstallOk, InstallFails, MountInv, FileInv,
           MountedIsKnown, Recording, TypeOK, SdTypeOK, NoFile, NotAcked
  <2>5. LengthInv'
    BY <1>13, <1>n DEF CallI2cInit, BspI2cInit, InstallOk, InstallFails, LengthInv
  <2>6. CompleteInv'
    BY <1>13, <1>n
       DEF CallI2cInit, BspI2cInit, InstallOk, InstallFails, CompleteInv, LengthInv,
           FileInv, RecordedIsComplete
  <2> QED
    BY <1>c, <2>2, <2>3, <2>4, <2>5, <2>6
<1>14. CASE CodecConfig
  <2>2. SdTypeOK'
    BY <1>14 DEF CodecConfig, TypeOK, SdTypeOK
  <2>3. TypeOK'
    BY <1>c, <1>14, <2>2 DEF CodecConfig, TypeOK
  <2>4. FileInv' /\ MountInv'
    BY <1>14 DEF CodecConfig, FileInv, Recording, AckedIsStored, MountInv, MountedIsKnown
  <2>5. LengthInv' /\ CompleteInv'
    BY <1>14 DEF CodecConfig, LengthInv, CompleteInv,
    RecordedIsComplete
  <2> QED
    BY <1>c, <2>3, <2>4, <2>5
<1> QED
  BY <1>1, <1>2, <1>3, <1>4, <1>5, <1>6, <1>7, <1>8, <1>9, <1>10, <1>11,
    <1>12, <1>13, <1>14, AppUsesCardInv, RebootInv
     DEF RecNext, RecordAudio, RecordStep, ReadTimeout, CodecInitAborts

-----------------------------------------------------------------------------
(* The motion sensor *)

(* The registers QMI8658_Init writes, spelled out *)
LEMMA WritesFacts ==
  /\ Len(Writes) = 5
  /\ Writes[1] = "RESET" /\ Writes[2] = "CTRL1" /\ Writes[3] = "CTRL7"
  /\ Writes[4] = "CTRL2" /\ Writes[5] = "CTRL3"
  /\ Registers = {"CTRL1", "CTRL7", "CTRL2", "CTRL3"}
<1>1. /\ Len(Writes) = 5
      /\ Writes[1] = "RESET" /\ Writes[2] = "CTRL1" /\ Writes[3] = "CTRL7"
      /\ Writes[4] = "CTRL2" /\ Writes[5] = "CTRL3"
  BY DEF Writes
<1>2. 2 .. 5 = {2, 3, 4, 5}
  OBVIOUS
<1>3. Registers = {Writes[i] : i \in {2, 3, 4, 5}}
  BY <1>1, <1>2 DEF Registers
<1> QED
  BY <1>1, <1>3

(* (int8_t) of the last eight bits of a small number is that number. *)
LEMMA SignedByte ==
  ASSUME NEW q \in Int, q >= -128, q < 128
  PROVE  Int8(q % 256) = q
<1>1. CASE q >= 0
  <2>1. q % 256 = q
    BY <1>1
  <2> QED
    BY <1>1, <2>1 DEF Int8
<1>2. CASE q < 0
  <2>1. q % 256 = q + 256
    BY <1>2
  <2> QED
    BY <1>2, <2>1 DEF Int8
<1> QED
  BY <1>1, <1>2

(* The high byte of a signed 16 bit number is a signed 8 bit number. *)
LEMMA HighRange ==
  ASSUME NEW t \in Int, -32768 <= t, t < 32768,
         NEW q \in Int, NEW r \in Int, t = 256 * q + r, 0 <= r, r < 256
  PROVE  q >= -128 /\ q < 128
OBVIOUS

(* A 16 bit value is put together again from its two bytes, below zero too.*)
LEMMA BytesFacts ==
  ASSUME NEW t \in Int, -32768 <= t, t < 32768
  PROVE  Converted16(LowByte(t), HighByte(t)) = t
<1>1. /\ t \div 256 \in Int /\ t % 256 \in Int
      /\ t = 256 * (t \div 256) + (t % 256)
      /\ 0 <= t % 256 /\ t % 256 < 256
  OBVIOUS
<1>2. t \div 256 >= -128 /\ t \div 256 < 128
  BY <1>1, HighRange
<1>3. Int8(HighByte(t)) = t \div 256
  BY <1>1, <1>2, SignedByte DEF HighByte
<1> QED
  BY <1>1, <1>3 DEF Converted16, LowByte

(* QMI8658_Read_Temperature is exact, if the transfer worked. *)
LEMMA TemperatureStep ==
  ASSUME ReadTemperature, ok', "CTRL1" \in regs
  PROVE  exact'
<1>1. PICK t \in Temperatures :
        exact' = (t = Converted16(LowByte(t),
                        IF "CTRL1" \in regs THEN HighByte(t) ELSE LowByte(t)))
  BY DEF ReadTemperature
<1>2. t = Converted16(LowByte(t), HighByte(t))
  BY BytesFacts, QmiAssumption
<1> QED
  BY <1>1, <1>2

(* A write of a register, whether it works or not, leaves one more of them *)
(* written or known to be lost, and none less.                             *)
LEMMA ConfigureFacts ==
  ASSUME QmiTypeOK, Configure
  PROVE  /\ regs' \subseteq Registers /\ lost' \subseteq Registers
         /\ step = 1 => \/ regs' = {} /\ ready' = FALSE
                        \/ regs' = regs /\ ready' = ready
         /\ step = 1 => lost' = lost
         /\ step # 1 => /\ Writes[step] \in Registers
                        /\ regs \subseteq regs' /\ regs' \subseteq regs \cup {Writes[step]}
                        /\ regs' \cup lost' = regs \cup lost \cup {Writes[step]}
                        /\ ready' = ready
<1>1. step \in 1 .. 5 /\ regs \subseteq Registers /\ lost \subseteq Registers
  BY WritesFacts DEF QmiTypeOK
<1>2. ready \in BOOLEAN
  BY DEF QmiTypeOK
<1>3. step # 1 => Writes[step] \in Registers /\ Writes[step] # "RESET"
  BY <1>1, WritesFacts
<1>4. step = 1 => Writes[step] = "RESET"
  BY WritesFacts
<1>5. "RESET" \notin Registers
  BY WritesFacts
<1> DEFINE r == Writes[step]
<1>6. CASE /\ regs' = (IF r = "RESET" THEN {} ELSE regs \cup {r})
           /\ lost' = lost \ {r}
           /\ ready' = (ready /\ r # "RESET")
  BY <1>1, <1>2, <1>3, <1>4, <1>5, <1>6
<1>7. CASE lost' = lost \cup ({r} \cap Registers) /\ UNCHANGED <<regs, ready>>
  BY <1>1, <1>3, <1>4, <1>5, <1>7
<1> QED
  BY <1>6, <1>7 DEF Configure, Target, Written

(* Every step of the motion sensor's code, and of the sensor, preserves    *)
(* QmiInv.                                                                 *)
LEMMA QmiStepInv ==
  ASSUME QmiInv, QmiNext
  PROVE  QmiInv'
<1>m. MaxRetries \in Nat /\ 0 \in 0 .. MaxRetries
  BY QmiAssumption
<1>w. 1 .. Len(Writes) = 1 .. 5 /\ 1 \in 1 .. 5
  BY WritesFacts
<1> USE DEF QmiInv
<1>1. CASE InitBegin
  <2>1. QmiTypeOK'
    BY <1>m, <1>1 DEF InitBegin, QmiTypeOK, chipVars
  <2>2. ConfigInv' /\ IdInv' /\ SampleInv'
    BY <1>1 DEF InitBegin, chipVars, ConfigInv, Configured, IdInv, VerdictHonest,
      SampleInv
  <2> QED
    BY <2>1, <2>2
<1>2. CASE ReadId
  <2>1. QmiTypeOK'
    BY <1>2 DEF ReadId, Works, Fails, QmiTypeOK, chipVars
  <2>2. ConfigInv' /\ SampleInv'
    BY <1>2 DEF ReadId, chipVars, ConfigInv, Configured, SampleInv
  <2>3. IdInv'
    <3>1. ~answered /\ verdict' = "" /\ qPc' = "check"
      BY <1>2 DEF ReadId, ConfigInv, IdInv
    <3>2. CASE /\ right' \in BOOLEAN /\ answered' = (answered \/ right')
      BY <3>1, <3>2 DEF IdInv, VerdictHonest
    <3>3. CASE missed' = TRUE /\ UNCHANGED <<right, answered>>
      BY <3>1, <3>3 DEF IdInv, VerdictHonest
    <3> QED
      BY <1>2, <3>2, <3>3 DEF ReadId
  <2> QED
    BY <2>1, <2>2, <2>3
<1>3. CASE Retry
  <2>1. retries' \in 0 .. MaxRetries
    <3>1. retries \in 0 .. MaxRetries /\ retries < MaxRetries /\ retries' = retries + 1
      BY <1>3 DEF Retry, Again, QmiTypeOK
    <3> QED
      BY <1>m, <3>1
  <2>2. QmiTypeOK'
    BY <1>3, <2>1 DEF Retry, QmiTypeOK, chipVars
  <2>3. ConfigInv' /\ IdInv' /\ SampleInv'
    BY <1>3 DEF Retry, Again, chipVars, ConfigInv, Configured, IdInv, VerdictHonest,
      SampleInv
  <2> QED
    BY <2>2, <2>3
<1>4. CASE SayVerdict
  <2>1. QmiTypeOK'
    BY <1>m, <1>w, <1>4 DEF SayVerdict, Verdict, QmiTypeOK, chipVars
  <2>2. ConfigInv'
    <3>1. qPc' = "config" /\ step' = 1
      BY <1>4 DEF SayVerdict
    <3>2. RegistersUpTo(step' - 1) = {}
      BY <3>1 DEF RegistersUpTo
    <3> QED
      BY <3>1, <3>2 DEF ConfigInv, Configured
  <2>3. IdInv' /\ SampleInv'
    BY <1>4 DEF SayVerdict, Verdict, QmiTypeOK, chipVars, IdInv, VerdictHonest,
      SampleInv
  <2> QED
    BY <2>1, <2>2, <2>3
<1>5. CASE Configure
  <2>1. step \in 1 .. 5 /\ qPc = "config"
    BY <1>5, WritesFacts DEF Configure, QmiTypeOK
  <2>2. /\ step' = (IF step = 5 THEN 1 ELSE step + 1)
        /\ qPc' = (IF step = 5 THEN "idle" ELSE "config")
    BY <1>5, WritesFacts DEF Configure
  <2>3. /\ UNCHANGED <<raw, right, retries, verdict, acc, exact, answered, missed>>
        /\ ok' \in BOOLEAN
    BY <1>5 DEF Configure, Works, Fails, QmiTypeOK
  <2>4. RegistersUpTo(step - 1) \subseteq regs \cup lost
    BY <2>1 DEF ConfigInv
  <2>5. regs' \subseteq Registers /\ lost' \subseteq Registers /\ ready' \in BOOLEAN
    BY <1>5, ConfigureFacts DEF QmiTypeOK
  <2>6. QmiTypeOK'
    <3>1. step' \in 1 .. 5
      BY <2>1, <2>2
    <3> QED
      BY <1>w, <2>2, <2>3, <2>5, <3>1 DEF QmiTypeOK
  <2>7. RegistersUpTo(step) \subseteq regs' \cup lost'
    <3>1. CASE step = 1
      BY <3>1 DEF RegistersUpTo
    <3>2. CASE step # 1
      <4>1. RegistersUpTo(step) \subseteq RegistersUpTo(step - 1) \cup {Writes[step]}
        BY <2>1, <3>2 DEF RegistersUpTo
      <4> QED
        BY <1>5, <2>4, <3>2, <4>1, ConfigureFacts
    <3> QED
      BY <3>1, <3>2
  <2>8. ConfigInv'
    <3>1. CASE step = 5
      <4>1. Registers \subseteq regs' \cup lost'
        BY <2>7, <3>1, WritesFacts DEF Registers, RegistersUpTo
      <4> QED
        BY <2>2, <2>5, <3>1, <4>1 DEF ConfigInv, Configured
    <3>2. CASE step # 5
      <4>1. step' - 1 = step
        BY <2>1, <2>2, <3>2
      <4> QED
        BY <2>2, <2>7, <3>2, <4>1 DEF ConfigInv, Configured
    <3> QED
      BY <3>1, <3>2
  <2>9. IdInv'
    BY <2>2, <2>3 DEF IdInv, VerdictHonest
  <2>10. SampleInv'
    <3>1. CASE step = 1
      <4>1. (regs' = {} /\ ready' = FALSE) \/ (regs' = regs /\ ready' = ready)
        BY <1>5, <3>1, ConfigureFacts
      <4>2. lost' = lost /\ qPc' = "config"
        BY <1>5, <2>2, <3>1, ConfigureFacts
      <4> QED
        BY <4>1, <4>2 DEF SampleInv
    <3>2. CASE step # 1
      <4>1. "CTRL1" \in regs \cup lost => "CTRL1" \in regs' \cup lost'
        BY <1>5, <3>2, ConfigureFacts
      <4>2. "CTRL7" \in regs' => "CTRL7" \in regs \/ "CTRL7" = Writes[step]
        BY <1>5, <3>2, ConfigureFacts
      <4>3. ASSUME "CTRL7" = Writes[step] PROVE "CTRL1" \in regs \cup lost
        <5>1. step = 3
          BY <2>1, <4>3, WritesFacts
        <5> QED
          BY <2>4, <5>1, WritesFacts DEF RegistersUpTo
      <4>4. ready' = ready
        BY <1>5, <3>2, ConfigureFacts
      <4> QED
        BY <2>2, <4>1, <4>2, <4>3, <4>4 DEF SampleInv
    <3> QED
      BY <3>1, <3>2
  <2> QED
    BY <2>6, <2>8, <2>9, <2>10
<1>6. CASE ReadStatus
  <2>1. QmiTypeOK'
    BY <1>6 DEF ReadStatus, QmiTypeOK, chipVars, initVars
  <2>2. ConfigInv' /\ IdInv' /\ SampleInv'
    BY <1>6 DEF ReadStatus, chipVars, initVars, ConfigInv, Configured, IdInv, VerdictHonest,
      SampleInv
  <2> QED
    BY <2>1, <2>2
<1>7. CASE ReadBurst
  <2>1. QmiTypeOK'
    BY <1>7 DEF ReadBurst, Works, Fails, QmiTypeOK, initVars
  <2>2. ConfigInv' /\ IdInv'
    BY <1>7 DEF ReadBurst, initVars, ConfigInv, Configured, IdInv, VerdictHonest
  <2>3. SampleInv'
    <3>1. qPc' = "idle" /\ UNCHANGED <<regs, lost>> /\ (ready' = FALSE \/ ready' = ready)
      BY <1>7 DEF ReadBurst, initVars
    <3> QED
      BY <3>1 DEF SampleInv
  <2> QED
    BY <2>1, <2>2, <2>3
<1>8. CASE ReadTemperature
  <2>1. exact' \in BOOLEAN /\ ok' \in BOOLEAN
    BY <1>8 DEF ReadTemperature
  <2>2. QmiTypeOK'
    BY <1>8, <2>1 DEF ReadTemperature, QmiTypeOK, chipVars, initVars
  <2>3. ConfigInv' /\ IdInv' /\ SampleInv'
    BY <1>8 DEF ReadTemperature, chipVars, initVars, ConfigInv, Configured, IdInv, VerdictHonest,
      SampleInv
  <2> QED
    BY <2>2, <2>3
<1>9. CASE Measure
  <2>1. QmiTypeOK'
    BY <1>9 DEF Measure, QmiTypeOK, initVars
  <2>2. ConfigInv' /\ IdInv' /\ SampleInv'
    BY <1>9 DEF Measure, initVars, ConfigInv, Configured, IdInv, VerdictHonest,
      SampleInv
  <2> QED
    BY <2>1, <2>2
<1>10. CASE QmiReboot
  <2>1. QmiTypeOK'
    BY <1>m, <1>w, <1>10 DEF QmiReboot, QmiTypeOK
  <2>2. ConfigInv' /\ IdInv'
    BY <1>10 DEF QmiReboot, ConfigInv, Configured, IdInv, VerdictHonest
  <2>3. SampleInv'
    <3>1. /\ qPc' = "idle"
          /\ \/ UNCHANGED <<regs, ready, lost>>
             \/ regs' = {} /\ ready' = FALSE /\ lost' = {}
      BY <1>10 DEF QmiReboot
    <3> QED
      BY <3>1 DEF SampleInv
  <2> QED
    BY <2>1, <2>2, <2>3
<1> QED
  BY <1>1, <1>2, <1>3, <1>4, <1>5, <1>6, <1>7, <1>8, <1>9, <1>10 DEF QmiNext, QmiStep

-----------------------------------------------------------------------------
(* Both on one I2C port *)

(* Power-on establishes SensorsInv. *)
LEMMA SensorsInitial == SensorsInit => SensorsInv
<1> SUFFICES ASSUME SensorsInit PROVE SensorsInv
  OBVIOUS
<1>1. RecInit /\ QmiInit /\ app \in {"record", "motion"}
  BY DEF SensorsInit
<1>2. CodecTypeOK /\ CodecInv /\ stage = 1
  <2>1. codec = {} /\ stage = 1 /\ pc = "idle"
    BY <1>1 DEF RecInit, CodecPowerOn
  <2>2. CodecTypeOK
    BY <2>1, StagesFacts DEF CodecTypeOK
  <2> QED
    BY <2>1, <2>2 DEF CodecInv
<1>3. SdTypeOK
  BY <1>1 DEF RecInit, SdInit, SdTypeOK
<1>4. TypeOK
  <2>1. chans = 0 /\ I2sPorts \in Nat
    BY <1>1, RecorderAssumption DEF RecInit
  <2>2. chans \in 0 .. I2sPorts
    BY <2>1
  <2> QED
    BY <1>1, <1>2, <1>3, <2>2 DEF RecInit, TypeOK
<1>5. FileInv /\ MountInv /\ LengthInv /\ CompleteInv
  BY <1>1 DEF RecInit, SdInit, FileInv, Recording, AckedIsStored, MountInv, MountedIsKnown,
              LengthInv, CompleteInv,
    RecordedIsComplete
<1>6. QmiTypeOK
  <2>1. MaxRetries \in Nat /\ 0 \in 0 .. MaxRetries
    BY QmiAssumption
  <2>2. 1 \in 1 .. Len(Writes)
    BY WritesFacts
  <2> QED
    BY <1>1, <2>1, <2>2 DEF QmiInit, QmiTypeOK
<1>7. ConfigInv /\ IdInv /\ SampleInv
  BY <1>1 DEF QmiInit, ConfigInv, Configured, IdInv, VerdictHonest,
      SampleInv
<1> QED
  BY <1>1, <1>2, <1>4, <1>5, <1>6, <1>7 DEF SensorsInv, RecInv, QmiInv, RecInit

(* A step that leaves the sensor's variables alone keeps QmiInv. *)
LEMMA QmiUntouched ==
  ASSUME QmiInv, UNCHANGED qVars
  PROVE  QmiInv'
<1>1. QmiTypeOK'
  BY DEF QmiInv, QmiTypeOK, qVars, chipVars, initVars
<1>2. ConfigInv'
  BY DEF QmiInv, ConfigInv, Configured, qVars, chipVars, initVars
<1>3. IdInv' /\ SampleInv'
  BY DEF QmiInv, IdInv, VerdictHonest, SampleInv, qVars, chipVars, initVars
<1> QED
  BY <1>1, <1>2, <1>3 DEF QmiInv

(* As long as the codec has not been touched in this boot, what the motion *)
(* sensor does to the I2C driver is of no concern to the recorder.         *)
LEMMA RecUntouched ==
  ASSUME RecInv, UNCHANGED <<sdVars, codecVars, recVars>>,
         i2c' \in BOOLEAN, i2c' = i2c \/ stage = 1
  PROVE  RecInv'
<1>1. CodecTypeOK' /\ CodecInv'
  <2>1. UNCHANGED <<codec, stage, pc>>
    BY DEF codecVars, recVars
  <2>2. CodecTypeOK'
    BY <2>1 DEF RecInv, TypeOK, CodecTypeOK
  <2>3. stage' > 1 => i2c'
    <3>1. stage > 1 => i2c
      BY DEF RecInv, CodecInv
    <3>2. CASE i2c' = i2c
      BY <2>1, <3>1, <3>2
    <3>3. CASE stage = 1
      BY <2>1, <3>3
    <3> QED
      BY <3>2, <3>3
  <2> QED
    BY <2>1, <2>2, <2>3 DEF RecInv, CodecInv
<1>2. SdTypeOK'
  BY DEF RecInv, TypeOK, SdTypeOK, sdVars
<1>3. TypeOK'
  BY <1>1, <1>2 DEF RecInv, TypeOK, recVars
<1>4. FileInv' /\ MountInv'
  BY DEF RecInv, FileInv, Recording, AckedIsStored, MountInv, MountedIsKnown, sdVars, recVars
<1>5. LengthInv' /\ CompleteInv'
  BY DEF RecInv, LengthInv, CompleteInv, RecordedIsComplete, sdVars, recVars
<1> QED
  BY <1>1, <1>3, <1>4, <1>5 DEF RecInv

(* The driver is installed or not. *)
LEMMA QmiI2c ==
  ASSUME i2c \in BOOLEAN, QmiNext
  PROVE  i2c' \in BOOLEAN
BY DEF QmiNext, QmiStep, InitBegin, I2cMasterInit, InstallOk, InstallFails, ReadId, Retry,
       SayVerdict, Configure, ReadStatus, ReadBurst, ReadTemperature, Measure, QmiReboot

(* Every step of either application preserves SensorsInv. *)
LEMMA SensorsInductive == SensorsInv /\ [SensorsNext]_allVars => SensorsInv'
<1> SUFFICES ASSUME SensorsInv, [SensorsNext]_allVars
             PROVE  SensorsInv'
  OBVIOUS
<1> USE DEF SensorsInv
<1>1. CASE Records
  <2>1. RecInv'
    BY <1>1, RecStepInv DEF Records
  <2>2. QmiInv'
    BY <1>1, QmiUntouched DEF Records
  <2> QED
    BY <1>1, <2>1, <2>2 DEF Records
<1>2. CASE Moves
  <2>1. CASE QmiNext /\ UNCHANGED <<sdVars, codecVars, recVars>>
    <3>1. i2c' \in BOOLEAN
      BY <2>1, QmiI2c DEF RecInv, TypeOK
    <3>2. RecInv'
      BY <1>2, <2>1, <3>1, RecUntouched DEF Moves
    <3>3. QmiInv'
      BY <2>1, QmiStepInv
    <3> QED
      BY <1>2, <2>1, <3>2, <3>3 DEF Moves, codecVars, recVars
  <2>2. CASE CallI2cInit /\ UNCHANGED qVars
    <3>1. RecInv'
      BY <2>2, RecStepInv DEF RecNext
    <3>2. QmiInv'
      BY <2>2, QmiUntouched
    <3> QED
      BY <1>2, <2>2, <3>1, <3>2 DEF Moves, CallI2cInit, codecVars, recVars
  <2> QED
    BY <1>2, <2>1, <2>2 DEF Moves
<1>3. CASE UNCHANGED allVars
  <2>1. UNCHANGED <<sdVars, codecVars, recVars, i2c, qVars, app>>
    BY <1>3 DEF allVars, vars, bus
  <2>2. RecInv'
    BY <2>1, RecUntouched DEF RecInv, TypeOK
  <2>3. QmiInv'
    BY <2>1, QmiUntouched
  <2> QED
    BY <2>1, <2>2, <2>3 DEF codecVars, recVars
<1> QED
  BY <1>1, <1>2, <1>3 DEF SensorsNext

(* SensorsInv holds in every reachable state. *)
LEMMA SensorsInvariance == SensorsSpec => []SensorsInv
BY SensorsInitial, SensorsInductive, PTL DEF SensorsSpec

-----------------------------------------------------------------------------
(* Type correctness of the card, the recorder, the codec and the sensor.   *)
THEOREM SensorsTypeCorrect == SensorsSpec => []SensorsTypeOK
<1>1. SensorsInv => SensorsTypeOK
  BY DEF SensorsInv, RecInv, QmiInv, SensorsTypeOK
<1> QED
  BY <1>1, SensorsInvariance, PTL

(* SD_Write_Data: what it reported as written is on the card, if fclose    *)
(* worked, through every later mount, unmount, failed write and power loss.*)
THEOREM AckedDataIsStored == SensorsSpec => []AckedIsStored
<1>1. SensorsInv => AckedIsStored
  BY DEF SensorsInv, RecInv, FileInv
<1> QED
  BY <1>1, SensorsInvariance, PTL

(* SD_Init and SD_Unmount: a volume that is mounted can be unmounted again.*)
THEOREM MountedVolumeIsKnown == SensorsSpec => []MountedIsKnown
<1>1. SensorsInv => MountedIsKnown
  BY DEF SensorsInv, RecInv, MountInv
<1> QED
  BY <1>1, SensorsInvariance, PTL

(* record_wav: a recording that was reported is on the card with its header*)
(* and all the bytes that it promises, for every WavSize and ReadSize.     *)
THEOREM RecordingIsComplete == SensorsSpec => []RecordedIsComplete
<1>1. SensorsInv => RecordedIsComplete
  BY DEF SensorsInv, RecInv, CompleteInv
<1> QED
  BY <1>1, SensorsInvariance, PTL

(* "You can now remove the SD card safely": no file is open, nothing is    *)
(* mounted, and the channel has stopped.                                   *)
THEOREM RemovalIsSafe == SensorsSpec => []SafeToRemove
<1>1. SensorsInv => SafeToRemove
  BY DEF SensorsInv, RecInv, FileInv, MountInv, Recording, SafeToRemove
<1> QED
  BY <1>1, SensorsInvariance, PTL

(* RecordAudio and SD_Write_Data clean up on every path.                   *)
THEOREM CallsCleanUp == SensorsSpec => []NothingLeftRunning
<1>1. SensorsInv => NothingLeftRunning
  BY DEF SensorsInv, RecInv, FileInv, Recording, NothingLeftRunning
<1> QED
  BY <1>1, SensorsInvariance, PTL

(* es7210_config_codec: samples are only taken from a codec with all its   *)
(* settings, and no codec is on with settings missing, whatever a previous *)
(* attempt left in the chip.                                               *)
THEOREM CodecIsReady == SensorsSpec => []CodecReady
<1>1. SensorsInv => CodecReady
  BY DEF SensorsInv, RecInv, CodecInv, CodecReady
<1> QED
  BY <1>1, SensorsInvariance, PTL

(* QMI8658_Init returns with the sensor configured, up to the writes that  *)
(* failed, and nothing undoes that before the next QMI8658_Init.           *)
THEOREM SensorIsConfigured == SensorsSpec => []Configured
<1>1. SensorsInv => Configured
  BY DEF SensorsInv, QmiInv, ConfigInv
<1> QED
  BY <1>1, SensorsInvariance, PTL

(* QMI8658_Init says of the ID what its reads found, for every number of   *)
(* retries.                                                                *)
THEOREM IdVerdictIsHonest == SensorsSpec => []VerdictHonest
<1>1. SensorsInv => VerdictHonest
  BY DEF SensorsInv, QmiInv, IdInv
<1> QED
  BY <1>1, SensorsInvariance, PTL

(* QMI8658_Read_AccGry only ever hands over a sample that the sensor took, *)
(* unless a transfer of this call failed or the write of CTRL1 was lost.   *)
THEOREM SamplesAreMeasured == SensorsSpec => SampleIsMeasured
<1> DEFINE Measured == acc' # acc => acc' \in {raw, "zero"} \/ ~ok' \/ "CTRL1" \in lost
<1>1. SensorsInv /\ [SensorsNext]_allVars => [Measured]_<<qVars, i2c>>
  <2> SUFFICES ASSUME SensorsInv, [SensorsNext]_allVars, acc' # acc
               PROVE  acc' \in {raw, "zero"} \/ ~ok' \/ "CTRL1" \in lost
    OBVIOUS
  <2>1. QmiNext
    BY DEF SensorsNext, Records, Moves, allVars, qVars
  <2>2. CASE QmiReboot
    BY <2>2 DEF QmiReboot
  <2>3. CASE ReadBurst
    <3>1. qPc = "burst" /\ ok => "CTRL1" \in regs \cup lost
      BY DEF SensorsInv, QmiInv, SampleInv
    <3>2. ok' = FALSE \/ (ok' = ok /\ acc' = IF "CTRL1" \in regs THEN raw ELSE Junk)
      BY <2>3 DEF ReadBurst, Works, Fails
    <3> QED
      BY <2>3, <3>1, <3>2 DEF ReadBurst
  <2> QED
    BY <2>1, <2>2, <2>3
       DEF QmiNext, QmiStep, InitBegin, ReadId, Retry, SayVerdict, Configure, ReadStatus,
           ReadTemperature, Measure
<1> QED
  BY <1>1, SensorsInvariance, PTL DEF SensorsSpec, SampleIsMeasured

(* QMI8658_Read_Temperature yields the sensor's signed 16 bit value, for   *)
(* every such value, if the transfer worked and the address counts up.     *)
THEOREM TemperaturesAreExact == SensorsSpec => TemperatureExact
<1>1. [ReadTemperature /\ ok' /\ "CTRL1" \in regs => exact']_<<qVars, i2c>>
  BY TemperatureStep
<1> QED
  BY <1>1, PTL DEF TemperatureExact
=============================================================================
