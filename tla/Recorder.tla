------------------------------ MODULE Recorder ------------------------------
(***************************************************************************)
(* RecordAudio of myES7210.c: set up the I2S channel and the codec, mount  *)
(* the card, write a WAV header that promises WavSize bytes, then samples  *)
(* read by read, close, unmount, and tell the user.  Failed set-up calls   *)
(* end in ESP_ERROR_CHECK: abort and reboot.  Between recordings the       *)
(* application may use the card itself, through SD_Init, SD_Unmount and    *)
(* SD_Write_Data of SdCard, on the same file.                              *)
(***************************************************************************)
EXTENDS SdCard, Es7210

CONSTANTS
  WavSize,   \* wav_size
  ReadSize,  \* sizeof(i2s_readraw_buff)
  Header,    \* sizeof(wav_header_t)
  I2sPorts   \* I2S controllers of the chip

ASSUME RecorderAssumption ==
  /\ WavSize \in Nat /\ ReadSize \in Nat \ {0} /\ Header \in Nat \ {0}
  /\ I2sPorts \in Nat

VARIABLES
  pc,       \* where RecordAudio is
  chans,    \* I2S channels allocated so far; none is ever deleted
  enabled,  \* the current channel is running
  written,  \* wav_written
  ret,      \* ret of record_wav is ESP_OK
  said      \* what the log told the user last: "", "recorded", "failed"

recVars == <<pc, chans, enabled, written, ret, said>>
bus == <<i2c, codecVars>>
vars == <<sdVars, bus, recVars>>
notSd == <<sdPc, length>>

RecInit ==
  /\ SdInit
  /\ pc = "idle"
  /\ i2c = FALSE
  /\ CodecPowerOn
  /\ chans = 0
  /\ enabled = FALSE
  /\ written = 0
  /\ ret = TRUE
  /\ said = ""

-----------------------------------------------------------------------------
(* abort(), or power loss: the user sees no message and the chip restarts. *)
Reboot ==
  /\ SdReboot
  /\ pc' = "idle"
  /\ i2c' = FALSE
  /\ CodecReboot
  /\ chans' = 0 /\ enabled' = FALSE /\ written' = 0 /\ ret' = TRUE
  /\ said' = ""

(* es7210_i2s_init: i2s_new_channel takes a free controller; when there is *)
(* none, or any of its calls fails, it aborts (Reboot).                    *)
I2sInit ==
  /\ pc = "idle" /\ sdPc = "idle"
  /\ chans < I2sPorts
  /\ chans' = chans + 1
  /\ pc' = "codec"
  /\ said' = ""
  /\ UNCHANGED <<sdVars, bus, enabled, written, ret>>

(* es7210_codec_init: installing the I2C driver a second time fails, so    *)
(* that a second recording in one boot always aborts here.                 *)
CodecInit ==
  /\ pc = "codec"
  /\ InstallOk
  /\ pc' = "config"
  /\ UNCHANGED <<sdVars, codecVars, chans, enabled, written, ret, said>>

CodecInitAborts == pc = "codec" /\ i2c /\ Reboot

(* es7210_config_codec and es7210_config_volume, until all is written.  A  *)
(* write that fails aborts (Reboot).                                       *)
CodecConfig ==
  /\ pc = "config"
  /\ WriteStage
  /\ pc' = IF stage' > Len(Stages) THEN "mount" ELSE "config"
  /\ UNCHANGED <<sdVars, i2c, chans, enabled, written, ret, said>>

Mount ==
  /\ pc = "mount"
  /\ SD_Init
  /\ pc' = "open"
  /\ UNCHANGED <<open, wrote, closeOk, notSd, bus, chans, enabled, written, ret, said>>

Open ==
  /\ pc = "open"
  /\ FopenW
  /\ written' = 0 /\ ret' = TRUE
  /\ pc' = "header"
  /\ UNCHANGED <<card, vfs, notSd, bus, chans, enabled, said>>

OpenFails ==
  /\ pc = "open"
  /\ ret' = FALSE
  /\ pc' = "unmount"
  /\ UNCHANGED <<sdVars, bus, chans, enabled, written, said>>

WriteHeader ==
  /\ pc = "header"
  /\ Fwrite(Header)
  /\ pc' = "enable"
  /\ UNCHANGED <<card, vfs, notSd, acked, bus, chans, enabled, written, ret, said>>

ChannelEnable ==
  /\ pc = "enable"
  /\ enabled' = TRUE
  /\ pc' = "samples"
  /\ UNCHANGED <<sdVars, bus, chans, written, ret, said>>

(* Mutant of Sample: a read that fails is counted with its -1. *)
SampleErrorCounted ==
  /\ pc = "samples"
  /\ written < WavSize
  /\ \/ Fwrite(ReadSize) /\ written' = written + ReadSize
     \/ Fwrite(0) /\ written' = written - 1
  /\ UNCHANGED <<card, vfs, notSd, acked, pc, bus, chans, enabled, ret, said>>

(* One round of the loop: i2s_channel_read fills the whole buffer. *)
Sample ==
  /\ pc = "samples"
  /\ written < WavSize
  /\ Fwrite(ReadSize)
  /\ written' = written + ReadSize
  /\ UNCHANGED <<card, vfs, notSd, acked, pc, bus, chans, enabled, ret, said>>

(* Mutant of GotoErr: ret keeps its ESP_OK. *)
GotoErrSilent ==
  /\ \/ pc \in {"header", "enable"}
     \/ pc = "samples" /\ written < WavSize
  /\ pc' = "err"
  /\ UNCHANGED <<sdVars, bus, chans, enabled, written, ret, said>>

(* A read, a write or the channel fails: goto err. *)
GotoErr ==
  /\ \/ pc \in {"header", "enable"}
     \/ pc = "samples" /\ written < WavSize
  /\ ret' = FALSE
  /\ pc' = "err"
  /\ UNCHANGED <<sdVars, bus, chans, enabled, written, said>>

(* Mutant of ReadTimeout: the read waits for ever (portMAX_DELAY). *)
ReadWaits ==
  /\ pc = "samples"
  /\ written < WavSize
  /\ UNCHANGED vars

(* No samples for a second: i2s_channel_read returns ESP_ERR_TIMEOUT. *)
ReadTimeout == pc = "samples" /\ GotoErr

(* Mutant of SamplesDone: only a failed loop goes through err. *)
SamplesDoneReturns ==
  /\ pc = "samples"
  /\ written >= WavSize
  /\ pc' = "unmount"
  /\ UNCHANGED <<sdVars, bus, chans, enabled, written, ret, said>>

SamplesDone ==
  /\ pc = "samples"
  /\ written >= WavSize
  /\ pc' = "err"
  /\ UNCHANGED <<sdVars, bus, chans, enabled, written, ret, said>>

(* err: stop the channel, close the file. *)
CloseFile ==
  /\ pc = "err"
  /\ enabled' = FALSE
  /\ Fclose
  /\ pc' = "unmount"
  /\ UNCHANGED <<card, vfs, wrote, notSd, acked, bus, chans, written, ret, said>>

Unmount ==
  /\ pc = "unmount"
  /\ SD_Unmount
  /\ said' = IF ret THEN "recorded" ELSE "failed"
  /\ pc' = "idle"
  /\ UNCHANGED <<disk, open, wrote, closeOk, notSd, acked, bus, chans, enabled, written, ret>>

(* What RecordAudio does by itself ... *)
RecordStep ==
  \/ CodecInit \/ CodecInitAborts \/ CodecConfig \/ Mount \/ Open \/ OpenFails \/ WriteHeader
  \/ ChannelEnable \/ ReadTimeout \/ SamplesDone \/ CloseFile \/ Unmount

(* ... and with what the codec delivers, or when something fails *)
RecordAudio == RecordStep \/ Sample \/ GotoErr

(* The application's own use of the card; it outdates the last message. *)
AppUsesCard ==
  /\ pc = "idle"
  /\ SdNext
  /\ said' = ""
  /\ UNCHANGED <<pc, bus, chans, enabled, written, ret>>

(* app_main calls bsp_i2c_init, or QMI8658_Init, which installs the driver *)
(* in the same way.                                                        *)
CallI2cInit ==
  /\ pc = "idle" /\ sdPc = "idle"
  /\ BspI2cInit
  /\ UNCHANGED <<sdVars, codecVars, recVars>>

RecNext == I2sInit \/ RecordAudio \/ AppUsesCard \/ CallI2cInit \/ Reboot

(* The task that records keeps running: i2s_channel_read returns within its*)
(* timeout, and the file system's calls return.  That samples ever come is *)
(* not assumed.                                                            *)
RecSpec == RecInit /\ [][RecNext]_vars /\ WF_vars(RecordStep)

-----------------------------------------------------------------------------
TypeOK ==
  /\ SdTypeOK
  /\ CodecTypeOK
  /\ pc \in {"idle", "codec", "config", "mount", "open", "header", "enable", "samples", "err", "unmount"}
  /\ i2c \in BOOLEAN /\ enabled \in BOOLEAN /\ ret \in BOOLEAN
  /\ chans \in 0 .. I2sPorts
  /\ written \in Nat
  /\ said \in {"", "recorded", "failed"}

(* "Audio was successfully recorded" (myES7210.c:128): the file on the card*)
(* has the header and at least the WavSize bytes that it promises, if the  *)
(* fclose whose result myES7210.c:114 drops worked.                        *)
RecordedIsComplete == said = "recorded" /\ closeOk => disk >= Header + WavSize

(* subchunk_size of the data chunk "==NumSamples * NumChannels *           *)
(* BitsPerSample / 8" (format_wav.h): it is the number of bytes that follow*)
(* the header.                                                             *)
HeaderDescribesFile == said = "recorded" /\ closeOk => disk = Header + WavSize

(* "You can now remove the SD card safely" (myES7210.c:129): no file is    *)
(* open, nothing is mounted, and the channel that fed it has stopped.      *)
SafeToRemove == said = "recorded" => ~open /\ vfs = "none" /\ ~enabled

(* A call that failed has cleaned up as well: between two calls no file is *)
(* open and no channel runs.  (The channel itself and the I2C driver stay: *)
(* a second RecordAudio in one boot aborts.)                               *)
NothingLeftRunning == pc = "idle" /\ sdPc = "idle" => ~open /\ ~enabled

(* Samples are taken only from a codec with all its settings, however many *)
(* attempts to configure it were cut short by an abort or a loss of power  *)
(* before, and no codec is ever switched on with settings missing.         *)
CodecReady ==
  /\ pc = "samples" => codec = Settings
  /\ "on" \in codec => Settings \ {"volume"} \subseteq codec

(* A recording always comes to an end, with a message or with a reboot,    *)
(* even if the codec stops delivering samples.                             *)
RecordingEnds == pc # "idle" ~> pc = "idle"
=============================================================================
