------------------------------- MODULE Es7210 -------------------------------
(***************************************************************************)
(* The ES7210 codec and its driver: es7210_config_codec and then           *)
(* es7210_config_volume write the registers stage by stage; the first write*)
(* that fails ends them, and the caller aborts.  The chip keeps its        *)
(* registers through a reboot of the CPU, so that the next attempt starts  *)
(* on whatever the last one left.                                          *)
(***************************************************************************)
EXTENDS I2cDriver, Sequences

(* What is written, in this order.  "reset" clears the others, "on" lets   *)
(* the codec send samples.                                                 *)
Stages == <<"reset", "interface", "analog", "clock", "power", "on", "volume">>

Settings == {Stages[i] : i \in 2 .. Len(Stages)}

VARIABLES
  codec,  \* stages that are in effect in the chip
  stage   \* next stage to write

codecVars == <<codec, stage>>

CodecTypeOK == codec \subseteq Settings /\ stage \in 1 .. Len(Stages) + 1

CodecPowerOn == codec = {} /\ stage = 1

(* Mutant of WriteStage: a write that fails is passed over. *)
WriteStageUnchecked ==
  /\ i2c
  /\ stage <= Len(Stages)
  /\ codec' \in {codec, IF stage = 1 THEN {} ELSE codec \cup {Stages[stage]}}
  /\ stage' = stage + 1

(* The writes of one stage, all of them acknowledged. *)
WriteStage ==
  /\ i2c
  /\ stage <= Len(Stages)
  /\ codec' = IF stage = 1 THEN {} ELSE codec \cup {Stages[stage]}
  /\ stage' = stage + 1

(* A restart of the CPU, or a loss of power for the codec as well.         *)
CodecReboot ==
  /\ codec' \in {codec, {}}
  /\ stage' = 1
=============================================================================
