------------------------------ MODULE Sensors ------------------------------
(***************************************************************************)
(* The two clients of the I2C port that install its driver themselves: the *)
(* recorder and the motion sensor.  The main task runs one call at a time, *)
(* and nothing but the driver is common to both, so that an application    *)
(* that uses one of them meets the other only as someone who may have      *)
(* installed the driver (CallI2cInit).                                     *)
(***************************************************************************)
EXTENDS Recorder, Qmi8658

VARIABLE app   \* what the application uses: "record" or "motion"

allVars == <<vars, qVars, app>>

SensorsInit == RecInit /\ QmiInit /\ app \in {"record", "motion"}

Records == app = "record" /\ RecNext /\ UNCHANGED <<qVars, app>>

Moves ==
  /\ app = "motion"
  /\ \/ QmiNext /\ UNCHANGED <<sdVars, codecVars, recVars>>
     \/ qPc = "idle" /\ CallI2cInit /\ UNCHANGED qVars
  /\ UNCHANGED app

SensorsNext == Records \/ Moves

(* Once called, RecordAudio and the functions of QMI8658.c run on: every   *)
(* transfer, read and file operation returns within its timeout, with or   *)
(* without samples.                                                        *)
SensorsSpec ==
  /\ SensorsInit /\ [][SensorsNext]_allVars
  /\ WF_allVars(app = "record" /\ RecordStep /\ UNCHANGED <<qVars, app>>)
  /\ WF_allVars(app = "motion" /\ QmiStep /\ UNCHANGED <<sdVars, codecVars, recVars, app>>)

(* The type of everything *)
SensorsTypeOK == TypeOK /\ QmiTypeOK /\ app \in {"record", "motion"}
=============================================================================
