---------------------------- MODULE BoardProofs -----------------------------
(***************************************************************************)
(* Proofs about the IO expander and the bring-up of the display, for every *)
(* set of pins, of default levels and of brightness percentages.           *)
(***************************************************************************)
EXTENDS Board, TLAPS

(* What the expander's code relies on: unless a transfer went wrong, the   *)
(* register holds what was asked for, except between power-on and the first*)
(* write, when nothing is driven; a byte that was read is still current.   *)
PcaInv ==
  /\ TypeOK
  /\ known => output = asked \/ (pc = "off" /\ config = Pins)
  /\ known /\ pc = "modify" => data = output
  /\ ready => pc # "off"

(* A step of the expander's code, whoever calls it. *)
PcaStep ==
  \/ InitOutput \/ InitConfig \/ ReadPort \/ Reboot
  \/ \E ok \in BOOLEAN : WritePort(ok)

(* SET_BITS changes the one bit, and stays within the pins. *)
LEMMA SetBits ==
  ASSUME NEW m \in SUBSET Pins, NEW s \in Pins, NEW v \in BOOLEAN
  PROVE  /\ SET_BITS(m, s, v) \in SUBSET Pins
         /\ (s \in SET_BITS(m, s, v)) <=> v
  BY DEF SET_BITS

(* Power-on establishes PcaInv. *)
LEMMA PcaInitial == Init => PcaInv
  BY PcaAssumption DEF Init, PcaInv, TypeOK

(* Every step of the expander's code preserves PcaInv. *)
LEMMA PcaInductive == PcaInv /\ [PcaStep]_vars => PcaInv'
  <1> SUFFICES ASSUME PcaInv, [PcaStep]_vars PROVE PcaInv'
    OBVIOUS
  <1> USE DEF PcaInv, TypeOK, WriteByte
  <1>1. CASE InitOutput
    BY <1>1, PcaAssumption DEF InitOutput
  <1>2. CASE InitConfig
    BY <1>2 DEF InitConfig
  <1>3. CASE ReadPort
    <2>1. CASE data' = output /\ known' = known
      BY <1>3, <2>1 DEF ReadPort
    <2>2. CASE data' \in SUBSET Pins /\ known' = FALSE
      BY <1>3, <2>2 DEF ReadPort
    <2> QED
      BY <1>3, <2>1, <2>2 DEF ReadPort
  <1>4. CASE Reboot
    BY <1>4 DEF Reboot
  <1>5. CASE \E ok \in BOOLEAN : WritePort(ok)
    <2>1. PICK ok \in BOOLEAN : WritePort(ok)
      BY <1>5
    <2> DEFINE new(m) == SET_BITS(m, request[1], request[2])
    <2>2. request[1] \in Pins /\ request[2] \in BOOLEAN
      OBVIOUS
    <2>3. \A m \in SUBSET Pins : new(m) \in SUBSET Pins
      BY <2>2, SetBits
    <2>4. /\ output' = IF ok THEN new(data) ELSE output
          /\ asked' = IF ok THEN new(asked) ELSE asked
          /\ pc = "modify" /\ pc' = "idle" /\ data' = {}
          /\ UNCHANGED <<config, ready, known, request>>
      BY <2>1 DEF WritePort
    <2>5. output' \in SUBSET Pins /\ asked' \in SUBSET Pins
      BY <2>3, <2>4
    <2>6. known => output' = asked'
      BY <2>4
    <2> QED
      BY <2>4, <2>5, <2>6
  <1>6. CASE UNCHANGED vars
    BY <1>6 DEF vars
  <1> QED
    BY <1>1, <1>2, <1>3, <1>4, <1>5, <1>6 DEF PcaStep

(* Whatever the board does, to the expander it is a step of its own code.  *)
LEMMA BoardStep == [BoardNext]_allVars => [PcaStep]_vars
  <1> SUFFICES ASSUME [BoardNext]_allVars PROVE [PcaStep]_vars
    OBVIOUS
  <1>1. CASE PcaInit
    BY <1>1 DEF PcaInit, PcaStep
  <1>2. CASE LcdCsRead
    BY <1>2 DEF LcdCsRead, PcaStep
  <1>3. CASE LcdCsWrite
    BY <1>3 DEF LcdCsWrite, PcaStep
  <1>4. CASE SetPin
    BY <1>4 DEF SetPin, PcaStep
  <1>5. CASE BoardReboot
    BY <1>5 DEF BoardReboot, PcaStep
  <1>6. CASE \/ BrightnessInit \/ BusInit \/ NewPanelIo \/ NewPanel
             \/ DisplayErr \/ PanelReset \/ PanelInit \/ PanelOrient \/ Fill
             \/ DispOn \/ AddDisp \/ BacklightOn \/ BrightnessSet
    BY <1>6 DEF BrightnessInit, BusInit, NewPanelIo, NewPanel, DisplayErr,
      PanelReset, PanelInit, PanelOrient, Fill, DispOn, AddDisp, BacklightOn,
      BrightnessSet
  <1>7. CASE UNCHANGED allVars
    BY <1>7 DEF allVars
  <1> QED
    BY <1>1, <1>2, <1>3, <1>4, <1>5, <1>6, <1>7 DEF BoardNext

(* PcaInv holds in every reachable state of the board. *)
LEMMA PcaInvariance == BoardSpec => []PcaInv
  <1>1. BoardInit => PcaInv
    BY PcaInitial DEF BoardInit
  <1>2. PcaInv /\ [BoardNext]_allVars => PcaInv'
    BY BoardStep, PcaInductive
  <1> QED
    BY <1>1, <1>2, PTL DEF BoardSpec

(* pca9557_set_output_state and pca9557_init: until a read fails, every    *)
(* driven pin has the level last asked for it, for any set of pins and     *)
(* whichever writes fail.                                                  *)
THEOREM PinsKept == BoardSpec => []PinsAsAsked
  <1>1. PcaInv => PinsAsAsked
    BY DEF PcaInv, TypeOK, PinsAsAsked, DrivenHigh, Driven
  <1> QED
    BY <1>1, PcaInvariance, PTL

(* pca9557_init writes levels before directions: no pin is driven high     *)
(* unasked, not even in the middle of an initialisation after a reboot.    *)
THEOREM NoGlitch == BoardSpec => []NeverDrivenUnasked
  <1>1. PcaInv => NeverDrivenUnasked
    BY DEF PcaInv, TypeOK, NeverDrivenUnasked, DrivenHigh, Driven
  <1> QED
    BY <1>1, PcaInvariance, PTL

(* pca9557_set_output_state: an accepted request has set its own pin, even *)
(* when the byte it was set in came from a failed read.                    *)
THEOREM AcceptedSets == BoardSpec => AcceptedPinSet
  <1> DEFINE A == asked' # asked /\ pc = "modify"
                    => (request[1] \in output') = request[2]
  <1>1. PcaInv /\ [BoardNext]_allVars => [A]_vars
    <2> SUFFICES ASSUME PcaInv, [PcaStep]_vars, asked' # asked, pc = "modify"
                 PROVE  (request[1] \in output') = request[2]
      BY BoardStep
    <2>1. PICK ok \in BOOLEAN : WritePort(ok)
      BY DEF PcaStep, InitOutput, InitConfig, ReadPort, Reboot, vars
    <2>2. /\ request[1] \in Pins /\ request[2] \in BOOLEAN
          /\ data \in SUBSET Pins
      BY DEF PcaInv, TypeOK
    <2>3. output' = SET_BITS(data, request[1], request[2])
      BY <2>1 DEF WritePort, WriteByte
    <2>4. (request[1] \in SET_BITS(data, request[1], request[2])) <=> request[2]
      BY <2>2, SetBits
    <2> QED
      BY <2>2, <2>3, <2>4
  <1> QED
    BY <1>1, PcaInvariance, PTL DEF BoardSpec, AcceptedPinSet

-----------------------------------------------------------------------------
(* The part of BoardTypeOK that is about the board itself. *)
BootTypeInv ==
  /\ bootPc \in {"pca", "dark", "bus", "io", "panel", "reset", "cs", "init",
                 "orient", "err", "fill", "on", "adddisp", "light", "run"}
  /\ entry \in Entries
  /\ bus \in BOOLEAN /\ csLow \in BOOLEAN
  /\ io \in {"NULL", "live", "freed"} /\ panel \in {"NULL", "live", "freed"}
  /\ chip \in {"reset", "off", "on"}
  /\ applied \subseteq Commands

DutyInv == duty \in 0 .. 1023

(* bsp_display_brightness_set: any percentage, also a negative one or one  *)
(* above 100, gives a duty cycle that the 10-bit timer can count to.       *)
LEMMA DutyInRange ==
  ASSUME NEW p \in Int
  PROVE  Duty(p) \in 0 .. 1023
<1> DEFINE percent == IF p > 100 THEN 100 ELSE IF p < 0 THEN 0 ELSE p
<1>1. percent \in Int /\ 0 <= percent /\ percent <= 100
  OBVIOUS
<1>2. Duty(p) = (1023 * percent) \div 100
  BY DEF Duty
<1>3. ASSUME NEW q \in Int, 0 <= q, q <= 100
      PROVE  (1023 * q) \div 100 \in 0 .. 1023
  BY <1>3
<1> HIDE DEF percent
<1> QED
  BY <1>1, <1>2, <1>3

(* Every step of bring-up keeps the types of the board's own state. *)
LEMMA BootTypeInductive ==
  ASSUME BootTypeInv, [BoardNext]_allVars
  PROVE  BootTypeInv'
<1> USE DEF BootTypeInv
<1>1. CASE PcaInit
  BY <1>1 DEF PcaInit
<1>2. CASE BrightnessInit
  BY <1>2 DEF BrightnessInit
<1>3. CASE BusInit
  BY <1>3 DEF BusInit
<1>4. CASE NewPanelIo
  BY <1>4 DEF NewPanelIo
<1>5. CASE NewPanel
  BY <1>5 DEF NewPanel
<1>6. CASE DisplayErr
  BY <1>6 DEF DisplayErr
<1>7. CASE PanelReset
  BY <1>7 DEF PanelReset
<1>8. CASE UNCHANGED boardVars
  BY <1>8 DEF boardVars
<1>9. CASE LcdCsWrite
  BY <1>9 DEF LcdCsWrite
<1>10. CASE PanelInit
  BY <1>10 DEF PanelInit, Commands
<1>11. CASE PanelOrient
  BY <1>11 DEF PanelOrient, Commands
<1>12. CASE Fill
  BY <1>12 DEF Fill, Commands
<1>13. CASE DispOn
  BY <1>13 DEF DispOn, Commands
<1>14. CASE AddDisp
  BY <1>14 DEF AddDisp
<1>15. CASE BacklightOn
  BY <1>15 DEF BacklightOn
<1>16. CASE BrightnessSet
  BY <1>16 DEF BrightnessSet
<1>17. CASE BoardReboot
  <2>1. /\ bootPc' = "pca" /\ entry' \in Entries /\ bus' = FALSE /\ io' = "NULL"
        /\ panel' = "NULL" /\ csLow' = FALSE /\ applied' = {} /\ chip' = chip
    BY <1>17 DEF BoardReboot
  <2> QED
    BY <2>1
<1>18. CASE LcdCsRead \/ SetPin \/ UNCHANGED allVars
  <2>1. UNCHANGED boardVars
    BY <1>18 DEF LcdCsRead, SetPin, allVars
  <2> QED
    BY <2>1, <1>8
<1> QED
  BY <1>1, <1>2, <1>3, <1>4, <1>5, <1>6, <1>7, <1>9, <1>10, <1>11, <1>12,
     <1>13, <1>14, <1>15, <1>16, <1>17, <1>18 DEF BoardNext

(* Only the brightness functions and a reboot touch the duty cycle. *)
LEMMA DutyInductive ==
  ASSUME DutyInv, [BoardNext]_allVars
  PROVE  DutyInv'
<1>1. \/ duty' = 0 \/ duty' = duty \/ duty' = Duty(100)
      \/ \E p \in Percents : duty' = Duty(p)
  BY DEF BoardNext, allVars, boardVars, PcaInit, BrightnessInit, BusInit, NewPanelIo,
     NewPanel, DisplayErr, PanelReset, LcdCsRead, LcdCsWrite, PanelInit, PanelOrient,
     Fill, DispOn, AddDisp, BacklightOn, BrightnessSet, SetPin, BoardReboot
<1>2. Duty(100) \in 0 .. 1023 /\ \A p \in Percents : Duty(p) \in 0 .. 1023
  <2>1. Duty(100) \in 0 .. 1023
    BY DEF Duty
  <2>2. ASSUME NEW p \in Percents PROVE Duty(p) \in 0 .. 1023
    <3>1. p \in Int
      BY BoardAssumption
    <3> QED
      BY <3>1, DutyInRange
  <2> QED
    BY <2>1, <2>2
<1>3. 0 \in 0 .. 1023
  OBVIOUS
<1> QED
  BY <1>1, <1>2, <1>3 DEF DutyInv

(* Type correctness of the expander and of the board: whichever calls fail,*)
(* the registers stay within the pins and the backlight's duty cycle within*)
(* its timer's ten bits.                                                   *)
THEOREM BoardTypeCorrect == BoardSpec => []BoardTypeOK
  <1>1. BoardInit => BootTypeInv /\ DutyInv
    <2> SUFFICES ASSUME BoardInit PROVE BootTypeInv /\ DutyInv
      OBVIOUS
    <2>1. BootTypeInv
      BY DEF BoardInit, BootTypeInv
    <2>2. DutyInv
      BY DEF BoardInit, DutyInv
    <2> QED
      BY <2>1, <2>2
  <1>2. BootTypeInv /\ DutyInv /\ [BoardNext]_allVars => BootTypeInv' /\ DutyInv'
    BY BootTypeInductive, DutyInductive
  <1>3. PcaInv /\ BootTypeInv /\ DutyInv => BoardTypeOK
    BY DEF PcaInv, BootTypeInv, DutyInv, BoardTypeOK
  <1> QED
    BY <1>1, <1>2, <1>3, PcaInvariance, PTL DEF BoardSpec

-----------------------------------------------------------------------------
(* Which handles exist at which place of bsp_display_new; panel_handle is  *)
(* never one that was deleted.                                             *)
HandlesInv ==
  /\ panel \in {"NULL", "live"}
  /\ bootPc \in {"pca", "dark", "bus", "io"} => io = "NULL" /\ panel = "NULL"
  /\ bootPc \in {"io", "panel"} => bus
  /\ bootPc = "panel" => io = "live" /\ panel = "NULL"
  /\ bootPc \in {"reset", "cs", "init", "orient"} => panel = "live"
  /\ bootPc = "err" => panel = "NULL" /\ io # "freed"
  /\ panel = "live" => bus /\ io = "live"

(* The light is last, and with LVGL there is a panel by then. *)
LightInv ==
  /\ duty # 0 => bootPc = "run"
  /\ entry = "lvgl" /\ bootPc \in {"light", "run"} => panel = "live"

AfterOn == {"adddisp", "light", "run"}
AfterOrient == {"fill", "on"} \cup AfterOn
AfterInit == {"orient"} \cup AfterOrient

(* Once lcd_cs(0) was accepted the panel listens to all that follows. *)
SelectInv ==
  /\ pc = "modify" => bootPc \in {"cs", "run"}
  /\ bootPc = "cs" /\ pc = "modify" => request = <<CS, FALSE>>
  /\ csLow => panel = "live" /\ bootPc \in {"init"} \cup AfterInit
  /\ csLow /\ bootPc \in {"init", "orient", "fill", "on"} => CS \notin output
  /\ csLow /\ CS \notin config =>
       /\ bootPc \in AfterInit => "config" \in applied
       /\ bootPc \in AfterOrient => "orient" \in applied
       /\ bootPc \in AfterOn => "on" \in applied

BootInv == HandlesInv /\ LightInv /\ SelectInv

(* An accepted lcd_cs(0) leaves LCD_CS low. *)
LEMMA CsWritten ==
  ASSUME PcaInv, request = <<CS, FALSE>>, WritePort(TRUE)
  PROVE  CS \notin output'
  BY DEF WritePort, WriteByte, SET_BITS

(* A selected panel hears what it is sent. *)
LEMMA SelectedHears ==
  ASSUME CS \notin output, CS \notin config
  PROVE  Selected = {TRUE}
  BY DEF Selected

(* Every step of bring-up preserves BootInv. *)
LEMMA BootInductive ==
  ASSUME PcaInv, BootInv, [BoardNext]_allVars
  PROVE  BootInv'
<1> USE DEF BootInv, HandlesInv, LightInv, SelectInv, AfterOn, AfterOrient, AfterInit
<1>1. CASE PcaInit
  BY <1>1 DEF PcaInit, InitOutput, InitConfig
<1>2. CASE BrightnessInit
  BY <1>2 DEF BrightnessInit, vars
<1>3. CASE BusInit
  BY <1>3 DEF BusInit, vars
<1>4. CASE NewPanelIo
  BY <1>4 DEF NewPanelIo, vars
<1>5. CASE NewPanel
  BY <1>5 DEF NewPanel, vars
<1>6. CASE DisplayErr
  BY <1>6 DEF DisplayErr, vars
<1>7. CASE PanelReset
  <2>1. bootPc = "reset" /\ bootPc' = "cs" /\ UNCHANGED <<vars, entry, bus, io,
          panel, duty, csLow>>
    BY <1>7 DEF PanelReset
  <2>2. ~csLow /\ pc # "modify"
    BY <2>1
  <2> QED
    BY <2>1, <2>2 DEF vars
<1>8. CASE LcdCsRead
  BY <1>8 DEF LcdCsRead, ReadPort, boardVars
<1>9. CASE LcdCsWrite
  <2>1. PICK ok \in BOOLEAN : WritePort(ok) /\ csLow' = ok
    BY <1>9 DEF LcdCsWrite
  <2>2. request = <<CS, FALSE>>
    BY <1>9, <2>1 DEF LcdCsWrite, WritePort
  <2>3. csLow' => CS \notin output'
    BY <2>1, <2>2, CsWritten
  <2>4. bootPc' = "init" /\ pc' = "idle"
    BY <1>9, <2>1 DEF LcdCsWrite, WritePort
  <2> QED
    BY <1>9, <2>3, <2>4 DEF LcdCsWrite
<1>10. CASE PanelInit
  <2>1. csLow /\ CS \notin config => "config" \in applied'
    <3>1. PICK sel \in Selected :
            applied' = IF sel THEN applied \cup {"config"} ELSE applied
      BY <1>10 DEF PanelInit
    <3>2. csLow /\ CS \notin config => sel = TRUE
      BY <1>10, <3>1, SelectedHears DEF PanelInit
    <3> QED
      BY <3>1, <3>2
  <2> QED
    BY <1>10, <2>1 DEF PanelInit, vars
<1>11. CASE PanelOrient
  <2>1. csLow /\ CS \notin config => {"config", "orient"} \subseteq applied'
    <3>1. PICK sel \in Selected :
            applied' = IF sel THEN applied \cup {"orient"} ELSE applied
      BY <1>11 DEF PanelOrient
    <3>2. csLow /\ CS \notin config => sel = TRUE
      BY <1>11, <3>1, SelectedHears DEF PanelOrient
    <3>3. csLow /\ CS \notin config => "config" \in applied
      BY <1>11 DEF PanelOrient
    <3> QED
      BY <3>1, <3>2, <3>3
  <2> QED
    BY <1>11, <2>1 DEF PanelOrient, vars
<1>12. CASE Fill
  <2>1. applied \subseteq applied'
    BY <1>12 DEF Fill
  <2> QED
    BY <1>12, <2>1 DEF Fill, vars
<1>13. CASE DispOn
  <2>1. csLow /\ CS \notin config => {"config", "orient", "on"} \subseteq applied'
    BY <1>13, SelectedHears DEF DispOn
  <2>2. bootPc' = IF entry = "lvgl" THEN "adddisp" ELSE "light"
    BY <1>13 DEF DispOn
  <2> QED
    BY <1>13, <2>1, <2>2 DEF DispOn, vars
<1>14. CASE AddDisp
  BY <1>14 DEF AddDisp, vars
<1>15. CASE BacklightOn
  BY <1>15 DEF BacklightOn, vars
<1>16. CASE BrightnessSet
  BY <1>16 DEF BrightnessSet, vars
<1>17. CASE SetPin
  <2>1. UNCHANGED <<boardVars, config>> /\ bootPc = "run"
    BY <1>17 DEF SetPin, ReadPort, WritePort
  <2> QED
    BY <2>1 DEF boardVars
<1>18. CASE BoardReboot
  BY <1>18 DEF BoardReboot, Reboot
<1>19. CASE UNCHANGED allVars
  BY <1>19 DEF allVars, vars, boardVars
<1> QED
  BY <1>1, <1>2, <1>3, <1>4, <1>5, <1>6, <1>7, <1>8, <1>9, <1>10, <1>11, <1>12,
     <1>13, <1>14, <1>15, <1>16, <1>17, <1>18, <1>19 DEF BoardNext

(* BootInv holds in every reachable state of the board. *)
LEMMA BootInvariance == BoardSpec => []BootInv
  <1>1. BoardInit => BootInv
    BY DEF BoardInit, Init, BootInv, HandlesInv, LightInv, SelectInv
  <1>2. PcaInv /\ BootInv /\ [BoardNext]_allVars => BootInv'
    BY BootInductive
  <1> QED
    BY <1>1, <1>2, PcaInvariance, PTL DEF BoardSpec

(* bsp_display_new and its callers: in one boot nothing that was deleted is*)
(* used or deleted again, whichever calls fail.                            *)
THEOREM HandlesStayValid == BoardSpec => []HandlesValid
  <1>1. BootInv => HandlesValid
    BY DEF BootInv, HandlesInv, HandlesValid
  <1> QED
    BY <1>1, BootInvariance, PTL

(* bsp_lvgl_start and bsp_lcd_init: a panel that is lit has been configured*)
(* and switched on in this boot, if lcd_cs(0) could be done.               *)
THEOREM LitIsSetUp == BoardSpec => []LitShowsPicture
  <1>1. BootInv => LitShowsPicture
    BY DEF BootInv, HandlesInv, LightInv, SelectInv, LitShowsPicture, AfterOn,
      AfterOrient, AfterInit
  <1> QED
    BY <1>1, BootInvariance, PTL
=============================================================================
