------------------------------ MODULE Pca9557 -------------------------------
(***************************************************************************)
(* The IO expander that drives LCD_CS, PA_EN and DVP_PWDN: pca9557_init and*)
(* the read-modify-write of pca9557_set_output_state (LCD.c), over an I2C  *)
(* bus whose transactions can fail.  A port register is the set of pins    *)
(* whose bit is 1.  The chip keeps its registers when the CPU reboots.     *)
(***************************************************************************)
EXTENDS Naturals

CONSTANTS
  Pins,        \* pins the firmware uses
  Defaults     \* those that pca9557_init sets high (0x05)

ASSUME PcaAssumption == Defaults \subseteq Pins

VARIABLES
  output,   \* PCA9557_OUTPUT_PORT
  config,   \* PCA9557_CONFIGURATION_PORT: pins that are inputs
  asked,    \* pins whose last accepted request was for level 1
  ready,    \* pca9557_init has returned
  known,    \* since it last wrote the levels, no read of them has failed
  pc,       \* "off", "config", "idle", "modify"
  data,     \* data of pca9557_set_output_state
  request   \* its gpio_bit and level

vars == <<output, config, asked, ready, known, pc, data, request>>

TypeOK ==
  /\ output \subseteq Pins /\ config \subseteq Pins /\ asked \subseteq Pins
  /\ ready \in BOOLEAN /\ known \in BOOLEAN
  /\ pc \in {"off", "config", "idle", "modify"}
  /\ data \subseteq Pins
  /\ request \in Pins \X BOOLEAN

(* Power-on: all outputs latched low, all pins inputs. *)
Init ==
  /\ output = {} /\ config = Pins
  /\ asked = Defaults
  /\ ready = FALSE
  /\ known = TRUE
  /\ pc = "off"
  /\ data = {}
  /\ request \in Pins \X {FALSE}

(* pca9557_register_write_byte of value v, and whether it succeeded *)
WriteByte(reg, new, v, ok) == new = IF ok THEN v ELSE reg

-----------------------------------------------------------------------------
(* Mutant of InitOutput: levels are left to the chip's power-on state. *)
InitOutputSkipped ==
  /\ pc = "off"
  /\ asked' = Defaults
  /\ known' = TRUE
  /\ pc' = "config"
  /\ UNCHANGED <<output, config, ready, data, request>>

(* pca9557_init: first the levels, then the directions; results ignored. *)
InitOutput ==
  /\ pc = "off"
  /\ \E ok \in BOOLEAN : WriteByte(output, output', Defaults, ok) /\ known' = ok
  /\ asked' = Defaults
  /\ pc' = "config"
  /\ UNCHANGED <<config, ready, data, request>>

InitConfig ==
  /\ pc = "config"
  /\ \E ok \in BOOLEAN : WriteByte(config, config', {}, ok)
  /\ ready' = TRUE
  /\ pc' = "idle"
  /\ UNCHANGED <<output, asked, known, data, request>>

(* Mutant of ReadPort: the port is not read but assumed to be as at boot. *)
AssumePort ==
  /\ pc = "idle"
  /\ data' = Defaults
  /\ request' \in Pins \X BOOLEAN
  /\ pc' = "modify"
  /\ UNCHANGED <<output, config, asked, ready, known>>

(* pca9557_set_output_state (lcd_cs, pa_en, dvp_pwdn): read the port ...; a*)
(* failed read is not looked at and leaves data uninitialized.             *)
ReadPort ==
  /\ pc = "idle"
  /\ \/ data' = output /\ UNCHANGED known
     \/ data' \in SUBSET Pins /\ known' = FALSE
  /\ request' \in Pins \X BOOLEAN
  /\ pc' = "modify"
  /\ UNCHANGED <<output, config, asked, ready>>

(* Mutant of SET_BITS: the level is inverted. *)
SetBitsInverted(m, s, v) == IF v THEN m \ {s} ELSE m \cup {s}

SET_BITS(m, s, v) == IF v THEN m \cup {s} ELSE m \ {s}

(* ... and write it back with the one bit changed. *)
WritePort(ok) ==
  /\ pc = "modify"
  /\ WriteByte(output, output', SET_BITS(data, request[1], request[2]), ok)
  /\ asked' = IF ok THEN SET_BITS(asked, request[1], request[2]) ELSE asked
  /\ pc' = "idle"
  /\ data' = {}
  /\ UNCHANGED <<config, ready, known, request>>

(* The CPU reboots, the expander does not; app_main initialises it again. *)
Reboot ==
  /\ pc' = "off"
  /\ ready' = FALSE
  /\ data' = {}
  /\ UNCHANGED <<output, config, asked, known, request>>

-----------------------------------------------------------------------------
(* The pins the chip drives, and those it drives high. *)
Driven == Pins \ config
DrivenHigh == Driven \cap output

(* Each driven pin has the level last asked for it, whatever is done to the*)
(* others and whichever writes fail, until a read of the port fails; and a *)
(* restart puts even that right, once pca9557_init could write the levels. *)
PinsAsAsked == ready /\ known => DrivenHigh = Driven \cap asked

(* Even when reads and writes fail, a request that was reported ESP_OK did *)
(* set its own pin.                                                        *)
AcceptedPinSet ==
  [][asked' # asked /\ pc = "modify" => (request[1] \in output') = request[2]]_vars

(* Levels are written before directions: when the levels could be written, *)
(* no pin is ever driven high that nobody asked to be high, not even while *)
(* the expander is initialised again after a CPU reboot, with the levels of*)
(* the last boot in its latches.                                           *)
NeverDrivenUnasked == known => DrivenHigh \subseteq asked
=============================================================================
