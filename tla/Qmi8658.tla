------------------------------ MODULE Qmi8658 ------------------------------
(***************************************************************************)
(* The motion sensor of QMI8658.c: identification with retries, the        *)
(* configuration, and the reading of samples and of the temperature into   *)
(* the caller's structure.  Every transfer can fail and no result is looked*)
(* at: a failed write is lost, a failed read leaves its buffer as it was,  *)
(* which at first is uninitialized, that is, any value.  The sensor goes on*)
(* measuring between two transfers, and keeps its registers when the CPU   *)
(* restarts.                                                               *)
(***************************************************************************)
EXTENDS I2cDriver, Sequences

CONSTANTS
  MaxRetries,    \* bound on retry_count, 10 in the code
  Samples,       \* what the sensor may measure
  Junk,          \* bytes that no sample consists of
  Temperatures   \* bound: register values of the temperature, signed 16 bits

ASSUME QmiAssumption ==
  /\ MaxRetries \in Nat
  /\ Junk \notin Samples
  /\ \A t \in Temperatures : t \in Int /\ -32768 <= t /\ t < 32768

VARIABLES
  regs,      \* registers of the sensor that hold what QMI8658_Init writes
  raw,       \* its current sample
  ready,     \* its STATUS0: the sample has not been read yet
  qPc,       \* where the caller is
  right,     \* id = 0x05
  retries,   \* retry_count
  verdict,   \* what QMI8658_Init said of the ID: "", "ok", "failed"
  step,      \* next register to write
  acc,       \* p->acc_x ... p->gry_z, "zero" before the first sample
  exact,     \* p->temperature is what the sensor had when it was read
  ok,        \* history: no transfer of the current call has failed
  answered,  \* history: a read of the ID in this QMI8658_Init found 0x05
  missed,    \* history: a read of the ID in this QMI8658_Init failed
  lost       \* history: registers whose last write failed

chipVars == <<regs, raw, ready>>
initVars == <<right, retries, verdict, step, answered, missed, lost>>
qVars == <<chipVars, qPc, initVars, acc, exact, ok>>

(* QMI8658_Init writes RESET and then these.  CTRL1 makes the address count*)
(* up in a read of several bytes, CTRL7 switches the sensors on.           *)
Writes == <<"RESET", "CTRL1", "CTRL7", "CTRL2", "CTRL3">>
Registers == {Writes[i] : i \in 2 .. Len(Writes)}

QmiTypeOK ==
  /\ regs \subseteq Registers /\ raw \in Samples /\ ready \in BOOLEAN
  /\ qPc \in {"idle", "id", "check", "config", "burst"}
  /\ right \in BOOLEAN /\ retries \in 0 .. MaxRetries
  /\ verdict \in {"", "ok", "failed"} /\ step \in 1 .. Len(Writes)
  /\ acc \in Samples \cup {Junk, "zero"} /\ exact \in BOOLEAN
  /\ ok \in BOOLEAN /\ answered \in BOOLEAN /\ missed \in BOOLEAN
  /\ lost \subseteq Registers

QmiInit ==
  /\ regs = {} /\ raw \in Samples /\ ready = FALSE
  /\ qPc = "idle"
  /\ right = FALSE /\ retries = 0 /\ verdict = "" /\ step = 1
  /\ acc = "zero" /\ exact = FALSE
  /\ ok = TRUE /\ answered = FALSE /\ missed = FALSE /\ lost = {}

-----------------------------------------------------------------------------
(* A register transfer fails, or it needs the driver. *)
Fails == ok' = FALSE
Works == i2c /\ UNCHANGED ok

(* The sensor takes a sample, if it is switched on. *)
Measure ==
  /\ "CTRL7" \in regs
  /\ raw' \in Samples
  /\ ready' = TRUE
  /\ UNCHANGED <<i2c, regs, qPc, initVars, acc, exact, ok>>

-----------------------------------------------------------------------------
(* i2c_master_init *)
I2cMasterInit == InstallOk \/ InstallFails

(* QMI8658_Init: i2c_master_init, whose result is ignored, *)
InitBegin ==
  /\ qPc = "idle"
  /\ I2cMasterInit
  /\ right' \in BOOLEAN
  /\ retries' = 0 /\ verdict' = "" /\ answered' = FALSE /\ missed' = FALSE
  /\ ok' = TRUE
  /\ qPc' = "id"
  /\ UNCHANGED <<chipVars, step, acc, exact, lost>>

(* a read of WHO_AM_I, *)
ReadId ==
  /\ qPc = "id"
  /\ \/ Works /\ right' \in BOOLEAN /\ answered' = (answered \/ right') /\ UNCHANGED missed
     \/ Fails /\ missed' = TRUE /\ UNCHANGED <<right, answered>>
  /\ qPc' = "check"
  /\ UNCHANGED <<i2c, chipVars, retries, verdict, step, acc, exact, lost>>

(* The condition of the loop *)
Again == ~right /\ retries < MaxRetries

(* Mutant of Retry: retry_count is not incremented. *)
RetryUncounted ==
  /\ qPc = "check"
  /\ Again
  /\ qPc' = "id"
  /\ UNCHANGED <<i2c, chipVars, right, retries, verdict, step, acc, exact, ok, answered, missed, lost>>

(* and another read a second later; *)
Retry ==
  /\ qPc = "check"
  /\ Again
  /\ retries' = retries + 1
  /\ qPc' = "id"
  /\ UNCHANGED <<i2c, chipVars, right, verdict, step, acc, exact, ok, answered, missed, lost>>

(* Mutant of Verdict: used up retries mean failure. *)
VerdictByCount == IF retries < MaxRetries THEN "ok" ELSE "failed"

Verdict == IF right THEN "ok" ELSE "failed"

(* the message; the configuration follows in either case (id and           *)
(* retry_count are not used any more),                                     *)
SayVerdict ==
  /\ qPc = "check"
  /\ ~Again
  /\ verdict' = Verdict
  /\ step' = 1 /\ right' = FALSE /\ retries' = 0
  /\ qPc' = "config"
  /\ UNCHANGED <<i2c, chipVars, acc, exact, ok, answered, missed, lost>>

(* Mutant of Target: the sensors are switched on first. *)
TargetOnFirst(i) == <<"RESET", "CTRL7", "CTRL1", "CTRL2", "CTRL3">>[i]

Target(i) == Writes[i]

(* Mutant of Written: no delay after the RESET, which swallows CTRL1. *)
WrittenTooSoon(r) == IF r \in {"RESET", "CTRL1"} THEN {} ELSE regs \cup {r}

(* The registers after a write of r *)
Written(r) == IF r = "RESET" THEN {} ELSE regs \cup {r}

(* one register after the other.  A RESET that is lost keeps what there is.*)
Configure ==
  /\ qPc = "config"
  /\ LET r == Target(step) IN
     \/ /\ Works
        /\ regs' = Written(r)
        /\ lost' = lost \ {r}
        /\ ready' = (ready /\ r # "RESET")
     \/ /\ Fails
        /\ lost' = lost \cup ({r} \cap Registers)
        /\ UNCHANGED <<regs, ready>>
  /\ step' = IF step = Len(Writes) THEN 1 ELSE step + 1
  /\ qPc' = IF step = Len(Writes) THEN "idle" ELSE "config"
  /\ UNCHANGED <<i2c, raw, right, retries, verdict, acc, exact, answered, missed>>

-----------------------------------------------------------------------------
(* QMI8658_fetch_angleFromAcc, which always computes the angles from acc,  *)
(* calls QMI8658_Read_AccGry: read STATUS0, and no more if nothing is new. *)
ReadStatus ==
  /\ qPc = "idle"
  /\ \/ i2c /\ ok' = TRUE /\ qPc' = IF ready THEN "burst" ELSE "idle"
     \/ ok' = FALSE /\ qPc' \in {"burst", "idle"}
  /\ UNCHANGED <<i2c, chipVars, initVars, acc, exact>>

(* Then read 12 bytes: with an address that does not count up they are 12  *)
(* times the first.                                                        *)
ReadBurst ==
  /\ qPc = "burst"
  /\ \/ /\ Works
        /\ acc' = IF "CTRL1" \in regs THEN raw ELSE Junk
        /\ ready' = FALSE
     \/ /\ Fails
        /\ acc' \in Samples \cup {Junk}
        /\ UNCHANGED ready
  /\ qPc' = "idle"
  /\ UNCHANGED <<i2c, regs, raw, initVars, exact>>

(* (int8_t) of a byte, and the temperature from its two bytes *)
Int8(b) == IF b < 128 THEN b ELSE b - 256
LowByte(t) == t % 256
HighByte(t) == (t \div 256) % 256

(* Mutant of Converted16: the high byte is not signed. *)
UnsignedHigh(low, high) == 256 * high + low

Converted16(low, high) == 256 * Int8(high) + low

(* QMI8658_Read_Temperature; temperatures are in 1/256 degree. *)
ReadTemperature ==
  /\ qPc = "idle"
  /\ \/ /\ i2c /\ ok' = TRUE
        /\ \E t \in Temperatures :
             exact' = (t = Converted16(LowByte(t),
                             IF "CTRL1" \in regs THEN HighByte(t) ELSE LowByte(t)))
     \/ ok' = FALSE /\ exact' \in BOOLEAN
  /\ UNCHANGED <<i2c, chipVars, qPc, initVars, acc>>

-----------------------------------------------------------------------------
(* The CPU restarts; the sensor loses its registers if power was lost. *)
QmiReboot ==
  /\ i2c' = FALSE
  /\ \/ UNCHANGED <<regs, ready, lost>>
     \/ regs' = {} /\ ready' = FALSE /\ lost' = {}
  /\ UNCHANGED raw
  /\ qPc' = "idle"
  /\ right' = FALSE /\ retries' = 0 /\ verdict' = "" /\ step' = 1
  /\ answered' = FALSE /\ missed' = FALSE
  /\ acc' = "zero" /\ exact' = FALSE
  /\ ok' = TRUE

QmiStep == ReadId \/ Retry \/ SayVerdict \/ Configure \/ ReadBurst
QmiNext == InitBegin \/ ReadStatus \/ ReadTemperature \/ QmiStep \/ Measure \/ QmiReboot

-----------------------------------------------------------------------------
(* The caller's structure only ever receives what the sensor measures,     *)
(* unless a transfer of that call failed (the buffer is then uninitialized)*)
(* or the write of CTRL1 had failed, of which no one was told.  That a     *)
(* restart in the middle of QMI8658_Init does no harm, even if the sensor  *)
(* is read before the next one, is due to the order CTRL1, CTRL7.          *)
SampleIsMeasured ==
  [][acc' # acc => acc' \in {raw, "zero"} \/ ~ok' \/ "CTRL1" \in lost]_<<qVars, i2c>>

(* When QMI8658_Init returns, the sensor is configured, up to the writes   *)
(* that failed; it stays so until the next one.                            *)
Configured == verdict # "" /\ qPc # "config" => regs \cup lost = Registers

(* "Read ID successfully" is said only if the sensor answered with its ID, *)
(* or if a read failed and left an uninitialized byte; "Read ID filed" is  *)
(* not said if it answered, at the last retry too (QMI8658.c:50-57).       *)
VerdictHonest ==
  /\ verdict = "ok" => answered \/ missed
  /\ verdict = "failed" => ~answered

(* QMI8658_Read_Temperature yields the register's signed value, below zero *)
(* too, if the transfer worked and the sensor's address counts up.         *)
TemperatureExact ==
  [][ReadTemperature /\ ok' /\ "CTRL1" \in regs => exact']_<<qVars, i2c>>

(* QMI8658_Init always returns: "use && so that it ends" (QMI8658.c:43). *)
InitReturns == qPc \in {"id", "check", "config"} ~> qPc = "idle"
=============================================================================
