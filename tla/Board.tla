------------------------------- MODULE Board --------------------------------
(***************************************************************************)
(* Bringing the board up: app_main initialises the IO expander, then either*)
(* bsp_lvgl_start or bsp_lcd_init creates the display, fills it, switches  *)
(* it on and lights it.  The display's chip select hangs on the expander,  *)
(* so a command reaches the panel only while the expander drives LCD_CS    *)
(* low.  Panel and expander keep their state when the CPU reboots.         *)
(***************************************************************************)
EXTENDS Pca9557, Integers

CONSTANTS
  CS,        \* the pin that is the panel's chip select (LCD_CS_GPIO)
  Percents   \* bound: arguments of bsp_display_brightness_set

ASSUME BoardAssumption == CS \in Pins /\ Percents \subseteq Int

VARIABLES
  bootPc,   \* where the main task is
  entry,    \* the application starts LVGL, or draws by itself
  bus,      \* the SPI bus is initialised
  io,       \* io_handle: "NULL", "live", "freed"
  panel,    \* panel_handle
  duty,     \* duty cycle of the backlight
  csLow,    \* lcd_cs(0) was accepted in this boot
  chip,     \* the ST7789: "reset", "off" or "on"
  applied   \* what has reached it since the CPU started: subset of Commands

boardVars == <<bootPc, entry, bus, io, panel, duty, csLow, chip, applied>>
allVars == <<vars, boardVars>>

Commands == {"config", "orient", "fill", "on"}
Entries == {"lvgl", "lcd"}

BoardTypeOK ==
  /\ TypeOK
  /\ bootPc \in {"pca", "dark", "bus", "io", "panel", "reset", "cs", "init",
                 "orient", "err", "fill", "on", "adddisp", "light", "run"}
  /\ entry \in Entries
  /\ bus \in BOOLEAN /\ csLow \in BOOLEAN
  /\ io \in {"NULL", "live", "freed"} /\ panel \in {"NULL", "live", "freed"}
  /\ duty \in 0 .. 1023
  /\ chip \in {"reset", "off", "on"}
  /\ applied \subseteq Commands

BoardInit ==
  /\ Init
  /\ bootPc = "pca" /\ entry \in Entries
  /\ bus = FALSE /\ io = "NULL" /\ panel = "NULL"
  /\ duty = 0 /\ csLow = FALSE
  /\ chip = "reset" /\ applied = {}

-----------------------------------------------------------------------------
(* An abort, an assert or a watchdog restarts the CPU alone.  (A power     *)
(* cycle starts over at BoardInit.)                                        *)
BoardReboot ==
  /\ Reboot
  /\ bootPc' = "pca" /\ entry' \in Entries
  /\ bus' = FALSE /\ io' = "NULL" /\ panel' = "NULL"
  /\ duty' = 0 /\ csLow' = FALSE /\ applied' = {}
  /\ UNCHANGED chip

-----------------------------------------------------------------------------
(* pca9557_init *)
PcaInit ==
  /\ bootPc = "pca"
  /\ \/ InitOutput /\ UNCHANGED bootPc
     \/ InitConfig /\ bootPc' = "dark"
  /\ UNCHANGED <<entry, bus, io, panel, duty, csLow, chip, applied>>

(* bsp_display_new: the backlight starts dark ... *)
BrightnessInit ==
  /\ bootPc = "dark"
  /\ duty' = 0
  /\ bootPc' = "bus"
  /\ UNCHANGED <<vars, entry, bus, io, panel, csLow, chip, applied>>

(* ... and without a bus it returns. *)
BusInit ==
  /\ bootPc = "bus"
  /\ \/ bus' = TRUE /\ bootPc' = "io"
     \/ bootPc' = "fill" /\ UNCHANGED bus
  /\ UNCHANGED <<vars, entry, io, panel, duty, csLow, chip, applied>>

NewPanelIo ==
  /\ bootPc = "io"
  /\ \/ io' = "live" /\ bootPc' = "panel"
     \/ bootPc' = "err" /\ UNCHANGED io
  /\ UNCHANGED <<vars, entry, bus, panel, duty, csLow, chip, applied>>

NewPanel ==
  /\ bootPc = "panel"
  /\ \/ panel' = "live" /\ bootPc' = "reset"
     \/ bootPc' = "err" /\ UNCHANGED panel
  /\ UNCHANGED <<vars, entry, bus, io, duty, csLow, chip, applied>>

(* The error path deletes what there is, but clears no handle. *)
DisplayErr ==
  /\ bootPc = "err"
  /\ panel' = IF panel = "NULL" THEN "NULL" ELSE "freed"
  /\ io' = IF io = "NULL" THEN "NULL" ELSE "freed"
  /\ bus' = FALSE
  /\ bootPc' = "fill"
  /\ UNCHANGED <<vars, entry, duty, csLow, chip, applied>>

-----------------------------------------------------------------------------
(* Can the panel be listening?  A chip select that is not driven floats. *)
Selected == IF CS \in config THEN BOOLEAN ELSE {CS \notin output}

(* Without a reset pin esp_lcd_panel_reset sends SWRESET. *)
PanelReset ==
  /\ bootPc = "reset"
  /\ \E sel \in Selected :
       /\ chip' = IF sel THEN "reset" ELSE chip
       /\ applied' = IF sel THEN {} ELSE applied
  /\ bootPc' = "cs"
  /\ UNCHANGED <<vars, entry, bus, io, panel, duty, csLow>>

(* Mutant of LcdCsRead: the panel is deselected instead. *)
LcdCsReadHigh ==
  /\ bootPc = "cs"
  /\ ReadPort
  /\ request' = <<CS, TRUE>>
  /\ UNCHANGED boardVars

(* lcd_cs(0): pca9557_set_output_state reads the port ... *)
LcdCsRead ==
  /\ bootPc = "cs"
  /\ ReadPort
  /\ request' = <<CS, FALSE>>
  /\ UNCHANGED boardVars

(* ... and writes it back; nobody looks at the result. *)
LcdCsWrite ==
  /\ bootPc = "cs"
  /\ \E ok \in BOOLEAN : WritePort(ok) /\ csLow' = ok
  /\ bootPc' = "init"
  /\ UNCHANGED <<entry, bus, io, panel, duty, chip, applied>>

(* Mutant of PanelInit: bsp_display_new runs on into its error path. *)
PanelInitFallsThrough ==
  /\ bootPc = "init"
  /\ applied' \in {applied \cup {"config"}, applied}
  /\ bootPc' = "err"
  /\ UNCHANGED <<vars, entry, bus, io, panel, duty, csLow, chip>>

(* esp_lcd_panel_init: out of sleep, and the pixel format *)
PanelInit ==
  /\ bootPc = "init"
  /\ \E sel \in Selected :
       /\ chip' = IF sel /\ chip = "reset" THEN "off" ELSE chip
       /\ applied' = IF sel THEN applied \cup {"config"} ELSE applied
  /\ bootPc' = "orient"
  /\ UNCHANGED <<vars, entry, bus, io, panel, duty, csLow>>

(* esp_lcd_panel_invert_color, _swap_xy and _mirror *)
PanelOrient ==
  /\ bootPc = "orient"
  /\ \E sel \in Selected :
       applied' = IF sel THEN applied \cup {"orient"} ELSE applied
  /\ bootPc' = "fill"
  /\ UNCHANGED <<vars, entry, bus, io, panel, duty, csLow, chip>>

(* lcd_set_color; a NULL panel is refused, and so may be the row buffer. *)
Fill ==
  /\ bootPc = "fill"
  /\ \E sel \in IF panel = "live" THEN Selected \cup {FALSE} ELSE {FALSE} :
       applied' = IF sel THEN applied \cup {"fill"} ELSE applied
  /\ bootPc' = "on"
  /\ UNCHANGED <<vars, entry, bus, io, panel, duty, csLow, chip>>

(* esp_lcd_panel_disp_on_off(panel_handle, true) *)
DispOn ==
  /\ bootPc = "on"
  /\ \E sel \in IF panel = "live" THEN Selected ELSE {FALSE} :
       /\ chip' = IF sel THEN "on" ELSE chip
       /\ applied' = IF sel THEN applied \cup {"on"} ELSE applied
  /\ bootPc' = IF entry = "lvgl" THEN "adddisp" ELSE "light"
  /\ UNCHANGED <<vars, entry, bus, io, panel, duty, csLow>>

(* lvgl_port_add_disp asserts both handles; with bsp_display_indev_init    *)
(* behind it every other failure also ends in BoardReboot.                 *)
AddDisp ==
  /\ bootPc = "adddisp"
  /\ io # "NULL" /\ panel # "NULL"
  /\ bootPc' = "light"
  /\ UNCHANGED <<vars, entry, bus, io, panel, duty, csLow, chip, applied>>

(* Mutant of Duty: the percentage is not limited. *)
DutyUnlimited(p) == (1023 * p) \div 100

(* bsp_display_brightness_set *)
Duty(p) ==
  LET percent == IF p > 100 THEN 100 ELSE IF p < 0 THEN 0 ELSE p
  IN  (1023 * percent) \div 100

BacklightOn ==
  /\ bootPc = "light"
  /\ duty' = Duty(100)
  /\ bootPc' = "run"
  /\ UNCHANGED <<vars, entry, bus, io, panel, csLow, chip, applied>>

(* The application dims the backlight and moves pins. *)
BrightnessSet ==
  /\ bootPc = "run" /\ pc = "idle"
  /\ \E p \in Percents : duty' = Duty(p)
  /\ UNCHANGED <<vars, bootPc, entry, bus, io, panel, csLow, chip, applied>>

SetPin ==
  /\ bootPc = "run"
  /\ ReadPort \/ \E ok \in BOOLEAN : WritePort(ok)
  /\ UNCHANGED boardVars

BoardNext ==
  \/ PcaInit \/ BrightnessInit \/ BusInit \/ NewPanelIo \/ NewPanel \/ DisplayErr
  \/ PanelReset \/ LcdCsRead \/ LcdCsWrite \/ PanelInit \/ PanelOrient
  \/ Fill \/ DispOn \/ AddDisp \/ BacklightOn \/ BrightnessSet \/ SetPin
  \/ BoardReboot

BoardSpec == BoardInit /\ [][BoardNext]_allVars

-----------------------------------------------------------------------------
(* bsp_display_new's error path clears no handle, and its callers go on    *)
(* regardless: still nothing deleted is used or deleted again, in one boot.*)
HandlesValid ==
  /\ panel # "freed"
  /\ panel = "live" => io = "live" /\ bus
  /\ bootPc = "err" => io # "freed"

(* The user never looks at a lit panel that was not set up: once lit, it   *)
(* has been configured and switched on in this boot, if lcd_cs(0) could be *)
(* done; and with LVGL there is no light at all without a panel.           *)
LitShowsPicture ==
  duty > 0 /\ (entry = "lvgl" \/ panel = "live") =>
    /\ panel = "live"
    /\ csLow /\ CS \notin config => {"config", "orient", "on"} \subseteq applied

(* "液晶屏复位" (LCD.c:181, reset the LCD): when esp_lcd_panel_reset has    *)
(* returned, on a board whose bus works, the panel is in its reset state.  *)
ResetReachesPanel ==
  bootPc = "cs" /\ pc = "idle" /\ known => chip = "reset"
=============================================================================
