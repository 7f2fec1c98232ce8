----------------------------- MODULE I2cDriver -----------------------------
(***************************************************************************)
(* I2C port 0, which the display, touch, motion sensor and codec share.    *)
(* Each of bsp_i2c_init, QMI8658_Init and es7210_codec_init installs the   *)
(* driver itself, but only the first in a boot can.  No one deletes it.    *)
(***************************************************************************)
EXTENDS Integers

VARIABLE i2c   \* the driver is installed

(* i2c_driver_install *)
InstallOk == ~i2c /\ i2c' = TRUE

(* It is installed already, or there is no memory. *)
InstallFails == UNCHANGED i2c

(* bsp_i2c_init; app_main ignores its result. *)
BspI2cInit == InstallOk \/ InstallFails
=============================================================================
