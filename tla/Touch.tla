------------------------------- MODULE Touch --------------------------------
(***************************************************************************)
(* The touch panel: an FT6336 whose registers change under two readers.    *)
(* LVGL's read timer polls it through lvgl_port_touchpad_read and the      *)
(* esp_lcd_touch driver; an application without LVGL polls LCD_Touch.  Both*)
(* read the number of points and the position in two I2C transfers, either *)
(* of which can fail, while fingers come, move and go.                     *)
(***************************************************************************)
EXTENDS Integers

CONSTANTS
  Positions,  \* bound: raw positions <<x, y>> fingers are put on
  Counts,     \* bound: values of the touch points register
  Garbage     \* bound: raw positions in bytes nobody has written

HorRes == 320
VerRes == 240

(* Unsigned numbers of a byte, of the chip's 12 bits and of a uint16_t *)
Byte == {n \in Nat : n < 256}
UInt12 == {n \in Nat : n < 4096}
UInt16 == {n \in Nat : n < 65536}

ASSUME TouchAssumption ==
  /\ Positions \subseteq (0 .. VerRes - 1) \X (0 .. HorRes - 1)
  /\ Counts \subseteq Byte /\ 0 \in Counts
  /\ Garbage \subseteq UInt12 \X UInt12

VARIABLES
  num,      \* chip: FT5x06_TOUCH_POINTS
  position, \* chip: first position; it stays when the finger is lifted
  pc,       \* "new", "add", "idle", "none"; in a round of LVGL: "points",
            \* "coords", "get"; in LCD_Touch: "touch"
  points,   \* points of esp_lcd_touch_ft5x06_read_data
  data,     \* tp->data: points, and coords[0]
  state,    \* indev: LV_INDEV_STATE_PRESSED?
  point,    \* indev: last_raw_point
  mark,     \* centre of the cross LCD_Touch has drawn, or NoMark
  seen,     \* history: what the chip sensed during the last round
  failed    \* history: a transfer of that round failed

chip == <<num, position>>
vars == <<num, position, pc, points, data, state, point, mark, seen, failed>>

NoMark == <<>>
Lifted == <<-1, -1>>      \* no raw positions
Undefined == <<-2, -2>>

Touching == num \in 1 .. 5

(* What the chip senses; some register values mean nothing. *)
Sensed ==
  IF Touching THEN position ELSE IF num = 0 THEN Lifted ELSE Undefined

(* The handle is allocated cleared. *)
NewTouchData == [points |-> 0, coord |-> <<0, 0>>]

TypeOK ==
  /\ num \in Counts /\ position \in Positions
  /\ pc \in {"new", "add", "idle", "none", "points", "coords", "get", "touch"}
  /\ points \in 0 .. 5
  /\ data.points \in 0 .. 5 /\ data.coord \in Positions \cup {<<0, 0>>}
  /\ state \in BOOLEAN
  /\ point \in (0 .. HorRes - 1) \X (0 .. VerRes)  \* VerRes: raw x is 0
  /\ mark = NoMark \/ mark \in UInt16 \X UInt16
  /\ seen \subseteq Positions \cup {Lifted, Undefined}
  /\ failed \in BOOLEAN

Init ==
  /\ num = 0 /\ position \in Positions
  /\ pc = "new"
  /\ points = 0
  /\ data = NewTouchData
  /\ state = FALSE /\ point = <<0, 0>>
  /\ mark = NoMark
  /\ seen = {} /\ failed = FALSE

InRound == pc \in {"points", "coords", "get", "touch"}

(* Fingers come, move and go. *)
Finger ==
  /\ num' \in Counts
  /\ position' \in IF num' \in 1 .. 5 THEN Positions ELSE {position}
  /\ chip' # chip
  /\ seen' = IF InRound THEN seen \cup {Sensed'} ELSE seen
  /\ UNCHANGED <<pc, points, data, state, point, mark, failed>>

-----------------------------------------------------------------------------
(* bsp_touch_new: a failed write of one of the chip's registers aborts, the*)
(* board reboots and comes by here again; ...                              *)
TouchInitFails ==
  /\ pc = "new"
  /\ mark' = NoMark /\ seen' = {} /\ failed' = FALSE
  /\ UNCHANGED <<num, position, pc, points, data, state, point>>

(* ... otherwise there is a handle. *)
TouchNew ==
  /\ pc = "new"
  /\ data' = NewTouchData
  /\ pc' = "add"
  /\ UNCHANGED <<num, position, points, state, point, mark, seen, failed>>

(* lvgl_port_add_touch; without memory LVGL goes on without the panel. *)
AddTouch ==
  /\ pc = "add"
  /\ pc' \in {"idle", "none"}
  /\ state' = FALSE /\ point' = <<0, 0>>
  /\ seen' = {} /\ failed' = FALSE
  /\ UNCHANGED <<num, position, points, data, mark>>

-----------------------------------------------------------------------------
(* lv_indev_read_timer_cb starts a round. *)
ReadTimerCb ==
  /\ pc = "idle"
  /\ pc' = "points"
  /\ seen' = {Sensed} /\ failed' = FALSE
  /\ UNCHANGED <<num, position, points, data, state, point, mark>>

(* Mutant of PointsValid: the largest number of points is left out. *)
PointsBelowFive(n) == ~(n >= 5 \/ n = 0)

PointsValid(n) == ~(n > 5 \/ n = 0)

(* esp_lcd_touch_ft5x06_read_data: the number of points ... *)
ReadPoints ==
  /\ pc = "points"
  /\ \/ /\ points' = IF PointsValid(num) THEN num ELSE 0
        /\ pc' = IF PointsValid(num) THEN "coords" ELSE "get"
        /\ UNCHANGED failed
     \/ /\ failed' = TRUE
        /\ pc' = "get"
        /\ UNCHANGED points
  /\ UNCHANGED <<num, position, data, state, point, mark, seen>>

(* ... and their coordinates.  lvgl_port_touchpad_read drops the error. *)
ReadCoords ==
  /\ pc = "coords"
  /\ \/ data' = [points |-> points, coord |-> position] /\ UNCHANGED failed
     \/ failed' = TRUE /\ UNCHANGED data
  /\ pc' = "get"
  /\ UNCHANGED <<num, position, points, state, point, mark, seen>>

(* esp_lcd_touch_get_coordinates: mirror_x with x_max = 240, then swap_xy *)
Adjusted(raw) == <<raw[2], VerRes - raw[1]>>

(* Mutant of Invalidated: the points are not marked as consumed. *)
KeepPoints(d) == d

(* The end of esp_lcd_touch_ft5x06_get_xy *)
Invalidated(d) == [d EXCEPT !.points = 0]

(* Mutant of GetCoordinates: nothing is reported when nothing is touched. *)
GetCoordinatesIfAny ==
  /\ pc = "get"
  /\ state' = (state \/ data.points > 0)
  /\ point' = IF data.points > 0 THEN Adjusted(data.coord) ELSE point
  /\ data' = Invalidated(data)
  /\ pc' = "idle"
  /\ UNCHANGED <<num, position, points, mark, seen, failed>>

(* lvgl_port_touchpad_read gets at most one point; on a release LVGL keeps *)
(* the last one.                                                           *)
GetCoordinates ==
  /\ pc = "get"
  /\ state' = (data.points > 0)
  /\ point' = IF data.points > 0 THEN Adjusted(data.coord) ELSE point
  /\ data' = Invalidated(data)
  /\ pc' = "idle"
  /\ UNCHANGED <<num, position, points, mark, seen, failed>>

-----------------------------------------------------------------------------
(* LCD_Touch of an application without LVGL: the number of points ...; a   *)
(* failed transfer leaves touch_num as it was on the stack.                *)
ReadStatus ==
  /\ pc = "new"
  /\ \E n \in Counts :
       /\ failed' = (n # num)
       /\ pc' = IF n % 16 > 0 THEN "touch" ELSE "new"
  /\ seen' = {Sensed}
  /\ mark' = NoMark
  /\ UNCHANGED <<num, position, points, data, state, point>>

(* Mutants of Converted: Y is not mirrored, or not a uint16_t. *)
ConvertedUnmirrored(raw) == <<raw[2], raw[1]>>
ConvertedSigned(raw) == <<raw[2], VerRes - raw[1]>>

(* ft6336_read_touch swaps, convert_coordinates scales by 1 and mirrors *)
Converted(raw) == <<raw[2], (VerRes - raw[1]) % 65536>>

(* ... then the position, also uninitialized after a failed transfer, and  *)
(* the cross.                                                              *)
ReadTouch ==
  /\ pc = "touch"
  /\ \/ mark' = Converted(position) /\ UNCHANGED failed
     \/ mark' \in {Converted(raw) : raw \in Garbage} /\ failed' = TRUE
  /\ pc' = "new"
  /\ UNCHANGED <<num, position, points, data, state, point, seen>>

-----------------------------------------------------------------------------
LvglTask == ReadTimerCb \/ ReadPoints \/ ReadCoords \/ GetCoordinates
MainTask == TouchInitFails \/ TouchNew \/ AddTouch \/ ReadStatus \/ ReadTouch

Next == Finger \/ MainTask \/ LvglTask

Spec == Init /\ [][Next]_vars /\ WF_vars(LvglTask)

-----------------------------------------------------------------------------
(* The pixel under a raw position: the panel is rotated (swap_xy, mirror_x)*)
(* in bsp_display_lcd_init, the touch chip is not.                         *)
Under(raw) == <<raw[2], VerRes - 1 - raw[1]>>

(* p is at most one pixel off. *)
Near(p, q) == \A i \in 1 .. 2 : p[i] - q[i] \in -1 .. 1

NearOneSeen(p) == \E raw \in seen \cap Positions : Near(p, Under(raw))

(* LVGL is never told of a touch that did not happen: when a round reports *)
(* a press, a finger was at that place during this round, even if it was   *)
(* lifted or moved between the two transfers, whatever the registers held  *)
(* and whichever transfer failed.                                          *)
NoGhostTouch == pc = "idle" /\ state => NearOneSeen(point)

(* LVGL is never told of a release (and so of a click) while a finger stays*)
(* on the panel for the whole round, unless a transfer failed.             *)
NoFalseRelease ==
  pc = "idle" /\ seen # {} /\ seen \subseteq Positions /\ ~failed => state

(* When the fingers stay away LVGL sees the release and no press any more, *)
(* even if every transfer fails from then on.                              *)
ReleaseSeen == <>[](num = 0) => <>[]~state

(* LCD_Touch marks a place that was touched during the call, unless a      *)
(* transfer failed or the chip returned no valid number of points.         *)
CrossAtTouch ==
  pc = "new" /\ mark # NoMark /\ ~failed /\ Undefined \notin seen
    => NearOneSeen(mark)
=============================================================================
