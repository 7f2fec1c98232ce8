---------------------------- MODULE TouchProofs -----------------------------
(***************************************************************************)
(* Proofs about the touch panel, for every set of positions on it, every   *)
(* content of the chip's register of touch points and of bytes nobody has  *)
(* written, and every order of finger movements, transfers and failures.   *)
(***************************************************************************)
EXTENDS Touch, TLAPS

(* A round has seen what the chip senses now; what the second transfer will*)
(* read, or has read, is a position that was touched in this round, and    *)
(* points are kept only until they are consumed.                           *)
RoundInv ==
  /\ data \in [points : 0 .. 5, coord : Positions \cup {<<0, 0>>}]
  /\ InRound => Sensed \in seen
  /\ pc = "coords" => position \in seen /\ points > 0
  /\ data.points > 0 => pc = "get" /\ data.coord \in seen \cap Positions
  /\ pc = "get" /\ seen \subseteq Positions /\ ~failed => data.points > 0
  /\ pc = "touch" /\ ~failed /\ Undefined \notin seen => position \in seen

TouchInv == TypeOK /\ RoundInv /\ NoGhostTouch /\ NoFalseRelease /\ CrossAtTouch

-----------------------------------------------------------------------------
(* A raw position of the panel, and what it is not *)
LEMMA PositionFacts ==
  ASSUME NEW raw \in Positions
  PROVE  /\ raw[1] \in Nat /\ raw[1] < 240 /\ raw[2] \in Nat /\ raw[2] < 320
         /\ raw # Lifted /\ raw # Undefined
<1>1. raw \in (0 .. VerRes - 1) \X (0 .. HorRes - 1)
  BY TouchAssumption
<1>2. raw[1] \in Nat /\ raw[1] < 240 /\ raw[2] \in Nat /\ raw[2] < 320
  BY <1>1 DEF VerRes, HorRes
<1>3. Lifted[1] \notin Nat /\ Undefined[1] \notin Nat
  BY DEF Lifted, Undefined
<1> QED
  BY <1>2, <1>3

(* Two points that are the same, or one row apart *)
LEMMA OneRowApart ==
  ASSUME NEW x \in Int, NEW y \in Int
  PROVE  Near(<<x, y + 1>>, <<x, y>>)
<1>1. 1 .. 2 = {1, 2}
  OBVIOUS
<1>2. x - x \in -1 .. 1 /\ (y + 1) - y \in -1 .. 1
  OBVIOUS
<1> QED
  BY <1>1, <1>2 DEF Near

(* esp_lcd_touch_get_coordinates stays in the screen's range, up to the row*)
(* 240 that mirroring with x_max = 240 can yield, and at most one pixel    *)
(* from the place that was touched.                                        *)
LEMMA AdjustedFacts ==
  ASSUME NEW raw \in Positions
  PROVE  /\ Adjusted(raw) \in (0 .. HorRes - 1) \X (0 .. VerRes)
         /\ Near(Adjusted(raw), Under(raw))
<1>1. raw[1] \in Nat /\ raw[1] < 240 /\ raw[2] \in Nat /\ raw[2] < 320
  BY PositionFacts
<1>2. raw[2] \in Int /\ 239 - raw[1] \in Int /\ 240 - raw[1] = (239 - raw[1]) + 1
  BY <1>1
<1>3. Adjusted(raw) = <<raw[2], (239 - raw[1]) + 1>> /\ Under(raw) = <<raw[2], 239 - raw[1]>>
  BY <1>2 DEF Adjusted, Under, VerRes
<1>4. raw[2] \in 0 .. HorRes - 1 /\ VerRes - raw[1] \in 0 .. VerRes
  BY <1>1 DEF HorRes, VerRes
<1> QED
  BY <1>2, <1>3, <1>4, OneRowApart DEF Adjusted

(* convert_coordinates yields two uint16_t, whatever the bytes were ...    *)
LEMMA ConvertedType ==
  ASSUME NEW raw \in UInt12 \X UInt12
  PROVE  Converted(raw) \in UInt16 \X UInt16
<1>1. raw[1] \in Nat /\ raw[2] \in Nat /\ raw[2] < 4096
  BY DEF UInt12
<1>2. raw[2] \in UInt16
  BY <1>1 DEF UInt16
<1>3. (VerRes - raw[1]) % 65536 \in UInt16
  BY <1>1 DEF VerRes, UInt16
<1> QED
  BY <1>2, <1>3 DEF Converted

(* ... and for a position of the panel no more than one pixel from it.     *)
LEMMA ConvertedFacts ==
  ASSUME NEW raw \in Positions
  PROVE  /\ Converted(raw) \in UInt16 \X UInt16
         /\ Near(Converted(raw), Under(raw))
<1>1. raw[1] \in Nat /\ raw[1] < 240 /\ raw[2] \in Nat /\ raw[2] < 320
  BY PositionFacts
<1>2. VerRes - raw[1] \in Nat /\ VerRes - raw[1] <= 240
  BY <1>1 DEF VerRes
<1>3. (VerRes - raw[1]) % 65536 = VerRes - raw[1]
  BY <1>2
<1>4. Converted(raw) = Adjusted(raw)
  BY <1>3 DEF Converted, Adjusted
<1>5. raw[2] \in UInt16 /\ VerRes - raw[1] \in UInt16
  BY <1>1, <1>2 DEF UInt16
<1> QED
  BY <1>3, <1>4, <1>5, AdjustedFacts DEF Converted

(* What the chip senses: a position exactly if the number of points is one *)
(* that esp_lcd_touch_ft5x06_read_data accepts.                            *)
LEMMA SensedFacts ==
  ASSUME TypeOK
  PROVE  /\ Sensed \in Positions \cup {Lifted, Undefined}
         /\ PointsValid(num) => num \in 1 .. 5 /\ Sensed = position
         /\ ~PointsValid(num) => Sensed \notin Positions
         /\ num # 0 => Sensed \in {position, Undefined}
<1>1. num \in Nat /\ position \in Positions
  BY TouchAssumption DEF TypeOK, Byte
<1>2. PointsValid(num) <=> num \in 1 .. 5
  BY <1>1 DEF PointsValid
<1>3. Lifted \notin Positions /\ Undefined \notin Positions
  BY PositionFacts
<1> QED
  BY <1>1, <1>2, <1>3 DEF Sensed, Touching

-----------------------------------------------------------------------------
(* The initial state has no touch, no mark and no points. *)
LEMMA TouchInitial == Init => TouchInv
<1> SUFFICES ASSUME Init PROVE TouchInv
  OBVIOUS
<1>1. point = <<0, 0>> /\ <<0, 0>> \in (0 .. HorRes - 1) \X (0 .. VerRes)
  BY DEF Init, HorRes, VerRes
<1>2. TypeOK
  <2>1. num \in Counts /\ position \in Positions
    BY TouchAssumption DEF Init
  <2>2. data.points = 0 /\ data.coord = <<0, 0>>
    BY DEF Init, NewTouchData
  <2>3. points \in 0 .. 5 /\ data.points \in 0 .. 5
    BY <2>2 DEF Init
  <2>4. /\ pc = "new" /\ state \in BOOLEAN /\ failed \in BOOLEAN
        /\ mark = NoMark /\ seen = {}
    BY DEF Init
  <2> QED
    BY <1>1, <2>1, <2>2, <2>3, <2>4 DEF TypeOK
<1>3. RoundInv
  BY DEF Init, RoundInv, InRound, NewTouchData
<1>4. NoGhostTouch /\ NoFalseRelease /\ CrossAtTouch
  BY DEF Init, NoGhostTouch, NoFalseRelease, CrossAtTouch, NoMark
<1> QED
  BY <1>2, <1>3, <1>4 DEF TouchInv

(* Fingers that come, move or go between any two transfers preserve        *)
(* TouchInv: a lifted finger leaves its position in the chip.              *)
LEMMA FingerInv ==
  ASSUME TouchInv, Finger
  PROVE  TouchInv'
<1> USE DEF TouchInv
<1>1. /\ num' \in Counts /\ position' \in Positions
      /\ num' \in 1 .. 5 \/ position' = position
      /\ UNCHANGED <<pc, points, data, state, point, mark, failed>>
      /\ seen' = IF InRound THEN seen \cup {Sensed'} ELSE seen
  BY DEF Finger, TypeOK
<1>2. Sensed' \in Positions \cup {Lifted, Undefined}
  BY <1>1 DEF Sensed, Touching
<1>3. TypeOK'
  BY <1>1, <1>2 DEF TypeOK
<1>4. InRound => position' \in seen' \/ position' = position
  BY <1>1 DEF Sensed, Touching
<1>5. RoundInv'
  BY <1>1, <1>4 DEF RoundInv, InRound
<1>6. NoGhostTouch' /\ NoFalseRelease' /\ CrossAtTouch'
  BY <1>1 DEF NoGhostTouch, NoFalseRelease, CrossAtTouch, NearOneSeen, InRound
<1> QED
  BY <1>3, <1>5, <1>6

(* Every step of the main task preserves TouchInv. *)
LEMMA MainTaskInv ==
  ASSUME TouchInv, MainTask
  PROVE  TouchInv'
<1> USE DEF TouchInv
<1>1. CASE TouchInitFails
  <2>1. TypeOK'
    BY <1>1 DEF TouchInitFails, TypeOK
  <2>2. RoundInv'
    BY <1>1 DEF TouchInitFails, RoundInv, InRound, Sensed, Touching
  <2>3. NoGhostTouch' /\ NoFalseRelease' /\ CrossAtTouch'
    BY <1>1 DEF TouchInitFails, NoGhostTouch, NoFalseRelease, CrossAtTouch, NearOneSeen
  <2> QED
    BY <2>1, <2>2, <2>3
<1>2. CASE TouchNew
  <2>1. TypeOK'
    BY <1>2 DEF TouchNew, NewTouchData, TypeOK
  <2>2. RoundInv'
    BY <1>2 DEF TouchNew, NewTouchData, RoundInv, InRound, Sensed, Touching
  <2>3. NoGhostTouch' /\ NoFalseRelease' /\ CrossAtTouch'
    BY <1>2 DEF TouchNew, NewTouchData, NoGhostTouch, NoFalseRelease, CrossAtTouch, NearOneSeen
  <2> QED
    BY <2>1, <2>2, <2>3
<1>3. CASE AddTouch
  <2>0. <<0, 0>> \in (0 .. HorRes - 1) \X (0 .. VerRes)
    BY DEF HorRes, VerRes
  <2>1. TypeOK'
    BY <1>3, <2>0 DEF AddTouch, TypeOK
  <2>2. RoundInv'
    BY <1>3 DEF AddTouch, RoundInv, InRound
  <2>3. NoGhostTouch' /\ NoFalseRelease' /\ CrossAtTouch'
    BY <1>3 DEF AddTouch, NoGhostTouch, NoFalseRelease, CrossAtTouch
  <2> QED
    BY <2>1, <2>2, <2>3
<1>4. CASE ReadStatus
  <2>1. PICK n \in Counts : failed' = (n # num) /\ pc' = IF n % 16 > 0 THEN "touch" ELSE "new"
    BY <1>4 DEF ReadStatus
  <2>2. /\ seen' = {Sensed} /\ mark' = NoMark /\ pc = "new" /\ pc' \in {"touch", "new"}
        /\ UNCHANGED <<num, position, points, data, state, point>>
    BY <1>4, <2>1 DEF ReadStatus
  <2>3. pc' = "touch" => n # 0
    BY <2>1
  <2>4. TypeOK'
    BY <2>1, <2>2, SensedFacts DEF TypeOK
  <2>5. Sensed' = Sensed
    BY <2>2 DEF Sensed, Touching
  <2>6. pc' = "touch" /\ ~failed' /\ Undefined \notin seen' => position' \in seen'
    BY <2>1, <2>2, <2>3, SensedFacts
  <2>7. RoundInv'
    BY <2>2, <2>5, <2>6 DEF RoundInv, InRound
  <2>8. NoGhostTouch' /\ NoFalseRelease' /\ CrossAtTouch'
    BY <2>2 DEF NoGhostTouch, NoFalseRelease, CrossAtTouch
  <2> QED
    BY <2>4, <2>7, <2>8
<1>5. CASE ReadTouch
  <2>1. /\ pc = "touch" /\ pc' = "new"
        /\ UNCHANGED <<num, position, points, data, state, point, seen>>
    BY <1>5 DEF ReadTouch
  <2>2. \/ mark' = Converted(position) /\ failed' = failed
        \/ failed' = TRUE /\ \E raw \in Garbage : mark' = Converted(raw)
    BY <1>5 DEF ReadTouch
  <2>3. mark' \in UInt16 \X UInt16
    BY <2>2, ConvertedFacts, ConvertedType, TouchAssumption DEF TypeOK
  <2>4. failed' \in BOOLEAN
    BY <2>2 DEF TypeOK
  <2>5. TypeOK'
    BY <2>1, <2>3, <2>4 DEF TypeOK
  <2>6. RoundInv'
    BY <2>1 DEF RoundInv, InRound
  <2>7. CrossAtTouch'
    <3> SUFFICES ASSUME ~failed', Undefined \notin seen
                 PROVE  NearOneSeen(mark)'
      BY <2>1 DEF CrossAtTouch
    <3>1. mark' = Converted(position) /\ position \in seen \cap Positions
      BY <2>1, <2>2 DEF RoundInv, TypeOK
    <3> QED
      BY <2>1, <3>1, ConvertedFacts DEF NearOneSeen
  <2> QED
    BY <2>1, <2>5, <2>6, <2>7 DEF NoGhostTouch, NoFalseRelease
<1> QED
  BY <1>1, <1>2, <1>3, <1>4, <1>5 DEF MainTask

(* Every step of a round of LVGL preserves TouchInv. *)
LEMMA LvglTaskInv ==
  ASSUME TouchInv, LvglTask
  PROVE  TouchInv'
<1> USE DEF TouchInv
<1>1. CASE ReadTimerCb
  <2>1. TypeOK'
    BY <1>1, SensedFacts DEF ReadTimerCb, TypeOK
  <2>2. Sensed' = Sensed
    BY <1>1 DEF ReadTimerCb, Sensed, Touching
  <2>3. RoundInv'
    BY <1>1, <2>2 DEF ReadTimerCb, RoundInv, InRound
  <2>4. NoGhostTouch' /\ NoFalseRelease' /\ CrossAtTouch'
    BY <1>1 DEF ReadTimerCb, NoGhostTouch, NoFalseRelease, CrossAtTouch
  <2> QED
    BY <2>1, <2>3, <2>4
<1>2. CASE ReadPoints
  <2>1. /\ pc = "points" /\ pc' \in {"coords", "get"}
        /\ UNCHANGED <<num, position, data, state, point, mark, seen>>
    BY <1>2 DEF ReadPoints
  <2>2. \/ PointsValid(num) /\ points' = num /\ pc' = "coords" /\ failed' = failed
        \/ ~PointsValid(num) /\ points' = 0 /\ pc' = "get" /\ failed' = failed
        \/ points' = points /\ pc' = "get" /\ failed' = TRUE
    BY <1>2 DEF ReadPoints
  <2>3. points' \in 0 .. 5 /\ failed' \in BOOLEAN
    <3>1. points \in 0 .. 5 /\ failed \in BOOLEAN
      BY DEF TypeOK
    <3>2. PointsValid(num) => num \in 0 .. 5
      BY SensedFacts
    <3>3. points' \in 0 .. 5
      BY <2>2, <3>1, <3>2
    <3> QED
      BY <2>2, <3>1, <3>3
  <2>4. TypeOK'
    BY <2>1, <2>3 DEF TypeOK
  <2>5. Sensed' = Sensed /\ Sensed \in seen
    BY <2>1 DEF Sensed, Touching, RoundInv, InRound
  <2>6. pc' = "coords" => position' \in seen' /\ points' > 0
    BY <2>1, <2>2, <2>5, SensedFacts
  <2>7. pc' = "get" /\ seen' \subseteq Positions /\ ~failed' => data'.points > 0
    BY <2>1, <2>2, <2>5, SensedFacts
  <2>8. RoundInv'
    BY <2>1, <2>5, <2>6, <2>7 DEF RoundInv, InRound
  <2>9. NoGhostTouch' /\ NoFalseRelease' /\ CrossAtTouch'
    BY <2>1 DEF NoGhostTouch, NoFalseRelease, CrossAtTouch
  <2> QED
    BY <2>4, <2>8, <2>9
<1>3. CASE ReadCoords
  <2>1. /\ pc = "coords" /\ pc' = "get"
        /\ UNCHANGED <<num, position, points, state, point, mark, seen>>
    BY <1>3 DEF ReadCoords
  <2>2. \/ data' = [points |-> points, coord |-> position] /\ failed' = failed
        \/ data' = data /\ failed' = TRUE
    BY <1>3 DEF ReadCoords
  <2>3. data' \in [points : 0 .. 5, coord : Positions \cup {<<0, 0>>}]
    BY <2>2 DEF TypeOK, RoundInv
  <2>4. TypeOK'
    BY <2>1, <2>2, <2>3 DEF TypeOK
  <2>5. Sensed' = Sensed
    BY <2>1 DEF Sensed, Touching
  <2>6. data'.points > 0 => data'.coord \in seen' \cap Positions
    BY <2>1, <2>2 DEF RoundInv, TypeOK
  <2>7. ~failed' => data'.points > 0
    BY <2>1, <2>2 DEF RoundInv
  <2>8. RoundInv'
    BY <2>1, <2>3, <2>5, <2>6, <2>7 DEF RoundInv, InRound
  <2>9. NoGhostTouch' /\ NoFalseRelease' /\ CrossAtTouch'
    BY <2>1 DEF NoGhostTouch, NoFalseRelease, CrossAtTouch
  <2> QED
    BY <2>4, <2>8, <2>9
<1>4. CASE GetCoordinates
  <2>1. /\ pc = "get" /\ pc' = "idle"
        /\ state' = (data.points > 0)
        /\ point' = IF data.points > 0 THEN Adjusted(data.coord) ELSE point
        /\ UNCHANGED <<num, position, points, mark, seen, failed>>
    BY <1>4 DEF GetCoordinates
  <2>2. data' = [data EXCEPT !.points = 0]
    BY <1>4 DEF GetCoordinates, Invalidated
  <2>3. /\ data' \in [points : 0 .. 5, coord : Positions \cup {<<0, 0>>}]
        /\ data'.points = 0
    BY <2>2 DEF RoundInv
  <2>4. data.points > 0 => data.coord \in seen \cap Positions
    BY DEF RoundInv
  <2>5. point' \in (0 .. HorRes - 1) \X (0 .. VerRes)
    BY <2>1, <2>4, AdjustedFacts DEF TypeOK
  <2>6. TypeOK'
    BY <2>1, <2>3, <2>5 DEF TypeOK
  <2>7. RoundInv'
    BY <2>1, <2>3 DEF RoundInv, InRound
  <2>8. NoGhostTouch'
    <3> SUFFICES ASSUME data.points > 0
                 PROVE  NearOneSeen(point)'
      BY <2>1 DEF NoGhostTouch
    <3> QED
      BY <2>1, <2>4, AdjustedFacts DEF NearOneSeen
  <2>9. NoFalseRelease'
    BY <2>1 DEF RoundInv, NoFalseRelease
  <2> QED
    BY <2>1, <2>6, <2>7, <2>8, <2>9 DEF CrossAtTouch
<1> QED
  BY <1>1, <1>2, <1>3, <1>4 DEF LvglTask

(* TouchInv holds in every reachable state. *)
LEMMA TouchInvariance == Spec => []TouchInv
<1>1. TouchInv /\ [Next]_vars => TouchInv'
  <2> SUFFICES ASSUME TouchInv, [Next]_vars
               PROVE  TouchInv'
    OBVIOUS
  <2>1. CASE UNCHANGED vars
    <3>1. TypeOK'
      BY <2>1 DEF vars, TouchInv, TypeOK
    <3>2. RoundInv'
      BY <2>1 DEF vars, TouchInv, RoundInv, InRound, Sensed, Touching
    <3>3. NoGhostTouch' /\ NoFalseRelease' /\ CrossAtTouch'
      BY <2>1 DEF vars, TouchInv, NoGhostTouch, NoFalseRelease, CrossAtTouch, NearOneSeen
    <3> QED
      BY <3>1, <3>2, <3>3 DEF TouchInv
  <2> QED
    BY <2>1, FingerInv, MainTaskInv, LvglTaskInv DEF Next
<1> QED
  BY <1>1, TouchInitial, PTL DEF Spec

-----------------------------------------------------------------------------
(* Type correctness: in particular the position LVGL gets is on the screen *)
(* or in the row below it, and the one LCD_Touch marks is two uint16_t.    *)
THEOREM TypeCorrect == Spec => []TypeOK
<1>1. TouchInv => TypeOK
  BY DEF TouchInv
<1> QED
  BY <1>1, TouchInvariance, PTL

(* lvgl_port_touchpad_read never reports a touch that did not happen in    *)
(* this round, at the place where it happened, up to one pixel.            *)
THEOREM NoTouchIsInvented == Spec => []NoGhostTouch
<1>1. TouchInv => NoGhostTouch
  BY DEF TouchInv
<1> QED
  BY <1>1, TouchInvariance, PTL

(* A finger that stays on the panel for a whole round is reported as       *)
(* pressed, unless a transfer failed.                                      *)
THEOREM NoTouchIsMissed == Spec => []NoFalseRelease
<1>1. TouchInv => NoFalseRelease
  BY DEF TouchInv
<1> QED
  BY <1>1, TouchInvariance, PTL

(* LCD_Touch draws its cross where the panel was touched, up to one pixel. *)
THEOREM CrossIsAtTouch == Spec => []CrossAtTouch
<1>1. TouchInv => CrossAtTouch
  BY DEF TouchInv
<1> QED
  BY <1>1, TouchInvariance, PTL
=============================================================================
