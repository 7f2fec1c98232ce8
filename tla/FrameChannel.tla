---------------------------- MODULE FrameChannel ----------------------------
(***************************************************************************)
(* What the display path promises its renderer, and nothing of how: the    *)
(* single draw buffer belongs to LVGL or to the panel.  LVGL may draw only *)
(* while it owns the buffer; handing it over fixes the image that is sent; *)
(* when the buffer comes back, the panel shows exactly that image.         *)
(***************************************************************************)
EXTENDS Naturals

CONSTANTS
  Pixels,  \* contents of the buffer
  Sizes    \* sizes (in transfers) an image can have

VARIABLES
  owner,    \* "lvgl" or "panel"
  content,  \* of the draw buffer
  pending,  \* the image handed over last
  shown     \* the image shown last

fcVars == <<owner, content, pending, shown>>

Empty == [cnt |-> 0, vals |-> {}]

Init ==
  /\ owner = "lvgl"
  /\ pending = Empty
  /\ shown = Empty

Draw ==
  /\ owner = "lvgl"
  /\ content' \in Pixels
  /\ UNCHANGED <<owner, pending, shown>>

HandOver ==
  /\ owner = "lvgl"
  /\ owner' = "panel"
  /\ \E n \in Sizes : pending' = [cnt |-> n, vals |-> {content}]
  /\ UNCHANGED <<content, shown>>

Present ==
  /\ owner = "panel"
  /\ owner' = "lvgl"
  /\ shown' = pending
  /\ UNCHANGED <<content, pending>>

Next == Draw \/ HandOver \/ Present

SafetySpec == Init /\ [][Next]_fcVars
Spec == SafetySpec /\ WF_fcVars(Present)
=============================================================================
