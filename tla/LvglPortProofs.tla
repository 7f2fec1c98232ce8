--------------------------- MODULE LvglPortProofs ---------------------------
(***************************************************************************)
(* Proofs about the LVGL port, for any number of lvgl_port_init in a boot, *)
(* any maximal sleep and whatever lv_timer_handler returns.                *)
(***************************************************************************)
EXTENDS LvglPort, TLAPS

(* lvgl_port_init counts up, and the context knows no mutex but the last.  *)
CountInv ==
  /\ mainPc = "init" <=> inits = 0
  /\ mux \in {NULL, inits}
  /\ mainPc = "create" => mux = NULL
  /\ \A i \in Inits : i > inits => owner[i] = Nobody /\ lvPc[i] = "none"
  /\ mainPc = "create" => owner[inits] = Nobody
  /\ mainPc \in {"create", "undo"} => lvPc[inits] = "none"

(* Who holds the last mutex: the main task while it is in LVGL, or a task  *)
(* between lock and unlock; whoever is inside LVGL holds it, unless it was *)
(* inside already when the mutex was replaced.                             *)
HolderInv ==
  inits > 0 =>
    /\ owner[inits] = Main <=> Locked /\ mainPc \in InLvgl
    /\ \A i \in Inits : owner[inits] = i => Inside(i) \/ lvPc[i] = "unlock"
    /\ \A i \in Inits : Inside(i) /\ overlap # "inside" => owner[inits] = i

(* A half-built display is one the main task is building. *)
DisplayInv == disp = "partial" => mainPc = "screens"

Up == {"adddisp", "screens", "app", "call"}

(* As long as no task outlives its lvgl_port_deinit into the next          *)
(* lvgl_port_init, the last task is the only one, and once it has started  *)
(* the flag that keeps it running stays up.                                *)
TaskInv ==
  overlap = "gone" =>
    /\ \A i \in Inits : i # inits => ~Alive(i)
    /\ mainPc \in Up => /\ lvPc[inits] \notin {"exit", "clear", "dead"}
                        /\ lvPc[inits] \notin {"none", "start"} => running

PortInv == TypeOK /\ CountInv /\ HolderInv /\ DisplayInv /\ TaskInv

(* The initial state, which is also the one after a panic's reboot, has no *)
(* task, no mutex and no display.                                          *)
LEMMA PortInitial == Init => PortInv
<1> SUFFICES ASSUME Init PROVE PortInv
  OBVIOUS
<1> USE PortAssumption DEF Init, Inits, NULL, Nobody, Main
<1>1. TypeOK
  <2>1. /\ mux \in Inits \cup {NULL} /\ running \in BOOLEAN /\ tick \in BOOLEAN
        /\ freed \in BOOLEAN /\ maxSleep \in {0, MaxSleep}
    OBVIOUS
  <2>2. owner \in [Inits -> Inits \cup {Nobody, Main}]
    OBVIOUS
  <2>3. delay \in [Inits -> Nat]
    OBVIOUS
  <2>4. inits \in 0 .. MaxInits
    OBVIOUS
  <2>5. runs \in BOOLEAN /\ already \in BOOLEAN /\ panic \in BOOLEAN
    OBVIOUS
  <2> QED
  BY <2>1, <2>2, <2>3, <2>4, <2>5 DEF TypeOK
<1>2. CountInv
  BY DEF CountInv
<1>3. HolderInv
  BY DEF HolderInv
<1>4. DisplayInv /\ TaskInv
  BY DEF DisplayInv, TaskInv, Alive, Up
<1> QED
  BY <1>1, <1>2, <1>3, <1>4 DEF PortInv

(* SleepMs returns a natural number of milliseconds. *)
LEMMA SleepMsType ==
  ASSUME TypeOK, NEW d \in Nat
  PROVE  SleepMs(d) \in Nat
BY PortAssumption DEF TypeOK, SleepMs

(* A call on lvgl_mux that works finds the last mutex there. *)
LEMMA WorkingMux ==
  ASSUME PortInv, TRUE \in MuxWorks
  PROVE  mux = inits /\ inits \in Inits
BY PortAssumption DEF PortInv, TypeOK, CountInv, MuxWorks, NULL, Inits

(* The main task that enters LVGL through lvgl_port_lock becomes the holder*)
LEMMA EnterHolder ==
  ASSUME PortInv, NEW from \in {"adddisp", "app"}, NEW to \in InLvgl,
         Enter(from, to), UNCHANGED <<lvPc, inits, overlap>>
  PROVE  HolderInv'
<1> USE PortAssumption
<1> USE DEF PortInv, TypeOK, HolderInv, CountInv, InLvgl, Inside, Nobody, Main, Inits, NULL
<1>1. CASE UNCHANGED <<owner, mainPc>>
  BY <1>1
<1>2. CASE ~Locked /\ UNCHANGED owner /\ mainPc' = to
  BY <1>2 DEF Enter
<1>3. CASE /\ Locked /\ TRUE \in MuxWorks /\ mainPc' = to /\ owner[mux] = Nobody
           /\ owner' = [owner EXCEPT ![mux] = Main]
  <2>1. mux = inits /\ inits \in Inits
    BY <1>3, WorkingMux
  <2> QED
    BY <1>3, <2>1
<1> QED
  BY <1>1, <1>2, <1>3 DEF Enter

(* ... and on leaving it gives the mutex back. *)
LEMMA LeaveHolder ==
  ASSUME PortInv, NEW from \in InLvgl, NEW to \in {"app"},
         Leave(from, to), UNCHANGED <<lvPc, inits, overlap>>
  PROVE  HolderInv'
<1> USE PortAssumption
<1> USE DEF PortInv, TypeOK, HolderInv, CountInv, InLvgl, Inside, Nobody, Main, Inits, NULL
<1>1. PICK ok \in IF Locked THEN MuxWorks ELSE {TRUE} :
        /\ mainPc' = IF ok THEN to ELSE from
        /\ owner' = [m \in Inits |->
             IF Locked /\ ok /\ m = mux /\ owner[m] = Main THEN Nobody ELSE owner[m]]
  BY DEF Leave
<1>2. CASE ~ok \/ ~Locked
  <2>1. owner' = owner
    BY <1>1, <1>2
  <2> QED
    BY <1>1, <1>2, <2>1 DEF Leave, MuxWorks
<1>3. CASE ok /\ Locked
  <2>1. mux = inits /\ inits \in Inits
    BY <1>1, <1>3, WorkingMux DEF MuxWorks
  <2> QED
    BY <1>1, <1>3, <2>1 DEF Leave
<1> QED
  BY <1>1, <1>2, <1>3 DEF MuxWorks

(* Every step of an LVGL task preserves PortInv. *)
LEMMA TaskStepInv ==
  ASSUME PortInv, NEW i \in Inits, ~panic, TaskStep(i)
  PROVE  PortInv'
<1> USE PortAssumption
<1> USE DEF PortInv, TypeOK, Alive, Inside, InLvgl, NULL, Nobody, Main, Inits, ctx, lvgl,
            Goto, Assert, MuxWorks
<1>1. CASE TaskStart(i)
  <2>1. TypeOK'
    BY <1>1 DEF TaskStart
  <2>2. CountInv'
    BY <1>1 DEF TaskStart, CountInv
  <2>3. HolderInv'
    BY <1>1 DEF TaskStart, HolderInv, CountInv
  <2>4. DisplayInv'
    BY <1>1 DEF TaskStart, DisplayInv
  <2>5. TaskInv'
    BY <1>1 DEF TaskStart, TaskInv, Up, CountInv
  <2> QED
    BY <2>1, <2>2, <2>3, <2>4, <2>5
<1>2. CASE TaskLoop(i)
  <2>1. TypeOK'
    BY <1>2 DEF TaskLoop
  <2>2. CountInv'
    BY <1>2 DEF TaskLoop, CountInv
  <2>3. HolderInv'
    BY <1>2 DEF TaskLoop, HolderInv, CountInv
  <2>4. DisplayInv'
    BY <1>2 DEF TaskLoop, DisplayInv
  <2>5. TaskInv'
    BY <1>2 DEF TaskLoop, TaskInv, Up, CountInv
  <2> QED
    BY <2>1, <2>2, <2>3, <2>4, <2>5
<1>3. CASE TaskLock(i)
  <2>1. TypeOK'
    BY <1>3 DEF TaskLock
  <2>2. CountInv'
    BY <1>3 DEF TaskLock, CountInv
  <2>3. HolderInv'
    BY <1>3 DEF TaskLock, HolderInv, CountInv
  <2>4. DisplayInv'
    BY <1>3 DEF TaskLock, DisplayInv
  <2>5. TaskInv'
    BY <1>3 DEF TaskLock, TaskInv, Up, CountInv
  <2> QED
    BY <2>1, <2>2, <2>3, <2>4, <2>5
<1>4. CASE TaskTake(i)
  <2>1. TypeOK'
    BY <1>4 DEF TaskTake
  <2>2. CountInv'
    BY <1>4 DEF TaskTake, CountInv
  <2>3. HolderInv'
    <3>1. PICK ok \in MuxWorks :
            /\ lvPc[i] = "take"
            /\ lvPc' = [lvPc EXCEPT ![i] = IF ok THEN "enter" ELSE "take"]
            /\ IF ok THEN owner[mux] = Nobody /\ owner' = [owner EXCEPT ![mux] = i]
               ELSE UNCHANGED owner
            /\ UNCHANGED <<mainPc, inits, overlap>>
      BY <1>4 DEF TaskTake
    <3>2. CASE ok
      <4>1. mux = inits /\ inits \in Inits
        BY <3>2, WorkingMux
      <4> QED
        BY <3>1, <3>2, <4>1 DEF HolderInv, CountInv
    <3>3. CASE ~ok
      <4>1. lvPc' = lvPc /\ owner' = owner
        BY <3>1, <3>3
      <4> QED
        BY <3>1, <4>1 DEF HolderInv
    <3> QED
      BY <3>2, <3>3
  <2>4. DisplayInv'
    BY <1>4 DEF TaskTake, DisplayInv
  <2>5. TaskInv'
    BY <1>4 DEF TaskTake, TaskInv, Up, CountInv
  <2> QED
    BY <2>1, <2>2, <2>3, <2>4, <2>5
<1>5. CASE TaskHandlerBusy(i)
  <2>1. TypeOK'
    BY <1>5 DEF TaskHandlerBusy
  <2>2. CountInv'
    BY <1>5 DEF TaskHandlerBusy, CountInv
  <2>3. HolderInv'
    BY <1>5 DEF TaskHandlerBusy, HolderInv, CountInv
  <2>4. DisplayInv'
    BY <1>5 DEF TaskHandlerBusy, DisplayInv
  <2>5. TaskInv'
    BY <1>5 DEF TaskHandlerBusy, TaskInv, Up, CountInv
  <2> QED
    BY <2>1, <2>2, <2>3, <2>4, <2>5
<1>6. CASE TaskHandlerBegin(i)
  <2>1. TypeOK'
    BY <1>6 DEF TaskHandlerBegin
  <2>2. CountInv'
    BY <1>6 DEF TaskHandlerBegin, CountInv
  <2>3. HolderInv'
    BY <1>6 DEF TaskHandlerBegin, HolderInv, CountInv
  <2>4. DisplayInv'
    BY <1>6 DEF TaskHandlerBegin, DisplayInv
  <2>5. TaskInv'
    BY <1>6 DEF TaskHandlerBegin, TaskInv, Up, CountInv
  <2> QED
    BY <2>1, <2>2, <2>3, <2>4, <2>5
<1>7. CASE TaskHandlerEnd(i)
  <2>1. TypeOK'
    <3>1. delay' \in [Inits -> Nat]
      BY <1>7 DEF TaskHandlerEnd
    <3>2. /\ lvPc' = [lvPc EXCEPT ![i] = "unlock"] /\ already' = FALSE
          /\ UNCHANGED <<ctx, owner, runs, disp, panic, mainPc, inits, overlap>>
      BY <1>7 DEF TaskHandlerEnd
    <3>3. /\ lvPc' \in [Inits -> {"none", "start", "loop", "lock", "take", "enter", "handler",
                                 "unlock", "clamp", "sleep", "exit", "clear", "dead"}]
          /\ already' \in BOOLEAN
      BY <3>2
    <3> HIDE DEF Goto, Assert, MuxWorks, NULL, Nobody, Main, Inits
    <3> QED
      BY <3>1, <3>2, <3>3
  <2>2. CountInv'
    BY <1>7 DEF TaskHandlerEnd, CountInv
  <2>3. HolderInv'
    BY <1>7 DEF TaskHandlerEnd, HolderInv, CountInv
  <2>4. DisplayInv'
    BY <1>7 DEF TaskHandlerEnd, DisplayInv
  <2>5. TaskInv'
    BY <1>7 DEF TaskHandlerEnd, TaskInv, Up, CountInv
  <2> QED
    BY <2>1, <2>2, <2>3, <2>4, <2>5
<1>8. CASE TaskUnlock(i)
  <2>1. TypeOK'
    BY <1>8 DEF TaskUnlock
  <2>2. CountInv'
    BY <1>8 DEF TaskUnlock, CountInv
  <2>3. HolderInv'
    <3>1. PICK ok \in MuxWorks :
            /\ lvPc[i] = "unlock"
            /\ lvPc' = [lvPc EXCEPT ![i] = IF ok THEN "clamp" ELSE "unlock"]
            /\ owner' = [m \in Inits |->
                 IF ok /\ m = mux /\ owner[m] = i THEN Nobody ELSE owner[m]]
            /\ UNCHANGED <<mainPc, inits, overlap>>
      BY <1>8 DEF TaskUnlock
    <3>2. CASE ok
      <4>1. mux = inits /\ inits \in Inits
        BY <3>2, WorkingMux
      <4> QED
        BY <3>1, <3>2, <4>1 DEF HolderInv, CountInv
    <3>3. CASE ~ok
      <4>1. lvPc' = lvPc /\ owner' = owner
        BY <3>1, <3>3
      <4> QED
        BY <3>1, <4>1 DEF HolderInv
    <3> QED
      BY <3>2, <3>3
  <2>4. DisplayInv'
    BY <1>8 DEF TaskUnlock, DisplayInv
  <2>5. TaskInv'
    BY <1>8 DEF TaskUnlock, TaskInv, Up, CountInv
  <2> QED
    BY <2>1, <2>2, <2>3, <2>4, <2>5
<1>9. CASE TaskClamp(i)
  <2>1. TypeOK'
    <3>1. SleepMs(delay[i]) \in Nat
      BY SleepMsType
    <3>2. delay' \in [Inits -> Nat]
      BY <1>9, <3>1 DEF TaskClamp
    <3> QED
      BY <1>9, <3>2 DEF TaskClamp
  <2>2. CountInv'
    BY <1>9 DEF TaskClamp, CountInv
  <2>3. HolderInv'
    BY <1>9 DEF TaskClamp, HolderInv, CountInv
  <2>4. DisplayInv'
    BY <1>9 DEF TaskClamp, DisplayInv
  <2>5. TaskInv'
    BY <1>9 DEF TaskClamp, TaskInv, Up, CountInv
  <2> QED
    BY <2>1, <2>2, <2>3, <2>4, <2>5
<1>10. CASE TaskWake(i)
  <2>1. TypeOK'
    BY <1>10 DEF TaskWake
  <2>2. CountInv'
    BY <1>10 DEF TaskWake, CountInv
  <2>3. HolderInv'
    BY <1>10 DEF TaskWake, HolderInv, CountInv
  <2>4. DisplayInv'
    BY <1>10 DEF TaskWake, DisplayInv
  <2>5. TaskInv'
    BY <1>10 DEF TaskWake, TaskInv, Up, CountInv
  <2> QED
    BY <2>1, <2>2, <2>3, <2>4, <2>5
<1>11. CASE TaskExit(i)
  <2>1. TypeOK'
    <3>1. freed' \in BOOLEAN /\ panic' \in BOOLEAN
      BY <1>11 DEF TaskExit, TaskDeinit
    <3> QED
      BY <1>11, <3>1 DEF TaskExit, TaskDeinit
  <2>2. CountInv'
    BY <1>11 DEF TaskExit, TaskDeinit, CountInv
  <2>3. HolderInv'
    BY <1>11 DEF TaskExit, TaskDeinit, HolderInv, CountInv
  <2>4. DisplayInv'
    BY <1>11 DEF TaskExit, TaskDeinit, DisplayInv
  <2>5. TaskInv'
    BY <1>11 DEF TaskExit, TaskDeinit, TaskInv, Up, CountInv
  <2> QED
    BY <2>1, <2>2, <2>3, <2>4, <2>5
<1>12. CASE TaskClear(i)
  <2>1. TypeOK'
    BY <1>12 DEF TaskClear, ClearCtx
  <2>2. CountInv'
    BY <1>12 DEF TaskClear, ClearCtx, CountInv
  <2>3. HolderInv'
    BY <1>12 DEF TaskClear, ClearCtx, HolderInv, CountInv
  <2>4. DisplayInv'
    BY <1>12 DEF TaskClear, ClearCtx, DisplayInv
  <2>5. TaskInv'
    BY <1>12 DEF TaskClear, ClearCtx, TaskInv, Up, CountInv
  <2> QED
    BY <2>1, <2>2, <2>3, <2>4, <2>5
<1> QED
  BY <1>1, <1>2, <1>3, <1>4, <1>5, <1>6, <1>7, <1>8, <1>9, <1>10, <1>11, <1>12
  DEF TaskStep

(* Every step of the main task preserves PortInv. *)
LEMMA MainStepInv ==
  ASSUME PortInv, ~panic, MainStep
  PROVE  PortInv'
<1> USE PortAssumption
<1> USE DEF PortInv, TypeOK, Alive, Inside, InLvgl, NULL, Nobody, Main, Inits, ctx, lvgl,
            MuxWorks
<1>1. CASE PortInit
  <2>1. TypeOK'
    <3>1. inits' \in 0 .. MaxInits
      BY <1>1 DEF PortInit
    <3>2. /\ mux' \in Inits \cup {NULL} /\ tick' \in BOOLEAN
          /\ maxSleep' \in {0, MaxSleep} /\ mainPc' \in {"create", "adddisp"}
          /\ overlap' \in {"gone", "alive", "inside"}
      BY <1>1 DEF PortInit
    <3>3. runs' \in BOOLEAN
      BY <1>1 DEF PortInit
    <3> QED
      BY <1>1, <3>1, <3>2, <3>3 DEF PortInit
  <2>2. CountInv'
    BY <1>1 DEF PortInit, CountInv
  <2>3. HolderInv'
    BY <1>1 DEF PortInit, HolderInv, CountInv
  <2>4. DisplayInv'
    BY <1>1 DEF PortInit, DisplayInv
  <2>5. TaskInv'
    BY <1>1 DEF PortInit, TaskInv, Up, CountInv
  <2> QED
    BY <2>1, <2>2, <2>3, <2>4, <2>5
<1>2. CASE PortCreate
  <2>1. TypeOK'
    <3>1. inits \in Inits
      BY <1>2 DEF PortCreate, CountInv
    <3>2. lvPc' = lvPc \/ lvPc' = [lvPc EXCEPT ![inits] = "start"]
      BY <1>2 DEF PortCreate
    <3>3. /\ mux' \in Inits \cup {NULL} /\ running' \in BOOLEAN /\ tick' \in BOOLEAN
          /\ maxSleep' \in {0, MaxSleep} /\ freed' \in BOOLEAN
      BY <1>2, <3>1 DEF PortCreate
    <3> QED
      BY <1>2, <3>1, <3>2, <3>3 DEF PortCreate
  <2>2. CountInv'
    BY <1>2 DEF PortCreate, CountInv
  <2>3. HolderInv'
    BY <1>2 DEF PortCreate, HolderInv, CountInv
  <2>4. DisplayInv'
    BY <1>2 DEF PortCreate, DisplayInv
  <2>5. TaskInv'
    BY <1>2 DEF PortCreate, TaskInv, Up, CountInv
  <2> QED
    BY <2>1, <2>2, <2>3, <2>4, <2>5
<1>3. CASE AddDispBegin
  <2>1. TypeOK'
    BY <1>3 DEF AddDispBegin, Enter
  <2>2. CountInv'
    BY <1>3 DEF AddDispBegin, Enter, CountInv
  <2>3. HolderInv'
    BY <1>3, EnterHolder DEF AddDispBegin
  <2>4. DisplayInv'
    BY <1>3 DEF AddDispBegin, Enter, DisplayInv
  <2>5. TaskInv'
    BY <1>3 DEF AddDispBegin, Enter, TaskInv, Up, CountInv
  <2> QED
    BY <2>1, <2>2, <2>3, <2>4, <2>5
<1>4. CASE AddDispNoMem
  <2>1. TypeOK'
    BY <1>4 DEF AddDispNoMem
  <2>2. CountInv'
    BY <1>4 DEF AddDispNoMem, CountInv
  <2>3. HolderInv'
    BY <1>4 DEF AddDispNoMem, HolderInv, CountInv
  <2>4. DisplayInv'
    BY <1>4 DEF AddDispNoMem, DisplayInv
  <2>5. TaskInv'
    BY <1>4 DEF AddDispNoMem, TaskInv, Up, CountInv
  <2> QED
    BY <2>1, <2>2, <2>3, <2>4, <2>5
<1>5. CASE AddDispEnd
  <2>1. TypeOK'
    BY <1>5 DEF AddDispEnd, Leave
  <2>2. CountInv'
    BY <1>5 DEF AddDispEnd, Leave, CountInv
  <2>3. HolderInv'
    BY <1>5, LeaveHolder DEF AddDispEnd
  <2>4. DisplayInv'
    BY <1>5 DEF AddDispEnd, Leave, DisplayInv
  <2>5. TaskInv'
    BY <1>5 DEF AddDispEnd, Leave, TaskInv, Up, CountInv
  <2> QED
    BY <2>1, <2>2, <2>3, <2>4, <2>5
<1>6. CASE CallBegin
  <2>1. TypeOK'
    BY <1>6 DEF CallBegin, Enter
  <2>2. CountInv'
    BY <1>6 DEF CallBegin, Enter, CountInv
  <2>3. HolderInv'
    BY <1>6, EnterHolder DEF CallBegin
  <2>4. DisplayInv'
    BY <1>6 DEF CallBegin, Enter, DisplayInv
  <2>5. TaskInv'
    BY <1>6 DEF CallBegin, Enter, TaskInv, Up, CountInv
  <2> QED
    BY <2>1, <2>2, <2>3, <2>4, <2>5
<1>7. CASE CallEnd
  <2>1. TypeOK'
    BY <1>7 DEF CallEnd, Leave
  <2>2. CountInv'
    BY <1>7 DEF CallEnd, Leave, CountInv
  <2>3. HolderInv'
    BY <1>7, LeaveHolder DEF CallEnd
  <2>4. DisplayInv'
    BY <1>7 DEF CallEnd, Leave, DisplayInv
  <2>5. TaskInv'
    BY <1>7 DEF CallEnd, Leave, TaskInv, Up, CountInv
  <2> QED
    BY <2>1, <2>2, <2>3, <2>4, <2>5
<1>8. CASE Stop \/ Resume
  <2>1. TypeOK'
    BY <1>8 DEF Stop, Resume, SetRuns
  <2>2. CountInv'
    BY <1>8 DEF Stop, Resume, SetRuns, CountInv
  <2>3. HolderInv'
    BY <1>8 DEF Stop, Resume, SetRuns, HolderInv, CountInv
  <2>4. DisplayInv'
    BY <1>8 DEF Stop, Resume, SetRuns, DisplayInv
  <2>5. TaskInv'
    BY <1>8 DEF Stop, Resume, SetRuns, TaskInv, Up, CountInv
  <2> QED
    BY <2>1, <2>2, <2>3, <2>4, <2>5
<1>9. CASE Deinit
  <2>1. TypeOK'
    BY <1>9 DEF Deinit, TaskDeinit
  <2>2. CountInv'
    BY <1>9 DEF Deinit, TaskDeinit, CountInv
  <2>3. HolderInv'
    BY <1>9 DEF Deinit, TaskDeinit, HolderInv, CountInv
  <2>4. DisplayInv'
    BY <1>9 DEF Deinit, TaskDeinit, DisplayInv
  <2>5. TaskInv'
    BY <1>9 DEF Deinit, TaskDeinit, TaskInv, Up, CountInv
  <2> QED
    BY <2>1, <2>2, <2>3, <2>4, <2>5
<1>10. CASE DeinitClear
  <2>1. TypeOK'
    BY <1>10 DEF DeinitClear, ClearCtx
  <2>2. CountInv'
    BY <1>10 DEF DeinitClear, ClearCtx, CountInv
  <2>3. HolderInv'
    BY <1>10 DEF DeinitClear, ClearCtx, HolderInv, CountInv
  <2>4. DisplayInv'
    BY <1>10 DEF DeinitClear, ClearCtx, DisplayInv
  <2>5. TaskInv'
    BY <1>10 DEF DeinitClear, ClearCtx, TaskInv, Up, CountInv
  <2> QED
    BY <2>1, <2>2, <2>3, <2>4, <2>5
<1> QED
  BY <1>1, <1>2, <1>3, <1>4, <1>5, <1>6, <1>7, <1>8, <1>9, <1>10 DEF MainStep

(* PortInv holds in every reachable state, with and without lock. *)
LEMMA PortInvariance == Spec => []PortInv
<1>1. PortInv /\ [Next]_vars => PortInv'
  <2> SUFFICES ASSUME PortInv, [Next]_vars
               PROVE  PortInv'
    OBVIOUS
  <2>1. CASE Reboot
    <3>1. Init'
      BY <2>1 DEF Reboot, Init
    <3> QED
      BY <3>1, PortInitial, PTL
  <2>2. CASE UNCHANGED vars
    BY <2>2 DEF vars, ctx, lvgl, PortInv, TypeOK, CountInv, HolderInv, DisplayInv,
                TaskInv, Alive, Inside
  <2> QED
    BY <2>1, <2>2, TaskStepInv, MainStepInv DEF Next
<1> QED
  BY <1>1, PortInitial, PTL DEF Spec

-----------------------------------------------------------------------------
(* Type correctness of the port: every sleep is a number of milliseconds,  *)
(* and a mutex belongs to a task of the port, to the main task or to no one*)
THEOREM TypeCorrect == Spec => []TypeOK
<1>1. PortInv => TypeOK
  BY DEF PortInv
<1> QED
  BY <1>1, PortInvariance, PTL

(* lvgl_port_lock and lvgl_port_unlock: the mutex of the port is held      *)
(* exactly between the two, through every restart of the port.             *)
THEOREM LockIsBalanced == Spec => []LockBalanced
<1>1. PortInv => LockBalanced
  BY PortAssumption DEF PortInv, TypeOK, CountInv, HolderInv, LockBalanced, NULL, Inits
<1> QED
  BY <1>1, PortInvariance, PTL

(* An application that takes lvgl_port_lock around its LVGL calls never    *)
(* meets a task of the port inside LVGL, nor does it show it a half-built  *)
(* display; nor do two tasks of the port meet.                             *)
THEOREM Exclusion == ASSUME Locked PROVE Spec => []OneTaskInLvgl
<1>1. PortInv => OneTaskInLvgl
  BY PortAssumption
     DEF PortInv, TypeOK, CountInv, HolderInv, DisplayInv, OneTaskInLvgl, InLvgl, Inside,
         Inits, Main
<1> QED
  BY <1>1, PortInvariance, PTL

(* A port that came up stays up until lvgl_port_deinit, if every task ended*)
(* before the next lvgl_port_init.                                         *)
THEOREM PortStaysUp == Spec => []StaysUp
<1>1. PortInv => StaysUp
  BY DEF PortInv, TaskInv, StaysUp, Up
<1> QED
  BY <1>1, PortInvariance, PTL
=============================================================================
