------------------------------ MODULE LvglPort ------------------------------
(***************************************************************************)
(* The LVGL port: its task, its recursive mutex, and the main task that    *)
(* initialises it, adds the display and then calls LVGL (bsp_lvgl_start and*)
(* app_main), or deinitialises the port and initialises it again.  LVGL    *)
(* itself is not thread safe: what matters here is who is inside it, and in*)
(* which state of construction the display is.                             *)
(*                                                                         *)
(* The n-th lvgl_port_init of a boot creates mutex n and task n; a task    *)
(* that lvgl_port_deinit has told to stop notices only when it wakes up.   *)
(* All tasks share lvgl_port_ctx, which always speaks of the latest ones.  *)
(* A failed assert() ends in a panic, and that in a reboot of the chip.    *)
(* The mutex is recursive, but no caller nests it.                         *)
(***************************************************************************)
EXTENDS Integers

CONSTANTS
  Locked,     \* does the main task take lvgl_port_lock around its LVGL calls?
  MayDeinit,  \* may the main task call lvgl_port_deinit?
  MaxInits,   \* bound: calls of lvgl_port_init in one boot
  MaxSleep,   \* task_max_sleep_ms of the configuration
  Delays,     \* bound: what lv_timer_handler may return, in ms
  NoTimer     \* LV_NO_TIMER_READY, returned when all timers are paused

ASSUME PortAssumption ==
  /\ Locked \in BOOLEAN /\ MayDeinit \in BOOLEAN
  /\ MaxInits \in Nat \ {0}
  /\ MaxSleep \in Nat \ {0} /\ Delays \subseteq Nat
  /\ NoTimer \in Nat /\ NoTimer > MaxSleep

Inits == 1 .. MaxInits
NULL == 0      \* no mutex
Nobody == 0    \* owner of a free mutex
Main == -1     \* the main task as an owner

VARIABLES
  mux,       \* lvgl_port_ctx.lvgl_mux
  running,   \* lvgl_port_ctx.running
  maxSleep,  \* lvgl_port_ctx.task_max_sleep_ms
  tick,      \* lvgl_port_ctx.tick_timer: is it non-NULL?
  freed,     \* is lvgl_mux a mutex that vSemaphoreDelete has freed?
  owner,     \* task that holds each mutex
  runs,      \* lv_timer_run
  already,   \* already_running of lv_timer_handler
  disp,      \* the display in LVGL: "none", "partial" (refresh timer, no screen), "ready"
  delay,     \* task_delay_ms of each LVGL task
  lvPc,      \* LVGL tasks
  mainPc,    \* main task
  inits,     \* calls of lvgl_port_init so far
  panic,     \* has an assert failed?
  overlap    \* history: what an old task did when the port was initialised
             \* again: "gone", "alive", or "inside" LVGL

ctx == <<mux, running, maxSleep, tick, freed>>
lvgl == <<runs, already, disp>>
vars == <<ctx, owner, lvgl, delay, lvPc, mainPc, inits, panic, overlap>>

TypeOK ==
  /\ mux \in Inits \cup {NULL} /\ running \in BOOLEAN /\ tick \in BOOLEAN
  /\ freed \in BOOLEAN
  /\ maxSleep \in {0, MaxSleep}
  /\ owner \in [Inits -> Inits \cup {Nobody, Main}]
  /\ runs \in BOOLEAN /\ already \in BOOLEAN
  /\ disp \in {"none", "partial", "ready"}
  /\ delay \in [Inits -> Nat]
  /\ lvPc \in [Inits -> {"none", "start", "loop", "lock", "take", "enter", "handler",
                         "unlock", "clamp", "sleep", "exit", "clear", "dead"}]
  /\ mainPc \in {"init", "create", "undo", "adddisp", "screens", "app", "call", "deinit",
                "off"}
  /\ inits \in 0 .. MaxInits
  /\ panic \in BOOLEAN
  /\ overlap \in {"gone", "alive", "inside"}

Init ==
  /\ mux = NULL /\ running = FALSE /\ maxSleep = 0 /\ tick = FALSE
  /\ freed = FALSE
  /\ owner = [i \in Inits |-> Nobody]
  /\ runs = FALSE /\ already = FALSE
  /\ disp = "none"
  /\ delay = [i \in Inits |-> 0]
  /\ lvPc = [i \in Inits |-> "none"]
  /\ mainPc = "init"
  /\ inits = 0
  /\ panic = FALSE
  /\ overlap = "gone"

(* The panic handler restarts the chip: everything was in RAM. *)
Reboot ==
  /\ panic
  /\ mux' = NULL /\ running' = FALSE /\ maxSleep' = 0 /\ tick' = FALSE
  /\ freed' = FALSE
  /\ owner' = [i \in Inits |-> Nobody]
  /\ runs' = FALSE /\ already' = FALSE
  /\ disp' = "none"
  /\ delay' = [i \in Inits |-> 0]
  /\ lvPc' = [i \in Inits |-> "none"]
  /\ mainPc' = "init"
  /\ inits' = 0
  /\ panic' = FALSE
  /\ overlap' = "gone"

-----------------------------------------------------------------------------
(* lvgl_port_task: task i goes from one place to another, or it hits an    *)
(* assert and stops there.                                                 *)

Goto(i, from, to) ==
  /\ lvPc[i] = from
  /\ lvPc' = [lvPc EXCEPT ![i] = to]
  /\ UNCHANGED <<mainPc, inits, overlap>>

Assert(i, from, condition, to) ==
  /\ Goto(i, from, IF condition THEN to ELSE from)
  /\ panic' = ~condition

(* Mutant of TaskStart: the flag is left to lvgl_port_init. *)
TaskStartQuiet(i) ==
  /\ Goto(i, "start", "loop")
  /\ delay' = [delay EXCEPT ![i] = maxSleep]
  /\ UNCHANGED <<ctx, owner, lvgl, panic>>

TaskStart(i) ==
  /\ Goto(i, "start", "loop")
  /\ running' = TRUE
  /\ delay' = [delay EXCEPT ![i] = maxSleep]
  /\ UNCHANGED <<mux, maxSleep, tick, freed, owner, lvgl, panic>>

TaskLoop(i) ==
  /\ Goto(i, "loop", IF running THEN "lock" ELSE "exit")
  /\ UNCHANGED <<ctx, owner, lvgl, delay, panic>>

(* lvgl_port_lock asserts that there is a mutex ... *)
TaskLock(i) ==
  /\ Assert(i, "lock", mux # NULL, "take")
  /\ UNCHANGED <<ctx, owner, lvgl, delay>>

(* ... and reads the pointer again to take it.  Does a call of FreeRTOS on *)
(* lvgl_mux work?  It asserts that the pointer is not NULL; in freed memory*)
(* it may find the mutex as it was, or fail an assert on what it finds.    *)
(* The latter stands also for a task whose mutex is deleted while it waits.*)
MuxWorks == IF mux = NULL THEN {FALSE} ELSE IF freed THEN BOOLEAN ELSE {TRUE}

TaskTake(i) ==
  \E ok \in MuxWorks :
    /\ Assert(i, "take", ok, "enter")
    /\ IF ok THEN owner[mux] = Nobody /\ owner' = [owner EXCEPT ![mux] = i]
       ELSE UNCHANGED owner
    /\ UNCHANGED <<ctx, lvgl, delay>>

(* lv_timer_handler returns 1 at once when it is already running or when   *)
(* timers are disabled ...                                                 *)
TaskHandlerBusy(i) ==
  /\ already \/ ~runs
  /\ Goto(i, "enter", "unlock")
  /\ delay' = [delay EXCEPT ![i] = 1]
  /\ UNCHANGED <<ctx, owner, lvgl, panic>>

(* ... and otherwise runs all timers that are due, *)
TaskHandlerBegin(i) ==
  /\ ~already /\ runs
  /\ Goto(i, "enter", "handler")
  /\ already' = TRUE
  /\ UNCHANGED <<ctx, owner, runs, disp, delay, panic>>

(* and returns the time until the next one is. *)
TaskHandlerEnd(i) ==
  /\ Goto(i, "handler", "unlock")
  /\ already' = FALSE
  /\ \E d \in Delays \cup {NoTimer} : delay' = [delay EXCEPT ![i] = d]
  /\ UNCHANGED <<ctx, owner, runs, disp, panic>>

(* lvgl_port_unlock; giving a mutex that one does not hold does nothing. *)
TaskUnlock(i) ==
  \E ok \in MuxWorks :
    /\ Assert(i, "unlock", ok, "clamp")
    /\ owner' = [m \in Inits |->
          IF ok /\ m = mux /\ owner[m] = i THEN Nobody ELSE owner[m]]
    /\ UNCHANGED <<ctx, lvgl, delay>>

(* Mutants of SleepMs: no maximum, and the handler's own time taken off. *)
SleepMsNoMaximum(d) == IF d < 1 THEN 1 ELSE d
SleepMsLess(d) == d - 1

(* The clamp before vTaskDelay *)
SleepMs(d) ==
  IF d > maxSleep \/ d = 1 THEN maxSleep
  ELSE IF d < 1 THEN 1 ELSE d

TaskClamp(i) ==
  /\ Goto(i, "clamp", "sleep")
  /\ delay' = [delay EXCEPT ![i] = SleepMs(@)]
  /\ UNCHANGED <<ctx, owner, lvgl, panic>>

(* vTaskDelay ends, if it is not one of 2^32 - 1 ms. *)
TaskWake(i) ==
  /\ delay[i] # NoTimer
  /\ Goto(i, "sleep", "loop")
  /\ UNCHANGED <<ctx, owner, lvgl, delay, panic>>

(* lvgl_port_task_deinit deletes the mutex, and the heap may notice if it  *)
(* was freed before ...                                                    *)
TaskDeinit ==
  /\ freed' = (mux # NULL)
  /\ panic' \in {FALSE, freed}
  /\ UNCHANGED <<mux, running, maxSleep>>

(* ... and then clears the context, the pointer to the mutex with it.  LVGL*)
(* itself stays initialised, as CONFIG_LV_MEM_CUSTOM is set.               *)
ClearCtx ==
  /\ mux' = NULL /\ running' = FALSE /\ maxSleep' = 0 /\ tick' = FALSE
  /\ freed' = FALSE

TaskExit(i) ==
  /\ Goto(i, "exit", "clear")
  /\ TaskDeinit
  /\ UNCHANGED <<tick, owner, lvgl, delay>>

TaskClear(i) ==
  /\ Goto(i, "clear", "dead")
  /\ ClearCtx
  /\ UNCHANGED <<owner, lvgl, delay, panic>>

TaskStep(i) ==
  \/ TaskStart(i) \/ TaskLoop(i) \/ TaskLock(i) \/ TaskTake(i)
  \/ TaskHandlerBusy(i) \/ TaskHandlerBegin(i) \/ TaskHandlerEnd(i) \/ TaskUnlock(i)
  \/ TaskClamp(i) \/ TaskWake(i) \/ TaskExit(i) \/ TaskClear(i)

-----------------------------------------------------------------------------
(* The main task *)

Alive(i) == lvPc[i] \notin {"none", "dead"}
Inside(i) == lvPc[i] \in {"enter", "handler"}

(* lvgl_port_init up to the tick timer, at boot or after lvgl_port_deinit. *)
(* lv_init enables LVGL's timers, but only the first time.  Without a tick *)
(* timer it returns; bsp_lvgl_start ignores the result.                    *)
PortInit ==
  /\ mainPc \in {"init", "off"}
  /\ inits < MaxInits
  /\ inits' = inits + 1
  /\ mux' = NULL /\ running' = FALSE /\ freed' = FALSE
  /\ \/ tick' = TRUE /\ maxSleep' = MaxSleep /\ mainPc' = "create"
     \/ tick' = FALSE /\ maxSleep' = 0 /\ mainPc' = "adddisp"
  /\ runs' = (runs \/ mainPc = "init")
  /\ overlap' = IF \E i \in Inits : Inside(i) THEN "inside"
                ELSE IF overlap = "gone" /\ \E i \in Inits : Alive(i) THEN "alive"
                ELSE overlap
  /\ UNCHANGED <<owner, already, disp, delay, lvPc, panic>>

(* The rest of it: the mutex and the task.  When one of them cannot be made*)
(* lvgl_port_deinit is called, which leaves the mutex if nothing runs.     *)
PortCreate ==
  /\ mainPc = "create"
  /\ \/ /\ mux' = inits /\ freed' = FALSE
        /\ lvPc' = [lvPc EXCEPT ![inits] = "start"]
        /\ mainPc' = "adddisp"
        /\ UNCHANGED tick
     \/ /\ mux' \in {NULL, inits} /\ freed' = (running /\ mux' # NULL)
        /\ tick' = FALSE
        /\ mainPc' = IF running THEN "undo" ELSE "adddisp"
        /\ UNCHANGED lvPc
  /\ UNCHANGED <<running, maxSleep, owner, lvgl, delay, inits, panic, overlap>>

(* Mutant of Enter: a failed take of the mutex is not noticed. *)
EnterUnchecked(from, to) ==
  /\ mainPc = from
  /\ mainPc' = to
  /\ owner' = [m \in Inits |->
        IF Locked /\ m = mux /\ owner[m] = Nobody THEN Main ELSE owner[m]]
  /\ UNCHANGED panic

(* Enter LVGL: directly, as the firmware does, or through lvgl_port_lock,  *)
(* which asserts that there is a mutex.                                    *)
Enter(from, to) ==
  /\ mainPc = from
  /\ \E ok \in IF Locked THEN MuxWorks ELSE {TRUE} :
       /\ panic' = ~ok
       /\ mainPc' = IF ok THEN to ELSE from
       /\ IF Locked /\ ok
          THEN owner[mux] = Nobody /\ owner' = [owner EXCEPT ![mux] = Main]
          ELSE UNCHANGED owner

(* Mutant of Leave: return without lvgl_port_unlock. *)
LeaveLocked(from, to) ==
  /\ mainPc = from
  /\ mainPc' = to
  /\ UNCHANGED <<owner, panic>>

(* Leave it again; lvgl_port_unlock asserts, too. *)
Leave(from, to) ==
  /\ mainPc = from
  /\ \E ok \in IF Locked THEN MuxWorks ELSE {TRUE} :
       /\ panic' = ~ok
       /\ mainPc' = IF ok THEN to ELSE from
       /\ owner' = [m \in Inits |->
             IF Locked /\ ok /\ m = mux /\ owner[m] = Main THEN Nobody ELSE owner[m]]

(* lvgl_port_add_disp -> lv_disp_drv_register: the refresh timer is created*)
(* first, the screens it refreshes come after.                             *)
AddDispBegin ==
  /\ Enter("adddisp", "screens")
  /\ disp' = IF panic' THEN disp ELSE "partial"
  /\ UNCHANGED <<ctx, runs, already, delay, lvPc, inits, overlap>>

(* No memory: it returns NULL, and lvgl_port_add_touch asserts a display. *)
AddDispNoMem ==
  /\ mainPc = "adddisp"
  /\ panic' = TRUE
  /\ UNCHANGED <<ctx, owner, lvgl, delay, lvPc, mainPc, inits, overlap>>

AddDispEnd ==
  /\ Leave("screens", "app")
  /\ disp' = "ready"
  /\ UNCHANGED <<ctx, runs, already, delay, lvPc, inits, overlap>>

(* Any later LVGL call, such as lv_demo_benchmark. *)
CallBegin ==
  /\ Enter("app", "call")
  /\ UNCHANGED <<ctx, lvgl, delay, lvPc, inits, overlap>>

CallEnd ==
  /\ Leave("call", "app")
  /\ UNCHANGED <<ctx, lvgl, delay, lvPc, inits, overlap>>

(* lvgl_port_stop and lvgl_port_resume *)
SetRuns(on) ==
  /\ mainPc = "app"
  /\ tick
  /\ runs' = on
  /\ UNCHANGED <<ctx, owner, already, disp, delay, lvPc, mainPc, inits, panic, overlap>>

Stop == SetRuns(FALSE)
Resume == SetRuns(TRUE)

(* lvgl_port_deinit, after which the main task leaves LVGL alone: only a   *)
(* task that runs is taken down, and that by the main task.                *)
Deinit ==
  /\ MayDeinit
  /\ mainPc = "app"
  /\ tick' = FALSE
  /\ IF running THEN mainPc' = "deinit" /\ TaskDeinit
     ELSE mainPc' = "off" /\ UNCHANGED <<mux, running, maxSleep, freed, panic>>
  /\ UNCHANGED <<owner, lvgl, delay, lvPc, inits, overlap>>

(* Its second half, also when lvgl_port_init has called it *)
DeinitClear ==
  /\ mainPc \in {"deinit", "undo"}
  /\ mainPc' = IF mainPc = "deinit" THEN "off" ELSE "adddisp"
  /\ ClearCtx
  /\ UNCHANGED <<owner, lvgl, delay, lvPc, inits, panic, overlap>>

MainStep ==
  \/ PortInit \/ PortCreate \/ AddDispBegin \/ AddDispNoMem \/ AddDispEnd
  \/ CallBegin \/ CallEnd \/ Stop \/ Resume \/ Deinit \/ DeinitClear

-----------------------------------------------------------------------------
Next ==
  \/ ~panic /\ (MainStep \/ \E i \in Inits : TaskStep(i))
  \/ Reboot

(* All tasks are scheduled, LVGL calls return, and a panic reboots.  The   *)
(* LVGL task has priority 4 and the main task 1: whoever gives the mutex   *)
(* back is preempted by an LVGL task that waits for it, so a main task that*)
(* takes it again and again does not shut the LVGL task out.               *)
Fairness ==
  /\ \A i \in Inits : WF_vars(~panic /\ TaskStep(i)) /\ SF_vars(~panic /\ TaskTake(i))
  /\ WF_vars(~panic /\ (AddDispEnd \/ CallEnd \/ DeinitClear))
  /\ WF_vars(Reboot)

Spec == Init /\ [][Next]_vars /\ Fairness

-----------------------------------------------------------------------------
InLvgl == {"screens", "call"}

(* Two tasks are never inside LVGL at once: "Every LVGL calls must be      *)
(* protected with these lock/unlock commands" (esp_lvgl_port README.md:209)*)
(* In particular lv_timer_handler never refreshes a display whose refresh  *)
(* timer exists but whose screens do not (lv_hal_disp.c:195 and 224): it   *)
(* would lay out a NULL screen.  This survives a lvgl_port_init that comes *)
(* before the old task has ended, unless the old task is inside LVGL at    *)
(* that moment: then it holds a mutex that no one else looks at any more.  *)
OneTaskInLvgl ==
  overlap # "inside" =>
    \A i \in Inits : lvPc[i] = "handler" =>
      /\ mainPc \notin InLvgl /\ disp # "partial"
      /\ \A j \in Inits \ {i} : lvPc[j] # "handler"

(* The mutex of the port is held exactly while its holder is between lock  *)
(* and unlock.  An old task that outlives a new lvgl_port_init never gives *)
(* the new mutex away under its holder.                                    *)
LockBalanced ==
  mux # NULL =>
    /\ owner[mux] = Main <=> Locked /\ mainPc \in InLvgl
    /\ \A i \in Inits : owner[mux] = i => Inside(i) \/ lvPc[i] = "unlock"
    /\ \A i \in Inits : Inside(i) /\ overlap # "inside" => owner[mux] = i

(* lvgl_port_deinit "deinitializes LVGL and stops the task if running. Some*)
(* deinitialization will be done after the task will be stopped"           *)
(* (esp_lvgl_port.h:162): a task that had started and was told to stop ends*)
(* by itself, whatever it was doing, without taking the chip down with it. *)
DeinitStopsTask ==
  \A i \in Inits :
    (mainPc = "off" /\ ~running /\ Alive(i) /\ lvPc[i] # "start") ~> lvPc[i] = "dead"

(* As long as its task is there LVGL is served: whatever lv_timer_handler  *)
(* asks for, however often the main task takes the lock, and after a       *)
(* restart of the port too, the task gets into lv_timer_handler again.     *)
Served == \A i \in Inits : Alive(i) ~> (Inside(i) \/ ~Alive(i) \/ panic)

(* A port that came up stays up until lvgl_port_deinit is called, restarted*)
(* or not, if the old task was gone when lvgl_port_init was called again.  *)
(* An old task that is still alive may take the new one down with it.      *)
StaysUp ==
  overlap = "gone" /\ mainPc \in {"adddisp", "screens", "app", "call"} =>
    lvPc[inits] \notin {"exit", "clear", "dead"}
=============================================================================
