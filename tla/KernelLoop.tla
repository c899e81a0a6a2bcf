----------------------------- MODULE KernelLoop -----------------------------
(***************************************************************************)
(* main() from Kernel::init to glutExit: the loop of Kernel::run, the GPU  *)
(* timer query it keeps around every turn it can, the callbacks GLUT makes *)
(* from glutMainLoopEvent, and the ends of the program.                    *)
(*                                                                         *)
(* A turn is one glutMainLoopEvent: it handles the messages of the window  *)
(* in any order and number, then the timers that are due, and displays the *)
(* window if it has to be.  The GPU finishes a query in its own time.      *)
(* GLUT is the freeglut in depends/, on Windows.  A frame is one step      *)
(* here, its inside is FramePipeline; keys other than escape, the mouse    *)
(* and the timer are in InputLoop.                                         *)
(***************************************************************************)

VARIABLES
  pc,             \* where main is
  running,        \* Kernel::running
  test_gpu_time,  \* of Kernel::run
  query,          \* the timer's query object
  singleton,      \* Kernel::singleton: none, main's kernel, or a second one
  scene,          \* the GL objects of the kernel's scene exist
  window,         \* the window and its GL context are "open" or "gone"
  visible, redisplay, needResize  \* State of the window, in freeglut

loopVars   == <<pc, running>>
timerVars  == <<test_gpu_time, query>>
kernelVars == <<singleton, scene>>
glutVars   == <<window, visible, redisplay, needResize>>
vars == <<loopVars, timerVars, kernelVars, glutVars>>

(* GL calls without a context change nothing *)
Query_Begun == IF window = "open" THEN "active" ELSE query
Query_Ended == IF window = "open" THEN "pending" ELSE query

(* The window exists and main has its kernel *)
Init ==
  /\ pc = "init" /\ running \in BOOLEAN   \* not initialised
  /\ test_gpu_time = TRUE /\ query = "unused"
  /\ singleton = "first" /\ scene = FALSE
  /\ window = "open" /\ visible = TRUE /\ redisplay = TRUE /\ needResize = TRUE

(* Kernel::init, and the start of run with a new GPUTimer *)
Start ==
  /\ pc = "init"
  /\ scene' = TRUE /\ running' = TRUE
  /\ pc' = "top"
  /\ UNCHANGED <<timerVars, singleton, glutVars>>

(* an exception of Kernel::init: main returns -1 *)
InitFails ==
  /\ pc = "init"
  /\ pc' = "failed"
  /\ UNCHANGED <<running, timerVars, kernelVars, glutVars>>

-----------------------------------------------------------------------------
(* One turn of the loop *)

(* fault: a query is begun in every turn *)
BeginTurn_AlwaysTimed ==
  /\ pc = "top" /\ running
  /\ query' = Query_Begun
  /\ pc' = "messages"
  /\ UNCHANGED <<running, test_gpu_time, kernelVars, glutVars>>
BeginTurn ==
  /\ pc = "top" /\ running
  /\ query' = IF test_gpu_time THEN Query_Begun ELSE query
  /\ pc' = "messages"
  /\ UNCHANGED <<running, test_gpu_time, kernelVars, glutVars>>

Message == pc = "messages" /\ window = "open"

Escape ==
  /\ Message
  /\ running' = FALSE
  /\ UNCHANGED <<pc, timerVars, kernelVars, glutVars>>

(* WM_SIZE; a minimised window ignores it *)
Resize ==
  /\ Message /\ visible
  /\ needResize' = TRUE
  /\ UNCHANGED <<loopVars, timerVars, kernelVars, window, visible, redisplay>>

Minimise ==
  /\ Message
  /\ visible' = FALSE
  /\ UNCHANGED <<loopVars, timerVars, kernelVars, window, redisplay, needResize>>

Show ==
  /\ Message
  /\ visible' = TRUE /\ redisplay' = TRUE
  /\ UNCHANGED <<loopVars, timerVars, kernelVars, window, needResize>>

(* fghRedrawWindow: reshape() if the size changed, which asks for another  *)
(* frame, then display()                                                   *)
Redraw ==
  /\ visible' = TRUE
  /\ redisplay' = needResize
  /\ needResize' = FALSE

(* WM_PAINT; the frame of WM_CAPTURECHANGED leaves all this as it is *)
Paint ==
  /\ Message
  /\ Redraw
  /\ UNCHANGED <<loopVars, timerVars, kernelVars, window>>

(* fault: closing the window does not reach the kernel *)
CloseWindow_Unheard ==
  /\ Message
  /\ window' = "gone"
  /\ pc' = "after"
  /\ UNCHANGED <<running, timerVars, kernelVars, visible, redisplay, needResize>>
(* The close callback, then the window and its context are destroyed and   *)
(* the quit message ends glutMainLoopEvent before anything is displayed.   *)
CloseWindow ==
  /\ Message
  /\ running' = FALSE
  /\ window' = "gone"
  /\ pc' = "after"
  /\ UNCHANGED <<timerVars, kernelVars, visible, redisplay, needResize>>

(* no message is left: fghCheckTimers *)
CheckTimers ==
  /\ Message
  /\ pc' = "timers"
  /\ UNCHANGED <<running, timerVars, kernelVars, glutVars>>

(* the end of glutMainLoopEvent: fghDisplayAll *)
Display ==
  /\ pc = "timers" /\ redisplay /\ visible
  /\ Redraw
  /\ pc' = "after"
  /\ UNCHANGED <<running, timerVars, kernelVars, window>>

NothingToDisplay ==
  /\ pc = "timers" /\ ~(redisplay /\ visible)
  /\ pc' = "after"
  /\ UNCHANGED <<running, timerVars, kernelVars, glutVars>>

(* where main goes: glutPostRedisplay, called while running, ends the       *)
(* program when there is no window                                         *)
Posted == IF running /\ window = "gone" THEN "aborted" ELSE "poll"

(* fault: the last turn's query is not ended *)
EndTurn_WhileRunning ==
  /\ pc = "after"
  /\ redisplay' = (redisplay \/ running)
  /\ query' = IF test_gpu_time /\ running THEN Query_Ended ELSE query
  /\ pc' = Posted
  /\ UNCHANGED <<running, test_gpu_time, kernelVars, window, visible, needResize>>
(* fault: the next frame is not asked for *)
EndTurn_NotPosted ==
  /\ pc = "after"
  /\ query' = IF test_gpu_time THEN Query_Ended ELSE query
  /\ pc' = "poll"
  /\ UNCHANGED <<running, test_gpu_time, kernelVars, glutVars>>
(* the rest of the loop body, glutPostRedisplay while running, and the end *)
(* of the query                                                            *)
EndTurn ==
  /\ pc = "after"
  /\ redisplay' = (redisplay \/ running)
  /\ query' = IF test_gpu_time THEN Query_Ended ELSE query
  /\ pc' = Posted
  /\ UNCHANGED <<running, test_gpu_time, kernelVars, window, visible, needResize>>

(* fault: testing goes on without a result *)
Poll_KeepsTesting ==
  /\ pc = "poll"
  /\ query' = IF query = "available" /\ window = "open" THEN "read" ELSE query
  /\ test_gpu_time' = TRUE
  /\ pc' = "top"
  /\ UNCHANGED <<running, kernelVars, glutVars>>
(* fault: the loop waits for the result *)
Poll_Waits ==
  /\ pc = "poll" /\ query = "available" /\ window = "open"
  /\ query' = "read" /\ test_gpu_time' = TRUE
  /\ pc' = "top"
  /\ UNCHANGED <<running, kernelVars, glutVars>>
(* fault: testing is not resumed *)
Poll_Once ==
  /\ pc = "poll"
  /\ query' = IF query = "available" /\ window = "open" THEN "read" ELSE query
  /\ test_gpu_time' = FALSE
  /\ pc' = "top"
  /\ UNCHANGED <<running, kernelVars, glutVars>>
(* isResultAvailable, and getTimeElapsed if it is *)
Poll ==
  LET ready == query = "available" /\ window = "open" IN
  /\ pc = "poll"
  /\ query' = IF ready THEN "read" ELSE query
  /\ test_gpu_time' = ready
  /\ pc' = "top"
  /\ UNCHANGED <<running, kernelVars, glutVars>>

(* the GPU has executed the commands between begin and end *)
GpuDone ==
  /\ query = "pending" /\ window = "open"
  /\ query' = "available"
  /\ UNCHANGED <<loopVars, test_gpu_time, kernelVars, glutVars>>

-----------------------------------------------------------------------------
(* The end: Shutdown and ~GPUTimer, kernel.reset(), glutExit *)

LeaveLoop ==
  /\ pc = "top" /\ ~running
  /\ singleton' = "none" /\ query' = "deleted"
  /\ pc' = "cleanup"
  /\ UNCHANGED <<running, test_gpu_time, scene, glutVars>>

Cleanup ==
  /\ pc = "cleanup"
  /\ scene' = FALSE
  /\ pc' = "exit"
  /\ UNCHANGED <<running, timerVars, singleton, glutVars>>

(* a window still open is destroyed with its context; its close callback   *)
(* asks for the singleton, and a second kernel is made                     *)
GlutExit ==
  /\ pc = "exit"
  /\ window' = "gone"
  /\ singleton' = IF window = "open" THEN "second" ELSE singleton
  /\ pc' = "end"
  /\ UNCHANGED <<running, timerVars, scene, visible, redisplay, needResize>>

User == Escape \/ Resize \/ Minimise \/ Show \/ Paint \/ CloseWindow

Main ==
  \/ Start \/ InitFails
  \/ BeginTurn \/ CheckTimers \/ Display \/ NothingToDisplay \/ EndTurn \/ Poll
  \/ LeaveLoop \/ Cleanup \/ GlutExit

Next == User \/ Main \/ GpuDone

(* main's thread goes on whenever it can - the messages of one turn are    *)
(* finitely many - and the GPU finishes what it was given; the user need   *)
(* not do anything.                                                        *)
Spec == Init /\ [][Next]_vars /\ WF_vars(Main) /\ WF_vars(GpuDone)

-----------------------------------------------------------------------------
(* Properties *)

InTurn == pc \in {"messages", "timers", "after"}

TypeOK ==
  /\ pc \in {"init", "top", "messages", "timers", "after", "poll", "cleanup", "exit",
            "end", "failed", "aborted"}
  /\ running \in BOOLEAN /\ test_gpu_time \in BOOLEAN
  /\ query \in {"unused", "active", "pending", "available", "read", "deleted"}
  /\ singleton \in {"none", "first", "second"} /\ scene \in BOOLEAN
  /\ window \in {"open", "gone"}
  /\ visible \in BOOLEAN /\ redisplay \in BOOLEAN /\ needResize \in BOOLEAN

(* The query follows GL's protocol: while there is a context it is active  *)
(* within the turns that test_gpu_time announces and in no other state, so *)
(* that it is never begun or polled while active nor ended while not.      *)
QueryFollowsTurns ==
  window = "open" /\ pc \notin {"init", "failed"} =>
    (query = "active" <=> InTurn /\ test_gpu_time)

(* A measure that was begun is printed before the next one is begun,       *)
(* however many turns its result takes.                                    *)
EveryMeasureRead ==
  [][query # "active" /\ query' = "active" => query \in {"unused", "read"}]_vars

(* While the loop runs there is a window: glutPostRedisplay, which ends    *)
(* the program when there is none, is called only while running is set.    *)
NeverAborts == (InTurn /\ running => window = "open") /\ pc # "aborted"

(* Whatever calls back during a turn - keys, the timer's update, display,  *)
(* reshape and the closing window - reaches main's kernel with its scene:  *)
(* getSingleton makes no other one before that kernel is destroyed.        *)
CallbacksReachKernel ==
  /\ InTurn => singleton = "first" /\ scene
  /\ singleton = "second" => ~scene

(* Escape or a closed window ends the program. *)
ExitEndsProgram == [](pc = "messages" /\ ~running => <>(pc = "end"))

(* Until then the timer goes on measuring ... *)
MeasuringGoesOn == []<>(query = "active") \/ <>(pc \in {"failed", "end"})

(* ... and frames are displayed, unless the window is minimised again and  *)
(* again: what FramePipeline assumes of its frames.                        *)
FramesGoOn == []<><<Display \/ Paint>>_vars \/ []<>~visible \/ <>(pc \in {"failed", "end"})

(* "CLEAN UP", then "DESTROY GL CONTEXT AND GLUT WINDOW" (main.cpp): the   *)
(* context outlives what the kernel made in it.  It does not when the      *)
(* window is closed by the user.                                           *)
CleanUpBeforeContext == window = "gone" => ~scene
=============================================================================
