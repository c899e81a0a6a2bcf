-------------------------- MODULE KernelLoop_proofs --------------------------
(***************************************************************************)
(* The safety properties of KernelLoop.  Its state is finite and has no    *)
(* parameter, so the proof adds to TLC's run the reason: an invariant that *)
(* says of each place in the loop what the query and the window are.       *)
(***************************************************************************)
EXTENDS KernelLoop, TLAPS

InLoop == pc \in {"top", "messages", "timers", "after", "poll"}
Unread == {"pending", "available"}

(* where the query is, at each place of the loop *)
QueryOK ==
  /\ pc \in {"init", "failed"} => query = "unused"
  /\ pc = "init" => test_gpu_time
  /\ window = "open" /\ pc = "top" =>
       query \in IF test_gpu_time THEN {"unused", "read"} ELSE Unread
  /\ window = "open" /\ InTurn =>
       query \in IF test_gpu_time THEN {"active"} ELSE Unread
  /\ window = "open" /\ pc = "poll" => query \in Unread
  /\ pc \in {"cleanup", "exit", "end"} => query = "deleted"

(* the window outlives running, and the kernel the loop *)
LifeOK ==
  /\ pc \in {"messages", "timers"} => window = "open"
  /\ pc = "init" => window = "open"
  /\ InLoop /\ running => window = "open"
  /\ InLoop => singleton = "first" /\ scene
  /\ pc \in {"init", "failed"} => singleton = "first"
  /\ pc \in {"cleanup", "exit"} => singleton = "none"
  /\ pc \in {"exit", "end"} => ~scene
  /\ pc # "aborted"

IInv == TypeOK /\ QueryOK /\ LifeOK

LEMMA InitIInv == Init => IInv
  BY DEF Init, IInv, TypeOK, QueryOK, LifeOK, InLoop, InTurn, Unread

LEMMA UserKeeps ==
  ASSUME IInv, User
  PROVE  IInv'
  <1> USE DEF IInv, TypeOK, QueryOK, LifeOK, InLoop, InTurn, Unread, Message,
              loopVars, timerVars, kernelVars, glutVars
  <1>1. CASE Escape
    BY <1>1 DEF Escape
  <1>2. CASE Resize
    BY <1>2 DEF Resize
  <1>3. CASE Minimise
    BY <1>3 DEF Minimise
  <1>4. CASE Show
    BY <1>4 DEF Show
  <1>5. CASE Paint
    BY <1>5 DEF Paint, Redraw
  <1>6. CASE CloseWindow
    BY <1>6 DEF CloseWindow
  <1> QED BY <1>1, <1>2, <1>3, <1>4, <1>5, <1>6 DEF User

LEMMA TurnKeeps ==
  ASSUME IInv,
         \/ BeginTurn \/ CheckTimers \/ Display \/ NothingToDisplay
         \/ EndTurn \/ Poll \/ GpuDone
  PROVE  IInv'
  <1> USE DEF IInv, TypeOK, QueryOK, LifeOK, InLoop, InTurn, Unread, Message,
              loopVars, timerVars, kernelVars, glutVars
  <1>1. CASE BeginTurn
    BY <1>1 DEF BeginTurn, Query_Begun
  <1>2. CASE CheckTimers
    BY <1>2 DEF CheckTimers
  <1>3. CASE Display
    BY <1>3 DEF Display, Redraw
  <1>4. CASE NothingToDisplay
    BY <1>4 DEF NothingToDisplay
  <1>5. CASE EndTurn
    BY <1>5 DEF EndTurn, Query_Ended, Posted
  <1>6. CASE Poll
    BY <1>6 DEF Poll
  <1>7. CASE GpuDone
    BY <1>7 DEF GpuDone
  <1> QED BY <1>1, <1>2, <1>3, <1>4, <1>5, <1>6, <1>7

LEMMA EndsKeep ==
  ASSUME IInv, Start \/ InitFails \/ LeaveLoop \/ Cleanup \/ GlutExit
  PROVE  IInv'
  <1> USE DEF IInv, TypeOK, QueryOK, LifeOK, InLoop, InTurn, Unread,
              loopVars, timerVars, kernelVars, glutVars
  <1>1. CASE Start
    BY <1>1 DEF Start
  <1>2. CASE InitFails
    BY <1>2 DEF InitFails
  <1>3. CASE LeaveLoop
    BY <1>3 DEF LeaveLoop
  <1>4. CASE Cleanup
    BY <1>4 DEF Cleanup
  <1>5. CASE GlutExit
    BY <1>5 DEF GlutExit
  <1> QED BY <1>1, <1>2, <1>3, <1>4, <1>5

LEMMA NextIInv == IInv /\ [Next]_vars => IInv'
  <1> SUFFICES ASSUME IInv, [Next]_vars PROVE IInv'
    OBVIOUS
  <1>1. CASE UNCHANGED vars
    BY <1>1 DEF vars, loopVars, timerVars, kernelVars, glutVars,
                IInv, TypeOK, QueryOK, LifeOK, InLoop, InTurn, Unread
  <1> QED BY <1>1, UserKeeps, TurnKeeps, EndsKeep DEF Next, Main

(* What the query and the window are at each place of the loop *)
THEOREM LoopInvariant == Spec => []IInv
  BY InitIInv, NextIInv, PTL DEF Spec

(* The GPU timer's query is never begun or polled while it is active, nor  *)
(* ended while it is not.                                                  *)
THEOREM QueryProtocol == Spec => []QueryFollowsTurns
  <1>1. IInv => QueryFollowsTurns
    <2> SUFFICES ASSUME IInv, window = "open", pc \notin {"init", "failed"}
                 PROVE  query = "active" <=> InTurn /\ test_gpu_time
      BY DEF QueryFollowsTurns
    <2>1. CASE InTurn /\ test_gpu_time
      BY <2>1 DEF IInv, QueryOK
    <2>2. CASE InTurn /\ ~test_gpu_time
      BY <2>2 DEF IInv, QueryOK, Unread
    <2>3. CASE pc \in {"top", "poll"}
      BY <2>3 DEF IInv, QueryOK, InTurn, Unread
    <2>4. CASE pc \in {"cleanup", "exit", "end"}
      BY <2>4 DEF IInv, QueryOK, InTurn
    <2> QED BY <2>1, <2>2, <2>3, <2>4 DEF IInv, TypeOK, LifeOK, InTurn
  <1> QED BY <1>1, LoopInvariant, PTL

(* glutPostRedisplay never ends the program for want of a window. *)
THEOREM NoAbort == Spec => []NeverAborts
  <1>1. IInv => NeverAborts
    BY DEF IInv, LifeOK, InLoop, InTurn, NeverAborts
  <1> QED BY <1>1, LoopInvariant, PTL

(* A measure is read before the next one begins. *)
THEOREM MeasuresRead == Spec => EveryMeasureRead
  <1>1. IInv /\ [Next]_vars =>
          [query # "active" /\ query' = "active" => query \in {"unused", "read"}]_vars
    <2> SUFFICES ASSUME IInv, Next, query # "active", query' = "active"
                 PROVE  query \in {"unused", "read"}
      BY DEF vars
    <2>1. BeginTurn
      BY DEF Next, User, Main, Escape, Resize, Minimise, Show, Paint, CloseWindow,
             Start, InitFails, CheckTimers, Display, NothingToDisplay, EndTurn, Poll,
             GpuDone, LeaveLoop, Cleanup, GlutExit, Query_Ended,
             timerVars, loopVars, kernelVars, glutVars
    <2> QED BY <2>1 DEF IInv, QueryOK, LifeOK, InLoop, BeginTurn, Query_Begun
  <1> QED BY <1>1, LoopInvariant, PTL DEF Spec, EveryMeasureRead

(* Callbacks during a turn reach the kernel main runs, with its scene. *)
THEOREM CallbacksReach == Spec => []CallbacksReachKernel
  <1>1. IInv => CallbacksReachKernel
    BY DEF IInv, TypeOK, LifeOK, InLoop, InTurn, CallbacksReachKernel
  <1> QED BY <1>1, LoopInvariant, PTL
=============================================================================
