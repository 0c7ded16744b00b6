--------------------------- MODULE LifecycleProofs ---------------------------
(***************************************************************************)
(* How a process can end, for any number of signals and any faults: type   *)
(* correctness, what an abort is owed to, and what main has done when it   *)
(* returns.                                                                *)
(***************************************************************************)
EXTENDS Lifecycle, TLAPS

-----------------------------------------------------------------------------
(* Type correctness *)

LEMMA InitTypeOK == Init => TypeOK
<1> SUFFICES ASSUME Init PROVE TypeOK
  OBVIOUS
<1>1. mode \in [Threads -> {"code", "handler", "exit"}]
  BY DEF Init
<1>2. bProcessRun \in BOOLEAN /\ trailer \in BOOLEAN
  BY Zenon DEF Init
<1>3. cancelPending \in BOOLEAN /\ inputEnded \in BOOLEAN
  BY Zenon DEF Init
<1> QED
  BY <1>1, <1>2, <1>3 DEF Init, TypeOK

LEMMA MainTypeOK == TypeOK /\ Main => TypeOK'
<1> SUFFICES ASSUME TypeOK, Main PROVE TypeOK'
  OBVIOUS
<1> USE DEF TypeOK, Threads, objects, process
<1>1. CASE ParseArguments
  BY <1>1 DEF ParseArguments, Return
<1>2. CASE Spawn
  BY <1>2 DEF Spawn
<1>3. CASE MakeHandles
  BY <1>3 DEF MakeHandles
<1>4. CASE OpenBegins
  BY <1>4 DEF OpenBegins
<1>5. CASE OpenInterrupted
  BY <1>5 DEF OpenInterrupted, OpenAborts, Abort
<1>6. CASE LoopEnds
  BY <1>6 DEF LoopEnds
<1>7. CASE Cancel
  BY <1>7 DEF Cancel
<1>8. CASE CloseIn
  BY <1>8 DEF CloseIn, Dropped
<1>9. CASE CloseOut
  <2>1. trailer' \in BOOLEAN
    BY <1>9, Zenon DEF CloseOut
  <2> QED
    BY <1>9, <2>1 DEF CloseOut, Dropped
<1>10. CASE DeleteResource
  BY <1>10 DEF DeleteResource
<1>11. CASE ReturnZero
  BY <1>11 DEF ReturnZero, Return
<1> QED
  BY <1>1, <1>2, <1>3, <1>4, <1>5, <1>6, <1>7, <1>8, <1>9, <1>10, <1>11 DEF Main

LEMMA ThreadTypeOK ==
  ASSUME TypeOK, NEW t \in Threads, Signal(t) \/ Leave(t)
  PROVE  TypeOK'
<1> USE DEF TypeOK, objects, process
<1>1. CASE Signal(t)
  <2>1. mode' \in [Threads -> {"code", "handler", "exit"}]
    BY <1>1 DEF Signal
  <2>2. bProcessRun' \in BOOLEAN
    BY <1>1, Zenon DEF Signal
  <2> QED
    BY <1>1, <2>1, <2>2 DEF Signal
<1>2. CASE HandlerExits(t)
  BY <1>2 DEF HandlerExits
<1>3. CASE DestroyOutput(t)
  BY <1>3 DEF DestroyOutput
<1>4. CASE DestroyInput(t)
  BY <1>4 DEF DestroyInput, Abort
<1>5. CASE Exit(t)
  BY <1>5 DEF Exit
<1> QED
  BY <1>1, <1>2, <1>3, <1>4, <1>5 DEF Leave

LEMMA NextTypeOK == TypeOK /\ [Next]_vars => TypeOK'
<1> SUFFICES ASSUME TypeOK, [Next]_vars PROVE TypeOK'
  OBVIOUS
<1>1. CASE Main
  BY <1>1, MainTypeOK
<1>2. ASSUME NEW t \in Threads, Signal(t) \/ Leave(t) PROVE TypeOK'
  BY <1>2, ThreadTypeOK
<1> USE DEF TypeOK, Threads, objects, process
<1>3. CASE OpenDone
  BY <1>3 DEF OpenDone
<1>4. CASE OpenFails
  BY <1>4 DEF OpenFails, OpenAborts, Abort
<1>5. CASE HandleCrash
  BY <1>5 DEF HandleCrash, Abort
<1>6. CASE Server
  BY <1>6 DEF Server, Construct, StartDaemon, Cancelled
<1>7. CASE BindFails
  BY <1>7 DEF BindFails, Abort
<1>8. CASE Request \/ Respond
  BY <1>8 DEF Request, Respond
<1>9. CASE ResourceCrash
  BY <1>9 DEF ResourceCrash, Abort
<1>10. CASE InputEnds
  BY <1>10 DEF InputEnds
<1>11. CASE UNCHANGED vars
  BY <1>11 DEF vars
<1> QED
  BY <1>1, <1>2, <1>3, <1>4, <1>5, <1>6, <1>7, <1>8, <1>9, <1>10, <1>11
     DEF Next, Terminated

(* The variables keep to the values the code can give them.                *)
THEOREM TypeCorrect == Spec => []TypeOK
<1> QED
  BY InitTypeOK, NextTypeOK, PTL DEF Spec

-----------------------------------------------------------------------------
(* The inductive invariant *)

(* Before MakeHandles the handles are null, and after deleteAllHandles     *)
(* null or destroyed under main; the destructors leave a null one so.      *)
HandlesFollowMain ==
  /\ main \in {"parse", "spawn", "make"} => gpIFile = "null" /\ gpOFile = "null"
  /\ main \in {"closeOut", "delete", "return", "returned"} =>
       gpIFile \in {"null", "destroyed"}
  /\ main \in {"delete", "return", "returned"} => gpOFile \in {"null", "destroyed"}

(* The resource is deleted late, and after the trailer, unless the object  *)
(* that writes it was gone.                                                *)
ResourceFollowsMain ==
  /\ gpFileRes = "deleted" =>
       main \in {"return", "returned"} /\ (trailer \/ gpOFile = "destroyed")
  /\ main \in {"delete", "return"} => trailer \/ gpOFile = "destroyed"

(* Only a signal brings a thread other than main, or main before its end,  *)
(* into exit(), and only exit() destroys a handle: while main runs, and    *)
(* once it has returned with one destroyed, that of another thread.        *)
ExitNeedsSignal ==
  /\ signals = 0 =>
       /\ mode["srv"] = "code" /\ mode["mhd"] = "code"
       /\ mode["main"] = IF main = "returned" THEN "exit" ELSE "code"
  /\ gpIFile = "destroyed" \/ gpOFile = "destroyed" =>
       \/ \E t \in Threads \ {"main"} : mode[t] = "exit"
       \/ mode["main"] = "exit" /\ main # "returned"

(* What an abort leaves behind: the process does not move after it.        *)
AbortExplained ==
  /\ proc = "aborted" => why # "none"
  /\ why = "assertInput" => signals > 0
  /\ why = "freedHandle" => signals > 0 /\ \E t \in Threads \ {"main"} : mode[t] = "exit"
  /\ why = "freedResource" => main \in {"return", "returned"}

EndInv ==
  /\ TypeOK
  /\ HandlesFollowMain
  /\ ResourceFollowsMain
  /\ ExitNeedsSignal
  /\ AbortExplained

LEMMA InitEndInv == Init => EndInv
<1> SUFFICES ASSUME Init PROVE EndInv
  OBVIOUS
<1> QED
  BY InitTypeOK DEF Init, EndInv, HandlesFollowMain, ResourceFollowsMain,
     ExitNeedsSignal, AbortExplained, Threads

(* A running process has not aborted yet, so that a step of it need not    *)
(* account for an earlier reason; what the steps do to the modes matters.  *)
LEMMA MainEndInv == EndInv /\ Main => EndInv'
<1> SUFFICES ASSUME EndInv, Main PROVE EndInv'
  OBVIOUS
<1>1. TypeOK'
  BY MainTypeOK DEF EndInv
<1> USE <1>1 DEF EndInv, TypeOK, Threads, objects, process, HandlesFollowMain,
                 ResourceFollowsMain, ExitNeedsSignal, AbortExplained, Runs
<1>2. CASE ParseArguments
  BY <1>2 DEF ParseArguments, Return
<1>3. CASE Spawn
  BY <1>3 DEF Spawn
<1>4. CASE MakeHandles
  BY <1>4 DEF MakeHandles
<1>5. CASE OpenBegins
  BY <1>5 DEF OpenBegins
<1>6. CASE OpenInterrupted
  BY <1>6 DEF OpenInterrupted, OpenAborts, Abort
<1>7. CASE LoopEnds
  BY <1>7 DEF LoopEnds
<1>8. CASE Cancel
  BY <1>8 DEF Cancel
<1>9. CASE CloseIn
  BY <1>9 DEF CloseIn, Dropped
<1>10. CASE CloseOut
  BY <1>10 DEF CloseOut, Dropped
<1>11. CASE DeleteResource
  BY <1>11 DEF DeleteResource
<1>12. CASE ReturnZero
  BY <1>12 DEF ReturnZero, Return
<1> QED
  BY <1>2, <1>3, <1>4, <1>5, <1>6, <1>7, <1>8, <1>9, <1>10, <1>11, <1>12 DEF Main

LEMMA ThreadEndInv ==
  ASSUME EndInv, NEW t \in Threads, Signal(t) \/ Leave(t)
  PROVE  EndInv'
<1>1. TypeOK'
  BY ThreadTypeOK DEF EndInv
<1> USE <1>1 DEF EndInv, TypeOK, Threads, objects, process, HandlesFollowMain,
                 ResourceFollowsMain, ExitNeedsSignal, AbortExplained, Runs
<1>2. CASE Signal(t)
  BY <1>2 DEF Signal
<1>3. CASE HandlerExits(t)
  BY <1>3 DEF HandlerExits
<1>4. CASE DestroyOutput(t)
  BY <1>4 DEF DestroyOutput
<1>5. CASE DestroyInput(t)
  BY <1>5 DEF DestroyInput, Abort
<1>6. CASE Exit(t)
  BY <1>6 DEF Exit
<1> QED
  BY <1>2, <1>3, <1>4, <1>5, <1>6 DEF Leave

LEMMA NextEndInv == EndInv /\ [Next]_vars => EndInv'
<1> SUFFICES ASSUME EndInv, [Next]_vars PROVE EndInv'
  OBVIOUS
<1>1. CASE Main
  BY <1>1, MainEndInv
<1>2. ASSUME NEW t \in Threads, Signal(t) \/ Leave(t) PROVE EndInv'
  BY <1>2, ThreadEndInv
<1>3. TypeOK'
  BY NextTypeOK DEF EndInv
<1> USE <1>3 DEF EndInv, TypeOK, Threads, objects, process, HandlesFollowMain,
                 ResourceFollowsMain, ExitNeedsSignal, AbortExplained, Runs
<1>4. CASE OpenDone
  BY <1>4 DEF OpenDone
<1>5. CASE OpenFails
  BY <1>5 DEF OpenFails, OpenAborts, Abort
<1>6. CASE HandleCrash
  BY <1>6 DEF HandleCrash, Abort
<1>7. CASE Server
  BY <1>7 DEF Server, Construct, StartDaemon, Cancelled
<1>8. CASE BindFails
  BY <1>8 DEF BindFails, Abort
<1>9. CASE Request \/ Respond
  BY <1>9 DEF Request, Respond
<1>10. CASE ResourceCrash
  BY <1>10 DEF ResourceCrash, Abort
<1>11. CASE InputEnds
  BY <1>11 DEF InputEnds
<1>12. CASE UNCHANGED vars
  BY <1>12 DEF vars
<1> QED
  BY <1>1, <1>2, <1>4, <1>5, <1>6, <1>7, <1>8, <1>9, <1>10, <1>11, <1>12
     DEF Next, Terminated

LEMMA EndInvAlways == Spec => []EndInv
<1> QED
  BY InitEndInv, NextEndInv, PTL DEF Spec

(* Without a SIGINT only main's own assertions, the port and a request     *)
(* that meets the deleted resource abort the process; a destroyed handle   *)
(* is used only while another thread is in exit().                         *)
THEOREM AbortsAreExplained == Spec => []AbortCauses
<1>1. EndInv => AbortCauses
  BY DEF EndInv, TypeOK, AbortExplained, AbortCauses
<1> QED
  BY <1>1, EndInvAlways, PTL

(* A handle is destroyed in use only by a SIGINT's exit(); a process that  *)
(* leaves through the end of main has closed both ends and written the     *)
(* trailer, unless such an exit() on another thread overtook main.         *)
THEOREM MainLeavesInOrder == Spec => []ReturnIsOrderly
<1>1. EndInv => ReturnIsOrderly
  BY DEF EndInv, TypeOK, Threads, HandlesFollowMain, ResourceFollowsMain,
     ExitNeedsSignal, ReturnIsOrderly, Destroyed, Overtaken
<1> QED
  BY <1>1, EndInvAlways, PTL
=============================================================================
