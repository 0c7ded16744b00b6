----------------------------- MODULE Lifecycle ------------------------------
(***************************************************************************)
(* How a mediaproc process comes up and goes down: main(), the thread that *)
(* runs the web server, the thread inside the MHD daemon that calls        *)
(* render_GET, and signal_callback_handler, which borrows whichever thread *)
(* SIGINT is delivered to, sleeps a second in it and calls exit(0) from    *)
(* it.  While exit() runs the static destructors the other threads go on.  *)
(*                                                                         *)
(* FileConcatLoop is one place here, left when the input ends or           *)
(* bProcessRun is cleared; Transcode models what happens inside.           *)
(***************************************************************************)
EXTENDS Integers

CONSTANTS
  Faults,       (* which steps may fail                                    *)
  MaxSignals    (* bound: SIGINTs delivered                                *)

ASSUME LifecycleAssumption ==
  /\ Faults \subseteq {"arguments", "open", "bind"}
  /\ MaxSignals \in Nat

VARIABLES
  main,           (* where main() is                                       *)
  srv,            (* where fileserverThread is                             *)
  mhd,            (* where the daemon's thread is                          *)
  mode,           (* per thread: its own code, the handler, or exit()      *)
  bProcessRun,    (* sConfig.bProcessRun                                   *)
  gpIFile,        (* the MediaIn: its m_pFormatContext                     *)
  gpOFile,        (* the MediaOut                                          *)
  trailer,        (* av_write_trailer was called                           *)
  gpFileRes,      (* the FileResponse                                      *)
  cancelPending,  (* pthread_cancel(progPid) was called                    *)
  inputEnded,     (* the source has no more packets                        *)
  atexit,         (* static destructors not yet started                    *)
  signals,        (* SIGINTs delivered                                     *)
  proc,           (* the process: running, exited or aborted               *)
  why             (* what aborted it                                       *)

objects == <<gpIFile, gpOFile, trailer, gpFileRes>>
process == <<atexit, proc, why>>
vars == <<main, srv, mhd, mode, bProcessRun, objects, cancelPending,
          inputEnded, signals, process>>

Threads == {"main", "srv", "mhd"}

(* A signal can be delivered to the threads that exist and are not already *)
(* in the handler, where SIGINT is blocked.                                *)
Alive(t) ==
  CASE t = "main" -> TRUE
    [] t = "srv"  -> srv \notin {"none", "gone"}
    [] t = "mhd"  -> mhd # "none"

(* Thread t executes its own code.                                         *)
Runs(t) == proc = "running" /\ mode[t] = "code"

Abort(reason) == proc' = "aborted" /\ why' = reason /\ UNCHANGED atexit

Init ==
  /\ main = "parse"
  /\ srv = "none"
  /\ mhd = "none"
  /\ mode = [t \in Threads |-> "code"]
  /\ bProcessRun = TRUE
  /\ gpIFile = "null"
  /\ gpOFile = "null"
  /\ trailer = FALSE
  /\ gpFileRes = "live"
  /\ cancelPending = FALSE
  /\ inputEnded = FALSE
  /\ atexit = 2
  /\ signals = 0
  /\ proc = "running"
  /\ why = "none"

-----------------------------------------------------------------------------
(* main() *)

(* Returning from main is a call of exit().                                *)
Return == main' = "returned" /\ mode' = [mode EXCEPT !["main"] = "exit"]

ParseArguments ==
  /\ Runs("main") /\ main = "parse"
  /\ \/ main' = "spawn" /\ UNCHANGED mode
     \/ "arguments" \in Faults /\ Return
  /\ UNCHANGED <<srv, mhd, bProcessRun, objects, cancelPending, inputEnded,
                 signals, process>>

(* The server thread starts before anything is opened.                     *)
Spawn ==
  /\ Runs("main") /\ main = "spawn"
  /\ main' = "make"
  /\ srv' = "construct"
  /\ UNCHANGED <<mhd, mode, bProcessRun, objects, cancelPending, inputEnded,
                 signals, process>>

MakeHandles ==
  /\ Runs("main") /\ main = "make"
  /\ gpIFile' = "made"
  /\ gpOFile' = "made"
  /\ main' = "open"
  /\ UNCHANGED <<srv, mhd, mode, bProcessRun, trailer, gpFileRes,
                 cancelPending, inputEnded, signals, process>>

(* initFormatContext allocates the context and then waits for the peer.    *)
OpenBegins ==
  /\ Runs("main") /\ main = "open"
  /\ gpIFile' = IF gpIFile = "destroyed" THEN "destroyed" ELSE "open"
  /\ main' = "opening"
  /\ UNCHANGED <<srv, mhd, mode, bProcessRun, gpOFile, trailer, gpFileRes,
                 cancelPending, inputEnded, signals, process>>

(* The peer has come, the output is open and CheckConfigs is content.      *)
OpenDone ==
  /\ Runs("main") /\ main = "opening" /\ bProcessRun
  /\ gpOFile' = IF gpOFile = "destroyed" THEN "destroyed" ELSE "open"
  /\ main' = "loop"
  /\ UNCHANGED <<srv, mhd, mode, bProcessRun, gpIFile, trailer, gpFileRes,
                 cancelPending, inputEnded, signals, process>>

OpenAborts ==
  /\ Runs("main") /\ main = "opening"
  /\ Abort("assertOpen")
  /\ UNCHANGED <<main, srv, mhd, mode, bProcessRun, objects, cancelPending,
                 inputEnded, signals>>

(* cbDecodeInterrupt breaks off the wait; main asserts.                    *)
OpenInterrupted == ~bProcessRun /\ OpenAborts

OpenFails == "open" \in Faults /\ OpenAborts

(* Mutant: the loop does not look at GetPacket's result.                   *)
LoopEndsOnStop ==
  /\ Runs("main") /\ main = "loop"
  /\ ~bProcessRun
  /\ main' = "cancel"
  /\ UNCHANGED <<srv, mhd, mode, bProcessRun, objects, cancelPending,
                 inputEnded, signals, process>>

(* FileConcatLoop is left, by a break or by its condition.                 *)
LoopEnds ==
  /\ Runs("main") /\ main = "loop"
  /\ inputEnded \/ ~bProcessRun
  /\ main' = "cancel"
  /\ UNCHANGED <<srv, mhd, mode, bProcessRun, objects, cancelPending,
                 inputEnded, signals, process>>

(* pthread_cancel and no pthread_join.                                     *)
Cancel ==
  /\ Runs("main") /\ main = "cancel"
  /\ cancelPending' = TRUE
  /\ main' = "closeIn"
  /\ UNCHANGED <<srv, mhd, mode, bProcessRun, objects, inputEnded, signals,
                 process>>

(* Mutant: deleteAllHandles forgets the input.                             *)
CloseInKeeps ==
  /\ Runs("main") /\ main = "closeIn"
  /\ main' = "closeOut"
  /\ UNCHANGED <<srv, mhd, mode, bProcessRun, objects, cancelPending,
                 inputEnded, signals, process>>

(* What a handle is once main has assigned nullptr to it.  ~shared_ptr left *)
(* the pointer as it was, so main closes a destroyed object all the same:  *)
(* what it leaves is no closed handle.                                     *)
Dropped(handle) == IF handle = "destroyed" THEN "destroyed" ELSE "null"

(* gpIFile->Close frees the context, and the handle goes.                  *)
CloseIn ==
  /\ Runs("main") /\ main = "closeIn"
  /\ gpIFile' = Dropped(gpIFile)
  /\ main' = "closeOut"
  /\ UNCHANGED <<srv, mhd, mode, bProcessRun, gpOFile, trailer, gpFileRes,
                 cancelPending, inputEnded, signals, process>>

(* Mutant: the MediaOut is dropped without its Close.                      *)
CloseOutDrops ==
  /\ Runs("main") /\ main = "closeOut"
  /\ gpOFile' = Dropped(gpOFile)
  /\ main' = "delete"
  /\ UNCHANGED <<srv, mhd, mode, bProcessRun, gpIFile, trailer, gpFileRes,
                 cancelPending, inputEnded, signals, process>>

(* gpOFile->Close writes the trailer, and the handle goes; of an object    *)
(* that is gone it may write none.                                         *)
CloseOut ==
  /\ Runs("main") /\ main = "closeOut"
  /\ gpOFile' = Dropped(gpOFile)
  /\ trailer' \in IF gpOFile = "destroyed" THEN {FALSE, TRUE} ELSE {TRUE}
  /\ main' = "delete"
  /\ UNCHANGED <<srv, mhd, mode, bProcessRun, gpIFile, gpFileRes,
                 cancelPending, inputEnded, signals, process>>

(* delete gpFileRes: the daemon's thread keeps its copy of the pointer.    *)
DeleteResource ==
  /\ Runs("main") /\ main = "delete"
  /\ gpFileRes' = "deleted"
  /\ main' = "return"
  /\ UNCHANGED <<srv, mhd, mode, bProcessRun, gpIFile, gpOFile, trailer,
                 cancelPending, inputEnded, signals, process>>

ReturnZero ==
  /\ Runs("main") /\ main = "return"
  /\ Return
  /\ UNCHANGED <<srv, mhd, bProcessRun, objects, cancelPending, inputEnded,
                 signals, process>>

(* main works on a handle that exit(), called elsewhere, has destroyed:    *)
(* the alternative to getting away with it.                                *)
HandleCrash ==
  /\ Runs("main")
  /\ \/ main \in {"open", "opening", "loop", "closeIn"}
        /\ gpIFile = "destroyed"
     \/ main \in {"opening", "loop", "closeOut"} /\ gpOFile = "destroyed"
  /\ Abort("freedHandle")
  /\ UNCHANGED <<main, srv, mhd, mode, bProcessRun, objects, cancelPending,
                 inputEnded, signals>>

-----------------------------------------------------------------------------
(* fileserverThread *)

Construct ==
  /\ Runs("srv") /\ srv = "construct"
  /\ srv' = "start"
  /\ UNCHANGED <<main, mhd, mode, bProcessRun, objects, cancelPending,
                 inputEnded, signals, process>>

(* webserver::start(true): the daemon's thread is up and this one waits    *)
(* for mutexcond, which only stop() signals.                               *)
StartDaemon ==
  /\ Runs("srv") /\ srv = "start"
  /\ srv' = "wait"
  /\ mhd' = "idle"
  /\ UNCHANGED <<main, mode, bProcessRun, objects, cancelPending, inputEnded,
                 signals, process>>

(* MHD_start_daemon returns NULL; nothing catches the exception.           *)
BindFails ==
  /\ Runs("srv") /\ srv = "start"
  /\ "bind" \in Faults
  /\ Abort("bind")
  /\ UNCHANGED <<main, srv, mhd, mode, bProcessRun, objects, cancelPending,
                 inputEnded, signals>>

(* The cancellation is acted upon, in the thread's own code or in the      *)
(* handler's sleep.  Before the daemon is up the destructor's stop() finds *)
(* nothing to do.  In pthread_cond_wait the mutex is taken again first, so *)
(* that stop() waits for mutexwait, which its own thread holds.            *)
Cancelled ==
  /\ proc = "running"
  /\ cancelPending
  /\ mode["srv"] \in {"code", "handler"}
  /\ \/ srv \in {"construct", "start"} /\ srv' = "gone"
     \/ srv = "wait" /\ srv' = "stuck"
  /\ mode' = [mode EXCEPT !["srv"] = "code"]
  /\ UNCHANGED <<main, mhd, bProcessRun, objects, cancelPending, inputEnded,
                 signals, process>>

-----------------------------------------------------------------------------
(* The daemon's thread *)

Request ==
  /\ Runs("mhd") /\ mhd = "idle"
  /\ mhd' = "render"
  /\ UNCHANGED <<main, srv, mode, bProcessRun, objects, cancelPending,
                 inputEnded, signals, process>>

Respond ==
  /\ Runs("mhd") /\ mhd = "render"
  /\ mhd' = "idle"
  /\ UNCHANGED <<main, srv, mode, bProcessRun, objects, cancelPending,
                 inputEnded, signals, process>>

(* render_GET of a deleted FileResponse, when it does not go unnoticed.    *)
ResourceCrash ==
  /\ Runs("mhd") /\ mhd = "render"
  /\ gpFileRes = "deleted"
  /\ Abort("freedResource")
  /\ UNCHANGED <<main, srv, mhd, mode, bProcessRun, objects, cancelPending,
                 inputEnded, signals>>

-----------------------------------------------------------------------------
(* SIGINT and exit() *)

Signal(t) ==
  /\ Runs(t) /\ Alive(t)
  /\ signals < MaxSignals
  /\ signals' = signals + 1
  /\ mode' = [mode EXCEPT ![t] = "handler"]
  /\ bProcessRun' = FALSE
  /\ UNCHANGED <<main, srv, mhd, objects, cancelPending, inputEnded, process>>

(* Mutant: the handler waits for main to finish, in main's thread as well. *)
HandlerWaits(t) ==
  /\ proc = "running"
  /\ mode[t] = "handler"
  /\ main = "returned"
  /\ mode' = [mode EXCEPT ![t] = "exit"]
  /\ UNCHANGED <<main, srv, mhd, bProcessRun, objects, cancelPending,
                 inputEnded, signals, process>>

(* av_usleep(1000000) is over; how far the others got by then is open.     *)
HandlerExits(t) ==
  /\ proc = "running"
  /\ mode[t] = "handler"
  /\ mode' = [mode EXCEPT ![t] = "exit"]
  /\ UNCHANGED <<main, srv, mhd, bProcessRun, objects, cancelPending,
                 inputEnded, signals, process>>

(* Mutant: every caller of exit() runs the destructors from the start.     *)
DestroyOutputAgain(t) ==
  /\ proc = "running"
  /\ mode[t] = "exit"
  /\ atexit' = atexit - 1
  /\ gpOFile' = IF gpOFile = "null" THEN "null" ELSE "destroyed"
  /\ UNCHANGED <<main, srv, mhd, mode, bProcessRun, gpIFile, trailer,
                 gpFileRes, cancelPending, inputEnded, signals, proc, why>>

(* The static destructors, the last constructed first: gpOFile.            *)
DestroyOutput(t) ==
  /\ proc = "running"
  /\ mode[t] = "exit"
  /\ atexit = 2
  /\ atexit' = 1
  /\ gpOFile' = IF gpOFile = "null" THEN "null" ELSE "destroyed"
  /\ UNCHANGED <<main, srv, mhd, mode, bProcessRun, gpIFile, trailer,
                 gpFileRes, cancelPending, inputEnded, signals, proc, why>>

(* Then gpIFile, whose destructor asserts that its context is gone.        *)
DestroyInput(t) ==
  /\ proc = "running"
  /\ mode[t] = "exit"
  /\ atexit = 1
  /\ IF gpIFile = "open"
     THEN Abort("assertInput") /\ UNCHANGED gpIFile
     ELSE /\ gpIFile' = IF gpIFile = "null" THEN "null" ELSE "destroyed"
          /\ atexit' = 0
          /\ UNCHANGED <<proc, why>>
  /\ UNCHANGED <<main, srv, mhd, mode, bProcessRun, gpOFile, trailer,
                 gpFileRes, cancelPending, inputEnded, signals>>

Exit(t) ==
  /\ proc = "running"
  /\ mode[t] = "exit"
  /\ atexit = 0
  /\ proc' = "exited"
  /\ UNCHANGED <<main, srv, mhd, mode, bProcessRun, objects, cancelPending,
                 inputEnded, signals, atexit, why>>

InputEnds ==
  /\ proc = "running" /\ main = "loop"
  /\ ~inputEnded
  /\ inputEnded' = TRUE
  /\ UNCHANGED <<main, srv, mhd, mode, bProcessRun, objects, cancelPending,
                 signals, process>>

Terminated == proc # "running" /\ UNCHANGED vars

-----------------------------------------------------------------------------

Main ==
  \/ ParseArguments
  \/ Spawn
  \/ MakeHandles
  \/ OpenBegins
  \/ OpenInterrupted
  \/ LoopEnds
  \/ Cancel
  \/ CloseIn
  \/ CloseOut
  \/ DeleteResource
  \/ ReturnZero

Server == Construct \/ StartDaemon \/ Cancelled

Leave(t) ==
  \/ HandlerExits(t)
  \/ DestroyOutput(t)
  \/ DestroyInput(t)
  \/ Exit(t)

Next ==
  \/ Main
  \/ OpenDone
  \/ OpenFails
  \/ HandleCrash
  \/ Server
  \/ BindFails
  \/ Request
  \/ Respond
  \/ ResourceCrash
  \/ \E t \in Threads : Signal(t) \/ Leave(t)
  \/ InputEnds
  \/ Terminated

(* The scheduler runs every thread.  The peer need not come, the input     *)
(* need not end, and no crash is relied on.                                *)
Fairness ==
  /\ WF_vars(Main)
  /\ WF_vars(Server)
  /\ \A t \in Threads : WF_vars(Leave(t))

Spec == Init /\ [][Next]_vars /\ Fairness
-----------------------------------------------------------------------------
(* Properties *)

TypeOK ==
  /\ main \in {"parse", "spawn", "make", "open", "opening", "loop", "cancel",
               "closeIn", "closeOut", "delete", "return", "returned"}
  /\ srv \in {"none", "construct", "start", "wait", "stuck", "gone"}
  /\ mhd \in {"none", "idle", "render"}
  /\ mode \in [Threads -> {"code", "handler", "exit"}]
  /\ bProcessRun \in BOOLEAN
  /\ gpIFile \in {"null", "made", "open", "destroyed"}
  /\ gpOFile \in {"null", "made", "open", "destroyed"}
  /\ trailer \in BOOLEAN
  /\ gpFileRes \in {"live", "deleted"}
  /\ cancelPending \in BOOLEAN
  /\ inputEnded \in BOOLEAN
  /\ atexit \in 0 .. 2
  /\ signals \in Nat
  /\ proc \in {"running", "exited", "aborted"}
  /\ why \in {"none", "assertOpen", "bind", "assertInput", "freedHandle",
              "freedResource"}

(* Without a SIGINT the process ends abnormally only where main itself     *)
(* asserts, where the port cannot be bound, or by a request that is being  *)
(* answered while main deletes the resource; the assertion of ~MediaIn and *)
(* the use of a destroyed handle need the exit(0) of a signal handler.     *)
AbortCauses ==
  /\ proc = "aborted" /\ signals = 0 =>
       why \in {"assertOpen", "bind", "freedResource"}
  /\ why = "freedHandle" => \E t \in Threads \ {"main"} : mode[t] = "exit"
  /\ why = "freedResource" => main \in {"return", "returned"}

(* exit() has destroyed a handle that main had not closed.                 *)
Destroyed == "destroyed" \in {gpIFile, gpOFile}

(* Some thread other than main is in the exit(0) of its signal handler.    *)
Overtaken == signals > 0 /\ \E t \in Threads \ {"main"} : mode[t] = "exit"

(* A handle is destroyed before main has closed it by nothing but a SIGINT *)
(* whose exit() overtakes main, or which main's own thread was handling;   *)
(* and a process that leaves through the end of main without having been   *)
(* overtaken so has closed its input, written the trailer of the playlist  *)
(* and destroyed nothing that was in use, whatever the signals the other   *)
(* threads were handling by then.                                          *)
ReturnIsOrderly ==
  /\ Destroyed => \/ Overtaken
                  \/ signals > 0 /\ mode["main"] = "exit" /\ main # "returned"
  /\ proc = "exited" /\ main = "returned" /\ gpFileRes = "deleted" =>
       \/ gpIFile = "null" /\ gpOFile = "null" /\ trailer
       \/ Destroyed /\ Overtaken

(* A stop request ends the process, wherever the signal landed and however *)
(* long the peer keeps the connection open without sending.                *)
StopEndsProcess == (signals > 0) ~> (proc # "running")

(* So does the end of the input.                                           *)
InputEndEndsProcess == inputEnded ~> (proc # "running")

(* MediaIn.cpp: assert(!m_pFormatContext) in ~MediaIn.                     *)
InputClosedBeforeDestruction == why # "assertInput"
=============================================================================
