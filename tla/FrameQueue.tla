----------------------------- MODULE FrameQueue -----------------------------
(***************************************************************************)
(* waitUntilFrameAvailable: threads spin until a frame is free or the task *)
(* ends.  The flags are volatile and unlocked.  Who takes and who releases *)
(* frames is in the pure virtual enqueue and releaseFrame: the environment *)
(* here.                                                                   *)
(***************************************************************************)
EXTENDS Integers

CONSTANTS Waiters, Frames

VARIABLES
  aIsFrameInUse, bEndOfTask,
  at,         (* where a waiter stands                                     *)
  wanted,     (* the frame it waits for                                    *)
  result,     (* what waitUntilFrameAvailable returned last                *)
  seenFree    (* history: the frame was seen free since the call           *)

waiting == <<at, wanted, result, seenFree>>
queueVars == <<aIsFrameInUse, bEndOfTask, waiting>>

QueueInit ==
  /\ aIsFrameInUse \in [Frames -> BOOLEAN]
  /\ bEndOfTask = FALSE
  /\ at = [w \in Waiters |-> "idle"]
  /\ wanted \in [Waiters -> Frames]
  /\ result = [w \in Waiters |-> "none"]
  /\ seenFree = [w \in Waiters |-> FALSE]

(* The call, up to the loop.                                               *)
Call(w) ==
  /\ at[w] = "idle"
  /\ \E f \in Frames : wanted' = [wanted EXCEPT ![w] = f]
  /\ at' = [at EXCEPT ![w] = "look"]
  /\ seenFree' = [seenFree EXCEPT ![w] = FALSE]
  /\ UNCHANGED <<aIsFrameInUse, bEndOfTask, result>>

Return(w, value) ==
  /\ at' = [at EXCEPT ![w] = "idle"]
  /\ result' = [result EXCEPT ![w] = value]

(* isInUse.                                                                *)
Look(w) ==
  /\ at[w] = "look"
  /\ IF aIsFrameInUse[wanted[w]]
     THEN /\ at' = [at EXCEPT ![w] = "asleep"]
          /\ UNCHANGED <<result, seenFree>>
     ELSE /\ Return(w, "true")
          /\ seenFree' = [seenFree EXCEPT ![w] = TRUE]
  /\ UNCHANGED <<aIsFrameInUse, bEndOfTask, wanted>>

(* Mutant: after the sleep only the frame is looked at.                    *)
WakeAndLook(w) ==
  /\ at[w] = "asleep"
  /\ at' = [at EXCEPT ![w] = "look"]
  /\ UNCHANGED <<aIsFrameInUse, bEndOfTask, wanted, result, seenFree>>

(* Mutant: the end of the task is reported as a free frame.                *)
WakeTrue(w) ==
  /\ at[w] = "asleep"
  /\ IF bEndOfTask THEN Return(w, "true")
     ELSE at' = [at EXCEPT ![w] = "look"] /\ UNCHANGED result
  /\ UNCHANGED <<aIsFrameInUse, bEndOfTask, wanted, seenFree>>

(* Sleep(1) is over: isEndOfTask is read before the frame is looked at     *)
(* again.                                                                  *)
Wake(w) ==
  /\ at[w] = "asleep"
  /\ IF bEndOfTask THEN Return(w, "false")
     ELSE at' = [at EXCEPT ![w] = "look"] /\ UNCHANGED result
  /\ UNCHANGED <<aIsFrameInUse, bEndOfTask, wanted, seenFree>>

(* endTask: nothing takes the end back.                                    *)
EndTask ==
  /\ ~bEndOfTask
  /\ bEndOfTask' = TRUE
  /\ UNCHANGED <<aIsFrameInUse, waiting>>

(* enqueue and releaseFrame of a derived class.                            *)
TakeOrRelease ==
  /\ \E f \in Frames :
       aIsFrameInUse' = [aIsFrameInUse EXCEPT ![f] = ~@]
  /\ UNCHANGED <<bEndOfTask, waiting>>

QueueNext ==
  \/ EndTask
  \/ TakeOrRelease
  \/ \E w \in Waiters : Call(w) \/ Look(w) \/ Wake(w)

(* A spinning thread keeps being scheduled.                                *)
QueueFairness == \A w \in Waiters : WF_queueVars(Look(w) \/ Wake(w))

-----------------------------------------------------------------------------
(* The result tells what was seen: true only when the frame was free at a  *)
(* look of this call, false only when the task has ended, whatever others  *)
(* do to the flags between the looks.                                      *)
WaitResult ==
  \A w \in Waiters :
    at[w] = "idle" =>
      /\ result[w] = "true" => seenFree[w]
      /\ result[w] = "false" => bEndOfTask

(* The end of the task frees every waiter, though nobody signals it and    *)
(* others may take and release its frame between any two of its looks.     *)
WaiterReturns ==
  \A w \in Waiters : bEndOfTask ~> at[w] = "idle"
=============================================================================
