---------------------------- MODULE PacketStream ----------------------------
(***************************************************************************)
(* What the transcoder promises, without its FIFO, codecs and buffers.     *)
(*                                                                         *)
(* Decoded samples are accepted in chunks of any size and leave as packets *)
(* of exactly FrameSize samples.  Everything accepted leaves as a packet,  *)
(* is dropped a whole frame at a time, or is still pending; no more is     *)
(* accepted while a whole packet is overdue, and an overdue packet is      *)
(* eventually emitted or dropped.                                          *)
(***************************************************************************)
EXTENDS Integers

CONSTANTS
  FrameSize,   (* samples per packet, a positive number                    *)
  Lookahead,   (* whole frames that may stay pending, a natural number     *)
  ChunkLens    (* sizes of the chunks that can be accepted, positive       *)

VARIABLES
  accepted,    (* samples accepted so far                                  *)
  emitted,     (* packets emitted so far                                   *)
  dropped,     (* frames dropped so far                                    *)
  open         (* the stream still takes samples                           *)

svars == <<accepted, emitted, dropped, open>>

Pending == accepted - FrameSize * (emitted + dropped)

Overdue == Pending >= FrameSize * (Lookahead + 1)

StreamInit ==
  /\ accepted = 0
  /\ emitted = 0
  /\ dropped = 0
  /\ open = TRUE

Accept(n) ==
  /\ open
  /\ ~Overdue
  /\ accepted' = accepted + n
  /\ UNCHANGED <<emitted, dropped, open>>

Emit ==
  /\ open
  /\ Pending >= FrameSize
  /\ emitted' = emitted + 1
  /\ UNCHANGED <<accepted, dropped, open>>

Drop ==
  /\ open
  /\ Pending >= FrameSize
  /\ dropped' = dropped + 1
  /\ UNCHANGED <<accepted, emitted, open>>

(* The stream closes with less than Lookahead + 1 packets undelivered.     *)
Finish ==
  /\ open
  /\ ~Overdue
  /\ open' = FALSE
  /\ UNCHANGED <<accepted, emitted, dropped>>

StreamNext ==
  \/ \E n \in ChunkLens : Accept(n)
  \/ Emit
  \/ Drop
  \/ Finish

StreamSafety == StreamInit /\ [][StreamNext]_svars

StreamSpec == StreamSafety /\ WF_svars(Overdue /\ (Emit \/ Drop))
=============================================================================
