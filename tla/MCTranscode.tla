---------------------------- MODULE MCTranscode -----------------------------
(* Transcode with the frame size and rates of 44.1 kHz AAC in MPEG-TS: the *)
(* decoder delivers short, exact and long frames, a packet may hold no     *)
(* frame, one or two, and IntMax lets a long session exceed an int.        *)
EXTENDS Transcode

MCFrameLens == {600, 1024, 2500}
MCFramesPerPacket == {0, 1, 2}
OneFramePerPacket == {1}
TwoFramesPerPacket == {2}
MCFaults == {"openInput", "openOutput", "header", "config",
             "read", "send", "receive", "encode"}
NoFaults == {}
HeaderFault == {"header"}
=============================================================================
