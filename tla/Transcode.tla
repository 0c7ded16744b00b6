----------------------------- MODULE Transcode ------------------------------
(***************************************************************************)
(* The media session that main() runs: MediaIn::Open, MediaOut::Open, the  *)
(* FileConcatLoop that reads packets, decodes them, collects the samples   *)
(* in a FIFO and encodes them frame by frame, and the two Close calls of   *)
(* deleteAllHandles.  One thread executes all of it; beside it run the     *)
(* peer that sends the stream and the signal handler that clears           *)
(* sConfig.bProcessRun.                                                    *)
(*                                                                         *)
(* Media data is abstracted to counts of samples.  The codecs are modelled *)
(* by their queues: a decoder that holds decoded frames nobody fetched,    *)
(* and an encoder that keeps EncDelay frames before its first packet.      *)
(***************************************************************************)
EXTENDS Integers

CONSTANTS
  FrameSize,        (* samples in an AAC frame                             *)
  SampleRate,       (* samples per second                                  *)
  TimeBaseDen,      (* ticks per second the HLS muxer chooses              *)
  FrameLens,        (* samples in a decoded frame                          *)
  FramesPerPacket,  (* frames a packet makes the decoder produce           *)
  DecCap,           (* frames held at which avcodec_send_packet is refused *)
  EncDelay,         (* frames the encoder keeps back                       *)
  IntMax,           (* INT_MAX of the build                                *)
  Faults,           (* which library calls may fail                        *)
  MaxPackets,       (* bound: packets the peer sends                       *)
  MaxAvio           (* bound: packets the demuxer reads ahead              *)

FaultKinds == {"openInput", "openOutput", "header", "config",
               "read", "send", "receive", "encode"}

ASSUME TranscodeAssumption ==
  /\ FrameSize \in Nat \ {0}
  /\ SampleRate \in Nat /\ SampleRate >= 1000
  /\ 1000 * FrameSize >= SampleRate
  /\ TimeBaseDen \in Nat /\ TimeBaseDen >= 1000
  /\ FrameLens \subseteq Nat \ {0}
  /\ FramesPerPacket \subseteq Nat
  /\ DecCap \in Nat \ {0}
  /\ EncDelay \in Nat
  /\ IntMax \in Nat \ {0}
  /\ Faults \subseteq FaultKinds
  /\ MaxPackets \in Nat
  /\ MaxAvio \in Nat

VARIABLES
  pc,               (* where the main thread is                            *)
  ret,              (* FileConcatLoop's ret                                *)
  bProcessRun,      (* sConfig.bProcessRun                                 *)
  srcAudio,         (* the input has an audio stream                       *)
  srcOpen,          (* the peer has not ended the stream                   *)
  srcSent,          (* packets the peer has sent                           *)
  avio,             (* packets read from the peer, not yet demuxed         *)
  decHeld,          (* decoded frames waiting in the decoder               *)
  refused,          (* a packet met a decoder that was full                *)
  inFrame,          (* samples in FileConcatLoop's pFrame, 0 when blank    *)
  m_fifo,           (* samples in the FIFO                                 *)
  encHeld,          (* frames waiting in the encoder                       *)
  outAllocated,     (* m_pOutFrame owns a buffer                           *)
  leaked,           (* kinds of object allocated and no longer owned       *)
  accepted,         (* samples ever put into the FIFO                      *)
  lostFrames,       (* frames the encoder refused or failed on             *)
  npkts,            (* packets handed to the muxer                         *)
  lastPkt,          (* the last of them: pts, duration (ms) and dts        *)
  m_totalSampleNum,
  m_segSampleNum,
  m_pFileContext,   (* "null", "noheader" or "header"                      *)
  trailer,          (* "none", or what the context was at av_write_trailer *)
  lastSegno,        (* sConfig.lastSegno                                   *)
  sampleNumPerSeg   (* sConfig.sampleNumPerSeg                             *)

srcVars  == <<srcAudio, srcOpen, srcSent, avio>>
decVars  == <<decHeld, refused, inFrame>>
encVars  == <<encHeld, outAllocated, lostFrames>>
pktVars  == <<npkts, lastPkt, m_totalSampleNum>>
fileVars == <<m_segSampleNum, m_pFileContext, trailer, lastSegno,
              sampleNumPerSeg>>

vars == <<pc, ret, bProcessRun, srcVars, decVars, m_fifo, encVars, leaked,
          accepted, pktVars, fileVars>>

-----------------------------------------------------------------------------
(* Values *)

PCs == {"openIn", "openOut", "check", "loop", "fill", "convert", "eof",
        "drain", "closeIn", "closeOut", "closed", "aborted"}

Rets == {"SUCCESS", "ENDOFFILE", "NONE_AV", "MOREPACKET", "NOREF"}

NoPkt == [pts |-> 0, duration |-> 0, dts |-> -1]

(* Milliseconds of n samples: 1000 * n / sample_rate.                      *)
Ms(n) == (1000 * n) \div SampleRate

(* The output stream's ticks per second: what avformat_write_header chose, *)
(* or OpenSegfile's own time base when the header was not written.         *)
OutDen == IF m_pFileContext = "header" THEN TimeBaseDen ELSE SampleRate

(* av_packet_rescale_ts from milliseconds, rounding to nearest.            *)
Rescale(ms) == (ms * OutDen + 500) \div 1000

(* The cast (int) of a non-negative 64 bit value.                          *)
AsInt(n) == LET w == n % (2 * (IntMax + 1))
            IN  IF w > IntMax THEN w - 2 * (IntMax + 1) ELSE w

Init ==
  /\ pc = "openIn"
  /\ ret = "SUCCESS"
  /\ bProcessRun = TRUE
  /\ srcAudio \in BOOLEAN
  /\ srcOpen = TRUE
  /\ srcSent = 0
  /\ avio = 0
  /\ decHeld = 0
  /\ refused = FALSE
  /\ inFrame = 0
  /\ m_fifo = 0
  /\ encHeld = 0
  /\ outAllocated = FALSE
  /\ leaked = {}
  /\ accepted = 0
  /\ lostFrames = 0
  /\ npkts = 0
  /\ lastPkt = NoPkt
  /\ m_totalSampleNum = 0
  /\ m_segSampleNum = 0
  /\ m_pFileContext = "null"
  /\ trailer = "none"
  /\ lastSegno = 0
  /\ sampleNumPerSeg = 0

-----------------------------------------------------------------------------
(* Opening and closing *)

(* MediaIn::Open.  A stop request interrupts avformat_open_input; a failed *)
(* Open ends in main's assert(0).                                          *)
OpenInput ==
  /\ pc = "openIn"
  /\ \/ /\ bProcessRun
        /\ pc' = "openOut"
     \/ /\ ~bProcessRun \/ "openInput" \in Faults
        /\ pc' = "aborted"
  /\ UNCHANGED <<ret, bProcessRun, srcVars, decVars, m_fifo, encVars, leaked,
                 accepted, pktVars, fileVars>>

(* MediaOut::Open with OpenSegfile.  Without an audio stream the encoder   *)
(* has no sample rate and does not open.  A failing avformat_write_header  *)
(* is printed and otherwise ignored.                                       *)
OpenOutput ==
  /\ pc = "openOut"
  /\ \/ /\ srcAudio
        /\ m_pFileContext' \in
             {"header"} \cup (IF "header" \in Faults THEN {"noheader"} ELSE {})
        /\ lastSegno' = -1
        /\ pc' = "check"
     \/ /\ ~srcAudio \/ "openOutput" \in Faults
        /\ pc' = "aborted"
        /\ UNCHANGED <<m_pFileContext, lastSegno>>
  /\ UNCHANGED <<ret, bProcessRun, srcVars, decVars, m_fifo, encVars, leaked,
                 accepted, pktVars, m_segSampleNum, trailer, sampleNumPerSeg>>

(* CheckConfigs, called with both ends already open.                       *)
CheckConfigs ==
  /\ pc = "check"
  /\ pc' \in {"loop"} \cup (IF "config" \in Faults THEN {"aborted"} ELSE {})
  /\ UNCHANGED <<ret, bProcessRun, srcVars, decVars, m_fifo, encVars, leaked,
                 accepted, pktVars, fileVars>>

(* gpIFile->Close: the decoder goes with the frames it still holds.        *)
CloseInput ==
  /\ pc = "closeIn"
  /\ decHeld' = 0
  /\ pc' = "closeOut"
  /\ UNCHANGED <<ret, bProcessRun, srcVars, refused, inFrame, m_fifo, encVars,
                 leaked, accepted, pktVars, fileVars>>

(* Mutant: the segment's start is moved before its length is taken.        *)
CloseOutputLate ==
  /\ pc = "closeOut"
  /\ m_segSampleNum' = m_totalSampleNum
  /\ sampleNumPerSeg' = AsInt(m_totalSampleNum - m_segSampleNum')
  /\ trailer' = m_pFileContext
  /\ m_pFileContext' = "null"
  /\ outAllocated' = FALSE
  /\ pc' = "closed"
  /\ UNCHANGED <<ret, bProcessRun, srcVars, decVars, m_fifo, encHeld,
                 lostFrames, leaked, accepted, pktVars, lastSegno>>

(* gpOFile->Close: CloseSegfile(true) publishes the sample count and       *)
(* writes the trailer, whatever became of the header; the encoder is freed *)
(* and not flushed.                                                        *)
CloseOutput ==
  /\ pc = "closeOut"
  /\ sampleNumPerSeg' = AsInt(m_totalSampleNum - m_segSampleNum)
  /\ m_segSampleNum' = m_totalSampleNum
  /\ trailer' = m_pFileContext
  /\ m_pFileContext' = "null"
  /\ outAllocated' = FALSE
  /\ pc' = "closed"
  /\ UNCHANGED <<ret, bProcessRun, srcVars, decVars, m_fifo, encHeld,
                 lostFrames, leaked, accepted, pktVars, lastSegno>>

-----------------------------------------------------------------------------
(* FileConcatLoop *)

(* while(sConfig.bProcessRun): the only look at the flag.                  *)
LoopTest ==
  /\ pc = "loop"
  /\ pc' = IF bProcessRun THEN "fill" ELSE "closeIn"
  /\ UNCHANGED <<ret, bProcessRun, srcVars, decVars, m_fifo, encVars, leaked,
                 accepted, pktVars, fileVars>>

(* Mutant: the fill loop is an if.                                         *)
FillOnce ==
  /\ pc = "fill"
  /\ pc' = "eof"
  /\ UNCHANGED <<ret, bProcessRun, srcVars, decVars, m_fifo, encVars, leaked,
                 accepted, pktVars, fileVars>>

(* The fill loop has a whole frame.                                        *)
FillDone ==
  /\ pc = "fill"
  /\ m_fifo >= FrameSize
  /\ pc' = "eof"
  /\ UNCHANGED <<ret, bProcessRun, srcVars, decVars, m_fifo, encVars, leaked,
                 accepted, pktVars, fileVars>>

(* av_read_frame fails and GetPacket returns PKT_ENDOFFILE.                *)
NoMoreInput ==
  /\ pc = "fill"
  /\ m_fifo < FrameSize
  /\ ret' = "ENDOFFILE"
  /\ pc' = "eof"
  /\ UNCHANGED <<bProcessRun, srcVars, decVars, m_fifo, encVars, leaked,
                 accepted, pktVars, fileVars>>

(* Mutant: no interrupt callback is installed.                             *)
ReadEndsUninterrupted ==
  /\ avio = 0
  /\ ~srcOpen
  /\ NoMoreInput

(* The peer ended the stream, or cbDecodeInterrupt breaks off a read that  *)
(* would have to wait for the peer.                                        *)
ReadEnds ==
  /\ avio = 0
  /\ ~srcOpen \/ ~bProcessRun
  /\ NoMoreInput

(* Any other error of the read.                                            *)
ReadFails ==
  /\ "read" \in Faults
  /\ NoMoreInput

(* av_read_frame delivers a packet and GetPacket returns r.                *)
Read(r) ==
  /\ pc = "fill"
  /\ m_fifo < FrameSize
  /\ avio > 0
  /\ avio' = avio - 1
  /\ ret' = r
  /\ pc' = "convert"
  /\ UNCHANGED <<bProcessRun, srcAudio, srcOpen, srcSent, m_fifo, encVars,
                 accepted, pktVars, fileVars>>

(* Every return but the last skips av_packet_unref.                        *)
LeakPacket == leaked' = leaked \cup {"packet"}

(* avcodec_send_packet returns EAGAIN: frames of earlier packets have to   *)
(* be fetched first.  The packet is given up.                              *)
SendRefused ==
  /\ decHeld >= DecCap
  /\ Read("NONE_AV")
  /\ refused' = TRUE
  /\ LeakPacket
  /\ UNCHANGED <<decHeld, inFrame>>

(* avcodec_send_packet rejects the data: a damaged packet, or one of a     *)
(* stream that is not the audio stream.                                    *)
SendFails ==
  /\ "send" \in Faults
  /\ Read("NONE_AV")
  /\ LeakPacket
  /\ UNCHANGED decVars

(* The packet is sent and completes no frame.                              *)
NeedMore ==
  /\ decHeld = 0
  /\ 0 \in FramesPerPacket
  /\ Read("MOREPACKET")
  /\ LeakPacket
  /\ UNCHANGED decVars

(* The packet is sent and avcodec_receive_frame fails on the next frame.   *)
ReceiveFails ==
  /\ "receive" \in Faults
  /\ decHeld < DecCap
  /\ \E k \in FramesPerPacket :
       /\ decHeld + k > 0
       /\ decHeld' = decHeld + k - 1
  /\ Read("NONE_AV")
  /\ LeakPacket
  /\ UNCHANGED <<refused, inFrame>>

(* The packet is sent and one frame is fetched, however many it completed. *)
ReceiveFrame ==
  /\ decHeld < DecCap
  /\ \E k \in FramesPerPacket :
       /\ decHeld + k > 0
       /\ decHeld' = decHeld + k - 1
  /\ inFrame' \in FrameLens
  /\ Read("SUCCESS")
  /\ UNCHANGED <<refused, leaked>>

(* ConvertFrame runs whatever GetPacket returned and does nothing for a    *)
(* blank frame or a missing output.                                        *)
ConvertFrame ==
  /\ pc = "convert"
  /\ IF m_pFileContext = "null" \/ inFrame = 0
     THEN UNCHANGED <<m_fifo, accepted, inFrame>>
     ELSE /\ m_fifo' = m_fifo + inFrame
          /\ accepted' = accepted + inFrame
          /\ inFrame' = 0
  /\ pc' = "fill"
  /\ UNCHANGED <<ret, bProcessRun, srcVars, decHeld, refused, encVars, leaked,
                 pktVars, fileVars>>

(* The second look at ret; av_frame_free when it leaves the loop.          *)
EofTest ==
  /\ pc = "eof"
  /\ pc' = IF ret = "ENDOFFILE" THEN "closeIn" ELSE "drain"
  /\ UNCHANGED <<ret, bProcessRun, srcVars, decVars, m_fifo, encVars, leaked,
                 accepted, pktVars, fileVars>>

(* Mutant: the drain loop is an if.                                        *)
DrainOnce ==
  /\ pc = "drain"
  /\ pc' = "loop"
  /\ UNCHANGED <<ret, bProcessRun, srcVars, decVars, m_fifo, encVars, leaked,
                 accepted, pktVars, fileVars>>

DrainDone ==
  /\ pc = "drain"
  /\ m_fifo < FrameSize
  /\ pc' = "loop"
  /\ UNCHANGED <<ret, bProcessRun, srcVars, decVars, m_fifo, encVars, leaked,
                 accepted, pktVars, fileVars>>

(* Mutant: EncodeWrite is called without looking at the FIFO.              *)
TakeFrameUnchecked(r) ==
  /\ pc = "drain"
  /\ m_fifo' = m_fifo - FrameSize
  /\ outAllocated' = TRUE
  /\ leaked' = IF outAllocated THEN leaked \cup {"frame"} ELSE leaked
  /\ ret' = r
  /\ UNCHANGED <<pc, bProcessRun, srcVars, decVars, accepted, fileVars>>

(* EncodeWrite up to avcodec_send_frame: a fresh buffer for m_pOutFrame,   *)
(* which never gives up the one it has, and a frame out of the FIFO.       *)
TakeFrame(r) ==
  /\ pc = "drain"
  /\ m_fifo >= FrameSize
  /\ m_fifo' = m_fifo - FrameSize
  /\ outAllocated' = TRUE
  /\ leaked' = IF outAllocated THEN leaked \cup {"frame"} ELSE leaked
  /\ ret' = r
  /\ UNCHANGED <<pc, bProcessRun, srcVars, decVars, accepted, fileVars>>

(* avcodec_send_frame or avcodec_receive_packet fails: the frame is gone.  *)
EncodeFails ==
  /\ "encode" \in Faults
  /\ TakeFrame("NOREF")
  /\ lostFrames' = lostFrames + 1
  /\ UNCHANGED <<encHeld, pktVars>>

(* Mutant: the samples are counted before the packet is there.             *)
EncodeDelayedCounted ==
  /\ encHeld < EncDelay
  /\ TakeFrame("NOREF")
  /\ encHeld' = encHeld + 1
  /\ m_totalSampleNum' = m_totalSampleNum + FrameSize
  /\ UNCHANGED <<lostFrames, npkts, lastPkt>>

(* avcodec_receive_packet returns EAGAIN while the encoder fills up.       *)
EncodeDelayed ==
  /\ encHeld < EncDelay
  /\ TakeFrame("NOREF")
  /\ encHeld' = encHeld + 1
  /\ UNCHANGED <<lostFrames, pktVars>>

(* Mutant: the count is advanced before the packet is stamped.             *)
WritePacketLate ==
  /\ encHeld = EncDelay
  /\ TakeFrame("SUCCESS")
  /\ m_totalSampleNum' = m_totalSampleNum + FrameSize
  /\ lastPkt' = [pts |-> Ms(m_totalSampleNum'),
                 duration |-> Ms(FrameSize),
                 dts |-> Rescale(Ms(m_totalSampleNum'))]
  /\ npkts' = npkts + 1
  /\ UNCHANGED <<encHeld, lostFrames>>

(* A packet comes out, is stamped with the samples written so far and      *)
(* handed to av_interleaved_write_frame, whose error is only printed.      *)
WritePacket ==
  /\ encHeld = EncDelay
  /\ TakeFrame("SUCCESS")
  /\ lastPkt' = [pts |-> Ms(m_totalSampleNum),
                 duration |-> Ms(FrameSize),
                 dts |-> Rescale(Ms(m_totalSampleNum))]
  /\ m_totalSampleNum' = m_totalSampleNum + FrameSize
  /\ npkts' = npkts + 1
  /\ UNCHANGED <<encHeld, lostFrames>>

-----------------------------------------------------------------------------
(* The environment *)

(* The demuxer reads ahead; after a stop request every new read fails.     *)
SourceSend ==
  /\ srcOpen
  /\ bProcessRun
  /\ srcSent < MaxPackets
  /\ avio < MaxAvio
  /\ srcSent' = srcSent + 1
  /\ avio' = avio + 1
  /\ UNCHANGED <<pc, ret, bProcessRun, srcAudio, srcOpen, decVars, m_fifo,
                 encVars, leaked, accepted, pktVars, fileVars>>

SourceClose ==
  /\ srcOpen
  /\ srcOpen' = FALSE
  /\ UNCHANGED <<pc, ret, bProcessRun, srcAudio, srcSent, avio, decVars,
                 m_fifo, encVars, leaked, accepted, pktVars, fileVars>>

(* signal_callback_handler on a thread other than the main one.            *)
Interrupt ==
  /\ bProcessRun
  /\ bProcessRun' = FALSE
  /\ UNCHANGED <<pc, ret, srcVars, decVars, m_fifo, encVars, leaked, accepted,
                 pktVars, fileVars>>

Ended == pc \in {"closed", "aborted"}

Terminated == Ended /\ UNCHANGED vars

GetPacket ==
  \/ ReadEnds
  \/ SendRefused
  \/ SendFails
  \/ NeedMore
  \/ ReceiveFails
  \/ ReceiveFrame

EncodeWrite == EncodeFails \/ EncodeDelayed \/ WritePacket

FileConcatLoop ==
  \/ LoopTest
  \/ FillDone
  \/ GetPacket
  \/ ConvertFrame
  \/ EofTest
  \/ DrainDone
  \/ EncodeWrite

Main ==
  \/ OpenInput
  \/ OpenOutput
  \/ CheckConfigs
  \/ FileConcatLoop
  \/ CloseInput
  \/ CloseOutput

Next ==
  \/ Main
  \/ ReadFails
  \/ SourceSend
  \/ SourceClose
  \/ Interrupt
  \/ Terminated

(* The main thread is scheduled whenever it can run.  Nothing is assumed   *)
(* of the peer, the user or the outcome of a library call; a read that     *)
(* waits for the peer is not rescued by an error (ReadFails is not fair).  *)
Spec == Init /\ [][Next]_vars /\ WF_vars(Main)
-----------------------------------------------------------------------------
(* Invariants *)

Packets == [pts : Nat, duration : Nat, dts : Nat \cup {-1}]

TypeOK ==
  /\ pc \in PCs
  /\ ret \in Rets
  /\ bProcessRun \in BOOLEAN
  /\ srcAudio \in BOOLEAN
  /\ srcOpen \in BOOLEAN
  /\ srcSent \in Nat
  /\ avio \in Nat
  /\ decHeld \in Nat
  /\ refused \in BOOLEAN
  /\ inFrame \in Nat
  /\ m_fifo \in Nat
  /\ encHeld \in Nat
  /\ outAllocated \in BOOLEAN
  /\ leaked \subseteq {"packet", "frame"}
  /\ accepted \in Nat
  /\ lostFrames \in Nat
  /\ npkts \in Nat
  /\ lastPkt \in Packets
  /\ m_totalSampleNum \in Nat
  /\ m_segSampleNum \in Nat
  /\ m_pFileContext \in {"null", "noheader", "header"}
  /\ trailer \in {"none", "null", "noheader", "header"}
  /\ lastSegno \in {-1, 0}
  /\ sampleNumPerSeg \in Int

(* Every sample ConvertFrame put into the FIFO is still in it, is in the   *)
(* encoder, has been counted by EncodeWrite, or went with a frame the      *)
(* encoder failed on; and what is counted is what was handed to the muxer. *)
SampleConservation ==
  /\ accepted = m_fifo + FrameSize * (encHeld + npkts + lostFrames)
  /\ m_totalSampleNum = FrameSize * npkts

(* The FIFO never holds a whole frame at the head of the loop, so that the *)
(* fill loop runs and the ret that follows it is GetPacket's; it holds one *)
(* whenever the loop goes on to drain; and at the end of the stream it     *)
(* holds less, so that leaving the loop gives up no whole frame.           *)
FifoPhases ==
  /\ pc \in {"loop", "convert", "closeIn", "closeOut", "closed"} =>
       m_fifo < FrameSize
  /\ pc = "eof" => (ret = "ENDOFFILE" <=> m_fifo < FrameSize)

(* FileConcatLoop ends only after the end of the input or a stop request.  *)
(* Of what was accepted by then less than EncDelay + 1 frames stay behind  *)
(* undelivered, and getRESTfulResponse finds the count of the samples that *)
(* were muxed, as far as an int holds it.                                  *)
SessionAccount ==
  pc = "closed" =>
    /\ ret = "ENDOFFILE" \/ ~bProcessRun
    /\ accepted - FrameSize * (npkts + lostFrames)
         < FrameSize * (EncDelay + 1)
    /\ FrameSize * npkts <= IntMax => sampleNumPerSeg = FrameSize * npkts

-----------------------------------------------------------------------------
(* The inductive invariant behind them *)

(* What the position in the code says of ret, bProcessRun and the counts.  *)
Phases ==
  /\ pc \in {"openIn", "openOut", "check"} => m_fifo = 0 /\ npkts = 0
  /\ ret = "ENDOFFILE" => pc \in {"eof", "closeIn", "closeOut", "closed"}
  /\ pc \in {"closeIn", "closeOut", "closed"} =>
       ret = "ENDOFFILE" \/ ~bProcessRun

EncoderBound == encHeld <= EncDelay

(* What waits in pFrame is a decoded frame.                                *)
FrameInFlight == inFrame \in FrameLens \cup {0}

(* The one segment begins at sample 0 and is published when it is closed.  *)
Published ==
  IF pc = "closed"
  THEN sampleNumPerSeg = AsInt(m_totalSampleNum)
  ELSE m_segSampleNum = 0

(* The last packet's stamps follow from the number of packets.             *)
Stamped ==
  /\ npkts = 0 => lastPkt = NoPkt
  /\ npkts > 0 /\ pc # "closed" =>
       lastPkt = [pts |-> Ms(FrameSize * (npkts - 1)),
                  duration |-> Ms(FrameSize),
                  dts |-> Rescale(Ms(FrameSize * (npkts - 1)))]

IInv ==
  /\ TypeOK
  /\ SampleConservation
  /\ FifoPhases
  /\ Phases
  /\ EncoderBound
  /\ FrameInFlight
  /\ Published
  /\ Stamped

-----------------------------------------------------------------------------
(* Action properties *)

(* The timestamps EncodeWrite derives from the sample count leave neither  *)
(* a gap nor an overlap: each packet starts where the last one ended, or   *)
(* one millisecond later, and the dts the muxer sees strictly increases,   *)
(* whatever the encoder failed on in between.                              *)
ContiguousTimeline ==
  [][npkts' # npkts =>
       /\ lastPkt'.pts - (lastPkt.pts + lastPkt.duration) \in {0, 1}
       /\ lastPkt'.dts > lastPkt.dts]_vars

-----------------------------------------------------------------------------
(* Liveness *)

(* Once the peer ends the stream or a stop is requested the main thread    *)
(* leaves the loop and closes both ends: neither the decoder, the encoder  *)
(* nor the FIFO can keep it there.                                         *)
SessionEnds == (~srcOpen \/ ~bProcessRun) ~> Ended

(* The session as a whole is a packet stream.                              *)
Stream == INSTANCE PacketStream
            WITH Lookahead <- EncDelay,
                 ChunkLens <- FrameLens,
                 emitted   <- npkts,
                 dropped   <- lostFrames,
                 open      <- pc # "closed"

(* FileConcatLoop implements PacketStream: it accepts no more input while  *)
(* a whole packet is overdue, and an overdue packet leaves.                *)
StreamSpec == Stream!StreamSpec

-----------------------------------------------------------------------------
(* What the documentation of the library asks of its callers *)

(* libavcodec/avcodec.h on AVERROR(EAGAIN) from avcodec_send_packet: the   *)
(* output has to be read and the packet resent.  A packet is never refused *)
(* for good because the decoder still holds frames.                        *)
NoPacketRefused == ~refused

(* libavutil/frame.h on av_frame_get_buffer and libavformat/avformat.h on  *)
(* av_read_frame: buffers and packets are given back.                      *)
NoLeak == leaked = {}

(* libavformat/avformat.h on av_write_trailer: only after a successful     *)
(* avformat_write_header.                                                  *)
TrailerAfterHeader == trailer \in {"none", "header"}
=============================================================================
