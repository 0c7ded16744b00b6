--------------------------- MODULE TranscodeProofs ---------------------------
(***************************************************************************)
(* Safety of Transcode for every frame size, sample rate, time base, codec *)
(* delay, fault set and stream length: type correctness, the inductive     *)
(* invariant and what follows from it, the timeline, and the refinement of *)
(* PacketStream's safety part.  Last, the frame queue for any number of    *)
(* waiters.                                                                *)
(***************************************************************************)
EXTENDS Transcode, FrameQueue, TLAPS

-----------------------------------------------------------------------------
(* Integer division *)

(* n \div r and n % r are what division with remainder says they are.      *)
LEMMA DivMod ==
  ASSUME NEW n \in Nat, NEW r \in Nat \ {0}
  PROVE  /\ n \div r \in Nat
         /\ r * (n \div r) <= n
         /\ n < r * (n \div r) + r
OBVIOUS

(* A multiple of r that stays below the next multiple of r.                *)
LEMMA QuotientOrder ==
  ASSUME NEW r \in Nat \ {0}, NEW p \in Int, NEW q \in Int,
         r * p < r * q + r
  PROVE  p <= q
<1>1. SUFFICES ASSUME p >= q + 1
               PROVE  FALSE
  OBVIOUS
<1>2. r * p >= r * (q + 1)
  BY <1>1
<1>3. QED
  BY <1>2

LEMMA DivPositive ==
  ASSUME NEW n \in Nat, NEW r \in Nat \ {0}, n >= r
  PROVE  n \div r \in Nat /\ n \div r >= 1
BY DivMod

(* The quotient of a sum is the sum of the quotients or one more.          *)
LEMMA DivSum ==
  ASSUME NEW a \in Nat, NEW b \in Nat, NEW r \in Nat \ {0}
  PROVE  (a + b) \div r - (a \div r + b \div r) \in {0, 1}
<1>. DEFINE s == (a + b) \div r
            q == a \div r + b \div r
<1>1. s \in Nat /\ q \in Nat
  BY DivMod
<1>2. r * s <= a + b /\ a + b < r * s + r
  BY DivMod
<1>3. r * q <= a + b /\ a + b < r * (q + 1) + r
  <2>1. /\ r * (a \div r) <= a /\ a < r * (a \div r) + r
        /\ r * (b \div r) <= b /\ b < r * (b \div r) + r
    BY DivMod
  <2>2. /\ a \div r \in Nat
        /\ b \div r \in Nat
    BY DivMod
  <2>3. r * q = r * (a \div r) + r * (b \div r)
    BY <2>2
  <2>4. QED
    BY <2>1, <2>2, <2>3
<1>. HIDE DEF s, q
<1>4. q <= s
  <2>1. r * q < r * s + r
    BY <1>1, <1>2, <1>3
  <2>2. QED
    BY <1>1, <2>1, QuotientOrder
<1>5. s <= q + 1
  <2>1. r * s < r * (q + 1) + r
    BY <1>1, <1>2, <1>3
  <2>2. QED
    BY <1>1, <2>1, QuotientOrder
<1>6. s - q \in {0, 1}
  BY <1>1, <1>4, <1>5
<1>7. QED
  BY <1>6 DEF s, q

(* Rounding to a time base of at least 1000 ticks keeps milliseconds apart.*)
LEMMA RoundingSeparates ==
  ASSUME NEW d \in Nat, d >= 1000, NEW a \in Nat, NEW b \in Nat, a < b
  PROVE  (a * d + 500) \div 1000 < (b * d + 500) \div 1000
<1>. DEFINE x == a * d
            y == b * d
<1>1. b * d >= (a + 1) * d
  OBVIOUS
<1>2. x \in Int /\ y \in Int /\ x + 1000 <= y
  BY <1>1
<1>. HIDE DEF x, y
<1>3. (x + 500) \div 1000 < (y + 500) \div 1000
  BY <1>2
<1>4. QED
  BY <1>3 DEF x, y

-----------------------------------------------------------------------------
(* The operators of Transcode *)

LEMMA OutDenBound ==
  OutDen \in Nat /\ OutDen >= 1000
BY TranscodeAssumption DEF OutDen

LEMMA MsType ==
  ASSUME NEW n \in Nat
  PROVE  Ms(n) \in Nat
<1>1. 1000 * n \in Nat /\ SampleRate \in Nat \ {0}
  BY TranscodeAssumption
<1>2. QED
  BY <1>1, DivMod DEF Ms

LEMMA RescaleType ==
  ASSUME NEW n \in Nat
  PROVE  Rescale(n) \in Nat
<1>1. n * OutDen + 500 \in Nat
  BY OutDenBound
<1>2. QED
  BY <1>1, DivMod DEF Rescale

LEMMA AsIntType ==
  ASSUME NEW n \in Int
  PROVE  AsInt(n) \in Int
BY TranscodeAssumption DEF AsInt

(* The cast keeps what fits.                                               *)
LEMMA AsIntFits ==
  ASSUME NEW n \in Nat, n <= IntMax
  PROVE  AsInt(n) = n
<1>. DEFINE m == 2 * (IntMax + 1)
<1>1. m \in Nat \ {0} /\ n < m
  BY TranscodeAssumption
<1>. HIDE DEF m
<1>2. n % m = n
  BY <1>1
<1>3. n % (2 * (IntMax + 1)) = n
  BY <1>2 DEF m
<1>4. ~(n > IntMax)
  BY TranscodeAssumption
<1>5. QED
  BY <1>3, <1>4 DEF AsInt

(* One frame lasts at least a millisecond.                                 *)
LEMMA FrameLasts ==
  Ms(FrameSize) \in Nat /\ Ms(FrameSize) >= 1
<1>. DEFINE n == 1000 * FrameSize
<1>1. /\ SampleRate \in Nat \ {0}
      /\ n \in Nat
      /\ n >= SampleRate
  BY TranscodeAssumption
<1>. HIDE DEF n
<1>2. n \div SampleRate \in Nat /\ n \div SampleRate >= 1
  BY <1>1, DivPositive
<1>3. QED
  BY <1>2 DEF Ms, n

-----------------------------------------------------------------------------
(* Type correctness *)

LEMMA TypeInit == Init => TypeOK
<1>1. NoPkt \in Packets
  BY DEF NoPkt, Packets
<1>2. 0 \in Nat /\ 0 \in Int /\ 0 \in {-1, 0}
  OBVIOUS
<1>3. QED
  BY <1>1, <1>2, Zenon DEF Init, TypeOK, PCs, Rets

LEMMA TypeStep == TypeOK /\ [Next]_vars => TypeOK'
<1>. SUFFICES ASSUME TypeOK, [Next]_vars
              PROVE  TypeOK'
  OBVIOUS
<1>. USE TranscodeAssumption
         DEF TypeOK, PCs, Rets, srcVars, decVars, encVars, pktVars, fileVars
<1>1. CASE OpenInput
  BY <1>1 DEF OpenInput
<1>2. CASE OpenOutput
  BY <1>2 DEF OpenOutput
<1>3. CASE CheckConfigs
  BY <1>3 DEF CheckConfigs
<1>4. CASE LoopTest \/ FillDone \/ EofTest \/ DrainDone
  <2>1. /\ pc' \in {"fill", "closeIn", "eof", "drain", "loop"}
        /\ UNCHANGED <<ret, bProcessRun, srcVars, decVars, m_fifo, encVars,
                       leaked, accepted, pktVars, fileVars>>
    BY <1>4 DEF LoopTest, FillDone, EofTest, DrainDone
  <2>2. QED
    BY <2>1
<1>5. CASE ReadEnds \/ ReadFails
  <2>1. NoMoreInput
    BY <1>5 DEF ReadEnds, ReadFails
  <2>2. QED
    BY <2>1 DEF NoMoreInput
<1>6. CASE SendRefused \/ SendFails \/ NeedMore
  <2>1. CASE SendRefused
    BY <2>1 DEF SendRefused, Read, LeakPacket
  <2>2. CASE SendFails
    BY <2>2 DEF SendFails, Read, LeakPacket
  <2>3. CASE NeedMore
    BY <2>3 DEF NeedMore, Read, LeakPacket
  <2>4. QED
    BY <1>6, <2>1, <2>2, <2>3
<1>7. CASE ReceiveFails
  BY <1>7 DEF ReceiveFails, Read, LeakPacket
<1>8. CASE ReceiveFrame
  BY <1>8 DEF ReceiveFrame, Read
<1>9. CASE ConvertFrame
  BY <1>9 DEF ConvertFrame
<1>10. CASE EncodeFails \/ EncodeDelayed
  <2>1. CASE EncodeFails
    BY <2>1 DEF EncodeFails, TakeFrame
  <2>2. CASE EncodeDelayed
    BY <2>2 DEF EncodeDelayed, TakeFrame
  <2>3. QED
    BY <1>10, <2>1, <2>2
<1>11. CASE WritePacket
  <2>1. /\ Ms(m_totalSampleNum) \in Nat
        /\ Ms(FrameSize) \in Nat
        /\ Rescale(Ms(m_totalSampleNum)) \in Nat
    BY MsType, RescaleType
  <2>2. lastPkt' \in Packets
    BY <1>11, <2>1 DEF WritePacket, Packets
  <2>3. QED
    BY <1>11, <2>2 DEF WritePacket, TakeFrame
<1>12. CASE CloseInput
  BY <1>12 DEF CloseInput
<1>13. CASE CloseOutput
  <2>1. sampleNumPerSeg' \in Int
    BY <1>13, AsIntType DEF CloseOutput
  <2>2. QED
    BY <1>13, <2>1 DEF CloseOutput
<1>14. CASE SourceSend \/ SourceClose \/ Interrupt
  <2>1. CASE SourceSend
    BY <2>1 DEF SourceSend
  <2>2. CASE SourceClose
    <3>1. srcOpen' \in BOOLEAN
      BY <2>2, Zenon DEF SourceClose
    <3>2. UNCHANGED <<pc, ret, bProcessRun, srcAudio, srcSent, avio, decVars,
                      m_fifo, encVars, leaked, accepted, pktVars, fileVars>>
      BY <2>2 DEF SourceClose
    <3>3. QED
      BY <3>1, <3>2
  <2>3. CASE Interrupt
    <3>1. bProcessRun' \in BOOLEAN
      BY <2>3, Zenon DEF Interrupt
    <3>2. UNCHANGED <<pc, ret, srcVars, decVars, m_fifo, encVars, leaked,
                      accepted, pktVars, fileVars>>
      BY <2>3 DEF Interrupt
    <3>3. QED
      BY <3>1, <3>2
  <2>4. QED
    BY <1>14, <2>1, <2>2, <2>3
<1>15. CASE UNCHANGED vars
  BY <1>15 DEF vars
<1>16. QED
  BY <1>1, <1>2, <1>3, <1>4, <1>5, <1>6, <1>7, <1>8, <1>9, <1>10, <1>11,
     <1>12, <1>13, <1>14, <1>15
     DEF Next, Main, FileConcatLoop, GetPacket, EncodeWrite, Terminated

(* Every variable keeps its type: no counter goes below zero, whatever the *)
(* codecs and the peer do.                                                 *)
THEOREM TypeCorrect == Spec => []TypeOK
<1>1. Init => TypeOK
  BY TypeInit
<1>2. TypeOK /\ [Next]_vars => TypeOK'
  BY TypeStep
<1>3. QED
  BY <1>1, <1>2, PTL DEF Spec

-----------------------------------------------------------------------------
(* The inductive invariant *)

counts == <<accepted, m_fifo, encHeld, lostFrames, npkts, m_totalSampleNum>>

(* Only ConvertFrame and EncodeWrite touch the sample counts.              *)
LEMMA WhoCounts ==
  [Next]_vars => UNCHANGED counts \/ ConvertFrame \/ EncodeWrite
<1>. SUFFICES ASSUME [Next]_vars, ~ConvertFrame, ~EncodeWrite
              PROVE  UNCHANGED counts
  OBVIOUS
<1>. USE DEF counts, encVars, pktVars
<1>1. CASE OpenInput \/ OpenOutput \/ CheckConfigs
  BY <1>1 DEF OpenInput, OpenOutput, CheckConfigs
<1>2. CASE LoopTest \/ FillDone \/ EofTest \/ DrainDone
  BY <1>2 DEF LoopTest, FillDone, EofTest, DrainDone
<1>3. CASE ReadEnds \/ ReadFails
  BY <1>3 DEF ReadEnds, ReadFails, NoMoreInput
<1>4. CASE SendRefused \/ SendFails \/ NeedMore \/ ReceiveFails \/ ReceiveFrame
  BY <1>4 DEF SendRefused, SendFails, NeedMore, ReceiveFails, ReceiveFrame, Read
<1>5. CASE CloseInput \/ CloseOutput
  BY <1>5 DEF CloseInput, CloseOutput
<1>6. CASE SourceSend \/ SourceClose \/ Interrupt
  BY <1>6 DEF SourceSend, SourceClose, Interrupt
<1>7. CASE UNCHANGED vars
  BY <1>7 DEF vars
<1>8. QED
  BY <1>1, <1>2, <1>3, <1>4, <1>5, <1>6, <1>7
     DEF Next, Main, FileConcatLoop, GetPacket, Terminated

LEMMA ConservationStep ==
  TypeOK /\ SampleConservation /\ [Next]_vars => SampleConservation'
<1>. SUFFICES ASSUME TypeOK, SampleConservation, [Next]_vars
              PROVE  SampleConservation'
  OBVIOUS
<1>. USE TranscodeAssumption DEF SampleConservation, pktVars, encVars
<1>0. /\ accepted \in Nat /\ m_fifo \in Nat /\ inFrame \in Nat
      /\ encHeld \in Nat /\ npkts \in Nat /\ lostFrames \in Nat
      /\ m_totalSampleNum \in Nat
  BY DEF TypeOK
<1>1. CASE UNCHANGED counts
  BY <1>1 DEF counts
<1>2. CASE ConvertFrame
  BY <1>0, <1>2 DEF ConvertFrame
<1>3. CASE EncodeFails
  BY <1>0, <1>3 DEF EncodeFails, TakeFrame
<1>4. CASE EncodeDelayed
  BY <1>0, <1>4 DEF EncodeDelayed, TakeFrame
<1>5. CASE WritePacket
  BY <1>0, <1>5 DEF WritePacket, TakeFrame
<1>6. QED
  BY <1>1, <1>2, <1>3, <1>4, <1>5, WhoCounts DEF EncodeWrite

LEMMA BoundStep ==
  TypeOK /\ EncoderBound /\ [Next]_vars => EncoderBound'
<1>. SUFFICES ASSUME TypeOK, EncoderBound, [Next]_vars
              PROVE  EncoderBound'
  OBVIOUS
<1>0. encHeld \in Nat /\ EncDelay \in Nat
  BY TranscodeAssumption DEF TypeOK
<1>1. CASE UNCHANGED counts
  BY <1>1 DEF counts, EncoderBound
<1>2. CASE ConvertFrame
  BY <1>2 DEF ConvertFrame, encVars, EncoderBound
<1>3. CASE EncodeWrite
  BY <1>0, <1>3 DEF EncodeWrite, EncodeFails, EncodeDelayed, WritePacket,
                    EncoderBound
<1>4. QED
  BY <1>1, <1>2, <1>3, WhoCounts

(* The FIFO's phases need to know where ret can be PKT_ENDOFFILE, and why  *)
(* the loop was left.                                                      *)
LEMMA PhasesStep ==
  TypeOK /\ FifoPhases /\ Phases /\ [Next]_vars => FifoPhases' /\ Phases'
<1>. SUFFICES ASSUME TypeOK, FifoPhases, Phases, [Next]_vars
              PROVE  FifoPhases' /\ Phases'
  OBVIOUS
<1>. USE TranscodeAssumption
         DEF FifoPhases, Phases, srcVars, decVars, encVars, pktVars, fileVars
<1>0. m_fifo \in Nat /\ inFrame \in Nat /\ npkts \in Nat
  BY DEF TypeOK
<1>1. CASE OpenInput \/ OpenOutput \/ CheckConfigs
  <2>1. /\ pc \in {"openIn", "openOut", "check"}
        /\ pc' \in {"openOut", "check", "loop", "aborted"}
        /\ UNCHANGED <<ret, bProcessRun, m_fifo, npkts>>
    BY <1>1 DEF OpenInput, OpenOutput, CheckConfigs
  <2>2. QED
    BY <1>0, <2>1
<1>2. CASE LoopTest
  <2>1. /\ pc = "loop"
        /\ pc' = "fill" \/ (pc' = "closeIn" /\ ~bProcessRun)
        /\ UNCHANGED <<ret, bProcessRun, m_fifo, npkts>>
    BY <1>2 DEF LoopTest
  <2>2. QED
    BY <1>0, <2>1
<1>3. CASE FillDone
  BY <1>0, <1>3 DEF FillDone
<1>4. CASE ReadEnds \/ ReadFails
  <2>1. NoMoreInput
    BY <1>4 DEF ReadEnds, ReadFails
  <2>2. QED
    BY <1>0, <2>1 DEF NoMoreInput
<1>5. CASE SendRefused \/ SendFails \/ NeedMore \/ ReceiveFails \/ ReceiveFrame
  <2>1. \/ Read("NONE_AV")
        \/ Read("MOREPACKET")
        \/ Read("SUCCESS")
    BY <1>5 DEF SendRefused, SendFails, NeedMore, ReceiveFails, ReceiveFrame
  <2>2. QED
    BY <1>0, <2>1 DEF Read
<1>6. CASE ConvertFrame
  BY <1>0, <1>6 DEF ConvertFrame
<1>7. CASE EofTest
  BY <1>0, <1>7 DEF EofTest
<1>8. CASE DrainDone
  BY <1>0, <1>8 DEF DrainDone
<1>9. CASE EncodeWrite
  <2>1. \/ TakeFrame("NOREF")
        \/ TakeFrame("SUCCESS")
    BY <1>9 DEF EncodeWrite, EncodeFails, EncodeDelayed, WritePacket
  <2>2. QED
    BY <1>0, <2>1 DEF TakeFrame
<1>10. CASE CloseInput \/ CloseOutput
  BY <1>0, <1>10 DEF CloseInput, CloseOutput
<1>11. CASE SourceSend \/ SourceClose
  BY <1>0, <1>11 DEF SourceSend, SourceClose
<1>12. CASE Interrupt
  BY <1>0, <1>12 DEF Interrupt
<1>13. CASE UNCHANGED vars
  BY <1>13 DEF vars
<1>14. QED
  BY <1>1, <1>2, <1>3, <1>4, <1>5, <1>6, <1>7, <1>8, <1>9, <1>10, <1>11,
     <1>12, <1>13
     DEF Next, Main, FileConcatLoop, GetPacket, Terminated

LEMMA InFlightStep ==
  FrameInFlight /\ [Next]_vars => FrameInFlight'
<1>. SUFFICES ASSUME FrameInFlight, [Next]_vars
              PROVE  FrameInFlight'
  OBVIOUS
<1>. USE DEF FrameInFlight, decVars
<1>1. CASE OpenInput \/ OpenOutput \/ CheckConfigs
  BY <1>1 DEF OpenInput, OpenOutput, CheckConfigs
<1>2. CASE LoopTest \/ FillDone \/ EofTest \/ DrainDone
  BY <1>2 DEF LoopTest, FillDone, EofTest, DrainDone
<1>3. CASE ReadEnds \/ ReadFails
  BY <1>3 DEF ReadEnds, ReadFails, NoMoreInput
<1>4. CASE SendRefused \/ SendFails \/ NeedMore \/ ReceiveFails \/ ReceiveFrame
  BY <1>4 DEF SendRefused, SendFails, NeedMore, ReceiveFails, ReceiveFrame
<1>5. CASE ConvertFrame
  BY <1>5 DEF ConvertFrame
<1>6. CASE EncodeFails \/ EncodeDelayed \/ WritePacket
  BY <1>6 DEF EncodeFails, EncodeDelayed, WritePacket, TakeFrame
<1>7. CASE CloseInput \/ CloseOutput
  BY <1>7 DEF CloseInput, CloseOutput
<1>8. CASE SourceSend \/ SourceClose \/ Interrupt
  BY <1>8 DEF SourceSend, SourceClose, Interrupt
<1>9. CASE UNCHANGED vars
  BY <1>9 DEF vars
<1>10. QED
  BY <1>1, <1>2, <1>3, <1>4, <1>5, <1>6, <1>7, <1>8, <1>9
     DEF Next, Main, FileConcatLoop, GetPacket, EncodeWrite, Terminated

(* Who moves the session to its end, changes the published counts, the     *)
(* stamps and the output context.                                          *)
LEMMA WhoWrites ==
  ASSUME [Next]_vars
  PROVE  /\ \/ CloseOutput
            \/ /\ UNCHANGED <<m_segSampleNum, sampleNumPerSeg>>
               /\ pc' = "closed" <=> pc = "closed"
         /\ WritePacket \/ UNCHANGED pktVars
         /\ OpenOutput \/ CloseOutput \/ UNCHANGED m_pFileContext
<1>. USE DEF pktVars, fileVars
<1>1. CASE OpenInput \/ OpenOutput \/ CheckConfigs
  BY <1>1 DEF OpenInput, OpenOutput, CheckConfigs
<1>2. CASE LoopTest \/ FillDone \/ EofTest \/ DrainDone
  BY <1>2 DEF LoopTest, FillDone, EofTest, DrainDone
<1>3. CASE ReadEnds \/ ReadFails
  <2>1. NoMoreInput
    BY <1>3 DEF ReadEnds, ReadFails
  <2>2. QED
    BY <2>1 DEF NoMoreInput
<1>4. CASE SendRefused \/ SendFails \/ NeedMore \/ ReceiveFails \/ ReceiveFrame
  <2>1. \/ Read("NONE_AV")
        \/ Read("MOREPACKET")
        \/ Read("SUCCESS")
    BY <1>4 DEF SendRefused, SendFails, NeedMore, ReceiveFails, ReceiveFrame
  <2>2. QED
    BY <2>1 DEF Read
<1>5. CASE ConvertFrame
  BY <1>5 DEF ConvertFrame
<1>6. CASE EncodeFails \/ EncodeDelayed \/ WritePacket
  BY <1>6 DEF EncodeFails, EncodeDelayed, WritePacket, TakeFrame
<1>7. CASE CloseInput \/ CloseOutput
  BY <1>7 DEF CloseInput, CloseOutput
<1>8. CASE SourceSend \/ SourceClose \/ Interrupt
  BY <1>8 DEF SourceSend, SourceClose, Interrupt
<1>9. CASE UNCHANGED vars
  BY <1>9 DEF vars
<1>10. QED
  BY <1>1, <1>2, <1>3, <1>4, <1>5, <1>6, <1>7, <1>8, <1>9
     DEF Next, Main, FileConcatLoop, GetPacket, EncodeWrite, Terminated

LEMMA PublishedStep ==
  TypeOK /\ Published /\ [Next]_vars => Published'
<1>. SUFFICES ASSUME TypeOK, Published, [Next]_vars
              PROVE  Published'
  OBVIOUS
<1>1. CASE CloseOutput
  <2>1. m_segSampleNum = 0 /\ m_totalSampleNum \in Nat
    BY <1>1 DEF CloseOutput, Published, TypeOK
  <2>2. m_totalSampleNum - m_segSampleNum = m_totalSampleNum
    BY <2>1
  <2>3. /\ pc' = "closed"
        /\ sampleNumPerSeg' = AsInt(m_totalSampleNum)
        /\ m_totalSampleNum' = m_totalSampleNum
    BY <1>1, <2>2 DEF CloseOutput, pktVars
  <2>4. QED
    BY <2>3 DEF Published, AsInt
<1>2. CASE /\ UNCHANGED <<m_segSampleNum, sampleNumPerSeg>>
           /\ pc' = "closed" <=> pc = "closed"
  <2>1. CASE pc = "closed"
    <3>1. m_totalSampleNum' = m_totalSampleNum
      BY <2>1, WhoWrites DEF WritePacket, TakeFrame, pktVars
    <3>2. QED
      BY <1>2, <2>1, <3>1 DEF Published, AsInt
  <2>2. CASE pc # "closed"
    BY <1>2, <2>2 DEF Published
  <2>3. QED
    BY <2>1, <2>2
<1>3. QED
  BY <1>1, <1>2, WhoWrites

LEMMA StampedStep ==
  TypeOK /\ SampleConservation /\ Phases /\ Stamped /\ [Next]_vars
    => Stamped'
<1>. SUFFICES ASSUME TypeOK, SampleConservation, Phases, Stamped, [Next]_vars
              PROVE  Stamped'
  OBVIOUS
<1>0. npkts \in Nat /\ FrameSize \in Nat
  BY TranscodeAssumption DEF TypeOK
<1>1. CASE WritePacket
  <2>1. /\ npkts' = npkts + 1
        /\ m_totalSampleNum = FrameSize * npkts
        /\ lastPkt' = [pts |-> Ms(m_totalSampleNum),
                       duration |-> Ms(FrameSize),
                       dts |-> Rescale(Ms(m_totalSampleNum))]
        /\ m_pFileContext' = m_pFileContext
    BY <1>1 DEF WritePacket, TakeFrame, SampleConservation, fileVars
  <2>2. npkts' > 0 /\ npkts' - 1 = npkts
    BY <1>0, <2>1
  <2>3. lastPkt' = [pts |-> Ms(FrameSize * (npkts' - 1)),
                    duration |-> Ms(FrameSize),
                    dts |-> Rescale(Ms(FrameSize * (npkts' - 1)))]
    BY <2>1, <2>2
  <2>4. QED
    BY <2>1, <2>2, <2>3 DEF Stamped, Rescale, OutDen, Ms
<1>2. CASE UNCHANGED pktVars /\ UNCHANGED m_pFileContext /\ ~CloseOutput
  <2>1. pc' = "closed" <=> pc = "closed"
    BY <1>2, WhoWrites
  <2>2. QED
    BY <1>2, <2>1 DEF Stamped, pktVars, Rescale, OutDen, Ms
<1>3. CASE UNCHANGED pktVars /\ OpenOutput
  <2>1. npkts = 0
    BY <1>3 DEF OpenOutput, Phases
  <2>2. QED
    BY <1>3, <2>1 DEF Stamped, pktVars, NoPkt
<1>4. CASE CloseOutput
  <2>1. pc' = "closed" /\ UNCHANGED pktVars
    BY <1>4 DEF CloseOutput
  <2>2. QED
    BY <2>1 DEF Stamped, pktVars, NoPkt
<1>5. QED
  BY <1>1, <1>2, <1>3, <1>4, WhoWrites

LEMMA IInvInit == Init => IInv
<1>. SUFFICES ASSUME Init
              PROVE  IInv
  OBVIOUS
<1>1. TypeOK
  BY TypeInit
<1>2. SampleConservation /\ EncoderBound
  BY TranscodeAssumption DEF Init, SampleConservation, EncoderBound
<1>3. FifoPhases /\ Phases /\ FrameInFlight /\ Published /\ Stamped
  BY DEF Init, FifoPhases, Phases, FrameInFlight, Published, Stamped
<1>4. QED
  BY <1>1, <1>2, <1>3 DEF IInv

(* Each part is preserved from the parts it rests on.                      *)
THEOREM Inductive == Spec => []IInv
<1>1. Init => IInv
  BY IInvInit
<1>2. IInv /\ [Next]_vars => IInv'
  BY TypeStep, ConservationStep, PhasesStep, BoundStep, InFlightStep,
     PublishedStep, StampedStep
     DEF IInv
<1>3. QED
  BY <1>1, <1>2, PTL DEF Spec

-----------------------------------------------------------------------------
(* What follows *)

(* No sample is lost or counted twice on its way from ConvertFrame to the  *)
(* muxer.                                                                  *)
THEOREM Conservation == Spec => []SampleConservation
<1>1. IInv => SampleConservation
  BY DEF IInv
<1>2. QED
  BY <1>1, Inductive, PTL

(* FileConcatLoop drains before it fills and fills before it drains, so    *)
(* that its second look at ret is always at GetPacket's result.            *)
THEOREM FifoDiscipline == Spec => []FifoPhases
<1>1. IInv => FifoPhases
  BY DEF IInv
<1>2. QED
  BY <1>1, Inductive, PTL

(* A session ends for a reason, gives up less than EncDelay + 1 frames and *)
(* publishes what it muxed, as far as an int can hold it.                  *)
THEOREM Accounted == Spec => []SessionAccount
<1>1. ASSUME IInv, pc = "closed"
      PROVE  /\ ret = "ENDOFFILE" \/ ~bProcessRun
             /\ accepted - FrameSize * (npkts + lostFrames)
                  < FrameSize * (EncDelay + 1)
             /\ FrameSize * npkts <= IntMax =>
                  sampleNumPerSeg = FrameSize * npkts
  <2>1. ret = "ENDOFFILE" \/ ~bProcessRun
    BY <1>1 DEF IInv, Phases
  <2>2. accepted - FrameSize * (npkts + lostFrames)
          < FrameSize * (EncDelay + 1)
    <3>1. /\ FrameSize \in Nat \ {0} /\ EncDelay \in Nat
          /\ m_fifo \in Nat /\ encHeld \in Nat
          /\ npkts \in Nat /\ lostFrames \in Nat
      BY <1>1, TranscodeAssumption DEF IInv, TypeOK
    <3>2. /\ accepted = m_fifo + FrameSize * (encHeld + npkts + lostFrames)
          /\ m_fifo < FrameSize
          /\ encHeld <= EncDelay
      BY <1>1 DEF IInv, SampleConservation, FifoPhases, EncoderBound
    <3>3. FrameSize * encHeld <= FrameSize * EncDelay
      BY <3>1, <3>2
    <3>4. QED
      BY <3>1, <3>2, <3>3
  <2>3. ASSUME FrameSize * npkts <= IntMax
        PROVE  sampleNumPerSeg = FrameSize * npkts
    <3>1. /\ sampleNumPerSeg = AsInt(m_totalSampleNum)
          /\ m_totalSampleNum = FrameSize * npkts
          /\ m_totalSampleNum \in Nat
      BY <1>1 DEF IInv, TypeOK, Published, SampleConservation
    <3>2. AsInt(m_totalSampleNum) = m_totalSampleNum
      BY <2>3, <3>1, AsIntFits
    <3>3. QED
      BY <3>1, <3>2
  <2>4. QED
    BY <2>1, <2>2, <2>3
<1>2. IInv => SessionAccount
  BY <1>1 DEF SessionAccount
<1>3. QED
  BY <1>2, Inductive, PTL

(* Where one packet ends the next begins, give or take the millisecond of  *)
(* rounding, and the dts strictly increases, in every session and for      *)
(* every sample rate and time base.                                        *)
THEOREM Timeline == Spec => ContiguousTimeline
<1>1. ASSUME IInv, [Next]_vars, npkts' # npkts
      PROVE  /\ lastPkt'.pts - (lastPkt.pts + lastPkt.duration) \in {0, 1}
             /\ lastPkt'.dts > lastPkt.dts
  <2>1. WritePacket
    BY <1>1, WhoWrites DEF pktVars
  <2>2. /\ npkts \in Nat
        /\ FrameSize \in Nat \ {0}
        /\ SampleRate \in Nat \ {0}
    BY <1>1, TranscodeAssumption DEF IInv, TypeOK
  <2>3. /\ lastPkt'.pts = Ms(FrameSize * npkts)
        /\ lastPkt'.dts = Rescale(Ms(FrameSize * npkts))
        /\ pc = "drain"
    BY <1>1, <2>1
       DEF IInv, SampleConservation, WritePacket, TakeFrame
  <2>4. CASE npkts = 0
    <3>1. lastPkt = NoPkt
      BY <1>1, <2>4 DEF IInv, Stamped
    <3>2. FrameSize * npkts = 0
      BY <2>2, <2>4
    <3>3. Ms(0) = 0
      BY <2>2 DEF Ms
    <3>4. Rescale(0) \in Nat
      BY RescaleType
    <3>5. QED
      BY <2>3, <3>1, <3>2, <3>3, <3>4 DEF NoPkt
  <2>5. CASE npkts > 0
    <3>. DEFINE n == FrameSize * (npkts - 1)
    <3>1. /\ n \in Nat
          /\ FrameSize * npkts = n + FrameSize
      BY <2>2, <2>5
    <3>2. /\ lastPkt.pts = Ms(n)
          /\ lastPkt.duration = Ms(FrameSize)
          /\ lastPkt.dts = Rescale(Ms(n))
      BY <1>1, <2>3, <2>5 DEF IInv, Stamped
    <3>. HIDE DEF n
    <3>3. Ms(n + FrameSize) - (Ms(n) + Ms(FrameSize)) \in {0, 1}
      <4>. DEFINE x == 1000 * n
                  y == 1000 * FrameSize
      <4>1. /\ x \in Nat
            /\ y \in Nat
            /\ 1000 * (n + FrameSize) = x + y
        BY <2>2, <3>1
      <4>2. /\ Ms(n) = x \div SampleRate
            /\ Ms(FrameSize) = y \div SampleRate
            /\ Ms(n + FrameSize) = (x + y) \div SampleRate
        BY <4>1 DEF Ms
      <4>. HIDE DEF x, y
      <4>3. (x + y) \div SampleRate
              - (x \div SampleRate + y \div SampleRate) \in {0, 1}
        BY <2>2, <4>1, DivSum
      <4>4. QED
        BY <4>2, <4>3
    <3>4. /\ Ms(n) \in Nat
          /\ Ms(n + FrameSize) \in Nat
          /\ Ms(n) < Ms(n + FrameSize)
      <4>1. n \in Nat /\ n + FrameSize \in Nat
        BY <2>2, <3>1
      <4>2. Ms(n) \in Nat /\ Ms(n + FrameSize) \in Nat
        BY <4>1, MsType
      <4>3. QED
        BY <3>3, <4>2, FrameLasts
    <3>5. Rescale(Ms(n)) < Rescale(Ms(n + FrameSize))
      BY <3>4, OutDenBound, RoundingSeparates DEF Rescale
    <3>6. QED
      <4>1. /\ Rescale(Ms(n)) \in Nat
            /\ Rescale(Ms(n + FrameSize)) \in Nat
        BY <3>4, RescaleType
      <4>2. /\ lastPkt'.pts = Ms(n + FrameSize)
            /\ lastPkt'.dts = Rescale(Ms(n + FrameSize))
        BY <2>3, <3>1
      <4>3. lastPkt'.pts - (lastPkt.pts + lastPkt.duration) \in {0, 1}
        BY <3>2, <3>3, <4>2
      <4>4. lastPkt'.dts > lastPkt.dts
        BY <3>2, <3>5, <4>1, <4>2
      <4>5. QED
        BY <4>3, <4>4
  <2>6. QED
    BY <2>2, <2>4, <2>5
<1>2. IInv /\ [Next]_vars =>
        [npkts' # npkts =>
           /\ lastPkt'.pts - (lastPkt.pts + lastPkt.duration) \in {0, 1}
           /\ lastPkt'.dts > lastPkt.dts]_vars
  BY <1>1
<1>3. QED
  BY <1>2, Inductive, PTL DEF Spec, ContiguousTimeline

-----------------------------------------------------------------------------
(* Refinement *)

(* What is pending in the abstract stream is in the FIFO or the encoder.   *)
LEMMA PendingIs ==
  IInv => Stream!Pending = m_fifo + FrameSize * encHeld
BY TranscodeAssumption
   DEF IInv, TypeOK, SampleConservation, Stream!Pending

LEMMA NotOverdue ==
  IInv /\ m_fifo < FrameSize => ~Stream!Overdue
<1>. SUFFICES ASSUME IInv, m_fifo < FrameSize
              PROVE  ~Stream!Overdue
  OBVIOUS
<1>1. /\ FrameSize \in Nat \ {0} /\ EncDelay \in Nat
      /\ m_fifo \in Nat /\ encHeld \in Nat /\ encHeld <= EncDelay
  BY TranscodeAssumption DEF IInv, TypeOK, EncoderBound
<1>2. FrameSize * encHeld <= FrameSize * EncDelay
  BY <1>1
<1>3. m_fifo + FrameSize * encHeld < FrameSize * (EncDelay + 1)
  BY <1>1, <1>2
<1>4. ~(m_fifo + FrameSize * encHeld >= FrameSize * (EncDelay + 1))
  BY <1>1, <1>3
<1>5. QED
  BY <1>4, PendingIs DEF Stream!Overdue

LEMMA StreamStep ==
  IInv /\ [Next]_vars => [Stream!StreamNext]_(Stream!svars)
<1>. SUFFICES ASSUME IInv, [Next]_vars
              PROVE  Stream!StreamNext \/ UNCHANGED Stream!svars
  BY DEF Stream!svars
<1>. USE DEF Stream!svars
<1>0. /\ FrameSize \in Nat \ {0} /\ m_fifo \in Nat /\ encHeld \in Nat
      /\ accepted \in Nat /\ npkts \in Nat /\ lostFrames \in Nat
  BY TranscodeAssumption DEF IInv, TypeOK
<1>1. CASE ConvertFrame
  <2>1. CASE UNCHANGED <<m_fifo, accepted, inFrame>>
    BY <1>1, <2>1 DEF ConvertFrame, encVars, pktVars
  <2>2. CASE inFrame # 0 /\ accepted' = accepted + inFrame
    <3>1. inFrame \in FrameLens
      BY <2>2 DEF IInv, FrameInFlight
    <3>2. ~Stream!Overdue
      BY <1>1, NotOverdue DEF ConvertFrame, IInv, FifoPhases
    <3>3. Stream!Accept(inFrame)
      BY <1>1, <2>2, <3>2 DEF ConvertFrame, encVars, pktVars, Stream!Accept
    <3>4. QED
      BY <3>1, <3>3 DEF Stream!StreamNext
  <2>3. QED
    BY <1>1, <2>1, <2>2 DEF ConvertFrame
<1>2. CASE EncodeWrite
  <2>1. TakeFrame("NOREF") \/ TakeFrame("SUCCESS")
    BY <1>2 DEF EncodeWrite, EncodeFails, EncodeDelayed, WritePacket
  <2>2. /\ pc = "drain"
        /\ m_fifo >= FrameSize
        /\ UNCHANGED <<pc, accepted>>
    BY <2>1 DEF TakeFrame
  <2>3. Stream!Pending >= FrameSize
    <3>1. FrameSize * encHeld >= 0
      BY <1>0
    <3>2. m_fifo + FrameSize * encHeld >= FrameSize
      BY <1>0, <2>2, <3>1
    <3>3. QED
      BY <3>2, PendingIs
  <2>4. CASE EncodeFails
    <3>1. Stream!Drop
      BY <2>2, <2>3, <2>4 DEF EncodeFails, pktVars, Stream!Drop
    <3>2. QED
      BY <3>1 DEF Stream!StreamNext
  <2>5. CASE EncodeDelayed
    BY <2>2, <2>5 DEF EncodeDelayed, pktVars
  <2>6. CASE WritePacket
    <3>1. Stream!Emit
      BY <2>2, <2>3, <2>6 DEF WritePacket, Stream!Emit
    <3>2. QED
      BY <3>1 DEF Stream!StreamNext
  <2>7. QED
    BY <1>2, <2>4, <2>5, <2>6 DEF EncodeWrite
<1>3. CASE CloseOutput
  <2>1. ~Stream!Overdue
    BY <1>3, NotOverdue DEF CloseOutput, IInv, FifoPhases
  <2>2. Stream!Finish
    BY <1>3, <2>1 DEF CloseOutput, pktVars, Stream!Finish
  <2>3. QED
    BY <2>2 DEF Stream!StreamNext
<1>4. CASE UNCHANGED counts /\ ~CloseOutput
  <2>1. pc' = "closed" <=> pc = "closed"
    BY <1>4, WhoWrites
  <2>2. QED
    BY <1>4, <2>1 DEF counts
<1>5. QED
  BY <1>1, <1>2, <1>3, <1>4, WhoCounts

(* FileConcatLoop implements PacketStream's safety part for every frame    *)
(* size and delay: samples are accepted only while no whole packet is      *)
(* overdue, leave a frame at a time, and the stream closes with nothing    *)
(* overdue.                                                                *)
THEOREM Refinement == Spec => Stream!StreamSafety
<1>1. Init => Stream!StreamInit
  BY DEF Init, Stream!StreamInit
<1>2. IInv /\ [Next]_vars => [Stream!StreamNext]_(Stream!svars)
  BY StreamStep
<1>3. QED
  BY <1>1, <1>2, Inductive, PTL DEF Spec, Stream!StreamSafety

-----------------------------------------------------------------------------
(* The frame queue *)

QueueSpec == QueueInit /\ [][QueueNext]_queueVars

(* What WaitResult needs to be inductive: the functions stay functions     *)
(* over the waiters, so that a step of one leaves the others' entries.     *)
QueueInv ==
  /\ at \in [Waiters -> {"idle", "look", "asleep"}]
  /\ result \in [Waiters -> {"none", "true", "false"}]
  /\ seenFree \in [Waiters -> BOOLEAN]
  /\ bEndOfTask \in BOOLEAN
  /\ WaitResult

LEMMA QueueInitInv == QueueInit => QueueInv
  BY DEF QueueInit, QueueInv, WaitResult

(* Each step of a waiter touches its own entries only; the others can only *)
(* set the end of the task, which makes a result no less true.             *)
LEMMA QueueStep == QueueInv /\ [QueueNext]_queueVars => QueueInv'
<1> SUFFICES ASSUME QueueInv, [QueueNext]_queueVars PROVE QueueInv'
  OBVIOUS
<1> USE DEF QueueInv, WaitResult
<1>1. CASE EndTask
  BY <1>1 DEF EndTask, waiting
<1>2. CASE TakeOrRelease
  BY <1>2 DEF TakeOrRelease, waiting
<1>3. ASSUME NEW w \in Waiters, Call(w) PROVE QueueInv'
  BY <1>3 DEF Call
<1>4. ASSUME NEW w \in Waiters, Look(w) PROVE QueueInv'
  <2>1. CASE aIsFrameInUse[wanted[w]]
    BY <1>4, <2>1 DEF Look
  <2>2. CASE ~aIsFrameInUse[wanted[w]]
    BY <1>4, <2>2 DEF Look, Return
  <2> QED BY <2>1, <2>2
<1>5. ASSUME NEW w \in Waiters, Wake(w) PROVE QueueInv'
  <2>1. CASE bEndOfTask
    BY <1>5, <2>1 DEF Wake, Return
  <2>2. CASE ~bEndOfTask
    BY <1>5, <2>2 DEF Wake
  <2> QED BY <2>1, <2>2
<1>6. CASE UNCHANGED queueVars
  BY <1>6 DEF queueVars, waiting
<1> QED
  BY <1>1, <1>2, <1>3, <1>4, <1>5, <1>6 DEF QueueNext

(* waitUntilFrameAvailable returns true only for a frame this call has     *)
(* seen free, and false only once the task has ended.                      *)
THEOREM WaiterIsTold == QueueSpec => []WaitResult
<1>1. QueueInit => QueueInv
  BY QueueInitInv
<1>2. QueueInv /\ [QueueNext]_queueVars => QueueInv'
  BY QueueStep
<1>3. QueueInv => WaitResult
  BY DEF QueueInv
<1> QED
  BY <1>1, <1>2, <1>3, PTL DEF QueueSpec
=============================================================================
