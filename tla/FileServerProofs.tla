--------------------------- MODULE FileServerProofs --------------------------
(***************************************************************************)
(* The HLS file server for any number of players, any segments, check term *)
(* and identifier: what a reply may say, however the daemon's thread and   *)
(* the main thread interleave over the directory and the shared fields,    *)
(* and how long a request can wait.                                        *)
(***************************************************************************)
EXTENDS FileServer, FiniteSetTheorems, TLAPS

-----------------------------------------------------------------------------
(* The inductive invariant, in groups that each carry one of the results   *)

RequestType == [ask : Asks \cup {Nothing}, saw : StatusType, fresh : BOOLEAN,
                waited : Nat]
ReplyType == [what : {"status", "invalid", "notFound", "broken", "file"},
              file : FileType, status : StatusType, slept : Nat,
              held : FileType, to : RequestType]
DaemonType == [at : {"idle", "path", "id", "copy", "seg", "sample", "probe",
                     "sleep", "open", "send"},
               who : Clients, repeat : Nat, slept : Nat, got : StatusType,
               file : FileType]
MainType == {"cut", "dir", "wipe", "segno", "header", "mux", "nomux", "list",
             "next", "trailer", "last", "closed", "ended"}

OutputType == [len : Nat, ext : BOOLEAN, muselive : BOOLEAN]

Shape ==
  /\ output \in OutputType
  /\ term \in Nat
  /\ elsewhere \in [Files -> FileType]
  /\ main \in MainType
  /\ outputID \in {"ext", "cut"}
  /\ lastSegno \in {-1, 0}
  /\ sampleNumPerSeg \in Nat
  /\ dir \in BOOLEAN
  /\ disk \in [Files -> FileType]
  /\ seg \in Segs
  /\ queue \in Seq(Clients)
  /\ daemon \in DaemonType
  /\ request \in [Clients -> RequestType]
  /\ holds \in [Clients -> FileType]
  /\ asked \in Nat
  /\ reply = NoReply \/ reply \in ReplyType
  /\ main \in {"list", "next"} => seg < MaxSeg

(* A client waits for one request, in the queue or with the daemon; what   *)
(* the daemon looks for on the disk is a file.                             *)
Waits(c) == request[c].ask # Nothing
Probes == daemon.at \in {"probe", "sleep", "open", "send"}
QueueInv ==
  /\ \A i \in 1 .. Len(queue) : Waits(queue[i])
  /\ \A i, j \in 1 .. Len(queue) : queue[i] = queue[j] => i = j
  /\ daemon.at # "idle" =>
       /\ Waits(daemon.who)
       /\ \A i \in 1 .. Len(queue) : queue[i] # daemon.who
  /\ \A c \in Clients : Waits(c) \/ request[c] = NoRequest
  /\ \A c \in Clients : Waits(c) =>
       \/ daemon.at # "idle" /\ c = daemon.who
       \/ \E i \in 1 .. Len(queue) : queue[i] = c
  /\ output.muselive => \A c \in Clients : request[c].ask \in {Nothing, Status}
  /\ Probes => Asked \in Files /\ ~output.muselive /\ PathLength(Asked) >= MinPath
  /\ daemon.at \in {"id", "copy", "seg", "sample"} => IsStatus

(* What is on the disk while main is at a place, and what is in another    *)
(* directory that may be served instead.                                   *)
Whole == File("new", "whole", {})
Written == {"empty", "part", "whole"}
DiskInv ==
  /\ \A f \in Files : \/ disk[f] = NoFile
                      \/ disk[f].sess # "none" /\ disk[f].body \in Written
  /\ \A s \in Segs : disk[s].lists = {} /\ elsewhere[s].lists = {}
  /\ \A f \in Files : \/ elsewhere[f] = NoFile
                      \/ elsewhere[f].sess = "old" /\ elsewhere[f].body \in Written
  /\ main \in {"cut", "dir"} /\ ~dir => \A f \in Files : disk[f] = NoFile
  /\ main \in {"cut", "dir", "wipe", "segno", "header"} =>
       /\ \A f \in Files : disk[f].sess # "new"
       /\ seg = 0
  /\ main \notin {"cut", "dir", "wipe", "ended"} => \A f \in Files : disk[f].sess # "old"
  /\ Opened => \A s \in Segs : s < seg => disk[s] = Whole
  /\ main \in {"list", "next", "last"} => disk[seg] = Whole

(* A playlist of the running session lists what is written, wherever it is *)
(* on the disk, with the daemon or with a player.                          *)
Lists(f) ==
  f.sess = "new" =>
    /\ main \notin {"cut", "dir", "wipe", "segno", "header"}
    /\ \A s \in f.lists : s \in 0 .. seg /\ disk[s] = Whole

(* The length of the playlist's path was seen to suffice when it was given,*)
(* and the running session's is given in its own directory only.           *)
Given(f) ==
  /\ f.lists # {} => ~output.muselive /\ 2 * output.len + 7 >= MinPath
  /\ f.sess = "new" => root = "cwd"

ListInv ==
  /\ Lists(disk[Playlist])
  /\ daemon.at = "send" =>
       /\ Lists(daemon.file)
       /\ Asked # Playlist => daemon.file.lists = {}
       /\ Asked \in holds[daemon.who].lists /\ holds[daemon.who].sess = "new" =>
            daemon.file = Whole
  /\ \A c \in Clients : Lists(holds[c]) /\ Given(holds[c])

(* What a request made after Open meets.                                   *)
FreshInv ==
  /\ \A c \in Clients : request[c].fresh => Opened
  /\ daemon.at = "open" /\ request[daemon.who].fresh => Exists(Asked)
  /\ daemon.at = "send" =>
       /\ daemon.file.body # "none"
       /\ IF root = "cwd" THEN request[daemon.who].fresh => daemon.file.sess = "new"
                          ELSE daemon.file.sess = "old"
       /\ daemon.file.body = "lost" => Asked = Playlist
  /\ Replied("file") => reply.file.body # "none"

(* The probes of a search.                                                 *)
Most == term \div ProbeMs + 1
ProbeInv ==
  /\ daemon.repeat <= Most
  /\ daemon.at \in {"idle", "path"} => daemon.repeat = 0
  /\ daemon.slept = IF daemon.at = "sleep" THEN daemon.repeat - 1 ELSE daemon.repeat

(* What a status request saw, what the daemon has read so far, and what it *)
(* has answered, against what the fields are by now.                       *)
Since(saw) ==
  /\ outputID = "ext" => saw.id = "ext"
  /\ saw.seg >= lastSegno
  /\ saw.sample <= sampleNumPerSeg
IdSince(id, saw) ==
  /\ saw.id = "cut" => id = "cut"
  /\ outputID = "ext" => id = "ext"
StatusInv ==
  /\ main \notin {"trailer", "last", "closed", "ended"} => sampleNumPerSeg = 0
  /\ \A c \in Clients : request[c].ask = Status =>
       Since(request[c].saw) /\ request[c].saw.id \in {"ext", "cut"}
  /\ Asked = Status =>
       /\ daemon.at \in {"copy", "seg", "sample"} => IdSince(daemon.got.id, request[daemon.who].saw)
       /\ daemon.at = "sample" => daemon.got.seg \in lastSegno .. request[daemon.who].saw.seg
  /\ Replied("status") /\ reply.to.ask = Status =>
       /\ IdSince(reply.status.id, reply.to.saw)
       /\ reply.to.saw.id \in {"ext", "cut"}
       /\ reply.status.seg \in lastSegno .. reply.to.saw.seg
       /\ reply.status.sample \in reply.to.saw.sample .. sampleNumPerSeg

(* The sleeps a request has sat through, and how many are still to come.   *)
Busy == IF daemon.at = "idle" THEN 0 ELSE 1
Pending == {c \in Clients : Waits(c)}
Bound(n) == n * Most + daemon.slept
WaitInv ==
  /\ Cardinality(Pending) = Len(queue) + Busy
  /\ \A i \in 1 .. Len(queue) :
       request[queue[i]].waited <= Bound(Cardinality(Clients) - i - Busy)
  /\ daemon.at # "idle" =>
       request[daemon.who].waited <= Bound(Cardinality(Clients) - 1)

-----------------------------------------------------------------------------
(* Type correctness *)

LEMMA NoFileType == NoFile \in FileType
BY DEF NoFile, FileType, Bodies

LEMMA FilesTyped ==
  ASSUME NEW sess \in {"old", "new"}, NEW body \in Written, NEW lists \in SUBSET Segs
  PROVE  File(sess, body, lists) \in FileType
BY DEF File, FileType, Bodies, Written

LEMMA NoStatusType == NoStatus \in StatusType
BY DEF NoStatus, StatusType

LEMMA NoRequestType == NoRequest \in RequestType
<1>1. FALSE \in BOOLEAN /\ 0 \in Nat
  OBVIOUS
<1> QED
  BY <1>1, NoStatusType DEF NoRequest, RequestType

LEMMA IdleType == Idle \in DaemonType
<1>1. (CHOOSE c \in Clients : TRUE) \in Clients
  BY FileServerAssumption
<1> QED
  BY <1>1, NoFileType, NoStatusType DEF Idle, DaemonType

LEMMA LeftType == Left(0) \in [Files -> FileType]
<1>1. {s \in 0 .. 0 : s > 0 - ListSize} \in SUBSET Segs
  BY FileServerAssumption DEF Segs
<1>2. {} \in SUBSET Segs
  OBVIOUS
<1> QED
  BY <1>1, <1>2, FilesTyped, NoFileType DEF Left, Written

LEMMA InitShape == Init => Shape
<1> SUFFICES ASSUME Init PROVE Shape
  OBVIOUS
<1>1. output \in OutputType
  BY FileServerAssumption DEF Init, OutputType
<1>2. term \in Nat
  BY FileServerAssumption DEF Init, FileTermMS
<1>3. disk \in [Files -> FileType] /\ elsewhere \in [Files -> FileType]
  <2>1. NoFiles \in [Files -> FileType]
    BY NoFileType DEF NoFiles
  <2> QED
    BY <2>1, LeftType DEF Init
<1>4. dir \in BOOLEAN
  BY DEF Init
<1>5. request \in [Clients -> RequestType] /\ holds \in [Clients -> FileType]
  BY NoRequestType, NoFileType DEF Init
<1>6. seg \in Segs
  BY FileServerAssumption DEF Init, Segs
<1>7. daemon \in DaemonType
  BY IdleType DEF Init
<1>8. queue \in Seq(Clients)
  BY DEF Init
<1> QED
  BY <1>1, <1>2, <1>3, <1>4, <1>5, <1>6, <1>7, <1>8 DEF Init, Shape, MainType

(* Steps of the main thread other than the end of the process.             *)
LEMMA MainShape == Shape /\ Main => Shape'
<1> SUFFICES ASSUME Shape, Main PROVE Shape'
  OBVIOUS
<1> USE DEF Shape, MainType, Go, config, shared, muxer, asking
<1>1. CASE CutExtension
  BY <1>1 DEF CutExtension
<1>2. CASE ProcessEnds
  BY <1>2, IdleType, NoRequestType DEF ProcessEnds
<1>3. CASE MakeOrWipe
  BY <1>3 DEF MakeOrWipe
<1>4. CASE Wipe
  BY <1>4, NoFileType DEF Wipe
<1>5. CASE WipeDone
  BY <1>5 DEF WipeDone
<1>6. CASE SetSegno
  BY <1>6 DEF SetSegno
<1>7. CASE WriteHeader
  BY <1>7, FilesTyped DEF WriteHeader, Written
<1>8. CASE GrowSegment
  <2>1. disk' \in [Files -> FileType]
    BY <1>8 DEF GrowSegment, FileType, Bodies, Files
  <2> QED
    BY <1>8, <2>1 DEF GrowSegment
<1>9. CASE FinishSegment
  BY <1>9, FilesTyped DEF FinishSegment, Written
<1>10. CASE TruncateList
  <2>1. disk' \in [Files -> FileType]
    BY <1>10, FilesTyped DEF TruncateList, Written
  <2>2. daemon' \in DaemonType
    BY <1>10 DEF TruncateList, DaemonType, FileType, Bodies
  <2> QED
    BY <1>10, <2>1, <2>2 DEF TruncateList
<1>11. CASE WriteList
  <2>1. Listed \in SUBSET Segs
    BY FileServerAssumption DEF Listed, Segs
  <2>2. disk' \in [Files -> FileType]
    BY <1>11, <2>1, FilesTyped DEF WriteList, Written
  <2> QED
    BY <1>11, <2>2 DEF WriteList
<1>12. CASE NextSegment
  <2>1. seg + 1 \in Segs
    BY <1>12, FileServerAssumption DEF NextSegment, Segs
  <2>2. disk' \in [Files -> FileType]
    BY <1>12, FilesTyped DEF NextSegment, Written
  <2> QED
    BY <1>12, <2>1, <2>2 DEF NextSegment
<1>13. CASE Close
  <2>1. seg + 1 \in Nat
    BY FileServerAssumption DEF Segs
  <2> QED
    BY <1>13, <2>1 DEF Close
<1> QED
  BY <1>1, <1>2, <1>3, <1>4, <1>5, <1>6, <1>7, <1>8, <1>9, <1>10, <1>11, <1>12,
     <1>13 DEF Main

LEMMA AskShape ==
  ASSUME Shape, NEW c \in Clients, Ask(c)
  PROVE  Shape'
<1>1. PICK a \in Asks :
        request' = [request EXCEPT ![c] =
                      [ask |-> a, saw |-> IF a = Status THEN Shown ELSE NoStatus,
                       fresh |-> Opened, waited |-> 0]]
  BY DEF Ask, Asks
<1>2. Shown \in StatusType
  BY DEF Shape, Shown, StatusType
<1>3. Opened \in BOOLEAN
  BY DEF Opened
<1>4. request' \in [Clients -> RequestType]
  BY <1>1, <1>2, <1>3, NoStatusType DEF Shape, RequestType
<1> QED
  BY <1>4 DEF Shape, Ask, config, mainVars, shared, muxer

LEMMA TakeShape == Shape /\ Take => Shape'
<1> SUFFICES ASSUME Shape, Take PROVE Shape'
  OBVIOUS
<1>1. Head(queue) \in Clients /\ Tail(queue) \in Seq(Clients)
  BY DEF Shape, Take
<1>2. daemon' \in DaemonType
  BY <1>1 DEF Shape, Take, DaemonType
<1> QED
  BY <1>1, <1>2 DEF Shape, Take, config, mainVars, shared, muxer

LEMMA ReplyShape ==
  ASSUME Shape, NEW what \in {"status", "invalid", "notFound", "broken", "file"},
         NEW file \in FileType, NEW status \in StatusType,
         Reply(what, file, status)
  PROVE  Shape'
<1>1. daemon.who \in Clients /\ daemon.slept \in Nat
  BY DEF Shape, DaemonType
<1>2. [request[daemon.who] EXCEPT !.waited = 0] \in RequestType
  BY <1>1 DEF Shape, RequestType
<1>3. reply' \in ReplyType
  BY <1>1, <1>2 DEF Reply, ReplyType, Shape
<1>4. request' \in [Clients -> RequestType] /\ holds' \in [Clients -> FileType]
  BY <1>1, NoRequestType DEF Reply, Shape
<1> QED
  BY <1>3, <1>4, IdleType DEF Reply, Shape, config, mainVars, shared, muxer

(* Every answer the daemon gives, with the step that gives it.             *)
Answers ==
  \/ AnswerStatus \/ RefuseShortPath \/ NotFound
  \/ OpenGone \/ OpenEmpty \/ Send
Advances ==
  \/ AskStatus \/ ReadLength \/ CopyId \/ ReadSegno \/ StartProbing
  \/ ProbeHits \/ ProbeMisses \/ OpenFile

LEMMA ServedType ==
  ASSUME Shape, NEW f \in Files
  PROVE  Served(f) \in FileType
BY DEF Shape, Served

LEMMA AnswersShape == Shape /\ QueueInv /\ Answers => Shape'
<1> SUFFICES ASSUME Shape, QueueInv, Answers PROVE Shape'
  OBVIOUS
<1>1. CASE AnswerStatus
  <2>1. [daemon.got EXCEPT !.sample = sampleNumPerSeg] \in StatusType
    BY DEF Shape, DaemonType, StatusType
  <2> QED
    BY <1>1, <2>1, NoFileType, ReplyShape DEF AnswerStatus
<1>2. CASE RefuseShortPath
  BY <1>2, NoFileType, NoStatusType, ReplyShape DEF RefuseShortPath
<1>3. CASE NotFound
  BY <1>3, NoFileType, NoStatusType, ReplyShape DEF NotFound
<1>4. CASE OpenGone
  BY <1>4, NoFileType, NoStatusType, ReplyShape DEF OpenGone
<1>5. CASE OpenEmpty
  <2>1. Served(Asked) \in FileType
    BY <1>5, ServedType DEF OpenEmpty, At, QueueInv, Probes
  <2> QED
    BY <1>5, <2>1, NoStatusType, ReplyShape DEF OpenEmpty
<1>6. CASE Send
  <2>1. daemon.file \in FileType
    BY DEF Shape, DaemonType
  <2> QED
    BY <1>6, <2>1, NoFileType, NoStatusType, ReplyShape DEF Send
<1> QED
  BY <1>1, <1>2, <1>3, <1>4, <1>5, <1>6 DEF Answers

LEMMA AdvancesShape == Shape /\ QueueInv /\ Advances => Shape'
<1> SUFFICES ASSUME Shape, QueueInv, Advances PROVE Shape'
  OBVIOUS
<1>1. daemon' \in DaemonType
  <2> USE DEF Shape, DaemonType
  <2>1. CASE AskStatus
    BY <2>1 DEF AskStatus, MoveTo
  <2>2. CASE ReadLength
    BY <2>2 DEF ReadLength, StatusType
  <2>3. CASE CopyId
    BY <2>3 DEF CopyId, StatusType
  <2>4. CASE ReadSegno
    BY <2>4 DEF ReadSegno, StatusType
  <2>5. CASE StartProbing
    BY <2>5 DEF StartProbing, MoveTo
  <2>6. CASE ProbeHits
    BY <2>6 DEF ProbeHits, MoveTo
  <2>7. CASE ProbeMisses
    <3>1. daemon.repeat + 1 \in Nat
      OBVIOUS
    <3> QED
      BY <2>7, <3>1 DEF ProbeMisses
  <2>8. CASE OpenFile
    <3>1. Served(Asked) \in FileType
      BY <2>8, ServedType DEF OpenFile, At, QueueInv, Probes
    <3> QED
      BY <2>8, <3>1 DEF OpenFile
  <2> QED
    BY <2>1, <2>2, <2>3, <2>4, <2>5, <2>6, <2>7, <2>8 DEF Advances
<1>2. UNCHANGED <<config, mainVars, queue, asking>>
  BY DEF Advances, AskStatus, ReadLength, CopyId, ReadSegno, StartProbing,
         ProbeHits, ProbeMisses, OpenFile
<1> QED
  BY <1>1, <1>2 DEF Shape, config, mainVars, shared, muxer, asking

LEMMA SleepShape == Shape /\ Sleep => Shape'
<1> SUFFICES ASSUME Shape, Sleep PROVE Shape'
  OBVIOUS
<1>1. daemon' \in DaemonType
  <2>1. daemon.slept + 1 \in Nat
    BY DEF Shape, DaemonType
  <2> QED
    BY <2>1 DEF Shape, Sleep, DaemonType
<1>2. ASSUME NEW c \in Clients PROVE request'[c] \in RequestType
  <2>1. request[c] \in RequestType
    BY DEF Shape
  <2>2. request[c].waited + 1 \in Nat
    BY <2>1 DEF RequestType
  <2>3. [request[c] EXCEPT !.waited = @ + 1] \in RequestType
    BY <2>1, <2>2 DEF RequestType
  <2> QED
    BY <2>1, <2>3 DEF Sleep
<1>3. request' \in [Clients -> RequestType]
  BY <1>2 DEF Sleep
<1> QED
  BY <1>1, <1>3 DEF Shape, Sleep, config, mainVars, shared, muxer

LEMMA StutterShape == Shape /\ UNCHANGED vars => Shape'
BY DEF Shape, vars, config, mainVars, shared, muxer, asking

LEMMA NextShape == Shape /\ QueueInv /\ [Next]_vars => Shape'
BY MainShape, AskShape, TakeShape, AnswersShape, AdvancesShape, SleepShape, StutterShape
   DEF Next, RenderGet, Answers, Advances

-----------------------------------------------------------------------------
(* Who waits *)

(* The steps of main leave requests and the queue alone, or end both; of   *)
(* the daemon they touch at most the body of a file it is sending.         *)
LEMMA MainKeepsAsking ==
  ASSUME Shape, Main, ~ProcessEnds
  PROVE  /\ UNCHANGED <<config, queue, asking>>
         /\ \/ UNCHANGED daemon
            \/ /\ TruncateList
               /\ daemon.at = "send" /\ Asked = Playlist
               /\ daemon' = [daemon EXCEPT !.file.body = "lost"]
<1>1. CASE TruncateList
  BY <1>1 DEF TruncateList, Asked
<1>2. CASE ~TruncateList
  BY <1>2 DEF Main, CutExtension, MakeOrWipe, Wipe, WipeDone, SetSegno, WriteHeader,
              GrowSegment, FinishSegment, WriteList, NextSegment, Close
<1> QED
  BY <1>1, <1>2

LEMMA AdvancesKeep ==
  ASSUME Shape, Advances
  PROVE  /\ UNCHANGED <<config, mainVars, queue, asking>>
         /\ daemon'.who = daemon.who
         /\ daemon.at # "idle" /\ daemon'.at # "idle"
<1> USE DEF Shape, DaemonType, At
<1> QED
  BY DEF Advances, AskStatus, ReadLength, CopyId, ReadSegno, StartProbing,
         ProbeHits, ProbeMisses, OpenFile, MoveTo, At

LEMMA InitQueueInv == Init => QueueInv
BY DEF Init, QueueInv, Idle, NoRequest, Waits, Probes

LEMMA MainQueueInv ==
  ASSUME Shape, QueueInv, Main
  PROVE  QueueInv'
<1>1. CASE ProcessEnds
  BY <1>1 DEF ProcessEnds, QueueInv, Idle, NoRequest, Waits, Probes, Nothing, Status
<1>2. CASE ~ProcessEnds
  <2>1. UNCHANGED <<output, queue, request>>
    BY <1>2, MainKeepsAsking DEF config, asking
  <2>2. daemon'.at = daemon.at /\ daemon'.who = daemon.who
    BY <1>2, MainKeepsAsking DEF Shape, DaemonType
  <2> QED
    BY <2>1, <2>2 DEF QueueInv, Waits, Probes, Asked, IsStatus, PathLength
<1> QED
  BY <1>1, <1>2

LEMMA AskQueueInv ==
  ASSUME Shape, QueueInv, NEW c \in Clients, Ask(c)
  PROVE  QueueInv'
<1>1. PICK a \in IF output.muselive THEN {Status} ELSE Asks :
        request' = [request EXCEPT ![c] =
                      [ask |-> a, saw |-> IF a = Status THEN Shown ELSE NoStatus,
                       fresh |-> Opened, waited |-> 0]]
  BY DEF Ask
<1>2. a # Nothing /\ ~Waits(c)
  BY DEF Ask, Asks, Files, Segs, Playlist, Status, Nothing, Waits, NoRequest
<1>3. /\ queue \in Seq(Clients) /\ queue' = Append(queue, c)
      /\ UNCHANGED <<output, daemon>>
  BY DEF Shape, Ask, config
<1>4. /\ Len(queue') = Len(queue) + 1
      /\ \A i \in 1 .. Len(queue') :
           queue'[i] = IF i = Len(queue) + 1 THEN c ELSE queue[i]
  BY <1>3
<1>5. \A i \in 1 .. Len(queue) : queue[i] \in Clients /\ queue[i] # c
  BY <1>2, <1>3 DEF QueueInv
<1>6. request'[c].ask = a /\ \A d \in Clients : d # c => request'[d] = request[d]
  BY <1>1 DEF Shape
<1>7. daemon.who \in Clients /\ (daemon.at # "idle" => daemon.who # c)
  BY <1>2 DEF QueueInv, Shape, DaemonType
<1> USE DEF QueueInv
<1>8. \A i \in 1 .. Len(queue') : Waits(queue[i])'
  BY <1>2, <1>4, <1>5, <1>6 DEF Waits
<1>9. \A i, j \in 1 .. Len(queue') : queue'[i] = queue'[j] => i = j
  BY <1>3, <1>4, <1>5
<1>10. daemon'.at # "idle" =>
         /\ Waits(daemon.who)'
         /\ \A i \in 1 .. Len(queue') : queue'[i] # daemon'.who
  BY <1>3, <1>4, <1>6, <1>7 DEF Waits
<1>11. \A d \in Clients : Waits(d)' \/ request'[d] = NoRequest
  BY <1>2, <1>6 DEF Waits
<1>12. output'.muselive => \A d \in Clients : request'[d].ask \in {Nothing, Status}
  BY <1>1, <1>3, <1>6
<1>13. daemon.at # "idle" => Asked' = Asked
  BY <1>3, <1>6, <1>7 DEF Asked
<1>14. \A d \in Clients : Waits(d)' =>
         \/ daemon'.at # "idle" /\ d = daemon'.who
         \/ \E i \in 1 .. Len(queue') : queue'[i] = d
  <2> SUFFICES ASSUME NEW d \in Clients, Waits(d)', ~(daemon'.at # "idle" /\ d = daemon'.who)
               PROVE  \E i \in 1 .. Len(queue') : queue'[i] = d
    OBVIOUS
  <2>1. CASE d = c
    <3>1. Len(queue) + 1 \in 1 .. Len(queue')
      BY <1>3, <1>4
    <3> QED
      BY <1>4, <2>1, <3>1
  <2>2. CASE d # c
    <3>1. PICK i \in 1 .. Len(queue) : queue[i] = d
      BY <1>3, <1>6, <2>2 DEF Waits
    <3>2. i \in 1 .. Len(queue') /\ queue'[i] = queue[i]
      BY <1>3, <1>4, <3>1
    <3> QED
      BY <3>1, <3>2
  <2> QED
    BY <2>1, <2>2
<1> QED
  BY <1>3, <1>8, <1>9, <1>10, <1>11, <1>12, <1>13, <1>14
     DEF Probes, PathLength, IsStatus

LEMMA TakeQueueInv ==
  ASSUME Shape, QueueInv, Take
  PROVE  QueueInv'
<1>1. /\ queue \in Seq(Clients) /\ queue # <<>> /\ queue' = Tail(queue)
      /\ UNCHANGED <<output, request>>
      /\ daemon.at = "idle"
      /\ daemon'.at = "path" /\ daemon'.who = Head(queue)
  BY DEF Shape, DaemonType, Take, config, At
<1>2. /\ Len(queue) \in Nat \ {0} /\ Len(queue') = Len(queue) - 1
      /\ Head(queue) = queue[1]
      /\ \A i \in 1 .. Len(queue') : queue'[i] = queue[i + 1]
  BY <1>1
<1>3. \A i \in 1 .. Len(queue') : i + 1 \in 2 .. Len(queue)
  BY <1>2
<1> USE DEF QueueInv
<1>4. \A i \in 1 .. Len(queue') : Waits(queue[i])' /\ queue'[i] # daemon'.who
  BY <1>1, <1>2, <1>3 DEF Waits
<1>5. \A i, j \in 1 .. Len(queue') : queue'[i] = queue'[j] => i = j
  BY <1>2, <1>3
<1>6. Waits(daemon.who)'
  BY <1>1, <1>2 DEF Waits
<1>7. \A c \in Clients : Waits(c) => c = daemon'.who \/ \E i \in 1 .. Len(queue') : queue'[i] = c
  <2> SUFFICES ASSUME NEW c \in Clients, Waits(c), c # daemon'.who
               PROVE  \E i \in 1 .. Len(queue') : queue'[i] = c
    OBVIOUS
  <2>1. PICK j \in 1 .. Len(queue) : queue[j] = c
    BY <1>1
  <2>2. j - 1 \in 1 .. Len(queue') /\ queue'[j - 1] = queue[j]
    BY <1>1, <1>2, <2>1
  <2> QED
    BY <2>1, <2>2
<1> QED
  BY <1>1, <1>4, <1>5, <1>6, <1>7 DEF Waits, Probes

LEMMA AnswersReply == Answers => \E what, file, status : Reply(what, file, status)
BY DEF Answers, AnswerStatus, RefuseShortPath, NotFound, OpenGone, OpenEmpty, Send

(* What an answer does to those who wait: its client does no longer.       *)
LEMMA ReplyEffect ==
  ASSUME Shape, Answers
  PROVE  /\ UNCHANGED <<config, mainVars, queue, asked>>
         /\ daemon' = Idle
         /\ request'[daemon.who] = NoRequest
         /\ \A c \in Clients : c # daemon.who => request'[c] = request[c]
<1>1. PICK what, file, status : Reply(what, file, status)
  BY AnswersReply
<1> QED
  BY <1>1 DEF Reply, Shape, DaemonType

LEMMA AnswersQueueInv ==
  ASSUME Shape, QueueInv, Answers
  PROVE  QueueInv'
<1>1. daemon.at # "idle"
  BY DEF Answers, AnswerStatus, RefuseShortPath, NotFound, OpenGone, OpenEmpty, Send, At
<1>2. \A i \in 1 .. Len(queue) : queue[i] \in Clients /\ queue[i] # daemon.who
  BY <1>1 DEF Shape, QueueInv
<1>3. \A i \in 1 .. Len(queue) : Waits(queue[i])'
  BY <1>2, ReplyEffect DEF QueueInv, Waits
<1>4. \A c \in Clients : Waits(c)' \/ request'[c] = NoRequest
  BY ReplyEffect DEF QueueInv, Waits
<1>5. output.muselive => \A c \in Clients : request'[c].ask \in {Nothing, Status}
  BY ReplyEffect DEF QueueInv, NoRequest
<1>6. daemon'.at = "idle" /\ UNCHANGED <<output, queue>>
  BY ReplyEffect DEF Idle, config
<1>7. \A c \in Clients : Waits(c)' => \E i \in 1 .. Len(queue) : queue[i] = c
  <2> SUFFICES ASSUME NEW c \in Clients, request'[c].ask # Nothing
               PROVE  \E i \in 1 .. Len(queue) : queue[i] = c
    BY DEF Waits
  <2>1. c # daemon.who
    BY ReplyEffect DEF NoRequest
  <2>2. Waits(c)
    BY <2>1, ReplyEffect DEF Waits
  <2> QED
    BY <2>1, <2>2 DEF QueueInv
<1> QED
  BY <1>3, <1>4, <1>5, <1>6, <1>7 DEF QueueInv, Waits, Probes

LEMMA AdvancesQueueInv ==
  ASSUME Shape, QueueInv, Advances
  PROVE  QueueInv'
<1>1. /\ UNCHANGED <<output, queue, request>> /\ daemon'.who = daemon.who
      /\ daemon.at # "idle" /\ daemon'.at # "idle"
  BY AdvancesKeep DEF config, asking
<1>2. Probes' => Asked \in Files /\ ~output.muselive /\ PathLength(Asked) >= MinPath
  <2>1. CASE StartProbing
    <3>1. Asked \in Asks
      BY <1>1 DEF Shape, DaemonType, RequestType, QueueInv, Waits, Asked
    <3> QED
      BY <2>1, <3>1 DEF StartProbing, IsStatus, Asks
  <2>2. CASE ~StartProbing
    <3>1. Probes' => Probes
      BY <2>2 DEF Advances, AskStatus, ReadLength, CopyId, ReadSegno, ProbeHits,
                  ProbeMisses, OpenFile, Probes, At, MoveTo, Shape, DaemonType
    <3> QED
      BY <3>1 DEF QueueInv
  <2> QED
    BY <2>1, <2>2
<1>3. daemon'.at \in {"id", "copy", "seg", "sample"} => IsStatus
  BY DEF QueueInv, Advances, AskStatus, ReadLength, CopyId, ReadSegno, StartProbing,
         ProbeHits, ProbeMisses, OpenFile, At, MoveTo, Shape, DaemonType
<1> QED
  BY <1>1, <1>2, <1>3 DEF QueueInv, Waits, Asked, PathLength, IsStatus, Probes

LEMMA SleepQueueInv ==
  ASSUME Shape, QueueInv, Sleep
  PROVE  QueueInv'
<1>1. /\ UNCHANGED <<output, queue>> /\ daemon'.who = daemon.who
      /\ daemon.at = "sleep" /\ daemon'.at = "probe"
  BY DEF Sleep, config, Shape, DaemonType, At
<1>2. \A c \in Clients : request'[c].ask = request[c].ask
                          /\ (request[c] = NoRequest => request'[c] = NoRequest)
  BY DEF Sleep, Shape, RequestType
<1>3. daemon.who \in Clients /\ \A i \in 1 .. Len(queue) : queue[i] \in Clients
  BY DEF Shape, DaemonType
<1> QED
  BY <1>1, <1>2, <1>3 DEF QueueInv, Waits, Probes, Asked, PathLength, IsStatus

Base == Shape /\ QueueInv

LEMMA NextBase == Base /\ [Next]_vars => Base'
<1> SUFFICES ASSUME Base, [Next]_vars PROVE QueueInv'
  BY NextShape DEF Base
<1>1. CASE UNCHANGED vars
  BY <1>1 DEF Base, QueueInv, vars, config, asking, Waits, Probes, Asked, PathLength, IsStatus
<1> QED
  BY <1>1, MainQueueInv, AskQueueInv, TakeQueueInv, AnswersQueueInv, AdvancesQueueInv,
     SleepQueueInv DEF Base, Next, RenderGet, Answers, Advances

LEMMA BaseAlways == Spec => []Base
<1> QED
  BY InitShape, InitQueueInv, NextBase, PTL DEF Spec, Base

(* The command line does not change, and only an answer makes a reply.     *)
LEMMA ConfigKept == [Next]_vars => UNCHANGED config
BY DEF Next, Main, CutExtension, ProcessEnds, MakeOrWipe, Wipe, WipeDone, SetSegno,
       WriteHeader, GrowSegment, FinishSegment, TruncateList, WriteList, NextSegment,
       Close, Ask, Take, RenderGet, AskStatus, ReadLength, CopyId, ReadSegno,
       AnswerStatus, RefuseShortPath, StartProbing, ProbeHits, ProbeMisses, NotFound,
       Sleep, OpenGone, OpenEmpty, OpenFile, Send, Reply, vars

LEMMA ReplyChanges ==
  ASSUME Shape, [Next]_vars, ~Answers
  PROVE  UNCHANGED reply \/ reply' = NoReply
<1>1. CASE Main
  <2>1. CASE ProcessEnds
    BY <2>1 DEF ProcessEnds
  <2>2. CASE ~ProcessEnds
    BY <1>1, <2>2, MainKeepsAsking DEF asking
  <2> QED
    BY <2>1, <2>2
<1>2. CASE (\E c \in Clients : Ask(c)) \/ Take \/ Sleep
  BY <1>2 DEF Ask, Take, Sleep
<1>3. CASE Advances
  BY <1>3, AdvancesKeep DEF asking
<1>4. CASE UNCHANGED vars
  BY <1>4 DEF vars, asking
<1> QED
  BY <1>1, <1>2, <1>3, <1>4 DEF Next, RenderGet, Answers, Advances

-----------------------------------------------------------------------------
(* The probes *)

LEMMA Quotient ==
  ASSUME Shape
  PROVE  /\ term \div ProbeMs \in Nat
         /\ ProbeMs * (term \div ProbeMs) <= term
         /\ term < ProbeMs * (term \div ProbeMs) + ProbeMs
BY FileServerAssumption DEF Shape

LEMMA NextProbeInv ==
  ASSUME Base, ProbeInv, [Next]_vars
  PROVE  ProbeInv'
<1>1. Shape /\ term \div ProbeMs \in Nat /\ Most' = Most /\ Most \in Nat
  BY ConfigKept, Quotient DEF Base, Most, config
<1>2. daemon.repeat \in Nat /\ daemon.slept \in Nat
  BY <1>1 DEF Shape, DaemonType
<1>3. CASE daemon' = Idle
  BY <1>1, <1>3 DEF ProbeInv, Idle
<1>4. ASSUME daemon'.at = daemon.at, daemon'.repeat = daemon.repeat,
             daemon'.slept = daemon.slept
      PROVE  ProbeInv'
  BY <1>1, <1>4 DEF ProbeInv
<1>5. CASE Main
  <2>1. CASE ProcessEnds
    BY <1>3, <2>1 DEF ProcessEnds
  <2>2. CASE ~ProcessEnds
    BY <1>1, <1>4, <1>5, <2>2, MainKeepsAsking DEF Shape, DaemonType
  <2> QED
    BY <2>1, <2>2
<1>6. CASE \E c \in Clients : Ask(c)
  BY <1>4, <1>6 DEF Ask
<1>7. CASE Take
  BY <1>1, <1>7 DEF Take, At, ProbeInv, Shape, DaemonType
<1>8. CASE Answers
  BY <1>1, <1>3, <1>8, ReplyEffect
<1>9. CASE Advances
  <2>1. CASE ProbeMisses
    BY <1>1, <1>2, <2>1 DEF ProbeMisses, At, LastProbe, ProbeInv, Most, Shape, DaemonType
  <2>2. CASE ~ProbeMisses
    BY <1>1, <1>2, <1>9, <2>2
       DEF Advances, AskStatus, ReadLength, CopyId, ReadSegno, StartProbing, ProbeHits,
           OpenFile, MoveTo, At, ProbeInv, Shape, DaemonType
  <2> QED
    BY <2>1, <2>2
<1>10. CASE Sleep
  BY <1>1, <1>2, <1>10 DEF Sleep, At, ProbeInv, Shape, DaemonType
<1>11. CASE UNCHANGED vars
  BY <1>4, <1>11 DEF vars
<1> QED
  BY <1>5, <1>6, <1>7, <1>8, <1>9, <1>10, <1>11 DEF Next, RenderGet, Answers, Advances

LEMMA ProbeInvAlways == Spec => []ProbeInv
<1>1. Init => ProbeInv
  <2> SUFFICES ASSUME Init PROVE ProbeInv
    OBVIOUS
  <2>1. term \div ProbeMs \in Nat
    BY InitShape, Quotient
  <2> QED
    BY <2>1 DEF Init, ProbeInv, Most, Idle
<1> QED
  BY <1>1, NextProbeInv, BaseAlways, PTL DEF Spec

(* At the last probe of a search one sleep more has passed than the term   *)
(* has whole probes.                                                       *)
LEMMA NotFoundStep ==
  ASSUME Base, ProbeInv, NotFound
  PROVE  NotFoundAfterTerm'
<1> DEFINE q == term \div ProbeMs
<1>1. /\ q \in Nat /\ term \in Nat /\ ProbeMs \in Nat
      /\ ProbeMs * q <= term /\ term < ProbeMs * q + ProbeMs
  BY Quotient, FileServerAssumption DEF Base, Shape
<1>2. daemon.slept = q + 1
  <2>1. daemon.repeat > q /\ daemon.repeat <= q + 1 /\ daemon.slept = daemon.repeat
    BY DEF NotFound, At, LastProbe, ProbeInv, Most
  <2>2. daemon.repeat \in Nat
    BY DEF Base, Shape, DaemonType
  <2> HIDE DEF q
  <2> QED
    BY <1>1, <2>1, <2>2
<1>3. reply'.slept = daemon.slept /\ term' = term
  BY DEF NotFound, Reply, config
<1> HIDE DEF q
<1>4. (q + 1) * ProbeMs = ProbeMs * q + ProbeMs
  BY <1>1
<1>5. reply'.slept * ProbeMs = ProbeMs * q + ProbeMs
  BY <1>2, <1>3, <1>4
<1> QED
  BY <1>1, <1>3, <1>5 DEF NotFoundAfterTerm

(* "File Not Found" is said only when the check term has passed in sleeps, *)
(* and less than two probes later, for every -t.                           *)
THEOREM SearchesKeepTheTerm == Spec => []NotFoundAfterTerm
<1>1. Init => NotFoundAfterTerm
  BY DEF Init, NotFoundAfterTerm, Replied, NoReply
<1>2. Base /\ ProbeInv /\ NotFoundAfterTerm /\ [Next]_vars => NotFoundAfterTerm'
  <2> SUFFICES ASSUME Base, ProbeInv, NotFoundAfterTerm, [Next]_vars
               PROVE  NotFoundAfterTerm'
    OBVIOUS
  <2>1. CASE NotFound
    BY <2>1, NotFoundStep
  <2>2. CASE Answers /\ ~NotFound
    BY <2>2 DEF Answers, AnswerStatus, RefuseShortPath, OpenGone, OpenEmpty, Send,
                Reply, NotFoundAfterTerm, Replied
  <2>3. CASE ~Answers
    BY <2>3, ReplyChanges, ConfigKept
       DEF Base, NotFoundAfterTerm, Replied, NoReply, config
  <2> QED
    BY <2>1, <2>2, <2>3
<1> QED
  BY <1>1, <1>2, BaseAlways, ProbeInvAlways, PTL DEF Spec

-----------------------------------------------------------------------------
(* The disk *)

LEMMA OthersKeepMain == [Next]_vars /\ ~Main => UNCHANGED mainVars
BY DEF Next, Ask, Take, RenderGet, AskStatus, ReadLength, CopyId, ReadSegno,
       AnswerStatus, RefuseShortPath, StartProbing, ProbeHits, ProbeMisses, NotFound,
       Sleep, OpenGone, OpenEmpty, OpenFile, Send, Reply, vars

LEMMA SegsAreFiles ==
  /\ Playlist \in Files /\ Playlist \notin Segs
  /\ \A s \in Segs : s \in Files /\ s \in Nat
  /\ 0 \in Segs
BY FileServerAssumption DEF Files, Segs, Playlist

(* What the server finds: a file of the muxer's in its own directory, an   *)
(* earlier session's in another.                                           *)
LEMMA ServedFacts ==
  ASSUME Shape, DiskInv, NEW f \in Files
  PROVE  /\ Exists(f) => Served(f).sess # "none" /\ Served(f).body \in Written
         /\ root = "cwd" => Served(f) = disk[f]
         /\ root # "cwd" /\ Exists(f) => Served(f).sess = "old"
         /\ root # "cwd" => Served(f).sess # "new"
         /\ f \in Segs => Served(f).lists = {}
BY DEF DiskInv, Exists, Served, NoFile

LEMMA MainKeepsElsewhere == Main => UNCHANGED config
BY DEF Main, CutExtension, ProcessEnds, MakeOrWipe, Wipe, WipeDone, SetSegno,
       WriteHeader, GrowSegment, FinishSegment, TruncateList, WriteList, NextSegment,
       Close

LEMMA MainDiskInv ==
  ASSUME Shape, DiskInv, Main
  PROVE  DiskInv'
<1>0. UNCHANGED elsewhere
  BY MainKeepsElsewhere DEF config
<1> USE <1>0
<1>1. CASE CutExtension
  BY <1>1 DEF CutExtension, Go, muxer, DiskInv, Opened
<1>2. CASE ProcessEnds
  BY <1>2 DEF ProcessEnds, Go, muxer, DiskInv, Opened
<1>3. CASE MakeOrWipe
  BY <1>3 DEF MakeOrWipe, Go, DiskInv, Opened, NoFile
<1>4. CASE Wipe
  BY <1>4 DEF Wipe, Wiping, Shape, DiskInv, Opened, NoFile, Files, config
<1>5. CASE WipeDone
  BY <1>5 DEF WipeDone, Go, muxer, DiskInv, Opened, NoFiles, NoFile
<1>6. CASE SetSegno
  BY <1>6 DEF SetSegno, Go, muxer, DiskInv, Opened
<1>7. CASE WriteHeader
  BY <1>7, SegsAreFiles DEF WriteHeader, Go, Shape, DiskInv, Opened, File, Written
<1>8. CASE GrowSegment
  <2>1. main = "mux" /\ UNCHANGED <<main, dir, seg>> /\ seg \in Segs /\ seg \in Files
    BY <1>8, SegsAreFiles DEF GrowSegment, Shape
  <2>2. disk[seg].body = "empty" /\ disk' = [disk EXCEPT ![seg].body = "part"]
    BY <1>8 DEF GrowSegment
  <2>3. /\ \A f \in Files : f # seg => disk'[f] = disk[f]
        /\ disk'[seg].body = "part" /\ disk'[seg].sess = disk[seg].sess
        /\ disk'[seg].lists = disk[seg].lists
    BY <2>1, <2>2 DEF Shape, FileType
  <2>4. disk[seg] # NoFile
    BY <2>2 DEF NoFile
  <2> QED
    BY <2>1, <2>3, <2>4, SegsAreFiles DEF DiskInv, Opened, Written
<1>9. CASE FinishSegment
  BY <1>9, SegsAreFiles DEF FinishSegment, Go, Shape, DiskInv, Opened, File, Written, Whole
<1>10. CASE TruncateList
  BY <1>10, SegsAreFiles DEF TruncateList, Shape, DiskInv, Opened, File, Written
<1>11. CASE WriteList
  BY <1>11, SegsAreFiles DEF WriteList, Go, Shape, DiskInv, Opened, File, Written
<1>12. CASE NextSegment
  <2>1. seg + 1 \in Segs /\ main = "next" /\ main' = "mux" /\ seg' = seg + 1
    BY <1>12, FileServerAssumption DEF NextSegment, Go, Shape, Segs
  <2>2. \A s \in Segs : s < seg + 1 => disk[s] = Whole
    BY <2>1 DEF DiskInv, Opened, Shape, Segs
  <2>3. disk' = [disk EXCEPT ![seg + 1] = File("new", "empty", {})]
    BY <1>12 DEF NextSegment
  <2> QED
    BY <2>1, <2>2, <2>3, SegsAreFiles DEF Shape, DiskInv, Opened, File, Written
<1>13. CASE Close
  BY <1>13 DEF Close, Go, muxer, DiskInv, Opened
<1> QED
  BY <1>1, <1>2, <1>3, <1>4, <1>5, <1>6, <1>7, <1>8, <1>9, <1>10, <1>11, <1>12,
     <1>13 DEF Main

LEMMA InitDiskInv == Init => DiskInv
<1> SUFFICES ASSUME Init PROVE DiskInv
  OBVIOUS
<1>0. /\ \A s \in Segs : elsewhere[s].lists = {}
      /\ \A f \in Files : \/ elsewhere[f] = NoFile
                          \/ elsewhere[f].sess = "old" /\ elsewhere[f].body \in Written
  <2>1. elsewhere = NoFiles \/ elsewhere = Left(0)
    BY DEF Init
  <2>2. CASE elsewhere = NoFiles
    BY <2>2, SegsAreFiles DEF NoFiles, NoFile
  <2>3. CASE elsewhere = Left(0)
    BY <2>3, SegsAreFiles DEF Left, NoFile, File, Written
  <2> QED
    BY <2>1, <2>2, <2>3
<1>1. CASE disk = NoFiles
  BY <1>0, <1>1, SegsAreFiles DEF Init, DiskInv, NoFiles, NoFile, Opened
<1>2. CASE dir = TRUE /\ disk = Left(0)
  BY <1>0, <1>2, SegsAreFiles DEF Init, DiskInv, Left, NoFile, File, Written, Opened
<1> QED
  BY <1>1, <1>2 DEF Init

LEMMA DiskInvAlways == Spec => []DiskInv
<1>1. Base /\ DiskInv /\ [Next]_vars => DiskInv'
  <2>1. DiskInv /\ UNCHANGED <<config, mainVars>> => DiskInv'
    BY DEF config, mainVars, muxer, DiskInv, Opened
  <2> QED
    BY <2>1, MainDiskInv, OthersKeepMain, ConfigKept DEF Base
<1> QED
  BY <1>1, InitDiskInv, BaseAlways, PTL DEF Spec

-----------------------------------------------------------------------------
(* Requests made after Open *)

LEMMA OpenedStays ==
  ASSUME Main, ~ProcessEnds, Opened
  PROVE  Opened'
BY DEF Main, CutExtension, MakeOrWipe, Wipe, Wiping, WipeDone, SetSegno, WriteHeader,
       GrowSegment, FinishSegment, TruncateList, WriteList, NextSegment, Close, Opened, Go

(* Once the session is open no file disappears.                            *)
LEMMA FilesStay ==
  ASSUME Shape, DiskInv, Main, Opened, NEW f \in Files, Exists(f)
  PROVE  Exists(f)'
<1>1. ASSUME disk[f] # NoFile PROVE disk'[f] # NoFile
  <2>1. CASE GrowSegment
    BY <1>1, <2>1 DEF GrowSegment, Shape, NoFile, FileType
  <2>2. CASE ~GrowSegment
    BY <1>1, <2>2 DEF Main, CutExtension, ProcessEnds, MakeOrWipe, Wipe, Wiping, WipeDone,
                SetSegno, WriteHeader, FinishSegment, TruncateList, WriteList, NextSegment,
                Close, Opened, Shape, NoFile, File, muxer
  <2> QED
    BY <2>1, <2>2
<1>2. UNCHANGED <<root, elsewhere>>
  BY MainKeepsElsewhere DEF config
<1> QED
  BY <1>1, <1>2 DEF Exists, Served

LEMMA MainFreshInv ==
  ASSUME Base, DiskInv, FreshInv, Main
  PROVE  FreshInv'
<1>1. CASE ProcessEnds
  BY <1>1 DEF ProcessEnds, FreshInv, Idle, NoRequest, NoReply, Replied
<1>2. CASE ~ProcessEnds
  <2>1. UNCHANGED <<request, reply>>
    BY <1>2, MainKeepsAsking DEF Base, asking
  <2>2. /\ daemon'.at = daemon.at /\ daemon'.who = daemon.who
        /\ daemon'.file.sess = daemon.file.sess
        /\ \/ daemon'.file.body = daemon.file.body
           \/ daemon'.file.body = "lost" /\ Asked = Playlist
    BY <1>2, MainKeepsAsking DEF Base, Shape, DaemonType, FileType
  <2>3. \A c \in Clients : request'[c].fresh => Opened'
    BY <1>2, <2>1, OpenedStays DEF FreshInv
  <2>4. daemon'.at = "open" /\ request'[daemon'.who].fresh => Exists(Asked)'
    <3> SUFFICES ASSUME daemon.at = "open", request[daemon.who].fresh
                 PROVE  Exists(Asked)'
      BY <2>1, <2>2
    <3>1. Asked \in Files /\ Asked' = Asked
      BY <2>1, <2>2 DEF Base, QueueInv, Probes, Asked
    <3>2. Opened /\ Exists(Asked)
      BY DEF FreshInv, Base, Shape, DaemonType
    <3> HIDE DEF Asked
    <3>3. \A f \in Files : Exists(f) => Exists(f)'
      BY <3>2, FilesStay DEF Base
    <3> QED
      BY <3>1, <3>2, <3>3 DEF Exists, Served
  <2>5. UNCHANGED root
    BY MainKeepsElsewhere DEF config
  <2> QED
    BY <2>1, <2>2, <2>3, <2>4, <2>5 DEF FreshInv, Replied, Asked
<1> QED
  BY <1>1, <1>2

LEMMA AnswersFreshInv ==
  ASSUME Base, FreshInv, Answers
  PROVE  FreshInv'
<1>1. \A c \in Clients : request'[c].fresh => Opened'
  BY ReplyEffect DEF Base, FreshInv, NoRequest, mainVars, Opened
<1>2. daemon'.at = "idle"
  BY ReplyEffect DEF Base, Idle
<1>3. Replied("file")' => reply'.file.body # "none"
  BY DEF Answers, AnswerStatus, RefuseShortPath, NotFound, OpenGone, OpenEmpty, Send,
         Reply, Replied, At, FreshInv
<1> QED
  BY <1>1, <1>2, <1>3 DEF FreshInv

LEMMA AdvancesFreshInv ==
  ASSUME Base, DiskInv, FreshInv, Advances
  PROVE  FreshInv'
<1>1. /\ UNCHANGED <<root, elsewhere, main, disk, request, reply>>
      /\ daemon'.who = daemon.who /\ daemon.who \in Clients
  BY AdvancesKeep DEF Base, config, mainVars, muxer, asking, Shape, DaemonType
<1>2. Asked' = Asked
  BY <1>1 DEF Asked
<1>3. daemon'.at = "open" => Exists(Asked)
  BY DEF Advances, AskStatus, ReadLength, CopyId, ReadSegno, StartProbing, ProbeHits,
         ProbeMisses, OpenFile, MoveTo, Base, Shape, DaemonType
<1>4. CASE OpenFile
  <2>1. /\ Asked \in Files /\ Exists(Asked)
        /\ daemon'.at = "send" /\ daemon'.file = Served(Asked)
    BY <1>4 DEF OpenFile, At, Base, Shape, DaemonType, QueueInv, Probes
  <2>2. /\ Served(Asked).sess # "none" /\ Served(Asked).body \in Written
        /\ root # "cwd" => Served(Asked).sess = "old"
        /\ root = "cwd" => Served(Asked) = disk[Asked]
    BY <2>1, ServedFacts DEF Base
  <2>3. root = "cwd" /\ request[daemon.who].fresh => Served(Asked).sess = "new"
    <3>1. Opened => disk[Asked].sess # "old"
      BY <2>1 DEF DiskInv, Opened
    <3>2. disk[Asked] \in FileType
      BY <2>1 DEF Base, Shape
    <3> QED
      BY <1>1, <2>2, <3>1, <3>2 DEF FreshInv, FileType
  <2> QED
    BY <1>1, <1>2, <2>1, <2>2, <2>3 DEF FreshInv, Written, Opened, Replied
<1>5. CASE ~OpenFile
  <2>1. daemon'.at # "send"
    BY <1>5 DEF Advances, AskStatus, ReadLength, CopyId, ReadSegno, StartProbing,
                ProbeHits, ProbeMisses, MoveTo, Base, Shape, DaemonType
  <2> QED
    BY <1>1, <1>2, <1>3, <2>1 DEF FreshInv, Exists, Served, Opened, Replied
<1> QED
  BY <1>4, <1>5

LEMMA AskFreshInv ==
  ASSUME Base, FreshInv, NEW c \in Clients, Ask(c)
  PROVE  FreshInv'
<1>1. ~Waits(c)
  BY DEF Ask, Waits, NoRequest
<1>2. UNCHANGED <<root, elsewhere, main, disk, daemon, reply>>
  BY DEF Ask, config, mainVars, muxer
<1>3. request'[c].fresh = Opened /\ \A d \in Clients : d # c => request'[d] = request[d]
  BY DEF Ask, Base, Shape
<1>4. daemon.at # "idle" => daemon.who # c /\ daemon.who \in Clients
  BY <1>1 DEF Base, QueueInv, Shape, DaemonType
<1> QED
  BY <1>2, <1>3, <1>4 DEF FreshInv, Opened, Exists, Served, Asked, Replied

LEMMA FreshInvAlways == Spec => []FreshInv
<1>1. Init => FreshInv
  BY DEF Init, FreshInv, Idle, NoRequest, NoReply, Replied
<1>2. ASSUME Base, DiskInv, FreshInv, [Next]_vars PROVE FreshInv'
  <2>1. CASE Take
    <3>1. daemon'.at = "path" /\ reply' = NoReply /\ UNCHANGED <<main, request>>
      BY <2>1 DEF Take, mainVars, Base, Shape, DaemonType
    <3> QED
      BY <1>2, <3>1 DEF FreshInv, Opened, Replied, NoReply
  <2>2. CASE Sleep
    <3>1. daemon'.at = "probe" /\ UNCHANGED <<main, reply>>
      BY <1>2, <2>2 DEF Sleep, mainVars, Base, Shape, DaemonType
    <3>2. \A c \in Clients : request'[c].fresh = request[c].fresh
      BY <1>2, <2>2 DEF Sleep, Base, Shape, RequestType
    <3> QED
      BY <1>2, <3>1, <3>2 DEF FreshInv, Opened, Replied
  <2>3. CASE UNCHANGED vars
    BY <1>2, <2>3 DEF vars, config, mainVars, muxer, asking, FreshInv, Opened, Exists, Served, Asked, Replied
  <2> QED
    BY <1>2, <2>1, <2>2, <2>3, MainFreshInv, AskFreshInv, AnswersFreshInv, AdvancesFreshInv
       DEF Next, RenderGet, Answers, Advances
<1> QED
  BY <1>1, <1>2, BaseAlways, DiskInvAlways, PTL DEF Spec

(* The variables keep to the values the code can give them, and what the   *)
(* daemon serves is a file it has found.                                   *)
THEOREM TypeCorrect == Spec => []TypeOK
<1>1. Shape /\ FreshInv => TypeOK
  <2> SUFFICES ASSUME Shape, FreshInv PROVE TypeOK
    OBVIOUS
  <2>1. reply = NoReply \/ /\ reply.file \in FileType
                           /\ reply.status \in StatusType
                           /\ reply.what = "file" => reply.file # NoFile
    BY DEF Shape, FreshInv, Replied, ReplyType, NoFile
  <2>2. daemon \in DaemonType
    BY DEF Shape
  <2> QED
    BY <2>1, <2>2 DEF Shape, FreshInv, TypeOK, MainType, DaemonType
<1> QED
  BY <1>1, BaseAlways, FreshInvAlways, PTL DEF Base

(* Where the server's root is the working directory, what a request that   *)
(* came after Open is answered with belongs to the running session; under  *)
(* another root all files that are served are an earlier session's.        *)
THEOREM OldSessionIsOver == Spec => []OldSessionOver
<1>1. Init => OldSessionOver
  BY DEF Init, OldSessionOver, Replied, NoReply
<1>2. ASSUME Base, DiskInv, FreshInv, OldSessionOver, [Next]_vars PROVE OldSessionOver'
  <2>1. CASE OpenEmpty
    <3>1. /\ Asked \in Files /\ Exists(Asked) /\ daemon.who \in Clients
          /\ reply'.file = Served(Asked) /\ reply'.to = [request[daemon.who] EXCEPT !.waited = 0]
          /\ UNCHANGED root
      BY <1>2, <2>1 DEF OpenEmpty, At, Reply, config, Base, QueueInv, Probes, Shape, DaemonType
    <3>2. reply'.to.fresh = request[daemon.who].fresh
      BY <1>2, <3>1 DEF Base, Shape, RequestType
    <3>3. /\ Served(Asked).sess # "none"
          /\ root # "cwd" => Served(Asked).sess = "old"
          /\ root = "cwd" => Served(Asked) = disk[Asked]
      BY <1>2, <3>1, ServedFacts DEF Base
    <3>4. request[daemon.who].fresh => disk[Asked].sess # "old"
      BY <1>2, <3>1 DEF FreshInv, DiskInv, Opened
    <3>5. disk[Asked].sess \in {"none", "old", "new"}
      BY <1>2, <3>1 DEF Base, Shape, FileType
    <3> QED
      BY <3>1, <3>2, <3>3, <3>4, <3>5 DEF OldSessionOver
  <2>2. CASE Send
    <3>1. /\ daemon.at = "send"
          /\ reply'.to = [request[daemon.who] EXCEPT !.waited = 0]
          /\ Replied("file")' => reply'.file = daemon.file
          /\ UNCHANGED root
      BY <2>2 DEF Send, At, Reply, Replied, config
    <3>2. reply'.to.fresh = request[daemon.who].fresh
      BY <1>2, <3>1 DEF Base, Shape, RequestType, DaemonType
    <3> QED
      BY <1>2, <3>1, <3>2 DEF OldSessionOver, FreshInv, Base, Shape, DaemonType, RequestType
  <2>3. CASE Answers /\ ~OpenEmpty /\ ~Send
    BY <2>3 DEF Answers, AnswerStatus, RefuseShortPath, NotFound, OpenGone, Reply,
                OldSessionOver, Replied
  <2>4. CASE ~Answers
    BY <1>2, <2>4, ReplyChanges, ConfigKept DEF config, Base, OldSessionOver, Replied, NoReply
  <2> QED
    BY <2>1, <2>2, <2>3, <2>4
<1> QED
  BY <1>1, <1>2, BaseAlways, DiskInvAlways, FreshInvAlways, PTL DEF Spec

(* An answer breaks off, or is made of nothing, only when Open is still    *)
(* wiping or when it is the playlist that is written meanwhile.            *)
THEOREM AnswersAreDelivered == Spec => []BrokenOnlyByWipe
<1>1. Init => BrokenOnlyByWipe
  BY DEF Init, BrokenOnlyByWipe, Replied, NoReply
<1>2. ASSUME Base, FreshInv, BrokenOnlyByWipe, [Next]_vars PROVE BrokenOnlyByWipe'
  <2>1. CASE OpenGone \/ Send
    <3>1. reply'.to = [request[daemon.who] EXCEPT !.waited = 0]
      BY <2>1 DEF OpenGone, Send, Reply
    <3>2. reply'.to.fresh = request[daemon.who].fresh /\ reply'.to.ask = Asked
      BY <1>2, <3>1 DEF Base, Shape, RequestType, DaemonType, Asked
    <3>3. OpenGone => ~request[daemon.who].fresh
      BY <1>2 DEF OpenGone, At, FreshInv
    <3>4. Send /\ Replied("broken")' => Asked = Playlist
      BY <1>2 DEF Send, At, FreshInv, Reply, Replied
    <3> QED
      BY <2>1, <3>2, <3>3, <3>4 DEF BrokenOnlyByWipe
  <2>2. CASE Answers /\ ~OpenGone /\ ~Send
    BY <2>2 DEF Answers, AnswerStatus, RefuseShortPath, NotFound, OpenEmpty, Reply,
                BrokenOnlyByWipe, Replied
  <2>3. CASE ~Answers
    BY <1>2, <2>3, ReplyChanges DEF Base, BrokenOnlyByWipe, Replied, NoReply
  <2> QED
    BY <2>1, <2>2, <2>3
<1> QED
  BY <1>1, <1>2, BaseAlways, FreshInvAlways, PTL DEF Spec

-----------------------------------------------------------------------------
(* Playlists *)

(* A segment that is whole and listed is not written again.                *)
LEMMA ListsStay ==
  ASSUME Shape, DiskInv, Main, NEW f \in FileType, Lists(f)
  PROVE  Lists(f)'
<1> SUFFICES ASSUME f.sess = "new"
             PROVE  /\ main' \notin {"cut", "dir", "wipe", "segno", "header"}
                    /\ \A s \in f.lists : s \in 0 .. seg' /\ disk'[s] = Whole
  BY DEF Lists
<1>1. /\ main \notin {"cut", "dir", "wipe", "segno", "header"}
      /\ \A s \in f.lists : s \in 0 .. seg /\ disk[s] = Whole
  BY DEF Lists
<1>2. f.lists \subseteq Segs /\ seg \in Nat /\ seg \in Files
  BY SegsAreFiles DEF FileType, Shape
<1>3. CASE ProcessEnds \/ Close
  BY <1>1, <1>2, <1>3 DEF ProcessEnds, Close, Go, muxer
<1>4. CASE GrowSegment
  BY <1>1, <1>2, <1>4 DEF GrowSegment, Shape, Whole, File
<1>5. CASE FinishSegment
  BY <1>1, <1>2, <1>5 DEF FinishSegment, Go, Shape, Whole
<1>6. CASE TruncateList
  BY <1>1, <1>2, <1>6, SegsAreFiles DEF TruncateList, Shape
<1>7. CASE WriteList
  BY <1>1, <1>2, <1>7, SegsAreFiles DEF WriteList, Go, Shape
<1>8. CASE NextSegment
  BY <1>1, <1>2, <1>8 DEF NextSegment, Go, Shape
<1> QED
  BY <1>1, <1>3, <1>4, <1>5, <1>6, <1>7, <1>8
     DEF Main, CutExtension, MakeOrWipe, Wipe, Wiping, WipeDone, SetSegno, WriteHeader

(* The muxer lists what it has finished.                                   *)
LEMMA PlaylistListsWhole ==
  ASSUME Shape, DiskInv, Lists(disk[Playlist]), Main
  PROVE  Lists(disk[Playlist])'
<1>1. disk[Playlist] \in FileType
  BY SegsAreFiles DEF Shape
<1>2. CASE disk'[Playlist] = disk[Playlist]
  BY <1>1, <1>2, ListsStay DEF Lists
<1>3. CASE TruncateList
  BY <1>3, SegsAreFiles DEF TruncateList, Shape, File, Lists
<1>4. CASE WriteList
  <2>1. disk'[Playlist] = File("new", "whole", Listed)
    BY <1>4, SegsAreFiles DEF WriteList, Shape
  <2>2. main' \in {"next", "closed"} /\ main \in {"list", "last"} /\ seg' = seg
    BY <1>4 DEF WriteList, Go
  <2>3. \A s \in Listed : s \in Segs /\ s \in 0 .. seg
    BY FileServerAssumption DEF Listed, Shape, Segs
  <2>4. \A s \in Listed : disk[s] = Whole
    BY <2>2, <2>3 DEF DiskInv, Opened, Shape, Segs
  <2>5. \A s \in Listed : disk'[s] = Whole
    BY <1>4, <2>3, <2>4, SegsAreFiles DEF WriteList, Shape
  <2> QED
    BY <2>1, <2>2, <2>3, <2>5 DEF Lists, File
<1>5. CASE ~TruncateList /\ ~WriteList
  <2>1. CASE disk'[Playlist] = NoFile
    BY <2>1 DEF Lists, NoFile
  <2>2. CASE Wipe
    <3>1. disk'[Playlist] = disk[Playlist] \/ disk'[Playlist] = NoFile
      BY <2>2, SegsAreFiles DEF Wipe, Shape
    <3> QED
      BY <1>2, <2>1, <3>1
  <2>3. CASE disk'[Playlist] # NoFile /\ ~Wipe
    BY <1>2, <1>5, <2>3, SegsAreFiles
       DEF Main, CutExtension, ProcessEnds, MakeOrWipe, WipeDone, SetSegno,
           WriteHeader, GrowSegment, FinishSegment, NextSegment, Close, Shape, muxer, Segs
  <2> QED
    BY <2>1, <2>2, <2>3
<1> QED
  BY <1>3, <1>4, <1>5

LEMMA MainListInv ==
  ASSUME Base, DiskInv, ListInv, Main
  PROVE  ListInv'
<1>1. Lists(disk[Playlist])'
  BY PlaylistListsWhole DEF Base, ListInv
<1>2. UNCHANGED <<holds, output, root>>
  BY MainKeepsAsking DEF Base, ProcessEnds, asking, config
<1>3. \A c \in Clients : Lists(holds[c])' /\ Given(holds[c])'
  <2> SUFFICES ASSUME NEW c \in Clients PROVE Lists(holds[c])' /\ Given(holds[c])'
    OBVIOUS
  <2>1. holds[c] \in FileType /\ Lists(holds[c]) /\ Given(holds[c])
    BY DEF Base, Shape, ListInv
  <2> QED
    BY <1>2, <2>1, ListsStay DEF Base, Lists, Given
<1>4. CASE ProcessEnds
  BY <1>1, <1>3, <1>4 DEF ProcessEnds, Idle, ListInv
<1>5. CASE ~ProcessEnds
  <2>1. UNCHANGED request /\ daemon'.at = daemon.at /\ daemon'.who = daemon.who
          /\ daemon'.file.sess = daemon.file.sess /\ daemon'.file.lists = daemon.file.lists
          /\ (daemon'.file = daemon.file \/ Asked = Playlist)
    BY <1>5, MainKeepsAsking DEF Base, Shape, DaemonType, FileType, asking
  <2>2. Asked' = Asked /\ daemon.who \in Clients /\ daemon.file \in FileType
    BY <2>1 DEF Asked, Base, Shape, DaemonType
  <2>3. Lists(daemon.file) => Lists(daemon.file)'
    BY <2>1, <2>2, ListsStay DEF Base, Lists
  <2>4. holds[daemon.who].lists \subseteq Segs
    BY <2>2 DEF Base, Shape, FileType
  <2> HIDE DEF Asked
  <2> QED
    BY <1>1, <1>2, <1>3, <2>1, <2>2, <2>3, <2>4, SegsAreFiles DEF ListInv
<1> QED
  BY <1>4, <1>5

(* What the daemon opens lists what is written, and lists it because it    *)
(* was asked for as the playlist.                                          *)
LEMMA OpenedFileLists ==
  ASSUME Base, DiskInv, ListInv, daemon.at = "open", Exists(Asked)
  PROVE  /\ Lists(Served(Asked)) /\ Given(Served(Asked))
         /\ Asked # Playlist => Served(Asked).lists = {}
<1>1. Asked \in Files /\ ~output.muselive /\ PathLength(Asked) >= MinPath
  BY DEF Base, QueueInv, Probes
<1>0. /\ root = "cwd" => Served(Asked) = disk[Asked]
      /\ root # "cwd" => Served(Asked).sess # "new"
      /\ Asked \in Segs => Served(Asked).lists = {}
  BY <1>1, ServedFacts DEF Base
<1> HIDE DEF Asked
<1>2. CASE Asked = Playlist
  BY <1>0, <1>1, <1>2 DEF ListInv, Lists, Given, PathLength
<1>3. CASE Asked # Playlist
  <2>1. Asked \in Segs
    BY <1>1, <1>3 DEF Files
  <2>2. disk[Asked].sess = "new" =>
          main \notin {"cut", "dir", "wipe", "segno", "header"}
    BY <1>1 DEF DiskInv
  <2> QED
    BY <1>0, <2>1, <2>2 DEF Lists, Given
<1> QED
  BY <1>2, <1>3

LEMMA AnswersListInv ==
  ASSUME Base, DiskInv, FreshInv, ListInv, Answers
  PROVE  ListInv'
<1>1. UNCHANGED <<output, root, main, disk, seg>> /\ daemon'.at = "idle"
  BY ReplyEffect DEF Base, config, mainVars, muxer, Idle
<1>2. PICK what, file, status :
        /\ Reply(what, file, status)
        /\ \/ file = NoFile
           \/ daemon.at = "open" /\ Exists(Asked) /\ file = Served(Asked)
           \/ daemon.at = "send" /\ file = daemon.file
  BY DEF Answers, AnswerStatus, RefuseShortPath, NotFound, OpenGone, OpenEmpty, Send, At
<1>3. Lists(file) /\ Given(file)
  <2>1. CASE file = NoFile
    BY <2>1 DEF NoFile, Lists, Given
  <2>2. CASE daemon.at = "open" /\ Exists(Asked) /\ file = Served(Asked)
    BY <2>2, OpenedFileLists
  <2>3. CASE daemon.at = "send" /\ file = daemon.file
    <3>1. ~output.muselive /\ PathLength(Asked) >= MinPath
      BY <2>3 DEF Base, QueueInv, Probes
    <3>2. Lists(file) /\ (Asked # Playlist => file.lists = {})
      BY <2>3 DEF ListInv
    <3>3. file.sess = "new" => root = "cwd"
      BY <2>3 DEF FreshInv
    <3> HIDE DEF Asked
    <3> QED
      BY <3>1, <3>2, <3>3 DEF Given, PathLength
  <2> QED
    BY <1>2, <2>1, <2>2, <2>3
<1>4. \A c \in Clients : holds'[c] \in {file, holds[c]}
  BY <1>2 DEF Reply, Base, Shape
<1>5. \A c \in Clients : Lists(holds[c])' /\ Given(holds[c])'
  BY <1>1, <1>3, <1>4 DEF ListInv, Lists, Given
<1>6. Lists(disk[Playlist])'
  BY <1>1 DEF ListInv, Lists
<1> QED
  BY <1>1, <1>5, <1>6 DEF ListInv

LEMMA AdvancesListInv ==
  ASSUME Base, DiskInv, ListInv, Advances
  PROVE  ListInv'
<1>1. /\ UNCHANGED <<output, root, main, disk, seg, request, holds>>
      /\ daemon'.who = daemon.who /\ daemon.who \in Clients /\ Asked' = Asked
  BY AdvancesKeep DEF Base, config, mainVars, muxer, asking, Shape, DaemonType, Asked
<1>2. daemon'.at = "send" =>
        daemon.at = "open" /\ Exists(Asked) /\ daemon'.file = Served(Asked)
  BY DEF Advances, AskStatus, ReadLength, CopyId, ReadSegno, StartProbing, ProbeHits,
         ProbeMisses, OpenFile, MoveTo, At, Base, Shape, DaemonType
<1> HIDE DEF Asked
<1>3. ASSUME daemon'.at = "send"
      PROVE  /\ Lists(Served(Asked))
             /\ Asked # Playlist => Served(Asked).lists = {}
             /\ Asked \in holds[daemon.who].lists /\ holds[daemon.who].sess = "new" =>
                  Served(Asked) = Whole
  <2>1. Asked \in Files
    BY <1>2, <1>3 DEF Base, QueueInv, Probes
  <2>2. root = "cwd" => Served(Asked) = disk[Asked]
    BY <2>1, ServedFacts DEF Base
  <2> QED
    BY <1>1, <1>2, <1>3, <2>2, OpenedFileLists DEF ListInv, Lists, Given
<1> QED
  BY <1>1, <1>2, <1>3 DEF ListInv, Lists, Given

LEMMA ListInvAlways == Spec => []ListInv
<1>1. Init => ListInv
  <2> SUFFICES ASSUME Init PROVE ListInv
    OBVIOUS
  <2>1. Lists(NoFile) /\ Given(NoFile)
    BY DEF Lists, Given, NoFile
  <2>2. Lists(disk[Playlist])
    BY SegsAreFiles DEF Init, Lists, Left, NoFiles, File, NoFile
  <2> QED
    BY <2>1, <2>2 DEF Init, ListInv, Idle
<1>2. ASSUME Base, DiskInv, FreshInv, ListInv, [Next]_vars PROVE ListInv'
  <2>1. ASSUME UNCHANGED <<output, root, main, disk, seg, holds>>, daemon'.at # "send"
        PROVE  ListInv'
    BY <1>2, <2>1 DEF ListInv, Lists, Given
  <2>2. CASE Take
    BY <1>2, <2>1, <2>2 DEF Take, config, mainVars, muxer, Base, Shape, DaemonType
  <2>3. CASE Sleep
    BY <1>2, <2>1, <2>3 DEF Sleep, config, mainVars, muxer, Base, Shape, DaemonType
  <2>4. CASE \E c \in Clients : Ask(c)
    <3>1. PICK c \in Clients : Ask(c)
      BY <2>4
    <3>2. UNCHANGED <<output, root, main, disk, seg, holds, daemon>>
      BY <3>1 DEF Ask, config, mainVars, muxer
    <3>3. daemon.at = "send" => daemon.who # c /\ daemon.who \in Clients
      BY <1>2, <3>1 DEF Ask, Base, QueueInv, Waits, NoRequest, Shape, DaemonType
    <3>4. daemon.at = "send" => Asked' = Asked
      BY <1>2, <3>1, <3>2, <3>3 DEF Ask, Asked, Base, Shape
    <3> QED
      BY <1>2, <3>2, <3>4 DEF ListInv, Lists, Given
  <2>5. CASE UNCHANGED vars
    BY <1>2, <2>5 DEF vars, config, mainVars, muxer, asking, ListInv, Lists, Given, Asked
  <2> QED
    BY <1>2, <2>2, <2>3, <2>4, <2>5, MainListInv, AnswersListInv, AdvancesListInv
       DEF Next, RenderGet, Answers, Advances
<1> QED
  BY <1>1, <1>2, BaseAlways, DiskInvAlways, FreshInvAlways, PTL DEF Spec

(* The step that answers for a listed segment answers with all of it.      *)
LEMMA ListedStep ==
  ASSUME Base, ListInv, Answers,
         holds[daemon.who].sess = "new", Asked \in holds[daemon.who].lists
  PROVE  Replied("file")' /\ reply'.file = Whole
<1>1. daemon.who \in Clients /\ holds[daemon.who] \in FileType
  BY DEF Base, Shape, DaemonType
<1>2. Asked \in Segs /\ disk[Asked] = Whole /\ ~output.muselive
        /\ 2 * output.len + 7 >= MinPath
  BY <1>1 DEF ListInv, Lists, Given, FileType
<1>3. ~IsStatus /\ ~(PathLength(Asked) < MinPath)
  <2>1. output.len \in Nat /\ MinPath \in Nat
    BY FileServerAssumption DEF Base, Shape, OutputType
  <2> QED
    BY <1>2, <2>1 DEF IsStatus, PathLength, Segs, Status, Playlist
<1>4. Exists(Asked) /\ Served(Asked).body = "whole"
  <2>1. root = "cwd"
    BY <1>1 DEF ListInv, Given
  <2> QED
    BY <1>2, <2>1 DEF Exists, Served, Whole, File, NoFile
<1>5. Send
  <2>1. ~AnswerStatus
    BY <1>3 DEF AnswerStatus, At, Base, QueueInv
  <2>2. ~RefuseShortPath
    BY <1>3 DEF RefuseShortPath
  <2>3. ~NotFound /\ ~OpenGone /\ ~OpenEmpty
    BY <1>4 DEF NotFound, OpenGone, OpenEmpty
  <2> QED
    BY <2>1, <2>2, <2>3 DEF Answers
<1>6. daemon.file = Whole
  BY <1>5 DEF Send, At, ListInv
<1> QED
  BY <1>5, <1>6 DEF Send, Reply, Replied, Whole, File

(* A player that holds a playlist of the running session gets each segment *)
(* it lists, complete, however long ago it was given the list.             *)
THEOREM ListedIsServed == Spec => []ListedSegmentsServed
<1>1. Init => ListedSegmentsServed
  BY DEF Init, ListedSegmentsServed
<1>2. ASSUME Base, ListInv, ListedSegmentsServed, [Next]_vars PROVE ListedSegmentsServed'
  <2>1. CASE Answers
    <3>1. reply'.held = holds[daemon.who] /\ reply'.to = [request[daemon.who] EXCEPT !.waited = 0]
      BY <2>1, AnswersReply DEF Reply
    <3>2. reply'.to.ask = Asked
      BY <1>2, <3>1 DEF Base, Shape, DaemonType, RequestType, Asked
    <3> QED
      BY <1>2, <2>1, <3>1, <3>2, ListedStep DEF ListedSegmentsServed, Whole
  <2>2. CASE ~Answers
    BY <1>2, <2>2, ReplyChanges DEF Base, ListedSegmentsServed, Replied
  <2> QED
    BY <2>1, <2>2
<1> QED
  BY <1>1, <1>2, BaseAlways, ListInvAlways, PTL DEF Spec

-----------------------------------------------------------------------------
(* The status *)

(* The fields a status answer shows move one way only: the extension is    *)
(* cut, the number falls from 0 to -1, the count comes when all is over.   *)
Later ==
  /\ outputID' \in {outputID, "cut"}
  /\ lastSegno' <= lastSegno
  /\ sampleNumPerSeg' >= sampleNumPerSeg

LEMMA MainLater ==
  ASSUME Shape, StatusInv, Main
  PROVE  Later /\ (main' \notin {"trailer", "last", "closed", "ended"} => sampleNumPerSeg' = 0)
<1> USE DEF StatusInv, Shape, MainType, Later, Go, shared
<1>1. CASE CutExtension
  BY <1>1 DEF CutExtension
<1>2. CASE SetSegno
  BY <1>2 DEF SetSegno
<1>3. CASE Close
  <2>1. seg + 1 \in Nat /\ sampleNumPerSeg = 0
    BY <1>3, SegsAreFiles DEF Close
  <2> QED
    BY <1>3, <2>1 DEF Close
<1>4. CASE ProcessEnds
  BY <1>4 DEF ProcessEnds
<1>5. CASE MakeOrWipe \/ Wipe \/ WipeDone \/ WriteHeader \/ GrowSegment \/ FinishSegment
           \/ TruncateList \/ WriteList \/ NextSegment
  BY <1>5 DEF MakeOrWipe, Wipe, WipeDone, WriteHeader, GrowSegment, FinishSegment,
              TruncateList, WriteList, NextSegment
<1> QED
  BY <1>1, <1>2, <1>3, <1>4, <1>5 DEF Main

(* What was seen, read or answered stays in bounds as they move.           *)
LEMMA LaterKeeps ==
  ASSUME Shape, Shape', Later
  PROVE  /\ \A saw \in StatusType : Since(saw) => Since(saw)'
         /\ \A saw \in StatusType, id \in {"none", "ext", "cut", "torn"} :
              IdSince(id, saw) => IdSince(id, saw)'
         /\ \A m, n \in Int : n \in lastSegno .. m => n \in lastSegno' .. m
         /\ \A m, n \in Int : n \in m .. sampleNumPerSeg => n \in m .. sampleNumPerSeg'
<1>1. /\ lastSegno \in Int /\ lastSegno' \in Int
      /\ sampleNumPerSeg \in Int /\ sampleNumPerSeg' \in Int
      /\ outputID' = "ext" => outputID = "ext"
  BY DEF Shape, Later
<1>2. \A saw \in StatusType : saw.seg \in Int /\ saw.sample \in Int
  BY DEF StatusType
<1> QED
  BY <1>1, <1>2 DEF Later, Since, IdSince

LEMMA MainStatusInv ==
  ASSUME Base, Base', StatusInv, Main
  PROVE  StatusInv'
<1>1. Later /\ (main' \notin {"trailer", "last", "closed", "ended"} => sampleNumPerSeg' = 0)
  BY MainLater DEF Base
<1>2. CASE ProcessEnds
  <2>1. /\ request' = [c \in Clients |-> NoRequest] /\ daemon'.who \in Clients
        /\ reply' = NoReply
    BY <1>2 DEF ProcessEnds, Base, Shape, DaemonType
  <2> QED
    BY <1>1, <2>1 DEF StatusInv, Asked, NoRequest, NoReply, Replied, Status, Nothing
<1>3. CASE ~ProcessEnds
  <2>1. /\ UNCHANGED <<request, reply>>
        /\ daemon'.at = daemon.at /\ daemon'.who = daemon.who /\ daemon'.got = daemon.got
    BY <1>3, MainKeepsAsking DEF Base, Shape, DaemonType, asking
  <2>2. /\ daemon.who \in Clients /\ daemon.got \in StatusType
        /\ \A c \in Clients : request[c].saw \in StatusType
    BY DEF Base, Shape, DaemonType, RequestType
  <2>3. Replied("status") => reply.status \in StatusType /\ reply.to.saw \in StatusType
    BY DEF Base, Shape, ReplyType, RequestType, Replied, NoReply
  <2>4. /\ daemon.got.id \in {"none", "ext", "cut", "torn"} /\ daemon.got.seg \in Int
        /\ \A c \in Clients : request[c].saw.seg \in Int
        /\ Replied("status") => /\ reply.status.id \in {"none", "ext", "cut", "torn"}
                                /\ reply.status.seg \in Int /\ reply.to.saw.seg \in Int
                                /\ reply.status.sample \in Int /\ reply.to.saw.sample \in Int
    BY <2>2, <2>3 DEF StatusType
  <2>5. Shape /\ Shape'
    BY DEF Base
  <2>6. \A c \in Clients : request'[c].ask = Status =>
          Since(request[c].saw)' /\ request'[c].saw.id \in {"ext", "cut"}
    BY <1>1, <2>1, <2>2, <2>5, LaterKeeps DEF StatusInv, Since
  <2>7. Asked' = Status =>
       /\ daemon'.at \in {"copy", "seg", "sample"} =>
            IdSince(daemon.got.id, request[daemon.who].saw)'
       /\ daemon'.at = "sample" =>
            daemon'.got.seg \in lastSegno' .. request'[daemon'.who].saw.seg
    BY <1>1, <2>1, <2>2, <2>4, <2>5, LaterKeeps DEF StatusInv, IdSince, Asked
  <2>8. Replied("status")' /\ reply'.to.ask = Status =>
       /\ IdSince(reply.status.id, reply.to.saw)'
       /\ reply'.to.saw.id \in {"ext", "cut"}
       /\ reply'.status.seg \in lastSegno' .. reply'.to.saw.seg
       /\ reply'.status.sample \in reply'.to.saw.sample .. sampleNumPerSeg'
    BY <1>1, <2>1, <2>3, <2>4, <2>5, LaterKeeps DEF StatusInv, IdSince, Replied
  <2> QED
    BY <1>1, <2>6, <2>7, <2>8 DEF StatusInv
<1> QED
  BY <1>2, <1>3

(* What the daemon reads is what the fields are at that moment.            *)
LEMMA AdvancesStatusInv ==
  ASSUME Base, StatusInv, Advances
  PROVE  StatusInv'
<1>1. /\ UNCHANGED <<main, outputID, lastSegno, sampleNumPerSeg, request, reply>>
      /\ daemon'.who = daemon.who /\ daemon.who \in Clients /\ Asked' = Asked
  BY AdvancesKeep DEF Base, mainVars, shared, asking, Shape, DaemonType, Asked
<1>2. SUFFICES ASSUME Asked = Status
               PROVE  /\ daemon'.at \in {"copy", "seg", "sample"} =>
                           IdSince(daemon'.got.id, request[daemon.who].saw)
                      /\ daemon'.at = "sample" =>
                           daemon'.got.seg \in lastSegno .. request[daemon.who].saw.seg
  BY <1>1 DEF StatusInv, Since, IdSince, Replied
<1>3. Since(request[daemon.who].saw) /\ request[daemon.who].saw.id \in {"ext", "cut"}
  BY <1>1, <1>2 DEF StatusInv, Asked
<1>4. /\ outputID \in {"ext", "cut"} /\ lastSegno \in Int
      /\ request[daemon.who].saw.seg \in Int
  BY <1>1 DEF Base, Shape, RequestType, StatusType
<1>5. CASE ReadLength
  BY <1>3, <1>4, <1>5 DEF ReadLength, Base, Shape, DaemonType, StatusType, Since, IdSince
<1>6. CASE CopyId
  <2>1. daemon.at = "copy" /\ daemon'.at = "seg"
        /\ daemon'.got.id = IF daemon.got.id = outputID THEN daemon.got.id ELSE "torn"
    BY <1>6 DEF CopyId, At, Base, Shape, DaemonType, StatusType
  <2> QED
    BY <1>2, <1>3, <1>4, <2>1 DEF StatusInv, Since, IdSince
<1>7. CASE ReadSegno
  <2>1. daemon.at = "seg" /\ daemon'.at = "sample"
        /\ daemon'.got.id = daemon.got.id /\ daemon'.got.seg = lastSegno
    BY <1>7 DEF ReadSegno, At, Base, Shape, DaemonType, StatusType
  <2> QED
    BY <1>2, <1>3, <1>4, <2>1 DEF StatusInv, Since
<1>8. CASE ~ReadLength /\ ~CopyId /\ ~ReadSegno
  BY <1>8 DEF Advances, AskStatus, StartProbing, ProbeHits, ProbeMisses, OpenFile, MoveTo,
              Base, Shape, DaemonType
<1> QED
  BY <1>5, <1>6, <1>7, <1>8

LEMMA AnswersStatusInv ==
  ASSUME Base, StatusInv, Answers
  PROVE  StatusInv'
<1>1. /\ UNCHANGED <<main, outputID, lastSegno, sampleNumPerSeg>>
      /\ daemon'.at = "idle"
      /\ \A c \in Clients : request'[c] \in {NoRequest, request[c]}
  BY ReplyEffect DEF Base, mainVars, shared, Idle
<1>2. \A c \in Clients : request'[c].ask = Status =>
        Since(request[c].saw)' /\ request'[c].saw.id \in {"ext", "cut"}
  BY <1>1 DEF StatusInv, Since, NoRequest, Status, Nothing
<1>3. CASE AnswerStatus
  <2>1. /\ daemon.at = "sample"
        /\ reply'.status = [daemon.got EXCEPT !.sample = sampleNumPerSeg]
        /\ reply'.to = [request[daemon.who] EXCEPT !.waited = 0]
    BY <1>3 DEF AnswerStatus, At, Reply
  <2>2. /\ reply'.status.id = daemon.got.id /\ reply'.status.seg = daemon.got.seg
        /\ reply'.status.sample = sampleNumPerSeg
        /\ reply'.to.ask = Asked /\ reply'.to.saw = request[daemon.who].saw
        /\ sampleNumPerSeg \in Nat /\ request[daemon.who].saw.sample \in Nat
        /\ daemon.who \in Clients
    BY <2>1 DEF Base, Shape, DaemonType, RequestType, StatusType, Asked
  <2>3. Asked = Status =>
          Since(request[daemon.who].saw) /\ request[daemon.who].saw.id \in {"ext", "cut"}
    BY <2>2 DEF StatusInv, Asked
  <2> QED
    BY <1>1, <1>2, <2>1, <2>2, <2>3 DEF StatusInv, Since, IdSince
<1>4. CASE ~AnswerStatus
  <2>1. ~Replied("status")'
    BY <1>4 DEF Answers, RefuseShortPath, NotFound, OpenGone, OpenEmpty, Send, Reply, Replied
  <2> QED
    BY <1>1, <1>2, <2>1 DEF StatusInv
<1> QED
  BY <1>3, <1>4

LEMMA AskStatusInv ==
  ASSUME Base, StatusInv, NEW c \in Clients, Ask(c)
  PROVE  StatusInv'
<1>1. PICK a \in Asks :
        request' = [request EXCEPT ![c] =
                      [ask |-> a, saw |-> IF a = Status THEN Shown ELSE NoStatus,
                       fresh |-> Opened, waited |-> 0]]
  BY DEF Ask, Asks
<1>2. UNCHANGED <<main, outputID, lastSegno, sampleNumPerSeg, daemon, reply>>
  BY DEF Ask, mainVars, shared
<1>3. /\ outputID \in {"ext", "cut"} /\ lastSegno \in Int /\ sampleNumPerSeg \in Int
  BY DEF Base, Shape
<1>4. /\ request'[c].ask = a
      /\ a = Status => request'[c].saw = Shown
      /\ \A d \in Clients : d # c => request'[d] = request[d]
  BY <1>1 DEF Base, Shape
<1>5. \A d \in Clients : request'[d].ask = Status =>
        Since(request[d].saw)' /\ request'[d].saw.id \in {"ext", "cut"}
  BY <1>2, <1>3, <1>4 DEF StatusInv, Since, Shown
<1>6. daemon.at # "idle" => request'[daemon.who] = request[daemon.who]
  BY <1>4 DEF Ask, Base, QueueInv, Waits, NoRequest, Shape, DaemonType
<1> QED
  BY <1>2, <1>5, <1>6 DEF StatusInv, IdSince, Asked, Replied

(* A status answer shows of each field a value it had between the request  *)
(* and the answer.                                                         *)
THEOREM StatusesAreRecent == Spec => []StatusIsRecent
<1>1. Init => StatusInv
  <2> SUFFICES ASSUME Init PROVE StatusInv
    OBVIOUS
  <2>1. \A c \in Clients : request[c].ask = Nothing
    BY DEF Init, NoRequest
  <2>2. daemon.at = "idle" /\ reply.what = "none" /\ sampleNumPerSeg = 0
    BY DEF Init, Idle, NoReply
  <2> QED
    BY <2>1, <2>2 DEF StatusInv, Replied, Status, Nothing
<1>2. ASSUME Base, Base', StatusInv, [Next]_vars PROVE StatusInv'
  <2>1. CASE Take
    <3>1. daemon'.at = "path" /\ reply' = NoReply
          /\ UNCHANGED <<main, outputID, lastSegno, sampleNumPerSeg, request>>
      BY <1>2, <2>1 DEF Take, mainVars, shared, Base, Shape, DaemonType
    <3> QED
      BY <1>2, <3>1 DEF StatusInv, Since, Replied, NoReply
  <2>2. CASE Sleep
    <3>1. daemon'.at = "probe"
          /\ UNCHANGED <<main, outputID, lastSegno, sampleNumPerSeg, reply>>
      BY <1>2, <2>2 DEF Sleep, mainVars, shared, Base, Shape, DaemonType
    <3>2. \A c \in Clients : request'[c].ask = request[c].ask /\ request'[c].saw = request[c].saw
      BY <1>2, <2>2 DEF Sleep, Base, Shape, RequestType
    <3> QED
      BY <1>2, <3>1, <3>2 DEF StatusInv, Since, IdSince, Replied
  <2>3. CASE UNCHANGED vars
    BY <1>2, <2>3 DEF vars, mainVars, shared, asking, StatusInv, Since, IdSince, Asked, Replied
  <2> QED
    BY <1>2, <2>1, <2>2, <2>3, MainStatusInv, AskStatusInv, AnswersStatusInv,
       AdvancesStatusInv DEF Next, RenderGet, Answers, Advances
<1>3. StatusInv => StatusIsRecent
  BY DEF StatusInv, StatusIsRecent, IdSince
<1> QED
  BY <1>1, <1>2, <1>3, BaseAlways, PTL DEF Spec

-----------------------------------------------------------------------------
(* Waiting *)

(* Full searches add up.                                                   *)
LEMMA Searches ==
  ASSUME NEW k \in Nat
  PROVE  /\ \A n \in Int : n * k \in Int /\ (n + 1) * k = n * k + k
         /\ \A n \in Nat : n * k >= 0
OBVIOUS

LEMMA WaitFacts ==
  ASSUME Base, ProbeInv
  PROVE  /\ Most \in Nat /\ Cardinality(Clients) \in Nat
         /\ daemon.slept \in Nat /\ daemon.slept <= Most
         /\ daemon.at = "idle" => daemon.slept = 0
         /\ Len(queue) \in Nat /\ Busy \in {0, 1}
         /\ \A c \in Clients : request[c].waited \in Nat
         /\ IsFiniteSet(Pending) /\ Cardinality(Pending) <= Cardinality(Clients)
<1>1. Most \in Nat
  BY Quotient DEF Base, Most
<1>2. daemon.slept \in Nat /\ daemon.repeat \in Nat
  BY DEF Base, Shape, DaemonType
<1>3. daemon.slept <= Most /\ (daemon.at = "idle" => daemon.slept = 0)
  BY <1>1, <1>2 DEF ProbeInv
<1>4. IsFiniteSet(Clients) /\ Cardinality(Clients) \in Nat
  BY FileServerAssumption, FS_CardinalityType
<1>5. IsFiniteSet(Pending) /\ Cardinality(Pending) <= Cardinality(Clients)
  <2>1. Pending \subseteq Clients
    BY DEF Pending
  <2> QED
    BY <1>4, <2>1, FS_Subset
<1> QED
  BY <1>1, <1>2, <1>3, <1>4, <1>5 DEF Base, Shape, RequestType, Busy

(* A request that joins the queue finds a place for everybody before it.   *)
LEMMA AskWaitInv ==
  ASSUME Base, ProbeInv, WaitInv, NEW c \in Clients, Ask(c)
  PROVE  WaitInv'
<1>1. UNCHANGED <<term, daemon>> /\ Most' = Most /\ Busy' = Busy
  BY DEF Ask, config, Most, Busy
<1>2. /\ queue \in Seq(Clients) /\ queue' = Append(queue, c)
      /\ Len(queue') = Len(queue) + 1 /\ queue'[Len(queue) + 1] = c
      /\ \A i \in 1 .. Len(queue) : queue'[i] = queue[i] /\ queue[i] \in Clients
  BY DEF Ask, Base, Shape
<1>3. /\ request'[c].waited = 0 /\ request'[c].ask # Nothing
      /\ \A d \in Clients : d # c => request'[d] = request[d]
  BY DEF Ask, Base, Shape, Asks, Files, Segs, Playlist, Status, Nothing
<1>4. c \notin Pending /\ Pending' = Pending \cup {c}
  BY <1>3 DEF Ask, Pending, Waits, NoRequest
<1>5. Cardinality(Pending') = Len(queue') + Busy'
  <2>1. Cardinality(Pending \cup {c}) = Cardinality(Pending) + 1
    BY <1>4, WaitFacts, FS_AddElement
  <2> QED
    BY <1>1, <1>2, <1>4, <2>1, WaitFacts DEF WaitInv
<1>6. Len(queue) + 1 + Busy <= Cardinality(Clients)
  <2>1. Pending' \subseteq Clients
    BY DEF Pending
  <2>2. Cardinality(Pending') <= Cardinality(Clients)
    BY <2>1, FileServerAssumption, FS_Subset
  <2> QED
    BY <1>1, <1>2, <1>5, <2>2
<1>7. \A i \in 1 .. Len(queue) : queue[i] # c
  BY <1>4 DEF Base, QueueInv, Pending, Waits
<1>8. ASSUME NEW i \in 1 .. Len(queue')
      PROVE  request'[queue'[i]].waited
               <= (Cardinality(Clients) - i - Busy) * Most + daemon.slept
  <2>1. CASE i = Len(queue) + 1
    <3>1. Cardinality(Clients) - i - Busy \in Nat
      BY <1>6, <2>1, WaitFacts
    <3>2. (Cardinality(Clients) - i - Busy) * Most >= 0
            /\ (Cardinality(Clients) - i - Busy) * Most \in Int
      BY <3>1, WaitFacts, Searches
    <3> QED
      BY <1>2, <1>3, <2>1, <3>2, WaitFacts
  <2>2. CASE i # Len(queue) + 1
    <3>1. i \in 1 .. Len(queue)
      BY <1>2, <2>2, WaitFacts
    <3> QED
      BY <1>2, <1>3, <1>7, <3>1 DEF WaitInv, Bound
  <2> QED
    BY <2>1, <2>2
<1>9. daemon.at # "idle" => request'[daemon.who] = request[daemon.who]
  BY <1>3, <1>4 DEF Base, Shape, DaemonType, QueueInv, Pending
<1> QED
  BY <1>1, <1>5, <1>8, <1>9 DEF WaitInv, Bound

LEMMA TakeWaitInv ==
  ASSUME Base, ProbeInv, WaitInv, Take
  PROVE  WaitInv'
<1>1. /\ queue \in Seq(Clients) /\ queue # <<>> /\ queue' = Tail(queue)
      /\ UNCHANGED <<term, request>> /\ Most' = Most /\ Pending' = Pending
      /\ daemon.at = "idle" /\ daemon.slept = 0 /\ Busy = 0
      /\ daemon'.at = "path" /\ daemon'.who = Head(queue) /\ daemon'.slept = 0 /\ Busy' = 1
  BY WaitFacts DEF Base, Shape, DaemonType, Take, config, At, Most, Busy, Pending, Waits
<1>2. /\ Len(queue) \in Nat \ {0} /\ Len(queue') = Len(queue) - 1
      /\ Head(queue) = queue[1]
      /\ \A i \in 1 .. Len(queue') : queue'[i] = queue[i + 1] /\ i + 1 \in 1 .. Len(queue)
  BY <1>1
<1>3. Cardinality(Pending') = Len(queue') + Busy'
  BY <1>1, <1>2 DEF WaitInv
<1>4. \A i \in 1 .. Len(queue) :
        request[queue[i]].waited <= (Cardinality(Clients) - i) * Most
  <2> SUFFICES ASSUME NEW i \in 1 .. Len(queue)
               PROVE  request[queue[i]].waited <= (Cardinality(Clients) - i) * Most
    OBVIOUS
  <2>1. Cardinality(Clients) - i - 0 = Cardinality(Clients) - i
          /\ Cardinality(Clients) - i \in Int
    BY WaitFacts
  <2>2. (Cardinality(Clients) - i) * Most \in Int
    BY <2>1, WaitFacts, Searches
  <2> QED
    BY <1>1, <2>1, <2>2 DEF WaitInv, Bound
<1>5. ASSUME NEW i \in 1 .. Len(queue')
      PROVE  request'[queue'[i]].waited <= (Cardinality(Clients) - i - 1) * Most + 0
  <2>1. request'[queue'[i]].waited <= (Cardinality(Clients) - (i + 1)) * Most
    BY <1>1, <1>2, <1>4
  <2>2. Cardinality(Clients) - (i + 1) = Cardinality(Clients) - i - 1
          /\ Cardinality(Clients) - i - 1 \in Int
    BY WaitFacts
  <2>3. (Cardinality(Clients) - i - 1) * Most \in Int
    BY <2>2, WaitFacts, Searches
  <2> QED
    BY <2>1, <2>2, <2>3
<1>6. request'[daemon'.who].waited <= (Cardinality(Clients) - 1) * Most + 0
  <2>1. (Cardinality(Clients) - 1) * Most \in Int
    BY WaitFacts, Searches
  <2> QED
    BY <1>1, <1>2, <1>4, <2>1
<1> QED
  BY <1>1, <1>3, <1>5, <1>6 DEF WaitInv, Bound

LEMMA AnswersWaitInv ==
  ASSUME Base, ProbeInv, WaitInv, Answers
  PROVE  WaitInv'
<1>1. daemon.at # "idle" /\ Busy = 1
  BY DEF Answers, AnswerStatus, RefuseShortPath, NotFound, OpenGone, OpenEmpty, Send, At, Busy
<1>2. /\ UNCHANGED <<term, queue>> /\ Most' = Most
      /\ daemon'.at = "idle" /\ daemon'.slept = 0 /\ Busy' = 0
      /\ request'[daemon.who] = NoRequest
      /\ \A c \in Clients : c # daemon.who => request'[c] = request[c]
  BY ReplyEffect DEF Base, config, Most, Idle, Busy
<1>3. daemon.who \in Pending /\ Pending' = Pending \ {daemon.who}
  BY <1>1, <1>2 DEF Pending, Waits, NoRequest, Base, QueueInv, Shape, DaemonType
<1>4. Cardinality(Pending') = Len(queue') + Busy'
  <2>1. Cardinality(Pending \ {daemon.who}) = Cardinality(Pending) - 1
    BY <1>3, WaitFacts, FS_RemoveElement
  <2> QED
    BY <1>1, <1>2, <1>3, <2>1, WaitFacts DEF WaitInv
<1>5. ASSUME NEW i \in 1 .. Len(queue)
      PROVE  request'[queue[i]].waited <= (Cardinality(Clients) - i - 0) * Most + 0
  <2>1. queue[i] \in Clients /\ queue[i] # daemon.who
    BY <1>1 DEF Base, Shape, QueueInv
  <2>2. request'[queue[i]].waited
          <= (Cardinality(Clients) - i - 1) * Most + daemon.slept
    BY <1>1, <1>2, <2>1 DEF WaitInv, Bound
  <2> DEFINE n == Cardinality(Clients) - i - 1
  <2>3. n \in Int /\ n + 1 = Cardinality(Clients) - i - 0
    BY WaitFacts
  <2>4. n * Most \in Int /\ (n + 1) * Most = n * Most + Most
    BY <2>3, WaitFacts, Searches
  <2>5. request'[queue[i]].waited \in Nat
    BY <1>2, <2>1, WaitFacts
  <2>6. request'[queue[i]].waited <= n * Most + daemon.slept
    BY <2>2
  <2> HIDE DEF n
  <2>7. request'[queue[i]].waited <= (n + 1) * Most
    BY <2>4, <2>5, <2>6, WaitFacts
  <2>8. (n + 1) * Most \in Int
    BY <2>4, WaitFacts
  <2> QED
    BY <2>3, <2>7, <2>8
<1> QED
  BY <1>2, <1>4, <1>5 DEF WaitInv, Bound

LEMMA SleepWaitInv ==
  ASSUME Base, ProbeInv, WaitInv, Sleep
  PROVE  WaitInv'
<1>1. /\ UNCHANGED <<term, queue>> /\ Most' = Most /\ daemon'.who = daemon.who
      /\ daemon.at # "idle" /\ daemon'.at # "idle" /\ Busy = 1 /\ Busy' = 1
      /\ daemon'.slept = daemon.slept + 1
  BY DEF Sleep, At, config, Most, Busy, Base, Shape, DaemonType
<1>2. \A c \in Clients : /\ request'[c].ask = request[c].ask
                          /\ request'[c].waited \in Nat
                          /\ request'[c].waited <= request[c].waited + 1
  <2> SUFFICES ASSUME NEW c \in Clients
               PROVE  /\ request'[c].ask = request[c].ask
                      /\ request'[c].waited \in Nat
                      /\ request'[c].waited <= request[c].waited + 1
    OBVIOUS
  <2>1. /\ request[c] \in RequestType /\ request[c].waited \in Nat
        /\ request[c].waited + 1 \in Nat
    BY DEF Base, Shape, RequestType
  <2> QED
    BY <2>1 DEF Sleep, RequestType
<1>3. Pending' = Pending
  BY <1>2 DEF Pending, Waits
<1>4. \A c \in Clients : request[c].waited \in Nat /\ request'[c].waited \in Nat
  BY <1>2, WaitFacts
<1>5. ASSUME NEW n \in Int, NEW c \in Clients,
             request[c].waited <= n * Most + daemon.slept
      PROVE  request'[c].waited <= n * Most + daemon'.slept
  <2>1. n * Most \in Int
    BY WaitFacts, Searches
  <2> QED
    BY <1>1, <1>2, <1>4, <1>5, <2>1, WaitFacts
<1>6. \A i \in 1 .. Len(queue) :
        queue[i] \in Clients /\ Cardinality(Clients) - i - 1 \in Int
  BY WaitFacts DEF Base, Shape
<1>7. daemon.who \in Clients /\ Cardinality(Clients) - 1 \in Int
  BY WaitFacts DEF Base, Shape, DaemonType
<1>8. \A i \in 1 .. Len(queue) :
        request'[queue[i]].waited <= (Cardinality(Clients) - i - 1) * Most + daemon'.slept
  BY <1>1, <1>5, <1>6 DEF WaitInv, Bound
<1>9. request'[daemon.who].waited <= (Cardinality(Clients) - 1) * Most + daemon'.slept
  BY <1>1, <1>5, <1>7 DEF WaitInv, Bound
<1> QED
  BY <1>1, <1>3, <1>8, <1>9 DEF WaitInv, Bound

LEMMA NextWaitInv ==
  ASSUME Base, ProbeInv, WaitInv, [Next]_vars
  PROVE  WaitInv'
<1>1. ASSUME UNCHANGED <<term, queue, request>>, daemon'.at = "idle" <=> daemon.at = "idle",
             daemon'.who = daemon.who, daemon'.slept = daemon.slept
      PROVE  WaitInv'
  BY <1>1 DEF WaitInv, Bound, Most, Busy, Pending, Waits
<1>2. CASE ProcessEnds
  <2>1. queue' = <<>> /\ daemon'.at = "idle" /\ Pending' = {}
    BY <1>2 DEF ProcessEnds, Idle, Pending, Waits, NoRequest
  <2>2. Cardinality(Pending') = 0 /\ Len(queue') = 0
    BY <2>1, FS_EmptySet
  <2> QED
    BY <2>1, <2>2 DEF WaitInv, Busy
<1>3. CASE Main /\ ~ProcessEnds
  BY <1>1, <1>3, MainKeepsAsking DEF Base, Shape, DaemonType, config, asking
<1>4. CASE Advances
  <2>1. daemon'.slept = daemon.slept
    BY <1>4 DEF Advances, AskStatus, ReadLength, CopyId, ReadSegno, StartProbing,
                ProbeHits, ProbeMisses, OpenFile, MoveTo, Base, Shape, DaemonType
  <2> QED
    BY <1>1, <1>4, <2>1, AdvancesKeep DEF Base, config, asking
<1>5. CASE UNCHANGED vars
  BY <1>1, <1>5 DEF vars, config, asking
<1> QED
  BY <1>2, <1>3, <1>4, <1>5, AskWaitInv, TakeWaitInv, AnswersWaitInv, SleepWaitInv
     DEF Next, RenderGet, Answers, Advances

LEMMA WaitBound ==
  ASSUME Base, ProbeInv, WaitInv, NEW c \in Clients
  PROVE  request[c].waited <= Cardinality(Clients) * Most
<1> DEFINE n == Cardinality(Clients)
<1>1. /\ n \in Nat /\ Most \in Nat /\ n * Most \in Int /\ n * Most >= 0
  BY WaitFacts, Searches
<1>2. CASE ~Waits(c)
  BY <1>1, <1>2 DEF Base, QueueInv, NoRequest
<1>3. \A m \in Nat \ {0} : request[c].waited <= (n - m) * Most + daemon.slept
                              => request[c].waited <= n * Most
  <2> SUFFICES ASSUME NEW m \in Nat \ {0},
                      request[c].waited <= (n - m) * Most + daemon.slept
               PROVE  request[c].waited <= n * Most
    OBVIOUS
  <2>1. n - m \in Int /\ (n - m) * Most \in Int
    BY <1>1, Searches
  <2>2. m - 1 \in Nat /\ (m - 1) * Most >= 0 /\ (m - 1) * Most \in Int
    BY <1>1, Searches
  <2>3. n * Most = (n - m) * Most + (m - 1) * Most + Most
    BY <1>1
  <2>4. /\ request[c].waited \in Nat
        /\ daemon.slept \in Nat /\ daemon.slept <= Most
    BY WaitFacts DEF Base, Shape, RequestType
  <2> HIDE DEF n
  <2> QED
    BY <1>1, <2>1, <2>2, <2>3, <2>4
<1>4. CASE daemon.at # "idle" /\ c = daemon.who
  <2>1. request[c].waited <= (n - 1) * Most + daemon.slept
    BY <1>4 DEF WaitInv, Bound
  <2> QED
    BY <1>3, <2>1
<1>5. CASE \E i \in 1 .. Len(queue) : queue[i] = c
  <2>1. PICK i \in 1 .. Len(queue) : queue[i] = c
    BY <1>5
  <2>2. request[c].waited <= (n - i - Busy) * Most + daemon.slept
    BY <2>1 DEF WaitInv, Bound
  <2> DEFINE m == i + Busy
  <2>3. m \in Nat \ {0} /\ n - m = n - i - Busy
    <3>1. Busy \in {0, 1} /\ i \in Nat \ {0}
      BY WaitFacts
    <3>2. m \in Nat \ {0}
      BY <3>1
    <3> HIDE DEF n
    <3> QED
      BY <1>1, <3>1, <3>2
  <2>4. request[c].waited <= (n - m) * Most + daemon.slept
    BY <2>2, <2>3
  <2> HIDE DEF m
  <2> QED
    BY <1>3, <2>3, <2>4
<1> QED
  BY <1>2, <1>4, <1>5 DEF Base, QueueInv

(* One search for a file that does not come holds up everybody, but no     *)
(* client sits through more than its own and one for each of the others.   *)
THEOREM WaitsAreBounded == Spec => []BoundedWait
<1>1. Init => WaitInv
  <2> SUFFICES ASSUME Init PROVE WaitInv
    OBVIOUS
  <2>1. Pending = {} /\ queue = <<>> /\ daemon.at = "idle"
    BY DEF Init, Idle, Pending, Waits, NoRequest
  <2>2. Cardinality(Pending) = 0 /\ Len(queue) = 0
    BY <2>1, FS_EmptySet
  <2> QED
    BY <2>1, <2>2 DEF WaitInv, Busy
<1>2. ASSUME Base, ProbeInv, WaitInv PROVE BoundedWait
  <2> SUFFICES ASSUME NEW c \in Clients
               PROVE  request[c].waited * ProbeMs <= Cardinality(Clients) * (term + ProbeMs)
    BY DEF BoundedWait
  <2> DEFINE n == Cardinality(Clients)
             w == request[c].waited
             q == term \div ProbeMs
  <2>1. /\ n \in Nat /\ w \in Nat /\ q \in Nat /\ ProbeMs \in Nat /\ term \in Nat
        /\ ProbeMs * q <= term
    BY <1>2, WaitFacts, Quotient, FileServerAssumption DEF Base, Shape
  <2>2. w <= n * (q + 1)
    BY <1>2, WaitBound DEF Most
  <2> HIDE DEF n, w, q
  <2>3. w * ProbeMs <= (n * (q + 1)) * ProbeMs
    BY <2>1, <2>2
  <2>4. (n * (q + 1)) * ProbeMs = n * (ProbeMs * q + ProbeMs)
    BY <2>1
  <2>5. n * (ProbeMs * q + ProbeMs) <= n * (term + ProbeMs)
    BY <2>1
  <2>6. w * ProbeMs <= n * (term + ProbeMs)
    BY <2>1, <2>3, <2>4, <2>5
  <2> QED
    BY <2>6 DEF n, w
<1> QED
  BY <1>1, <1>2, NextWaitInv, BaseAlways, ProbeInvAlways, PTL DEF Spec
=============================================================================
