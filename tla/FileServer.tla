----------------------------- MODULE FileServer -----------------------------
(***************************************************************************)
(* The HLS file server: FileResponse::render_GET on the daemon's only      *)
(* thread beside the main thread, which prepares the output directory      *)
(* (MediaOut::Open), writes segments and playlists through FFmpeg's HLS    *)
(* muxer and ends the session (MediaOut::Close).  The two meet in the      *)
(* fields of sConfig that a status answer reads, without a lock, and in    *)
(* the output directory, if they do: MediaOut works in <outputID> under    *)
(* the working directory, the server looks under httpFilePath.             *)
(*                                                                         *)
(* Clients and muxer are external.  A file is the session it belongs to    *)
(* and how much of it is written; a playlist also has the segments it      *)
(* lists.                                                                  *)
(***************************************************************************)
EXTENDS Integers, Sequences, FiniteSets

CONSTANTS
  Clients,      (* the players                                             *)
  MaxSeg,       (* bound: number of the last segment of a session          *)
  MaxAsks,      (* bound: requests of all clients together                 *)
  Outputs,      (* the values of -o: [len, ext, muselive]                  *)
  Terms,        (* the values of -t                                        *)
  Roots,        (* the values of -d: "cwd", and what names another place   *)
  ProbeMs,      (* 100: milliseconds between two looks at the disk         *)
  MinTermMs,    (* 1000: the least check term                              *)
  MinPath,      (* 16: the shortest path that names a file                 *)
  ListSize      (* 120: segments a playlist lists                          *)

ASSUME FileServerAssumption ==
  /\ IsFiniteSet(Clients) /\ Clients # {}
  /\ MaxSeg \in Nat /\ MaxAsks \in Nat
  /\ Outputs \subseteq [len : Nat, ext : BOOLEAN, muselive : BOOLEAN]
  /\ Terms \subseteq Nat
  /\ Roots \subseteq {"cwd", "elsewhere"}
  /\ ProbeMs \in Nat \ {0}
  /\ MinTermMs \in Nat /\ MinPath \in Nat
  /\ ListSize \in Nat \ {0}

Segs == 0 .. MaxSeg
Playlist == -1
Status == -2
Nothing == -3
Files == Segs \cup {Playlist}
Asks == Files \cup {Status}

VARIABLES
  output,      (* what -o named, its length without the extension          *)
  term,        (* sConfig.httpFilecheckterm                                *)
  root,        (* the directory that sConfig.httpFilePath names            *)
  elsewhere,   (* the files in <outputID> of that directory, when it is    *)
               (* not the working directory: nothing writes there          *)
  main,        (* where the main thread is                                 *)
  outputID,    (* sConfig.outputID: with its "ext" or "cut"                *)
  lastSegno, sampleNumPerSeg,
  dir,         (* <outputID> exists in the working directory               *)
  disk,        (* the files in it                                          *)
  seg,         (* the segment the muxer writes                             *)
  queue,       (* clients whose request the daemon has not taken           *)
  daemon,      (* render_GET: position and locals                          *)
  request,     (* what each client waits for                               *)
  holds,       (* the playlist each client was given last                  *)
  asked,       (* requests made so far                                     *)
  reply        (* the answer the daemon has just given                     *)

config   == <<output, term, root, elsewhere>>
shared   == <<outputID, lastSegno, sampleNumPerSeg>>
muxer    == <<dir, disk, seg>>
mainVars == <<main, shared, muxer>>
asking   == <<request, holds, asked, reply>>
vars     == <<config, mainVars, queue, daemon, asking>>

-----------------------------------------------------------------------------
(* Values *)

NoFile == [sess |-> "none", body |-> "none", lists |-> {}]
File(sess, body, lists) == [sess |-> sess, body |-> body, lists |-> lists]

(* What is at httpFilePath + path: the muxer's file, or another one.       *)
Served(f) == IF root = "cwd" THEN disk[f] ELSE elsewhere[f]
Exists(f) == Served(f) # NoFile

(* What a status answer shows.                                             *)
Shown == [id |-> outputID, seg |-> lastSegno, sample |-> sampleNumPerSeg]

(* A request: what the program showed and whether the session was open     *)
(* when it was made, and the sleeps of the daemon it has sat through.       *)
NoStatus == [id |-> "none", seg |-> 0, sample |-> 0]
NoRequest == [ask |-> Nothing, saw |-> NoStatus, fresh |-> FALSE, waited |-> 0]

(* An answer, with the request it is given to.                              *)
NoReply == [what |-> "none"]

(* The length of /<id>/<id>.m3u8 and of /<id>/<id>_00000.ts.               *)
PathLength(f) == 2 * output.len + IF f = Playlist THEN 7 ELSE 11

(* setFileTermMS, and the constructor's 1000 when there is no -t.          *)
FileTermMS(t) == IF t < MinTermMs THEN MinTermMs ELSE t

(* The files a session with segments 0 .. n leaves.                        *)
Left(n) == [f \in Files |->
              IF f = Playlist
              THEN File("old", "whole", {s \in 0 .. n : s > n - ListSize})
              ELSE IF f <= n THEN File("old", "whole", {}) ELSE NoFile]

Idle == [at |-> "idle", who |-> CHOOSE c \in Clients : TRUE, repeat |-> 0,
         slept |-> 0, got |-> NoStatus, file |-> NoFile]

NoFiles == [f \in Files |-> NoFile]

(* The program has parsed its arguments; an earlier session may have left  *)
(* its files, here and in a directory that -d names.                       *)
Init ==
  /\ output \in Outputs
  /\ \E t \in Terms : term = FileTermMS(t)
  /\ root \in Roots
  /\ elsewhere \in IF root = "cwd" THEN {NoFiles} ELSE {NoFiles, Left(0)}
  /\ main = "cut"
  /\ outputID = IF output.ext THEN "ext" ELSE "cut"
  /\ lastSegno = 0
  /\ sampleNumPerSeg = 0
  /\ \/ dir = FALSE /\ disk = NoFiles
     \/ dir = TRUE /\ disk = Left(0)
  /\ seg = 0
  /\ queue = <<>>
  /\ daemon = Idle
  /\ request = [c \in Clients |-> NoRequest]
  /\ holds = [c \in Clients |-> NoFile]
  /\ asked = 0
  /\ reply = NoReply

-----------------------------------------------------------------------------
(* The main thread *)

Go(p) == main' = p

(* The extension is overwritten by '\0' in the shared string.              *)
CutExtension ==
  /\ main = "cut"
  /\ outputID' = "cut"
  /\ Go("dir")
  /\ UNCHANGED <<config, lastSegno, sampleNumPerSeg, muxer, queue, daemon,
                 asking>>

(* Mutant: an existing directory is used as it is.                         *)
MakeOrKeep ==
  /\ main = "dir"
  /\ \/ ~dir /\ dir' = TRUE /\ Go("segno")
     \/ dir /\ UNCHANGED dir /\ Go("segno")
  /\ UNCHANGED <<config, shared, disk, seg, queue, daemon, asking>>

(* mkdir, or else rm -rf of what is inside.                                *)
MakeOrWipe ==
  /\ main = "dir"
  /\ \/ ~dir /\ dir' = TRUE /\ Go("segno")
     \/ dir /\ UNCHANGED dir /\ Go("wipe")
  /\ UNCHANGED <<config, shared, disk, seg, queue, daemon, asking>>

(* assert(0) when the directory cannot be made, or the end of main: the    *)
(* daemon's thread and its connections end with the process.               *)
ProcessEnds ==
  /\ \/ main = "dir" /\ ~dir
     \/ main = "closed"
  /\ Go("ended")
  /\ queue' = <<>>
  /\ daemon' = Idle
  /\ request' = [c \in Clients |-> NoRequest]
  /\ reply' = NoReply
  /\ UNCHANGED <<config, shared, muxer, holds, asked>>

(* Mutant: rm runs in the background.                                      *)
WipingInBackground == main \in {"wipe", "mux"}

(* rm removes one file after another, in an order of the shell's.          *)
Wiping == main = "wipe"

Wipe ==
  /\ Wiping
  /\ \E f \in Files : disk[f] # NoFile /\ disk' = [disk EXCEPT ![f] = NoFile]
  /\ UNCHANGED <<config, main, shared, dir, seg, queue, daemon, asking>>

WipeDone ==
  /\ main = "wipe"
  /\ disk = NoFiles
  /\ Go("segno")
  /\ UNCHANGED <<config, shared, muxer, queue, daemon, asking>>

(* OpenSegfile: m_fileSerial is 0 and nothing advances it.                 *)
SetSegno ==
  /\ main = "segno"
  /\ lastSegno' = -1
  /\ Go("header")
  /\ UNCHANGED <<config, outputID, sampleNumPerSeg, muxer, queue, daemon,
                 asking>>

(* avformat_write_header opens the first segment, or fails and is not      *)
(* looked at.                                                              *)
WriteHeader ==
  /\ main = "header"
  /\ \/ disk' = [disk EXCEPT ![0] = File("new", "empty", {})] /\ Go("mux")
     \/ UNCHANGED disk /\ Go("nomux")
  /\ UNCHANGED <<config, shared, dir, seg, queue, daemon, asking>>

-----------------------------------------------------------------------------
(* The muxer, inside EncodeWrite and Close: external                       *)

GrowSegment ==
  /\ main = "mux" /\ disk[seg].body = "empty"
  /\ disk' = [disk EXCEPT ![seg].body = "part"]
  /\ UNCHANGED <<config, main, shared, dir, seg, queue, daemon, asking>>

(* A segment is complete before it is listed.                              *)
FinishSegment ==
  /\ \/ main = "mux" /\ seg < MaxSeg /\ Go("list")
     \/ main = "trailer" /\ Go("last")
  /\ disk' = [disk EXCEPT ![seg] = File("new", "whole", {})]
  /\ UNCHANGED <<config, shared, dir, seg, queue, daemon, asking>>

(* Without a temporary file the playlist is written in place: a reader     *)
(* that has it open loses what it has not read.                            *)
TruncateList ==
  /\ main \in {"list", "last"} /\ disk[Playlist].body # "empty"
  /\ disk' = [disk EXCEPT ![Playlist] = File("new", "empty", {})]
  /\ daemon' = IF daemon.at = "send" /\ request[daemon.who].ask = Playlist
                 /\ root = "cwd" /\ daemon.file = disk[Playlist]
               THEN [daemon EXCEPT !.file.body = "lost"] ELSE daemon
  /\ UNCHANGED <<config, main, shared, dir, seg, queue, asking>>

Listed == {s \in 0 .. seg : s > seg - ListSize}

WriteList ==
  /\ \/ main = "list" /\ Go("next")
     \/ main = "last" /\ Go("closed")
  /\ disk' = [disk EXCEPT ![Playlist] = File("new", "whole", Listed)]
  /\ UNCHANGED <<config, shared, dir, seg, queue, daemon, asking>>

NextSegment ==
  /\ main = "next"
  /\ seg' = seg + 1
  /\ disk' = [disk EXCEPT ![seg + 1] = File("new", "empty", {})]
  /\ Go("mux")
  /\ UNCHANGED <<config, shared, dir, queue, daemon, asking>>

(* CloseSegfile: the count, here of segments, is published before the      *)
(* trailer is written.                                                     *)
Close ==
  /\ \/ main = "mux" /\ Go("trailer")
     \/ main = "nomux" /\ Go("closed")
  /\ sampleNumPerSeg' = seg + 1
  /\ UNCHANGED <<config, outputID, lastSegno, muxer, queue, daemon, asking>>

-----------------------------------------------------------------------------
(* The clients: external *)

Opened == main \in {"mux", "nomux", "list", "next", "trailer", "last", "closed"}

(* One request stands for all when every path asks for the status.         *)
Ask(c) ==
  /\ request[c] = NoRequest /\ asked < MaxAsks /\ main # "ended"
  /\ \E a \in IF output.muselive THEN {Status} ELSE Asks :
       request' = [request EXCEPT ![c] =
                     [ask |-> a, saw |-> IF a = Status THEN Shown ELSE NoStatus,
                      fresh |-> Opened, waited |-> 0]]
  /\ asked' = asked + 1
  /\ queue' = Append(queue, c)
  /\ UNCHANGED <<config, mainVars, daemon, holds, reply>>

-----------------------------------------------------------------------------
(* The daemon's thread: render_GET *)

At(p) == daemon.at = p
Asked == request[daemon.who].ask
MoveTo(p) == daemon' = [daemon EXCEPT !.at = p]

Reply(what, file, status) ==
  LET c == daemon.who
  IN  /\ reply' = [what |-> what, file |-> file, status |-> status,
                   slept |-> daemon.slept, held |-> holds[c],
                   to |-> [request[c] EXCEPT !.waited = 0]]
      /\ request' = [request EXCEPT ![c] = NoRequest]
      /\ holds' = [holds EXCEPT ![c] = IF file.lists # {} THEN file ELSE @]
      /\ daemon' = Idle
      /\ UNCHANGED <<config, mainVars, queue, asked>>

Take ==
  /\ At("idle") /\ queue # <<>>
  /\ daemon' = [daemon EXCEPT !.at = "path", !.who = Head(queue)]
  /\ queue' = Tail(queue)
  /\ reply' = NoReply
  /\ UNCHANGED <<config, mainVars, request, holds, asked>>

(* A path with "muselive" in it asks for the status, whatever it names.    *)
IsStatus == Asked = Status \/ output.muselive

AskStatus ==
  /\ At("path") /\ IsStatus
  /\ MoveTo("id")
  /\ UNCHANGED <<config, mainVars, queue, asking>>

(* string(outputID): the length is taken first, the characters after it.   *)
ReadLength ==
  /\ At("id")
  /\ daemon' = [daemon EXCEPT !.at = "copy", !.got.id = outputID]
  /\ UNCHANGED <<config, mainVars, queue, asking>>

CopyId ==
  /\ At("copy")
  /\ daemon' = [daemon EXCEPT !.at = "seg",
                  !.got.id = IF @ = outputID THEN @ ELSE "torn"]
  /\ UNCHANGED <<config, mainVars, queue, asking>>

(* Mutant: the number of the start is shown for ever.                      *)
ReadSegnoStale ==
  /\ At("seg")
  /\ daemon' = [daemon EXCEPT !.at = "sample", !.got.seg = 0]
  /\ UNCHANGED <<config, mainVars, queue, asking>>

ReadSegno ==
  /\ At("seg")
  /\ daemon' = [daemon EXCEPT !.at = "sample", !.got.seg = lastSegno]
  /\ UNCHANGED <<config, mainVars, queue, asking>>

AnswerStatus ==
  /\ At("sample")
  /\ Reply("status", NoFile, [daemon.got EXCEPT !.sample = sampleNumPerSeg])

(* Mutant: no response is returned.                                        *)
RefuseShortPathSilently ==
  /\ At("path") /\ ~IsStatus /\ PathLength(Asked) < MinPath
  /\ daemon' = Idle
  /\ UNCHANGED <<config, mainVars, queue, asking>>

RefuseShortPath ==
  /\ At("path") /\ ~IsStatus /\ PathLength(Asked) < MinPath
  /\ Reply("invalid", NoFile, NoStatus)

StartProbing ==
  /\ At("path") /\ ~IsStatus /\ PathLength(Asked) >= MinPath
  /\ MoveTo("probe")
  /\ UNCHANGED <<config, mainVars, queue, asking>>

(* Mutants: one probe too few, ten times too many.                         *)
LastProbeEarly == daemon.repeat >= term \div ProbeMs
LastProbeTenfold == daemon.repeat > term \div (ProbeMs \div 10)

(* if(repeat++ > httpFilecheckterm / 100)                                  *)
LastProbe == daemon.repeat > term \div ProbeMs

ProbeHits ==
  /\ At("probe") /\ Exists(Asked)
  /\ MoveTo("open")
  /\ UNCHANGED <<config, mainVars, queue, asking>>

ProbeMisses ==
  /\ At("probe") /\ ~Exists(Asked) /\ ~LastProbe
  /\ daemon' = [daemon EXCEPT !.at = "sleep", !.repeat = @ + 1]
  /\ UNCHANGED <<config, mainVars, queue, asking>>

(* Mutant: gives up by leaving the loop instead of the function.           *)
NotFoundOpens ==
  /\ At("probe") /\ ~Exists(Asked) /\ LastProbe
  /\ MoveTo("open")
  /\ UNCHANGED <<config, mainVars, queue, asking>>

NotFound ==
  /\ At("probe") /\ ~Exists(Asked) /\ LastProbe
  /\ Reply("notFound", NoFile, NoStatus)

(* usleep in the thread that serves everybody.                             *)
Sleep ==
  /\ At("sleep")
  /\ daemon' = [daemon EXCEPT !.at = "probe", !.slept = @ + 1]
  /\ request' = [c \in Clients |->
                   IF request[c] = NoRequest THEN NoRequest
                   ELSE [request[c] EXCEPT !.waited = @ + 1]]
  /\ UNCHANGED <<config, mainVars, queue, holds, asked, reply>>

(* Mutant: a response is made from the descriptor all the same.            *)
OpenGoneSends ==
  /\ At("open") /\ ~Exists(Asked)
  /\ MoveTo("send")
  /\ UNCHANGED <<config, mainVars, queue, asking>>

(* file_response::get_raw_response: open and lseek, unchecked.  A file     *)
(* that is gone gives descriptor -1 of size (size_t)-1.                    *)
OpenGone ==
  /\ At("open") /\ ~Exists(Asked)
  /\ Reply("broken", NoFile, NoStatus)

OpenEmpty ==
  /\ At("open") /\ Exists(Asked) /\ Served(Asked).body = "empty"
  /\ Reply("file", Served(Asked), NoStatus)

OpenFile ==
  /\ At("open") /\ Exists(Asked) /\ Served(Asked).body # "empty"
  /\ daemon' = [daemon EXCEPT !.at = "send", !.file = Served(Asked)]
  /\ UNCHANGED <<config, mainVars, queue, asking>>

(* The daemon sends from the descriptor: a file that was unlinked is still *)
(* sent, one that was truncated ends the connection short of its length.   *)
Send ==
  /\ At("send")
  /\ IF daemon.file.body = "lost" THEN Reply("broken", NoFile, NoStatus)
                                 ELSE Reply("file", daemon.file, NoStatus)

-----------------------------------------------------------------------------
Main == CutExtension \/ ProcessEnds \/ MakeOrWipe \/ Wipe \/ WipeDone \/ SetSegno
        \/ WriteHeader \/ GrowSegment \/ FinishSegment \/ TruncateList
        \/ WriteList \/ NextSegment \/ Close

RenderGet == AskStatus \/ ReadLength \/ CopyId \/ ReadSegno \/ AnswerStatus
             \/ RefuseShortPath \/ StartProbing \/ ProbeHits \/ ProbeMisses
             \/ NotFound \/ Sleep \/ OpenGone \/ OpenEmpty \/ OpenFile \/ Send

Next == Main \/ (\E c \in Clients : Ask(c)) \/ Take \/ RenderGet

(* The kernel schedules the daemon's thread, its sleeps end, and its       *)
(* select loop comes round to every connection.  Nothing is assumed of     *)
(* the main thread: it may wait for the peer for ever.                     *)
Spec == Init /\ [][Next]_vars /\ WF_vars(Take \/ RenderGet)

-----------------------------------------------------------------------------
(* Properties *)

Bodies == {"none", "empty", "part", "whole", "lost"}
FileType == [sess : {"none", "old", "new"}, body : Bodies, lists : SUBSET Segs]
StatusType == [id : {"none", "ext", "cut", "torn"}, seg : {-1, 0}, sample : Nat]

(* render_GET never looks at a file it did not find, and what it serves is *)
(* something the muxer of one of the two sessions wrote.                   *)
TypeOK ==
  /\ main \in {"cut", "dir", "wipe", "segno", "header", "mux", "nomux", "list",
               "next", "trailer", "last", "closed", "ended"}
  /\ disk \in [Files -> FileType]
  /\ seg \in Segs
  /\ daemon.at \in {"idle", "path", "id", "copy", "seg", "sample", "probe",
                    "sleep", "open", "send"}
  /\ daemon.who \in Clients
  /\ daemon.file \in FileType
  /\ daemon.at = "send" => daemon.file.body # "none"
  /\ daemon.got \in StatusType
  /\ reply = NoReply \/ /\ reply.file \in FileType
                        /\ reply.status \in StatusType
                        /\ reply.what = "file" => reply.file # NoFile

Replied(what) == reply.what = what

(* "File Not Found" is said only after the check term has passed in        *)
(* sleeps, and less than two probes later, for every term given with -t.   *)
NotFoundAfterTerm ==
  Replied("notFound") => /\ reply.slept * ProbeMs >= term
                         /\ reply.slept * ProbeMs <= term + ProbeMs

(* When the server's root is the directory the program works in, a request *)
(* that came after Open had returned is never answered with a file of the  *)
(* session before, in whole or in part.  Under any other root a request is *)
(* never answered with a file of the running session: what is served there *)
(* was left by an earlier one, which nothing wipes.                        *)
OldSessionOver ==
  Replied("file") =>
    IF root = "cwd" THEN reply.to.fresh => reply.file.sess = "new"
                    ELSE reply.file.sess = "old"

(* A player that holds a playlist of the running session gets every        *)
(* segment it lists, complete: no listed segment is refused, missing,      *)
(* still being written, or left over from the session before.              *)
ListedSegmentsServed ==
  reply # NoReply /\ reply.held.sess = "new" /\ reply.to.ask \in reply.held.lists
    => Replied("file") /\ reply.file = File("new", "whole", {})

(* A file can vanish between access() and open() only while Open wipes,    *)
(* and lose its end while being sent only if it is the playlist; every     *)
(* other answer is delivered.                                              *)
BrokenOnlyByWipe ==
  Replied("broken") => ~reply.to.fresh \/ reply.to.ask = Playlist

(* A status answer shows of each field a value it had between the request  *)
(* and the answer, though the three are read one after the other while     *)
(* main writes them; only an id that was cut meanwhile can come out torn.  *)
StatusIsRecent ==
  Replied("status") /\ reply.to.ask = Status =>
    LET shown == reply.status
        saw == reply.to.saw
    IN  /\ shown.id \in {saw.id, outputID} \/ saw.id # outputID
        /\ shown.seg \in lastSegno .. saw.seg
        /\ shown.sample \in saw.sample .. sampleNumPerSeg

(* One request for a file that does not come holds up everybody, but no    *)
(* client sits through more sleeps than its own and one full search for    *)
(* each of the others.                                                     *)
BoundedWait ==
  \A c \in Clients :
    request[c].waited * ProbeMs <= Cardinality(Clients) * (term + ProbeMs)

(* Every request is answered, also while the session never opens.          *)
EveryRequestAnswered ==
  \A c \in Clients : (request[c] # NoRequest) ~> (request[c] = NoRequest)

(* mediaproc.cpp:74: the "play m3u8 URL" that CheckConfigs prints names    *)
(* the playlist: asking for it is no invalid path.                         *)
PrintedUrlIsAPath ==
  Replied("invalid") /\ reply.to.fresh => reply.to.ask # Playlist
=============================================================================
