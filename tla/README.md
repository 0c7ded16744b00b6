# Verification of mediaproc (audioproc)

`mediaproc` receives one live audio stream (FLAC or WAV over HTTP, TCP, RTMP or
RTSP), transcodes it to AAC, writes it as an HLS playlist with MPEG-TS segments
and serves the playlist and the segments from a web server inside the same
process. This directory holds TLA+ models of it, the TLC configurations that
check them, and machine-checked proofs about each of its components.

    tlc -config MCTranscode.cfg MCTranscode       # the media session
    tlc -config MCLifecycle.cfg MCLifecycle       # how the process comes up and goes down
    tlc -config MCFileServer.cfg MCFileServer     # players beside the HLS muxer
    tlc -config MCWebServer.cfg MCWebServer       # start, stop and the callbacks of a request
    tlc -config MCTables.cfg MCTables             # registry, policy, queue, command line, paths, addresses
    tlc -config MCTexts.cfg MCTexts               # the pure algorithms
    tlapm TranscodeProofs.tla                     # the theorems, and so on for
                                                  # the other modules *Proofs
                                                  # and Iteration

## 1. Inventory

| component | state | operations | files |
|---|---|---|---|
| media session | demuxer, decoder, FIFO, encoder, muxer; `ret`; `m_totalSampleNum`, `m_segSampleNum`, `lastSegno`, `sampleNumPerSeg` | `MediaIn::Open/GetPacket/Close`, `MediaOut::Open/ConvertFrame/EncodeWrite/Close`, `FileConcatLoop` | `src/MediaIn.cpp`, `src/MediaOut.cpp`, `src/mediaproc.cpp` |
| process life cycle | `sConfig.bProcessRun`, the global handles, the threads, `atexit` | `main`, `fileserverThread`, `signal_callback_handler`, `deleteAllHandles`, `exit` | `src/mediaproc.cpp`, `httpd/inc/webserver.cpp` |
| HLS file server | the files below `httpFilePath`, `httpFilecheckterm` | `FileResponse::render_GET`, `getRESTfulResponse` | `src/FileServer.cpp` |
| web server | `running`, `mutexwait`, `mutexcond`, the daemon, a `modded_request` per connection | `start`, `stop`, `answer_to_connection`, `finalize_answer`, `request_completed` | `httpd/inc/webserver.cpp` |
| resource registry | `registered_resources`, `registered_resources_str` | `register_resource`, `unregister_resource`, the match in `finalize_answer` | `httpd/inc/webserver.cpp`, `httpd/inc/details/http_endpoint.cpp` |
| access policy | `bans`, `allowances` | `ban_ip`, `allow_ip`, `unban_ip`, `disallow_ip`, `policy_callback` | `httpd/inc/webserver.cpp`, `httpd/inc/http_utils.cpp` |
| configuration | `SinkConfig` | `parseArguments`, `setRootPath`, `setFileTermMS`, `CheckConfigs` | `src/mediaproc.cpp`, `src/FileServer.cpp` |
| frame queue | `aIsFrameInUse_`, `bEndOfTask_` | `isInUse`, `waitUntilFrameAvailable`, `endTask`; `enqueue`, `dequeue` and `releaseFrame` are pure virtual and implemented nowhere | `src/Queue.cpp`, `src/Queue.h` |
| strings of HTTP | the string, where each loop reads and writes it, the pieces of an address | `tokenize_url`, `standardize_url`, `http_unescape`, `ip_representation` | `httpd/inc/http_utils.cpp`, `httpd/inc/string_utilities.cpp` |
| JSON library | none: functions of a value or a text | scanner, parser and its consumers, serializer, Grisu2, four binary formats, pointer, patch, diff, comparison, container | `src/nlohmann/` |
| external | FFmpeg, libmicrohttpd | | `dist/`, `httpd/lib/` |

**How they interact.** `main` parses the arguments, starts the server thread,
opens both ends and then is the only thread that touches the media: it calls
`GetPacket` (which waits for the peer), `ConvertFrame` and `EncodeWrite` in two
nested loops. The server thread registers `gpFileRes` under `/`, starts the MHD
daemon and waits on a condition variable; the daemon's own thread answers
requests by calling `gpFileRes->render_GET`, which reads `sConfig` and the
files below `httpFilePath`. Those are the files the muxer writes, in
`<outputID>` of the working directory, only while `-d` names that directory or
is not given. `SIGINT` is handled on whichever thread the kernel
chooses; the handler clears `bProcessRun`, which `FileConcatLoop` tests and
which FFmpeg polls through `cbDecodeInterrupt`, sleeps one second and calls
`exit(0)`.

**What is hard.** Nothing is locked: three threads and a signal handler share
`sConfig` and the global handles. The server thread is cancelled and never
joined. `exit(0)` destroys objects another thread uses. Within the session the
difficulty is sequential: codecs that hold frames back, a `ret` that is set in
three places and tested in two, early returns that skip a release or a count,
rounding of timestamps, and a wait for a peer that only a polled flag can end.
`PROJECT.json` lists each hazard at its line.

**What makes each part correct.** Media session: every accepted sample is
delivered, dropped with a frame or still inside, in bounded number; timestamps
are contiguous; the session ends. Life cycle: a stop request or the end of the
input ends the process, an orderly end leaves a closed input and a trailer and
destroys nothing in use, and an abnormal end has one of a few causes. File
server: a file that comes within the check term is served and every request is
answered. Web server: a request is answered once and its bookkeeping freed once,
`stop` ends `start`. Registry: the most specific resource wins whatever the
order of registration. Access policy: the outcome of bans and allowances depends
on the set, not on the order of calls. Configuration: what is served is what the
command line said, as far as `SinkConfig` has room for it. Queue: a waiter
returns when the frame is free or the task ends, and its result says which.
Strings: a path comes out with the segments that were meant, up to a zero byte,
and an address fills exactly sixteen pieces. JSON: the loop accepts the grammar
and its three consumers agree; text and every binary format restore a value; a
float's digits read back as the float; a diff leads from one value to the other;
an edit is the edits it is made of.

## 2. Modules

| module | what it is |
|---|---|
| `PacketStream` | abstract specification: samples accepted in chunks, delivered in packets of `FrameSize` |
| `Transcode` | the media session, detailed; implements `PacketStream` |
| `MCTranscode` | constants for TLC |
| `TranscodeProofs` | theorems about `Transcode` and `FrameQueue`, with their proofs |
| `Lifecycle` | threads, signals, cancellation, `exit()` |
| `MCLifecycle` | constants for TLC |
| `LifecycleProofs` | theorems about `Lifecycle` |
| `FileServer` | `render_GET` on the daemon's thread, the main thread with the HLS muxer, players |
| `FileServerProofs` | theorems about `FileServer` |
| `WebServer` | `start`, `stop`, the destructor, and the callbacks over a `modded_request` |
| `WebServerProofs` | theorems about `WebServer` |
| `Registry` | the two maps of resources and the match of `finalize_answer` |
| `RegistryProofs` | theorems about `Registry` |
| `AccessPolicy` | bans, allowances and `policy_callback` |
| `IpAddress` | the text of an address into sixteen pieces |
| `AccessPolicyProofs` | theorems about `AccessPolicy` and `IpAddress` |
| `FrameQueue` | `waitUntilFrameAvailable` beside the owners of the frames |
| `Config` | the loop over the command line and what becomes of it |
| `HttpPath` | the path of a request: decoded in place, thinned of slashes, split |
| `InputProofs` | theorems about `Config` and `HttpPath` |
| `Iteration` | lemmas: what a loop keeps, and that the function of its turns exists |
| `MCFileServer`, `MCWebServer` | constants for TLC |
| `MCTables` | the six small components side by side in one run, and their constants |
| `JsonValue` | values and their access |
| `JsonLexer`, `JsonParser` | from bytes to tokens, from tokens to events and values |
| `JsonDump`, `FloatDigits` | from a value to its text; the digits of a float |
| `JsonPatch` | comparison, pointer, flatten, patch, diff, merge patch |
| `JsonContainer` | iterators, access, construction and the edits of a value |
| `BinaryWriter`, `BinaryReader` | CBOR, MessagePack, UBJSON, BSON |
| `JsonProperties` | what these promise each other |
| `MCTexts` | builds the inputs of the pure algorithms |

### Transcode

Data is abstracted to numbers of samples. Control is complete: one action per
way a handler can return, in the order the code makes its calls. A call of
`GetPacket` is one action, because only the main thread touches what it
touches; the peer, the read-ahead buffer and `bProcessRun` change between any
two actions.

| code | model |
|---|---|
| `MediaIn::Open` (the wait for the peer included) | `OpenInput`: interrupted when `bProcessRun` is false; `assert(0)` is `pc = "aborted"` |
| `MediaOut::Open`, `OpenSegfile` | `OpenOutput`: the ignored `avformat_write_header` gives `m_pFileContext = "noheader"` |
| `while(sConfig.bProcessRun)` | `LoopTest` |
| fill loop: `GetPacket`, `ConvertFrame` | `FillDone`, `ReadEnds`/`ReadFails`, `SendRefused`, `SendFails`, `NeedMore`, `ReceiveFails`, `ReceiveFrame`, then `ConvertFrame` |
| `if (ret == PKT_ENDOFFILE ...) break` | in the fill loop part of `NoMoreInput`, after it `EofTest` |
| drain loop: `EncodeWrite` | `DrainDone`, `EncodeFails`, `EncodeDelayed`, `WritePacket`, all by `TakeFrame` |
| `deleteAllHandles` | `CloseInput`, `CloseOutput` |
| `signal_callback_handler` on another thread | `Interrupt` |
| the peer (external) | `SourceSend`, `SourceClose`; `avio` is what the demuxer has read ahead and still delivers after a stop request |

The decoder is `decHeld`, the frames it has produced and nobody fetched; it
refuses a packet from `DecCap` on, as `avcodec.h` allows. The encoder is
`encHeld`, the frames it holds before its first packet (`EncDelay`). `leaked`
and `refused` are history variables; `accepted` and `lostFrames` are the
account `SampleConservation` is about. `PKT_NOTSTART` is never returned and
`AVERROR_EOF` of `avcodec_receive_frame` needs a flush packet that is never
sent; both are left out.

### Lifecycle

`main`, `srv` and `mhd` are the positions of the three threads. `mode[t]` says
whether thread `t` executes its own code, the signal handler (its sleep) or
`exit()`. Only the thread a signal is delivered to is diverted: the others run
on, also while `exit()` destroys `gpOFile` and then `gpIFile` (reverse order of
construction, `atexit` counts them). Using a destroyed or deleted object is
undefined, so `HandleCrash` and `ResourceCrash` are possible beside going on. A
handle that was destroyed before `main` closed it stays `"destroyed"`, also when
`main` gets away with closing it and clears the pointer (`Dropped`): so
`ReturnIsOrderly` sees what was done to it, and the trailer of such an object
may be missing. The property says when that can come about, and that without it
the end of `main` leaves a closed input and a trailer. The cancelled server
thread unwinds from `pthread_cond_wait` holding `mutexwait` and stops for good
in `stop()` (`srv = "stuck"`), which nobody waits for. Returning from `main` is
a call of `exit()` too.

### FileServer

| code | model |
|---|---|
| `MediaOut::Open`: extension, `access`/`mkdir`, the loop of `remove` | `CutExtension`, `MakeOrWipe`, `Wipe`, `WipeDone` |
| `OpenSegfile` | `SetSegno`, `WriteHeader` |
| the HLS muxer (external) | `GrowSegment`, `FinishSegment`, `TruncateList`, `WriteList`, `NextSegment` |
| `MediaOut::Close` | `Close`, then `TruncateList`, `WriteList` for the trailer |
| `getRESTfulResponse` | `AskStatus`, `ReadLength`, `CopyId`, `ReadSegno`, `AnswerStatus`: one action per field read |
| the length test | `RefuseShortPath`, `StartProbing` |
| the probe loop | `ProbeHits`, `ProbeMisses`, `NotFound`, `Sleep` |
| `file_response::get_raw_response`, after `access` | `OpenGone`, `OpenEmpty`, `OpenFile`; `Send` reads from the descriptor |

There are two directories. `MediaOut` makes, wipes and fills `<outputID>` under
the working directory (`disk`); the server looks under `httpFilePath`. With
`root = "cwd"` they are the same, with `root = "elsewhere"` (`-d`) the server
finds what is there (`elsewhere`: nothing, or the files of an earlier session),
to which the program does nothing (`Served`). So `OldSessionOver` is one statement
for the first case and another for the second, where only stale files can be
given.

A file is the session it belongs to and how much of it is written; a descriptor
keeps a file that was unlinked and loses the end of one that was truncated. At
first a directory is missing or holds the files of an earlier session.
Players ask for any segment, for the playlist or for the status; `holds` is the
playlist a player was given last. `reply` is the last answer with what the
property needs to judge it: what was asked, whether the session was open by
then, what the player held, how long the daemon slept.

### WebServer

The library runs all callbacks on one thread (`INTERNAL_SELECT`), so each is
one action: `UriLog`, `FirstStep` (headers), `BodyPiece`, `FinalizeAnswer`,
`RequestCompleted` at any time. `conn[k]` is the `modded_request`: which of its
objects are alive, which render method it points to, how much of the body it
keeps. `StartDaemon`, `SetRunning`, `LockToWait`, `TestRunning` (with spurious
wake-ups) are `start(true)`; `StopBegins`, `StopLocks`, `StopSignals`,
`StopDaemon`, `JoinDaemon` are `stop()`, which the destructor calls on the
owner's thread and any number of `Stoppers` call, each once, whenever they come
to it. Nothing keeps the calls apart: `StopBegins` tests `running` without the
mutex, two callers may both go on to `MHD_stop_daemon`, and `Destroyed` may take
the object and its mutex away from a `stop()` that has just cleared `running`.
What a thread then does to freed memory, or to a daemon that is being stopped or
has been, is undefined: it is an action (`UseFreed`, and the other outcome of
`StopDaemon`) that sets `broken`, and nothing is followed from there on.
`StopIsComplete` says under which overlap alone it can happen, `StopEndsStart`
what is certain without it. Resources, responses and the application's pages may
throw, except that `NoEscape` names what must not.

### Registry, AccessPolicy, FrameQueue, Config

`Registry` keeps `registered_resources` by the normalised path and
`registered_resources_str` by its spelling. `InOrder` is the order in which the
`std::map` is iterated, `Search` the loop of `finalize_answer` over it, one
turn per entry, and `Better` its comparison. In single-resource mode with nothing
registered the code follows `begin()` of an empty map; `Find` is then `Undefined`,
which is neither a resource nor `None`. `AccessPolicy` keeps bans and
allowances as the sequences `std::set` iterates. The comparison of
`ip_representation` skips pieces masked by a wildcard and so is no order: a
search may end at every place where a walk down some tree over the sequence
ends. `FrameQueue` has one action per look at a flag.

`Config` has one action per option of the loop in `parseArguments` (`SetInput`,
`SetOutput`, `SetDirectory`, `SetPort`, `SetTerm`), the two ways out of it
(`Refuse`: `main` returns 1; `EndProcess`: the usage text and `exit`), its end
with the test of what was given, and `CheckConfigs`. `argi` is the loop's `i`;
`outcome` says where that leaves the process. An argument is a name, with what
it reads as: an option, a number, a path.

`setRootPath` copies the path without a bound into `httpFilePath[128]`, in the
middle of `SinkConfig`. `Copied` is what that does to the fields behind it: from
128 characters on the port is some scrap of the path, from 132 on the term, too
(`lastSegno` and `sampleNumPerSeg` behind it, which a status answer shows until
the session sets them, are left out); an option read later sets its field and so
spoils the path that runs over it (`Under`). A path of 144 or more runs past the
end of `sConfig`; that is `Overrun`, and what becomes of the process is not
followed. `getcwd` leaves the buffer alone when the directory does not fit into
128.

### HttpPath, IpAddress

`HttpPath` follows one path from the player that means it to the tokens that
are looked up. The player writes byte by byte, escapes what it must and may
escape anything, and may err by leaving a percent sign as it is; `meant` and
`sent` are the two texts, `proper` says that it did not err.

| code | model |
|---|---|
| `http_unescape`, one turn of its loop | `UnescapePlus`, `UnescapeHex`, `UnescapeOther`; `rpos`, `wpos` are the code's, from 1 |
| `val.resize(wpos)` | `Terminate` |
| `rpos` behind the terminator | `GoAstray`: what is read from there on is not the string |
| `standardize_url` | `KeepByte`, `DropSlash` (a turn of `std::unique`), `EraseRest` |
| `standardized_url->c_str()` for the lookup and `set_path` | `PassCString`: the string up to its first zero byte, which `%00` decodes to |
| `tokenize_url` | `TakeByte`, `EndToken`, `EndPath` |

`Scanned` is the set of results `sscanf("%2x")` may give, blanks and a sign
included; where C libraries differ (`0x`) it has both. A path that is cut at a
zero byte has lost the segments behind it, and may end in a slash again;
`PathsSurvive` says that this, and nothing else, is lost.

`IpAddress` has an action per kind of field the loop of `ip_representation`
meets (`FillHex`, `FillAny`, `FillOmitted`, `FillDotted`, `RefusePart`), before
it `Split` with the count of what is omitted, and `ReadIPv4` for a text without
a colon. `filled` is the code's `y`. An exception is `verdict = "refused"`.
`Put` writes where the code writes, also behind the sixteenth piece, so that
`AddressesFill` is what keeps it inside.

### The pure algorithms

They are operators, translated loop for loop. Bytes are numbers; a JSON value is
a record tagged with its type; integers have `Bits` bits, cut and wrapped where
the code converts. A binary number takes `Bytes32` or `Bytes64` bytes in place
of four or eight. The digits a float is written with are those `FloatDigits`
finds; between the scanner and the serializer a float is its shortest decimal
form. Infinities and NaN are floats no digits stand for: the serializer writes
them as `null`, the binary formats keep them, and a NaN equals nothing and is
neither less nor greater (its sign is left out). `FloatDigits` has the code's
constants 64, 53, -60, -32 and the step of the table as parameters, in the
relations the code asserts between them. The property is stated on a reference
of its own kind: a grammar for the parser, the exact rational bounds for a
float's digits, the round trip for writer and reader, the single-element edits
for an edit, the function of the calls for a table.

## 3. Runs

| run | question | states |
|---|---|---|
| `transcode` | does a session with every failure, frame size and interruption keep its account and its timeline, end, and implement `PacketStream`? | 132 092 |
| `transcode_refused` | is a packet ever given up because the decoder is full? (it is) | stops at the violation |
| `transcode_leak` | does a session without failures release what it allocates? (it does not) | stops at the violation |
| `transcode_trailer` | is the trailer written only after a header? (it is not) | stops at the violation |
| `lifecycle` | how can the process end, and does it always end when asked to? | 4 127 |
| `fileserver` | what can a player be given, and how long can it be kept waiting, while the main thread wipes, writes and rotates, where it serves or elsewhere? | 1 467 037 |
| `fileserver_url` | does the URL that is printed play? (not for an id of four characters) | stops at the violation |
| `webserver` | is everything of a request freed with it, does nothing throw through the library, and does `stop` end `start`, alone and beside others? | 322 804 |
| `webserver_errorpage` | is an error of the error page caught? (not one raised in the first handlers) | stops at the violation |
| `tables` | do the tables say what the calls said, does a waiter learn why it was woken, does what is served follow the command line, does a path keep its segments and an address its fields? | 540 542 |
| `texts` | do the pure algorithms agree with their references? | 1 197 017 |
| `lifecycle_assert` | is the input closed before it is destroyed? (not after a `SIGINT` on the main thread) | stops at the violation |

**Bounds.** `MaxPackets = 4`, `MaxAvio = 2`: four packets of up to two frames
of up to 2500 samples fill the FIFO above two AAC frames of 1024, fill the
decoder (`DecCap = 2`), prime the encoder (`EncDelay = 1`) and leave a residue
at the end; every action of `Transcode` occurs. The frame lengths 600, 1024 and
2500 are shorter than, equal to and longer than an AAC frame. `IntMax = 4095`
lets the longest sessions exceed an `int`, so that `AsInt` wraps. 44 100 Hz and
90 000 ticks are the rates at which both roundings are inexact. `MaxSignals =
2`: a second `SIGINT` finds another thread in the handler, or the main thread
in `exit()`. The bounds matter only to the runs: the theorems hold for all
values.

`fileserver`: two players and three requests let one wait behind the other and
come back for a segment its playlist lists; two segments let one be listed while
the next is written, and a list of one (`ListSize`, 120 in the code) drops it
again. The served root is the working directory or another one, which is empty
or holds an earlier session. The least term is scaled to 150 ms, which is two
probes and not a multiple of one. The ids are an ordinary one, one so short that
only segments can be asked for, and one that makes every path a status request.
`webserver`: two connections, pieces of 1 and 2 bytes around a limit of 1, two
threads that stop beside the destructor, so that two and three calls overlap.
`tables`: four calls are enough to register under both kinds of path, replace,
remove and register again; the patterns have the same number of pieces and
different widths, or the reverse; addresses include pairs that differ under a
wildcard; command lines of up to three options with values, or arguments that
stand alone, and those of four that name input and output, repeat an option,
omit a value at the end, wrap a number and name a root that is too short, too
short without its slash, missing, or of 128, 132 and 144 characters, the lengths
at which it reaches the port, the term and the end; a working directory that is
short, the root of the file system, or too long for `getcwd`; four bytes of
path, of a slash, a percent sign, a digit, a space and zero, each written in
every way, hold escapes that decode to one another, runs of slashes and an
escape cut off at each place; addresses of up to five fields of every kind, of
up to nine of the usual ones, and long ones with two omissions and an IPv4 tail
reach every count of omitted fields and every refusal. `texts`: ten tokens hold
a container in a container with a member before and after it (a text that has
more containers open than tokens left to close them is not continued); four
bytes hold the longest UTF-8 sequence; 1344 floats of 7 bits are all of a format
with normal and denormal numbers over 21 binary exponents, which needs every
entry of a table of six; values have depth two, NaN and an infinity among them.
Besides them `texts` writes and reads the last number every encoding of a number
has room for, the next one and their neighbours (15, 23, 31, 127, 2^8, 2^15,
2^16, 2^23, 2^24, the largest integer and the largest unsigned one, with both
signs and types), strings of each of these lengths up to 2^16 + 1, and arrays
and objects with each of these numbers of elements up to 33; above that a
container's head is written and read by itself, for every one of these counts
(`CountRestores`).

**Fairness.** `Transcode` assumes weak fairness of the main thread's steps and
of nothing else: not that the peer sends or ends, not that a signal comes, and
not that a waiting read fails by itself (`ReadFails` is outside `Main`).
A read that ends because the peer ended or because the interrupt callback
returned 1 is a step of the main thread: FFmpeg polls the callback while it
waits. `Lifecycle` assumes weak fairness of each thread: the kernel schedules
all of them, a thread in the handler wakes up, a pending cancellation is acted
upon. `OpenDone` (the peer comes), `InputEnds`, requests, failures and crashes
are not fair. `FileServer` assumes it of the daemon's thread alone: the main
thread may wait for its peer for ever, and no player need ask. `WebServer`
assumes that threads are scheduled and that a stopped daemon closes its
connections; strong fairness is stated only of taking `mutexwait`, which
everybody gives back: whoever waits for it gets it in the end. `FrameQueue`
assumes that a spinning thread is scheduled, and nothing of who takes and
releases frames.

**Findings.** Six statements of the libraries' headers and of the program
itself are violated by what the code does; `PROJECT.json` quotes them: packets
refused with `EAGAIN` are not resent; `av_frame_get_buffer` is called on a
frame that has a buffer; the trailer is written without a header; `~MediaIn`
finds its context open when `exit(0)` is called from the handler; the play URL
that is printed for a short id is refused as an invalid path; an internal error
page that throws is not caught where the comment says. (The first four are in
the headers or assertions, the last two in a message and a comment of the
program.)

## 4. Proofs

Every safety property of the components with a state is a theorem, for all
values of the constants: without a bound on packets, time, players, requests,
calls or the length of a command line, a path or an address. What is assumed of
the constants stands in the component's module as a named ASSUME, which TLC
evaluates in its run.

| module | theorem | statement | assumptions |
|---|---|---|---|
| `TranscodeProofs` | `TypeCorrect` | `Spec => []TypeOK` | `TranscodeAssumption`: positive frame size and capacities, at least 1000 samples and ticks per second, a frame of at least a millisecond |
| | `Inductive` | `Spec => []IInv` | |
| | `Conservation` | `Spec => []SampleConservation` | |
| | `FifoDiscipline` | `Spec => []FifoPhases` | |
| | `Accounted` | `Spec => []SessionAccount` | |
| | `Timeline` | `Spec => ContiguousTimeline` | |
| | `Refinement` | `Spec => Stream!StreamSafety` | |
| `LifecycleProofs` | `TypeCorrect` | `Spec => []TypeOK` | `LifecycleAssumption`: a number of signals, known faults |
| | `AbortsAreExplained` | `Spec => []AbortCauses` | |
| | `MainLeavesInOrder` | `Spec => []ReturnIsOrderly` | |
| `FileServerProofs` | `TypeCorrect` | `Spec => []TypeOK` | `FileServerAssumption`: finitely many players, a positive probe interval and list size |
| | `SearchesKeepTheTerm` | `Spec => []NotFoundAfterTerm` | |
| | `OldSessionIsOver` | `Spec => []OldSessionOver` | |
| | `AnswersAreDelivered` | `Spec => []BrokenOnlyByWipe` | |
| | `ListedIsServed` | `Spec => []ListedSegmentsServed` | |
| | `StatusesAreRecent` | `Spec => []StatusIsRecent` | |
| | `WaitsAreBounded` | `Spec => []BoundedWait` | |
| `WebServerProofs` | `TypeCorrect` | `Spec => []TypeOK` | `WebServerAssumption`: finitely many connections, pieces of a body are not empty, limits are numbers, no stopper is the owner |
| | `RequestsAreFreed` | `Spec => []FreedWithRequest` | |
| | `CallbacksAreSet` | `Spec => []CallbackIsSet` | |
| | `BodiesAreCut` | `Spec => []ContentIsPrefix` | |
| | `ExceptionsAreCaught` | `Spec => []NoEscape` | also that the pages for a missing path and an internal error do not throw |
| | `StopsAreComplete` | `Spec => []StopIsComplete` | |
| `RegistryProofs` | `TablesStayOne` | `RegSpec => []TablesAgree` | `RegistryAssumption`: pieces are ordered, and equal only when they are the same |
| | `MostSpecificIsFound` | `RegSpec => []MostSpecificWins` | |
| `AccessPolicyProofs` | `PolicyIsWhatWasSaid` | `PolSpec => []PolicyFollowsCalls` | `PolicyAssumption`: pieces are numbers or the star |
| | `AddressFillsPieces` | `AddressSpec => []AddressesFill` | `AddressAssumption`: a text is a sequence of fields with at least one |
| `TranscodeProofs` | `WaiterIsTold` | `QueueSpec => []WaitResult` | none |
| `InputProofs` | `ServesWhatWasSaid` | `ConfigSpec => []ConfigChecked` | `ConfigAssumption`: what an argument reads as is an option or none, a number or none, and a path with a length |
| | `PathComesThrough` | `PathSpec => []PathsSurvive` | `PathAssumption`: bytes are from 0 to 255 |

`RegSpec`, `PolSpec`, `QueueSpec`, `ConfigSpec`, `PathSpec` and `AddressSpec`
are the component's initial states and steps by themselves. `MCTables` runs
them beside each other, one moving while the others rest, so that a behaviour
of its `Spec` is, seen through the variables of one component, a behaviour of
that component.

`NoEscape` is the property with a condition on the constants: the run
`webserver` has no page in `Throwing` that must not throw, and
`webserver_errorpage` shows that the condition is needed.

### Media session

None of the properties is inductive by itself. `SessionAccount`
speaks of the last state only and needs to know how the loop was left
(`Phases`), how much the FIFO holds there (`FifoPhases`), how many frames the
encoder can hold (`EncoderBound`), and that the published number was computed
from the only segment (`Published`). `FifoPhases` in turn needs that `ret`
cannot still be `ENDOFFILE` when the fill loop did not run (`Phases`).
`ContiguousTimeline` compares a packet with the one before it and needs that
the last stamps are a function of the number of packets (`Stamped`), which
holds only because samples are counted where packets are written
(`SampleConservation`). `IInv` is the conjunction. Each conjunct has a lemma
of its own with a step per action (`TypeStep`, `ConservationStep`,
`BoundStep`, `PhasesStep`, `InFlightStep`, `PublishedStep`, `StampedStep`);
`WhoCounts` and `WhoWrites` name the few actions that touch what a conjunct is
about, so that the others are dismissed together. The arithmetic of the
timeline is in `DivSum`, `RoundingSeparates` and `FrameLasts`. `Refinement`
maps `ConvertFrame` to `Accept`, `WritePacket` to `Emit`, `EncodeFails` to
`Drop`, `CloseOutput` to `Finish` and every other step to a stutter.

### Process life cycle

`AbortCauses` names, for an abort, the state that brought it about; `EndInv`
says before it where each handle can be. Outside of the part of `main` between
`MakeHandles` and `deleteAllHandles` the handles are null
(`HandlesFollowMain`), `gpFileRes` is deleted only after the trailer
(`ResourceFollowsMain`), and only a signal, or the end of `main`, brings a
thread into `exit()`, which alone destroys a handle (`ExitNeedsSignal`). The
last is what turns "a destroyed handle was used" into "after a signal, while
another thread was in `exit()`". `ReturnIsOrderly` needs it as well, with
`HandlesFollowMain` in the form that a handle is null, or was destroyed, once
`main` has closed it.

### File server

The invariant comes in groups, each with the results that need it.

* `Shape` and `QueueInv`: types; a player waits for one request, which is in
  the queue once or with the daemon; what the daemon probes for is a file whose
  path was long enough. All the others rest on it.
* `ProbeInv` counts probes against sleeps. `NotFoundAfterTerm` is a statement
  about the moment of the answer and follows from the count at that moment.
* `DiskInv` says what is on the disk at each place of `main`: nothing of the
  new session before `OpenSegfile`, nothing of the old one from then on, every
  finished segment whole; and that a directory elsewhere holds files of an
  earlier session or nothing. `ServedFacts` says what follows for a served file.
  `FreshInv` carries it through the steps of a request: what was there when it
  was made is there when the file is opened, and a descriptor loses its end only
  if it is the playlist's. `OldSessionOver` and `BrokenOnlyByWipe` follow.
* `ListInv`: a playlist lists segments that are written, whether it is on the
  disk, in the daemon's hands or with a player, and it was given to the player
  under a path no shorter than the segments'. That third place is why
  `ListedSegmentsServed` is not a statement about the disk alone.
* `StatusInv`: the fields move one way only, so that each field read so far
  lies between what it was when the request was made and what it is now.
* `WaitInv`: the sleeps a request has sat through, by its place in the queue.
  Each request before it costs at most `Most` sleeps, and the players ahead are
  different ones, so that their number bounds them (`Pending`).

### Web server

`RequestInv` says what a request owns in each phase (`Owns`) and what its
headers have set (`Reads`); from it `FreedWithRequest`, `CallbackIsSet`,
`ContentIsPrefix` and `NoEscape` follow. The phase is a notion of the model:
the code infers it from pointers, and `Owns` is the proof that it may. For the
body, `CutAddsUp` shows that cutting after each piece is the same as cutting
the whole. `StopInv` says how far the owner must have come for a `stop()` to
be under way, that a `stop()` past its signal has cleared `running`, and that
a daemon that is down has no request. `OneStops` is about several calls: only
one of them is handed the daemon. `OwnerInv` and `OverlapInv` say how a server
comes to be destroyed, used after that, or stopped twice: each time another call
is, or has been, beyond the test of `running`. Every step of every thread keeps
them, wherever the others are.

### Registry, access policy, frame queue, command line

`TablesAgree` needs `MapOfPatterns`: each entry stands under the key of its own
path, or else removing one path could take another's spelling out of the second
map. `MostSpecificWins` is about a loop over a `std::map`, and its proof has
three parts. `KeyBefore` is a strict total order (`KeyBeforeIrreflexive`,
`KeyBeforeTransitive`, `KeyBeforeTotal`), so the keys of every finite map can be
listed in it (`OneMoreListed`, `SomeListing`, `OrderVisits`). The loop keeps
that what it holds is as good as every match seen so far (`BestSoFar`,
`TurnKeepsBest`). And the parameters of the winner are pieces of the request's
own path (`ArgsAreOfRequest`).

`PolicyFollowsCalls` holds as long as no call named a pattern. `HasSums`: the
sequence is sorted by the sums of its addresses and has the sums the calls have
left in it. A search of a sorted sequence has one outcome, whatever
the tree (`LowerBoundSplits`, `UpperBoundSplits`, `FindDecides`), and insertion
and removal keep it sorted (`InsertHolds`, `EraseHolds`, over the lemmas about
sequences `InsertAtPlace` and `CutPlaces`). That a pattern breaks this is not a
gap of the proof: the comparison is then no order.

`QueueInv` adds to `WaitResult` that the per-waiter functions are functions
over the waiters, so that a step of one leaves the other entries alone; the end
of the task is never taken back, which keeps earlier results true.

`ConfigChecked` speaks of the whole command line once the service is up.
`ConfigInv` says at every turn of the loop that each field is what the last
option of its kind before `argi` said (`Named`, `PortSaid`, `TermSaid`,
`RootSaid`), and `OneMoreSaid` what one more option changes in that. The port and
the term are only claimed where every root that ran over them came before the
option (`Spared`, `OneMoreSpared`, `CopyKeeps`).

### Paths

`PathsSurvive` speaks of a path when a loop begins and when the last one ends;
`PathInv` says for each loop what is true between two of its turns.

* Writing: the text spells the path, each byte from a place of its own
  (`Spelled`). `UnitsSpell` is about the ways to write one byte, `OneUnitMore`
  about one more.
* `http_unescape`: what lies before `wpos` is the path so far, what lies from
  `rpos` on is as it was sent, and `rpos` is the place where byte `wpos` begins.
  The last is what makes decoding in place safe: no byte is written in fewer
  than one, so the writer never passes the reader. `ScansTwoDigits` is why an
  escape that was written properly decodes to its byte whatever follows it.
  Without that, for a path with a stray percent sign, what is left is that `rpos`
  passes the terminator only by the `+ 3` of an escape with one digit at the
  very end (`ScansNumbers`, `CutEscape`).
* `std::unique`: what is kept is `Thinned`, a strictly rising choice of places
  of what was read, such that only slashes are missing and nothing is missing
  within a run without slashes. `KeepsByte`, `DropsSlash` and `DropsLast` are
  one turn and the slash at the end.
* `c_str()`: what is cut off lies behind the first zero byte, and what is left is
  `Thinned` from the path up to its own first zero byte, because thinning drops
  only slashes (`StrLenIs`, `CutThinned`).
* `tokenize_url`: the tokens are the segments, with their places, of what lies
  before the open token (`Located`), and the open token is a segment begun
  (`SegmentAt`, `SegmentGrows`). `ThinnedHasSegments` takes the places back to
  the path that was meant: the segments of a thinned text are those of the text.

### Addresses

`AddressInv` is about one turn after the other. `Progress` gives the number of
pieces written before a field is read (`Due`): two for each field before the
omission, and behind it what leaves two for each field to come, from which it
follows that no turn writes behind the sixteenth (`TwoMore`). `Written` says
that each field read stands where `AddressesFill` wants it and that nothing
else was written; `StandingStays` keeps it, because a turn writes from `filled`
on and the fields read lie before. An IPv4 tail needs more room than `Omitted`
leaves unless the omission is a leading `::`; in the other cases the loop
arrives at it with other than twelve pieces and refuses, so that `Written` is
only claimed where there is room (`HasRoom`), or where no tail comes.

### Induction

The provers cannot use the library's induction theorems, which take an operator
as a parameter. `Iteration` derives what is needed from a fact that takes none,
that the naturals are well-founded: with a set in place of the operator, a
non-empty set of naturals has a least element (`LeastNatural`), what holds at
first and is kept by each turn holds after every turn (`AfterEveryTurn`), what
holds of the empty set and is kept by one more element holds of every finite
set (`ElementByElement`), and the function a loop computes, turn by turn,
exists (`LoopExists`). With it a loop written as a recursive function can be
reasoned about for inputs of every length: `Length` and `Search` of `Registry`.

### Only model-checked

* Liveness: `SessionEnds`, `StopEndsProcess`, `InputEndEndsProcess`,
  `EveryRequestAnswered`, `StopEndsStart`, `WaiterReturns` and the fairness
  part of `StreamSpec`. The proof system handles neither `ENABLED` nor
  fairness.
* The properties of `texts`: `ParsersFollowGrammar`, `TextsRestored`,
  `BinariesRestored`, `PatchesArrive`, `OrdersTotal`. Their algorithms are
  RECURSIVE operators, over trees of values or with recursion that no loop of a
  known length replaces, and in a module that reaches a RECURSIVE declaration
  the proof system has no SMT.

## 5. What is not modelled

* The contents of audio, packets and files, and everything printed, but for the
  URL a finding is about.
* `swr_convert`, the FIFO's and the muxer's own failures: their results are
  not looked at by the code, and the resampler is given equal rates on both
  sides, so that it returns as many samples as it gets.
* `exit(0)` of a signal handler inside a media session: `Transcode` follows the
  session to its end, `Lifecycle` shows that the process may be gone before.
* A thread of `Lifecycle` holding a lock of the C library when the handler
  interrupts it (`printf` and `exit` in a handler are not async-signal-safe).
* What follows undefined behaviour, beyond the step that meets it: a command line
  that runs past `sConfig`, a server used after its destruction, a daemon stopped
  twice. `Lifecycle` alone goes on after the use of a destroyed object, as if
  nothing had been noticed.
* Addressing errors below the level of values (`calloc` with the size of a byte
  at `MediaOut.cpp:183`, the unset `m_lastDTS` that decides only a printout,
  the character before an empty root path at `FileServer.cpp:120`), and the
  descriptor that `file_response` does not close for an empty file.
* Web server: TLS, digest and basic authentication, cookies, query and form
  arguments, upload files, thread pools and the other start methods. The
  program uses none of them.
* JSON: conversions from and to C++ types, moves and swaps, reverse iterators,
  stream and file adapters, memory management. They are interface code without
  an algorithm to check; of the library the program uses `dump()`. What an edit
  invalidates, and iterators outside their range, are undefined behaviour of the
  caller and preconditions of `JsonContainer`.
  `FloatDigits` is run at small widths: 64-bit products are beyond TLC.
* FFmpeg and libmicrohttpd appear by the contracts their headers state and the
  way the code uses them.

## 6. Plan

Done: all components are modelled and run, and every safety property of a
component with a state is a theorem.

Left: the properties of `texts`. `OrdersTotal` is the nearest: that `<` is a
total order up to equality is an induction over the depth of a value, which
`Iteration` can state with the set of values of each depth, once the comparison
is written as a function of the depth in a module of its own. The other four
relate two recursions over texts of any length to each other.
