------------------------------ MODULE WebServer -----------------------------
(***************************************************************************)
(* The web server: start() and stop() over running, mutexwait and          *)
(* mutexcond, and the callbacks by which libmicrohttpd drives a request    *)
(* through one modded_request: uri_log, answer_to_connection for the       *)
(* headers, for every piece of the body and for its end, request_completed *)
(* at any time.  With start_method INTERNAL_SELECT one thread runs all     *)
(* callbacks, so that each is one action.                                  *)
(*                                                                         *)
(* libmicrohttpd, the resources and the application's own error pages are  *)
(* external.  A response is the name of the page it shows; which resource  *)
(* a path belongs to is the subject of Registry.                           *)
(***************************************************************************)
EXTENDS Integers, FiniteSets

CONSTANTS
  Stoppers,     (* threads other than the owner's, each may call stop()    *)
  Conns,        (* connections                                             *)
  Pieces,       (* sizes of a piece of a body                              *)
  ContentLimit, (* content_size_limit                                      *)
  MaxBody,      (* bound: bytes of a body                                  *)
  MaxRequests,  (* bound: requests of all connections together             *)
  Throwing      (* the application's own pages, each of which may throw    *)

Pages == {"notFound", "notAllowed", "internal"}

ASSUME WebServerAssumption ==
  /\ Stoppers \cap {"owner", "nobody"} = {}
  /\ IsFiniteSet(Conns)
  /\ Pieces \subseteq Nat \ {0}
  /\ ContentLimit \in Nat /\ MaxBody \in Nat /\ MaxRequests \in Nat
  /\ Throwing \subseteq Pages

VARIABLES
  daemon,       (* the MHD daemon: none, up, closing or down               *)
  running,
  mutexwait,    (* the thread that holds the mutex                         *)
  owner,        (* the thread that starts and destroys the server          *)
  stopping,     (* per thread: where it is in stop()                       *)
  conn,         (* per connection: its modded_request and the request      *)
  requests,     (* requests begun                                          *)
  broken        (* what went wrong below the level of answers              *)

server == <<daemon, running, mutexwait, owner, stopping>>
traffic == <<conn, requests, broken>>
vars == <<server, traffic>>

Threads == {"owner"} \cup Stoppers

-----------------------------------------------------------------------------
(* One request *)

(* Methods as they are sent.  answer_to_connection compares all names but  *)
(* POST without regard to case, is_allowed compares exactly.               *)
Methods == {"GET", "get", "POST", "post", "put"}
Exact == {"GET", "POST"}

Callback(m) == CASE m \in {"GET", "get"} -> "render_GET"
                 [] m = "POST" -> "render_POST"
                 [] m = "put" -> "render_PUT"
                 [] OTHER -> "unset"
HasBody(m) == m \in {"POST", "put"}

NoRequest == [phase |-> "none", alive |-> {}, second |-> FALSE, method |-> "none",
              hasBody |-> FALSE, callback |-> "unset", sent |-> 0, content |-> 0,
              page |-> "none"]

Smaller(a, b) == IF a < b THEN a ELSE b

Init ==
  /\ daemon = "none"
  /\ running = FALSE
  /\ mutexwait = "nobody"
  /\ owner = "start"
  /\ stopping = [t \in Threads |-> "no"]
  /\ conn = [k \in Conns |-> NoRequest]
  /\ requests = 0
  /\ broken = "nothing"

(* The server is an object; its destructor may come while others use it.   *)
Serves == daemon = "up" /\ broken = "nothing" /\ owner # "destroyed"

(* The callbacks of a request in order: its URI, its headers, its body.    *)
UriLog(k) ==
  /\ Serves /\ conn[k].phase = "none" /\ requests < MaxRequests
  /\ conn' = [conn EXCEPT ![k].phase = "uri", ![k].alive = {"mr", "complete_uri"}]
  /\ requests' = requests + 1
  /\ UNCHANGED <<server, broken>>

(* requests_answer_first_step: a post processor only for the encodings of  *)
(* forms.                                                                  *)
FirstStep(k) ==
  /\ Serves /\ conn[k].phase = "uri" /\ ~conn[k].second
  /\ \E m \in Methods, form \in BOOLEAN :
       conn' = [conn EXCEPT ![k].phase = "body", ![k].second = TRUE,
                  ![k].method = m, ![k].callback = Callback(m),
                  ![k].hasBody = HasBody(m),
                  ![k].alive = @ \cup {"standardized_url", "dhr"}
                               \cup (IF HasBody(m) /\ form THEN {"pp"} ELSE {})]
  /\ UNCHANGED <<server, requests, broken>>

(* Mutant: looks at the piece instead of the sum.                          *)
GrowContentByPiece(content, n) == content + Smaller(n, ContentLimit)

(* grow_content cuts what exceeds the limit.                               *)
GrowContent(content, n) == Smaller(content + n, ContentLimit)
ContentTooLarge(content) == content >= ContentLimit

BodyPiece(k) ==
  /\ Serves /\ conn[k].phase = "body" /\ conn[k].second
  /\ \E n \in Pieces :
       /\ conn[k].sent + n <= MaxBody
       /\ conn' = [conn EXCEPT ![k].sent = @ + n,
                    ![k].content = IF conn[k].hasBody THEN GrowContent(@, n) ELSE @]
  /\ UNCHANGED <<server, requests, broken>>

-----------------------------------------------------------------------------
(* finalize_answer *)

Escape == "exception"

(* A page of the application's own may throw, the built-in ones do not.    *)
Page(p) == {p} \cup IF p \in Throwing THEN {Escape} ELSE {}

(* Mutant: no catch clauses.                                               *)
Uncaught(outcomes) == outcomes

(* The two catch clauses around the rendering, and the page they call,     *)
(* which is outside of the try.                                            *)
Caught(outcomes) == (outcomes \ {Escape})
                    \cup IF Escape \in outcomes THEN Page("internal") ELSE {}

(* Mutant: whether the method is allowed is not asked.                     *)
AllowsAll(m, forbidden) == TRUE

IsAllowed(m, forbidden) == m \in Exact \ forbidden

(* render_XXX gives a response, one with code -1, or throws.               *)
Render(m) == {"resource", Escape} \cup Page("internal")

Rendered(found, m, forbidden) ==
  IF ~found THEN Page("notFound")
  ELSE Caught(IF IsAllowed(m, forbidden) THEN Render(m) ELSE Page("notAllowed"))

(* get_raw_response of a resource's or an application's response may throw *)
(* invalid_argument or something else; whatever is thrown while the page   *)
(* for that is made ends in the built-in page.                             *)
MakesItself(p) == {p} \cup IF p = "resource" \/ p \in Throwing
                           THEN {"invalid", "other"} ELSE {}
Again(p) == {q \in Page(p) : q # Escape}
            \cup IF p \in Throwing THEN {"internal"} ELSE {}
Raw(p) == UNION {CASE r = "invalid" -> Again("notFound")
                   [] r = "other" -> Again("internal")
                   [] OTHER -> {r} : r \in MakesItself(p)}

(* complete_request.  An exception that leaves it meets the frames of      *)
(* libmicrohttpd, written in C, and ends the process.  A response that     *)
(* cannot be queued makes libmicrohttpd close the connection.              *)
FinalizeAnswer(k) ==
  /\ Serves /\ conn[k].phase = "body" /\ conn[k].second
  /\ \E found \in BOOLEAN, forbidden \in SUBSET Exact :
     \E p \in Rendered(found, conn[k].method, forbidden) :
       LET called == IF found /\ IsAllowed(conn[k].method, forbidden)
                     THEN conn[k].callback ELSE "none"
       IN  IF p = Escape
           THEN broken' = "exception" /\ UNCHANGED conn
           ELSE /\ \E page \in Raw(p) :
                     conn' = [conn EXCEPT ![k] =
                       [NoRequest EXCEPT !.phase = "answered", !.page = page,
                          !.second = TRUE, !.alive = conn[k].alive]]
                /\ broken' = IF called = "unset" THEN "wildCallback" ELSE broken
  /\ UNCHANGED <<server, requests>>

-----------------------------------------------------------------------------
(* Mutant: dhr is deleted before the post processor.                       *)
DestroyDhrFirst(c) == IF {"pp", "dhr"} \subseteq c.alive THEN "usedAfterFree"
                                                         ELSE broken

(* The destructor of modded_request.  MHD_destroy_post_processor may hand  *)
(* the last value to post_iterator, which writes into dhr.                 *)
Destroy(c) == IF "pp" \in c.alive /\ "dhr" \notin c.alive THEN "usedAfterFree"
                                                          ELSE broken

LeftBehind(c) == c.alive \ ({"pp", "complete_uri", "standardized_url", "mr"}
                            \cup IF c.second THEN {"dhr"} ELSE {})

(* request_completed comes when the answer is sent, when the client goes   *)
(* away between any two callbacks, and when the daemon is stopped.         *)
RequestCompleted(k) ==
  /\ daemon \in {"up", "closing"} /\ broken = "nothing"
  /\ conn[k].phase # "none"
  /\ broken' = IF LeftBehind(conn[k]) # {} THEN "leak" ELSE Destroy(conn[k])
  /\ conn' = [conn EXCEPT ![k] = NoRequest]
  /\ UNCHANGED <<server, requests>>

-----------------------------------------------------------------------------
(* start() *)

OwnerAt(p) == owner = p /\ broken = "nothing"

StartDaemon ==
  /\ OwnerAt("start")
  /\ \/ daemon' = "up" /\ owner' = "started"
     \/ daemon' = "none" /\ owner' = "threw"
  /\ UNCHANGED <<running, mutexwait, stopping, traffic>>

SetRunning ==
  /\ OwnerAt("started")
  /\ running' = TRUE
  /\ \E blocking \in BOOLEAN : owner' = IF blocking THEN "lock" ELSE "returned"
  /\ UNCHANGED <<daemon, mutexwait, stopping, traffic>>

LockToWait ==
  /\ OwnerAt("lock") /\ mutexwait = "nobody"
  /\ mutexwait' = "owner"
  /\ owner' = "test"
  /\ UNCHANGED <<daemon, running, stopping, traffic>>

(* Mutant: waits without looking at running.                               *)
TestAndWait ==
  /\ OwnerAt("test")
  /\ mutexwait' = "nobody"
  /\ owner' = "wait"
  /\ UNCHANGED <<daemon, running, stopping, traffic>>

(* while(blocking && running) pthread_cond_wait: waiting lets the mutex go.*)
TestRunning ==
  /\ OwnerAt("test")
  /\ mutexwait' = "nobody"
  /\ owner' = IF running THEN "wait" ELSE "returned"
  /\ UNCHANGED <<daemon, running, stopping, traffic>>

(* pthread_cond_wait may return without a signal.                          *)
Spurious ==
  /\ OwnerAt("wait")
  /\ owner' = "lock"
  /\ UNCHANGED <<daemon, running, mutexwait, stopping, traffic>>

-----------------------------------------------------------------------------
(* stop(), by other threads and by the owner's destructor: nothing keeps   *)
(* the calls apart.  What follows the use of a destroyed server, or of a   *)
(* daemon that was handed to MHD_stop_daemon before, is undefined and is   *)
(* not followed further.                                                   *)

StopAt(t, p) == stopping[t] = p /\ broken = "nothing" /\ owner # "destroyed"
StopGoes(t, p) == stopping' = [stopping EXCEPT ![t] = p]
Inside(t) == stopping[t] \in {"lock", "signal", "daemon", "join"}

(* The owner calls it from the destructor, when start() returned or threw; *)
(* the other threads, each once, have a server to call it on.              *)
MayStop(t) == t = "owner" => owner \in {"returned", "threw"}

(* running is read without the mutex.                                      *)
StopBegins(t) ==
  /\ StopAt(t, "no") /\ MayStop(t)
  /\ StopGoes(t, IF running THEN "lock" ELSE "false")
  /\ UNCHANGED <<daemon, running, mutexwait, owner, traffic>>

StopLocks(t) ==
  /\ StopAt(t, "lock") /\ mutexwait = "nobody"
  /\ mutexwait' = t
  /\ StopGoes(t, "signal")
  /\ UNCHANGED <<daemon, running, owner, traffic>>

StopSignals(t) ==
  /\ StopAt(t, "signal")
  /\ running' = FALSE
  /\ owner' = IF owner = "wait" THEN "lock" ELSE owner
  /\ mutexwait' = "nobody"
  /\ StopGoes(t, "daemon")
  /\ UNCHANGED <<daemon, traffic>>

(* Mutant: the daemon is left to itself.                                   *)
StopForgetsDaemon(t) ==
  /\ StopAt(t, "daemon")
  /\ StopGoes(t, "true")
  /\ UNCHANGED <<daemon, running, mutexwait, owner, traffic>>

(* MHD_stop_daemon frees what it stops: it is called once for a daemon, or *)
(* it works on one that another call is freeing or has freed.              *)
StopDaemon(t) ==
  /\ StopAt(t, "daemon")
  /\ IF daemon = "up"
     THEN daemon' = "closing" /\ StopGoes(t, "join") /\ UNCHANGED broken
     ELSE broken' = "stoppedTwice" /\ UNCHANGED <<daemon, stopping>>
  /\ UNCHANGED <<running, mutexwait, owner, conn, requests>>

(* It ends every connection and joins the daemon's thread.                 *)
JoinDaemon(t) ==
  /\ StopAt(t, "join")
  /\ \A k \in Conns : conn[k].phase = "none"
  /\ daemon' = "down"
  /\ StopGoes(t, "true")
  /\ UNCHANGED <<running, mutexwait, owner, traffic>>

(* ~webserver, with its stop() behind it, destroys mutex and condition     *)
(* variable, and the object goes, whoever else is in stop() with them.     *)
Destroyed ==
  /\ owner \in {"returned", "threw"} /\ broken = "nothing"
  /\ stopping["owner"] \in {"true", "false"}
  /\ owner' = "destroyed"
  /\ UNCHANGED <<daemon, running, mutexwait, stopping, traffic>>

(* The next thing a stop() does after that, or a callback of the daemon it *)
(* has not stopped yet, is done to freed memory.                           *)
UseFreed ==
  /\ owner = "destroyed" /\ broken = "nothing"
  /\ daemon = "up" \/ \E t \in Stoppers : Inside(t)
  /\ broken' = "freedServer"
  /\ UNCHANGED <<server, conn, requests>>

-----------------------------------------------------------------------------
Owner == StartDaemon \/ SetRunning \/ LockToWait \/ TestRunning \/ Destroyed
Stop(t) == StopLocks(t) \/ StopSignals(t) \/ StopDaemon(t) \/ JoinDaemon(t)
Requests(k) == UriLog(k) \/ FirstStep(k) \/ BodyPiece(k) \/ FinalizeAnswer(k)

Next ==
  \/ Owner \/ Spurious
  \/ \E t \in Threads : StopBegins(t) \/ Stop(t)
  \/ UseFreed
  \/ \E k \in Conns : Requests(k) \/ RequestCompleted(k)

(* Threads are scheduled, a stopped daemon closes its connections, and     *)
(* whoever waits for the mutex gets it.  Nobody need call stop().          *)
Spec == /\ Init /\ [][Next]_vars
        /\ WF_vars(StartDaemon \/ SetRunning \/ TestRunning \/ Destroyed)
        /\ WF_vars(UseFreed)
        /\ SF_vars(LockToWait)
        /\ \A t \in Threads : SF_vars(StopLocks(t)) /\ WF_vars(Stop(t))
        /\ \A k \in Conns : WF_vars(daemon = "closing" /\ RequestCompleted(k))

-----------------------------------------------------------------------------
(* Properties *)

Objects == {"mr", "complete_uri", "standardized_url", "dhr", "pp"}
PageNames == Pages \cup {"resource"}

TypeOK ==
  /\ daemon \in {"none", "up", "closing", "down"}
  /\ running \in BOOLEAN
  /\ mutexwait \in Threads \cup {"nobody"}
  /\ owner \in {"start", "started", "lock", "test", "wait", "returned", "threw",
                "destroyed"}
  /\ stopping \in [Threads -> {"no", "lock", "signal", "daemon", "join", "true",
                            "false"}]
  /\ \A k \in Conns :
       /\ conn[k].phase \in {"none", "uri", "body", "answered"}
       /\ conn[k].alive \subseteq Objects
       /\ conn[k].content \in 0 .. ContentLimit
       /\ conn[k].page \in PageNames \cup {"none"}

(* Wherever the client or stop() ends a request, each object made for it   *)
(* is freed with it, once, and none is used after that; the post processor *)
(* may still write an argument while it is destroyed.                      *)
FreedWithRequest == broken \notin {"leak", "usedAfterFree"}

(* The pointer to the render method, which the constructor leaves unset,   *)
(* is called only after the headers set it, although the names of methods  *)
(* are compared in two ways.                                               *)
CallbackIsSet == broken # "wildCallback"

(* When the pages for missing paths and internal errors do not throw, no   *)
(* exception reaches the C code of the daemon, whatever the resources, the *)
(* page for methods and the making of responses throw.                     *)
NoEscape == broken # "exception"

(* webserver.cpp:724: the outer catch "catches errors in internal error    *)
(* page", so that an internal error page that throws is answered by the    *)
(* built-in one.                                                           *)
InternalErrorsCaught == NoEscape

(* What is kept of a body is its beginning, up to content_size_limit, and  *)
(* a body is reported too large exactly when it reached the limit, however *)
(* it was cut into pieces.                                                 *)
ContentIsPrefix ==
  \A k \in Conns : conn[k].hasBody =>
    /\ conn[k].content = Smaller(conn[k].sent, ContentLimit)
    /\ ContentTooLarge(conn[k].content) <=> conn[k].sent >= ContentLimit

(* A stop() that returned true has ended every request and the daemon's    *)
(* thread, and the server does not count as running, whichever thread      *)
(* called it and whatever the others were doing.  A server is destroyed    *)
(* with its daemon alive only under another thread's stop() that cleared   *)
(* running, and one is used after it was destroyed, or its daemon stopped  *)
(* twice, by nothing but calls of stop() that overlap.                     *)
StopIsComplete ==
  /\ (\E t \in Threads : stopping[t] = "true") =>
       daemon = "down" /\ ~running /\ \A k \in Conns : conn[k].phase = "none"
  /\ owner = "destroyed" /\ daemon \in {"up", "closing"} =>
       \E t \in Stoppers : stopping[t] \in {"daemon", "join"}
  /\ broken = "freedServer" =>
       owner = "destroyed" /\ \E t \in Stoppers : Inside(t)
  /\ broken = "stoppedTwice" =>
       \E t, u \in Threads :
         t # u /\ stopping[t] = "daemon" /\ stopping[u] \in {"join", "true"}

(* The wake-up is not lost: once a stop() has found the server running, a  *)
(* blocking start() ends, wherever it had got to, and every stop() that is *)
(* under way returns; unless two of them overlap so that what one works on *)
(* is gone.                                                                *)
StopEndsStart ==
  (\E t \in Threads : stopping[t] = "lock") ~>
    \/ owner \in {"returned", "destroyed"} /\ \A t \in Threads : ~Inside(t)
    \/ broken \in {"freedServer", "stoppedTwice", "exception"}
=============================================================================
