--------------------------- MODULE WebServerProofs ---------------------------
(***************************************************************************)
(* The requests of a web server and its stop(), for any number of          *)
(* connections, any limit and any cut of the bodies: what is freed with a  *)
(* request, which pointer is called, what escapes into the daemon, what is *)
(* kept of a body, and what a finished stop() leaves.                      *)
(***************************************************************************)
EXTENDS WebServer, TLAPS

-----------------------------------------------------------------------------
(* The inductive invariant *)

RequestType ==
  [phase : {"none", "uri", "body", "answered"}, alive : SUBSET Objects,
   second : BOOLEAN, method : Methods \cup {"none"}, hasBody : BOOLEAN,
   callback : {"render_GET", "render_POST", "render_PUT", "unset"},
   sent : Nat, content : 0 .. ContentLimit, page : PageNames \cup {"none"}]

(* TypeOK names the fields the code bounds; a request has the others too.  *)
Shape == TypeOK /\ conn \in [Conns -> RequestType]

(* What a request owns by its phase.  The second call of                   *)
(* answer_to_connection is the first at which dhr exists.                  *)
Owns(c) ==
  /\ c.phase = "none" => c.alive = {}
  /\ c.phase = "uri" => c.alive = {"mr", "complete_uri"}
  /\ c.phase \in {"body", "answered"} => "dhr" \in c.alive
  /\ c.second <=> c.phase \in {"body", "answered"}

(* What the headers said of it.                                            *)
Reads(c) ==
  /\ c.phase = "body" =>
       /\ c.method \in Methods
       /\ c.callback = Callback(c.method)
  /\ c.phase \in {"none", "uri"} => c.sent = 0 /\ c.content = 0
  /\ c.hasBody => c.content = Smaller(c.sent, ContentLimit)

RequestInv ==
  /\ Shape
  /\ \A k \in Conns : Owns(conn[k]) /\ Reads(conn[k])
  /\ broken \in {"nothing", "exception", "freedServer", "stoppedTwice"}

(* Past: the calls of stop() that have cleared running.  One of them stops *)
(* the daemon, and the owner's call only follows start().                  *)
Past(t) == stopping[t] \in {"daemon", "join", "true"}

StopInv ==
  /\ TypeOK
  /\ running => owner \notin {"start", "started", "threw"}
  /\ owner \in {"start", "threw"} => daemon = "none"
  /\ daemon = "none" => owner \in {"start", "threw", "destroyed"} /\ ~running
  /\ daemon = "down" => \A k \in Conns : conn[k].phase = "none"
  /\ \A t \in Threads :
       /\ Inside(t) \/ stopping[t] = "true" =>
            daemon # "none" /\ owner \notin {"start", "started", "threw"}
       /\ Past(t) => ~running
       /\ stopping[t] = "join" => daemon = "closing"
       /\ stopping[t] = "true" => daemon = "down"

(* Only one call gets past MHD_stop_daemon's door, and one is past running *)
(* once it is cleared.                                                     *)
OneStops ==
  /\ \A t, u \in Threads :
       stopping[t] \in {"join", "true"} /\ stopping[u] \in {"join", "true"} => t = u
  /\ daemon \in {"closing", "down"} =>
       \E t \in Threads : stopping[t] \in {"join", "true"}
  /\ daemon # "none" /\ owner # "started" /\ ~running => \E t \in Threads : Past(t)

(* The destructor comes after the owner's stop(), which comes after start. *)
OwnerInv ==
  /\ stopping["owner"] # "no" => owner \in {"returned", "threw", "destroyed"}
  /\ stopping["owner"] = "false" => ~running
  /\ owner = "destroyed" => stopping["owner"] \in {"true", "false"}

OverlapInv ==
  /\ broken = "freedServer" =>
       owner = "destroyed" /\ \E t \in Stoppers : Inside(t)
  /\ broken = "stoppedTwice" =>
       \E t, u \in Threads :
         t # u /\ stopping[t] = "daemon" /\ stopping[u] \in {"join", "true"}

-----------------------------------------------------------------------------
(* Type correctness *)

LEMMA NoRequestType == NoRequest \in RequestType
<1>1. {} \in SUBSET Objects /\ FALSE \in BOOLEAN
  OBVIOUS
<1>2. 0 \in Nat /\ 0 \in 0 .. ContentLimit
  BY WebServerAssumption
<1> QED
  BY <1>1, <1>2 DEF NoRequest, RequestType

LEMMA InitShape == Init => Shape
<1> SUFFICES ASSUME Init PROVE Shape
  OBVIOUS
<1>1. conn \in [Conns -> RequestType]
  BY NoRequestType DEF Init
<1>2. stopping \in [Threads -> {"no", "lock", "signal", "daemon", "join", "true", "false"}]
  BY DEF Init
<1>3. \A k \in Conns :
        /\ conn[k].phase \in {"none", "uri", "body", "answered"}
        /\ conn[k].alive \subseteq Objects
        /\ conn[k].content \in 0 .. ContentLimit
        /\ conn[k].page \in PageNames \cup {"none"}
  BY <1>1 DEF RequestType
<1>4. running \in BOOLEAN
  BY Zenon DEF Init
<1> QED
  BY <1>1, <1>2, <1>3, <1>4 DEF Init, Shape, TypeOK

(* A step that puts a request in the place of another keeps the shape.     *)
LEMMA TrafficShape ==
  ASSUME Shape, NEW k \in Conns, NEW c \in RequestType,
         conn' = [conn EXCEPT ![k] = c],
         UNCHANGED <<running, mutexwait, owner, stopping>>, daemon' = daemon
  PROVE  Shape'
<1>1. conn' \in [Conns -> RequestType]
  BY DEF Shape
<1>2. \A l \in Conns :
        /\ conn'[l].phase \in {"none", "uri", "body", "answered"}
        /\ conn'[l].alive \subseteq Objects
        /\ conn'[l].content \in 0 .. ContentLimit
        /\ conn'[l].page \in PageNames \cup {"none"}
  BY <1>1 DEF RequestType
<1> QED
  BY <1>1, <1>2 DEF Shape, TypeOK

LEMMA ServerShape ==
  ASSUME Shape, UNCHANGED conn,
         daemon' \in {"none", "up", "closing", "down"},
         running' \in BOOLEAN,
         mutexwait' \in Threads \cup {"nobody"},
         owner' \in {"start", "started", "lock", "test", "wait", "returned",
                     "threw", "destroyed"},
         stopping' \in [Threads -> {"no", "lock", "signal", "daemon", "join", "true", "false"}]
  PROVE  Shape'
BY DEF Shape, TypeOK

LEMMA OwnerShape == Shape /\ (Owner \/ Spurious) => Shape'
<1> SUFFICES ASSUME Shape, Owner \/ Spurious PROVE Shape'
  OBVIOUS
<1> USE DEF Shape, TypeOK, traffic
<1>1. CASE StartDaemon
  BY <1>1, ServerShape DEF StartDaemon
<1>2. CASE SetRunning
  BY <1>2, ServerShape DEF SetRunning
<1>3. CASE LockToWait
  BY <1>3, ServerShape DEF LockToWait, Threads
<1>4. CASE TestRunning
  BY <1>4, ServerShape DEF TestRunning
<1>5. CASE Destroyed
  BY <1>5, ServerShape DEF Destroyed
<1>6. CASE Spurious
  BY <1>6, ServerShape DEF Spurious
<1> QED
  BY <1>1, <1>2, <1>3, <1>4, <1>5, <1>6 DEF Owner

LEMMA StopShape ==
  ASSUME Shape, NEW t \in Threads, StopBegins(t) \/ Stop(t)
  PROVE  Shape'
<1> USE DEF Shape, TypeOK, traffic, StopGoes
<1>1. CASE StopBegins(t)
  BY <1>1, ServerShape DEF StopBegins
<1>2. CASE StopLocks(t)
  BY <1>2, ServerShape DEF StopLocks
<1>3. CASE StopSignals(t)
  BY <1>3, ServerShape DEF StopSignals
<1>4. CASE StopDaemon(t)
  BY <1>4, ServerShape DEF StopDaemon
<1>5. CASE JoinDaemon(t)
  BY <1>5, ServerShape DEF JoinDaemon
<1> QED
  BY <1>1, <1>2, <1>3, <1>4, <1>5 DEF Stop

-----------------------------------------------------------------------------
(* Requests *)

(* What the pieces of a body add up to, cut each time, is the sum, cut.    *)
LEMMA CutAddsUp ==
  ASSUME NEW s \in Nat, NEW n \in Nat
  PROVE  GrowContent(Smaller(s, ContentLimit), n) = Smaller(s + n, ContentLimit)
BY WebServerAssumption DEF GrowContent, Smaller

LEMMA CutIsBounded ==
  ASSUME NEW s \in Nat
  PROVE  Smaller(s, ContentLimit) \in 0 .. ContentLimit
BY WebServerAssumption DEF Smaller

(* With pages for missing paths and internal errors that do not throw, the *)
(* catch clauses leave nothing to escape.                                  *)
LEMMA NothingEscapes ==
  ASSUME Throwing \cap {"notFound", "internal"} = {},
         NEW found, NEW m, NEW forbidden
  PROVE  Escape \notin Rendered(found, m, forbidden)
<1>1. Escape \notin Page("notFound") /\ Escape \notin Page("internal")
  BY DEF Page, Escape
<1>2. \A outcomes : Escape \notin Caught(outcomes)
  BY <1>1 DEF Caught
<1> QED
  BY <1>1, <1>2 DEF Rendered

(* A method that is allowed is spelt as answer_to_connection spells it.    *)
LEMMA AllowedIsSet ==
  ASSUME NEW m \in Methods, NEW forbidden, IsAllowed(m, forbidden)
  PROVE  Callback(m) # "unset"
BY DEF Methods, IsAllowed, Exact, Callback

LEMMA RawPages ==
  ASSUME NEW p \in PageNames \cup {"none"}
  PROVE  Raw(p) \subseteq PageNames \cup {"none"}
BY WebServerAssumption DEF Raw, MakesItself, Again, Page, PageNames, Pages, Escape

LEMMA RenderedPages ==
  ASSUME NEW found, NEW m, NEW forbidden
  PROVE  Rendered(found, m, forbidden) \subseteq PageNames \cup {Escape}
BY DEF Rendered, Caught, Render, Page, PageNames, Pages

LEMMA UriLogInv ==
  ASSUME RequestInv, NEW k \in Conns, UriLog(k)
  PROVE  RequestInv'
<1> DEFINE c == [conn[k] EXCEPT !.phase = "uri", !.alive = {"mr", "complete_uri"}]
<1>1. conn[k] \in RequestType /\ conn[k].phase = "none"
  BY DEF RequestInv, Shape, UriLog
<1>2. c \in RequestType
  BY <1>1 DEF RequestType, Objects
<1>3. conn' = [conn EXCEPT ![k] = c]
  BY DEF UriLog
<1>4. Shape'
  BY <1>2, <1>3, TrafficShape DEF RequestInv, UriLog, server
<1>5. Owns(c) /\ Reads(c)
  BY <1>1 DEF RequestInv, Owns, Reads, RequestType
<1>6. \A l \in Conns : Owns(conn'[l]) /\ Reads(conn'[l])
  BY <1>3, <1>5 DEF RequestInv, Shape
<1> QED
  BY <1>4, <1>6 DEF RequestInv, UriLog

LEMMA FirstStepInv ==
  ASSUME RequestInv, NEW k \in Conns, FirstStep(k)
  PROVE  RequestInv'
<1>1. conn[k] \in RequestType /\ conn[k].phase = "uri"
  BY DEF RequestInv, Shape, FirstStep
<1>2. PICK m \in Methods, form \in BOOLEAN :
        conn' = [conn EXCEPT ![k].phase = "body", ![k].second = TRUE,
                   ![k].method = m, ![k].callback = Callback(m),
                   ![k].hasBody = HasBody(m),
                   ![k].alive = @ \cup {"standardized_url", "dhr"}
                                \cup (IF HasBody(m) /\ form THEN {"pp"} ELSE {})]
  BY DEF FirstStep
<1> DEFINE more == {"standardized_url", "dhr"}
                   \cup (IF HasBody(m) /\ form THEN {"pp"} ELSE {})
           c == [conn[k] EXCEPT !.phase = "body", !.second = TRUE, !.method = m,
                    !.callback = Callback(m), !.hasBody = HasBody(m),
                    !.alive = conn[k].alive \cup more]
<1>3. conn[k].alive \cup more \subseteq Objects
  BY <1>1 DEF RequestType, Objects
<1>4. HasBody(m) \in BOOLEAN
  BY DEF HasBody
<1>5. Callback(m) \in {"render_GET", "render_POST", "render_PUT", "unset"}
  BY DEF Callback
<1>6. c \in RequestType
  BY <1>1, <1>3, <1>4, <1>5, TRUE \in BOOLEAN DEF RequestType
<1>7. conn' = [conn EXCEPT ![k] = c]
  BY <1>2 DEF RequestInv, Shape
<1>8. Shape'
  BY <1>6, <1>7, TrafficShape DEF RequestInv, FirstStep, server
<1>9. Owns(c) /\ Reads(c)
  <2>1. c.phase = "body" /\ c.second = TRUE /\ "dhr" \in c.alive
    BY <1>1 DEF RequestType
  <2>2. c.method = m /\ c.callback = Callback(m) /\ c.sent = 0 /\ c.content = 0
    BY <1>1 DEF RequestInv, Reads, RequestType
  <2> QED
    BY <2>1, <2>2, WebServerAssumption DEF Owns, Reads, Smaller
<1>10. \A l \in Conns : Owns(conn'[l]) /\ Reads(conn'[l])
  BY <1>7, <1>9 DEF RequestInv, Shape
<1> QED
  BY <1>8, <1>10 DEF RequestInv, FirstStep

LEMMA BodyPieceInv ==
  ASSUME RequestInv, NEW k \in Conns, BodyPiece(k)
  PROVE  RequestInv'
<1>1. conn[k] \in RequestType /\ conn[k].phase = "body"
  BY DEF RequestInv, Shape, BodyPiece
<1>2. PICK n \in Pieces :
        conn' = [conn EXCEPT ![k].sent = @ + n,
                   ![k].content = IF conn[k].hasBody THEN GrowContent(@, n) ELSE @]
  BY DEF BodyPiece
<1> DEFINE content == IF conn[k].hasBody THEN GrowContent(conn[k].content, n)
                                         ELSE conn[k].content
           c == [conn[k] EXCEPT !.sent = conn[k].sent + n, !.content = content]
<1>3. n \in Nat /\ conn[k].sent \in Nat
  BY <1>1, WebServerAssumption DEF RequestType
<1>4. content \in 0 .. ContentLimit
        /\ (conn[k].hasBody => content = Smaller(conn[k].sent + n, ContentLimit))
  <2>1. CASE conn[k].hasBody
    <3>1. conn[k].content = Smaller(conn[k].sent, ContentLimit)
      BY <2>1 DEF RequestInv, Reads
    <3>2. content = Smaller(conn[k].sent + n, ContentLimit)
      BY <1>3, <2>1, <3>1, CutAddsUp
    <3> QED
      BY <1>3, <3>2, CutIsBounded
  <2>2. CASE ~conn[k].hasBody
    BY <1>1, <2>2 DEF RequestType
  <2> QED
    BY <2>1, <2>2
<1>5. conn' = [conn EXCEPT ![k] = c]
  BY <1>2 DEF RequestInv, Shape
<1>6. conn[k].sent + n \in Nat
  BY <1>3
<1> HIDE DEF content
<1>7. c \in RequestType
  BY <1>1, <1>6, <1>4 DEF RequestType
<1>8. Shape'
  BY <1>5, <1>7, TrafficShape DEF RequestInv, BodyPiece, server
<1>9. Owns(c) /\ Reads(c)
  BY <1>1, <1>4 DEF RequestInv, Owns, Reads, RequestType
<1>10. \A l \in Conns : Owns(conn'[l]) /\ Reads(conn'[l])
  BY <1>5, <1>9 DEF RequestInv, Shape
<1> QED
  BY <1>8, <1>10 DEF RequestInv, BodyPiece

LEMMA FinalizeAnswerInv ==
  ASSUME RequestInv, NEW k \in Conns, FinalizeAnswer(k)
  PROVE  RequestInv'
<1>1. conn[k] \in RequestType /\ conn[k].phase = "body" /\ broken = "nothing"
  BY DEF RequestInv, Shape, FinalizeAnswer, Serves
<1>2. PICK found \in BOOLEAN, forbidden \in SUBSET Exact :
        \E p \in Rendered(found, conn[k].method, forbidden) :
          LET called == IF found /\ IsAllowed(conn[k].method, forbidden)
                        THEN conn[k].callback ELSE "none"
          IN  IF p = Escape
              THEN broken' = "exception" /\ UNCHANGED conn
              ELSE /\ \E page \in Raw(p) :
                        conn' = [conn EXCEPT ![k] =
                          [NoRequest EXCEPT !.phase = "answered", !.page = page,
                             !.second = TRUE, !.alive = conn[k].alive]]
                   /\ broken' = IF called = "unset" THEN "wildCallback" ELSE broken
  BY DEF FinalizeAnswer
<1>3. PICK p \in Rendered(found, conn[k].method, forbidden) :
          LET called == IF found /\ IsAllowed(conn[k].method, forbidden)
                        THEN conn[k].callback ELSE "none"
          IN  IF p = Escape
              THEN broken' = "exception" /\ UNCHANGED conn
              ELSE /\ \E page \in Raw(p) :
                        conn' = [conn EXCEPT ![k] =
                          [NoRequest EXCEPT !.phase = "answered", !.page = page,
                             !.second = TRUE, !.alive = conn[k].alive]]
                   /\ broken' = IF called = "unset" THEN "wildCallback" ELSE broken
  BY <1>2
<1>4. CASE p = Escape
  BY <1>1, <1>3, <1>4, ServerShape DEF RequestInv, Shape, TypeOK, FinalizeAnswer, server
<1>5. CASE p # Escape
  <2>1. PICK page \in Raw(p) :
          conn' = [conn EXCEPT ![k] =
            [NoRequest EXCEPT !.phase = "answered", !.page = page,
               !.second = TRUE, !.alive = conn[k].alive]]
    BY <1>3, <1>5
  <2> DEFINE c == [NoRequest EXCEPT !.phase = "answered", !.page = page,
                     !.second = TRUE, !.alive = conn[k].alive]
  <2>2. page \in PageNames \cup {"none"}
    BY <1>3, <1>5, RenderedPages, RawPages
  <2>3. c \in RequestType
    BY <1>1, <2>2, NoRequestType, TRUE \in BOOLEAN DEF RequestType
  <2>4. Shape'
    BY <2>1, <2>3, TrafficShape DEF RequestInv, FinalizeAnswer, server
  <2>5. Owns(c) /\ Reads(c)
    <3>1. "dhr" \in conn[k].alive
      BY <1>1 DEF RequestInv, Owns
    <3>2. c.phase = "answered" /\ c.second = TRUE /\ c.alive = conn[k].alive
            /\ c.hasBody = FALSE
      BY DEF NoRequest
    <3> QED
      BY <3>1, <3>2 DEF Owns, Reads
  <2>6. \A l \in Conns : Owns(conn'[l]) /\ Reads(conn'[l])
    BY <2>1, <2>5 DEF RequestInv, Shape
  <2>7. broken' = "nothing"
    <3>1. IsAllowed(conn[k].method, forbidden) => conn[k].callback # "unset"
      BY <1>1, AllowedIsSet DEF RequestInv, Reads
    <3> QED
      BY <1>1, <1>3, <1>5, <3>1
  <2> QED
    BY <2>4, <2>6, <2>7 DEF RequestInv
<1> QED
  BY <1>4, <1>5

(* The destructor finds dhr alive when it destroys the post processor, and *)
(* what it does not free was never made.                                   *)
LEMMA RequestCompletedInv ==
  ASSUME RequestInv, NEW k \in Conns, RequestCompleted(k)
  PROVE  RequestInv' /\ broken' = "nothing"
<1>1. conn[k] \in RequestType /\ conn[k].phase # "none" /\ broken = "nothing"
  BY DEF RequestInv, Shape, RequestCompleted
<1>2. Shape'
  BY NoRequestType, TrafficShape DEF RequestInv, RequestCompleted, server
<1>3. Owns(NoRequest) /\ Reads(NoRequest)
  BY DEF NoRequest, Owns, Reads
<1>4. \A l \in Conns : Owns(conn'[l]) /\ Reads(conn'[l])
  BY <1>3 DEF RequestInv, Shape, RequestCompleted
<1>5. broken' = "nothing"
  <2>1. Owns(conn[k]) /\ conn[k].alive \subseteq Objects
    BY <1>1 DEF RequestInv, RequestType
  <2>2. conn[k].second \in BOOLEAN
          /\ conn[k].phase \in {"uri", "body", "answered"}
    BY <1>1 DEF RequestType
  <2>3. LeftBehind(conn[k]) = {}
    <3>1. CASE conn[k].phase = "uri"
      BY <2>1, <3>1 DEF LeftBehind, Owns
    <3>2. CASE conn[k].second
      BY <2>1, <3>2 DEF LeftBehind, Objects
    <3> QED
      BY <2>1, <2>2, <3>1, <3>2 DEF Owns
  <2>4. Destroy(conn[k]) = "nothing"
    BY <1>1, <2>1, <2>2 DEF Destroy, Owns
  <2> QED
    BY <2>3, <2>4 DEF RequestCompleted
<1> QED
  BY <1>2, <1>4, <1>5 DEF RequestInv

(* Serving and stopping leave each other's variables alone; stopping may   *)
(* meet what is gone.                                                      *)
LEMMA ServerKeepsTraffic ==
  Owner \/ Spurious \/ UseFreed \/ (\E t \in Threads : StopBegins(t) \/ Stop(t)) =>
    UNCHANGED <<conn, requests>> /\ broken' \in {broken, "freedServer", "stoppedTwice"}
BY DEF traffic, Owner, StartDaemon, SetRunning, LockToWait, TestRunning, Destroyed,
       Spurious, UseFreed, StopBegins, Stop, StopLocks, StopSignals, StopDaemon,
       JoinDaemon

LEMMA RequestsKeepServer ==
  ASSUME NEW k \in Conns, Requests(k) \/ RequestCompleted(k)
  PROVE  UNCHANGED server
BY DEF Requests, UriLog, FirstStep, BodyPiece, FinalizeAnswer, RequestCompleted

LEMMA NextShape == Shape /\ UNCHANGED vars => Shape'
BY DEF Shape, TypeOK, vars, server, traffic

LEMMA NextRequestInv == RequestInv /\ [Next]_vars => RequestInv'
<1> SUFFICES ASSUME RequestInv, [Next]_vars PROVE RequestInv'
  OBVIOUS
<1>1. ASSUME NEW k \in Conns, Requests(k) \/ RequestCompleted(k) PROVE RequestInv'
  BY <1>1, UriLogInv, FirstStepInv, BodyPieceInv, FinalizeAnswerInv,
     RequestCompletedInv DEF Requests
<1>2. CASE Owner \/ Spurious
  BY <1>2, OwnerShape, ServerKeepsTraffic DEF RequestInv
<1>3. CASE \E t \in Threads : StopBegins(t) \/ Stop(t)
  BY <1>3, StopShape, ServerKeepsTraffic DEF RequestInv
<1>4. CASE UseFreed
  BY <1>4, ServerKeepsTraffic DEF RequestInv, Shape, TypeOK, UseFreed, server
<1>5. CASE UNCHANGED vars
  BY <1>5, NextShape DEF RequestInv, vars, traffic
<1> QED
  BY <1>1, <1>2, <1>3, <1>4, <1>5 DEF Next

LEMMA RequestInvAlways == Spec => []RequestInv
<1>1. Init => RequestInv
  <2> SUFFICES ASSUME Init PROVE RequestInv
    OBVIOUS
  <2>1. Owns(NoRequest) /\ Reads(NoRequest)
    BY DEF NoRequest, Owns, Reads
  <2> QED
    BY <2>1, InitShape DEF Init, RequestInv
<1> QED
  BY <1>1, NextRequestInv, PTL DEF Spec

(* The variables keep to the values the code can give them.                *)
THEOREM TypeCorrect == Spec => []TypeOK
<1>1. RequestInv => TypeOK
  BY DEF RequestInv, Shape
<1> QED
  BY <1>1, RequestInvAlways, PTL

(* Wherever a request ends, what was made for it is freed with it, and dhr *)
(* outlives the post processor that writes into it.                        *)
THEOREM RequestsAreFreed == Spec => []FreedWithRequest
<1>1. RequestInv => FreedWithRequest
  BY DEF RequestInv, FreedWithRequest
<1> QED
  BY <1>1, RequestInvAlways, PTL

(* The render method that is called has been set by the headers.           *)
THEOREM CallbacksAreSet == Spec => []CallbackIsSet
<1>1. RequestInv => CallbackIsSet
  BY DEF RequestInv, CallbackIsSet
<1> QED
  BY <1>1, RequestInvAlways, PTL

(* What is kept of a body is its beginning up to the limit, however it was *)
(* cut, and the request counts as too large exactly when it reached it.    *)
THEOREM BodiesAreCut == Spec => []ContentIsPrefix
<1>1. RequestInv => ContentIsPrefix
  <2> SUFFICES ASSUME RequestInv, NEW k \in Conns, conn[k].hasBody
               PROVE  /\ conn[k].content = Smaller(conn[k].sent, ContentLimit)
                      /\ ContentTooLarge(conn[k].content)
                           <=> conn[k].sent >= ContentLimit
    BY DEF ContentIsPrefix
  <2>1. conn[k].sent \in Nat
    BY DEF RequestInv, Shape, RequestType
  <2>2. conn[k].content = Smaller(conn[k].sent, ContentLimit)
    BY DEF RequestInv, Reads
  <2> QED
    BY <2>1, <2>2, WebServerAssumption DEF ContentTooLarge, Smaller
<1> QED
  BY <1>1, RequestInvAlways, PTL

-----------------------------------------------------------------------------
(* Exceptions *)

(* With pages for missing paths and for internal errors that do not throw, *)
(* no exception reaches the C code of the daemon.                          *)
THEOREM ExceptionsAreCaught ==
  ASSUME Throwing \cap {"notFound", "internal"} = {}
  PROVE  Spec => []NoEscape
<1>1. RequestInv /\ NoEscape /\ [Next]_vars => NoEscape'
  <2> SUFFICES ASSUME RequestInv, NoEscape, [Next]_vars PROVE NoEscape'
    OBVIOUS
  <2>1. ASSUME NEW k \in Conns, FinalizeAnswer(k) PROVE NoEscape'
    <3>1. PICK found \in BOOLEAN, forbidden \in SUBSET Exact :
            \E p \in Rendered(found, conn[k].method, forbidden) :
              p = Escape \/ broken' \in {"wildCallback", broken}
      BY <2>1 DEF FinalizeAnswer
    <3> QED
      BY <3>1, NothingEscapes DEF NoEscape
  <2>2. ASSUME NEW k \in Conns, RequestCompleted(k) PROVE NoEscape'
    BY <2>2, RequestCompletedInv DEF NoEscape
  <2>3. ASSUME NEW k \in Conns, UriLog(k) \/ FirstStep(k) \/ BodyPiece(k) PROVE NoEscape'
    BY <2>3 DEF UriLog, FirstStep, BodyPiece, NoEscape
  <2>4. CASE Owner \/ Spurious \/ UseFreed \/ \E t \in Threads : StopBegins(t) \/ Stop(t)
    BY <2>4, ServerKeepsTraffic DEF NoEscape
  <2>5. CASE UNCHANGED vars
    BY <2>5 DEF vars, traffic, NoEscape
  <2> QED
    BY <2>1, <2>2, <2>3, <2>4, <2>5 DEF Next, Requests
<1>2. Init => NoEscape
  BY DEF Init, NoEscape
<1> QED
  BY <1>1, <1>2, RequestInvAlways, PTL DEF Spec

-----------------------------------------------------------------------------
(* stop() *)

LEMMA OwnerStopInv == StopInv /\ OwnerInv /\ TypeOK' /\ (Owner \/ Spurious) => StopInv'
<1> SUFFICES ASSUME StopInv, OwnerInv, TypeOK', Owner \/ Spurious PROVE StopInv'
  OBVIOUS
<1> USE DEF StopInv, TypeOK, Inside, Past, traffic, OwnerAt
<1>1. CASE StartDaemon
  BY <1>1 DEF StartDaemon
<1>2. CASE SetRunning
  BY <1>2 DEF SetRunning
<1>3. CASE LockToWait
  BY <1>3 DEF LockToWait
<1>4. CASE TestRunning
  BY <1>4 DEF TestRunning
<1>5. CASE Destroyed
  BY <1>5 DEF Destroyed
<1>6. CASE Spurious
  BY <1>6 DEF Spurious
<1> QED
  BY <1>1, <1>2, <1>3, <1>4, <1>5, <1>6 DEF Owner

LEMMA StoppingStopInv ==
  ASSUME StopInv, OneStops, TypeOK', NEW t \in Threads, StopBegins(t) \/ Stop(t)
  PROVE  StopInv'
<1> USE DEF StopInv, OneStops, TypeOK, Inside, Past, traffic, StopAt, StopGoes
<1>1. CASE StopBegins(t)
  BY <1>1 DEF StopBegins
<1>2. CASE StopLocks(t)
  BY <1>2 DEF StopLocks
<1>3. CASE StopSignals(t)
  BY <1>3 DEF StopSignals
<1>4. CASE StopDaemon(t)
  BY <1>4 DEF StopDaemon
<1>5. CASE JoinDaemon(t)
  BY <1>5 DEF JoinDaemon
<1> QED
  BY <1>1, <1>2, <1>3, <1>4, <1>5 DEF Stop

LEMMA OwnerOneStops ==
  StopInv /\ OneStops /\ (Owner \/ Spurious) => OneStops'
<1> SUFFICES ASSUME StopInv, OneStops, Owner \/ Spurious PROVE OneStops'
  OBVIOUS
<1> USE DEF StopInv, OneStops, TypeOK, Inside, Past, OwnerAt
<1>1. CASE StartDaemon
  BY <1>1 DEF StartDaemon
<1>2. CASE SetRunning
  BY <1>2 DEF SetRunning
<1>3. CASE LockToWait \/ TestRunning \/ Destroyed \/ Spurious
  BY <1>3 DEF LockToWait, TestRunning, Destroyed, Spurious
<1> QED
  BY <1>1, <1>2, <1>3 DEF Owner

LEMMA StoppingOneStops ==
  ASSUME StopInv, OneStops, NEW t \in Threads, StopBegins(t) \/ Stop(t)
  PROVE  OneStops'
<1> USE DEF StopInv, OneStops, TypeOK, Inside, Past, StopAt, StopGoes
<1>1. CASE StopBegins(t)
  BY <1>1 DEF StopBegins
<1>2. CASE StopLocks(t)
  BY <1>2 DEF StopLocks
<1>3. CASE StopSignals(t)
  BY <1>3 DEF StopSignals
<1>4. CASE StopDaemon(t)
  BY <1>4 DEF StopDaemon
<1>5. CASE JoinDaemon(t)
  BY <1>5 DEF JoinDaemon
<1> QED
  BY <1>1, <1>2, <1>3, <1>4, <1>5 DEF Stop

LEMMA NextOwnerInv ==
  StopInv /\ OwnerInv /\ (Owner \/ Spurious \/ \E t \in Threads : StopBegins(t) \/ Stop(t))
    => OwnerInv'
<1> SUFFICES ASSUME StopInv, OwnerInv,
                    Owner \/ Spurious \/ \E t \in Threads : StopBegins(t) \/ Stop(t)
             PROVE  OwnerInv'
  OBVIOUS
<1> "owner" \in Threads
  BY DEF Threads
<1> USE DEF StopInv, OwnerInv, TypeOK, Inside, Past, OwnerAt, StopAt, StopGoes, MayStop
<1>1. CASE Owner \/ Spurious
  BY <1>1 DEF Owner, StartDaemon, SetRunning, LockToWait, TestRunning, Destroyed, Spurious
<1>2. ASSUME NEW t \in Threads, StopBegins(t) \/ Stop(t) PROVE OwnerInv'
  BY <1>2 DEF StopBegins, Stop, StopLocks, StopSignals, StopDaemon, JoinDaemon
<1> QED
  BY <1>1, <1>2

(* A server destroyed with its daemon alive: the owner's stop() returned   *)
(* false, so that running was cleared, by a call that is not the owner's   *)
(* and that has not returned.                                              *)
LEMMA DestroyedUnderStop ==
  ASSUME StopInv, OneStops, OwnerInv, owner = "destroyed",
         daemon \in {"up", "closing"}
  PROVE  \E t \in Stoppers : stopping[t] \in {"daemon", "join"}
<1>1. "owner" \in Threads
  BY DEF Threads
<1>2. stopping["owner"] = "false"
  BY <1>1 DEF StopInv, OwnerInv
<1>3. PICK t \in Threads : Past(t)
  BY <1>2 DEF OneStops, OwnerInv
<1>4. stopping[t] # "true"
  BY DEF StopInv
<1> QED
  BY <1>2, <1>3, <1>4 DEF Past, Threads

(* What a second MHD_stop_daemon meets is the work of another thread.      *)
LEMMA NextOverlapInv ==
  ASSUME StopInv, OneStops, OwnerInv, OverlapInv,
         Owner \/ Spurious \/ UseFreed \/ \E t \in Threads : StopBegins(t) \/ Stop(t)
  PROVE  OverlapInv'
<1>1. CASE UseFreed
  <2>1. \E t \in Stoppers : Inside(t)
    <3>1. CASE daemon = "up"
      BY <1>1, <3>1, DestroyedUnderStop DEF UseFreed, Inside
    <3> QED
      BY <1>1, <3>1 DEF UseFreed
  <2> QED
    BY <1>1, <2>1 DEF UseFreed, server, OverlapInv, Inside
<1>2. ASSUME NEW t \in Threads, StopDaemon(t), broken' # broken PROVE OverlapInv'
  <2>1. stopping[t] = "daemon" /\ broken' = "stoppedTwice" /\ UNCHANGED stopping
    BY <1>2 DEF StopDaemon, StopAt
  <2>2. daemon \in {"closing", "down"}
    BY <1>2 DEF StopDaemon, StopAt, StopInv, TypeOK, Inside
  <2>3. PICK u \in Threads : stopping[u] \in {"join", "true"}
    BY <2>2 DEF OneStops
  <2> QED
    BY <2>1, <2>3 DEF OverlapInv
<1>3. CASE broken' = broken
  <2>1. broken' = "nothing"
    BY <1>3 DEF Owner, StartDaemon, SetRunning, LockToWait, TestRunning, Destroyed,
       Spurious, UseFreed, StopBegins, Stop, StopLocks, StopSignals, StopDaemon,
       JoinDaemon, OwnerAt, StopAt
  <2> QED
    BY <2>1 DEF OverlapInv
<1>4. \/ UseFreed \/ broken' = broken
      \/ \E t \in Threads : StopDaemon(t)
  BY DEF Owner, StartDaemon, SetRunning, LockToWait, TestRunning, Destroyed,
     Spurious, StopBegins, Stop, StopLocks, StopSignals, JoinDaemon, traffic
<1> QED
  BY <1>1, <1>2, <1>3, <1>4

Stopping == StopInv /\ OneStops /\ OwnerInv /\ OverlapInv

(* A daemon that is down begins no request, and answers none.              *)
LEMMA RequestsStopping ==
  ASSUME Stopping, TypeOK', NEW k \in Conns, Requests(k) \/ RequestCompleted(k)
  PROVE  Stopping'
<1>1. UNCHANGED server
  BY RequestsKeepServer
<1>2. daemon # "down"
  BY DEF Requests, UriLog, FirstStep, BodyPiece, FinalizeAnswer, RequestCompleted, Serves
<1>3. broken' \notin {"freedServer", "stoppedTwice"}
  BY DEF Requests, UriLog, FirstStep, BodyPiece, FinalizeAnswer, RequestCompleted,
     Serves, Destroy
<1>4. StopInv' /\ OneStops' /\ OwnerInv'
  BY <1>1, <1>2 DEF Stopping, StopInv, OneStops, OwnerInv, Inside, Past, server
<1> QED
  BY <1>3, <1>4 DEF Stopping, OverlapInv

LEMMA NextStopping == Stopping /\ TypeOK' /\ [Next]_vars => Stopping'
<1> SUFFICES ASSUME Stopping, TypeOK', [Next]_vars PROVE Stopping'
  OBVIOUS
<1> USE DEF Stopping
<1>1. CASE Owner \/ Spurious
  BY <1>1, OwnerStopInv, OwnerOneStops, NextOwnerInv, NextOverlapInv
<1>2. ASSUME NEW t \in Threads, StopBegins(t) \/ Stop(t) PROVE Stopping'
  BY <1>2, StoppingStopInv, StoppingOneStops, NextOwnerInv, NextOverlapInv
<1>3. CASE UseFreed
  <2>1. StopInv' /\ OneStops' /\ OwnerInv'
    BY <1>3 DEF UseFreed, server, StopInv, OneStops, OwnerInv, Inside, Past
  <2> QED
    BY <1>3, <2>1, NextOverlapInv
<1>4. ASSUME NEW k \in Conns, Requests(k) \/ RequestCompleted(k) PROVE Stopping'
  BY <1>4, RequestsStopping
<1>5. CASE UNCHANGED vars
  BY <1>5 DEF vars, server, traffic, StopInv, OneStops, OwnerInv, OverlapInv, Inside, Past
<1> QED
  BY <1>1, <1>2, <1>3, <1>4, <1>5 DEF Next

(* A stop() that returned true has ended every request and the daemon's    *)
(* thread, however many call it; only overlapping calls destroy a server   *)
(* whose daemon lives, use one that is gone or stop a daemon twice.        *)
THEOREM StopsAreComplete == Spec => []StopIsComplete
<1>1. Init => Stopping
  <2>1. Init => TypeOK
    BY InitShape DEF Shape
  <2> SUFFICES ASSUME Init PROVE Stopping
    OBVIOUS
  <2>2. stopping["owner"] = "no"
    BY DEF Init, Threads
  <2> QED
    BY <2>1, <2>2 DEF Init, Stopping, StopInv, OneStops, OwnerInv, OverlapInv, Inside, Past
<1>2. Stopping => StopIsComplete
  <2> SUFFICES ASSUME Stopping PROVE StopIsComplete
    OBVIOUS
  <2>1. owner = "destroyed" /\ daemon \in {"up", "closing"} =>
          \E t \in Stoppers : stopping[t] \in {"daemon", "join"}
    BY DestroyedUnderStop DEF Stopping
  <2>2. (\E t \in Threads : stopping[t] = "true") =>
          daemon = "down" /\ ~running /\ \A k \in Conns : conn[k].phase = "none"
    BY DEF Stopping, StopInv, Past
  <2> QED
    BY <2>1, <2>2 DEF Stopping, OverlapInv, StopIsComplete
<1> QED
  BY <1>1, <1>2, NextStopping, TypeCorrect, PTL DEF Spec
=============================================================================
