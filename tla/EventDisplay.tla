---------------------------- MODULE EventDisplay ----------------------------
(***************************************************************************)
(* The event_display sample receiver (cmd/event_display/main.go): run()'s *)
(* startup, with its fallbacks for the observability setup, and a request *)
(* through the middleware chain.  cehttp applies the middlewares in the   *)
(* order given, each wrapping the previous handler, so a request meets    *)
(* the request logger first, then the /healthz check, then the CloudEvents *)
(* receiver, which parses the event and calls display().                  *)
(*                                                                         *)
(* A body is abstracted to its length in chunks: sent, the chunks the     *)
(* client sends, and avail, those the server can read before the          *)
(* connection breaks (avail < sent: the read fails part way).             *)
(***************************************************************************)
EXTENDS Naturals

CONSTANTS
    MaxChunks   \* the longest body, in chunks

ASSUME MaxChunksAssumption == MaxChunks \in Nat

VARIABLES
    phase,      \* where run() is
    logging,    \* REQUEST_LOGGING_ENABLED as parsed
    meter,      \* the meter provider ("none" before it is set up)
    tracer,     \* the tracer provider
    deferred,   \* the deferred exporter shutdown is registered
    flushed,    \* the deferred exporter shutdown has run
    stage,      \* where the request being served is in the handler chain
    req,        \* that request: URI, content mode, chunks sent and readable
    body,       \* req.Body: the connection's stream, or a buffer of len chunks
    displayed   \* the events display() has printed, with the body sent

vars == <<phase, logging, meter, tracer, deferred, flushed, stage, req, body,
          displayed>>

URIs == {"/healthz", "/"}
Modes == {"binary", "structured"}
Stages == {"idle", "logging", "healthz", "receive"}

Request == [uri : URIs, mode : Modes, sent : 0 .. MaxChunks, avail : 0 .. MaxChunks]
Body == [buffered : BOOLEAN, len : 0 .. MaxChunks]

TypeOK ==
    /\ phase \in {"env", "client", "observability", "receiving", "exited"}
    /\ logging \in BOOLEAN /\ deferred \in BOOLEAN /\ flushed \in BOOLEAN
    /\ {meter, tracer} \subseteq {"none", "configured", "noop"}
    /\ stage \in Stages /\ req \in Request /\ body \in Body
    /\ displayed \subseteq [sent : 0 .. MaxChunks, got : 0 .. MaxChunks,
                            failed : BOOLEAN]

\* The connection's own body stream.
Stream == [buffered |-> FALSE, len |-> 0]

Init ==
    /\ phase = "env" /\ logging = FALSE
    /\ meter = "none" /\ tracer = "none"
    /\ deferred = FALSE /\ flushed = FALSE
    /\ stage = "idle"
    /\ req = [uri |-> "/", mode |-> "binary", sent |-> 0, avail |-> 0]
    /\ body = Stream
    /\ displayed = {}

\* strconv.ParseBool(os.Getenv("REQUEST_LOGGING_ENABLED")); a parse error
\* leaves it false.
ReadEnv ==
    /\ phase = "env" /\ phase' = "client"
    /\ logging' \in BOOLEAN
    /\ UNCHANGED <<meter, tracer, deferred, flushed, stage, req, body, displayed>>

\* client.NewClientHTTP with both middlewares; log.Fatal on error.
NewClient ==
    /\ phase = "client"
    /\ phase' \in {"observability", "exited"}
    /\ UNCHANGED <<logging, meter, tracer, deferred, flushed, stage, req, body, displayed>>

\* The observability config (default on a parse error), the resource (a
\* failure only logged), the meter and tracer providers (noop when their
\* setup fails), and the deferred shutdown of both.
SetupObservability ==
    /\ phase = "observability" /\ phase' = "receiving"
    /\ meter' \in {"configured", "noop"}
    /\ tracer' \in {"configured", "noop"}
    /\ deferred' = TRUE
    /\ UNCHANGED <<logging, flushed, stage, req, body, displayed>>

\* c.StartReceiver(ctx, display) with ctx = context.Background(): it never
\* returns nil, since ctx is never done; on an error log.Fatal exits, and
\* SIGTERM kills the process, neither running the deferred shutdown.
StopReceiver ==
    /\ phase = "receiving" /\ phase' = "exited"
    /\ UNCHANGED <<logging, meter, tracer, deferred, flushed, stage, req, body, displayed>>

\* A request arrives at the server.
Arrive ==
    /\ phase = "receiving" /\ stage = "idle"
    /\ stage' = "logging"
    /\ \E uri \in URIs, mode \in Modes, sent \in 0 .. MaxChunks :
         \E avail \in 0 .. sent :
           req' = [uri |-> uri, mode |-> mode, sent |-> sent, avail |-> avail]
    /\ body' = Stream
    /\ UNCHANGED <<phase, logging, meter, tracer, deferred, flushed, displayed>>

\* Mutant: toReq without the body put back (line 209 dropped): the next
\* handler reads a drained body.
RequestLoggingNoRestore ==
    /\ phase = "receiving" /\ stage = "logging"
    /\ stage' = "healthz"
    /\ body' = IF logging THEN [buffered |-> TRUE, len |-> 0] ELSE body
    /\ UNCHANGED <<phase, logging, meter, tracer, deferred, flushed, req,
                   displayed>>

\* logRequest(req), through toReq: io.ReadAll returns what it read with
\* the error, which is only logged, and req.Body becomes a buffer of those
\* bytes; the rest of the LoggableRequest is only printed.
ToReq(r) == [buffered |-> TRUE, len |-> r.avail]

\* requestLoggingMiddleware: when enabled, logRequest(req), then the next
\* handler.
RequestLogging ==
    /\ phase = "receiving" /\ stage = "logging"
    /\ stage' = "healthz"
    /\ body' = IF logging THEN ToReq(req) ELSE body
    /\ UNCHANGED <<phase, logging, meter, tracer, deferred, flushed, req,
                   displayed>>

\* healthzMiddleware: RequestURI "/healthz" is answered 204 here.
Healthz ==
    /\ phase = "receiving" /\ stage = "healthz"
    /\ stage' = IF req.uri = "/healthz" THEN "idle" ELSE "receive"
    /\ UNCHANGED <<phase, logging, meter, tracer, deferred, flushed, req, body,
                   displayed>>

\* The CloudEvents receiver reads the body (a read error is a failed
\* request).  A binary-mode body is the event's data, so any prefix makes
\* an event; a truncated structured-mode JSON body does not parse.  An
\* event is passed to display().
Receive ==
    /\ phase = "receiving" /\ stage = "receive"
    /\ stage' = "idle"
    /\ LET got == IF body.buffered THEN body.len ELSE req.avail
           readOK == body.buffered \/ req.avail = req.sent
           parses == req.mode = "binary" \/ got = req.sent
       IN displayed' = IF readOK /\ parses
                       THEN displayed \cup {[sent |-> req.sent, got |-> got,
                                             failed |-> req.avail < req.sent]}
                       ELSE displayed
    /\ UNCHANGED <<phase, logging, meter, tracer, deferred, flushed, req, body>>

Next == ReadEnv \/ NewClient \/ SetupObservability \/ StopReceiver
        \/ Arrive \/ RequestLogging \/ Healthz \/ Receive

Spec == Init /\ [][Next]_vars

-----------------------------------------------------------------------------
(* Properties *)

\* When the body was read without an error, display() prints the event
\* with the body the client sent, whether or not the request logger read
\* it first (toReq puts the body back, line 209).
BodyIntactWhenRead ==
    \A d \in displayed : ~d.failed => d.got = d.sent

\* display() only prints an event with the body the client sent; a failed
\* read is not turned into an event (toReq, lines 203-209).
DisplayedAsSent == \A d \in displayed : d.got = d.sent
=============================================================================
