------------------------- MODULE EventDisplayProofs -------------------------
(***************************************************************************)
(* Proofs, for every body length, that event_display's request logger     *)
(* hands an intact body on when it read it without an error.             *)
(***************************************************************************)
EXTENDS EventDisplay, TLAPS

\* The inductive strengthening: a buffered body holds what the logger
\* could read, which is at most what was sent.
DisplayInv ==
    /\ TypeOK
    /\ req.avail <= req.sent
    /\ body.buffered => body.len = req.avail
    /\ BodyIntactWhenRead

LEMMA InitDisplayInv == Init => DisplayInv
<1> SUFFICES ASSUME Init PROVE DisplayInv
  OBVIOUS
<1>1. req \in Request
  BY MaxChunksAssumption DEF Init, Request, URIs, Modes
<1>2. body \in Body
  BY MaxChunksAssumption DEF Init, Body, Stream
<1>3. TypeOK
  BY <1>1, <1>2 DEF Init, TypeOK, Stages
<1>4. QED
  BY <1>3 DEF Init, DisplayInv, Stream, BodyIntactWhenRead

\* The receiver's step adds only events that keep BodyIntactWhenRead.
LEMMA ReceiveDisplayInv ==
    ASSUME DisplayInv, Receive PROVE DisplayInv'
<1> DEFINE got == IF body.buffered THEN body.len ELSE req.avail
           rec == [sent |-> req.sent, got |-> got, failed |-> req.avail < req.sent]
<1>1. displayed' \subseteq displayed \cup {rec}
  BY DEF Receive
<1>2. UNCHANGED <<phase, meter, tracer, req, body>> /\ stage' = "idle"
  BY DEF Receive
<1>3. req.sent \in 0 .. MaxChunks /\ req.avail \in 0 .. MaxChunks
  BY DEF DisplayInv, TypeOK, Request
<1>4. got \in 0 .. MaxChunks
  BY <1>3 DEF DisplayInv, TypeOK, Body
<1>5. ~rec.failed => rec.got = rec.sent
  <2>1. rec.failed = (req.avail < req.sent) /\ rec.got = got /\ rec.sent = req.sent
    OBVIOUS
  <2>2. body.buffered \in BOOLEAN /\ (body.buffered => body.len = req.avail)
    BY DEF DisplayInv, TypeOK, Body
  <2>3. req.avail <= req.sent
    BY DEF DisplayInv
  <2>4. ~(req.avail < req.sent) => got = req.sent
    BY <1>3, <2>2, <2>3
  <2>5. QED
    BY <2>1, <2>4
<1>6. rec \in [sent : 0 .. MaxChunks, got : 0 .. MaxChunks, failed : BOOLEAN]
  BY <1>3, <1>4
<1>7. TypeOK'
  BY <1>1, <1>2, <1>6 DEF Receive, DisplayInv, TypeOK, Stages
<1>8. BodyIntactWhenRead'
  <2> SUFFICES ASSUME NEW d \in displayed', ~d.failed PROVE d.got = d.sent
    BY DEF BodyIntactWhenRead
  <2>1. CASE d \in displayed
    BY <2>1 DEF DisplayInv, BodyIntactWhenRead
  <2>2. CASE d = rec
    BY <2>2, <1>5
  <2>3. QED
    BY <1>1, <2>1, <2>2
<1>9. QED
  BY <1>2, <1>7, <1>8 DEF DisplayInv

\* Every step keeps DisplayInv.
LEMMA NextDisplayInv == DisplayInv /\ [Next]_vars => DisplayInv'
<1> SUFFICES ASSUME DisplayInv, [Next]_vars PROVE DisplayInv'
  OBVIOUS
<1>1. CASE ReadEnv
  BY <1>1 DEF ReadEnv, DisplayInv, TypeOK, BodyIntactWhenRead
<1>2. CASE NewClient
  BY <1>2 DEF NewClient, DisplayInv, TypeOK, BodyIntactWhenRead
<1>3. CASE SetupObservability
  BY <1>3 DEF SetupObservability, DisplayInv, TypeOK, BodyIntactWhenRead
<1>4. CASE StopReceiver
  BY <1>4 DEF StopReceiver, DisplayInv, TypeOK, BodyIntactWhenRead
<1>5. CASE Arrive
  BY <1>5, MaxChunksAssumption DEF Arrive, Stream, DisplayInv, TypeOK, Request,
     Body, Stages, URIs, Modes, BodyIntactWhenRead
<1>6. CASE RequestLogging
  BY <1>6 DEF RequestLogging, ToReq, DisplayInv, TypeOK, Request, Body, Stages,
     BodyIntactWhenRead
<1>7. CASE Healthz
  BY <1>7 DEF Healthz, DisplayInv, TypeOK, Stages, BodyIntactWhenRead
<1>8. CASE Receive
  BY <1>8, ReceiveDisplayInv
<1>9. CASE UNCHANGED vars
  BY <1>9 DEF vars, DisplayInv, TypeOK, BodyIntactWhenRead
<1>10. QED
  BY <1>1, <1>2, <1>3, <1>4, <1>5, <1>6, <1>7, <1>8, <1>9 DEF Next

THEOREM DisplayInvInvariant == Spec => []DisplayInv
BY InitDisplayInv, NextDisplayInv, PTL DEF Spec

\* toReq puts back the bytes it read (line 209): whenever the body was read
\* without an error, display() prints the event with the body the client
\* sent, for every body length and whether request logging is on or off.
THEOREM BodyIntact == Spec => []BodyIntactWhenRead
BY DisplayInvInvariant, PTL DEF DisplayInv

=============================================================================
