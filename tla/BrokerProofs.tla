---------------------------- MODULE BrokerProofs ----------------------------
(***************************************************************************)
(* Proof, for every value of the constants, of the type invariant of      *)
(* module Broker.                                                          *)
(***************************************************************************)
EXTENDS Broker, TLAPS

\* An admitted Ingress request holds the event it will forward: a type, and
\* the TTL the Ingress admitted it with, which is positive.
IngressOK ==
    \A e \in Events :
        ingress[e].stage = "admitted" =>
            /\ ingress[e].type \in Types
            /\ ingress[e].ttl >= 1

\* TypeOK alone is not inductive: an admitted request's TTL is an Int in
\* IngressRecord and must be known to be positive when it goes onto the
\* channel as a message, whose TTL is a Nat.
IInv == TypeOK /\ IngressOK

-----------------------------------------------------------------------------

\* The status codes are distinct numbers.
LEMMA StatusFacts ==
    /\ {OK, Accepted, BadRequest, Unauthorized, Forbidden, NotFound,
        TooManyRequests, InternalError, BadGateway, GatewayTimeout, NoAnswer}
         \subseteq Nat
    /\ Pass \notin {OK, Accepted, BadRequest, Unauthorized, Forbidden, NotFound,
                    InternalError}
BY DEF OK, Accepted, BadRequest, Unauthorized, Forbidden, NotFound,
       TooManyRequests, InternalError, BadGateway, GatewayTimeout, NoAnswer, Pass

\* The Ingress admits an event only with a positive TTL.
LEMMA IngressPass ==
    ASSUME NEW b, NEW body, NEW oidc \in BOOLEAN, NEW token, NEW n \in Int,
           IngressVerdict(b, body, oidc, token, n) = Pass
    PROVE  n >= 1
BY StatusFacts DEF IngressVerdict

\* The Ingress answers with a status code or lets the request pass.
LEMMA IngressVerdictType ==
    ASSUME NEW b, NEW body, NEW oidc \in BOOLEAN, NEW token, NEW n
    PROVE  IngressVerdict(b, body, oidc, token, n) \in Nat
BY StatusFacts DEF IngressVerdict, Pass

\* The TTL the Ingress works with is an integer.
LEMMA DefaultTTLType ==
    ASSUME NEW x \in ProducerTTLs PROVE DefaultTTL(x) \in Int
<1>1. MaxTTL \in Int
  BY MaxTTLAssumption, SMT DEF MaxTTLValid, Int32Max
<1>2. x = None \/ x \in Int
  BY ConstantsAssumption
<1>3. QED
  BY <1>1, <1>2 DEF DefaultTTL

-----------------------------------------------------------------------------

\* The initial state, where no event has arrived, satisfies IInv.
LEMMA InitIInv == Init => IInv
BY MaxTTLAssumption, ConstantsAssumption, StatusFacts
DEF Init, IInv, TypeOK, IngressOK, IngressRecord, IdleRequest

\* A producer's request to the Ingress keeps IInv.
LEMMA IngressReceiveIInv ==
    ASSUME IInv, NEW e \in Events, IngressReceive(e) PROVE IInv'
<1>1. PICK b \in BrokerStates, snap \in PinFeatures, ty \in Types,
           x \in ProducerTTLs, body \in Bodies, token \in Tokens :
         IngressOutcome(e, ty, DefaultTTL(x),
                        IngressVerdict(b, body, snap.oidc, token, DefaultTTL(x)))
  BY DEF IngressReceive
<1> DEFINE n == DefaultTTL(x)
           v == IngressVerdict(b, body, snap.oidc, token, n)
<1>2. n \in Int
  BY DefaultTTLType
<1>3. v = Pass => n >= 1
  BY <1>1, <1>2, IngressPass DEF PinFeatures
<1>4. v \in Nat
  BY <1>1, IngressVerdictType DEF PinFeatures
<1>5. ingress[e].stage = "idle"
      /\ UNCHANGED <<trig, subs, chan, dlv, filter, replies>>
  BY DEF IngressReceive
<1>6. TypeOK'
  BY <1>1, <1>2, <1>4, <1>5, StatusFacts
  DEF IInv, TypeOK, IngressOutcome, IngressRecord
<1>7. IngressOK'
  BY <1>1, <1>2, <1>3, <1>5 DEF IInv, TypeOK, IngressOutcome, IngressOK
<1>8. QED
  BY <1>6, <1>7 DEF IInv

\* Forwarding an admitted event to the channel keeps IInv.
LEMMA IngressForwardIInv ==
    ASSUME IInv, NEW e \in Events, IngressForward(e) PROVE IInv'
<1>1. /\ ingress[e].stage = "admitted"
      /\ UNCHANGED <<trig, subs, dlv, filter, replies, admitted>>
      /\ \E out \in ChannelOutcomes :
           /\ chan' \in {chan, chan \cup {[ev |-> e, type |-> ingress[e].type,
                                           ttl |-> ingress[e].ttl, hops |-> 0]}}
           /\ ingress' = [ingress EXCEPT ![e].stage = "done",
                                         ![e].status = RelayStatus(out)]
  BY DEF IngressForward
<1>2. PICK out \in ChannelOutcomes :
        /\ chan' \in {chan, chan \cup {[ev |-> e, type |-> ingress[e].type,
                                        ttl |-> ingress[e].ttl, hops |-> 0]}}
        /\ ingress' = [ingress EXCEPT ![e].stage = "done",
                                      ![e].status = RelayStatus(out)]
  BY <1>1
<1>3. RelayStatus(out) \in Nat
  BY StatusFacts DEF RelayStatus
<1>4. /\ ingress[e].type \in Types
      /\ ingress[e].ttl \in Nat
  BY <1>1 DEF IInv, IngressOK, TypeOK, IngressRecord
<1>5. TypeOK'
  <2>1. ingress' \in [Events -> IngressRecord]
    BY <1>2, <1>3 DEF IInv, TypeOK, IngressRecord
  <2>2. chan' \subseteq Msg
    BY <1>2, <1>4 DEF IInv, TypeOK, Msg
  <2>3. QED
    BY <1>1, <2>1, <2>2 DEF IInv, TypeOK
<1>6. IngressOK'
  BY <1>1, <1>2 DEF IInv, TypeOK, IngressOK
<1>7. QED
  BY <1>5, <1>6 DEF IInv

\* The Ingress's handling of a reply the channel POSTs to it keeps IInv.
LEMMA IngressReplyIInv ==
    ASSUME IInv, NEW r \in replies, IngressReply(r) PROVE IInv'
<1>1. /\ replies' = replies \ {r}
      /\ UNCHANGED <<trig, subs, ingress, dlv, filter, admitted>>
  BY DEF IngressReply
<1>2. chan' \in {chan, chan \cup {[r EXCEPT !.ttl = DefaultTTL(r.ttl)]}}
  BY DEF IngressReply
<1>3. r \in Msg
  BY DEF IInv, TypeOK
<1>4. DefaultTTL(r.ttl) \in Nat
  BY <1>3, MaxTTLAssumption DEF DefaultTTL, Msg, MaxTTLValid, Int32Max
<1>5. [r EXCEPT !.ttl = DefaultTTL(r.ttl)] \in Msg
  BY <1>3, <1>4 DEF Msg
<1>6. QED
  BY <1>1, <1>2, <1>5 DEF IInv, TypeOK, IngressOK

\* The channel's fan-out of a message keeps IInv.
LEMMA FanoutIInv ==
    ASSUME IInv, NEW m \in chan, Fanout(m) PROVE IInv'
<1> DEFINE New == {[msg |-> m, trig |-> t, uid |-> subs[t]] :
                     t \in {u \in Triggers : subs[u] # 0}}
<1>1. /\ chan' = chan \ {m}
      /\ dlv' = dlv \cup New
      /\ UNCHANGED <<trig, subs, ingress, filter, replies, admitted>>
  BY DEF Fanout
<1>2. New \subseteq Delivery
  BY DEF IInv, TypeOK, Delivery
<1>3. QED
  BY <1>1, <1>2 DEF IInv, TypeOK, IngressOK

\* The Filter's receipt of a delivery keeps IInv.
LEMMA FilterReceiveIInv ==
    ASSUME IInv, NEW d \in dlv, FilterReceive(d) PROVE IInv'
<1>1. /\ dlv' = dlv \ {d}
      /\ UNCHANGED <<trig, subs, ingress, chan, replies, admitted>>
  BY DEF FilterReceive
<1>2. PICK snap \in PinFeatures, token \in Tokens :
        filter' = IF FilterVerdict(d.trig, d.uid, d.msg, snap.oidc, token) = Pass
                    THEN Put(filter, d, DispatchRecord(d))
                    ELSE filter
  BY DEF FilterReceive
<1>3. d \in Delivery
  BY DEF IInv, TypeOK
<1>4. DispatchRecord(d) \in FilterRecord
  BY <1>3 DEF DispatchRecord, FilterRecord, Delivery, Msg
<1>5. filter' \in {filter, Put(filter, d, DispatchRecord(d))}
  BY <1>2
<1>6. /\ DOMAIN filter' \subseteq Delivery
      /\ filter' \in [DOMAIN filter' -> FilterRecord]
  BY <1>3, <1>4, <1>5 DEF IInv, TypeOK, Put
<1>7. QED
  BY <1>1, <1>6 DEF IInv, TypeOK, IngressOK

\* Removing an answered Filter request keeps IInv.
LEMMA AnswerIInv ==
    ASSUME IInv, NEW d \in DOMAIN filter, NEW s, Answer(d, s),
           UNCHANGED <<trig, subs, ingress, chan, dlv, admitted>>,
           replies' \subseteq Msg
    PROVE  IInv'
BY DEF Answer, IInv, TypeOK, IngressOK

\* The reply a Filter request returns is a message.
LEMMA ReplyType ==
    ASSUME TypeOK, NEW d \in DOMAIN filter, NEW ty \in Types
    PROVE  ReplyOf(d, ty) \in Msg
BY DEF TypeOK, ReplyOf, Msg, Delivery, FilterRecord

\* The subscriber's answer keeps IInv.
LEMMA SubscriberRespondIInv ==
    ASSUME IInv, NEW d \in DOMAIN filter, SubscriberRespond(d) PROVE IInv'
<1>1. UNCHANGED <<trig, subs, ingress, chan, dlv, admitted>>
  BY DEF SubscriberRespond
<1>2. CASE \E s \in EmptyReplyStatuses \cup {BadGateway} \cup FailStatuses :
             Answer(d, s) /\ UNCHANGED replies
  BY <1>1, <1>2, AnswerIInv DEF IInv, TypeOK
<1>3. CASE \E ty \in Types : replies' = replies \cup {ReplyOf(d, ty)}
                             /\ Answer(d, Accepted)
  BY <1>1, <1>3, AnswerIInv, ReplyType DEF IInv, TypeOK
<1>4. CASE filter' = [filter EXCEPT ![d].stage = "deadletter"]
           /\ UNCHANGED replies
  BY <1>1, <1>4 DEF IInv, TypeOK, IngressOK, FilterRecord
<1>5. QED
  BY <1>2, <1>3, <1>4 DEF SubscriberRespond

\* The dead-letter call keeps IInv.
LEMMA DeadLetterIInv ==
    ASSUME IInv, NEW d \in DOMAIN filter, DeadLetter(d) PROVE IInv'
BY AnswerIInv DEF DeadLetter, IInv, TypeOK

\* Informer updates of triggers and subscriptions keep IInv.
LEMMA ConfigIInv ==
    ASSUME IInv, NEW t \in Triggers,
           DeleteTrigger(t) \/ RecreateTrigger(t) \/ ReconcileSubscription(t)
    PROVE  IInv'
<1>1. UNCHANGED <<ingress, chan, dlv, filter, replies, admitted>>
  BY DEF DeleteTrigger, RecreateTrigger, ReconcileSubscription
<1>2. trig' \in [Triggers -> [gen: 1 .. MaxGen, live: BOOLEAN]]
  <2>1. CASE DeleteTrigger(t)
    BY <2>1 DEF IInv, TypeOK, DeleteTrigger
  <2>2. CASE RecreateTrigger(t)
    BY <2>2, ConstantsAssumption DEF IInv, TypeOK, RecreateTrigger
  <2>3. CASE ReconcileSubscription(t)
    BY <2>3 DEF ReconcileSubscription, IInv, TypeOK
  <2>4. QED
    BY <2>1, <2>2, <2>3
<1>3. subs' \in [Triggers -> 0 .. MaxGen]
  BY ConstantsAssumption
  DEF IInv, TypeOK, DeleteTrigger, RecreateTrigger, ReconcileSubscription
<1>4. QED
  BY <1>1, <1>2, <1>3 DEF IInv, TypeOK, IngressOK

-----------------------------------------------------------------------------

\* Every step of the broker, the config store and the producers keeps IInv.
LEMMA NextIInv == IInv /\ [Next]_vars => IInv'
<1> SUFFICES ASSUME IInv, [Next]_vars PROVE IInv'
  OBVIOUS
<1>1. CASE \E e \in Events : IngressReceive(e)
  BY <1>1, IngressReceiveIInv
<1>2. CASE IngressStep
  BY <1>2, IngressForwardIInv, IngressReplyIInv DEF IngressStep
<1>3. CASE ChannelStep
  BY <1>3, FanoutIInv DEF ChannelStep
<1>4. CASE FilterStep
  BY <1>4, FilterReceiveIInv, SubscriberRespondIInv, DeadLetterIInv
  DEF FilterStep
<1>5. CASE \E t \in Triggers :
             DeleteTrigger(t) \/ RecreateTrigger(t) \/ ReconcileSubscription(t)
  BY <1>5, ConfigIInv
<1>6. CASE UNCHANGED vars
  BY <1>6 DEF vars, IInv, TypeOK, IngressOK
<1>7. QED
  BY <1>1, <1>2, <1>3, <1>4, <1>5, <1>6 DEF Next, Environment

\* IInv holds in every state of every behaviour.
LEMMA IInvInvariant == Spec => []IInv
BY InitIInv, NextIInv, PTL DEF Spec

\* Type correctness of the data plane, whatever the subscribers reply and
\* however long their reply chains run: the request records, the channel's
\* messages (whose knativebrokerttl stays a natural number: the Ingress
\* admits only a positive TTL and nothing lowers it), the deliveries, the
\* Filter requests and the pending replies keep their shapes.
THEOREM TypeCorrect == Spec => []TypeOK
BY IInvInvariant, PTL DEF IInv

=============================================================================
