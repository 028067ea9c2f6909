------------------------------- MODULE Broker -------------------------------
(***************************************************************************)
(* The data plane of one broker.  A producer POSTs an event to the Ingress *)
(* handler, which admits it, puts the hop count knativebrokerttl (TTL) on  *)
(* it and forwards it to the broker's channel.  The channel fans every     *)
(* message out to the Filter handler of each subscribed trigger.  The      *)
(* Filter handler checks the trigger, evaluates the trigger's filter and   *)
(* dispatches to the subscriber.  A reply event comes back in the Filter's *)
(* response with the incoming TTL; the channel POSTs it to the             *)
(* subscription's Reply address, the broker's Ingress, where it starts    *)
(* over.  A failed dispatch goes to the trigger's dead-letter sink.  The   *)
(* config store (broker, triggers, feature flags) changes under the        *)
(* handlers.  Only the receive steps read the broker and the flags, so the *)
(* values they read are inputs of those steps: any value the informer may  *)
(* have stored.                                                            *)
(*                                                                         *)
(* Events are abstracted to a lineage (the producer event a chain of       *)
(* replies started from), a type (all the filters look at), the TTL and an *)
(* auxiliary hop counter that no code keeps.                               *)
(***************************************************************************)
EXTENDS Integers

CONSTANTS
    Events,         \* producer events, one request each (model values)
    Types,          \* event types the trigger filters tell apart
    Triggers,       \* the broker's triggers
    None,           \* model value: an attribute that is absent
    MaxTTL,         \* env.MaxTTL of the ingress
    ProducerTTLs,   \* knativebrokerttl values a producer may send (None: absent)
    MaxGen,         \* bound on the re-creations (new UIDs) of one trigger
    FilterOf,       \* the types each trigger's filter accepts
    NoSubscriber,   \* triggers whose status has no subscriber URI
    WithDLS,        \* triggers with a dead-letter sink
    MaxReplyHops    \* bound on the replies explored down one chain

\* The largest int32, 2^31 - 1, written so that TLC's integers hold it.
Int32Max == 2^30 + (2^30 - 1)

\* main() exits unless env.MaxTTL, an int32, is positive.
MaxTTLValid == MaxTTL \in 1 .. Int32Max

ASSUME MaxTTLAssumption == MaxTTLValid

ASSUME ConstantsAssumption ==
    /\ ProducerTTLs \subseteq Int \cup {None}
    /\ MaxGen \in Nat \ {0}
    /\ FilterOf \in [Triggers -> SUBSET Types]
    /\ NoSubscriber \subseteq Triggers
    /\ WithDLS \subseteq Triggers
    /\ MaxReplyHops \in Nat

\* HTTP status codes; Pass marks a request that went through all checks.
OK == 200
Accepted == 202
BadRequest == 400
Unauthorized == 401
Forbidden == 403
NotFound == 404
TooManyRequests == 429
InternalError == 500
BadGateway == 502
GatewayTimeout == 504
NoAnswer == 0
Pass == 1

Success == 200 .. 299

\* What the broker informer may hold for the broker a request names.
BrokerStates == {"absent", "noAddress", "ready"}

Bodies == {"event", "malformed"}
Tokens == {"valid", "missing", "denied"}

\* The channel's answer to a forwarded event: 202, a failure, or none.
ChannelOutcomes == {Accepted, InternalError, NoAnswer}

\* The statuses a subscriber answers with: an empty 2xx, or a failure.
EmptyReplyStatuses == {OK, Accepted}
FailStatuses == {BadRequest, TooManyRequests}

\* The dead-letter sink's answer.
DLSOutcomes == {Accepted, InternalError}

VARIABLES
    trig,       \* trig[t]: generation (UID) of trigger t and whether it exists
    subs,       \* subs[t]: the UID the channel's subscription for t carries, 0: none
    ingress,    \* ingress[e]: the Ingress request for producer event e
    chan,       \* messages in the broker's channel
    dlv,        \* deliveries from the channel to a trigger's Filter endpoint
    filter,     \* filter[d]: the Filter request for delivery d, until answered
    replies,    \* reply events the channel has to POST to its Reply address
    admitted    \* admitted[e]: the TTL the Ingress admitted e with, 0: not yet

vars == <<trig, subs, ingress, chan, dlv, filter, replies, admitted>>

Msg == [ev: Events, type: Types, ttl: Nat, hops: Nat]
Delivery == [msg: Msg, trig: Triggers, uid: 1 .. MaxGen]

IngressRecord == [stage: {"idle", "admitted", "done"}, type: Types \cup {None},
                  ttl: Int, status: Nat]
FilterRecord == [stage: {"dispatch", "deadletter"}, ttl: Nat, dls: BOOLEAN]

\* A function extended (or updated) at one point.
Put(f, k, v) == [x \in DOMAIN f \cup {k} |-> IF x = k THEN v ELSE f[x]]

-----------------------------------------------------------------------------
(* Ingress handler *)

\* The feature snapshot the request context is decorated with on entry:
\* whatever the feature store holds at that moment.
PinFeatures == [oidc: BOOLEAN]

\* TTLDefaulter(logger, env.MaxTTL): an event without TTL gets MaxTTL.
DefaultTTL(x) == IF x = None THEN MaxTTL ELSE x

\* Faulty variant: the TTL <= 0 rejection is missing.
IngressVerdictNoTTLCheck(b, body, oidc, token, n) ==
    IF b = "absent" THEN NotFound
    ELSE IF b = "noAddress" THEN InternalError
    ELSE IF body = "malformed" THEN BadRequest
    ELSE IF oidc /\ token = "missing" THEN Unauthorized
    ELSE IF oidc /\ token = "denied" THEN Forbidden
    ELSE Pass

\* The early returns of the Ingress handler, in the order it takes them.
IngressVerdict(b, body, oidc, token, n) ==
    IF b = "absent" THEN NotFound
    ELSE IF b = "noAddress" THEN InternalError
    ELSE IF body = "malformed" THEN BadRequest
    ELSE IF oidc /\ token = "missing" THEN Unauthorized
    ELSE IF oidc /\ token = "denied" THEN Forbidden
    ELSE IF n <= 0 THEN BadRequest
    ELSE Pass

\* Upstream 2xx -> 202, upstream 5xx -> 502, no answer -> 504.
RelayStatus(out) ==
    IF out \in Success THEN Accepted
    ELSE IF out = NoAnswer THEN GatewayTimeout
    ELSE BadGateway

IdleRequest == [stage |-> "idle", type |-> None, ttl |-> 0, status |-> NoAnswer]

\* The request record and the admitted TTL once the checks on event e, of
\* type ty with TTL n, gave verdict v.
IngressOutcome(e, ty, n, v) ==
    /\ ingress' = [ingress EXCEPT ![e] =
                     [stage  |-> IF v = Pass THEN "admitted" ELSE "done",
                      type   |-> ty,
                      ttl    |-> n,
                      status |-> IF v = Pass THEN NoAnswer ELSE v]]
    /\ admitted' = IF v = Pass THEN [admitted EXCEPT ![e] = n] ELSE admitted

\* A producer POSTs event e: look up the broker, parse, authenticate,
\* default the TTL; either answer at once or hold the event for forwarding.
IngressReceive(e) ==
    /\ ingress[e].stage = "idle"
    /\ \E b \in BrokerStates, snap \in PinFeatures, ty \in Types,
          ttl \in ProducerTTLs, body \in Bodies, token \in Tokens :
         IngressOutcome(e, ty, DefaultTTL(ttl),
                        IngressVerdict(b, body, snap.oidc, token, DefaultTTL(ttl)))
    /\ UNCHANGED <<trig, subs, chan, dlv, filter, replies>>

\* Forward the admitted event to the channel and relay its answer.
IngressForward(e) ==
    /\ ingress[e].stage = "admitted"
    /\ \E out \in ChannelOutcomes :
         /\ chan' = IF out \in Success
                      THEN chan \cup {[ev |-> e, type |-> ingress[e].type,
                                       ttl |-> ingress[e].ttl, hops |-> 0]}
                      ELSE chan
         /\ ingress' = [ingress EXCEPT ![e].stage = "done",
                                       ![e].status = RelayStatus(out)]
    /\ UNCHANGED <<trig, subs, dlv, filter, replies, admitted>>

-----------------------------------------------------------------------------
(* Channel: fan-out of every message to each trigger's subscription *)

\* The channel takes a message and hands it to the Filter endpoint of every
\* trigger it has a subscription for, with the UID the subscription holds.
Fanout(m) ==
    /\ m \in chan
    /\ chan' = chan \ {m}
    /\ dlv' = dlv \cup {[msg |-> m, trig |-> t, uid |-> subs[t]] :
                          t \in {u \in Triggers : subs[u] # 0}}
    /\ UNCHANGED <<trig, subs, ingress, filter, replies, admitted>>

\* The channel's Reply leg: a reply event that came back in a Filter
\* response is POSTed to the subscription's Reply address, the broker's
\* Ingress, which handles it as it handles a producer's POST (its checks
\* and its TTL defaulting) and forwards it to the channel.  The Ingress's
\* answer goes back to the channel, which does not redeliver.
IngressReply(r) ==
    /\ r \in replies
    /\ \E b \in BrokerStates, snap \in PinFeatures, token \in Tokens,
          out \in ChannelOutcomes :
         chan' = IF /\ IngressVerdict(b, "event", snap.oidc, token,
                                      DefaultTTL(r.ttl)) = Pass
                    /\ out \in Success
                   THEN chan \cup {[r EXCEPT !.ttl = DefaultTTL(r.ttl)]}
                   ELSE chan
    /\ replies' = replies \ {r}
    /\ UNCHANGED <<trig, subs, ingress, dlv, filter, admitted>>

-----------------------------------------------------------------------------
(* Filter handler *)

\* The early returns of the Filter handler before dispatch, in its order:
\* trigger lookup and UID check, authorization, filter.  No TTL value is
\* turned away: the tests dispatch makeEvent()'s TTL of 1 (lines 147, 253).
FilterVerdict(t, uid, m, oidc, token) ==
    IF ~trig[t].live \/ trig[t].gen # uid \/ t \in NoSubscriber THEN NotFound
    ELSE IF oidc /\ token = "missing" THEN Unauthorized
    ELSE IF oidc /\ token = "denied" THEN Forbidden
    ELSE IF m.type \notin FilterOf[t] THEN OK
    ELSE Pass

\* A Filter request calling the subscriber: the TTL it read from the event
\* and stripped from the outbound copy, and whether the trigger has a
\* dead-letter sink.
DispatchRecord(d) ==
    [stage |-> "dispatch", ttl |-> d.msg.ttl, dls |-> d.trig \in WithDLS]

\* A delivery reaches /triggers/<ns>/<name>/<uid>: check it and call the
\* subscriber, or answer at once.  A delivery identical to one in progress
\* waits for it.
FilterReceive(d) ==
    /\ d \in dlv
    /\ d \notin DOMAIN filter
    /\ \E snap \in PinFeatures, token \in Tokens :
         filter' = IF FilterVerdict(d.trig, d.uid, d.msg, snap.oidc, token) = Pass
                     THEN Put(filter, d, DispatchRecord(d))
                     ELSE filter
    /\ dlv' = dlv \ {d}
    /\ UNCHANGED <<trig, subs, ingress, chan, replies, admitted>>

\* Request d is answered with status s and ends.
Answer(d, s) == filter' = [k \in DOMAIN filter \ {d} |-> filter[k]]

\* The reply event of type ty to request d, as the Filter returns it in its
\* response: with the TTL the request came in with put back on it (the
\* test's "The TTL will be added again"), one broker hop further down its
\* chain.
ReplyOf(d, ty) ==
    [ev |-> d.msg.ev, type |-> ty, ttl |-> filter[d].ttl, hops |-> d.msg.hops + 1]

\* The subscriber answers: an empty 2xx, a reply event (returned in the
\* Filter's response, from which the channel takes it to its Reply leg), a
\* 2xx body that is no event, or a failure (to the dead-letter sink when
\* there is one).  Replies are explored up to MaxReplyHops down a chain.
SubscriberRespond(d) ==
    /\ d \in DOMAIN filter
    /\ filter[d].stage = "dispatch"
    /\ \/ /\ \E s \in EmptyReplyStatuses : Answer(d, s)
          /\ UNCHANGED replies
       \/ /\ d.msg.hops < MaxReplyHops
          /\ \E ty \in Types : replies' = replies \cup {ReplyOf(d, ty)}
          /\ Answer(d, Accepted)
       \/ /\ Answer(d, BadGateway)
          /\ UNCHANGED replies
       \/ /\ \E s \in FailStatuses :
               IF filter[d].dls
                 THEN filter' = [filter EXCEPT ![d].stage = "deadletter"]
                 ELSE Answer(d, s)
          /\ UNCHANGED replies
    /\ UNCHANGED <<trig, subs, ingress, chan, dlv, admitted>>

\* The failed event, without TTL, goes to the dead-letter sink; the caller
\* sees the sink's status.
DeadLetter(d) ==
    /\ d \in DOMAIN filter
    /\ filter[d].stage = "deadletter"
    /\ \E s \in DLSOutcomes : Answer(d, s)
    /\ UNCHANGED <<trig, subs, ingress, chan, dlv, replies, admitted>>

-----------------------------------------------------------------------------
(* The config store, changed by the informers *)

\* A trigger is deleted, or re-created under its name with a fresh UID.
DeleteTrigger(t) ==
    /\ trig[t].live
    /\ trig' = [trig EXCEPT ![t].live = FALSE]
    /\ UNCHANGED <<subs, ingress, chan, dlv, filter, replies, admitted>>

RecreateTrigger(t) ==
    /\ ~trig[t].live
    /\ trig[t].gen < MaxGen
    /\ trig' = [trig EXCEPT ![t] = [gen |-> @.gen + 1, live |-> TRUE]]
    /\ UNCHANGED <<subs, ingress, chan, dlv, filter, replies, admitted>>

\* The channel's subscription for t catches up with the trigger.
ReconcileSubscription(t) ==
    /\ subs[t] # IF trig[t].live THEN trig[t].gen ELSE 0
    /\ subs' = [subs EXCEPT ![t] = IF trig[t].live THEN trig[t].gen ELSE 0]
    /\ UNCHANGED <<trig, ingress, chan, dlv, filter, replies, admitted>>

-----------------------------------------------------------------------------

Init ==
    /\ trig = [t \in Triggers |-> [gen |-> 1, live |-> TRUE]]
    /\ subs = [t \in Triggers |-> 1]
    /\ ingress = [e \in Events |-> IdleRequest]
    /\ chan = {}
    /\ dlv = {}
    /\ filter = [d \in {} |-> [stage |-> "dispatch", ttl |-> 0, dls |-> FALSE]]
    /\ replies = {}
    /\ admitted = [e \in Events |-> 0]

IngressStep ==
    \/ \E e \in Events : IngressForward(e)
    \/ \E r \in replies : IngressReply(r)
ChannelStep == \E m \in chan : Fanout(m)
FilterStep ==
    \/ \E d \in dlv : FilterReceive(d)
    \/ \E d \in DOMAIN filter : SubscriberRespond(d) \/ DeadLetter(d)

Environment ==
    \/ \E e \in Events : IngressReceive(e)
    \/ \E t \in Triggers :
         DeleteTrigger(t) \/ RecreateTrigger(t) \/ ReconcileSubscription(t)

Next == IngressStep \/ ChannelStep \/ FilterStep \/ Environment

Spec == Init /\ [][Next]_vars

-----------------------------------------------------------------------------
(* Properties *)

\* Type invariant: trigger generations stay within MaxGen, messages carry
\* the knativebrokerttl extension as the integer >= 0 of spec section 3,
\* deliveries name existing UIDs.
TypeOK ==
    /\ trig \in [Triggers -> [gen: 1 .. MaxGen, live: BOOLEAN]]
    /\ subs \in [Triggers -> 0 .. MaxGen]
    /\ ingress \in [Events -> IngressRecord]
    /\ chan \subseteq Msg
    /\ dlv \subseteq Delivery
    /\ DOMAIN filter \subseteq Delivery
    /\ filter \in [DOMAIN filter -> FilterRecord]
    /\ replies \subseteq Msg
    /\ admitted \in [Events -> Int]

\* The messages the Ingress has put on the channel, on their way to the
\* Filter handlers.
InTransit == chan \cup {d.msg : d \in dlv}

\* Spec sections 3 and 8 and the glossary: the TTL is decremented once per
\* broker hop, which bounds loops; so a chain of subscriber replies that
\* re-enter the broker crosses it fewer times than the TTL its producer
\* event was admitted with.  Checked against the Filter returning the
\* reply with the incoming TTL and the Ingress keeping a present TTL.
ReplyChainBounded == \A m \in InTransit : m.hops < admitted[m.ev]

\* Spec sections 3 and 8: every event the Ingress puts on the channel has a
\* TTL in [1, MaxTTL], and a producer's TTL is never taken over.
TTLWithinMaxTTL == \A m \in InTransit : m.ttl \in 1 .. MaxTTL

\* Spec section 4.3 step 3 and scenario 2 of section 8: an event whose TTL
\* is 1 or less is dropped by the Filter and its subscriber is never
\* called.  Checked against the Filter the tests describe.
FilterDropsSpentTTL == \A d \in DOMAIN filter : d.msg.ttl > 1

=============================================================================
