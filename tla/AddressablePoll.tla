--------------------------- MODULE AddressablePoll ---------------------------
(***************************************************************************)
(* The IsAddressable test step (vendor/knative.dev/reconciler-test/pkg/   *)
(* k8s/steps.go): wait.PollImmediate calls the condition at once and then *)
(* every interval until the timeout.  The condition resolves the          *)
(* resource's address: NotFound and a missing status.address keep polling *)
(* (lastError records why), an address ends the poll with success, any    *)
(* other error ends it at once.  A failed poll is t.Fatalf.               *)
(*                                                                         *)
(* The cluster, meanwhile, creates the resource and its controller sets   *)
(* its address; the API server may fail a GET (a transient error).        *)
(***************************************************************************)
EXTENDS Naturals

CONSTANTS
    MaxPolls,       \* condition calls before the timeout: timeout / interval + 1
    MaxApiErrors    \* transient GET errors the API server may return

ASSUME PollBounds == MaxPolls \in Nat \ {0} /\ MaxApiErrors \in Nat

VARIABLES
    res,        \* the resource: "absent", "noaddr" (no status.address.url), "ready"
    polls,      \* condition calls so far
    apiErrors,  \* transient errors returned so far
    lastError,  \* lastError of the step
    result      \* "polling", "ok", or the failure: "timeout" or "error"

vars == <<res, polls, apiErrors, lastError, result>>

TypeOK ==
    /\ res \in {"absent", "noaddr", "ready"}
    /\ polls \in 0 .. MaxPolls /\ apiErrors \in 0 .. MaxApiErrors
    /\ lastError \in {"nil", "notfound", "noaddr", "other"}
    /\ result \in {"polling", "ok", "timeout", "error"}

Init ==
    /\ res \in {"absent", "noaddr", "ready"}
    /\ polls = 0 /\ apiErrors = 0
    /\ lastError = "nil"
    /\ result = "polling"

\* NamespacedAddress: what one resolution returns.  A GET error is NotFound
\* while the resource is absent, or a transient error; a resource without
\* status.address.url gives (nil, nil).
Address ==
    {IF res = "absent" THEN "notfound" ELSE IF res = "noaddr" THEN "noaddr"
     ELSE "addr"}
    \cup (IF apiErrors < MaxApiErrors THEN {"other"} ELSE {})

\* Mutant: the missing-address branch returns without setting lastError.
ConditionNoAddrUnset ==
    /\ result = "polling" /\ polls < MaxPolls
    /\ polls' = polls + 1
    /\ \E a \in Address :
         /\ apiErrors' = IF a = "other" THEN apiErrors + 1 ELSE apiErrors
         /\ lastError' = IF a \in {"addr", "noaddr"} THEN lastError ELSE a
         /\ result' = IF a = "addr" THEN "ok"
                       ELSE IF a = "other" THEN "error"
                       ELSE "polling"
    /\ UNCHANGED res

\* One call of the poll condition.
Condition ==
    /\ result = "polling" /\ polls < MaxPolls
    /\ polls' = polls + 1
    /\ \E a \in Address :
         /\ apiErrors' = IF a = "other" THEN apiErrors + 1 ELSE apiErrors
         /\ lastError' = IF a = "addr" THEN lastError ELSE a
         /\ result' = IF a = "addr" THEN "ok"
                       ELSE IF a = "other" THEN "error"   \* return false, err
                       ELSE "polling"                     \* return false, nil
    /\ UNCHANGED res

\* The poll's timeout passes after its last condition call.
Timeout ==
    /\ result = "polling" /\ polls = MaxPolls
    /\ result' = "timeout"
    /\ UNCHANGED <<res, polls, apiErrors, lastError>>

\* The resource is created, then the controller sets its address.
Reconcile ==
    /\ result = "polling"
    /\ res' = IF res = "absent" THEN "noaddr" ELSE "ready"
    /\ res # "ready"
    /\ UNCHANGED <<polls, apiErrors, lastError, result>>

Next == Condition \/ Timeout \/ Reconcile

Spec == Init /\ [][Next]_vars

-----------------------------------------------------------------------------
(* Properties *)

\* IsAddressable fails only when the resource has not become addressable
\* within the time given (the doc comment of IsAddressable).
FailsOnlyOnTimeout == result # "error"

\* When the step fails, by a timeout or by an error, t.Fatalf reports why
\* the last condition call did not succeed: lastError is set, whichever
\* mix of NotFound, missing addresses and transient errors the poll saw.
FailureReported == result \in {"timeout", "error"} => lastError # "nil"
=============================================================================
