------------------------ MODULE AddressablePollProofs ------------------------
(***************************************************************************)
(* Proof that a failed IsAddressable always reports a reason, for every   *)
(* poll budget and every number of transient API errors.                  *)
(***************************************************************************)
EXTENDS AddressablePoll, TLAPS

\* FailureReported is not inductive by itself: a poll still running after
\* a condition call must already have set lastError, because the timeout
\* that ends it sets nothing.  Every call that does not end the poll with
\* success sets lastError, and the timeout comes only after a call, since
\* MaxPolls is positive.
ReportInv ==
    /\ TypeOK
    /\ FailureReported
    /\ (result = "polling" /\ polls > 0) => lastError # "nil"

\* One condition call keeps ReportInv: it either succeeds or records why
\* it did not.
LEMMA ConditionReport ==
    ASSUME ReportInv, Condition PROVE ReportInv'
<1>1. PICK a \in Address :
        /\ apiErrors' = IF a = "other" THEN apiErrors + 1 ELSE apiErrors
        /\ lastError' = IF a = "addr" THEN lastError ELSE a
        /\ result' = IF a = "addr" THEN "ok"
                      ELSE IF a = "other" THEN "error" ELSE "polling"
  BY DEF Condition
<1>2. /\ polls < MaxPolls /\ polls' = polls + 1 /\ res' = res
  BY DEF Condition
<1>3. Address \subseteq {"notfound", "noaddr", "addr", "other"}
  BY DEF Address
<1>4. a = "other" => apiErrors < MaxApiErrors
  BY DEF Address
<1>5. TypeOK'
  BY <1>1, <1>2, <1>3, <1>4, PollBounds DEF ReportInv, TypeOK
<1>6. QED
  BY <1>1, <1>2, <1>3, <1>5 DEF ReportInv, FailureReported

\* Every step keeps ReportInv.
LEMMA NextReport == ReportInv /\ [Next]_vars => ReportInv'
<1> SUFFICES ASSUME ReportInv, [Next]_vars PROVE ReportInv'
  OBVIOUS
<1>1. CASE Condition
  BY <1>1, ConditionReport
<1>2. CASE Timeout
  <2>1. polls = MaxPolls /\ MaxPolls > 0
    BY <1>2, PollBounds DEF Timeout
  <2>2. QED
    BY <1>2, <2>1 DEF Timeout, ReportInv, TypeOK, FailureReported
<1>3. CASE Reconcile
  BY <1>3 DEF Reconcile, ReportInv, TypeOK, FailureReported
<1>4. CASE UNCHANGED vars
  BY <1>4 DEF vars, ReportInv, TypeOK, FailureReported
<1>5. QED
  BY <1>1, <1>2, <1>3, <1>4 DEF Next

\* A failed IsAddressable step always says why: for every poll budget and
\* however many transient errors the API server returns, when the poll
\* ends by its timeout or by an error, lastError holds the outcome of a
\* condition call that did not succeed (steps.go lines 72-82).
THEOREM FailureAlwaysReported == Spec => []FailureReported
<1>1. Init => ReportInv
  BY PollBounds DEF Init, ReportInv, TypeOK, FailureReported
<1>2. ReportInv => FailureReported
  BY DEF ReportInv
<1>3. QED
  BY <1>1, <1>2, NextReport, PTL DEF Spec
=============================================================================
