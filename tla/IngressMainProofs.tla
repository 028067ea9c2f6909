-------------------------- MODULE IngressMainProofs --------------------------
(***************************************************************************)
(* Proof that main()'s auto-create check and the feature store's callback *)
(* together never lose an enabled EventTypeAutoCreate flag.               *)
(***************************************************************************)
EXTENDS IngressMain, TLAPS

\* The statements before configMapWatcher.Start.
BeforeWatch == {"env", "setup", "handler", "watch"}

\* The inductive strengthening: the store is empty until the watcher runs,
\* and a pending callback carries the value the store holds.
MainInv ==
    /\ TypeOK
    /\ pc \in BeforeWatch => ~store /\ ~cb.busy
    /\ cb.busy => store = cb.val
    /\ (pc \in {"autocreate", "informers", "serve"} /\ store /\ ~cb.busy)
         => eth = "set"

LEMMA InitMainInv == Init => MainInv
<1> SUFFICES ASSUME Init PROVE MainInv
  OBVIOUS
<1>1. TypeOK
  BY DEF Init, TypeOK, Steps
<1>2. QED
  BY <1>1 DEF Init, MainInv, BeforeWatch

\* Every step keeps MainInv.
LEMMA NextMainInv == MainInv /\ [Next]_vars => MainInv'
<1> SUFFICES ASSUME MainInv, [Next]_vars PROVE MainInv'
  OBVIOUS
<1>1. CASE ProcessEnv
  BY <1>1 DEF ProcessEnv, Fatal, MainInv, TypeOK, BeforeWatch, Steps
<1>2. CASE Setup
  BY <1>2 DEF Setup, Fatal, MainInv, TypeOK, BeforeWatch, Steps
<1>3. CASE BuildHandler
  BY <1>3 DEF BuildHandler, Fatal, MainInv, TypeOK, BeforeWatch, Steps
<1>4. CASE StartWatcher
  BY <1>4 DEF StartWatcher, Goto, MainInv, TypeOK, BeforeWatch, Steps
<1>5. CASE AutoCreateCheck
  BY <1>5 DEF AutoCreateCheck, Goto, MainInv, TypeOK, BeforeWatch, Steps
<1>6. CASE StartInformers
  BY <1>6 DEF StartInformers, Fatal, MainInv, TypeOK, BeforeWatch, Steps
<1>7. CASE StartServers
  BY <1>7 DEF StartServers, Fatal, RunDeferred, MainInv, TypeOK, BeforeWatch,
     Steps
<1>8. CASE Deliver
  BY <1>8 DEF Deliver, MainInv, TypeOK, BeforeWatch, Steps
<1>9. CASE FeatureCallback
  BY <1>9 DEF FeatureCallback, MainInv, TypeOK, BeforeWatch, Steps
<1>10. CASE Request
  <2>1. PICK r \in IF eth = "nil" THEN {"nil"}
                   ELSE IF racy THEN Reads ELSE {"set"} :
          seen' = seen \cup {r}
    BY <1>10 DEF Request
  <2>2. r \in Reads
    BY <2>1 DEF Reads
  <2>3. QED
    BY <1>10, <2>1, <2>2 DEF Request, MainInv, TypeOK, BeforeWatch, Steps
<1>11. CASE EditConfig
  BY <1>11 DEF EditConfig, MainInv, TypeOK, BeforeWatch, Steps
<1>12. CASE UNCHANGED vars
  BY <1>12 DEF vars, MainInv, TypeOK, BeforeWatch, Steps
<1>13. QED
  BY <1>1, <1>2, <1>3, <1>4, <1>5, <1>6, <1>7, <1>8, <1>9, <1>10, <1>11,
     <1>12 DEF Next, Startup

THEOREM MainInvInvariant == Spec => []MainInv
BY InitMainInv, NextMainInv, PTL DEF Spec

\* Once main is past its own check (line 205) and no callback is pending,
\* an enabled flag in the store means the auto-create handler is installed
\* (line 212 or the callback at line 158), whatever the order of the
\* watcher's events and main's steps.
THEOREM AutoCreateInstalled == Spec => []AutoCreateInstalledWhenEnabled
<1>1. MainInv => AutoCreateInstalledWhenEnabled
  BY DEF MainInv, AutoCreateInstalledWhenEnabled
<1>2. QED
  BY <1>1, MainInvInvariant, PTL
=============================================================================
