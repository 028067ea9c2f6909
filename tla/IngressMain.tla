----------------------------- MODULE IngressMain -----------------------------
(***************************************************************************)
(* main() of the broker Ingress (cmd/broker/ingress/main.go): the startup  *)
(* sequence, the feature-flag callback that installs the EventType         *)
(* auto-create handler, and the requests that read that handler once the  *)
(* servers run.  Three goroutines share the handler's EvenTypeHandler      *)
(* field: main (line 212), the ConfigMap watcher that runs the feature     *)
(* store's callback (line 158), and the request goroutines that read it.   *)
(*                                                                         *)
(* Startup steps that may fail end the process with log.Fatal or          *)
(* logger.Fatal, i.e. os.Exit: the deferred flush and exporter shutdown   *)
(* do not run.  A step's failure is a nondeterministic input.             *)
(*                                                                         *)
(* Data: the feature flag EventTypeAutoCreate in the features ConfigMap   *)
(* (cm), the value the feature store holds (store), and the field         *)
(* EvenTypeHandler ("nil" or "set").  racy records that the field's last  *)
(* write came from the watcher goroutine after Start returned, with no    *)
(* happens-before edge to any request goroutine.                          *)
(***************************************************************************)
EXTENDS Naturals

VARIABLES
    pc,         \* the statement main() is at
    cm,         \* EventTypeAutoCreate is enabled in the features ConfigMap
    store,      \* the feature store's current value of the flag
    cb,         \* a store update whose callback has not returned yet
    eth,        \* handler.EvenTypeHandler
    racy,       \* eth was last written without synchronisation with requests
    seen,       \* what the request goroutines have read of eth
    deferred,   \* the deferred calls registered so far
    flushed     \* the deferred flush and exporter shutdown have run

vars == <<pc, cm, store, cb, eth, racy, seen, deferred, flushed>>

Steps == {"env", "setup", "handler", "watch", "autocreate", "informers",
          "serve", "exited"}

\* What a request may read of EvenTypeHandler: nil, the installed handler,
\* or the pointer without the stores to its fields (an unsynchronised
\* publication under the Go memory model).
Reads == {"nil", "set", "partial"}

TypeOK ==
    /\ pc \in Steps
    /\ cm \in BOOLEAN /\ store \in BOOLEAN
    /\ cb \in [busy : BOOLEAN, val : BOOLEAN]
    /\ eth \in {"nil", "set"} /\ racy \in BOOLEAN
    /\ seen \subseteq Reads
    /\ deferred \subseteq {"flush", "shutdown"}
    /\ flushed \in BOOLEAN

Init ==
    /\ pc = "env"
    /\ cm \in BOOLEAN
    /\ store = FALSE                        \* an empty store: flag defaults off
    /\ cb = [busy |-> FALSE, val |-> FALSE]
    /\ eth = "nil" /\ racy = FALSE
    /\ seen = {}
    /\ deferred = {}
    /\ flushed = FALSE

\* log.Fatal / logger.Fatal: os.Exit(1), deferred calls are skipped.
Fatal == pc' = "exited" /\ UNCHANGED flushed

Goto(from, to) == pc = from /\ pc' = to

\* envconfig.Process and the MaxTTL <= 0 check.
ProcessEnv ==
    /\ pc = "env"
    /\ \/ Fatal                               \* env error, or MaxTTL <= 0
       \/ pc' = "setup"
    /\ UNCHANGED <<cm, store, cb, eth, racy, seen, deferred, flushed>>

\* Informers, logging config (fatal on error), defer flush, observability
\* (OrDie), the deferred exporter shutdown, the watchers and the feature
\* store with its callback.
Setup ==
    /\ pc = "setup"
    /\ \/ Fatal /\ UNCHANGED deferred          \* GetLoggingConfig fails
       \/ Fatal /\ deferred' = {"flush"}        \* SetupObservabilityOrDie dies
       \/ pc' = "handler" /\ deferred' = {"flush", "shutdown"}
    /\ UNCHANGED <<cm, store, cb, eth, racy, seen, flushed>>

\* ingress.NewHandler and ingress.NewServerManager, each fatal on error;
\* from here on handler != nil.
BuildHandler ==
    /\ pc = "handler"
    /\ \/ Fatal
       \/ pc' = "watch"
    /\ UNCHANGED <<cm, store, cb, eth, racy, seen, deferred, flushed>>

\* configMapWatcher.Start: the informer runs from now on.  On success the
\* initial ConfigMap has been stored and its callback has run before Start
\* returns; a failure (a watched ConfigMap missing) is only a warning and
\* leaves the store empty.
StartWatcher ==
    /\ Goto("watch", "autocreate")
    /\ \/ /\ store' = cm
          /\ eth' = IF cm THEN "set" ELSE eth
          /\ racy' = (racy /\ ~cm)
       \/ UNCHANGED <<store, eth, racy>>
    /\ UNCHANGED <<cm, cb, seen, deferred, flushed>>

\* if featureStore.IsEnabled(EvenTypeAutoCreate) { handler.EvenTypeHandler = ... }
AutoCreateCheck ==
    /\ Goto("autocreate", "informers")
    /\ eth' = IF store THEN "set" ELSE eth
    /\ racy' = (racy /\ ~store)
    /\ UNCHANGED <<cm, store, cb, seen, deferred, flushed>>

\* controller.StartInformers, fatal when they do not sync.
StartInformers ==
    /\ pc = "informers"
    /\ \/ Fatal
       \/ pc' = "serve"
    /\ UNCHANGED <<cm, store, cb, eth, racy, seen, deferred, flushed>>

\* The deferred calls, run in reverse order when main returns.
RunDeferred == flushed' = (deferred = {"flush", "shutdown"})

\* serverManager.StartServers blocks until the servers stop: nil on a
\* graceful shutdown (main returns, the defers run), an error otherwise.
StartServers ==
    /\ pc = "serve"
    /\ \/ Fatal
       \/ pc' = "exited" /\ RunDeferred
    /\ UNCHANGED <<cm, store, cb, eth, racy, seen, deferred>>

\* Mutant: the callback is handed the value the store held before the update.
DeliverStale ==
    /\ pc \notin {"env", "setup", "handler", "watch", "exited"}
    /\ ~cb.busy /\ store # cm
    /\ store' = cm
    /\ cb' = [busy |-> TRUE, val |-> store]
    /\ UNCHANGED <<pc, cm, eth, racy, seen, deferred, flushed>>

\* Mutant: the watcher is stopped once the servers start (Start given a
\* stop channel closed at the end of startup): no update is delivered.
DeliverStopped ==
    /\ pc \notin {"env", "setup", "handler", "watch", "serve", "exited"}
    /\ ~cb.busy /\ store # cm
    /\ store' = cm
    /\ cb' = [busy |-> TRUE, val |-> cm]
    /\ UNCHANGED <<pc, cm, eth, racy, seen, deferred, flushed>>

\* The watcher's informer delivers a changed features ConfigMap: the store
\* keeps the new value, then calls the callback, one event at a time.
Deliver ==
    /\ pc \notin {"env", "setup", "handler", "watch", "exited"}
    /\ ~cb.busy /\ store # cm
    /\ store' = cm
    /\ cb' = [busy |-> TRUE, val |-> cm]
    /\ UNCHANGED <<pc, cm, eth, racy, seen, deferred, flushed>>

\* The feature store's callback, in the watcher goroutine.  handler and
\* featureStore are non-nil once the watcher runs.
FeatureCallback ==
    /\ pc # "exited" /\ cb.busy
    /\ IF cb.val THEN eth' = "set" /\ racy' = TRUE
                 ELSE UNCHANGED <<eth, racy>>
    /\ cb' = [busy |-> FALSE, val |-> cb.val]
    /\ UNCHANGED <<pc, cm, store, seen, deferred, flushed>>

\* A request goroutine reads handler.EvenTypeHandler.
Request ==
    /\ pc = "serve"
    /\ \E r \in IF eth = "nil" THEN {"nil"}
                ELSE IF racy THEN Reads ELSE {"set"} :
         seen' = seen \cup {r}
    /\ UNCHANGED <<pc, cm, store, cb, eth, racy, deferred, flushed>>

\* An operator edits the features ConfigMap.
EditConfig ==
    /\ cm' = ~cm
    /\ UNCHANGED <<pc, store, cb, eth, racy, seen, deferred, flushed>>

Startup == ProcessEnv \/ Setup \/ BuildHandler \/ StartWatcher
           \/ AutoCreateCheck \/ StartInformers

Next == Startup \/ StartServers \/ Deliver \/ FeatureCallback \/ Request
        \/ EditConfig

\* main runs its startup to the end; the informer delivers every change
\* and the callback returns.  Serving ends only on a signal or an error,
\* and edits and requests come from outside: no fairness for those.
Spec == Init /\ [][Next]_vars
        /\ WF_vars(Startup) /\ WF_vars(Deliver) /\ WF_vars(FeatureCallback)

-----------------------------------------------------------------------------
(* Properties *)

\* Once main is past its own check (line 205) and no callback is pending,
\* an enabled flag in the store means the auto-create handler is
\* installed: the check at line 205 and the callback at line 158 together
\* leave no window in which a store update is lost.
AutoCreateInstalledWhenEnabled ==
    (pc \in {"informers", "serve"} /\ store /\ ~cb.busy) => eth = "set"

\* If the flag ends up enabled for good, the running Ingress eventually
\* has the auto-create handler installed (callback at line 158).
AutoCreateEventuallyInstalled ==
    <>[]cm => <>[](pc = "serve" => eth = "set")

\* A request never sees the auto-create handler half-published: the write
\* at line 158, in the watcher goroutine, is ordered before every read.
NoPartialHandlerRead == "partial" \notin seen
=============================================================================
