--------------------------- MODULE OperatorRunner ----------------------------
(***************************************************************************)
(* operator.Runner (operator/runner.go): several Run calls share a webhook *)
(* server, a metrics server (operator/metrics_server.go) and the flag that *)
(* the health check reports.                                               *)
(*                                                                         *)
(* Each server is behind a SingletonRunner, of which this module keeps the *)
(* flag, the calls and the waiting goroutine; SingletonRunner.tla has the  *)
(* details.  The servers' contexts are never canceled: a server that has   *)
(* been started serves on.  sync.WaitGroup, http.ServeMux, the Prometheus  *)
(* registry and Go's maps are external: Wait panics when it finds the      *)
(* counter positive after it was woken, Handle when the pattern is there   *)
(* already, Register returns an error for a collector that it has, and a   *)
(* map that is written and accessed at a time may end the process.         *)
(***************************************************************************)
EXTENDS Naturals, FiniteSets

CONSTANTS
    Runs,       \* calls of Run, each with an app of its own
    Collecting, \* the calls whose apps have (the same) metrics collectors
    Hooked,     \* the calls whose apps have kinds with admission
    Kinds       \* those kinds, as entries of one of the server's three maps

ASSUME OperatorRunnerAssumption == Collecting \subseteq Runs /\ Hooked \subseteq Runs

VARIABLES
    options,     \* RunnerConfig: what is enabled, a subset of Options
    pc,          \* call -> where it is
    runningWG,   \* counter of the WaitGroup
    running,     \* the flag
    waiter,      \* the goroutine that waits to reset the flag
    todo,        \* call -> kinds not yet registered
    controllers, \* webhook server: kind -> the call whose app answers for it
    reading,     \* webhook server: a request is looking up its controller
    mux,         \* metrics server: the patterns that are registered
    collectors,  \* a metrics collector is registered
    at,          \* call -> server -> is its runnable in there, or out again?
    single,      \* server -> its SingletonRunner's flag and waiter
    panicked     \* a panic or a fatal error has ended the process

runnerVars == <<options, pc, runningWG, running, waiter, todo, controllers, reading, mux, collectors, at, single, panicked>>
flag == <<runningWG, running, waiter>>
webhooks == <<controllers, reading>>
metrics == <<mux, collectors>>
life == <<at, single>>

Servers == {"webhooks", "metrics"}

(* The exporter and the profiler, by the pattern they serve, and the        *)
(* webhook server.                                                          *)
Patterns == {"/metrics", "/debug/pprof"}
Options == Patterns \cup {"webhooks"}

Going(r, from, to) == ~panicked /\ pc[r] = from /\ pc' = [pc EXCEPT ![r] = to]

(* The app has been created.                                                *)
Start(r) ==
    /\ Going(r, "new", "added")
    /\ runningWG' = runningWG + 1
    /\ UNCHANGED <<options, running, waiter, todo, webhooks, metrics, life, panicked>>

(* Mutant of SetRunning: nobody waits to reset the flag.                     *)
MutSetRunning(r) ==
    /\ Going(r, "added", "register")
    /\ running' = TRUE
    /\ UNCHANGED <<options, runningWG, waiter, todo, webhooks, metrics, life, panicked>>

SetRunning(r) ==
    /\ Going(r, "added", "register")
    /\ running' = TRUE
    /\ waiter' = IF running THEN waiter ELSE "starting"
    /\ UNCHANGED <<options, runningWG, todo, webhooks, metrics, life, panicked>>

(* The goroutine: Wait blocks or not, is woken when the counter gets to 0,  *)
(* and returns; then the flag is reset.                                     *)
Wait ==
    /\ ~panicked
    /\ \/ /\ waiter = "starting"
          /\ waiter' = IF runningWG = 0 THEN "returned" ELSE "waiting"
          /\ UNCHANGED <<running, panicked>>
       \/ /\ waiter = "woken"
          /\ waiter' = "returned"
          /\ panicked' = (runningWG > 0)
          /\ UNCHANGED running
       \/ /\ waiter = "returned"
          /\ waiter' = "none"
          /\ running' = FALSE
          /\ UNCHANGED panicked
    /\ UNCHANGED <<options, pc, runningWG, todo, webhooks, metrics, life>>

(* AddValidatingAdmissionController and its like, kind by kind: an entry    *)
(* of a map, written without a lock.                                        *)
AddController(r) ==
    /\ Going(r, "register", "writing")
    /\ "webhooks" \in options /\ todo[r] # {}
    /\ panicked' \in {FALSE, reading \/ \E q \in Runs : pc[q] = "writing"}
    /\ UNCHANGED <<options, flag, todo, webhooks, metrics, life>>

(* The latest controller for a kind replaces the one before.                *)
Added(r) ==
    /\ Going(r, "writing", "register")
    /\ \E k \in todo[r] :
          /\ controllers' = [controllers EXCEPT ![k] = r]
          /\ todo' = [todo EXCEPT ![r] = @ \ {k}]
    /\ UNCHANGED <<options, flag, reading, metrics, life, panicked>>

(* The server, once started, begins or ends looking up the controller for a *)
(* request in the maps, again without a lock.                               *)
HandleRequest ==
    /\ ~panicked /\ \E r \in Runs : at[r]["webhooks"] # "none"
    /\ reading' = ~reading
    /\ panicked' \in {FALSE, ~reading /\ \E q \in Runs : pc[q] = "writing"}
    /\ UNCHANGED <<options, pc, flag, todo, controllers, metrics, life>>

(* All are there; or Run fails, as there is no server for them.             *)
Registered(r) ==
    /\ \/ todo[r] = {} /\ Going(r, "register", "metrics")
       \/ todo[r] # {} /\ "webhooks" \notin options /\ Going(r, "register", "done")
    /\ UNCHANGED <<options, flag, todo, webhooks, metrics, life, panicked>>

(* RegisterCollectors, which may refuse; RegisterMetricsHandler and         *)
(* RegisterProfilingHandlers.                                               *)
RegisterMetrics(r) ==
    LET collects == "/metrics" \in options /\ r \in Collecting
    IN  /\ \/ /\ collects /\ collectors
              /\ Going(r, "metrics", "done")
              /\ UNCHANGED <<mux, collectors, panicked>>
           \/ /\ ~(collects /\ collectors)
              /\ Going(r, "metrics", "running")
              /\ collectors' = (collectors \/ collects)
              /\ panicked' = (options \cap mux # {})
              /\ mux' = mux \cup (options \cap Patterns)
        /\ UNCHANGED <<options, flag, todo, webhooks, life>>

(* The servers that the call's MultiRunner runs.                            *)
ServersOf(r) == {"metrics"} \cup {s \in {"webhooks"} : r \in Hooked}

UsersOf(s) == {r \in Runs : at[r][s] = "in"}

Moves(r, s, from, to) ==
    ~panicked /\ pc[r] = "running" /\ at[r][s] = from /\ at' = [at EXCEPT ![r][s] = to]

(* Mutant of Join: every call registers the health handlers.               *)
MutJoin(r, s) ==
    /\ s \in ServersOf(r) /\ Moves(r, s, "none", "in")
    /\ single' = [single EXCEPT ![s] = "started"]
    /\ panicked' = (s = "metrics" /\ "/livez" \in mux)
    /\ mux' = IF s = "metrics" THEN mux \cup {"/livez", "/readyz"} ELSE mux
    /\ UNCHANGED <<options, pc, flag, todo, webhooks, collectors>>

(* The SingletonRunner is run: the call joins the server that is there, or  *)
(* starts it, and the metrics server registers its health handlers each     *)
(* time it is started.                                                      *)
Join(r, s) ==
    /\ s \in ServersOf(r) /\ Moves(r, s, "none", "in")
    /\ IF single[s] # "idle" THEN UNCHANGED <<single, mux, panicked>>
       ELSE /\ single' = [single EXCEPT ![s] = "started"]
            /\ panicked' = (s = "metrics" /\ "/livez" \in mux)
            /\ mux' = IF s = "metrics" THEN mux \cup {"/livez", "/readyz"} ELSE mux
    /\ UNCHANGED <<options, pc, flag, todo, webhooks, collectors>>

(* The SingletonRunner returns, as the call's context is canceled, another  *)
(* of its runners or the server has failed; the last one wakes the waiter,  *)
(* if it has got to its Wait.  The call's other runners may run on.         *)
LeaveServer(r, s) ==
    /\ Moves(r, s, "in", "out")
    /\ \/ UNCHANGED single
       \/ /\ single[s] = "started" /\ UsersOf(s) = {r}
          /\ single' = [single EXCEPT ![s] = "woken"]
    /\ UNCHANGED <<options, pc, flag, todo, webhooks, metrics, panicked>>

(* The SingletonRunner's waiter: Wait finds nobody, or was woken and        *)
(* returns; then the SingletonRunner's flag is reset.                       *)
ServerWait(s) ==
    /\ ~panicked
    /\ \/ /\ single[s] = "started" /\ UsersOf(s) = {}
          /\ single' = [single EXCEPT ![s] = "passed"]
          /\ UNCHANGED panicked
       \/ /\ single[s] = "woken"
          /\ single' = [single EXCEPT ![s] = "passed"]
          /\ panicked' = (UsersOf(s) # {})
       \/ /\ single[s] = "passed"
          /\ single' = [single EXCEPT ![s] = "idle"]
          /\ UNCHANGED panicked
    /\ UNCHANGED <<options, pc, flag, todo, webhooks, metrics, at>>

(* All runners of the MultiRunner have returned, the app's among them.      *)
EndRun(r) ==
    /\ Going(r, "running", "done")
    /\ \A s \in ServersOf(r) : at[r][s] = "out"
    /\ UNCHANGED <<options, flag, todo, webhooks, metrics, life, panicked>>

(* The deferred Done, which wakes the goroutine if it is the last.          *)
Done(r) ==
    /\ Going(r, "done", "returned")
    /\ runningWG' = runningWG - 1
    /\ waiter' = IF runningWG = 1 /\ waiter = "waiting" THEN "woken" ELSE waiter
    /\ UNCHANGED <<options, running, todo, webhooks, metrics, life, panicked>>

RunnerInit ==
    /\ options \in SUBSET Options
    /\ pc = [r \in Runs |-> "new"]
    /\ runningWG = 0 /\ running = FALSE /\ waiter = "none"
    /\ todo = [r \in Runs |-> IF r \in Hooked THEN Kinds ELSE {}]
    /\ controllers = [k \in Kinds |-> "none"] /\ reading = FALSE
    /\ mux = {} /\ collectors = FALSE
    /\ at = [r \in Runs |-> [s \in Servers |-> "none"]]
    /\ single = [s \in Servers |-> "idle"]
    /\ panicked = FALSE

RunnerNext ==
    \/ Wait \/ HandleRequest
    \/ \E r \in Runs : \/ Start(r) \/ SetRunning(r) \/ AddController(r) \/ Added(r) \/ Registered(r)
                       \/ RegisterMetrics(r) \/ EndRun(r) \/ Done(r)
    \/ \E s \in Servers : ServerWait(s) \/ \E r \in Runs : Join(r, s) \/ LeaveServer(r, s)

(* Goroutines that can go on do so; when, and whether, a call is made, its  *)
(* context canceled or an app's runner ends is not the Runner's business.   *)
RunnerFairness ==
    /\ WF_runnerVars(Wait)
    /\ \A r \in Runs : WF_runnerVars(SetRunning(r) \/ AddController(r) \/ Added(r) \/ Registered(r)
                                     \/ RegisterMetrics(r) \/ Done(r))
    /\ \A s \in Servers : WF_runnerVars(ServerWait(s)) /\ \A r \in Runs : WF_runnerVars(Join(r, s))

RunnerSpec == RunnerInit /\ [][RunnerNext]_runnerVars /\ RunnerFairness

-----------------------------------------------------------------------------
Begun == {r \in Runs : pc[r] # "new"}

(* These are all the ways in which calls that share a Runner can end the    *)
(* process: a second call with the exporter or the profiler enabled; two    *)
(* calls that register at the same webhook server, with its maps; and a     *)
(* call that comes when another one has left a server, while the rest of    *)
(* its runners may still be draining, or has returned.  Else calls that     *)
(* overlap share the Runner safely.                                         *)
PanicsOnlyOnReuse ==
    panicked => \/ options \cap Patterns # {} /\ Cardinality(Begun) > 1
                \/ "webhooks" \in options /\ Cardinality(Begun \cap Hooked) > 1
                \/ \E r \in Runs : pc[r] = "returned" \/ \E s \in Servers : at[r][s] = "out"

(* When all the calls have returned, the health check stops reporting the   *)
(* Runner as running.                                                       *)
FlagReset == (\A r \in Runs : pc[r] = "returned") ~> ~running \/ panicked

-----------------------------------------------------------------------------
(* What the documentation says.                                             *)

(* "Webserver components of Run (such as webhooks and the prometheus        *)
(* exporter) will remain running so long as at least one Run() call is      *)
(* still active."                                                           *)
ServersRemain == (\E r \in Runs : pc[r] = "running") => ~panicked

=============================================================================
