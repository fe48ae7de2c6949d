--------------------------- MODULE OperatorProofs ----------------------------
(***************************************************************************)
(* What an operator's Runner does with calls of Run that share it, what    *)
(* the MultiRunner it runs its parts with waits for, and what the app's    *)
(* admission makes of writes to an object.                                 *)
(***************************************************************************)
EXTENDS OperatorRunner, MultiRunner, Admission, FiniteSetTheorems, TLAPS

-----------------------------------------------------------------------------
(* MultiRunner.                                                            *)

(* A runner puts its error in the channel as its last act, so the errors   *)
(* in the channel are of runners that have exited: one that still has an   *)
(* error to send is not among them, and there is room for it.              *)
ErrsOfExited == \A r \in errs : runner[r] = "exited"

MultiInv ==
    /\ exitWait \in BOOLEAN /\ timedOut \in BOOLEAN
    /\ runner \in [Runners -> {"run", "failed", "locked", "exited"}]
    /\ errs \subseteq Runners
    /\ main \in {"select", "wait", "closing", "returned"}
    /\ ErrsOfExited
    /\ GracefulReturn

LEMMA MultiInitInv == Init => MultiInv
BY DEF Init, MultiInv, ErrsOfExited, GracefulReturn

LEMMA MultiNextInv == MultiInv /\ [Next]_vars => MultiInv'
<1> SUFFICES ASSUME MultiInv, [Next]_vars PROVE MultiInv'
    OBVIOUS
<1> USE DEF MultiInv, ErrsOfExited, GracefulReturn
<1>1. CASE CtxDone \/ UNCHANGED vars
    BY <1>1 DEF CtxDone, vars
<1>2. CASE Receive
    BY <1>2 DEF Receive
<1>3. CASE OnCtxDone
    BY <1>3 DEF OnCtxDone
<1>4. CASE AllExited
    BY <1>4 DEF AllExited
<1>5. CASE Timeout
    BY <1>5 DEF Timeout
<1>6. CASE Close
    BY <1>6 DEF Close
<1>7. ASSUME NEW r \in Runners, Return(r) PROVE MultiInv'
    BY <1>7 DEF Return
<1>8. ASSUME NEW r \in Runners, Acquire(r) PROVE MultiInv'
    BY <1>8 DEF Acquire
<1>9. ASSUME NEW r \in Runners, Deliver(r) PROVE MultiInv'
    BY <1>9 DEF Deliver
<1> QED
    BY <1>1, <1>2, <1>3, <1>4, <1>5, <1>6, <1>7, <1>8, <1>9 DEF Next

(* A set of runners that leaves one out is smaller than the channel.       *)
LEMMA RoomLeft ==
    ASSUME NEW S \in SUBSET Runners, NEW r \in Runners, r \notin S
    PROVE  Cardinality(S) < ErrsCap
<1>1. IsFiniteSet(Runners)
    BY MultiRunnerAssumption
<1>2. S \in SUBSET (Runners \ {r})
    OBVIOUS
<1>3. /\ IsFiniteSet(Runners \ {r})
      /\ Cardinality(Runners \ {r}) = Cardinality(Runners) - 1
    BY <1>1, FS_RemoveElement
<1>4. Cardinality(S) <= Cardinality(Runners \ {r})
    BY <1>2, <1>3, FS_Subset
<1>5. IsFiniteSet(S)
    BY <1>1, FS_Subset
<1>6. Cardinality(S) \in Nat /\ Cardinality(Runners) \in Nat
    BY <1>1, <1>5, FS_CardinalityType
<1> QED
    BY <1>3, <1>4, <1>6 DEF ErrsCap

(* However many runners fail and whenever, no goroutine blocks on the      *)
(* channel while it holds errsClosedMux, which Run needs to return; and    *)
(* Run does not return before the runners unless ExitWait ran out.         *)
THEOREM RunWaitsAndIsNotHeldUp == Spec => []WaitsForRunners
<1>1. MultiInv => WaitsForRunners
    <2> SUFFICES ASSUME MultiInv PROVE WaitsForRunners
        OBVIOUS
    <2>1. ASSUME NEW r \in Runners, runner[r] \in {"failed", "locked"}
          PROVE  Cardinality(errs) < ErrsCap
        <3>1. errs \in SUBSET Runners /\ r \notin errs
            BY <2>1 DEF MultiInv, ErrsOfExited
        <3> QED
            BY <3>1, RoomLeft
    <2> QED
        BY <2>1 DEF MultiInv, WaitsForRunners, SendNeverBlocks
<1> QED
    BY <1>1, MultiInitInv, MultiNextInv, PTL DEF Spec

-----------------------------------------------------------------------------
(* The Runner: who woke a goroutine, registered a pattern, writes a map or *)
(* has started a server are calls that got that far.                       *)
Calls == {"new", "added", "register", "writing", "metrics", "running", "done", "returned"}

RunnerTypeOK ==
    /\ options \subseteq Options
    /\ pc \in [Runs -> Calls]
    /\ IsFiniteSet(Begun)
    /\ todo \in [Runs -> SUBSET Kinds]
    /\ at \in [Runs -> [Servers -> {"none", "in", "out"}]]
    /\ single \in [Servers -> {"idle", "started", "woken", "passed"}]
    /\ mux \subseteq Patterns \cup {"/livez", "/readyz"}

(* Only the calls with admission write the maps, or run the server that    *)
(* reads them.                                                             *)
MapInv ==
    /\ \A r \in Runs : todo[r] # {} => r \in Hooked
    /\ \A r \in Runs : pc[r] = "writing" => r \in Hooked /\ "webhooks" \in options
    /\ \A r \in Runs : at[r]["webhooks"] # "none" => r \in Hooked
    /\ reading => \E r \in Runs : at[r]["webhooks"] # "none"

(* A server that has been started, and whose SingletonRunner is past its   *)
(* Wait or ready to start another one, has been left by some call.         *)
ServerInv ==
    /\ \A r \in Runs : \A s \in Servers : at[r][s] # "none" => pc[r] \in {"running", "done", "returned"}
    /\ \A s \in Servers : single[s] # "idle" => \E r \in Runs : at[r][s] # "none"
    /\ \A s \in Servers : single[s] # "started" /\ (\E r \in Runs : at[r][s] # "none")
                             => \E r \in Runs : at[r][s] = "out"
    /\ "/livez" \in mux => \E r \in Runs : at[r]["metrics"] # "none"

RunnerInv ==
    /\ RunnerTypeOK
    /\ MapInv
    /\ ServerInv
    /\ waiter = "woken" => \E r \in Runs : pc[r] = "returned"
    /\ mux \cap Patterns # {} => \E r \in Runs : pc[r] \in {"running", "done", "returned"}
    /\ PanicsOnlyOnReuse

(* Two calls are more than one.                                            *)
LEMMA TwoCalls ==
    ASSUME NEW S, IsFiniteSet(S), NEW q \in S, NEW r \in S, q # r
    PROVE  Cardinality(S) > 1
<1>1. Cardinality({q}) = 1 /\ IsFiniteSet({q})
    BY FS_Singleton
<1>2. Cardinality({q} \cup {r}) = 2
    BY <1>1, FS_AddElement
<1>3. {q} \cup {r} \in SUBSET S
    OBVIOUS
<1>4. Cardinality({q} \cup {r}) <= Cardinality(S) /\ Cardinality(S) \in Nat
    BY <1>3, FS_Subset, FS_CardinalityType
<1> QED
    BY <1>2, <1>4

(* The calls get on, one at a time.                                        *)
LEMMA GoingOn ==
    ASSUME RunnerInv, NEW r \in Runs, NEW from \in Calls, NEW to \in Calls \ {"new"},
           Going(r, from, to)
    PROVE  /\ ~panicked
           /\ pc[r] = from /\ pc'[r] = to
           /\ pc' \in [Runs -> Calls]
           /\ \A q \in Runs \ {r} : pc'[q] = pc[q]
           /\ Begun' = Begun \cup {r}
           /\ IsFiniteSet(Begun')
<1>1. /\ pc[r] = from /\ pc' = [pc EXCEPT ![r] = to] /\ pc \in [Runs -> Calls] /\ ~panicked
    BY DEF Going, RunnerInv, RunnerTypeOK
<1>2. pc'[r] = to /\ pc' \in [Runs -> Calls] /\ \A q \in Runs \ {r} : pc'[q] = pc[q]
    BY <1>1
<1>3. Begun' = Begun \cup {r}
    BY <1>1, <1>2 DEF Begun
<1>4. IsFiniteSet(Begun')
    BY <1>3, FS_AddElement DEF RunnerInv, RunnerTypeOK
<1> QED
    BY <1>1, <1>2, <1>3, <1>4

LEMMA RunnerInitInv == RunnerInit => RunnerInv
<1> SUFFICES ASSUME RunnerInit PROVE RunnerInv
    OBVIOUS
<1>1. Begun = {}
    BY DEF RunnerInit, Begun
<1>2. IsFiniteSet(Begun)
    BY <1>1, FS_EmptySet
<1>3. ~panicked /\ ~reading
    BY DEF RunnerInit
<1>4. \A r \in Runs : pc[r] = "new" /\ (todo[r] # {} => r \in Hooked) /\ \A s \in Servers : at[r][s] = "none"
    BY DEF RunnerInit
<1>5. mux = {} /\ waiter = "none" /\ \A s \in Servers : single[s] = "idle"
    BY DEF RunnerInit
<1>6. RunnerTypeOK
    BY <1>2 DEF RunnerInit, RunnerTypeOK, Calls
<1>7. MapInv /\ ServerInv
    BY <1>3, <1>4, <1>5 DEF MapInv, ServerInv, Servers
<1> QED
    BY <1>3, <1>5, <1>6, <1>7 DEF RunnerInv, PanicsOnlyOnReuse

(* A step of a call before or after it runs the servers.                   *)
LEMMA CallStep ==
    ASSUME RunnerInv, NEW r \in Runs, NEW from \in Calls, NEW to \in Calls \ {"new"}, Going(r, from, to),
           from \in {"running", "done", "returned"} => to \in {"done", "returned"},
           from # "returned",
           options' = options, at' = at, single' = single, reading' = reading,
           todo' \in [Runs -> SUBSET Kinds], \A q \in Runs : todo'[q] \subseteq todo[q],
           to = "writing" => r \in Hooked /\ "webhooks" \in options,
           mux' \subseteq mux \cup Patterns, mux' = mux \/ to = "running",
           waiter' = "woken" => waiter = "woken" \/ to = "returned",
           PanicsOnlyOnReuse'
    PROVE  RunnerInv'
<1>1. /\ pc[r] = from /\ pc'[r] = to /\ pc' \in [Runs -> Calls]
      /\ \A q \in Runs \ {r} : pc'[q] = pc[q]
      /\ IsFiniteSet(Begun')
    BY GoingOn
<1>2. /\ RunnerTypeOK /\ MapInv /\ ServerInv
    BY DEF RunnerInv
<1>3. RunnerTypeOK'
    BY <1>1, <1>2 DEF RunnerTypeOK
<1>4. \A q \in Runs : pc[q] \in {"running", "done", "returned"} => pc'[q] \in {"running", "done", "returned"}
    BY <1>1
<1>5. \A q \in Runs : pc[q] = "returned" => pc'[q] = "returned"
    BY <1>1
<1>6. MapInv'
    BY <1>1, <1>2 DEF MapInv
<1>7. ServerInv'
    <2>1. "/livez" \in mux' => "/livez" \in mux
        BY DEF Patterns
    <2> QED
        BY <1>2, <1>4, <2>1 DEF ServerInv
<1>8. waiter' = "woken" => \E q \in Runs : pc'[q] = "returned"
    BY <1>1, <1>5 DEF RunnerInv
<1>9. mux' \cap Patterns # {} => \E q \in Runs : pc'[q] \in {"running", "done", "returned"}
    <2>1. CASE mux' = mux
        BY <1>4, <2>1 DEF RunnerInv
    <2>2. CASE to = "running"
        BY <1>1, <2>2
    <2> QED
        BY <2>1, <2>2
<1> QED
    BY <1>3, <1>6, <1>7, <1>8, <1>9 DEF RunnerInv

(* The steps of a call that cannot panic.                                  *)
LEMMA QuietInv ==
    ASSUME RunnerInv, NEW r \in Runs,
           Start(r) \/ SetRunning(r) \/ Added(r) \/ Registered(r) \/ EndRun(r) \/ Done(r)
    PROVE  RunnerInv'
<1>1. /\ options' = options /\ at' = at /\ single' = single /\ reading' = reading /\ mux' = mux
      /\ (panicked' <=> panicked)
    BY DEF Start, SetRunning, Added, Registered, EndRun, Done, webhooks, metrics, life, flag
<1>2. ~panicked
    BY DEF Start, SetRunning, Added, Registered, EndRun, Done, Going
<1>3. PanicsOnlyOnReuse'
    BY <1>1, <1>2 DEF PanicsOnlyOnReuse
<1>4. todo' \in [Runs -> SUBSET Kinds] /\ \A q \in Runs : todo'[q] \subseteq todo[q]
    <2>1. todo \in [Runs -> SUBSET Kinds]
        BY DEF RunnerInv, RunnerTypeOK
    <2>2. CASE Added(r)
        <3>1. PICK k \in todo[r] : todo' = [todo EXCEPT ![r] = @ \ {k}]
            BY <2>2 DEF Added
        <3> QED
            BY <2>1, <3>1
    <2>3. CASE ~Added(r)
        <3>1. todo' = todo
            BY <2>3 DEF Start, SetRunning, Registered, EndRun, Done
        <3> QED
            BY <2>1, <3>1
    <2> QED
        BY <2>2, <2>3
<1> DEFINE Step(from, to) ==
        /\ Going(r, from, to)
        /\ <<from, to>> \in {<<"new", "added">>, <<"added", "register">>, <<"writing", "register">>,
                              <<"register", "metrics">>, <<"register", "done">>, <<"running", "done">>,
                              <<"done", "returned">>}
        /\ waiter' = "woken" => waiter = "woken" \/ to = "returned"
<1>5. \E from \in Calls, to \in Calls \ {"new"} : Step(from, to)
    <2>1. CASE Start(r)
        BY <2>1 DEF Start, Calls
    <2>2. CASE SetRunning(r)
        BY <2>2 DEF SetRunning, Calls
    <2>3. CASE Added(r)
        BY <2>3 DEF Added, flag, Calls
    <2>4. CASE Registered(r)
        BY <2>4 DEF Registered, flag, Calls
    <2>5. CASE EndRun(r)
        BY <2>5 DEF EndRun, flag, Calls
    <2>6. CASE Done(r)
        BY <2>6 DEF Done, Calls
    <2> QED
        BY <2>1, <2>2, <2>3, <2>4, <2>5, <2>6
<1>6. PICK from \in Calls, to \in Calls \ {"new"} : Step(from, to)
    BY <1>5
<1>7. /\ from \in {"running", "done", "returned"} => to \in {"done", "returned"}
      /\ from # "returned" /\ to # "writing"
    BY <1>6
<1> QED
    BY <1>1, <1>3, <1>4, <1>6, <1>7, CallStep

(* A map is accessed while it is written only if two calls with admission  *)
(* have got that far.                                                      *)
LEMMA AddControllerInv == RunnerInv => \A r \in Runs : AddController(r) => RunnerInv'
<1> SUFFICES ASSUME RunnerInv, NEW r \in Runs, AddController(r) PROVE RunnerInv'
    OBVIOUS
<1>1. /\ options' = options /\ at' = at /\ single' = single /\ reading' = reading /\ mux' = mux
      /\ todo' = todo /\ waiter' = waiter
    BY DEF AddController, webhooks, metrics, life, flag
<1>2. /\ Going(r, "register", "writing") /\ "webhooks" \in options /\ todo[r] # {}
      /\ panicked' => reading \/ \E q \in Runs : pc[q] = "writing"
    BY DEF AddController
<1>3. /\ pc[r] = "register" /\ pc'[r] = "writing"
      /\ \A q \in Runs \ {r} : pc'[q] = pc[q]
      /\ Begun' = Begun \cup {r} /\ IsFiniteSet(Begun')
    BY <1>2, GoingOn DEF Calls
<1>4. todo \in [Runs -> SUBSET Kinds] /\ MapInv /\ ServerInv
    BY DEF RunnerInv, RunnerTypeOK
<1>5. r \in Hooked
    BY <1>2, <1>4 DEF MapInv
<1>6. PanicsOnlyOnReuse'
    <2> SUFFICES ASSUME panicked' PROVE PanicsOnlyOnReuse'
        BY DEF PanicsOnlyOnReuse
    <2>1. PICK q \in Runs : q \in Hooked /\ pc[q] \in {"writing", "running", "done", "returned"}
        <3>1. CASE reading
            <4>1. PICK q \in Runs : at[q]["webhooks"] # "none"
                BY <1>4, <3>1 DEF MapInv
            <4> QED
                BY <1>4, <4>1 DEF MapInv, ServerInv, Servers
        <3>2. CASE \E q \in Runs : pc[q] = "writing"
            BY <1>4, <3>2 DEF MapInv
        <3> QED
            BY <1>2, <3>1, <3>2
    <2>2. q # r /\ q \in Begun' \cap Hooked /\ r \in Begun' \cap Hooked
        BY <1>3, <1>5, <2>1 DEF Begun
    <2>3. IsFiniteSet(Begun' \cap Hooked)
        BY <1>3, FS_Intersection
    <2>4. Cardinality(Begun' \cap Hooked) > 1
        BY <2>2, <2>3, TwoCalls
    <2> QED
        BY <1>1, <1>2, <2>4 DEF PanicsOnlyOnReuse
<1> QED
    BY <1>1, <1>2, <1>4, <1>5, <1>6, CallStep DEF Calls

LEMMA HandleRequestInv == RunnerInv /\ HandleRequest => RunnerInv'
<1> SUFFICES ASSUME RunnerInv, HandleRequest PROVE RunnerInv'
    OBVIOUS
<1>1. /\ options' = options /\ at' = at /\ single' = single /\ mux' = mux /\ pc' = pc
      /\ todo' = todo /\ waiter' = waiter
    BY DEF HandleRequest, metrics, life, flag
<1>2. PICK r \in Runs : at[r]["webhooks"] # "none"
    BY DEF HandleRequest
<1>3. RunnerTypeOK /\ MapInv /\ ServerInv
    BY DEF RunnerInv
<1>4. Begun' = Begun /\ IsFiniteSet(Begun)
    BY <1>1, <1>3 DEF Begun, RunnerTypeOK
<1>5. PanicsOnlyOnReuse'
    <2> SUFFICES ASSUME panicked' PROVE PanicsOnlyOnReuse'
        BY DEF PanicsOnlyOnReuse
    <2>1. PICK q \in Runs : pc[q] = "writing"
        BY DEF HandleRequest
    <2>2. q \in Hooked /\ "webhooks" \in options
        BY <1>3, <2>1 DEF MapInv
    <2>3. r \in Hooked /\ pc[r] \in {"running", "done", "returned"}
        BY <1>2, <1>3 DEF MapInv, ServerInv, Servers
    <2>4. q # r /\ q \in Begun \cap Hooked /\ r \in Begun \cap Hooked
        BY <2>1, <2>2, <2>3 DEF Begun
    <2>5. IsFiniteSet(Begun \cap Hooked)
        BY <1>4, FS_Intersection
    <2>6. Cardinality(Begun \cap Hooked) > 1
        BY <2>4, <2>5, TwoCalls
    <2> QED
        BY <1>1, <1>4, <2>2, <2>6 DEF PanicsOnlyOnReuse
<1>6. RunnerTypeOK' /\ ServerInv'
    BY <1>1, <1>3, <1>4 DEF RunnerTypeOK, ServerInv
<1>7. MapInv'
    BY <1>1, <1>2, <1>3 DEF MapInv
<1> QED
    BY <1>1, <1>5, <1>6, <1>7 DEF RunnerInv

(* The goroutine finds the counter positive again only if the call that    *)
(* woke it has returned.                                                   *)
LEMMA WaitInv == RunnerInv /\ Wait => RunnerInv'
<1> SUFFICES ASSUME RunnerInv, Wait PROVE RunnerInv'
    OBVIOUS
<1>1. /\ pc' = pc /\ options' = options /\ at' = at /\ single' = single /\ mux' = mux
      /\ todo' = todo /\ reading' = reading
    BY DEF Wait, webhooks, metrics, life
<1>2. Begun' = Begun
    BY <1>1 DEF Begun
<1>3. waiter' # "woken"
    BY DEF Wait
<1>4. PanicsOnlyOnReuse'
    <2>1. CASE waiter = "woken"
        <3>1. PICK r \in Runs : pc[r] = "returned"
            BY <2>1 DEF RunnerInv
        <3> QED
            BY <3>1, <1>1 DEF PanicsOnlyOnReuse
    <2>2. CASE waiter # "woken"
        <3>1. ~panicked'
            BY <2>2 DEF Wait
        <3> QED
            BY <3>1 DEF PanicsOnlyOnReuse
    <2> QED
        BY <2>1, <2>2
<1>5. RunnerTypeOK' /\ MapInv' /\ ServerInv'
    BY <1>1, <1>2 DEF RunnerInv, RunnerTypeOK, MapInv, ServerInv
<1> QED
    BY <1>1, <1>3, <1>4, <1>5 DEF RunnerInv

(* A pattern is there already only if another call has registered it.      *)
LEMMA RegisterMetricsInv == RunnerInv => \A r \in Runs : RegisterMetrics(r) => RunnerInv'
<1> SUFFICES ASSUME RunnerInv, NEW r \in Runs, RegisterMetrics(r) PROVE RunnerInv'
    OBVIOUS
<1>1. /\ options' = options /\ at' = at /\ single' = single /\ reading' = reading
      /\ todo' = todo /\ waiter' = waiter
    BY DEF RegisterMetrics, webhooks, life, flag
<1>2. /\ options \subseteq Options /\ mux \subseteq Patterns \cup {"/livez", "/readyz"}
      /\ todo \in [Runs -> SUBSET Kinds]
    BY DEF RunnerInv, RunnerTypeOK
<1>3. PICK to \in {"running", "done"} :
        /\ Going(r, "metrics", to)
        /\ mux' = mux \/ to = "running"
    BY DEF RegisterMetrics
<1>4. /\ ~panicked /\ pc[r] = "metrics" /\ pc'[r] = to
      /\ \A q \in Runs \ {r} : pc'[q] = pc[q]
      /\ Begun' = Begun \cup {r} /\ IsFiniteSet(Begun')
    <2>1. "metrics" \in Calls /\ to \in Calls \ {"new"}
        BY DEF Calls
    <2> QED
        BY <1>3, <2>1, GoingOn
<1>5. mux' \subseteq mux \cup Patterns
    BY DEF RegisterMetrics
<1>6. PanicsOnlyOnReuse'
    <2> SUFFICES ASSUME panicked' PROVE PanicsOnlyOnReuse'
        BY DEF PanicsOnlyOnReuse
    <2>1. options \cap mux # {}
        BY <1>4 DEF RegisterMetrics
    <2>2. options \cap Patterns # {} /\ mux \cap Patterns # {}
        BY <2>1, <1>2 DEF Options, Patterns
    <2>3. PICK q \in Runs : pc[q] \in {"running", "done", "returned"}
        BY <2>2 DEF RunnerInv
    <2>4. q \in Begun' /\ r \in Begun' /\ q # r
        BY <2>3, <1>3, <1>4 DEF Begun
    <2>5. Cardinality(Begun') > 1
        BY <1>4, <2>4, TwoCalls
    <2> QED
        BY <2>2, <2>5, <1>1 DEF PanicsOnlyOnReuse
<1>7. "metrics" \in Calls /\ to \in Calls \ {"new"} /\ to # "writing"
    BY DEF Calls
<1> QED
    BY <1>1, <1>2, <1>3, <1>5, <1>6, <1>7, CallStep

(* What a call does at a server leaves the calls where they are.           *)
LEMMA ServerStep ==
    ASSUME RunnerInv,
           pc' = pc, options' = options, todo' = todo, reading' = reading, waiter' = waiter,
           at' \in [Runs -> [Servers -> {"none", "in", "out"}]],
           single' \in [Servers -> {"idle", "started", "woken", "passed"}],
           mux' \subseteq mux \cup {"/livez", "/readyz"},
           \A q \in Runs : \A s \in Servers :
              /\ at[q][s] # "none" => at'[q][s] # "none"
              /\ at'[q][s] # "none" => \/ at[q][s] # "none"
                                       \/ pc[q] = "running" /\ (s = "webhooks" => q \in Hooked),
           ServerInv', PanicsOnlyOnReuse'
    PROVE  RunnerInv'
<1>1. RunnerTypeOK /\ MapInv
    BY DEF RunnerInv
<1>2. Begun' = Begun
    BY DEF Begun
<1>3. RunnerTypeOK'
    BY <1>1, <1>2 DEF RunnerTypeOK
<1>4. MapInv'
    <2>1. \A q \in Runs : at'[q]["webhooks"] # "none" => q \in Hooked
        BY <1>1 DEF MapInv, Servers
    <2>2. reading' => \E q \in Runs : at'[q]["webhooks"] # "none"
        BY <1>1 DEF MapInv, Servers
    <2> QED
        BY <1>1, <2>1, <2>2 DEF MapInv
<1>5. mux' \cap Patterns # {} => mux \cap Patterns # {}
    BY DEF Patterns
<1> QED
    BY <1>3, <1>4, <1>5 DEF RunnerInv

(* A server is started again only when a call has left it.                 *)
LEMMA JoinInv == RunnerInv => \A r \in Runs, s \in Servers : Join(r, s) => RunnerInv'
<1> SUFFICES ASSUME RunnerInv, NEW r \in Runs, NEW s \in Servers, Join(r, s) PROVE RunnerInv'
    OBVIOUS
<1>1. /\ pc' = pc /\ options' = options /\ todo' = todo /\ reading' = reading /\ waiter' = waiter
    BY DEF Join, webhooks, flag
<1>2. /\ pc[r] = "running" /\ at[r][s] = "none" /\ at' = [at EXCEPT ![r][s] = "in"] /\ ~panicked
      /\ s = "webhooks" => r \in Hooked
    BY DEF Join, Moves, ServersOf
<1>3. /\ at \in [Runs -> [Servers -> {"none", "in", "out"}]]
      /\ single \in [Servers -> {"idle", "started", "woken", "passed"}]
      /\ ServerInv
    BY DEF RunnerInv, RunnerTypeOK
<1>4. /\ at' \in [Runs -> [Servers -> {"none", "in", "out"}]]
      /\ at'[r][s] = "in"
      /\ \A q \in Runs : \A t \in Servers : q # r \/ t # s => at'[q][t] = at[q][t]
    BY <1>2, <1>3
<1>5. \/ single[s] # "idle" /\ single' = single /\ mux' = mux /\ panicked' = panicked
      \/ /\ single[s] = "idle" /\ single' = [single EXCEPT ![s] = "started"]
         /\ panicked' = (s = "metrics" /\ "/livez" \in mux)
         /\ mux' = IF s = "metrics" THEN mux \cup {"/livez", "/readyz"} ELSE mux
    BY DEF Join
<1>6. /\ single' \in [Servers -> {"idle", "started", "woken", "passed"}]
      /\ \A t \in Servers : t # s => single'[t] = single[t]
      /\ single'[s] # "idle" /\ (single'[s] = single[s] \/ single'[s] = "started")
    BY <1>3, <1>5
<1>7. \A q \in Runs : \A t \in Servers : /\ at[q][t] # "none" => at'[q][t] # "none"
                                         /\ at[q][t] = "out" => at'[q][t] = "out"
    BY <1>2, <1>4
<1>8. ServerInv'
    <2>1. \A q \in Runs : \A t \in Servers : at'[q][t] # "none" => pc'[q] \in {"running", "done", "returned"}
        BY <1>1, <1>2, <1>3, <1>4 DEF ServerInv
    <2>2. ASSUME NEW t \in Servers, single'[t] # "idle" PROVE \E q \in Runs : at'[q][t] # "none"
        <3>1. CASE t = s
            BY <1>4, <3>1
        <3>2. CASE t # s
            BY <1>3, <1>6, <1>7, <2>2, <3>2 DEF ServerInv
        <3> QED
            BY <3>1, <3>2
    <2>3. ASSUME NEW t \in Servers, single'[t] # "started", NEW p \in Runs, at'[p][t] # "none"
          PROVE  \E q \in Runs : at'[q][t] = "out"
        <3>1. single[t] # "started" /\ \E q \in Runs : at[q][t] # "none"
            <4>1. CASE t = s
                <5>1. single[s] # "idle" /\ single[s] # "started"
                    BY <1>5, <1>6, <2>3, <4>1
                <5> QED
                    BY <1>3, <4>1, <5>1 DEF ServerInv
            <4>2. CASE t # s
                BY <1>4, <1>6, <2>3, <4>2
            <4> QED
                BY <4>1, <4>2
        <3>2. PICK q \in Runs : at[q][t] = "out"
            BY <1>3, <3>1 DEF ServerInv
        <3> QED
            BY <1>7, <3>2
    <2>4. "/livez" \in mux' => \E q \in Runs : at'[q]["metrics"] # "none"
        <3>1. CASE s = "metrics"
            BY <1>4, <3>1
        <3>2. CASE s # "metrics"
            <4>1. mux' = mux
                BY <1>5, <3>2
            <4> QED
                BY <1>3, <1>7, <4>1 DEF ServerInv, Servers
        <3> QED
            BY <3>1, <3>2
    <2> QED
        BY <2>1, <2>2, <2>3, <2>4 DEF ServerInv
<1>9. PanicsOnlyOnReuse'
    <2> SUFFICES ASSUME panicked' PROVE PanicsOnlyOnReuse'
        BY DEF PanicsOnlyOnReuse
    <2>1. s = "metrics" /\ single[s] = "idle" /\ "/livez" \in mux
        BY <1>2, <1>5
    <2>2. \E q \in Runs : at[q][s] # "none"
        BY <1>3, <2>1 DEF ServerInv
    <2>3. PICK q \in Runs : at[q][s] = "out"
        BY <1>3, <2>1, <2>2 DEF ServerInv
    <2> QED
        BY <1>7, <2>3 DEF PanicsOnlyOnReuse
<1>10. mux' \subseteq mux \cup {"/livez", "/readyz"}
    BY <1>5
<1>11. \A q \in Runs : \A t \in Servers :
          at'[q][t] # "none" => \/ at[q][t] # "none"
                                \/ pc[q] = "running" /\ (t = "webhooks" => q \in Hooked)
    BY <1>2, <1>4
<1> QED
    BY <1>1, <1>4, <1>6, <1>7, <1>8, <1>9, <1>10, <1>11, ServerStep

LEMMA LeaveServerInv == RunnerInv => \A r \in Runs, s \in Servers : LeaveServer(r, s) => RunnerInv'
<1> SUFFICES ASSUME RunnerInv, NEW r \in Runs, NEW s \in Servers, LeaveServer(r, s) PROVE RunnerInv'
    OBVIOUS
<1>1. /\ pc' = pc /\ options' = options /\ todo' = todo /\ reading' = reading /\ waiter' = waiter
      /\ mux' = mux
    BY DEF LeaveServer, webhooks, metrics, flag
<1>2. /\ at[r][s] = "in" /\ at' = [at EXCEPT ![r][s] = "out"] /\ ~panicked'
    BY DEF LeaveServer, Moves
<1>3. /\ at \in [Runs -> [Servers -> {"none", "in", "out"}]]
      /\ single \in [Servers -> {"idle", "started", "woken", "passed"}]
      /\ ServerInv
    BY DEF RunnerInv, RunnerTypeOK
<1>4. /\ at' \in [Runs -> [Servers -> {"none", "in", "out"}]]
      /\ at'[r][s] = "out"
      /\ \A q \in Runs : \A t \in Servers : q # r \/ t # s => at'[q][t] = at[q][t]
    BY <1>2, <1>3
<1>5. \A q \in Runs : \A t \in Servers : at'[q][t] # "none" <=> at[q][t] # "none"
    BY <1>2, <1>4
<1>6. single' = single \/ single' = [single EXCEPT ![s] = "woken"]
    BY DEF LeaveServer
<1>7. /\ single' \in [Servers -> {"idle", "started", "woken", "passed"}]
      /\ \A t \in Servers : t # s => single'[t] = single[t]
    BY <1>3, <1>6
<1>8. ServerInv'
    <2>1. ASSUME NEW t \in Servers, single'[t] # "idle" PROVE \E q \in Runs : at'[q][t] # "none"
        <3>1. CASE t = s
            BY <1>4, <3>1
        <3>2. CASE t # s
            BY <1>3, <1>5, <1>7, <2>1, <3>2 DEF ServerInv
        <3> QED
            BY <3>1, <3>2
    <2>2. ASSUME NEW t \in Servers, single'[t] # "started", NEW p \in Runs, at'[p][t] # "none"
          PROVE  \E q \in Runs : at'[q][t] = "out"
        <3>1. CASE t = s
            BY <1>4, <3>1
        <3>2. CASE t # s
            BY <1>3, <1>4, <1>7, <2>2, <3>2 DEF ServerInv
        <3> QED
            BY <3>1, <3>2
    <2> QED
        BY <1>1, <1>3, <1>5, <2>1, <2>2 DEF ServerInv, Servers
<1>9. PanicsOnlyOnReuse'
    BY <1>2 DEF PanicsOnlyOnReuse
<1> QED
    BY <1>1, <1>4, <1>5, <1>7, <1>8, <1>9, ServerStep

LEMMA ServerWaitInv == RunnerInv => \A s \in Servers : ServerWait(s) => RunnerInv'
<1> SUFFICES ASSUME RunnerInv, NEW s \in Servers, ServerWait(s) PROVE RunnerInv'
    OBVIOUS
<1>1. /\ pc' = pc /\ options' = options /\ todo' = todo /\ reading' = reading /\ waiter' = waiter
      /\ mux' = mux /\ at' = at
    BY DEF ServerWait, webhooks, metrics, flag
<1>2. /\ at \in [Runs -> [Servers -> {"none", "in", "out"}]]
      /\ single \in [Servers -> {"idle", "started", "woken", "passed"}]
      /\ ServerInv
    BY DEF RunnerInv, RunnerTypeOK
<1>3. /\ single[s] # "idle"
      /\ single[s] = "started" => UsersOf(s) = {}
      /\ single' = [single EXCEPT ![s] = "passed"] \/ single' = [single EXCEPT ![s] = "idle"]
    BY DEF ServerWait
<1>4. PICK q \in Runs : at[q][s] = "out"
    <2>1. PICK p \in Runs : at[p][s] # "none"
        BY <1>2, <1>3 DEF ServerInv
    <2>2. CASE single[s] = "started"
        BY <1>2, <1>3, <2>1, <2>2 DEF UsersOf
    <2>3. CASE single[s] # "started"
        BY <1>2, <2>1, <2>3 DEF ServerInv
    <2> QED
        BY <2>2, <2>3
<1>5. /\ single' \in [Servers -> {"idle", "started", "woken", "passed"}]
      /\ \A t \in Servers : t # s => single'[t] = single[t]
    BY <1>2, <1>3
<1>6. ServerInv'
    <2>1. ASSUME NEW t \in Servers, single'[t] # "idle" PROVE \E p \in Runs : at'[p][t] # "none"
        <3>1. single[t] # "idle"
            BY <1>3, <1>5, <2>1
        <3> QED
            BY <1>1, <1>2, <3>1 DEF ServerInv
    <2>2. ASSUME NEW t \in Servers, single'[t] # "started", NEW p \in Runs, at'[p][t] # "none"
          PROVE  \E x \in Runs : at'[x][t] = "out"
        <3>1. CASE t = s
            BY <1>1, <1>4, <3>1
        <3>2. CASE t # s
            BY <1>1, <1>2, <1>5, <2>2, <3>2 DEF ServerInv
        <3> QED
            BY <3>1, <3>2
    <2> QED
        BY <1>1, <1>2, <2>1, <2>2 DEF ServerInv
<1>7. PanicsOnlyOnReuse'
    BY <1>1, <1>4 DEF PanicsOnlyOnReuse
<1> QED
    BY <1>1, <1>2, <1>5, <1>6, <1>7, ServerStep

LEMMA RunnerNextInv == RunnerInv /\ [RunnerNext]_runnerVars => RunnerInv'
<1> SUFFICES ASSUME RunnerInv, [RunnerNext]_runnerVars PROVE RunnerInv'
    OBVIOUS
<1>1. CASE UNCHANGED runnerVars
    BY <1>1 DEF runnerVars, RunnerInv, RunnerTypeOK, MapInv, ServerInv, Begun, PanicsOnlyOnReuse
<1>2. CASE Wait \/ HandleRequest
    BY <1>2, WaitInv, HandleRequestInv
<1>3. ASSUME NEW r \in Runs,
             Start(r) \/ SetRunning(r) \/ Added(r) \/ Registered(r) \/ EndRun(r) \/ Done(r)
      PROVE  RunnerInv'
    BY <1>3, QuietInv
<1>4. ASSUME NEW r \in Runs, AddController(r) \/ RegisterMetrics(r) PROVE RunnerInv'
    BY <1>4, AddControllerInv, RegisterMetricsInv
<1>5. ASSUME NEW s \in Servers, ServerWait(s) \/ \E r \in Runs : Join(r, s) \/ LeaveServer(r, s)
      PROVE  RunnerInv'
    BY <1>5, ServerWaitInv, JoinInv, LeaveServerInv
<1> QED
    BY <1>1, <1>2, <1>3, <1>4, <1>5 DEF RunnerNext

(* Any number of calls of Run, whatever servers the config enables, end    *)
(* the process only in the ways that PanicsOnlyOnReuse names.  Calls that  *)
(* overlap, none of which has yet left a server, do not when neither       *)
(* exporter nor profiler is enabled and at most one has admission.         *)
THEOREM KnownPanicsOnly == RunnerSpec => []PanicsOnlyOnReuse
<1>1. RunnerSpec => RunnerInit /\ [][RunnerNext]_runnerVars
    BY DEF RunnerSpec
<1>2. RunnerInv => PanicsOnlyOnReuse
    BY DEF RunnerInv
<1> QED
    BY <1>1, <1>2, RunnerInitInv, RunnerNextInv, PTL

-----------------------------------------------------------------------------
(* Admission.                                                              *)

Object == [rv: Nat, spec: Names, status: Names, createdBy: Names, updatedBy: Names, stamp: Nat]

Sent == [pc: {"sent"}, op: Ops, sub: {"", "status"}, body: Object, honest: BOOLEAN]

Admitted == [pc: {"admitted"}, op: Ops, sub: {"", "status"}, body: Object, honest: BOOLEAN,
             old: Object \cup {NoObject}, new: Object]

ConfigType == [transport: {"apiserver", "webhook"}, mutates: SUBSET Ops, mutator: BOOLEAN,
               validates: SUBSET Ops, validator: BOOLEAN, statusField: BOOLEAN]

AdmissionTypeOK ==
    /\ config \in ConfigType
    /\ writes \in Nat
    /\ stored \in Object \cup {NoObject}
    /\ stored.rv <= writes
    /\ req \in [Users -> {Idle} \cup Sent \cup Admitted]

(* The protected fields of an object are those of another.                 *)
Same(o, p) == o.createdBy = p.createdBy /\ o.updatedBy = p.updatedBy /\ o.stamp = p.stamp

(* What an honest request has is what the object of its resource version   *)
(* has.                                                                    *)
Honest(r) ==
    /\ r.op = "CREATE" => r.body.createdBy = "" /\ r.body.updatedBy = "" /\ r.body.stamp = 0
    /\ r.op = "UPDATE" => /\ r.body.rv <= writes
                          /\ stored # NoObject /\ stored.rv = r.body.rv => Same(r.body, stored)

(* What mutation did, and the object it was read for.                      *)
Mutated(u, r) ==
    /\ r.op = "CREATE" <=> r.old = NoObject
    /\ r.honest /\ r.op = "UPDATE" /\ r.body.rv = r.old.rv => Same(r.body, r.old)
    /\ r.new # r.body => /\ config.mutator /\ r.op \in config.mutates
                         /\ r.op = "CREATE" => r.new = [r.body EXCEPT !.createdBy = Named(u, @)]

AdmissionInv ==
    /\ AdmissionTypeOK
    /\ \A u \in Users : req[u].pc # "idle" /\ req[u].honest => Honest(req[u])
    /\ \A u \in Users : req[u].pc = "admitted" => Mutated(u, req[u])
    /\ Attributed
    /\ HonestAdmitted

(* An object is not the absence of one.                                    *)
LEMMA ObjectIsSome == \A o \in Object : o # NoObject
<1> SUFFICES ASSUME NEW o \in Object, o = NoObject PROVE FALSE
    OBVIOUS
<1>1. "spec" \in DOMAIN o /\ "spec" \notin DOMAIN NoObject
    BY DEF Object, NoObject
<1> QED
    BY <1>1

(* The kinds of requests are told apart by where they are.                 *)
LEMMA RequestKinds ==
    ASSUME NEW r \in {Idle} \cup Sent \cup Admitted
    PROVE  /\ r.pc = "sent" => r \in Sent
           /\ r.pc = "admitted" => r \in Admitted
           /\ r.pc \in {"idle", "sent", "admitted"}
           /\ r.pc = "idle" => r = Idle
<1>1. CASE r = Idle
    BY <1>1 DEF Idle
<1>2. CASE r \in Sent
    BY <1>2 DEF Sent
<1>3. CASE r \in Admitted
    BY <1>3 DEF Admitted
<1> QED
    BY <1>1, <1>2, <1>3

LEMMA ConfigsTyped == Configs \subseteq ConfigType
<1> DEFINE Capabilities == {<<{}, FALSE>>, <<{"UPDATE"}, TRUE>>, <<Ops, FALSE>>, <<Ops, TRUE>>}
<1>1. ASSUME NEW m \in Capabilities PROVE m[1] \in SUBSET Ops /\ m[2] \in BOOLEAN
    <2>1. CASE m = <<{}, FALSE>>
        BY <2>1
    <2>2. CASE m = <<{"UPDATE"}, TRUE>>
        BY <2>2 DEF Ops
    <2>3. CASE m = <<Ops, FALSE>>
        BY <2>3
    <2>4. CASE m = <<Ops, TRUE>>
        BY <2>4
    <2> QED
        BY <2>1, <2>2, <2>3, <2>4
<1>2. Configs = {[transport |-> t, mutates |-> m[1], mutator |-> m[2], validates |-> v[1], validator |-> v[2],
                  statusField |-> f \/ t = "webhook"] :
                    t \in {"apiserver", "webhook"}, m \in Capabilities, v \in Capabilities, f \in BOOLEAN}
    BY DEF Configs
<1> HIDE DEF Capabilities
<1> SUFFICES ASSUME NEW t \in {"apiserver", "webhook"}, NEW m \in Capabilities, NEW v \in Capabilities,
                    NEW f \in BOOLEAN
             PROVE  [transport |-> t, mutates |-> m[1], mutator |-> m[2], validates |-> v[1], validator |-> v[2],
                     statusField |-> f \/ t = "webhook"]
                        \in ConfigType
    BY <1>2
<1> QED
    BY <1>1 DEF ConfigType

(* What mutation returns is an object.                                     *)
LEMMA MutateTyped ==
    ASSUME NEW op \in Ops, NEW u \in Users, NEW o \in Object, NEW now \in Nat
    PROVE  /\ Mutate(op, u, o, now) \in Object
           /\ op = "CREATE" => Mutate(op, u, o, now) = [o EXCEPT !.createdBy = Named(u, @)]
<1>1. CASE op = "CREATE"
    BY <1>1 DEF Mutate, Named, Object, Names
<1>2. CASE op # "CREATE"
    BY <1>2 DEF Mutate, Named, Object, Names
<1> QED
    BY <1>1, <1>2

(* An update of the status keeps the rest, one of the object at most its   *)
(* status.                                                                 *)
LEMMA PreparedParts ==
    ASSUME NEW sub \in {"", "status"}, NEW o \in Object, NEW old \in Object
    PROVE  LET n == PrepareForUpdate(sub, o, old)
           IN  /\ n \in Object
               /\ sub = "status" => Same(n, old)
               /\ sub = "" => Same(n, o)
<1>1. CASE sub = "status"
    BY <1>1 DEF PrepareForUpdate, Object, Same
<1>2. CASE sub = "" /\ HasStatus(old)
    BY <1>2 DEF PrepareForUpdate, Object, Same
<1>3. CASE sub = "" /\ ~HasStatus(old)
    BY <1>3 DEF PrepareForUpdate, Object, Same
<1> QED
    BY <1>1, <1>2, <1>3

(* Who is asked, and who denies without having been asked.                 *)
LEMMA AskOutcome ==
    ASSUME AdmissionTypeOK, NEW op \in Ops, NEW declared \in SUBSET Ops, NEW implemented \in BOOLEAN
    PROVE  LET a == Ask(op, declared, implemented)
           IN  /\ a \in {"pass", "unavailable", "ask", "denied"}
               /\ a = "ask" => op \in declared /\ implemented
               /\ a = "denied" => config.transport = "webhook" /\ op \in declared /\ ~implemented
               /\ a = "pass" => ~(op \in declared \cap (config.mutates \cup config.validates) /\ implemented)
<1>1. config.transport \in {"apiserver", "webhook"}
    BY DEF AdmissionTypeOK, ConfigType
<1> QED
    BY <1>1 DEF Ask, Handles

LEMMA AdmissionInitInv == AdmissionInit => AdmissionInv
<1> SUFFICES ASSUME AdmissionInit PROVE AdmissionInv
    OBVIOUS
<1>1. config \in ConfigType
    BY ConfigsTyped DEF AdmissionInit
<1>2. AdmissionTypeOK
    <2>1. stored = NoObject /\ writes = 0 /\ NoObject.rv = 0
        BY DEF AdmissionInit, NoObject
    <2>2. req \in [Users -> {Idle} \cup Sent \cup Admitted]
        BY DEF AdmissionInit
    <2> QED
        BY <1>1, <2>1, <2>2 DEF AdmissionTypeOK
<1>3. \A u \in Users : req[u].pc = "idle"
    BY DEF AdmissionInit, Idle
<1>4. Attributed /\ HonestAdmitted
    BY DEF AdmissionInit, Attributed, HonestAdmitted
<1> QED
    BY <1>2, <1>3, <1>4 DEF AdmissionInv

(* The set-ups in which admission is an obstacle.                          *)
Excused(t) ==
    \/ config.transport = "webhook"
       /\ \/ t[1] \in config.mutates /\ ~config.mutator
          \/ t[1] \in config.validates /\ ~config.validator
    \/ t = <<"UPDATE", "">> /\ config.mutator /\ config.validator
       /\ "UPDATE" \in config.mutates \cap config.validates

(* A step of a request that writes nothing.                                *)
LEMMA RequestStep ==
    ASSUME AdmissionInv, NEW u \in Users, NEW x \in {Idle} \cup Sent \cup Admitted,
           req' = [req EXCEPT ![u] = x],
           config' = config, stored' = stored, writes' = writes, creator' = creator, writers' = writers,
           x.pc # "idle" /\ x.honest => Honest(x),
           x.pc = "admitted" => Mutated(u, x),
           HonestAdmitted'
    PROVE  AdmissionInv'
<1>1. AdmissionTypeOK'
    BY DEF AdmissionInv, AdmissionTypeOK
<1>2. req'[u] = x /\ \A v \in Users \ {u} : req'[v] = req[v]
    BY DEF AdmissionInv, AdmissionTypeOK
<1>3. ASSUME NEW v \in Users, req'[v].pc # "idle", req'[v].honest PROVE Honest(req[v])'
    <2>1. PICK y : y = req'[v]
        OBVIOUS
    <2>2. Honest(y)
        <3>1. CASE v = u
            BY <1>2, <1>3, <2>1, <3>1
        <3>2. CASE v # u
            BY <1>2, <1>3, <2>1, <3>2 DEF AdmissionInv
        <3> QED
            BY <3>1, <3>2
    <2> QED
        BY <2>1, <2>2 DEF Honest, Same
<1>4. \A v \in Users : req'[v].pc = "admitted" => Mutated(v, req[v])'
    BY <1>2 DEF AdmissionInv, Mutated
<1>5. Attributed'
    BY DEF AdmissionInv, Attributed
<1> QED
    BY <1>1, <1>3, <1>4, <1>5 DEF AdmissionInv

(* A request that ends without a write.                                    *)
LEMMA EndStep ==
    ASSUME AdmissionInv, NEW u \in Users, NEW result, End(u, result),
           config' = config, stored' = stored, writes' = writes, creator' = creator, writers' = writers,
           result = "denied" /\ req[u].honest => Excused(<<req[u].op, req[u].sub>>)
    PROVE  AdmissionInv'
<1>1. turned' \subseteq turned \cup (IF result = "denied" /\ req[u].honest THEN {<<req[u].op, req[u].sub>>} ELSE {})
    BY DEF End
<1>2. \A t \in turned : Excused(t)
    BY DEF AdmissionInv, HonestAdmitted, Excused
<1>3. \A t \in turned' : Excused(t)
    BY <1>1, <1>2
<1>4. HonestAdmitted'
    BY <1>3 DEF HonestAdmitted, Excused
<1>5. Idle.pc = "idle" /\ req' = [req EXCEPT ![u] = Idle]
    BY DEF Idle, End
<1> QED
    BY <1>4, <1>5, RequestStep

(* A user may change the fields of an object, and gets an object.          *)
LEMMA BodiesTyped == \A from \in Object : \A body \in Bodies(from) : body \in Object
<1> SUFFICES ASSUME NEW from \in Object, NEW body, body \in Bodies(from) PROVE body \in Object
    OBVIOUS
<1>1. \/ body = from
      \/ \E n \in Names : body = [from EXCEPT !.createdBy = n] \/ body = [from EXCEPT !.updatedBy = n]
      \/ \E t \in 0..MaxTime : body = [from EXCEPT !.stamp = t]
    BY Zenon DEF Bodies
<1>2. 0..MaxTime \subseteq Nat
    BY AdmissionAssumption
<1>3. CASE body = from
    BY <1>3
<1>4. CASE \E n \in Names : body = [from EXCEPT !.createdBy = n] \/ body = [from EXCEPT !.updatedBy = n]
    BY <1>4 DEF Object
<1>5. CASE \E t \in 0..MaxTime : body = [from EXCEPT !.stamp = t]
    <2>1. PICK t \in Nat : body = [from EXCEPT !.stamp = t]
        BY <1>2, <1>5
    <2> QED
        BY <2>1 DEF Object
<1> QED
    BY <1>1, <1>3, <1>4, <1>5

LEMMA SendInv == AdmissionInv => \A u \in Users : Send(u) => AdmissionInv'
<1> SUFFICES ASSUME AdmissionInv, NEW u \in Users, Send(u) PROVE AdmissionInv'
    OBVIOUS
<1> DEFINE from == IF stored # NoObject THEN [stored EXCEPT !.spec = u, !.status = u]
                   ELSE [rv |-> 0, spec |-> u, status |-> "", createdBy |-> "", updatedBy |-> "", stamp |-> 0]
           op == IF stored = NoObject THEN "CREATE" ELSE "UPDATE"
<1>1. PICK body \in Bodies(from), sub \in IF stored = NoObject THEN {""} ELSE {"", "status"} :
        req' = [req EXCEPT ![u] = [pc |-> "sent", op |-> op, sub |-> sub, body |-> body, honest |-> body = from]]
    BY DEF Send
<1> DEFINE x == [pc |-> "sent", op |-> op, sub |-> sub, body |-> body, honest |-> body = from]
<1>2. from \in Object
    <2>1. CASE stored # NoObject
        BY <2>1 DEF AdmissionInv, AdmissionTypeOK, Object, Names
    <2>2. CASE stored = NoObject
        BY <2>2 DEF Object, Names
    <2> QED
        BY <2>1, <2>2
<1>3. body \in Object
    BY <1>2, BodiesTyped, Zenon
<1>4. x \in Sent
    BY <1>3 DEF Sent, Ops
<1>5. x.honest => Honest(x)
    <2> SUFFICES ASSUME body = from PROVE Honest(x)
        OBVIOUS
    <2>1. CASE stored # NoObject
        <3>1. stored \in Object /\ stored.rv <= writes
            BY <2>1 DEF AdmissionInv, AdmissionTypeOK
        <3>2. body.rv = stored.rv /\ Same(body, stored)
            BY <2>1, <3>1 DEF Same, Object
        <3>3. x.op = "UPDATE" /\ x.body = body
            BY <2>1
        <3> HIDE DEF x
        <3> QED
            BY <3>1, <3>2, <3>3 DEF Honest
    <2>2. CASE stored = NoObject
        <3>1. x.op = "CREATE" /\ x.body.createdBy = "" /\ x.body.updatedBy = "" /\ x.body.stamp = 0
            BY <2>2
        <3> HIDE DEF x
        <3> QED
            BY <3>1 DEF Honest
    <2> QED
        BY <2>1, <2>2
<1>6. x.pc # "admitted"
    OBVIOUS
<1>7. /\ config' = config /\ stored' = stored /\ writes' = writes /\ creator' = creator /\ writers' = writers
      /\ turned' = turned
    BY DEF Send, history
<1>8. HonestAdmitted'
    BY <1>7 DEF AdmissionInv, HonestAdmitted
<1> HIDE DEF x
<1>9. req' = [req EXCEPT ![u] = x]
    BY <1>1 DEF x
<1> QED
    BY <1>4, <1>5, <1>6, <1>7, <1>8, <1>9, RequestStep

LEMMA AdmitInv == AdmissionInv => \A u \in Users : Admit(u) => AdmissionInv'
<1> SUFFICES ASSUME AdmissionInv, NEW u \in Users, Admit(u) PROVE AdmissionInv'
    OBVIOUS
<1> DEFINE r == req[u]
           a == Ask(r.op, config.mutates, config.mutator)
<1>1. r \in Sent /\ r.pc = "sent"
    BY RequestKinds DEF Admit, AdmissionInv, AdmissionTypeOK
<1>2. r.op \in Ops /\ r.sub \in {"", "status"} /\ r.body \in Object /\ r.honest \in BOOLEAN
    BY <1>1 DEF Sent
<1>3. /\ config' = config /\ stored' = stored /\ writes' = writes /\ creator' = creator /\ writers' = writers
    BY DEF Admit
<1>4. /\ config.mutates \in SUBSET Ops /\ config.mutator \in BOOLEAN
      /\ stored \in Object \cup {NoObject}
    BY DEF AdmissionInv, AdmissionTypeOK, ConfigType
<1>5. /\ a = "ask" => r.op \in config.mutates /\ config.mutator
      /\ a = "denied" => config.transport = "webhook" /\ r.op \in config.mutates /\ ~config.mutator
    BY <1>2, <1>4, AskOutcome DEF AdmissionInv
<1> HIDE DEF r, a
<1>6. CASE End(u, "not found")
    BY <1>3, <1>6, EndStep
<1>7. CASE a \in {"unavailable", "denied"} /\ End(u, a)
    <2>1. a = "denied" => Excused(<<r.op, r.sub>>)
        BY <1>5 DEF Excused
    <2> QED
        BY <1>3, <1>7, <2>1, EndStep DEF r
<1>8. CASE /\ r.op = "CREATE" \/ stored # NoObject
           /\ a \in {"pass", "ask"}
           /\ \E now \in 1..MaxTime :
                 req' = [req EXCEPT ![u] =
                    [pc |-> "admitted", op |-> r.op, sub |-> r.sub, body |-> r.body, honest |-> r.honest,
                     old |-> IF r.op = "CREATE" THEN NoObject ELSE stored,
                     new |-> IF a = "ask" THEN Mutate(r.op, u, r.body, now) ELSE r.body]]
           /\ UNCHANGED turned
    <2>1. PICK now \in 1..MaxTime :
                 req' = [req EXCEPT ![u] =
                    [pc |-> "admitted", op |-> r.op, sub |-> r.sub, body |-> r.body, honest |-> r.honest,
                     old |-> IF r.op = "CREATE" THEN NoObject ELSE stored,
                     new |-> IF a = "ask" THEN Mutate(r.op, u, r.body, now) ELSE r.body]]
        BY <1>8
    <2> DEFINE new == IF a = "ask" THEN Mutate(r.op, u, r.body, now) ELSE r.body
               old == IF r.op = "CREATE" THEN NoObject ELSE stored
               x == [pc |-> "admitted", op |-> r.op, sub |-> r.sub, body |-> r.body, honest |-> r.honest,
                     old |-> old, new |-> new]
    <2>2. now \in Nat
        BY AdmissionAssumption
    <2>3. /\ new \in Object
          /\ new # r.body => /\ config.mutator /\ r.op \in config.mutates
                             /\ r.op = "CREATE" => new = [r.body EXCEPT !.createdBy = Named(u, @)]
        <3>1. CASE a = "ask"
            <4>1. new = Mutate(r.op, u, r.body, now)
                BY <3>1
            <4>2. PICK op \in Ops, o \in Object : op = r.op /\ o = r.body
                BY <1>2
            <4>3. /\ Mutate(op, u, o, now) \in Object
                  /\ op = "CREATE" => Mutate(op, u, o, now) = [o EXCEPT !.createdBy = Named(u, @)]
                BY <2>2, MutateTyped
            <4> HIDE DEF new
            <4> QED
                BY <1>5, <3>1, <4>1, <4>2, <4>3
        <3>2. CASE a # "ask"
            BY <1>2, <3>2
        <3> QED
            BY <3>1, <3>2
    <2>4. old \in Object \cup {NoObject} /\ (r.op = "CREATE" <=> old = NoObject) /\ (r.op = "UPDATE" => old = stored)
        BY <1>2, <1>4, <1>8 DEF Ops
    <2>5. r.honest => Honest(r)
        BY <1>1 DEF AdmissionInv, r
    <2> HIDE DEF new, old
    <2>6. /\ x \in Admitted /\ x.pc = "admitted" /\ x.op = r.op /\ x.body = r.body /\ x.honest = r.honest
          /\ x.old = old /\ x.new = new
        BY <1>2, <2>3, <2>4 DEF Admitted
    <2>7. req' = [req EXCEPT ![u] = x]
        BY <2>1 DEF new, old
    <2> HIDE DEF x
    <2>8. x.honest => Honest(x)
        BY <2>5, <2>6 DEF Honest
    <2>9. Mutated(u, x)
        <3>1. r.honest /\ r.op = "UPDATE" /\ r.body.rv = old.rv => Same(r.body, old)
            BY <2>4, <2>5, <1>8 DEF Honest
        <3> QED
            BY <3>1, <2>3, <2>4, <2>6 DEF Mutated
    <2>10. HonestAdmitted'
        BY <1>3, <1>8 DEF AdmissionInv, HonestAdmitted
    <2> QED
        BY <1>3, <2>6, <2>7, <2>8, <2>9, <2>10, RequestStep
<1> QED
    BY <1>6, <1>7, <1>8 DEF Admit, r, a

(* The object that Validate writes, if it does.                            *)
Prepared(r) == IF r.op = "CREATE" THEN r.new ELSE PrepareForUpdate(r.sub, r.new, r.old)

Verdict(u) ==
    LET r == req[u]
        a == Ask(r.op, config.validates, config.validator)
    IN  IF r.op = "UPDATE" /\ r.body.rv # r.old.rv THEN "conflict"
        ELSE IF a \in {"unavailable", "denied"} THEN a
        ELSE IF a = "ask" /\ ~Valid(r.op, u, Prepared(r), r.old) THEN "denied"
        ELSE IF stored = r.old THEN "ok"
        ELSE IF r.op = "CREATE" THEN "exists" ELSE "again"

(* What is known of a request that Validate decides on.                    *)
LEMMA AdmittedRequest ==
    ASSUME AdmissionInv, NEW u \in Users, req[u].pc = "admitted"
    PROVE  /\ req[u] \in Admitted /\ Mutated(u, req[u])
           /\ req[u].op \in Ops /\ req[u].sub \in {"", "status"} /\ req[u].body \in Object
           /\ req[u].honest \in BOOLEAN /\ req[u].new \in Object
           /\ req[u].op = "CREATE" => req[u].old = NoObject
           /\ req[u].op = "UPDATE" => req[u].old \in Object
           /\ Prepared(req[u]) \in Object
<1>1. req[u] \in Admitted /\ Mutated(u, req[u])
    BY RequestKinds DEF AdmissionInv, AdmissionTypeOK
<1>2. /\ req[u].op \in Ops /\ req[u].sub \in {"", "status"} /\ req[u].body \in Object
      /\ req[u].honest \in BOOLEAN /\ req[u].new \in Object /\ req[u].old \in Object \cup {NoObject}
    BY <1>1 DEF Admitted
<1>3. /\ req[u].op = "CREATE" => req[u].old = NoObject
      /\ req[u].op = "UPDATE" => req[u].old \in Object
    BY <1>1, <1>2 DEF Mutated, Ops
<1>4. Prepared(req[u]) \in Object
    BY <1>2, <1>3, PreparedParts DEF Prepared, Ops
<1> QED
    BY <1>1, <1>2, <1>3, <1>4

(* The branches of Validate.                                               *)
LEMMA ValidateBranches ==
    ASSUME NEW u \in Users, Validate(u)
    PROVE  /\ req[u].pc = "admitted" /\ config' = config
           /\ \/ /\ Verdict(u) = "again"
                 /\ req' = [req EXCEPT ![u] = [pc |-> "sent", op |-> req[u].op, sub |-> req[u].sub,
                                               body |-> req[u].body, honest |-> req[u].honest]]
                 /\ UNCHANGED <<stored, writes, history>>
              \/ /\ Verdict(u) \notin {"again", "ok"}
                 /\ End(u, Verdict(u))
                 /\ UNCHANGED <<stored, writes, creator, writers>>
              \/ /\ Verdict(u) = "ok"
                 /\ stored' = [Prepared(req[u]) EXCEPT !.rv = writes + 1]
                 /\ writes' = writes + 1
                 /\ creator' = IF req[u].op = "CREATE" THEN u ELSE creator
                 /\ writers' = IF req[u].op = "CREATE" THEN {u}
                               ELSE IF req[u].sub = "" THEN writers \cup {u} ELSE writers
                 /\ End(u, "ok")
    BY Zenon DEF Validate, Verdict, Prepared

(* An honest request is denied only in a set-up that excuses it.           *)
LEMMA DeniedIsExcused ==
    ASSUME AdmissionInv, NEW u \in Users, req[u].pc = "admitted", req[u].honest, Verdict(u) = "denied"
    PROVE  Excused(<<req[u].op, req[u].sub>>)
<1> DEFINE r == req[u]
           a == Ask(r.op, config.validates, config.validator)
<1>1. /\ Mutated(u, r) /\ r.op \in Ops /\ r.sub \in {"", "status"} /\ r.body \in Object /\ r.new \in Object
      /\ r.op = "UPDATE" => r.old \in Object
    BY AdmittedRequest
<1>2. Honest(r) /\ r.honest
    BY DEF AdmissionInv
<1>3. config.validates \in SUBSET Ops /\ config.validator \in BOOLEAN
    BY DEF AdmissionInv, AdmissionTypeOK, ConfigType
<1>4. /\ a = "ask" => r.op \in config.validates /\ config.validator
      /\ a = "denied" => config.transport = "webhook" /\ r.op \in config.validates /\ ~config.validator
    BY <1>1, <1>3, AskOutcome DEF AdmissionInv
<1>5. /\ r.op = "UPDATE" => r.body.rv = r.old.rv
      /\ a = "denied" \/ (a = "ask" /\ ~Valid(r.op, u, Prepared(r), r.old))
    BY DEF Verdict
<1> HIDE DEF r, a
<1>6. CASE a = "denied"
    BY <1>4, <1>6 DEF Excused, r
<1>7. CASE a = "ask" /\ ~Valid(r.op, u, Prepared(r), r.old) /\ r.op = "CREATE"
    <2>1. r.body.createdBy = "" /\ r.body.updatedBy = "" /\ r.body.stamp = 0
        BY <1>2, <1>7 DEF Honest
    <2>2. r.new = r.body \/ r.new = [r.body EXCEPT !.createdBy = Named(u, @)]
        BY <1>1, <1>7 DEF Mutated
    <2>3. r.new.createdBy \in {"", u} /\ r.new.updatedBy = "" /\ r.new.stamp = 0
        BY <1>1, <2>1, <2>2 DEF Object, Named
    <2> QED
        BY <1>7, <2>3 DEF Valid, Prepared
<1>8. CASE a = "ask" /\ ~Valid(r.op, u, Prepared(r), r.old) /\ r.op = "UPDATE"
    <2>1. Same(r.body, r.old) /\ r.old \in Object
        BY <1>1, <1>2, <1>5, <1>8 DEF Mutated
    <2>2. ~Same(Prepared(r), r.old)
        BY <1>8 DEF Valid, Same
    <2>3. Prepared(r) = PrepareForUpdate(r.sub, r.new, r.old)
        BY <1>8 DEF Prepared
    <2>3a. /\ r.sub = "status" => Same(Prepared(r), r.old)
           /\ r.sub = "" => Same(Prepared(r), r.new)
        <3>1. PICK sub \in {"", "status"}, o \in Object, old \in Object :
                sub = r.sub /\ o = r.new /\ old = r.old
            BY <1>1, <2>1
        <3>2. /\ sub = "status" => Same(PrepareForUpdate(sub, o, old), old)
              /\ sub = "" => Same(PrepareForUpdate(sub, o, old), o)
            BY PreparedParts
        <3> QED
            BY <2>3, <3>1, <3>2
    <2>4. r.sub = ""
        BY <1>1, <2>2, <2>3a
    <2>5. r.new # r.body
        <3> SUFFICES ASSUME r.new = r.body PROVE FALSE
            OBVIOUS
        <3>1. Same(Prepared(r), r.body)
            BY <2>4, <2>3a
        <3> QED
            BY <2>1, <2>2, <3>1 DEF Same
    <2>6. config.mutator /\ r.op \in config.mutates
        BY <1>1, <2>5 DEF Mutated
    <2> QED
        BY <1>4, <1>8, <2>4, <2>6 DEF Excused, r
<1> QED
    BY <1>1, <1>5, <1>6, <1>7, <1>8 DEF Ops

(* What the opinionated validation has let through.                        *)
LEMMA WriteIsAttributed ==
    ASSUME AdmissionInv, NEW u \in Users, Validate(u), Verdict(u) = "ok",
           config.validator, config.validates = Ops
    PROVE  Attributed'
<1> DEFINE r == req[u]
           a == Ask(r.op, config.validates, config.validator)
           n == Prepared(r)
<1>1. req[u].pc = "admitted"
    BY ValidateBranches
<1>2. /\ r.op \in Ops /\ r.sub \in {"", "status"} /\ r.new \in Object /\ n \in Object
      /\ r.op = "CREATE" => r.old = NoObject
      /\ r.op = "UPDATE" => r.old \in Object
    BY <1>1, AdmittedRequest
<1>3. /\ stored' = [n EXCEPT !.rv = writes + 1]
      /\ creator' = IF r.op = "CREATE" THEN u ELSE creator
      /\ writers' = IF r.op = "CREATE" THEN {u} ELSE IF r.sub = "" THEN writers \cup {u} ELSE writers
    BY ValidateBranches
<1>4. a \notin {"pass", "denied"} /\ a \in {"pass", "unavailable", "ask", "denied"}
    BY <1>2, AskOutcome DEF AdmissionInv
<1>5. Valid(r.op, u, n, r.old) /\ stored = r.old
    BY <1>4 DEF Verdict
<1> HIDE DEF r, a, n
<1>6. stored'.createdBy = n.createdBy /\ stored'.updatedBy = n.updatedBy /\ stored'.stamp = n.stamp
    BY <1>2, <1>3 DEF Object
<1>7. CASE r.op = "CREATE"
    <2>1. n.createdBy \in {"", u} /\ n.updatedBy \in {"", u} /\ n.stamp = 0
        BY <1>5, <1>7 DEF Valid
    <2> QED
        BY <1>3, <1>6, <1>7, <2>1 DEF Attributed
<1>8. CASE r.op = "UPDATE"
    <2>1. stored # NoObject
        BY <1>2, <1>5, <1>8, ObjectIsSome
    <2>2. stored.createdBy \in {"", creator} /\ stored.updatedBy \in writers \cup {""} /\ stored.stamp = 0
        BY <2>1 DEF AdmissionInv, Attributed
    <2>3. n.createdBy = stored.createdBy /\ n.updatedBy \in {stored.updatedBy, u} /\ n.stamp = stored.stamp
        BY <1>5, <1>8 DEF Valid
    <2>4. r.sub = "status" => n.updatedBy = stored.updatedBy
        <3>1. n = PrepareForUpdate(r.sub, r.new, stored) /\ stored \in Object
            BY <1>2, <1>5, <1>8 DEF Prepared, n
        <3>2. r.sub = "status" => Same(n, stored)
            BY <1>2, <3>1, PreparedParts
        <3> QED
            BY <3>2 DEF Same
    <2>5. creator' = creator /\ (r.sub = "" => writers' = writers \cup {u}) /\ (r.sub # "" => writers' = writers)
        BY <1>3, <1>8
    <2>6. stored'.updatedBy \in writers' \cup {""}
        BY <1>2, <1>6, <2>2, <2>3, <2>4, <2>5
    <2> QED
        BY <1>6, <2>2, <2>3, <2>5, <2>6 DEF Attributed
<1> QED
    BY <1>2, <1>7, <1>8 DEF Ops

(* A write gives the object a resource version that no request has seen.   *)
LEMMA WriteInv ==
    ASSUME AdmissionInv, NEW u \in Users, Validate(u), Verdict(u) = "ok"
    PROVE  AdmissionInv'
<1>1. /\ req[u].pc = "admitted" /\ config' = config
      /\ stored' = [Prepared(req[u]) EXCEPT !.rv = writes + 1] /\ writes' = writes + 1
      /\ End(u, "ok")
    BY ValidateBranches
<1>2. Prepared(req[u]) \in Object
    BY <1>1, AdmittedRequest
<1>3. writes \in Nat /\ req \in [Users -> {Idle} \cup Sent \cup Admitted] /\ config \in ConfigType
    BY DEF AdmissionInv, AdmissionTypeOK
<1>4. stored' \in Object /\ stored'.rv = writes + 1
    BY <1>1, <1>2, <1>3 DEF Object
<1>5. req' = [req EXCEPT ![u] = Idle] /\ turned' = turned /\ Idle.pc = "idle"
    BY <1>1 DEF End, Idle
<1>6. AdmissionTypeOK'
    BY <1>1, <1>3, <1>4, <1>5 DEF AdmissionTypeOK
<1>7. req'[u] = Idle /\ \A v \in Users \ {u} : req'[v] = req[v]
    BY <1>3, <1>5
<1>8. ASSUME NEW v \in Users, req'[v].pc # "idle", req'[v].honest PROVE Honest(req[v])'
    <2>1. PICK y : y = req[v] /\ y = req'[v] /\ Honest(y) /\ y \in {Idle} \cup Sent \cup Admitted
        BY <1>3, <1>5, <1>7, <1>8 DEF AdmissionInv
    <2>2. y.body \in Object
        <3>1. y \in Sent \/ y \in Admitted
            BY <1>5, <1>8, <2>1
        <3> QED
            BY <3>1 DEF Sent, Admitted
    <2>3. y.body.rv \in Nat
        BY <2>2 DEF Object
    <2>4. y.op = "UPDATE" => y.body.rv <= writes /\ y.body.rv <= writes + 1 /\ y.body.rv # writes + 1
        BY <1>3, <2>1, <2>3 DEF Honest
    <2> QED
        BY <1>1, <1>4, <2>1, <2>4 DEF Honest
<1>9. \A v \in Users : req'[v].pc = "admitted" => Mutated(v, req[v])'
    BY <1>1, <1>5, <1>7 DEF AdmissionInv, Mutated
<1>10. Attributed'
    <2>1. CASE config.validator /\ config.validates = Ops
        BY <2>1, WriteIsAttributed
    <2>2. CASE ~(config.validator /\ config.validates = Ops)
        BY <1>1, <2>2 DEF Attributed
    <2> QED
        BY <2>1, <2>2
<1>11. HonestAdmitted'
    BY <1>1, <1>5 DEF AdmissionInv, HonestAdmitted
<1> QED
    BY <1>6, <1>8, <1>9, <1>10, <1>11 DEF AdmissionInv

LEMMA ValidateInv == AdmissionInv => \A u \in Users : Validate(u) => AdmissionInv'
<1> SUFFICES ASSUME AdmissionInv, NEW u \in Users, Validate(u) PROVE AdmissionInv'
    OBVIOUS
<1>1. req[u].pc = "admitted" /\ config' = config
    BY ValidateBranches
<1>2. CASE Verdict(u) = "ok"
    BY <1>2, WriteInv
<1>3. CASE Verdict(u) = "again"
    <2> DEFINE x == [pc |-> "sent", op |-> req[u].op, sub |-> req[u].sub,
                     body |-> req[u].body, honest |-> req[u].honest]
    <2>1. req' = [req EXCEPT ![u] = x] /\ UNCHANGED <<stored, writes, history>>
        BY <1>3, ValidateBranches
    <2>2. /\ stored' = stored /\ writes' = writes /\ creator' = creator /\ writers' = writers /\ turned' = turned
        BY <2>1 DEF history
    <2>3. x \in Sent /\ x.pc = "sent"
        BY <1>1, AdmittedRequest DEF Sent
    <2>4. x.honest => Honest(x)
        <3>1. req[u].honest => Honest(req[u])
            BY <1>1 DEF AdmissionInv
        <3> QED
            BY <3>1 DEF Honest
    <2>5. HonestAdmitted'
        BY <1>1, <2>2 DEF AdmissionInv, HonestAdmitted
    <2> HIDE DEF x
    <2> QED
        BY <1>1, <2>1, <2>2, <2>3, <2>4, <2>5, RequestStep
<1>4. CASE Verdict(u) \notin {"again", "ok"}
    <2>1. End(u, Verdict(u)) /\ stored' = stored /\ writes' = writes /\ creator' = creator /\ writers' = writers
        BY <1>4, ValidateBranches
    <2>2. Verdict(u) = "denied" /\ req[u].honest => Excused(<<req[u].op, req[u].sub>>)
        BY <1>1, DeniedIsExcused
    <2> QED
        BY <1>1, <2>1, <2>2, EndStep
<1> QED
    BY <1>2, <1>3, <1>4

LEMMA AdmissionNextInv == AdmissionInv /\ [AdmissionNext]_admissionVars => AdmissionInv'
<1> SUFFICES ASSUME AdmissionInv, [AdmissionNext]_admissionVars PROVE AdmissionInv'
    OBVIOUS
<1>1. CASE UNCHANGED admissionVars
    BY <1>1 DEF admissionVars, AdmissionInv, AdmissionTypeOK, Honest, Mutated, Attributed, HonestAdmitted
<1>2. CASE Ready
    BY <1>2 DEF Ready, history, AdmissionInv, AdmissionTypeOK, Honest, Mutated, Attributed, HonestAdmitted
<1>3. CASE Delete
    <2>1. /\ stored' = NoObject /\ config' = config /\ writes' = writes /\ req' = req /\ turned' = turned
        BY <1>3 DEF Delete, history
    <2>2. NoObject.rv = 0
        BY DEF NoObject
    <2>3. AdmissionTypeOK'
        BY <2>1, <2>2 DEF AdmissionInv, AdmissionTypeOK
    <2>4. Attributed' /\ HonestAdmitted'
        BY <2>1 DEF AdmissionInv, Attributed, HonestAdmitted
    <2>5. \A u \in Users : req'[u].pc # "idle" /\ req'[u].honest => Honest(req[u])'
        BY <2>1 DEF AdmissionInv, Honest
    <2>6. \A u \in Users : req'[u].pc = "admitted" => Mutated(u, req[u])'
        BY <2>1 DEF AdmissionInv, Mutated
    <2> QED
        BY <2>3, <2>4, <2>5, <2>6 DEF AdmissionInv
<1>4. CASE \E u \in Users : Send(u) \/ Admit(u) \/ Validate(u)
    BY <1>4, SendInv, AdmitInv, ValidateInv
<1> QED
    BY <1>1, <1>2, <1>3, <1>4 DEF AdmissionNext

(* The opinionated validation, in place for creates and updates, keeps the *)
(* metadata it protects true whatever the requests of whichever users, and *)
(* however they overlap with deletes and with each other.                  *)
THEOREM MetadataIsAttributed == AdmissionSpec => []Attributed
<1>1. AdmissionInv => Attributed
    BY DEF AdmissionInv
<1> QED
    BY <1>1, AdmissionInitInv, AdmissionNextInv, PTL DEF AdmissionSpec

(* A request that leaves the protected metadata alone is denied only in    *)
(* the two set-ups that HonestAdmitted names, whatever was written since   *)
(* it was made.                                                            *)
THEOREM HonestRequestsPass == AdmissionSpec => []HonestAdmitted
<1>1. AdmissionInv => HonestAdmitted
    BY DEF AdmissionInv
<1> QED
    BY <1>1, AdmissionInitInv, AdmissionNextInv, PTL DEF AdmissionSpec

=============================================================================
