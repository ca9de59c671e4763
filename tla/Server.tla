-------------------------------- MODULE Server --------------------------------
(***************************************************************************)
(* The HTTP process: cmd/api/main.go, the handlers of internal/httpapi and *)
(* the rate gate their downloads share, against the four deadlines of      *)
(* config/parameters.go.  A connection carries one request: its headers,   *)
(* its body, the handler's computation under withTimeout, and the answer,  *)
(* which net/http can deliver only until WriteTimeout after the headers.   *)
(*                                                                         *)
(* Time is discrete and Tick waits for whatever is due: a timer fires on   *)
(* its tick and a handler whose context ended returns on that tick.        *)
(***************************************************************************)
EXTENDS RateGate

CONSTANTS
  Requests,            \* connections, one request each
  ReadHeaderTimeout, ReadTimeout, WriteTimeout, SimulationTimeout,
  ShutdownTimeout,     \* config.DatabaseConnectTimeout
  LastArrival,         \* bound on when a connection arrives
  LastSignal,          \* bound on when a signal arrives or the listener fails
  MaxTime              \* bound on the clock

ASSUME ServerAssumption ==
  /\ {ReadHeaderTimeout, ReadTimeout, WriteTimeout, SimulationTimeout, ShutdownTimeout}
       \subseteq Nat \ {0}
  /\ ReadHeaderTimeout <= ReadTimeout /\ ReadTimeout <= WriteTimeout
  /\ Callers \subseteq Requests \X Nat
  /\ {LastArrival, LastSignal, MaxTime} \subseteq Nat

VARIABLES
  process,      \* main: serving, in Shutdown, or ended
  stoppedAt,    \* when the signal came
  phase,        \* request -> where it is
  kind,         \* request -> the endpoint it asks for
  at,           \* request -> when it connected, its headers came, its handler started
  answer        \* request -> what its handler wrote

requestVars == <<phase, kind, at, answer>>
vars == <<now, gateVars, process, stoppedAt, requestVars>>

Active == {"connected", "reading", "running"}
Ended == {"done", "lost", "closed", "gone", "cut"}
(* GET /lines and /lines/{id}; GET /transfers; POST /simulations,           *)
(* /comparisons and /lines/similar; POST /detours.                          *)
Bodiless == {"lines", "transfers"}
Kinds == Bodiless \cup {"simulation", "detour"}

(* What a handler writes: a result (200), a refusal of the request (400,    *)
(* 404, 422), a failure of the service (500, 503), a timeout (504), nothing.*)
Answers == {"result", "refusal", "failure", "timeout", "none"}

NoTimes == [connected |-> 0, headers |-> 0, running |-> 0]

Own(r) == {c \in Callers : c[1] = r}

ServerInit ==
  /\ now = 0
  /\ GateInit
  /\ process = "serving"
  /\ stoppedAt = 0
  /\ phase = [r \in Requests |-> "idle"]
  /\ kind = [r \in Requests |-> "lines"]
  /\ at = [r \in Requests |-> NoTimes]
  /\ answer = [r \in Requests |-> "none"]

Up == process \in {"serving", "stopping"}

-----------------------------------------------------------------------------
(* net/http reads a request: headers until ReadHeaderTimeout, the body      *)
(* until ReadTimeout, both from the accepted connection on.                 *)
Connect(r) ==
  /\ process = "serving"
  /\ phase[r] = "idle"
  /\ now <= LastArrival
  /\ phase' = [phase EXCEPT ![r] = "connected"]
  /\ at' = [at EXCEPT ![r].connected = now]
  /\ UNCHANGED <<now, gateVars, process, stoppedAt, kind, answer>>

(* A GET has no body: its handler starts at once.                           *)
HeadersArrive(r) ==
  /\ Up /\ phase[r] = "connected"
  /\ \E k \in Kinds :
       /\ kind' = [kind EXCEPT ![r] = k]
       /\ phase' = [phase EXCEPT ![r] = IF k \in Bodiless THEN "running" ELSE "reading"]
       /\ at' = [at EXCEPT ![r].headers = now, ![r].running = IF k \in Bodiless THEN now ELSE @]
  /\ UNCHANGED <<now, gateVars, process, stoppedAt, answer>>

(* What the server keeps of a request goes with it, except, for the         *)
(* properties, that of an answer that was lost.                             *)
Forget(r) ==
  /\ at' = [at EXCEPT ![r] = NoTimes]
  /\ kind' = [kind EXCEPT ![r] = "lines"]

(* ReadHeaderTimeout, or the client leaves: the connection is closed.       *)
HeadersFail(r) ==
  /\ Up /\ phase[r] = "connected"
  /\ phase' = [phase EXCEPT ![r] = "closed"]
  /\ Forget(r)
  /\ UNCHANGED <<now, gateVars, process, stoppedAt, answer>>

(* decodeBody returned the body: the budget of withTimeout starts here.     *)
BodyArrives(r) ==
  /\ Up /\ phase[r] = "reading"
  /\ phase' = [phase EXCEPT ![r] = "running"]
  /\ at' = [at EXCEPT ![r].running = now]
  /\ UNCHANGED <<now, gateVars, process, stoppedAt, kind, answer>>

-----------------------------------------------------------------------------
(* net/http counts WriteTimeout from the end of the headers.                *)
Deliverable(r) == now <= at[r].headers + WriteTimeout

(* The handler returns after writing a.                                     *)
Deliver(r, a) ==
  LET heard == a # "none" IN
  /\ answer' = [answer EXCEPT ![r] = a]
  /\ phase' = [phase EXCEPT ![r] =
       IF ~ heard THEN "gone" ELSE IF Deliverable(r) THEN "done" ELSE "lost"]
  /\ IF heard /\ ~ Deliverable(r) THEN UNCHANGED <<at, kind>> ELSE Forget(r)

(* decodeBody failed, on the JSON, on a missing field or on the connection: *)
(* 400.  ReadTimeout ends in the same answer.                               *)
BodyFails(r) ==
  /\ Up /\ phase[r] = "reading"
  /\ \E a \in {"none", "refusal"} : Deliver(r, a)
  /\ UNCHANGED <<now, gateVars, process, stoppedAt>>

(* The errors the services return while their context is live.  A snapshot   *)
(* of traffic may also fail with the end of the context of another request, *)
(* whose download it shared.                                                *)
Errors(k) ==
  CASE k = "lines" -> {"not_found", "not_simulable", "other"}
    [] k = "transfers" -> {"hour", "other"}
    [] k = "simulation" -> {"invalid", "other"}
    [] k = "detour" -> {"invalid", "invalid_input", "no_solution", "dependency", "other"}

SnapshotErrors == {"dependency", "canceled", "deadline"}

(* No answer is written once request.Context() is canceled; a deadline is    *)
(* told as such.                                                            *)
Unless(left, e, otherwise) ==
  IF left THEN "none" ELSE IF e = "deadline" THEN "timeout" ELSE otherwise

writeLineError(e, left) ==
  IF e \in {"not_found", "not_simulable"} THEN "refusal" ELSE Unless(left, e, "failure")

writeTransferError(e, left) ==
  IF e = "hour" THEN "refusal" ELSE Unless(left, e, "failure")

writeEstimationError(e, left) ==
  IF e = "invalid" THEN "refusal" ELSE Unless(left, e, "failure")

(* The kinds of detour.Error come after the context.                        *)
writeDetourError(e, left) ==
  IF e = "invalid" THEN "refusal"
  ELSE Unless(left, e, IF e \in {"invalid_input", "no_solution"} THEN "refusal" ELSE "failure")

AnswerTo(r, e, left) ==
  CASE kind[r] = "lines" -> writeLineError(e, left)
    [] kind[r] = "transfers" -> writeTransferError(e, left)
    [] kind[r] = "simulation" -> writeEstimationError(e, left)
    [] kind[r] = "detour" -> writeDetourError(e, left)

(* The handler returns and its deferred cancel ends the waits it owns.      *)
Return(r, a) ==
  /\ Deliver(r, a)
  /\ gate' = AfterCancel(Own(r))
  /\ UNCHANGED <<now, next, slot, process, stoppedAt>>

Waiting(r) == {c \in Own(r) : gate[c] = "waiting"}

(* The service returned a result; no goroutine of its snapshot is left.     *)
Succeed(r) ==
  /\ Up /\ phase[r] = "running"
  /\ Waiting(r) = {}
  /\ Return(r, "result")

(* The service failed outside its snapshot.                                 *)
FailAlone(r) ==
  /\ Up /\ phase[r] = "running"
  /\ Waiting(r) = {}
  /\ \E e \in Errors(kind[r]) : Return(r, AnswerTo(r, e, FALSE))

(* One download failed: the errgroup cancels the others.                    *)
FailDownloads(r) ==
  /\ Up /\ phase[r] = "running"
  /\ kind[r] = "detour"
  /\ \E c \in Own(r) : gate[c] = "passed"
  /\ \E e \in SnapshotErrors : Return(r, AnswerTo(r, e, FALSE))

\* Mutant of BudgetOver: the handler passes the request's own context on.
BudgetNeverOver(r) == FALSE

(* context.WithTimeout(request.Context(), SimulationTimeout).               *)
BudgetOver(r) == now >= at[r].running + SimulationTimeout

TimeOut(r) ==
  /\ Up /\ phase[r] = "running"
  /\ BudgetOver(r)
  /\ Return(r, AnswerTo(r, "deadline", FALSE))

(* The client closes its connection while the handler runs: net/http        *)
(* cancels the request's context, the handler gives up, and whatever it     *)
(* would write is for no one.                                               *)
Leave(r) ==
  /\ Up /\ phase[r] = "running"
  /\ Return(r, AnswerTo(r, "canceled", TRUE))

(* A goroutine of the snapshot calls gate.wait, and its timer fires.        *)
Download(c) ==
  /\ Up /\ phase[c[1]] = "running"
  /\ kind[c[1]] = "detour"
  /\ Enter(c) \/ Pass(c)
  /\ UNCHANGED <<now, process, stoppedAt, requestVars>>

-----------------------------------------------------------------------------
(* main.                                                                    *)
Signal ==
  /\ process = "serving"
  /\ now <= LastSignal
  /\ process' = "stopping"
  /\ stoppedAt' = now
  /\ UNCHANGED <<now, gateVars, requestVars>>

ActiveRequests == {r \in Requests : phase[r] \in Active}

(* http.Server.Shutdown has no connection left to wait for.                 *)
Drained == ActiveRequests = {}

(* The deferred database.Close() follows.                                   *)
Drain ==
  /\ process = "stopping"
  /\ Drained
  /\ process' = "drained"
  /\ UNCHANGED <<now, gateVars, stoppedAt, requestVars>>

(* os.Exit(1): every connection is cut.                                     *)
Exit(how) ==
  /\ process' = how
  /\ phase' = [r \in Requests |-> IF phase[r] \in Active THEN "cut" ELSE phase[r]]
  /\ gate' = AfterCancel(Callers)
  /\ UNCHANGED <<now, next, slot, stoppedAt, kind, at, answer>>

\* Mutant of GraceOver: the drain gets no time.
GraceOverAtOnce == TRUE

(* shutdownContext ends.                                                    *)
GraceOver == now >= stoppedAt + ShutdownTimeout

Kill ==
  /\ process = "stopping"
  /\ GraceOver
  /\ ~ Drained
  /\ Exit("killed")

(* ListenAndServe returned: serverError.                                    *)
ListenFails ==
  /\ process = "serving"
  /\ now <= LastSignal
  /\ Exit("failed")

-----------------------------------------------------------------------------
(* What the clock waits for.                                                *)
Due(r) ==
  \/ phase[r] = "connected" /\ now >= at[r].connected + ReadHeaderTimeout
  \/ phase[r] = "reading" /\ now >= at[r].connected + ReadTimeout
  \/ phase[r] = "running" /\ BudgetOver(r)

Tick ==
  /\ Up
  /\ now < MaxTime
  /\ \A r \in Requests : ~ Due(r)
  /\ \A c \in Callers : gate[c] = "waiting" => now < slot[c]
  /\ process = "stopping" => ~ (GraceOver \/ Drained)
  /\ now' = now + 1
  /\ UNCHANGED <<gateVars, process, stoppedAt, requestVars>>

Terminated ==
  /\ ~ Up \/ now = MaxTime
  /\ UNCHANGED vars

Receive(r) == HeadersArrive(r) \/ HeadersFail(r) \/ BodyArrives(r) \/ BodyFails(r)

Compute(r) == Succeed(r) \/ FailAlone(r) \/ FailDownloads(r)

Next ==
  \/ \E r \in Requests :
       Connect(r) \/ Receive(r) \/ Compute(r) \/ TimeOut(r) \/ Leave(r)
  \/ \E c \in Callers : Download(c)
  \/ Signal \/ Drain \/ Kill \/ ListenFails
  \/ Tick
  \/ Terminated

Spec == ServerInit /\ [][Next]_vars

(* Timers fire, contexts end what waits on them and the clock goes on.      *)
(* Nothing is assumed of clients, nor of computations before their          *)
(* deadline.                                                                *)
FairSpec ==
  /\ Spec
  /\ \A r \in Requests :
       /\ WF_vars(Due(r) /\ (HeadersFail(r) \/ BodyFails(r)))
       /\ WF_vars(TimeOut(r))
  /\ \A c \in Callers : WF_vars(Pass(c) /\ Download(c))
  /\ WF_vars(Drain) /\ WF_vars(Kill) /\ WF_vars(Tick)

-----------------------------------------------------------------------------
TypeOK ==
  /\ GateTypeOK
  /\ process \in {"serving", "stopping", "drained", "killed", "failed"}
  /\ stoppedAt \in Nat
  /\ phase \in [Requests -> {"idle"} \cup Active \cup Ended]
  /\ kind \in [Requests -> Kinds]
  /\ at \in [Requests -> [connected : Nat, headers : Nat, running : Nat]]
  /\ answer \in [Requests -> Answers]

(* SimulationTimeout below WriteTimeout leaves room for the answer of every *)
(* request whose body took less than their difference: whatever it waited  *)
(* for, at the gate or elsewhere, its answer is delivered.                  *)
TimelyBodiesAreAnswered ==
  \A r \in Requests :
    phase[r] = "lost" => at[r].running - at[r].headers > WriteTimeout - SimulationTimeout

(* "SimulationTimeout must remain below WriteTimeout to allow an HTTP       *)
(* timeout response" (config/parameters.go): a request that times out is    *)
(* answered 504.  The code does not keep this: the two clocks do not start  *)
(* together.                                                                *)
TimeoutIsAnswered ==
  \A r \in Requests : answer[r] = "timeout" => phase[r] # "lost"

(* A graceful stop: the pool is closed only when no request uses it, and    *)
(* the requests cut when the grace is over are those whose own deadlines   *)
(* reach that far; one that came earlier has had its answer.                *)
ShutdownIsGraceful ==
  /\ process = "drained" => ActiveRequests = {}
  /\ process = "killed" =>
       \A r \in Requests :
         phase[r] = "cut" =>
           at[r].connected + ReadTimeout + SimulationTimeout >= stoppedAt + ShutdownTimeout

(* Every connection comes to an end, and a signal to the end of the process,*)
(* however slow the client and whatever the handler waits for.              *)
ConnectionsEnd ==
  /\ \A r \in Requests : phase[r] = "connected" ~> phase[r] \in Ended
  /\ process = "stopping" ~> process \in {"drained", "killed"}
=============================================================================
