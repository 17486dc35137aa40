------------------------------- MODULE Server -------------------------------
(***************************************************************************)
(* The process around the handlers: its configuration and run with the     *)
(* pool it closes last (cmd/api/main.go), Start with its two ways to       *)
(* return (internal/server/server.go), and the cap on concurrent bcrypt    *)
(* requests (internal/server/limit.go).                                    *)
(*                                                                         *)
(* A handler is what it does to slots and connections: it runs, takes a    *)
(* pool connection for each statement or transaction, and returns or       *)
(* panics.  Two facts of the Go runtime are used.  A slot given back while *)
(* requests are parked on the channel goes to one of them, never to a      *)
(* newcomer.  A request parked in a select leaves it for the first case    *)
(* that becomes ready.                                                     *)
(***************************************************************************)
EXTENDS Integers, FiniteSets

CONSTANTS Req,       \* requests that can be in the process at once
          Limited,   \* those for POST /users and POST /tokens
          Limit,     \* AUTH_CONCUR_LIMIT, 0 for no cap
          MaxConns,  \* of the pool
          Env        \* the environments the process may be started in

ASSUME LimitAssumption == Limit \in Nat
ASSUME ReqAssumption == IsFiniteSet(Req)
ASSUME MaxConnsAssumption == MaxConns \in Nat \ {0}

VARIABLES main,      \* where run() is
          result,    \* what Start returned
          signalled, \* the context of run() is done
          failed,    \* ListenAndServe returned an unexpected error
          open,      \* the pool hands out connections
          taken,     \* the length of the channel sem
          conns,     \* connections acquired from the pool
          req

vars == <<main, result, signalled, failed, open, taken, conns, req>>
process == <<main, result, signalled, failed, open>>

\* "try" and "enter" are before the first and the second select of acquire,
\* "wait" is parked in the second; "want" waits for the pool.
Pc == {"idle", "try", "enter", "wait", "run", "want", "query"}

\* How the last request of this name ended.
Said == {"none", "ok", "500", "429", "nothing", "closed pool"}

Request == [pc : Pc, slot : BOOLEAN, gone : BOOLEAN, said : Said]

Alive == main # "exited"
At(r, pc) == Alive /\ req[r].pc = pc
Go(r, pc) == req' = [req EXCEPT ![r] = [@ EXCEPT !.pc = pc]]

-----------------------------------------------------------------------------
(* limitConcurrent and acquire. *)

\* A new connection is accepted while Start serves.  A connection accepted before
\* still carries a request while Shutdown drains, which waits for it, and after
\* ErrServe and ErrShutdown until the process is gone.
Arrive(r) ==
  /\ At(r, "idle")
  /\ main \in {"serving", "draining"} \/ result \in {"ErrServe", "ErrShutdown"}
  /\ req' = [req EXCEPT ![r] = [pc |-> IF r \in Limited /\ Limit > 0 THEN "try" ELSE "run",
                                slot |-> FALSE, gone |-> FALSE, said |-> "none"]]
  /\ UNCHANGED <<process, taken, conns>>

Free == taken < Limit

TakeSlot(r) == /\ Free
               /\ taken' = taken + 1
               /\ req' = [req EXCEPT ![r] = [@ EXCEPT !.pc = "run", !.slot = TRUE]]

\* acquire returned false: 429, or nothing to a client that hung up.
Refuse(r) ==
  req' = [req EXCEPT ![r] = [@ EXCEPT !.pc = "idle",
                                      !.said = IF req[r].gone THEN "nothing" ELSE "429"]]

Try(r) == /\ At(r, "try")
          /\ \/ TakeSlot(r)
             \/ ~Free /\ Go(r, "enter") /\ UNCHANGED taken
          /\ UNCHANGED <<process, conns>>

\* Mutant: the second select has no case for a freed slot.
EnterOnlyWaits(r) == /\ At(r, "enter")
                     /\ Refuse(r) \/ (~req[r].gone /\ Go(r, "wait"))
                     /\ UNCHANGED <<process, taken, conns>>

\* The second select: a slot freed in between, a wait already over (either may
\* win when both hold), or parked.
Enter(r) == /\ At(r, "enter")
            /\ \/ TakeSlot(r)
               \/ Refuse(r) /\ UNCHANGED taken
               \/ ~Free /\ ~req[r].gone /\ Go(r, "wait") /\ UNCHANGED taken
            /\ UNCHANGED <<process, conns>>

Expire(r) == /\ At(r, "wait")
             /\ Refuse(r)
             /\ UNCHANGED <<process, taken, conns>>

\* The client goes away, which cancels the request's context; a parked request
\* leaves its select with that.
HangUp(r) ==
  /\ Alive /\ req[r].pc # "idle" /\ ~req[r].gone
  /\ req' = [req EXCEPT ![r] =
                IF req[r].pc = "wait"
                  THEN [@ EXCEPT !.gone = TRUE, !.pc = "idle", !.said = "nothing"]
                  ELSE [@ EXCEPT !.gone = TRUE]]
  /\ UNCHANGED <<process, taken, conns>>

-----------------------------------------------------------------------------
(* The handler. *)

Acquire(r) == At(r, "run") /\ Go(r, "want") /\ UNCHANGED <<process, taken, conns>>

Acquired(r) == /\ At(r, "want")
               /\ open
               /\ conns < MaxConns
               /\ conns' = conns + 1
               /\ Go(r, "query")
               /\ UNCHANGED <<process, taken>>

\* Mutant: the connection is not given back.
ReleasedLeaks(r) == At(r, "query") /\ Go(r, "run") /\ UNCHANGED <<process, taken, conns>>

\* The statement is over, or BeginFunc of InTx committed or rolled back, by its
\* end or by a cancelled context: the connection is back in the pool.
Released(r) == /\ At(r, "query")
               /\ conns' = conns - 1
               /\ Go(r, "run")
               /\ UNCHANGED <<process, taken>>

\* Mutant: a panic skips the release.
GiveBackUnlessPanic(r, said) ==
  /\ req' = [req EXCEPT ![r] = [@ EXCEPT !.pc = "idle", !.slot = FALSE, !.said = said]]
  /\ taken' = IF req[r].slot /\ said # "500" THEN taken - 1 ELSE taken

\* The deferred receive from sem, on every way out of the handler.
GiveBack(r, said) ==
  LET out == [req EXCEPT ![r] = [@ EXCEPT !.pc = "idle", !.slot = FALSE, !.said = said]]
      parked == {q \in Req : req[q].pc = "wait"}
  IN \/ /\ req[r].slot /\ parked # {}
        /\ \E q \in parked : req' = [out EXCEPT ![q] = [@ EXCEPT !.pc = "run", !.slot = TRUE]]
        /\ taken' = taken
     \/ /\ ~(req[r].slot /\ parked # {})
        /\ req' = out
        /\ taken' = IF req[r].slot THEN taken - 1 ELSE taken

\* The handler returns, or panics into recoveryMiddleware's 500.
Return(r) == /\ At(r, "run")
             /\ \E said \in {"ok", "500"} : GiveBack(r, said)
             /\ UNCHANGED <<process, conns>>

\* No connection: the client is gone, or the pool was closed under the handler.
NotAcquired(r) == /\ At(r, "want")
                  /\ \/ req[r].gone /\ GiveBack(r, "500")
                     \/ ~open /\ conns < MaxConns /\ GiveBack(r, "closed pool")
                  /\ UNCHANGED <<process, conns>>

-----------------------------------------------------------------------------
(* run and Start. *)

\* The environment: numbers, and durations in milliseconds.  A variable that is
\* not set has its default; one that does not parse is refused like one out of
\* its range.
WriteTimeout == 10000

serverConfig(env) == env.port \in 1..65535 /\ env.shutdownTimeout > 0

handlerConfig(env) ==
  /\ env.colorQuota > 0 /\ env.collectionQuota > 0 /\ env.ttl > 0
  /\ env.authLimit >= 0
  /\ env.authWait >= 0 /\ env.authWait < WriteTimeout \div 2

\* The embedded files, or in a development build a directory with the page.
webFS(env) == env.webDir = "none" \/ (env.dev /\ env.webDir = "page")

tracerConfig(env) == env.slowQuery >= 0 /\ env.slowAcquire >= 0

openPool(env) == env.dsnParses /\ tracerConfig(env)

\* run up to Start: all of it is checked before the pool exists, which dials nothing.
Configure ==
  /\ main = "starting"
  /\ \E env \in Env :
       LET sound == serverConfig(env) /\ handlerConfig(env) /\ webFS(env) /\ openPool(env)
       IN \/ /\ sound /\ env.authLimit = Limit
             /\ main' = "serving" /\ open' = TRUE /\ result' = result
          \/ /\ ~sound
             /\ main' = "exited" /\ result' = "ErrConfig" /\ open' = open
  /\ UNCHANGED <<signalled, failed, taken, conns, req>>

Signal == /\ Alive /\ ~signalled
          /\ signalled' = TRUE
          /\ UNCHANGED <<main, result, failed, open, taken, conns, req>>

ListenerFails == /\ main = "serving" /\ ~failed
                 /\ failed' = TRUE
                 /\ UNCHANGED <<main, result, signalled, open, taken, conns, req>>

\* The select of Start; either case when both are ready.
StartFails == /\ main = "serving" /\ failed
              /\ main' = "closing" /\ result' = "ErrServe"
              /\ UNCHANGED <<signalled, failed, open, taken, conns, req>>

StartDrains == /\ main = "serving" /\ signalled
               /\ main' = "draining"
               /\ UNCHANGED <<result, signalled, failed, open, taken, conns, req>>

\* Shutdown returns nil when no connection has a request on it.
Drained == \A r \in Req : req[r].pc = "idle"

ShutdownDone == /\ main = "draining"
                /\ Drained
                /\ main' = "closing" /\ result' = "ok"
                /\ UNCHANGED <<signalled, failed, open, taken, conns, req>>

\* Mutant: the error of Shutdown is dropped.
ShutdownErrorDropped == /\ main = "draining"
                        /\ main' = "closing" /\ result' = "ok"
                        /\ UNCHANGED <<signalled, failed, open, taken, conns, req>>

ShutdownTimesOut == /\ main = "draining"
                    /\ main' = "closing" /\ result' = "ErrShutdown"
                    /\ UNCHANGED <<signalled, failed, open, taken, conns, req>>

\* Mutant: the pool is closed on the signal.
ClosesPoolOnSignal == main \in {"draining", "closing"}

ClosesPool == main = "closing"

\* The deferred pool.Close: no connection from here on.
ClosePool == /\ ClosesPool
             /\ open
             /\ open' = FALSE
             /\ UNCHANGED <<main, result, signalled, failed, taken, conns, req>>

\* It returns when every connection is back, and the process ends.
Exit == /\ main = "closing" /\ ~open /\ conns = 0
        /\ main' = "exited"
        /\ UNCHANGED <<result, signalled, failed, open, taken, conns, req>>

\* The second signal finds the default handling restored.
Kill == /\ Alive /\ signalled
        /\ main' = "exited" /\ result' = "killed"
        /\ UNCHANGED <<signalled, failed, open, taken, conns, req>>

-----------------------------------------------------------------------------

Init == /\ main = "starting" /\ result = "none"
        /\ signalled = FALSE /\ failed = FALSE /\ open = FALSE
        /\ taken = 0 /\ conns = 0
        /\ req = [r \in Req |-> [pc |-> "idle", slot |-> FALSE, gone |-> FALSE,
                                 said |-> "none"]]

Handler(r) == Acquire(r) \/ Acquired(r) \/ Released(r) \/ Return(r) \/ NotAcquired(r)
Limiter(r) == Arrive(r) \/ Try(r) \/ Enter(r) \/ Expire(r) \/ HangUp(r)
Run == \/ Configure \/ Signal \/ ListenerFails \/ StartFails \/ StartDrains
       \/ ShutdownDone \/ ShutdownTimesOut \/ ClosePool \/ Exit \/ Kill

Next == (\E r \in Req : Limiter(r) \/ Handler(r)) \/ Run

Spec == Init /\ [][Next]_vars

\* Timers fire, statements end, the pool serves its waiters in turn, a handler
\* issues finitely many statements, and run() is scheduled.
Fairness ==
  /\ \A r \in Req : /\ WF_vars(Try(r) \/ Enter(r) \/ Expire(r) \/ Released(r))
                    /\ SF_vars(Acquired(r) \/ NotAcquired(r))
                    /\ SF_vars(Return(r))
  /\ WF_vars(Configure \/ StartFails \/ StartDrains \/ ShutdownDone \/ ShutdownTimesOut
             \/ ClosePool \/ Exit)

FairSpec == Spec /\ Fairness

-----------------------------------------------------------------------------

Results == {"none", "ok", "ErrConfig", "ErrServe", "ErrShutdown", "killed"}

TypeOK == /\ main \in {"starting", "serving", "draining", "closing", "exited"}
          /\ result \in Results
          /\ signalled \in BOOLEAN /\ failed \in BOOLEAN /\ open \in BOOLEAN
          /\ taken \in Nat /\ conns \in Nat
          /\ req \in [Req -> Request]

Holders == {r \in Req : req[r].slot}
Querying == {r \in Req : req[r].pc = "query"}

\* Every slot of the channel belongs to a request that runs: none is leaked by
\* a panic, a time-out or a hang-up, and no more run than the cap allows.
SlotsAreHeld == taken = Cardinality(Holders) /\ taken <= Limit

\* Nobody waits for a slot while one is free.
NoIdleSlot == (\E r \in Req : req[r].pc = "wait") => taken = Limit

\* When Start returns nil and the process ends, no request was cut short.
CleanExit == main = "exited" /\ result = "ok" => \A r \in Req : req[r].pc = "idle"

\* A graceful shutdown closes the pool under no handler.
PoolOutlivesHandlers ==
  (\E r \in Req : req[r].said = "closed pool") => result \in {"ErrServe", "ErrShutdown", "killed"}

\* What makes the invariants above inductive: who may hold a slot, that the
\* pool's count is of the requests that query, and what main says of result,
\* the pool and the requests.
SlotsRun == \A r \in Holders : req[r].pc \in {"run", "want", "query"}
ConnsAreHeld == conns = Cardinality(Querying)
Phases == /\ main = "starting" => result = "none" /\ \A r \in Req : req[r].pc = "idle"
          /\ main \in {"serving", "draining"} => result = "none" /\ open
          /\ main \in {"closing", "exited"} => result # "none"
          /\ result \in {"ok", "ErrConfig"} => \A r \in Req : req[r].pc = "idle"

IInv == /\ TypeOK /\ SlotsRun /\ SlotsAreHeld /\ ConnsAreHeld
        /\ NoIdleSlot /\ Phases /\ PoolOutlivesHandlers

\* Every request that entered the process leaves it, if the process lasts.
EveryRequestEnds == \A r \in Req : req[r].pc # "idle" ~> req[r].pc = "idle" \/ ~Alive

\* A signal ends the process.
SignalEnds == signalled ~> ~Alive
=============================================================================
