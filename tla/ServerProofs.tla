---------------------------- MODULE ServerProofs ----------------------------
(***************************************************************************)
(* Proofs about Server: for any cap, any number of requests and any pool,  *)
(* no slot is leaked or exceeded, and a graceful exit cuts no request.     *)
(***************************************************************************)
EXTENDS Server, FiniteSetTheorems, TLAPS

LEMMA HoldersFinite == IsFiniteSet(Holders) /\ IsFiniteSet(Querying)
<1>1. Holders \in SUBSET Req /\ Querying \in SUBSET Req
  BY DEF Holders, Querying
<1> QED BY <1>1, FS_Subset, ReqAssumption

\* Counting a set of requests as one more, or one less, than another.
LEMMA OneMore ==
  ASSUME NEW S, IsFiniteSet(S), NEW x, x \notin S
  PROVE  Cardinality(S) \in Nat /\ Cardinality(S \cup {x}) = Cardinality(S) + 1
BY FS_AddElement, FS_CardinalityType

LEMMA OneLess ==
  ASSUME NEW S, IsFiniteSet(S), NEW x \in S
  PROVE  /\ Cardinality(S) \in Nat
         /\ Cardinality(S) > 0
         /\ Cardinality(S \ {x}) = Cardinality(S) - 1
BY FS_RemoveElement, FS_CardinalityType, FS_EmptySet

LEMMA SameCount ==
  ASSUME NEW S, IsFiniteSet(S), NEW x \in S, NEW y, y \notin S
  PROVE  Cardinality((S \ {x}) \cup {y}) = Cardinality(S)
<1>1. IsFiniteSet(S \ {x}) /\ y \notin S \ {x}
  BY FS_RemoveElement
<1> QED BY <1>1, OneLess, OneMore

-----------------------------------------------------------------------------
(* The steps of a request. *)

\* A step that moves one request, seen from its new record.
LEMMA Moved ==
  ASSUME req \in [Req -> Request], NEW r \in Req, NEW new \in Request,
         req' = [req EXCEPT ![r] = new]
  PROVE  /\ req' \in [Req -> Request]
         /\ req'[r] = new
         /\ \A q \in Req \ {r} : req'[q] = req[q]
         /\ Holders' = IF new.slot THEN Holders \cup {r} ELSE Holders \ {r}
         /\ Querying' = IF new.pc = "query" THEN Querying \cup {r} ELSE Querying \ {r}
<1>1. req'[r] = new /\ \A q \in Req \ {r} : req'[q] = req[q]
  OBVIOUS
<1>2. req' \in [Req -> Request]
  OBVIOUS
<1>3. Holders' = IF new.slot THEN Holders \cup {r} ELSE Holders \ {r}
  BY <1>1 DEF Holders
<1>4. Querying' = IF new.pc = "query" THEN Querying \cup {r} ELSE Querying \ {r}
  BY <1>1 DEF Querying
<1> QED BY <1>1, <1>2, <1>3, <1>4

\* A slot taken in either select of acquire.
LEMMA TakeSlotInv ==
  ASSUME IInv, NEW r \in Req, TakeSlot(r), req[r].pc \in {"try", "enter"}
  PROVE  /\ req' \in [Req -> Request] /\ taken' \in Nat
         /\ SlotsRun' /\ SlotsAreHeld' /\ NoIdleSlot' /\ Querying' = Querying
         /\ \A q \in Req : req'[q].said = req[q].said
<1> DEFINE new == [req[r] EXCEPT !.pc = "run", !.slot = TRUE]
<1>0. req \in [Req -> Request] /\ taken \in Nat
  BY DEF IInv, TypeOK
<1>1. /\ new \in Request /\ new.pc = "run" /\ new.slot = TRUE
      /\ new.said = req[r].said
  BY <1>0 DEF Request, Pc
<1>2. req' = [req EXCEPT ![r] = new] /\ taken' = taken + 1 /\ taken < Limit
  BY DEF TakeSlot, Free
<1> HIDE DEF new
<1>3. /\ req' \in [Req -> Request]
      /\ req'[r] = new
      /\ \A q \in Req \ {r} : req'[q] = req[q]
      /\ Holders' = Holders \cup {r}
      /\ Querying' = Querying \ {r}
  BY <1>0, <1>1, <1>2, Moved
<1>4. r \notin Holders /\ r \notin Querying
  BY DEF IInv, SlotsRun, Querying
<1>5. SlotsAreHeld' /\ taken' \in Nat
  BY <1>0, <1>2, <1>3, <1>4, HoldersFinite, OneMore, LimitAssumption DEF IInv, SlotsAreHeld
<1>6. SlotsRun'
  BY <1>1, <1>3 DEF IInv, SlotsRun, Holders
<1>7. NoIdleSlot'
  BY <1>0, <1>1, <1>2, <1>3, LimitAssumption DEF IInv, NoIdleSlot
<1> QED BY <1>1, <1>3, <1>4, <1>5, <1>6, <1>7

\* A step that leaves the slots as they are.
LEMMA SlotKept ==
  ASSUME IInv, NEW r \in Req, NEW new \in Request, req' = [req EXCEPT ![r] = new],
         taken' = taken, new.slot = req[r].slot,
         new.slot => new.pc \in {"run", "want", "query"},
         new.pc = "wait" => taken = Limit
  PROVE  /\ req' \in [Req -> Request] /\ taken' \in Nat
         /\ SlotsRun' /\ SlotsAreHeld' /\ NoIdleSlot'
         /\ Querying' = IF new.pc = "query" THEN Querying \cup {r} ELSE Querying \ {r}
         /\ req'[r] = new
         /\ \A q \in Req \ {r} : req'[q] = req[q]
<1>0. req \in [Req -> Request] /\ taken \in Nat
  BY DEF IInv, TypeOK
<1>1. /\ req' \in [Req -> Request]
      /\ req'[r] = new
      /\ \A q \in Req \ {r} : req'[q] = req[q]
      /\ Holders' = IF new.slot THEN Holders \cup {r} ELSE Holders \ {r}
      /\ Querying' = IF new.pc = "query" THEN Querying \cup {r} ELSE Querying \ {r}
  BY <1>0, Moved
<1>2. Holders' = Holders
  BY <1>1 DEF Holders
<1>3. SlotsAreHeld'
  BY <1>2 DEF IInv, SlotsAreHeld
<1>4. SlotsRun'
  BY <1>1, <1>2 DEF IInv, SlotsRun, Holders
<1>5. NoIdleSlot'
  BY <1>1 DEF IInv, NoIdleSlot
<1> QED BY <1>0, <1>1, <1>3, <1>4, <1>5

\* The handler ends: its slot goes to a parked request, or back, or it had none.
LEMMA GiveBackInv ==
  ASSUME IInv, NEW r \in Req, NEW said \in Said, GiveBack(r, said),
         req[r].pc \in {"run", "want"}
  PROVE  /\ req' \in [Req -> Request] /\ taken' \in Nat
         /\ SlotsRun' /\ SlotsAreHeld' /\ NoIdleSlot' /\ Querying' = Querying
         /\ \A q \in Req \ {r} : req'[q].said = req[q].said
         /\ req'[r].said = said
<1> DEFINE end == [req[r] EXCEPT !.pc = "idle", !.slot = FALSE, !.said = said]
           out == [req EXCEPT ![r] = end]
<1>0. req \in [Req -> Request] /\ taken \in Nat
  BY DEF IInv, TypeOK
<1>1. end \in Request /\ end.pc = "idle" /\ end.slot = FALSE /\ end.said = said
  BY <1>0 DEF Request, Pc, Said
<1>2. r \notin Querying
  BY DEF Querying
<1>3. CASE req[r].slot /\ \E q \in Req : req[q].pc = "wait"
  <2>1. PICK q \in Req : /\ req[q].pc = "wait"
                         /\ req' = [out EXCEPT ![q] = [@ EXCEPT !.pc = "run", !.slot = TRUE]]
                         /\ taken' = taken
    BY <1>3 DEF GiveBack
  <2>2. q # r /\ q \notin Holders /\ r \in Holders /\ q \notin Querying
    BY <1>3, <2>1 DEF IInv, SlotsRun, Holders, Querying
  <2> DEFINE new == [req[q] EXCEPT !.pc = "run", !.slot = TRUE]
  <2>3. /\ new \in Request /\ new.pc = "run" /\ new.slot = TRUE
        /\ new.said = req[q].said
    BY <1>0, <2>1 DEF Request, Pc
  <2>4. out \in [Req -> Request] /\ out[q] = req[q] /\ req' = [out EXCEPT ![q] = new]
    BY <1>0, <1>1, <2>1, <2>2
  <2> HIDE DEF new, end
  <2>5. /\ req' \in [Req -> Request]
        /\ req'[q] = new /\ req'[r] = end
        /\ \A p \in Req \ {q, r} : req'[p] = req[p]
    BY <1>0, <1>1, <2>2, <2>3, <2>4
  <2>6. Holders' = (Holders \ {r}) \cup {q} /\ Querying' = Querying
    BY <1>1, <1>2, <2>2, <2>3, <2>5 DEF Holders, Querying
  <2>7. SlotsAreHeld' /\ taken' \in Nat
    BY <1>0, <2>1, <2>2, <2>6, HoldersFinite, SameCount DEF IInv, SlotsAreHeld
  <2>8. SlotsRun'
    BY <2>3, <2>5, <2>6 DEF IInv, SlotsRun, Holders
  <2>9. NoIdleSlot'
    BY <2>1 DEF IInv, NoIdleSlot
  <2> QED BY <1>1, <2>3, <2>5, <2>6, <2>7, <2>8, <2>9
<1>4. CASE ~(req[r].slot /\ \E q \in Req : req[q].pc = "wait")
  <2>1. /\ req' = out
        /\ taken' = IF req[r].slot THEN taken - 1 ELSE taken
    BY <1>4 DEF GiveBack
  <2> HIDE DEF end
  <2>2. /\ req' \in [Req -> Request]
        /\ req'[r] = end
        /\ \A q \in Req \ {r} : req'[q] = req[q]
        /\ Holders' = Holders \ {r}
        /\ Querying' = Querying \ {r}
    BY <1>0, <1>1, <2>1, Moved
  <2>3. SlotsAreHeld' /\ taken' \in Nat
    <3>1. CASE req[r].slot
      <4>1. r \in Holders
        BY <3>1 DEF Holders
      <4>2. /\ Cardinality(Holders) \in Nat /\ Cardinality(Holders) > 0
            /\ Cardinality(Holders \ {r}) = Cardinality(Holders) - 1
        BY <4>1, HoldersFinite, OneLess
      <4> QED BY <2>1, <2>2, <3>1, <4>2, LimitAssumption DEF IInv, SlotsAreHeld
    <3>2. CASE ~req[r].slot
      <4>1. Holders' = Holders
        BY <2>2, <3>2 DEF Holders
      <4> QED BY <1>0, <2>1, <3>2, <4>1 DEF IInv, SlotsAreHeld
    <3> QED BY <3>1, <3>2
  <2>4. SlotsRun'
    BY <2>2 DEF IInv, SlotsRun, Holders
  <2>5. NoIdleSlot'
    BY <1>1, <1>4, <2>1, <2>2 DEF IInv, NoIdleSlot
  <2> QED BY <1>1, <1>2, <2>2, <2>3, <2>4, <2>5
<1> QED BY <1>3, <1>4

\* A step of a request leaves what main says of the requests true.
LEMMA ProcessKept ==
  ASSUME IInv, UNCHANGED process, result \notin {"ok", "ErrConfig"} /\ main # "starting",
         \A q \in Req : req'[q].said = "closed pool" => req[q].said = "closed pool" \/ ~open
  PROVE  Phases' /\ PoolOutlivesHandlers'
BY DEF IInv, TypeOK, Results, Phases, PoolOutlivesHandlers, process

LEMMA NotOk ==
  ASSUME IInv, NEW r \in Req, req[r].pc # "idle"
  PROVE  result \notin {"ok", "ErrConfig"} /\ main # "starting"
BY DEF IInv, Phases

LEMMA InitInv == Init => IInv
<1> SUFFICES ASSUME Init PROVE IInv
  OBVIOUS
<1> USE DEF Init
<1>1. Holders = {} /\ Querying = {}
  BY DEF Holders, Querying
<1>2. TypeOK
  BY DEF TypeOK, Request, Pc, Said, Results
<1>3. SlotsRun /\ SlotsAreHeld /\ ConnsAreHeld
  BY <1>1, FS_EmptySet, LimitAssumption DEF SlotsRun, SlotsAreHeld, ConnsAreHeld
<1>4. NoIdleSlot /\ Phases /\ PoolOutlivesHandlers
  BY DEF NoIdleSlot, Phases, PoolOutlivesHandlers
<1> QED BY <1>2, <1>3, <1>4 DEF IInv

\* The frame of every request's step, from what it does to slots and connections.
LEMMA RequestFrame ==
  ASSUME IInv, UNCHANGED process, result \notin {"ok", "ErrConfig"} /\ main # "starting",
         req' \in [Req -> Request], taken' \in Nat, conns' \in Nat,
         SlotsRun', SlotsAreHeld', NoIdleSlot', ConnsAreHeld',
         \A q \in Req : req'[q].said = "closed pool" => req[q].said = "closed pool" \/ ~open
  PROVE  IInv'
<1>1. Phases' /\ PoolOutlivesHandlers'
  BY ProcessKept
<1>2. TypeOK'
  BY DEF IInv, TypeOK, process
<1> QED BY <1>1, <1>2 DEF IInv

\* A step that moves one request and touches neither slots nor connections.
LEMMA OnlyMoves ==
  ASSUME IInv, NEW r \in Req, NEW new \in Request, req' = [req EXCEPT ![r] = new],
         UNCHANGED <<process, taken, conns>>, result \notin {"ok", "ErrConfig"} /\ main # "starting",
         new.slot = req[r].slot,
         new.slot => new.pc \in {"run", "want", "query"},
         new.pc = "wait" => taken = Limit,
         new.pc = "query" <=> req[r].pc = "query",
         new.said \in {req[r].said, "none", "ok", "500", "429", "nothing"}
  PROVE  IInv'
<1>1. /\ req' \in [Req -> Request] /\ taken' \in Nat
      /\ SlotsRun' /\ SlotsAreHeld' /\ NoIdleSlot'
      /\ Querying' = IF new.pc = "query" THEN Querying \cup {r} ELSE Querying \ {r}
      /\ req'[r] = new
      /\ \A q \in Req \ {r} : req'[q] = req[q]
  BY SlotKept
<1>2. Querying' = Querying
  BY <1>1 DEF Querying
<1>3. ConnsAreHeld' /\ conns' \in Nat
  BY <1>2 DEF IInv, TypeOK, ConnsAreHeld
<1>4. \A q \in Req : req'[q].said = "closed pool" => req[q].said = "closed pool"
  BY <1>1
<1> QED BY <1>1, <1>3, <1>4, RequestFrame

LEMMA LimiterInv ==
  ASSUME IInv, NEW r \in Req, Limiter(r)
  PROVE  IInv'
<1> USE DEF At, Go, Pc, Said
<1>0. req \in [Req -> Request] /\ req[r] \in Request /\ taken \in Nat
  BY DEF IInv, TypeOK
<1>a. req[r].slot => req[r].pc \in {"run", "want", "query"}
  BY DEF IInv, SlotsRun, Holders
<1>b. ~Free => taken = Limit
  BY <1>0, LimitAssumption DEF IInv, SlotsAreHeld, Free
<1>1. CASE Arrive(r)
  <2> DEFINE new == [pc |-> IF r \in Limited /\ Limit > 0 THEN "try" ELSE "run",
                     slot |-> FALSE, gone |-> FALSE, said |-> "none"]
  <2>1. result \notin {"ok", "ErrConfig"} /\ main # "starting"
    BY <1>1 DEF Arrive, IInv, Phases
  <2>2. /\ req' = [req EXCEPT ![r] = new] /\ UNCHANGED <<process, taken, conns>>
        /\ req[r].pc = "idle"
    BY <1>1 DEF Arrive
  <2>3. /\ new \in Request /\ new.pc \in {"try", "run"} /\ new.slot = FALSE
        /\ new.said = "none"
    BY DEF Request
  <2>4. req[r].slot = FALSE
    BY <1>0, <1>a, <2>2 DEF Request
  <2> HIDE DEF new
  <2> QED BY <2>1, <2>2, <2>3, <2>4, OnlyMoves
<1>2. ASSUME req[r].pc \in {"try", "enter"}, TakeSlot(r), UNCHANGED <<process, conns>>
      PROVE  IInv'
  <2>1. result \notin {"ok", "ErrConfig"} /\ main # "starting"
    BY <1>2, NotOk
  <2>2. /\ req' \in [Req -> Request] /\ taken' \in Nat
        /\ SlotsRun' /\ SlotsAreHeld' /\ NoIdleSlot' /\ Querying' = Querying
        /\ \A q \in Req : req'[q].said = req[q].said
    BY <1>2, TakeSlotInv
  <2>3. ConnsAreHeld' /\ conns' \in Nat
    BY <1>2, <2>2 DEF IInv, TypeOK, ConnsAreHeld
  <2> QED BY <1>2, <2>1, <2>2, <2>3, RequestFrame
<1>3. ASSUME req[r].pc \in {"enter", "wait"}, Refuse(r), UNCHANGED <<process, taken, conns>>
      PROVE  IInv'
  <2> DEFINE new == [req[r] EXCEPT !.pc = "idle",
                                   !.said = IF req[r].gone THEN "nothing" ELSE "429"]
  <2>1. result \notin {"ok", "ErrConfig"} /\ main # "starting"
    BY <1>3, NotOk
  <2>2. req' = [req EXCEPT ![r] = new]
    BY <1>3 DEF Refuse
  <2>3. /\ new \in Request /\ new.pc = "idle" /\ new.slot = req[r].slot
        /\ new.said \in {"429", "nothing"}
    BY <1>0 DEF Request
  <2>4. ~req[r].slot
    BY <1>3, <1>a
  <2> HIDE DEF new
  <2> QED BY <1>3, <2>1, <2>2, <2>3, <2>4, OnlyMoves
<1>4. ASSUME req[r].pc \in {"try", "enter"}, NEW pc \in {"enter", "wait"}, Go(r, pc), ~Free,
             UNCHANGED <<process, taken, conns>>
      PROVE  IInv'
  <2> DEFINE new == [req[r] EXCEPT !.pc = pc]
  <2>1. result \notin {"ok", "ErrConfig"} /\ main # "starting"
    BY <1>4, NotOk
  <2>2. req' = [req EXCEPT ![r] = new]
    BY <1>4
  <2>3. /\ new \in Request /\ new.pc = pc /\ new.slot = req[r].slot
        /\ new.said = req[r].said
    BY <1>0 DEF Request
  <2>4. ~req[r].slot
    BY <1>4, <1>a
  <2> HIDE DEF new
  <2> QED BY <1>4, <1>b, <2>1, <2>2, <2>3, <2>4, OnlyMoves
<1>5. CASE Try(r)
  BY <1>5, <1>2, <1>4 DEF Try
<1>6. CASE Enter(r)
  BY <1>6, <1>2, <1>3, <1>4 DEF Enter
<1>7. CASE Expire(r)
  BY <1>7, <1>3 DEF Expire
<1>8. CASE HangUp(r)
  <2> DEFINE new == IF req[r].pc = "wait"
                      THEN [req[r] EXCEPT !.gone = TRUE, !.pc = "idle", !.said = "nothing"]
                      ELSE [req[r] EXCEPT !.gone = TRUE]
  <2>1. result \notin {"ok", "ErrConfig"} /\ main # "starting"
    BY <1>8, NotOk DEF HangUp
  <2>2. req' = [req EXCEPT ![r] = new] /\ UNCHANGED <<process, taken, conns>>
    BY <1>8 DEF HangUp
  <2>3. /\ new \in Request /\ new.slot = req[r].slot
        /\ new.pc = IF req[r].pc = "wait" THEN "idle" ELSE req[r].pc
        /\ new.said \in {req[r].said, "nothing"}
    BY <1>0 DEF Request
  <2> HIDE DEF new
  <2> QED BY <1>a, <2>1, <2>2, <2>3, OnlyMoves
<1> QED BY <1>1, <1>5, <1>6, <1>7, <1>8 DEF Limiter

LEMMA HandlerInv ==
  ASSUME IInv, NEW r \in Req, Handler(r)
  PROVE  IInv'
<1> USE DEF At, Go, Pc, Said
<1>0. req \in [Req -> Request] /\ req[r] \in Request /\ taken \in Nat /\ conns \in Nat
  BY DEF IInv, TypeOK
<1>1. result \notin {"ok", "ErrConfig"} /\ main # "starting"
  BY NotOk DEF Handler, Acquire, Acquired, Released, Return, NotAcquired
<1> DEFINE new(pc) == [req[r] EXCEPT !.pc = pc]
<1>2. \A pc \in Pc : /\ new(pc) \in Request /\ new(pc).pc = pc
                     /\ new(pc).slot = req[r].slot /\ new(pc).said = req[r].said
  BY <1>0 DEF Request
<1>3. CASE Acquire(r)
  <2>1. /\ req' = [req EXCEPT ![r] = new("want")] /\ UNCHANGED <<process, taken, conns>>
        /\ req[r].pc = "run"
    BY <1>3 DEF Acquire
  <2> HIDE DEF new
  <2> QED BY <1>1, <1>2, <2>1, OnlyMoves
<1>4. ASSUME NEW pc \in {"run", "query"}, req' = [req EXCEPT ![r] = new(pc)],
             UNCHANGED <<process, taken>>, conns' \in Nat, ConnsAreHeld'
      PROVE  IInv'
  <2> HIDE DEF new
  <2>1. /\ req' \in [Req -> Request] /\ taken' \in Nat
        /\ SlotsRun' /\ SlotsAreHeld' /\ NoIdleSlot'
        /\ req'[r] = new(pc)
        /\ \A q \in Req \ {r} : req'[q] = req[q]
    BY <1>2, <1>4, SlotKept
  <2>2. \A q \in Req : req'[q].said = "closed pool" => req[q].said = "closed pool"
    BY <1>2, <2>1
  <2> QED BY <1>1, <1>4, <2>1, <2>2, RequestFrame
<1>5. CASE Acquired(r)
  <2>1. /\ req' = [req EXCEPT ![r] = new("query")] /\ UNCHANGED <<process, taken>>
        /\ conns' = conns + 1
        /\ r \notin Querying
    BY <1>5 DEF Acquired, Querying
  <2> HIDE DEF new
  <2>2. Querying' = Querying \cup {r}
    BY <1>0, <1>2, <2>1, Moved
  <2>3. ConnsAreHeld' /\ conns' \in Nat
    BY <1>0, <2>1, <2>2, HoldersFinite, OneMore DEF IInv, ConnsAreHeld
  <2> QED BY <1>4, <2>1, <2>3
<1>6. CASE Released(r)
  <2>1. /\ req' = [req EXCEPT ![r] = new("run")] /\ UNCHANGED <<process, taken>>
        /\ conns' = conns - 1
        /\ r \in Querying
    BY <1>6 DEF Released, Querying
  <2> HIDE DEF new
  <2>2. Querying' = Querying \ {r}
    BY <1>0, <1>2, <2>1, Moved
  <2>3. /\ Cardinality(Querying) \in Nat /\ Cardinality(Querying) > 0
        /\ Cardinality(Querying \ {r}) = Cardinality(Querying) - 1
    BY <2>1, HoldersFinite, OneLess
  <2>4. ConnsAreHeld' /\ conns' \in Nat
    BY <1>0, <2>1, <2>2, <2>3 DEF IInv, ConnsAreHeld
  <2> QED BY <1>4, <2>1, <2>4
<1>7. ASSUME NEW said \in Said, GiveBack(r, said), req[r].pc \in {"run", "want"},
             said = "closed pool" => ~open, UNCHANGED <<process, conns>>
      PROVE  IInv'
  <2>1. /\ req' \in [Req -> Request] /\ taken' \in Nat
        /\ SlotsRun' /\ SlotsAreHeld' /\ NoIdleSlot' /\ Querying' = Querying
        /\ \A q \in Req \ {r} : req'[q].said = req[q].said
        /\ req'[r].said = said
    BY <1>7, GiveBackInv
  <2>2. ConnsAreHeld' /\ conns' \in Nat
    BY <1>0, <1>7, <2>1 DEF IInv, ConnsAreHeld
  <2>3. \A q \in Req : req'[q].said = "closed pool" => req[q].said = "closed pool" \/ ~open
    BY <1>7, <2>1
  <2> QED BY <1>1, <1>7, <2>1, <2>2, <2>3, RequestFrame
<1>8. CASE Return(r)
  BY <1>7, <1>8 DEF Return
<1>9. CASE NotAcquired(r)
  BY <1>7, <1>9 DEF NotAcquired
<1> QED BY <1>3, <1>5, <1>6, <1>8, <1>9 DEF Handler

LEMMA RunInv ==
  ASSUME IInv, Run
  PROVE  IInv'
<1>1. UNCHANGED <<taken, conns, req>>
  BY DEF Run, Configure, Signal, ListenerFails, StartFails, StartDrains, ShutdownDone,
         ShutdownTimesOut, ClosePool, Exit, Kill
<1>2. Holders' = Holders /\ Querying' = Querying
  BY <1>1 DEF Holders, Querying
<1>3. SlotsRun' /\ SlotsAreHeld' /\ ConnsAreHeld' /\ NoIdleSlot'
  BY <1>1, <1>2 DEF IInv, SlotsRun, SlotsAreHeld, ConnsAreHeld, NoIdleSlot
<1>4. TypeOK' /\ Phases' /\ PoolOutlivesHandlers'
  BY <1>1 DEF IInv, TypeOK, Results, Phases, PoolOutlivesHandlers, Alive, Run, Configure, Signal,
     ListenerFails, StartFails, StartDrains, ShutdownDone, Drained, ShutdownTimesOut,
     ClosePool, ClosesPool, Exit, Kill
<1> QED BY <1>3, <1>4 DEF IInv

-----------------------------------------------------------------------------

\* The inductive invariant of the process.
THEOREM ServerInvariance == Spec => []IInv
<1>1. Init => IInv
  BY InitInv
<1>2. IInv /\ [Next]_vars => IInv'
  <2>1. ASSUME IInv, UNCHANGED vars PROVE IInv'
    <3>1. Holders' = Holders /\ Querying' = Querying
      BY <2>1 DEF vars, Holders, Querying
    <3> QED BY <2>1, <3>1 DEF vars, IInv, TypeOK, SlotsRun, SlotsAreHeld, ConnsAreHeld,
                              NoIdleSlot, Phases, PoolOutlivesHandlers
  <2> QED BY <2>1, LimiterInv, HandlerInv, RunInv DEF Next
<1> QED BY <1>1, <1>2, PTL DEF Spec

\* No slot is leaked by a panic, a time-out or a hang-up, and the cap holds.
THEOREM SlotsNeverLeak == Spec => []SlotsAreHeld
<1>1. IInv => SlotsAreHeld
  BY DEF IInv
<1> QED BY <1>1, ServerInvariance, PTL

\* Nobody waits for a slot while one is free.
THEOREM WaitersNeeded == Spec => []NoIdleSlot
<1>1. IInv => NoIdleSlot
  BY DEF IInv
<1> QED BY <1>1, ServerInvariance, PTL

\* A process that ends with nil from Start has cut no request.
THEOREM GracefulExit == Spec => []CleanExit
<1>1. IInv => CleanExit
  BY DEF IInv, Phases, CleanExit
<1> QED BY <1>1, ServerInvariance, PTL

\* Only after ErrServe or ErrShutdown, or a second signal, does a handler find
\* the pool closed.
THEOREM PoolClosedLast == Spec => []PoolOutlivesHandlers
<1>1. IInv => PoolOutlivesHandlers
  BY DEF IInv
<1> QED BY <1>1, ServerInvariance, PTL
=============================================================================
