---------------------------- MODULE HandlersProofs ----------------------------
(* Theorems about one request: the handlers behind the chain are a Middleware *)
(* at work, and what Middleware promises of the log and of panics follows;    *)
(* what a route may serve, answer and set follows from the order of its       *)
(* stages.                                                                    *)
EXTENDS Handlers, SequenceTheorems, TLAPS

-----------------------------------------------------------------------------
(* Middleware.  What the recorder notes is what net/http sent.                *)

Same == /\ rec.bytes = sent.bytes
        /\ rec.wrote \/ pc = "over" => rec.status = sent.status
        /\ ~rec.wrote => rec.status = 200

\* The line repeats the recorder; without a header it tells of the hang-up.
Lined == pc \in {"logged", "over"} =>
           /\ line # None /\ line.status = rec.status /\ line.bytes = rec.bytes
           /\ ~rec.wrote => line.aborted

Excused == pc = "returned" => rec.wrote \/ gone

\* A panic before the header keeps the connection until it is answered.
Recovered ==
  /\ pc = "handler" => panic = None
  /\ pc = "panicking" => panic = (IF rec.wrote THEN "after" ELSE "before") /\ ~closing
  /\ panic # "before" => ~closing
  /\ pc \in {"returned", "logged", "over"} /\ panic = "before" =>
       closing /\ rec.wrote /\ rec.status = 500

MInv == M!TypeOK /\ Same /\ Lined /\ Excused /\ Recovered

USE HandlersAssumption DEF HandlersAssumption

LEMMA NoneIsNoText == None # "before" /\ None # "after"
  OBVIOUS

(* statusRecorder.WriteHeader keeps the first status and the bytes.           *)
LEMMA NotedFields ==
  ASSUME NEW r \in M!Recorder, NEW code \in 200..599
  PROVE  /\ M!Noted(r, code) \in M!Recorder
         /\ M!Noted(r, code).wrote /\ M!Noted(r, code).bytes = r.bytes
         /\ M!Noted(r, code).status = IF r.wrote THEN r.status ELSE code
  <1>1. CASE r.wrote   BY <1>1 DEF M!Noted, M!Recorder
  <1>2. CASE ~r.wrote
    <2>1. M!Noted(r, code) = [status |-> code, bytes |-> r.bytes, wrote |-> TRUE]
      BY <1>2 DEF M!Noted, M!Recorder
    <2> QED BY <1>2, <2>1 DEF M!Recorder
  <1> QED BY <1>1, <1>2

(* net/http keeps the first status, too.                                      *)
LEMMA CommitsFields ==
  ASSUME NEW s \in M!Sent, NEW code \in 200..599
  PROVE  /\ M!Commits(s, code) \in M!Sent
         /\ M!Commits(s, code).bytes = s.bytes
         /\ M!Commits(s, code).status = IF s.status = None THEN code ELSE s.status
  BY DEF M!Commits, M!Sent

LEMMA MInit == M!Init => MInv
  <1> SUFFICES ASSUME M!Init PROVE MInv  OBVIOUS
  <1>1. rec \in M!Recorder /\ sent \in M!Sent  BY DEF M!Init, M!Recorder, M!Sent
  <1>2. pc = "handler" /\ ~rec.wrote /\ sent.status = None  BY DEF M!Init
  <1>3. M!TypeOK  BY <1>1, <1>2 DEF M!Init, M!TypeOK
  <1>4. Same  BY DEF M!Init, Same
  <1> QED BY <1>2, <1>3, <1>4 DEF M!Init, MInv, Lined, Excused, Recovered

LEMMA MStep == MInv /\ [M!Next]_(M!vars) => MInv'
  <1> SUFFICES ASSUME MInv, [M!Next]_(M!vars) PROVE MInv'  OBVIOUS
  <1> USE DEF MInv
  <1>1. ASSUME NEW code \in 200..599, M!WriteHeader(code) PROVE MInv'
    <2>1. CASE rec.wrote
      BY <1>1, <2>1 DEF M!WriteHeader, M!Noted, M!Commits, M!TypeOK, Same, Lined, Excused, Recovered
    <2>2. CASE ~rec.wrote
      <3>1. /\ rec' = [status |-> code, bytes |-> rec.bytes, wrote |-> TRUE]
            /\ sent' = [status |-> code, bytes |-> sent.bytes]
        BY <1>1, <2>2 DEF M!WriteHeader, M!Noted, M!Commits, M!TypeOK, M!Recorder, M!Sent
      <3>2. rec' \in M!Recorder /\ sent' \in M!Sent
        BY <1>1, <3>1 DEF M!TypeOK, M!Recorder, M!Sent
      <3>3. rec'.wrote /\ sent'.status # None  BY <1>1, <3>1
      <3>4. M!TypeOK'  BY <1>1, <3>2, <3>3 DEF M!WriteHeader, M!TypeOK
      <3>5. Same'  BY <1>1, <3>1 DEF Same
      <3> QED BY <1>1, <3>4, <3>5 DEF M!WriteHeader, Lined, Excused, Recovered
    <2> QED BY <2>1, <2>2
  <1>2. ASSUME NEW n \in 0..MaxBytes, M!Write(n) PROVE MInv'
    <2>1. /\ M!Noted(rec, 200) \in M!Recorder
          /\ M!Noted(rec, 200).wrote /\ M!Noted(rec, 200).bytes = rec.bytes
          /\ M!Noted(rec, 200).status = IF rec.wrote THEN rec.status ELSE 200
      BY NotedFields DEF M!TypeOK
    <2>2. /\ M!Commits(sent, 200) \in M!Sent
          /\ M!Commits(sent, 200).bytes = sent.bytes
          /\ M!Commits(sent, 200).status = IF sent.status = None THEN 200 ELSE sent.status
      BY CommitsFields DEF M!TypeOK
    <2>3. PICK m \in 0..n : /\ rec' = [M!Noted(rec, 200) EXCEPT !.bytes = @ + m]
                            /\ sent' = [M!Commits(sent, 200) EXCEPT !.bytes = @ + m]
      BY <1>2 DEF M!Write, M!Takes
    <2>4. /\ rec' \in M!Recorder /\ rec'.bytes = rec.bytes + m
          /\ rec'.wrote /\ rec'.status = M!Noted(rec, 200).status
      BY <1>2, <2>1, <2>3 DEF M!Write, M!TypeOK, M!Recorder, M!Sent, Same
    <2>5. /\ sent' \in M!Sent /\ sent'.bytes = sent.bytes + m
          /\ sent'.status = M!Commits(sent, 200).status
      BY <1>2, <2>2, <2>3 DEF M!Write, M!TypeOK, M!Sent
    <2>6. M!TypeOK'  BY <1>2, <2>2, <2>4, <2>5 DEF M!Write, M!TypeOK
    <2>7. Same'  BY <1>2, <2>1, <2>2, <2>4, <2>5 DEF M!Write, M!TypeOK, Same
    <2> QED BY <1>2, <2>6, <2>7 DEF M!Write, Lined, Excused, Recovered
  <1>3. CASE M!Recover
    <2>1. /\ M!Noted(rec, 500) \in M!Recorder
          /\ M!Noted(rec, 500).wrote /\ M!Noted(rec, 500).bytes = rec.bytes
          /\ M!Noted(rec, 500).status = IF rec.wrote THEN rec.status ELSE 500
      BY NotedFields DEF M!TypeOK
    <2>2. /\ M!Commits(sent, 500) \in M!Sent
          /\ M!Commits(sent, 500).bytes = sent.bytes
          /\ M!Commits(sent, 500).status = IF sent.status = None THEN 500 ELSE sent.status
      BY CommitsFields DEF M!TypeOK
    <2>3. /\ rec' \in M!Recorder /\ sent' \in M!Sent
          /\ rec'.wrote /\ sent'.status # None
      BY <1>3, <2>1, <2>2 DEF M!Recover, M!TypeOK
    <2>7. M!TypeOK'  BY <1>3, <2>3 DEF M!Recover, M!TypeOK
    <2>4. Same'  BY <1>3, <2>1, <2>2 DEF M!Recover, M!TypeOK, Same
    <2>5. Lined' /\ Excused'  BY <1>3, <2>1 DEF M!Recover, Lined, Excused
    <2>6. Recovered'  BY <1>3, <2>1, NoneIsNoText DEF M!Recover, Recovered
    <2> QED BY <2>4, <2>5, <2>6, <2>7
  <1>4. CASE M!Finish
    <2>1. /\ M!Commits(sent, 200) \in M!Sent
          /\ M!Commits(sent, 200).bytes = sent.bytes
          /\ M!Commits(sent, 200).status = IF sent.status = None THEN 200 ELSE sent.status
      BY CommitsFields DEF M!TypeOK
    <2>2. M!TypeOK'  BY <1>4, <2>1 DEF M!Finish, M!TypeOK
    <2>3. Same'  BY <1>4, <2>1 DEF M!Finish, M!TypeOK, Same
    <2> QED BY <1>4, <2>2, <2>3 DEF M!Finish, Lined, Excused, Recovered
  <1>5. CASE M!Return
    <2>1. M!TypeOK' /\ Same'  BY <1>5 DEF M!Return, M!TypeOK, Same
    <2> QED BY <1>5, <2>1, NoneIsNoText DEF M!Return, Lined, Excused, Recovered
  <1>6. CASE M!Panic
    <2>1. M!TypeOK'  BY <1>6 DEF M!Panic, M!TypeOK
    <2>2. Same'  BY <1>6 DEF M!Panic, Same
    <2>3. ~closing  BY <1>6, NoneIsNoText DEF M!Panic, Recovered
    <2> QED BY <1>6, <2>1, <2>2, <2>3 DEF M!Panic, Lined, Excused, Recovered
  <1>7. CASE M!Log
    <2>1. M!TypeOK'  BY <1>7 DEF M!Log, M!TypeOK, M!Recorder, M!Line
    <2>2. line' \in M!Line  BY <1>7 DEF M!Log, M!TypeOK, M!Recorder, M!Line
    <2>3. Lined'  BY <1>7, <2>2 DEF M!Log, Lined, Excused
    <2> QED BY <1>7, <2>1, <2>3 DEF M!Log, Same, Excused, Recovered
  <1>8. CASE M!Abort
    <2>1. M!TypeOK' /\ Same'  BY <1>8 DEF M!Abort, M!TypeOK, Same
    <2> QED BY <1>8, <2>1 DEF M!Abort, Lined, Excused, Recovered
  <1>9. CASE M!HangUp
    <2>1. M!TypeOK' /\ Same'  BY <1>9 DEF M!HangUp, M!TypeOK, Same
    <2> QED BY <1>9, <2>1 DEF M!HangUp, Lined, Excused, Recovered
  <1>10. CASE UNCHANGED M!vars
    BY <1>10 DEF M!vars, M!TypeOK, Same, Lined, Excused, Recovered
  <1> QED BY <1>1, <1>2, <1>3, <1>4, <1>5, <1>6, <1>7, <1>8, <1>9, <1>10 DEF M!Next
THEOREM MiddlewareInvariant == M!Spec => []MInv
  BY MInit, MStep, PTL DEF M!Spec

LEMMA MTells == MInv => LoggedIsSent /\ PanicAnswered
  <1> SUFFICES ASSUME MInv PROVE LoggedIsSent /\ PanicAnswered  OBVIOUS
  <1>1. M!LoggedIsSent  BY DEF MInv, Same, Lined, M!LoggedIsSent
  <1>2. M!PanicAnswered  BY DEF MInv, Same, Lined, Recovered, M!PanicAnswered
  <1> QED BY <1>1, <1>2 DEF LoggedIsSent, PanicAnswered

-----------------------------------------------------------------------------
(* The handlers.  Every answer they decide on is a status.                    *)

Answering == phase = "answer" => answer \in 200..599

LEMMA Deciding ==
  ASSUME phase = "stages", NEW status \in 200..599, Decide(status)
  PROVE  Answering' /\ UNCHANGED M!vars
  BY DEF Decide, Answering, wrapped, M!vars, pc

LEMMA Advancing ==
  ASSUME phase = "stages", Advance
  PROVE  Answering' /\ UNCHANGED M!vars
  BY DEF Advance, Answering, wrapped, M!vars, pc

LEMMA Refusals ==
  /\ \A part \in Part : writeRequestError(part) \subseteq 200..599
  /\ \A err : writeStorageError(err) \in 200..599
  /\ \A route : Success(route) \subseteq 200..599
  <1>1. ASSUME NEW part \in Part PROVE writeRequestError(part) \subseteq 200..599
    BY DEF Part, writeRequestError
  <1>2. ASSUME NEW err PROVE writeStorageError(err) \in 200..599
    BY DEF writeStorageError
  <1>3. ASSUME NEW route PROVE Success(route) \subseteq 200..599
    BY DEF Success
  <1> QED BY <1>1, <1>2, <1>3

LEMMA StageStep ==
  ASSUME Stages
  PROVE  Answering' /\ [M!Next]_(M!vars)
  <1>1. ASSUME NEW h, SetHeader(h) PROVE Answering' /\ UNCHANGED M!vars
    BY <1>1, Advancing DEF SetHeader, StageIs
  <1>2. ASSUME NEW part \in Part, Check(part) PROVE Answering' /\ UNCHANGED M!vars
    <2>1. CASE Advance  BY <1>2, <2>1, Advancing DEF Check, StageIs
    <2>2. ASSUME NEW status \in writeRequestError(part), Decide(status)
          PROVE  Answering' /\ UNCHANGED M!vars
      <3>1. status \in 200..599  BY <1>2, <2>2, Refusals
      <3> QED BY <1>2, <2>2, <3>1, Deciding DEF Check, StageIs
    <2> QED BY <1>2, <2>1, <2>2 DEF Check
  <1>3. CASE LookupFails  BY <1>3, Deciding DEF LookupFails, StageIs
  <1>4. CASE Enter  BY <1>4, Advancing DEF Enter, StageIs
  <1>5. CASE Busy  BY <1>5, Deciding DEF Busy, StageIs
  <1>6. CASE GiveUp
    <2>1. M!Return  BY <1>6 DEF GiveUp, StageIs, M!Return, pc, wrapped
    <2>2. Answering'  BY <1>6 DEF GiveUp, Answering
    <2> QED BY <2>1, <2>2 DEF M!Next
  <1>7. CASE Ping
    <2>1. CASE Advance  BY <1>7, <2>1, Advancing DEF Ping, StageIs
    <2>2. CASE Decide(503)  BY <1>7, <2>2, Deciding DEF Ping, StageIs
    <2> QED BY <1>7, <2>1, <2>2 DEF Ping
  <1>10. CASE ListPalette
    <2>1. CASE Advance  BY <1>10, <2>1, Advancing DEF ListPalette, StageIs
    <2>2. CASE Decide(500)  BY <1>10, <2>2, Deciding DEF ListPalette, StageIs
    <2> QED BY <1>10, <2>1, <2>2 DEF ListPalette
  <1>8. CASE Serve
    <2>1. CASE Advance  BY <1>8, <2>1, Advancing DEF Serve, StageIs
    <2>2. ASSUME NEW err, Decide(writeStorageError(err))
          PROVE  Answering' /\ UNCHANGED M!vars
      <3>1. writeStorageError(err) \in 200..599  BY Refusals
      <3> QED BY <1>8, <2>2, <3>1, Deciding DEF Serve, StageIs
    <2> QED BY <1>8, <2>1, <2>2 DEF Serve
  <1>9. CASE Succeed
    <2>1. PICK status \in Success(req.route) : Decide(status)  BY <1>9 DEF Succeed
    <2>2. status \in 200..599  BY <2>1, Refusals
    <2> QED BY <1>9, <2>1, <2>2, Deciding DEF Succeed
  <1> QED BY <1>1, <1>2, <1>3, <1>4, <1>5, <1>6, <1>7, <1>8, <1>9, <1>10 DEF Stages

LEMMA HandlerStep == Answering /\ [Next]_vars => Answering' /\ [M!Next]_(M!vars)
  <1> SUFFICES ASSUME Answering, [Next]_vars PROVE Answering' /\ [M!Next]_(M!vars)  OBVIOUS
  <1>1. CASE Stages  BY <1>1, StageStep
  <1>2. CASE WriteStatus
    BY <1>2 DEF WriteStatus, Writing, Answering, M!Next
  <1>3. CASE WriteBody
    <2>1. PICK n \in 1..MaxBytes : M!Write(n)  BY <1>3 DEF WriteBody
    <2>2. M!Next  BY <2>1 DEF M!Next
    <2> QED BY <1>3, <2>2 DEF WriteBody, Writing, Answering
  <1>4. CASE ServeFile
    BY <1>4 DEF ServeFile, Writing, Answering, M!Next
  <1>5. CASE Return \/ Panic \/ Abort \/ Log
    BY <1>5 DEF Return, Panic, Abort, Log, Around, Answering, M!Next
  <1>6. CASE Recover \/ Finish \/ HangUp
    BY <1>6 DEF Recover, Finish, HangUp, Around, Writing, Answering, M!Next
  <1>7. CASE UNCHANGED vars
    BY <1>7 DEF vars, wrapped, Answering, M!vars, pc
  <1> QED BY <1>1, <1>2, <1>3, <1>4, <1>5, <1>6, <1>7 DEF Next

LEMMA HandlerInit == Init => M!Init /\ Answering
  BY DEF Init, M!Init, Answering, pc

(* Whatever a handler decides at whatever stage, what it writes and how it is *)
(* logged is a behaviour of Middleware: the chain of limit.go, auth.go and    *)
(* the handlers is one of the handlers that middleware.go wraps.              *)
THEOREM HandlersImplementMiddleware == Spec => M!Spec
  BY HandlerInit, HandlerStep, PTL DEF Spec, M!Spec

(* Every request that comes back through the chain is logged as it was sent.  *)
THEOREM AccessLogIsTrue == Spec => []LoggedIsSent
  BY HandlersImplementMiddleware, MiddlewareInvariant, MTells, PTL

(* A panic before the first byte is a logged 500 on a connection that ends.   *)
THEOREM PanicsAreAnswered == Spec => []PanicAnswered
  BY HandlersImplementMiddleware, MiddlewareInvariant, MTells, PTL

-----------------------------------------------------------------------------
(* The stages of the routes.                                                  *)

Stage == Part \cup {"vary", "slot", "ping", "list", "service", "cache", "disposition"}
StagesIn(s) == {s[i] : i \in 1..Len(s)}

Final == {"service", "cache", "disposition"}

\* Nothing is checked after the service; the headers of a success come last.
InOrder(s) ==
  /\ \A i, j \in 1..Len(s) : i < j /\ s[i] = "service" => s[j] \notin Part
  /\ \A i \in 1..Len(s) : s[i] \in {"cache", "disposition"} => i = Len(s)

Chain(s, stages) == s \in Seq(Stage) /\ InOrder(s) /\ StagesIn(s) = stages

\* The stages of a route, each for the reason it is there.
Passes(route) ==
  Given(route)
    \cup (IF route \in Mine THEN {"vary", "service"} ELSE {})
    \cup (IF route \in {"signUp", "login"} THEN {"slot", "service"} ELSE {})
    \cup (IF route = "ready" THEN {"ping"} ELSE {})
    \cup (IF route = "css" THEN {"list"} ELSE {})
    \cup (IF route = "export" THEN {"disposition"} ELSE {})
    \cup (IF route \in {"css", "shades", "info", "harmony"} THEN {"cache"} ELSE {})

\* The statuses a stage may answer with instead of being passed.
Refuses(route, stage) ==
  CASE stage = "token" -> {401, 500}
    [] stage \in Part \ {"token"} -> writeRequestError(stage)
    [] stage = "slot" -> {429}
    [] stage = "ping" -> {503}
    [] stage = "list" -> {500}
    [] stage = "service" -> {writeStorageError(err) : err \in Errors(route) \cup {"other"}}
    [] OTHER -> {}

Documented(route) == Statuses[route] \cup (IF route = "login" THEN {404} ELSE {})

\* What its stages and its service answer is what api.yaml lists.
Answers(route) ==
  /\ \A stage \in Passes(route) : Refuses(route, stage) \subseteq Documented(route)
  /\ Success(route) \subseteq Documented(route)

RouteOK(route) == Chain(newMux[route], Passes(route)) /\ Answers(route)

(* Sequences of up to four stages.                                            *)
LEMMA Chains ==
  /\ Chain(<<>>, {})
  /\ \A a \in Stage : Chain(<<a>>, {a})
  /\ \A a, b, c \in Stage : a \notin Final /\ b \notin Final => Chain(<<a, b, c>>, {a, b, c})
  /\ \A a, b, c, d \in Stage : a \notin Final /\ b \notin Final /\ c \notin Final =>
       Chain(<<a, b, c, d>>, {a, b, c, d})
  /\ \A a, b \in Stage : (a = "service" => b \notin Part) /\ a \notin {"cache", "disposition"} =>
       Chain(<<a, b>>, {a, b})
  <1>1. Chain(<<>>, {})
    BY DEF Chain, InOrder, StagesIn
  <1>2. \A a \in Stage : Chain(<<a>>, {a})
    <2> TAKE a \in Stage
    <2> DEFINE s == <<a>>
    <2>1. s \in Seq(Stage) /\ Len(s) = 1 /\ s[1] = a
      OBVIOUS
    <2> HIDE DEF s
    <2>2. InOrder(s)  BY <2>1 DEF InOrder
    <2>3. StagesIn(s) = {a} BY <2>1 DEF StagesIn
    <2> QED BY <2>1, <2>2, <2>3 DEF Chain, s
  <1>3. ASSUME NEW a \in Stage, NEW b \in Stage, (a = "service" => b \notin Part),
      a \notin {"cache", "disposition"}
    PROVE Chain(<<a, b>>, {a, b})
    <2> DEFINE s == <<a, b>>
    <2>1. s \in Seq(Stage) /\ Len(s) = 2 /\ s[1] = a /\ s[2] = b
      OBVIOUS
    <2> HIDE DEF s
    <2>2. InOrder(s)  BY <1>3, <2>1 DEF InOrder
    <2>3. StagesIn(s) = {a, b} BY <2>1 DEF StagesIn
    <2> QED BY <2>1, <2>2, <2>3 DEF Chain, s
  <1>4. ASSUME NEW a \in Stage, NEW b \in Stage, NEW c \in Stage,
               a \notin Final /\ b \notin Final
        PROVE  Chain(<<a, b, c>>, {a, b, c})
    <2> DEFINE s == <<a, b, c>>
    <2>1. /\ s \in Seq(Stage) /\ Len(s) = 3
          /\ s[1] = a /\ s[2] = b /\ s[3] = c
      OBVIOUS
    <2> HIDE DEF s
    <2>2. InOrder(s)
      BY <1>4, <2>1 DEF InOrder, Final
    <2>3. StagesIn(s) = {a, b, c}
      BY <2>1 DEF StagesIn
    <2> QED BY <2>1, <2>2, <2>3 DEF Chain, s
  <1>5. ASSUME NEW a \in Stage, NEW b \in Stage, NEW c \in Stage, NEW d \in Stage,
               a \notin Final /\ b \notin Final /\ c \notin Final
        PROVE  Chain(<<a, b, c, d>>, {a, b, c, d})
    <2> DEFINE s == <<a, b, c, d>>
    <2>1. /\ s \in Seq(Stage) /\ Len(s) = 4
          /\ s[1] = a /\ s[2] = b /\ s[3] = c /\ s[4] = d
      OBVIOUS
    <2> HIDE DEF s
    <2>2. InOrder(s)
      BY <1>5, <2>1 DEF InOrder, Final
    <2>3. StagesIn(s) = {a, b, c, d}
      BY <2>1 DEF StagesIn
    <2> QED BY <2>1, <2>2, <2>3 DEF Chain, s
  <1> QED BY <1>1, <1>2, <1>3, <1>4, <1>5

(* What is put before a handler keeps the order of its stages.                *)
LEMMA Prefixed ==
  ASSUME NEW p \in Seq(Stage), \A i \in 1..Len(p) : p[i] \notin {"service", "cache", "disposition"},
         NEW s, NEW stages, Chain(s, stages)
  PROVE  Chain(p \o s, StagesIn(p) \cup stages)
  <1> DEFINE new == p \o s
             n == Len(p)
  <1>1. s \in Seq(Stage) /\ InOrder(s) /\ StagesIn(s) = stages BY DEF Chain
  <1>2. n \in Nat /\ Len(s) \in Nat
    BY <1>1
  <1>3. /\ new \in Seq(Stage) /\ Len(new) = n + Len(s)
        /\ \A i \in 1..n + Len(s) : new[i] = IF i <= n THEN p[i] ELSE s[i - n]
    BY <1>1, ConcatProperties
  <1> HIDE DEF new, n
  <1>4. \A i \in 1..n : i \in 1..Len(new) /\ new[i] = p[i]
    BY <1>2, <1>3
  <1>5. \A i \in 1..Len(s) : i + n \in 1..Len(new) /\ new[i + n] = s[i]
    <2> TAKE i \in 1..Len(s)
    <2>1. i + n \in 1..n + Len(s) /\ ~(i + n <= n) /\ (i + n) - n = i
      BY <1>2
    <2> QED BY <1>3, <2>1
  <1>6. \A i \in 1..Len(new) : i \in 1..n \/ (i - n \in 1..Len(s) /\ (i - n) + n = i)
    BY <1>2, <1>3
  <1>7. InOrder(new)
    <2>1. ASSUME NEW i \in 1..Len(new), new[i] \in {"service", "cache", "disposition"}
          PROVE  i - n \in 1..Len(s) /\ new[i] = s[i - n]
      BY <1>4, <1>5, <1>6, <2>1 DEF n
    <2>2. ASSUME NEW i \in 1..Len(new), NEW j \in 1..Len(new), i < j, new[i] = "service"
          PROVE  new[j] \notin Part
      <3>1. i - n \in 1..Len(s) /\ s[i - n] = "service"
        BY <2>1, <2>2
      <3>2. j \notin 1..n /\ i - n < j - n
        BY <1>2, <2>2, <3>1
      <3>3. j - n \in 1..Len(s) /\ new[j] = s[j - n]
        BY <1>5, <1>6, <3>2
      <3> QED BY <1>1, <3>1, <3>2, <3>3 DEF InOrder
    <2>3. ASSUME NEW i \in 1..Len(new), new[i] \in {"cache", "disposition"}
          PROVE  i = Len(new)
      <3>1. i - n \in 1..Len(s) /\ s[i - n] \in {"cache", "disposition"}
        BY <2>1, <2>3
      <3>2. i - n = Len(s)
        BY <1>1, <3>1 DEF InOrder
      <3> QED BY <1>2, <1>3, <3>2
    <2> QED BY <2>2, <2>3 DEF InOrder
  <1>8. StagesIn(new) = StagesIn(p) \cup StagesIn(s)
    <2>1. StagesIn(new) \subseteq StagesIn(p) \cup StagesIn(s)
      <3>1. ASSUME NEW i \in 1..Len(new)
            PROVE  new[i] \in StagesIn(p) \cup StagesIn(s)
        <4>1. CASE i \in 1..n
          BY <1>4, <4>1 DEF StagesIn, n
        <4>2. CASE i \notin 1..n
          <5>1. i - n \in 1..Len(s) /\ new[i] = s[i - n]
            BY <1>5, <1>6, <4>2
          <5> QED BY <5>1 DEF StagesIn
        <4> QED BY <4>1, <4>2
      <3> QED BY <3>1 DEF StagesIn
    <2>2. StagesIn(p) \subseteq StagesIn(new)
      BY <1>4 DEF StagesIn, n
    <2>3. StagesIn(s) \subseteq StagesIn(new)
      BY <1>5 DEF StagesIn
    <2> QED BY <2>1, <2>2, <2>3
  <1> QED BY <1>1, <1>3, <1>7, <1>8 DEF Chain, new

(* limitConcurrent and authenticate.                                          *)
LEMMA Wrapped ==
  ASSUME NEW h, NEW stages, Chain(h, stages)
  PROVE  /\ Chain(limitConcurrent(h), {"slot"} \cup stages)
         /\ Chain(authenticate(h), {"vary", "token"} \cup stages)
         /\ authenticate(h) # <<>> /\ Head(authenticate(h)) = "vary"
  <1> DEFINE p == <<"slot">>
             q == <<"vary", "token">>
  <1>1. /\ p \in Seq(Stage) /\ Len(p) = 1 /\ p[1] = "slot"
        /\ q \in Seq(Stage) /\ Len(q) = 2 /\ q[1] = "vary" /\ q[2] = "token"
    BY DEF Stage, Part
  <1>2. limitConcurrent(h) = p \o h /\ authenticate(h) = q \o h
    BY DEF limitConcurrent, authenticate
  <1> HIDE DEF p, q
  <1>3. StagesIn(p) = {"slot"} /\ StagesIn(q) = {"vary", "token"}
    BY <1>1 DEF StagesIn
  <1>4. Chain(p \o h, {"slot"} \cup stages) /\ Chain(q \o h, {"vary", "token"} \cup stages)
    <2>1. \A i \in 1..Len(p) : p[i] \notin {"service", "cache", "disposition"}
      BY <1>1
    <2>2. \A i \in 1..Len(q) : q[i] \notin {"service", "cache", "disposition"}
      BY <1>1
    <2>3. Chain(p \o h, StagesIn(p) \cup stages)
      BY <1>1, <2>1, Prefixed
    <2>4. Chain(q \o h, StagesIn(q) \cup stages)
      BY <1>1, <2>2, Prefixed
    <2> QED BY <1>3, <2>3, <2>4
  <1>5. q \o h # <<>> /\ Head(q \o h) = "vary"
    <2>1. h \in Seq(Stage) /\ Len(h) \in Nat
      BY DEF Chain
    <2>2. Len(q \o h) = 2 + Len(h) /\ (q \o h)[1] = "vary" /\ q \o h \in Seq(Stage)
      <3>1. 1 \in 1..2 + Len(h)
        BY <2>1
      <3>2. /\ q \o h \in Seq(Stage)
            /\ Len(q \o h) = Len(q) + Len(h)
            /\ \A i \in 1..Len(q) + Len(h) : (q \o h)[i] = IF i <= Len(q) THEN q[i] ELSE h[i - Len(q)]
        BY <1>1, <2>1, ConcatProperties
      <3> QED BY <1>1, <3>1, <3>2
    <2> QED BY <2>1, <2>2
  <1> QED BY <1>2, <1>4, <1>5

(* The mux, spelled out.                                                      *)
LEMMA RouteNames ==
  /\ DOMAIN newMux = {"live", "ready", "version", "signUp", "login", "logout", "getMe",
      "deleteMe", "export", "listClts", "createClt", "getClt", "updateClt", "deleteClt",
      "listColors", "addColor", "deleteColors", "deleteColor", "css", "shades", "info", "harmony"}
  /\ Mine = {"logout", "getMe", "deleteMe", "export", "listClts", "createClt", "getClt",
      "updateClt", "deleteClt", "listColors", "addColor", "deleteColors", "deleteColor"}
  BY DEF newMux, Mine, Route

LEMMA Mux ==
  /\ newMux["live"] = HandleLive
  /\ newMux["ready"] = HandleReady
  /\ newMux["version"] = HandleVersion
  /\ newMux["signUp"] = limitConcurrent(HandleCreateUser)
  /\ newMux["login"] = limitConcurrent(HandleCreateToken)
  /\ newMux["logout"] = authenticate(HandleDeleteToken)
  /\ newMux["getMe"] = authenticate(HandleGetMe)
  /\ newMux["deleteMe"] = authenticate(HandleDeleteMe)
  /\ newMux["export"] = authenticate(HandleExport)
  /\ newMux["listClts"] = authenticate(HandleListCollections)
  /\ newMux["createClt"] = authenticate(HandleCreateCollection)
  /\ newMux["getClt"] = authenticate(HandleGetCollection)
  /\ newMux["updateClt"] = authenticate(HandleUpdateCollection)
  /\ newMux["deleteClt"] = authenticate(HandleDeleteCollection)
  /\ newMux["listColors"] = authenticate(HandleListColors)
  /\ newMux["addColor"] = authenticate(HandleAddColor)
  /\ newMux["deleteColors"] = authenticate(HandleDeleteAllColors)
  /\ newMux["deleteColor"] = authenticate(HandleDeleteColor)
  /\ newMux["css"] = HandleListCommonColors
  /\ newMux["shades"] = HandleListShades
  /\ newMux["info"] = HandleColorInfo
  /\ newMux["harmony"] = HandleHarmony
  BY DEF newMux

LEMMA Limited ==
  \A h, stages : Chain(h, stages) => Chain(limitConcurrent(h), {"slot"} \cup stages)
  BY Wrapped

LEMMA Authenticated ==
  \A h, stages : Chain(h, stages) => Chain(authenticate(h), {"vary", "token"} \cup stages)
  BY Wrapped

LEMMA HandlerChains ==
  /\ Chain(HandleLive, {})
  /\ Chain(HandleReady, {"ping"})
  /\ Chain(HandleVersion, {})
  /\ Chain(HandleCreateUser, {"json", "fields", "service"})
  /\ Chain(HandleCreateToken, {"json", "service"})
  /\ Chain(HandleDeleteToken, {"service"})
  /\ Chain(HandleGetMe, {"service"})
  /\ Chain(HandleDeleteMe, {"service"})
  /\ Chain(HandleExport, {"service", "disposition"})
  /\ Chain(HandleListCollections, {"service"})
  /\ Chain(HandleCreateCollection, {"json", "fields", "service"})
  /\ Chain(HandleGetCollection, {"id", "service"})
  /\ Chain(HandleUpdateCollection, {"id", "json", "fields", "service"})
  /\ Chain(HandleDeleteCollection, {"id", "service"})
  /\ Chain(HandleListColors, {"id", "query", "service"})
  /\ Chain(HandleAddColor, {"id", "json", "fields", "service"})
  /\ Chain(HandleDeleteAllColors, {"id", "service"})
  /\ Chain(HandleDeleteColor, {"id", "hex", "service"})
  /\ Chain(HandleListCommonColors, {"query", "list", "cache"})
  /\ Chain(HandleListShades, {"cache"})
  /\ Chain(HandleColorInfo, {"hex", "cache"})
  /\ Chain(HandleHarmony, {"hex", "harmony", "query", "cache"})
  BY Chains DEF Stage, Part, Final, HandleLive, HandleReady, HandleVersion, HandleCreateUser,
      HandleCreateToken, HandleDeleteToken, HandleGetMe, HandleDeleteMe, HandleExport,
      HandleListCollections, HandleCreateCollection, HandleGetCollection,
      HandleUpdateCollection, HandleDeleteCollection, HandleListColors, HandleAddColor,
      HandleDeleteAllColors, HandleDeleteColor, HandleListCommonColors, HandleListShades,
      HandleColorInfo, HandleHarmony

(* newMux: every route checks what it takes, in an order in which nothing is  *)
(* checked after the service.                                                 *)
LEMMA RouteChains ==
  \A route \in DOMAIN newMux : RouteOK(route)
  <1>1. RouteOK("live")
    <2>1. Chain(HandleLive, {})
      BY HandlerChains
    <2>2. Passes("live") = {}
      BY RouteNames DEF Passes, Given, Part
    <2>3. Answers("live")
      BY <2>2 DEF Answers, Refuses, Documented, Statuses, Success, Errors, Part,
          writeRequestError, writeStorageError
    <2> QED BY <2>1, <2>2, <2>3, Mux DEF RouteOK
  <1>2. RouteOK("ready")
    <2>1. Chain(HandleReady, {"ping"})
      BY HandlerChains
    <2>2. Passes("ready") = {"ping"}
      BY RouteNames DEF Passes, Given, Part
    <2>3. Answers("ready")
      BY <2>2 DEF Answers, Refuses, Documented, Statuses, Success, Errors, Part,
          writeRequestError, writeStorageError
    <2> QED BY <2>1, <2>2, <2>3, Mux DEF RouteOK
  <1>3. RouteOK("version")
    <2>1. Chain(HandleVersion, {})
      BY HandlerChains
    <2>2. Passes("version") = {}
      BY RouteNames DEF Passes, Given, Part
    <2>3. Answers("version")
      BY <2>2 DEF Answers, Refuses, Documented, Statuses, Success, Errors, Part,
          writeRequestError, writeStorageError
    <2> QED BY <2>1, <2>2, <2>3, Mux DEF RouteOK
  <1>4. RouteOK("signUp")
    <2>1. Chain(limitConcurrent(HandleCreateUser), {"slot"} \cup {"json", "fields", "service"})
      BY HandlerChains, Limited
    <2>2. Passes("signUp") = {"slot"} \cup {"json", "fields", "service"}
      BY RouteNames DEF Passes, Given, Part
    <2>3. Answers("signUp")
      BY <2>2 DEF Answers, Refuses, Documented, Statuses, Success, Errors, Part,
          writeRequestError, writeStorageError
    <2> QED BY <2>1, <2>2, <2>3, Mux DEF RouteOK
  <1>5. RouteOK("login")
    <2>1. Chain(limitConcurrent(HandleCreateToken), {"slot"} \cup {"json", "service"})
      BY HandlerChains, Limited
    <2>2. Passes("login") = {"slot"} \cup {"json", "service"}
      BY RouteNames DEF Passes, Given, Part
    <2>3. Answers("login")
      BY <2>2 DEF Answers, Refuses, Documented, Statuses, Success, Errors, Part,
          writeRequestError, writeStorageError
    <2> QED BY <2>1, <2>2, <2>3, Mux DEF RouteOK
  <1>6. RouteOK("logout")
    <2>1. Chain(authenticate(HandleDeleteToken), {"vary", "token"} \cup {"service"})
      BY HandlerChains, Authenticated
    <2>2. Passes("logout") = {"vary", "token"} \cup {"service"}
      BY RouteNames DEF Passes, Given, Part
    <2>3. Answers("logout")
      BY <2>2 DEF Answers, Refuses, Documented, Statuses, Success, Errors, Part,
          writeRequestError, writeStorageError
    <2> QED BY <2>1, <2>2, <2>3, Mux DEF RouteOK
  <1>7. RouteOK("getMe")
    <2>1. Chain(authenticate(HandleGetMe), {"vary", "token"} \cup {"service"})
      BY HandlerChains, Authenticated
    <2>2. Passes("getMe") = {"vary", "token"} \cup {"service"}
      BY RouteNames DEF Passes, Given, Part
    <2>3. Answers("getMe")
      BY <2>2 DEF Answers, Refuses, Documented, Statuses, Success, Errors, Part,
          writeRequestError, writeStorageError
    <2> QED BY <2>1, <2>2, <2>3, Mux DEF RouteOK
  <1>8. RouteOK("deleteMe")
    <2>1. Chain(authenticate(HandleDeleteMe), {"vary", "token"} \cup {"service"})
      BY HandlerChains, Authenticated
    <2>2. Passes("deleteMe") = {"vary", "token"} \cup {"service"}
      BY RouteNames DEF Passes, Given, Part
    <2>3. Answers("deleteMe")
      BY <2>2 DEF Answers, Refuses, Documented, Statuses, Success, Errors, Part,
          writeRequestError, writeStorageError
    <2> QED BY <2>1, <2>2, <2>3, Mux DEF RouteOK
  <1>9. RouteOK("export")
    <2>1. Chain(authenticate(HandleExport), {"vary", "token"} \cup {"service", "disposition"})
      BY HandlerChains, Authenticated
    <2>2. Passes("export") = {"vary", "token"} \cup {"service", "disposition"}
      BY RouteNames DEF Passes, Given, Part
    <2>3. Answers("export")
      BY <2>2 DEF Answers, Refuses, Documented, Statuses, Success, Errors, Part,
          writeRequestError, writeStorageError
    <2> QED BY <2>1, <2>2, <2>3, Mux DEF RouteOK
  <1>10. RouteOK("listClts")
    <2>1. Chain(authenticate(HandleListCollections), {"vary", "token"} \cup {"service"})
      BY HandlerChains, Authenticated
    <2>2. Passes("listClts") = {"vary", "token"} \cup {"service"}
      BY RouteNames DEF Passes, Given, Part
    <2>3. Answers("listClts")
      BY <2>2 DEF Answers, Refuses, Documented, Statuses, Success, Errors, Part,
          writeRequestError, writeStorageError
    <2> QED BY <2>1, <2>2, <2>3, Mux DEF RouteOK
  <1>11. RouteOK("createClt")
    <2>1. Chain(authenticate(HandleCreateCollection), {"vary", "token"} \cup {"json", "fields",
        "service"})
      BY HandlerChains, Authenticated
    <2>2. Passes("createClt") = {"vary", "token"} \cup {"json", "fields", "service"}
      BY RouteNames DEF Passes, Given, Part
    <2>3. Answers("createClt")
      BY <2>2 DEF Answers, Refuses, Documented, Statuses, Success, Errors, Part,
          writeRequestError, writeStorageError
    <2> QED BY <2>1, <2>2, <2>3, Mux DEF RouteOK
  <1>12. RouteOK("getClt")
    <2>1. Chain(authenticate(HandleGetCollection), {"vary", "token"} \cup {"id", "service"})
      BY HandlerChains, Authenticated
    <2>2. Passes("getClt") = {"vary", "token"} \cup {"id", "service"}
      BY RouteNames DEF Passes, Given, Part
    <2>3. Answers("getClt")
      BY <2>2 DEF Answers, Refuses, Documented, Statuses, Success, Errors, Part,
          writeRequestError, writeStorageError
    <2> QED BY <2>1, <2>2, <2>3, Mux DEF RouteOK
  <1>13. RouteOK("updateClt")
    <2>1. Chain(authenticate(HandleUpdateCollection), {"vary", "token"} \cup {"id", "json",
        "fields", "service"})
      BY HandlerChains, Authenticated
    <2>2. Passes("updateClt") = {"vary", "token"} \cup {"id", "json", "fields", "service"}
      BY RouteNames DEF Passes, Given, Part
    <2>3. Answers("updateClt")
      BY <2>2 DEF Answers, Refuses, Documented, Statuses, Success, Errors, Part,
          writeRequestError, writeStorageError
    <2> QED BY <2>1, <2>2, <2>3, Mux DEF RouteOK
  <1>14. RouteOK("deleteClt")
    <2>1. Chain(authenticate(HandleDeleteCollection), {"vary", "token"} \cup {"id", "service"})
      BY HandlerChains, Authenticated
    <2>2. Passes("deleteClt") = {"vary", "token"} \cup {"id", "service"}
      BY RouteNames DEF Passes, Given, Part
    <2>3. Answers("deleteClt")
      BY <2>2 DEF Answers, Refuses, Documented, Statuses, Success, Errors, Part,
          writeRequestError, writeStorageError
    <2> QED BY <2>1, <2>2, <2>3, Mux DEF RouteOK
  <1>15. RouteOK("listColors")
    <2>1. Chain(authenticate(HandleListColors), {"vary", "token"} \cup {"id", "query", "service"})
      BY HandlerChains, Authenticated
    <2>2. Passes("listColors") = {"vary", "token"} \cup {"id", "query", "service"}
      BY RouteNames DEF Passes, Given, Part
    <2>3. Answers("listColors")
      BY <2>2 DEF Answers, Refuses, Documented, Statuses, Success, Errors, Part,
          writeRequestError, writeStorageError
    <2> QED BY <2>1, <2>2, <2>3, Mux DEF RouteOK
  <1>16. RouteOK("addColor")
    <2>1. Chain(authenticate(HandleAddColor), {"vary", "token"} \cup {"id", "json", "fields",
        "service"})
      BY HandlerChains, Authenticated
    <2>2. Passes("addColor") = {"vary", "token"} \cup {"id", "json", "fields", "service"}
      BY RouteNames DEF Passes, Given, Part
    <2>3. Answers("addColor")
      BY <2>2 DEF Answers, Refuses, Documented, Statuses, Success, Errors, Part,
          writeRequestError, writeStorageError
    <2> QED BY <2>1, <2>2, <2>3, Mux DEF RouteOK
  <1>17. RouteOK("deleteColors")
    <2>1. Chain(authenticate(HandleDeleteAllColors), {"vary", "token"} \cup {"id", "service"})
      BY HandlerChains, Authenticated
    <2>2. Passes("deleteColors") = {"vary", "token"} \cup {"id", "service"}
      BY RouteNames DEF Passes, Given, Part
    <2>3. Answers("deleteColors")
      BY <2>2 DEF Answers, Refuses, Documented, Statuses, Success, Errors, Part,
          writeRequestError, writeStorageError
    <2> QED BY <2>1, <2>2, <2>3, Mux DEF RouteOK
  <1>18. RouteOK("deleteColor")
    <2>1. Chain(authenticate(HandleDeleteColor), {"vary", "token"} \cup {"id", "hex", "service"})
      BY HandlerChains, Authenticated
    <2>2. Passes("deleteColor") = {"vary", "token"} \cup {"id", "hex", "service"}
      BY RouteNames DEF Passes, Given, Part
    <2>3. Answers("deleteColor")
      BY <2>2 DEF Answers, Refuses, Documented, Statuses, Success, Errors, Part,
          writeRequestError, writeStorageError
    <2> QED BY <2>1, <2>2, <2>3, Mux DEF RouteOK
  <1>19. RouteOK("css")
    <2>1. Chain(HandleListCommonColors, {"query", "list", "cache"})
      BY HandlerChains
    <2>2. Passes("css") = {"query", "list", "cache"}
      BY RouteNames DEF Passes, Given, Part
    <2>3. Answers("css")
      BY <2>2 DEF Answers, Refuses, Documented, Statuses, Success, Errors, Part,
          writeRequestError, writeStorageError
    <2> QED BY <2>1, <2>2, <2>3, Mux DEF RouteOK
  <1>20. RouteOK("shades")
    <2>1. Chain(HandleListShades, {"cache"})
      BY HandlerChains
    <2>2. Passes("shades") = {"cache"}
      BY RouteNames DEF Passes, Given, Part
    <2>3. Answers("shades")
      BY <2>2 DEF Answers, Refuses, Documented, Statuses, Success, Errors, Part,
          writeRequestError, writeStorageError
    <2> QED BY <2>1, <2>2, <2>3, Mux DEF RouteOK
  <1>21. RouteOK("info")
    <2>1. Chain(HandleColorInfo, {"hex", "cache"})
      BY HandlerChains
    <2>2. Passes("info") = {"hex", "cache"}
      BY RouteNames DEF Passes, Given, Part
    <2>3. Answers("info")
      BY <2>2 DEF Answers, Refuses, Documented, Statuses, Success, Errors, Part,
          writeRequestError, writeStorageError
    <2> QED BY <2>1, <2>2, <2>3, Mux DEF RouteOK
  <1>22. RouteOK("harmony")
    <2>1. Chain(HandleHarmony, {"hex", "harmony", "query", "cache"})
      BY HandlerChains
    <2>2. Passes("harmony") = {"hex", "harmony", "query", "cache"}
      BY RouteNames DEF Passes, Given, Part
    <2>3. Answers("harmony")
      BY <2>2 DEF Answers, Refuses, Documented, Statuses, Success, Errors, Part,
          writeRequestError, writeStorageError
    <2> QED BY <2>1, <2>2, <2>3, Mux DEF RouteOK
  <1> QED BY RouteNames, <1>1, <1>2, <1>3, <1>4, <1>5, <1>6, <1>7, <1>8, <1>9, <1>10, <1>11,
      <1>12, <1>13, <1>14, <1>15, <1>16, <1>17, <1>18, <1>19, <1>20, <1>21, <1>22

(* A wrapped route says first that its answer varies by the token.            *)
LEMMA VaryFirst ==
  \A route \in Mine : newMux[route] # <<>> /\ Head(newMux[route]) = "vary"
  <1>1. \A h, stages : Chain(h, stages) =>
          authenticate(h) # <<>> /\ Head(authenticate(h)) = "vary"
    BY Wrapped
  <1>2. \A route \in Mine : \E h, stages : Chain(h, stages) /\ newMux[route] = authenticate(h)
    <2> TAKE route \in Mine
    <2> SUFFICES ASSUME TRUE
                 PROVE  \E h, stages : Chain(h, stages) /\ newMux[route] = authenticate(h)
      OBVIOUS
    <2>1. CASE route = "logout"  BY <2>1, HandlerChains, Mux
    <2>2. CASE route = "getMe"  BY <2>2, HandlerChains, Mux
    <2>3. CASE route = "deleteMe"  BY <2>3, HandlerChains, Mux
    <2>4. CASE route = "export"  BY <2>4, HandlerChains, Mux
    <2>5. CASE route = "listClts"  BY <2>5, HandlerChains, Mux
    <2>6. CASE route = "createClt"  BY <2>6, HandlerChains, Mux
    <2>7. CASE route = "getClt"  BY <2>7, HandlerChains, Mux
    <2>8. CASE route = "updateClt"  BY <2>8, HandlerChains, Mux
    <2>9. CASE route = "deleteClt"  BY <2>9, HandlerChains, Mux
    <2>10. CASE route = "listColors"  BY <2>10, HandlerChains, Mux
    <2>11. CASE route = "addColor"  BY <2>11, HandlerChains, Mux
    <2>12. CASE route = "deleteColors"  BY <2>12, HandlerChains, Mux
    <2>13. CASE route = "deleteColor"  BY <2>13, HandlerChains, Mux
    <2> QED BY <2>1, <2>2, <2>3, <2>4, <2>5, <2>6, <2>7, <2>8, <2>9, <2>10, <2>11, <2>12, <2>13,
               RouteNames
  <1> QED BY <1>1, <1>2

(* What the table of stages says of the routes.                               *)
LEMMA RouteFacts ==
  \A route \in DOMAIN newMux :
    /\ Given(route) \subseteq Passes(route) /\ Given(route) \subseteq Part
    /\ "token" \in Passes(route) => route \in Mine
    /\ "cache" \in Passes(route) =>
         "service" \notin Passes(route) /\ route \notin Mine /\ Success(route) = {200}
    /\ "disposition" \in Passes(route) => route = "export"
    /\ Success(route) \subseteq {200, 201, 204}
  <1> TAKE route \in DOMAIN newMux
  <1>1. Given(route) \subseteq Passes(route) /\ Given(route) \subseteq Part
    BY DEF Given, Passes
  <1>2. "token" \in Passes(route) => route \in Mine
    BY DEF Given, Passes
  <1>3. "cache" \in Passes(route) => route \in {"css", "shades", "info", "harmony"}
    BY DEF Given, Passes, Part
  <1>4. route \in {"css", "shades", "info", "harmony"} =>
          "service" \notin Passes(route) /\ route \notin Mine /\ Success(route) = {200}
    BY DEF Given, Passes, Part, Mine, Success
  <1>5. "disposition" \in Passes(route) => route = "export"
    BY DEF Given, Passes, Part
  <1>6. Success(route) \subseteq {200, 201, 204}
    BY DEF Success
  <1> QED BY <1>1, <1>2, <1>3, <1>4, <1>5, <1>6

(* Which stage may refuse with which status: only a check calls a request     *)
(* malformed, and a 401 is the token's or the login's.                        *)
LEMMA RefusalFacts ==
  ASSUME NEW route, NEW stage, NEW status \in Refuses(route, stage)
  PROVE  /\ status \in 200..599 /\ status # 200
         /\ stage \notin {"vary", "cache", "disposition"}
         /\ status \in {400, 413} => stage \in Part
         /\ status = 401 => stage = "token" \/ route = "login"
  <1>1. CASE stage = "token"  BY <1>1 DEF Refuses, Part
  <1>2. CASE stage \in Part \ {"token"}
    <2>1. status \in {400, 413, 404}  BY <1>2 DEF Refuses, writeRequestError, Part
    <2> QED BY <1>2, <2>1 DEF Part
  <1>3. CASE stage = "slot"  BY <1>3 DEF Refuses, Part
  <1>4. CASE stage = "ping"  BY <1>4 DEF Refuses, Part
  <1>7. CASE stage = "list"  BY <1>7 DEF Refuses, Part
  <1>5. CASE stage = "service"
    <2>1. PICK err \in Errors(route) \cup {"other"} : status = writeStorageError(err)
      BY <1>5 DEF Refuses, Part
    <2>2. status \in {404, 409, 401, 500}  BY <2>1 DEF writeStorageError
    <2>3. status = 401 => err = "ErrInvalidCredentials"  BY <2>1 DEF writeStorageError
    <2>4. err = "ErrInvalidCredentials" => route = "login"  BY <2>1 DEF Errors
    <2> QED BY <1>5, <2>2, <2>3, <2>4
  <1>6. stage \in Part \cup {"slot", "ping", "list", "service"}  BY DEF Refuses, Part
  <1> QED BY <1>1, <1>2, <1>3, <1>4, <1>5, <1>6, <1>7

(* A stage is taken off the front.                                            *)
LEMMA Walked ==
  ASSUME NEW s \in Seq(Stage), InOrder(s), s # <<>>
  PROVE  /\ Head(s) \in StagesIn(s) /\ Tail(s) \in Seq(Stage) /\ InOrder(Tail(s))
         /\ StagesIn(s) = {Head(s)} \cup StagesIn(Tail(s))
         /\ Head(s) = "service" => StagesIn(Tail(s)) \cap Part = {}
         /\ Head(s) \in {"cache", "disposition"} => Tail(s) = <<>>
  <1> DEFINE t == Tail(s)
             n == Len(t)
  <1>1. n \in Nat /\ Len(s) = n + 1 /\ t \in Seq(Stage) /\ Head(s) = s[1]
    OBVIOUS
  <1>2. \A i \in 1..n : i + 1 \in 1..Len(s) /\ t[i] = s[i + 1]
    BY <1>1
  <1>3. 1 \in 1..Len(s) /\ \A i \in 1..Len(s) : i = 1 \/ (i - 1 \in 1..n /\ (i - 1) + 1 = i)
    BY <1>1
  <1>4. n = 0 => t = <<>>
    <2>1. \A u \in Seq(Stage) : Len(u) = 0 => u = <<>>  OBVIOUS
    <2> QED BY <1>1, <2>1
  <1> HIDE DEF t, n
  <1>5. InOrder(t)
    <2>1. ASSUME NEW i \in 1..n, NEW j \in 1..n, i < j, t[i] = "service"
          PROVE  t[j] \notin Part
      <3>1. i + 1 < j + 1  BY <2>1, <1>1
      <3> QED BY <1>2, <2>1, <3>1 DEF InOrder
    <2>2. ASSUME NEW i \in 1..n, t[i] \in {"cache", "disposition"} PROVE i = n
      <3>1. i + 1 = Len(s)  BY <1>2, <2>2 DEF InOrder
      <3> QED BY <1>1, <3>1
    <2> QED BY <2>1, <2>2 DEF InOrder, n
  <1>6. StagesIn(s) = {Head(s)} \cup StagesIn(t)
    <2>1. StagesIn(s) \subseteq {Head(s)} \cup StagesIn(t)
      <3>1. ASSUME NEW i \in 1..Len(s) PROVE s[i] \in {Head(s)} \cup StagesIn(t)
        <4>1. CASE i = 1  BY <1>1, <4>1
        <4>2. CASE i # 1
          <5>1. i - 1 \in 1..n /\ s[i] = t[i - 1]  BY <1>2, <1>3, <4>2
          <5> QED BY <5>1 DEF StagesIn, n
        <4> QED BY <4>1, <4>2
      <3> QED BY <3>1 DEF StagesIn
    <2>2. Head(s) \in StagesIn(s)  BY <1>1, <1>3 DEF StagesIn
    <2>3. StagesIn(t) \subseteq StagesIn(s)  BY <1>2 DEF StagesIn, n
    <2> QED BY <2>1, <2>2, <2>3
  <1>7. Head(s) = "service" => StagesIn(t) \cap Part = {}
    <2>1. ASSUME s[1] = "service", NEW i \in 1..n PROVE t[i] \notin Part
      <3>1. 1 < i + 1  BY <1>1
      <3> QED BY <1>2, <1>3, <2>1, <3>1 DEF InOrder
    <2> QED BY <1>1, <2>1 DEF StagesIn, n
  <1>8. Head(s) \in {"cache", "disposition"} => t = <<>>
    <2>1. s[1] \in {"cache", "disposition"} => 1 = Len(s)  BY <1>3 DEF InOrder
    <2> QED BY <1>1, <1>4, <2>1
  <1> QED BY <1>1, <1>5, <1>6, <1>7, <1>8 DEF t

-----------------------------------------------------------------------------
(* What holds of a handler while it works.                                    *)

\* Of the files, which are not handlers' answers, nothing is asked.
Routed == /\ req.route \in Route /\ req.bad \subseteq Given(req.route)
          /\ req.route = "static" =>
               answer = None /\ ~served /\ phase \notin {"stages", "answer", "body"}

\* What is bad is still to be met, and nothing is answered yet.
Walking ==
  phase = "stages" =>
    /\ req.route \in DOMAIN newMux
    /\ todo \in Seq(Stage) /\ InOrder(todo) /\ StagesIn(todo) \subseteq Passes(req.route)
    /\ req.bad \subseteq StagesIn(todo)
    /\ answer = None

Sound ==
  /\ served => req.bad = {} /\ "service" \in Passes(req.route)
  /\ answer # None => /\ answer \in Documented(req.route)
                      /\ req.bad = {} => answer \notin {400, 413}

\* A header of a success is set last; the others at their stage.
SuccessOnly(h) ==
  h \in head => /\ h \in Passes(req.route)
                /\ phase = "stages" => todo = <<>>
                /\ answer \in {None, 200}

Varying ==
  req.route \in Mine =>
    /\ phase = "stages" => "vary" \in head \/ (todo # <<>> /\ Head(todo) = "vary")
    /\ answer # None => "vary" \in head

Attached ==
  req.route = "export" =>
    /\ phase = "stages" => "disposition" \in head \cup StagesIn(todo)
    /\ answer = 200 => "disposition" \in head

Challenged == "challenge" \in head <=> answer = 401 /\ req.route \in Mine

Headed == /\ "requestId" \in head
          /\ SuccessOnly("cache") /\ SuccessOnly("disposition")
          /\ Varying /\ Attached /\ Challenged

\* Nothing is written before the answer is known, and then it is that.
Told ==
  /\ line # None => phase \in {"logged", "over"}
  /\ req.route # "static" =>
       /\ phase \in {"stages", "answer"} => ~rec.wrote
       /\ phase \in {"body", "done"} => rec.wrote
       /\ phase \in {"answer", "body", "done"} => answer # None
       /\ rec.wrote /\ panic = None => answer # None /\ rec.status = answer /\ out = head

HInv == MInv /\ Answering /\ Routed /\ Walking /\ Sound /\ Headed /\ Told

(* None is no status.                                                        *)
LEMMA StatusNotNone == \A status \in 200..599 : status # None
  OBVIOUS

(* A stage is passed.                                                         *)
LEMMA Passed ==
  ASSUME Routed, Walking, Sound, Headed, phase = "stages", todo # <<>>,
         Head(todo) \notin req.bad, Advance,
         served' <=> served \/ Head(todo) = "service",
         head' = head \cup ({Head(todo)} \cap {"vary", "cache", "disposition"})
  PROVE  Routed' /\ Walking' /\ Sound' /\ Headed'
  <1> DEFINE stage == Head(todo)
  <1>1. /\ req.route \in DOMAIN newMux
        /\ todo \in Seq(Stage) /\ InOrder(todo) /\ StagesIn(todo) \subseteq Passes(req.route)
        /\ req.bad \subseteq StagesIn(todo)
        /\ answer = None
    BY DEF Walking
  <1>2. /\ stage \in StagesIn(todo) /\ todo' \in Seq(Stage) /\ InOrder(todo')
        /\ StagesIn(todo) = {stage} \cup StagesIn(todo')
        /\ stage = "service" => StagesIn(todo') \cap Part = {}
        /\ stage \in {"cache", "disposition"} => todo' = <<>>
    BY <1>1, Walked DEF Advance
  <1>3. /\ stage \in Passes(req.route) /\ req.bad \subseteq Part
        /\ stage \notin req.bad
    BY <1>1, <1>2, RouteFacts DEF Routed
  <1>4. /\ req' = req /\ phase' = "stages" /\ answer' = None
        /\ (served' <=> served \/ stage = "service")
        /\ head' = head \cup ({stage} \cap {"vary", "cache", "disposition"})
    BY <1>1 DEF Advance
  <1>5. "cache" \notin head /\ "disposition" \notin head
    BY DEF Headed, SuccessOnly
  <1>6. None # 401 /\ None # 200
    BY StatusNotNone
  <1> HIDE DEF stage
  <1>7. Routed'
    <2>1. req.route # "static"  BY DEF Routed
    <2> QED BY <1>4, <2>1 DEF Routed
  <1>8. Walking'
    <2>1. req.bad \subseteq StagesIn(todo')  BY <1>1, <1>2, <1>3
    <2>2. StagesIn(todo') \subseteq Passes(req.route)  BY <1>1, <1>2
    <2> QED BY <1>1, <1>2, <1>4, <2>1, <2>2 DEF Walking
  <1>9. Sound'
    <2>1. stage = "service" => req.bad = {}  BY <1>1, <1>2, <1>3
    <2> QED BY <1>3, <1>4, <2>1 DEF Sound
  <1>10. Headed'
    <2>1. "requestId" \in head'  BY <1>4 DEF Headed
    <2>2. SuccessOnly("cache")'
      <3>1. "cache" \in head' => stage = "cache"  BY <1>4, <1>5
      <3> QED BY <1>2, <1>3, <1>4, <3>1 DEF SuccessOnly
    <2>3. SuccessOnly("disposition")'
      <3>1. "disposition" \in head' => stage = "disposition"  BY <1>4, <1>5
      <3> QED BY <1>2, <1>3, <1>4, <3>1 DEF SuccessOnly
    <2>4. Varying'
      <3>1. req.route \in Mine => "vary" \in head \/ stage = "vary"
        BY DEF Headed, Varying, stage
      <3> QED BY <1>4, <3>1 DEF Varying
    <2>5. Attached'
      <3>1. req.route = "export" => "disposition" \in StagesIn(todo)
        BY <1>5 DEF Headed, Attached
      <3>2. req.route = "export" => stage = "disposition" \/ "disposition" \in StagesIn(todo')
        BY <1>2, <3>1
      <3> QED BY <1>4, <1>6, <3>2 DEF Attached
    <2>6. Challenged'
      <3>1. "challenge" \notin head  BY <1>1, <1>6 DEF Headed, Challenged
      <3> QED BY <1>4, <1>6, <3>1 DEF Challenged
    <2> QED BY <2>1, <2>2, <2>3, <2>4, <2>5, <2>6 DEF Headed
  <1> QED BY <1>7, <1>8, <1>9, <1>10

(* A stage refuses.                                                           *)
LEMMA Refused ==
  ASSUME Routed, Walking, Sound, Headed, phase = "stages", todo # <<>>,
         NEW status \in Refuses(req.route, Head(todo)), Decide(status),
         Head(todo) \in Part \ {"token"} => Head(todo) \in req.bad,
         served' <=> served \/ Head(todo) = "service",
         head' \in {head, head \cup {"challenge"}, head \cup {"retryAfter"}},
         "challenge" \in head' \ head <=> status = 401 /\ Head(todo) = "token"
  PROVE  Routed' /\ Walking' /\ Sound' /\ Headed'
  <1> DEFINE stage == Head(todo)
  <1>1. /\ req.route \in DOMAIN newMux
        /\ todo \in Seq(Stage) /\ InOrder(todo) /\ StagesIn(todo) \subseteq Passes(req.route)
        /\ req.bad \subseteq StagesIn(todo)
        /\ answer = None
    BY DEF Walking
  <1>2. /\ stage \in StagesIn(todo)
        /\ StagesIn(todo) = {stage} \cup StagesIn(Tail(todo))
        /\ stage = "service" => StagesIn(Tail(todo)) \cap Part = {}
    BY <1>1, Walked
  <1>3. stage \in Passes(req.route) /\ req.bad \subseteq Part
    BY <1>1, <1>2, RouteFacts DEF Routed
  <1>4. /\ status \in 200..599 /\ status # 200
        /\ stage \notin {"vary", "cache", "disposition"}
        /\ status \in {400, 413} => stage \in Part
        /\ status = 401 => stage = "token" \/ req.route = "login"
    BY RefusalFacts
  <1>5. status # None /\ 401 # None
    <2>1. status \in 200..599 /\ 401 \in 200..599  BY <1>4
    <2> QED BY <2>1, StatusNotNone
  <1>6. status \in Refuses(req.route, stage) /\ (stage \in Part \ {"token"} => stage \in req.bad)
    OBVIOUS
  <1>7. /\ req' = req /\ phase' = "answer" /\ answer' = status /\ todo' = todo
        /\ (served' <=> served \/ stage = "service")
        /\ \A h \in {"requestId", "vary", "cache", "disposition"} : h \in head' <=> h \in head
        /\ "challenge" \in head' <=> "challenge" \in head \/ (status = 401 /\ stage = "token")
    BY DEF Decide
  <1>8. "cache" \notin head /\ "disposition" \notin head
    BY DEF Headed, SuccessOnly
  <1>9. req.route \in Mine => "vary" \in head \/ stage = "vary"
    BY DEF Headed, Varying
  <1>10. stage = "token" => status \notin {400, 413}
    BY <1>6 DEF Refuses, Part
  <1> HIDE DEF stage
  <1>11. Routed'
    <2>1. req.route # "static"  BY DEF Routed
    <2> QED BY <1>7, <2>1 DEF Routed
  <1>12. Walking'
    BY <1>7 DEF Walking
  <1>13. Sound'
    <2>1. stage = "service" => req.bad = {}
      <3>1. "service" \notin Part  BY DEF Part
      <3> QED BY <1>1, <1>2, <1>3, <3>1
    <2>2. status \in Documented(req.route)
      BY <1>1, <1>3, <1>6, RouteChains DEF RouteOK, Answers
    <2>3. req.bad = {} => status \notin {400, 413}
      BY <1>4, <1>6, <1>10
    <2>4. served' => req'.bad = {} /\ "service" \in Passes(req'.route)
      BY <1>3, <1>7, <2>1 DEF Sound
    <2>5. answer' \in Documented(req'.route) /\ (req'.bad = {} => answer' \notin {400, 413})
      BY <1>7, <2>2, <2>3
    <2> QED BY <2>4, <2>5 DEF Sound
  <1>14. Headed'
    <2>1. "requestId" \in head'  BY <1>7 DEF Headed
    <2>2. SuccessOnly("cache")' /\ SuccessOnly("disposition")'
      BY <1>7, <1>8 DEF SuccessOnly
    <2>3. Varying'
      BY <1>4, <1>7, <1>9 DEF Varying
    <2>4. Attached'
      BY <1>4, <1>7 DEF Attached
    <2>5. Challenged'
      <3>1. "challenge" \notin head  BY <1>1, <1>5 DEF Headed, Challenged
      <3>2. stage = "token" => req.route \in Mine  BY <1>1, <1>3, RouteFacts
      <3>3. "login" \notin Mine  BY RouteNames
      <3> QED BY <1>4, <1>7, <3>1, <3>2, <3>3 DEF Challenged
    <2> QED BY <2>1, <2>2, <2>3, <2>4, <2>5 DEF Headed
  <1> QED BY <1>11, <1>12, <1>13, <1>14

(* All stages are passed.                                                     *)
LEMMA Succeeded ==
  ASSUME Routed, Walking, Sound, Headed, Succeed
  PROVE  Routed' /\ Walking' /\ Sound' /\ Headed'
  <1>1. PICK status \in Success(req.route) : Decide(status)
    BY DEF Succeed
  <1>2. /\ phase = "stages" /\ todo = <<>> /\ req.route \in DOMAIN newMux
        /\ req.bad \subseteq StagesIn(todo) /\ answer = None
    BY DEF Succeed, Walking
  <1>3. req.bad = {} /\ StagesIn(todo) = {}
    BY <1>2 DEF StagesIn
  <1>4. status \in {200, 201, 204} /\ status # None /\ 401 # None
    <2>1. status \in {200, 201, 204}  BY <1>1, <1>2, RouteFacts
    <2>2. status \in 200..599 /\ 401 \in 200..599  BY <2>1
    <2> QED BY <2>1, <2>2, StatusNotNone
  <1>5. /\ req' = req /\ phase' = "answer" /\ answer' = status
        /\ served' = served /\ head' = head
    BY <1>1 DEF Succeed, Decide
  <1>6. Routed'
    BY <1>2, <1>5 DEF Routed
  <1>7. Walking'
    BY <1>5 DEF Walking
  <1>8. Sound'
    <2>1. status \in Documented(req.route)
      BY <1>1, <1>2, RouteChains DEF RouteOK, Answers
    <2> QED BY <1>3, <1>4, <1>5, <2>1 DEF Sound
  <1>9. Headed'
    <2>1. "requestId" \in head' /\ Varying'
      BY <1>2, <1>5 DEF Headed, Varying
    <2>2. SuccessOnly("cache")'
      <3>1. "cache" \in Passes(req.route) => status = 200  BY <1>1, <1>2, RouteFacts
      <3> QED BY <1>5, <3>1 DEF Headed, SuccessOnly
    <2>3. SuccessOnly("disposition")'
      <3>1. "disposition" \in Passes(req.route) => req.route = "export"
        BY <1>2, RouteFacts
      <3>2. Success("export") = {200}  BY DEF Success
      <3> QED BY <1>1, <1>5, <3>1, <3>2 DEF Headed, SuccessOnly
    <2>4. Attached'
      BY <1>2, <1>3, <1>5 DEF Headed, Attached
    <2>5. Challenged'
      BY <1>2, <1>4, <1>5 DEF Headed, Challenged
    <2> QED BY <2>1, <2>2, <2>3, <2>4, <2>5 DEF Headed
  <1> QED BY <1>6, <1>7, <1>8, <1>9

(* Each action of a handler passes its stage, refuses at it or ends them.     *)
LEMMA StagesKeep ==
  ASSUME MInv, Routed, Walking, Sound, Headed, Stages
  PROVE  Routed' /\ Walking' /\ Sound' /\ Headed'
  <1>1. req.bad \subseteq Part
    <2>1. \A route : Given(route) \subseteq Part  BY DEF Given
    <2> QED BY <2>1 DEF Routed
  <1>2. ASSUME NEW h \in {"vary", "cache", "disposition"}, SetHeader(h)
        PROVE  Routed' /\ Walking' /\ Sound' /\ Headed'
    <2>1. /\ phase = "stages" /\ todo # <<>> /\ Head(todo) = h /\ Advance
          /\ head' = head \cup {h} /\ served' = served
      BY <1>2 DEF SetHeader, StageIs
    <2>2. h \notin req.bad /\ h # "service"  BY <1>1, <1>2 DEF Part
    <2>3. served' <=> served \/ Head(todo) = "service"
      BY <2>1, <2>2
    <2>4. head' = head \cup ({Head(todo)} \cap {"vary", "cache", "disposition"})
      BY <1>2, <2>1
    <2> QED BY <2>1, <2>2, <2>3, <2>4, Passed
  <1>3. ASSUME NEW part \in Part, Check(part)
        PROVE  Routed' /\ Walking' /\ Sound' /\ Headed'
    <2>1. phase = "stages" /\ todo # <<>> /\ Head(todo) = part /\ served' = served
      BY <1>3 DEF Check, StageIs
    <2>2. part \notin {"service", "vary", "cache", "disposition"}
      BY <1>3 DEF Part
    <2>3. served' <=> served \/ Head(todo) = "service"
      BY <2>1, <2>2
    <2>4. CASE part \notin req.bad /\ Advance /\ head' = head
      <3>1. head' = head \cup ({Head(todo)} \cap {"vary", "cache", "disposition"})
        BY <2>1, <2>2, <2>4
      <3> QED BY <2>1, <2>3, <2>4, <3>1, Passed
    <2>5. ASSUME NEW status \in writeRequestError(part), Decide(status), part \in req.bad,
                 head' = IF part = "token" THEN head \cup {"challenge"} ELSE head
          PROVE  Routed' /\ Walking' /\ Sound' /\ Headed'
      <3>1. status \in Refuses(req.route, Head(todo))
        BY <1>3, <2>1, <2>5 DEF Refuses, Part, writeRequestError
      <3>2. status = 401 <=> part = "token"
        BY <1>3, <2>5 DEF writeRequestError, Part
      <3>3. part = "token" => "challenge" \notin head
        <4>1. answer = None /\ 401 \in 200..599  BY <2>1 DEF Walking
        <4>2. answer # 401  BY <4>1, StatusNotNone
        <4> QED BY <4>2 DEF Headed, Challenged
      <3>4. "challenge" \in head' \ head <=> status = 401 /\ Head(todo) = "token"
        BY <2>1, <2>5, <3>2, <3>3
      <3>5. head' \in {head, head \cup {"challenge"}, head \cup {"retryAfter"}}
        BY <2>5
      <3> QED BY <2>1, <2>3, <2>5, <3>1, <3>4, <3>5, Refused
    <2> QED BY <1>3, <2>4, <2>5 DEF Check
  <1>4. ASSUME NEW stage \in {"token", "slot", "ping", "list", "service"}, NEW status \in 200..599,
               phase = "stages", todo # <<>>, Head(todo) = stage,
               status \in Refuses(req.route, stage), Decide(status),
               head' \in {head, head \cup {"retryAfter"}}, ~(status = 401 /\ stage = "token"),
               served' <=> served \/ stage = "service"
        PROVE  Routed' /\ Walking' /\ Sound' /\ Headed'
    <2>1. "challenge" \in head' \ head <=> status = 401 /\ Head(todo) = "token"
      BY <1>4
    <2>2. Head(todo) \in Part \ {"token"} => Head(todo) \in req.bad
      BY <1>4 DEF Part
    <2>3. head' \in {head, head \cup {"challenge"}, head \cup {"retryAfter"}}
      BY <1>4
    <2> QED BY <1>4, <2>1, <2>2, <2>3, Refused
  <1>5. CASE LookupFails
    <2>1. 500 \in Refuses(req.route, "token")  BY DEF Refuses
    <2>2. served' <=> served \/ "token" = "service"  BY <1>5 DEF LookupFails
    <2> QED BY <1>4, <1>5, <2>1, <2>2 DEF LookupFails, StageIs
  <1>6. ASSUME NEW stage \in {"slot", "ping", "list", "service"},
               phase = "stages", todo # <<>>, Head(todo) = stage, Advance, head' = head,
               served' <=> served \/ stage = "service"
        PROVE  Routed' /\ Walking' /\ Sound' /\ Headed'
    <2>1. Head(todo) \notin req.bad  BY <1>1, <1>6 DEF Part
    <2>2. head' = head \cup ({Head(todo)} \cap {"vary", "cache", "disposition"})
      BY <1>6
    <2> QED BY <1>6, <2>1, <2>2, Passed
  <1>7. CASE Enter
    <2>1. served' <=> served \/ "slot" = "service"  BY <1>7 DEF Enter
    <2> QED BY <1>6, <1>7, <2>1 DEF Enter, StageIs
  <1>8. CASE Busy
    <2>1. 429 \in Refuses(req.route, "slot")  BY DEF Refuses, Part
    <2>2. served' <=> served \/ "slot" = "service"  BY <1>8 DEF Busy
    <2> QED BY <1>4, <1>8, <2>1, <2>2 DEF Busy, StageIs
  <1>9. CASE GiveUp
    <2>1. /\ phase = "stages" /\ phase' = "returned"
          /\ UNCHANGED <<req, todo, answer, served, head>>
      BY <1>9 DEF GiveUp, StageIs
    <2> QED BY <2>1 DEF Routed, Walking, Sound, Headed, SuccessOnly, Varying, Attached, Challenged
  <1>10. CASE Ping
    <2>1. 503 \in Refuses(req.route, "ping")  BY DEF Refuses, Part
    <2>2. (served' <=> served \/ "ping" = "service") /\ head' = head  BY <1>10 DEF Ping
    <2> QED BY <1>4, <1>6, <1>10, <2>1, <2>2 DEF Ping, StageIs
  <1>13. CASE ListPalette
    <2>1. 500 \in Refuses(req.route, "list")  BY DEF Refuses, Part
    <2>2. (served' <=> served \/ "list" = "service") /\ head' = head  BY <1>13 DEF ListPalette
    <2> QED BY <1>4, <1>6, <1>13, <2>1, <2>2 DEF ListPalette, StageIs
  <1>11. CASE Serve
    <2>1. /\ phase = "stages" /\ todo # <<>> /\ Head(todo) = "service"
          /\ (served' <=> served \/ "service" = "service") /\ head' = head
      BY <1>11 DEF Serve, StageIs
    <2>2. CASE Advance  BY <1>6, <2>1, <2>2
    <2>3. ASSUME NEW err \in Errors(req.route) \cup {"other"}, Decide(writeStorageError(err))
          PROVE  Routed' /\ Walking' /\ Sound' /\ Headed'
      <3>1. writeStorageError(err) \in Refuses(req.route, "service")
        BY DEF Refuses, Part
      <3>2. writeStorageError(err) \in 200..599  BY Refusals
      <3> QED BY <1>4, <2>1, <2>3, <3>1, <3>2
    <2> QED BY <1>11, <2>2, <2>3 DEF Serve
  <1>12. CASE Succeed  BY <1>12, Succeeded
  <1> QED BY <1>2, <1>3, <1>5, <1>7, <1>8, <1>9, <1>10, <1>11, <1>12, <1>13 DEF Stages

(* The steps after the handler's decision leave it as it is.                  *)
LEMMA LaterKeeps ==
  ASSUME Routed, Walking, Sound, Headed, UNCHANGED <<req, todo, answer, served, head>>,
         phase' = phase \/ phase' \in {"done", "returned", "panicking", "aborted", "logged", "over"}
                        \/ (phase' = "body" /\ req.route # "static")
  PROVE  Routed' /\ Walking' /\ Sound' /\ Headed'
  <1>1. Routed'  BY DEF Routed
  <1>2. Walking'  BY DEF Walking
  <1>3. Sound'  BY DEF Sound
  <1>4. Headed'
    <2>1. phase' = "stages" => phase = "stages"  OBVIOUS
    <2>2. SuccessOnly("cache")' /\ SuccessOnly("disposition")'
      BY <2>1 DEF Headed, SuccessOnly
    <2>3. Varying' /\ Attached' /\ Challenged'
      BY <2>1 DEF Headed, Varying, Attached, Challenged
    <2> QED BY <2>2, <2>3 DEF Headed
  <1> QED BY <1>1, <1>2, <1>3, <1>4

(* What is written is the answer, and its headers are the ones set.           *)
LEMMA TellsAnswer ==
  ASSUME MInv, Answering, Routed, Walking, Told, Next
  PROVE  Told'
  <1>1. /\ panic \in {None, "before", "after"}
        /\ pc # "over" => (rec.wrote <=> sent.status # None)
        /\ rec \in M!Recorder /\ sent \in M!Sent
        /\ pc = "handler" => panic = None
        /\ pc = "panicking" => panic # None
    BY NoneIsNoText DEF MInv, M!TypeOK, Recovered
  <1>2. ASSUME Stages PROVE Told'
    <2>1. phase = "stages" /\ UNCHANGED <<req, out, rec, panic, line>>
      BY <1>2 DEF Stages, SetHeader, Check, LookupFails, Enter, Busy, GiveUp, Ping,
                  ListPalette, Serve, Succeed,
                  StageIs, Advance, Decide, wrapped
    <2>2. phase' \in {"stages", "answer", "returned"}
      BY <1>2, <2>1 DEF Stages, SetHeader, Check, LookupFails, Enter, Busy, GiveUp, Ping,
                  ListPalette, Serve, Succeed, StageIs, Advance, Decide
    <2>3. phase' = "answer" => answer' # None
      <3>1. Answering'  BY <1>2, StageStep
      <3> QED BY <3>1, StatusNotNone DEF Answering
    <2>4. ~rec.wrote /\ line = None /\ req.route # "static"
      BY <2>1 DEF Told, Routed
    <2> QED BY <2>1, <2>2, <2>3, <2>4 DEF Told
  <1>3. CASE WriteStatus
    <2>1. phase = "answer" /\ req.route # "static" /\ ~rec.wrote /\ line = None /\ answer # None
      BY <1>3 DEF WriteStatus, Told, Routed
    <2>2. sent.status = None
      BY <1>1, <2>1 DEF pc
    <2>3. answer \in 200..599 /\ rec' = M!Noted(rec, answer)
      BY <1>3, <2>1 DEF WriteStatus, Answering, M!WriteHeader
    <2>4. rec'.wrote /\ rec'.status = answer
      <3>1. rec' = [rec EXCEPT !.status = answer, !.wrote = TRUE]
        BY <2>1, <2>3 DEF M!Noted
      <3> QED BY <1>1, <3>1 DEF M!Recorder
    <2>5. phase' \in {"done", "body"} /\ out' = head /\ UNCHANGED <<req, answer, head, line>>
      BY <1>3, <2>2 DEF WriteStatus, Writing, M!WriteHeader
    <2> QED BY <2>1, <2>4, <2>5 DEF Told
  <1>4. CASE WriteBody
    <2>1. phase = "body" /\ req.route # "static" /\ rec.wrote /\ line = None /\ answer # None
      BY <1>4 DEF WriteBody, Told, Routed
    <2>2. sent.status # None
      BY <1>1, <2>1 DEF pc
    <2>3. PICK n \in 1..MaxBytes : M!Write(n)
      BY <1>4 DEF WriteBody
    <2>4. PICK m : rec' = [M!Noted(rec, 200) EXCEPT !.bytes = @ + m]
      BY <2>3 DEF M!Write
    <2>5. rec'.wrote = rec.wrote /\ rec'.status = rec.status
      <3>1. M!Noted(rec, 200) = rec  BY <2>1 DEF M!Noted
      <3>2. rec' = [rec EXCEPT !.bytes = @ + m]  BY <2>4, <3>1
      <3> QED BY <1>1, <3>2 DEF M!Recorder
    <2>6. phase' = "done" /\ UNCHANGED <<req, answer, head, out, line, panic>>
      BY <1>4, <2>2, <2>3 DEF WriteBody, Writing, M!Write
    <2> QED BY <2>1, <2>5, <2>6 DEF Told
  <1>5. CASE ServeFile
    <2>1. req.route = "static" /\ phase = "done" /\ line' = line /\ req' = req
      BY <1>5 DEF ServeFile, Writing, M!WriteHeader, M!Write
    <2> QED BY <2>1 DEF Told
  <1>6. CASE Return
    <2>1. phase = "done" /\ phase' = "returned" /\ UNCHANGED <<req, answer, head, out, rec, panic, line>>
      BY <1>6 DEF Return, Around, M!Return
    <2> QED BY <2>1 DEF Told
  <1>7. CASE Panic
    <2>1. pc = "handler" /\ phase' = "panicking" /\ panic' # None /\ UNCHANGED <<req, line>>
      BY <1>7, NoneIsNoText DEF Panic, Around, M!Panic
    <2>2. line = None
      BY <2>1 DEF Told, pc
    <2> QED BY <2>1, <2>2 DEF Told
  <1>8. CASE Abort
    <2>1. req.route = "static" /\ pc = "handler" /\ req' = req /\ line' = line
      BY <1>8 DEF Abort, Around, M!Abort
    <2> QED BY <2>1 DEF Told, pc
  <1>9. CASE Recover
    <2>1. pc = "panicking" /\ phase' = "returned" /\ UNCHANGED <<req, panic, line>>
      BY <1>9 DEF Recover, Around, Writing, M!Recover
    <2>2. panic' # None /\ line = None
      BY <1>1, <2>1 DEF Told, pc
    <2> QED BY <2>1, <2>2 DEF Told
  <1>10. CASE Log
    <2>1. phase' = "logged" /\ UNCHANGED <<req, answer, head, out, rec, panic>>
      BY <1>10 DEF Log, Around, M!Log
    <2> QED BY <2>1 DEF Told
  <1>11. CASE Finish
    <2>1. /\ pc = "logged" /\ phase' = "over"
          /\ UNCHANGED <<req, answer, head, rec, panic, line>>
          /\ out' = IF sent.status = None THEN head ELSE out
      BY <1>11 DEF Finish, Writing, M!Finish
    <2>2. rec.wrote => out' = out
      BY <1>1, <2>1
    <2> QED BY <2>1, <2>2 DEF Told
  <1>12. CASE HangUp
    <2>1. UNCHANGED <<req, phase, answer, head, out, rec, panic, line>>
      BY <1>12 DEF HangUp, Around, M!HangUp
    <2> QED BY <2>1 DEF Told
  <1> QED BY <1>2, <1>3, <1>4, <1>5, <1>6, <1>7, <1>8, <1>9, <1>10, <1>11, <1>12 DEF Next

LEMMA HStep == HInv /\ [Next]_vars => HInv'
  <1> SUFFICES ASSUME HInv, [Next]_vars PROVE HInv'  OBVIOUS
  <1> USE DEF HInv
  <1>1. Answering' /\ MInv'
    BY HandlerStep, MStep
  <1>2. ASSUME UNCHANGED vars PROVE HInv'
    <2>1. UNCHANGED <<req, phase, todo, answer, served, head, out, rec, panic, line>>
      BY <1>2 DEF vars, wrapped
    <2>2. Routed' /\ Walking' /\ Sound' /\ Headed'
      BY <2>1, LaterKeeps
    <2>3. Told'
      BY <2>1 DEF Told
    <2> QED BY <1>1, <2>2, <2>3
  <1>3. ASSUME Next PROVE Routed' /\ Walking' /\ Sound' /\ Headed'
    <2>1. CASE Stages  BY <2>1, StagesKeep
    <2>2. ASSUME WriteStatus \/ WriteBody \/ ServeFile \/ Return \/ Panic \/ Abort
                   \/ Recover \/ Log \/ Finish \/ HangUp
          PROVE  Routed' /\ Walking' /\ Sound' /\ Headed'
      <3>1. UNCHANGED <<req, todo, answer, served, head>>
        BY <2>2 DEF WriteStatus, WriteBody, ServeFile, Return, Panic, Abort, Recover, Log, Finish,
                    HangUp, Writing, Around
      <3>2. phase = "answer" => req.route # "static"
        BY DEF Routed
      <3>3. \/ phase' = phase
            \/ phase' \in {"done", "returned", "panicking", "aborted", "logged", "over"}
            \/ (phase' = "body" /\ req.route # "static")
        BY <2>2, <3>2 DEF WriteStatus, WriteBody, ServeFile, Return, Panic, Abort, Recover, Log,
                          Finish, HangUp, Writing, Around
      <3> QED BY <3>1, <3>3, LaterKeeps
    <2> QED BY <1>3, <2>1, <2>2 DEF Next
  <1>4. ASSUME Next PROVE HInv'
    BY <1>1, <1>3, <1>4, TellsAnswer
  <1> QED BY <1>2, <1>4

LEMMA HInit == Init => HInv
  <1> SUFFICES ASSUME Init PROVE HInv  OBVIOUS
  <1> DEFINE route == req.route
  <1>1. route \in Route /\ req.bad \subseteq Given(route)
    <2>1. PICK r \in Route : \E bad \in SUBSET Given(r) : req = [route |-> r, bad |-> bad]
      BY DEF Init
    <2> QED BY <2>1
  <1>2. MInv /\ Answering
    BY HandlerInit, MInit
  <1>4. /\ phase = IF route = "static" THEN "done" ELSE "stages"
        /\ todo = IF route = "static" THEN <<>> ELSE newMux[route]
        /\ answer = None /\ ~served /\ head = {"requestId"}
        /\ ~rec.wrote /\ line = None
    BY DEF Init
  <1>5. route # "static" => RouteOK(route) /\ route \in DOMAIN newMux
    BY <1>1, RouteChains DEF Route
  <1>6. 401 # None /\ 200 # None
    BY StatusNotNone
  <1>7. Routed
    BY <1>1, <1>4 DEF Routed
  <1>8. Walking
    <2>1. route # "static" => req.bad \subseteq Passes(route)
      BY <1>1, <1>5, RouteFacts
    <2> QED BY <1>4, <1>5, <2>1 DEF Walking, RouteOK, Chain
  <1>9. Sound
    BY <1>4 DEF Sound
  <1>10. Headed
    <2>1. "export" \in Mine /\ "static" \notin Mine  BY DEF Mine, Route, newMux
    <2>2. Varying
      <3>1. route \in Mine => route # "static" /\ todo # <<>> /\ Head(todo) = "vary"
        BY <1>4, <2>1, VaryFirst
      <3> QED BY <1>4, <3>1 DEF Varying
    <2>3. Attached
      <3>1. route = "export" => StagesIn(todo) = Passes(route)
        BY <1>4, <1>5 DEF RouteOK, Chain
      <3>2. "disposition" \in Passes("export")  BY DEF Passes
      <3> QED BY <1>4, <1>6, <3>1, <3>2 DEF Attached
    <2> QED BY <1>4, <1>6, <2>2, <2>3 DEF Headed, SuccessOnly, Challenged
  <1>11. Told
    BY <1>1, <1>4 DEF Told
  <1> QED BY <1>2, <1>7, <1>8, <1>9, <1>10, <1>11 DEF HInv

(* The stages still to come hold all that is bad, and nothing is answered,    *)
(* served or promised in a header before its stage: the inductive invariant   *)
(* of a request, from which the three properties below follow.                *)
THEOREM HandlersInvariance == Spec => []HInv
  BY HInit, HStep, PTL DEF Spec

(* Nothing malformed reaches a service, and nothing sound is called malformed.*)
THEOREM OnlySoundServed == Spec => []ServedIfSound
  <1>1. HInv => ServedIfSound
    <2> SUFFICES ASSUME HInv PROVE ServedIfSound  OBVIOUS
    <2>1. Sound  BY DEF HInv
    <2>2. 400 # None /\ 413 # None  BY StatusNotNone
    <2> QED BY <2>1, <2>2 DEF Sound, ServedIfSound
  <1> QED BY <1>1, HandlersInvariance, PTL

\* What the log says of an answer that a handler gave.
LEMMA LoggedAnswer ==
  ASSUME HInv, Over
  PROVE  /\ line.status = answer /\ answer # None /\ out = head
         /\ phase \in {"logged", "over"}
  <1>1. line # None /\ panic = None /\ rec.wrote /\ req.route # "static"
    BY DEF Over
  <1>2. phase \in {"logged", "over"} /\ answer # None /\ rec.status = answer /\ out = head
    BY <1>1 DEF HInv, Told
  <1>3. line.status = rec.status
    BY <1>2 DEF HInv, MInv, Lined, pc
  <1> QED BY <1>2, <1>3

(* Every status a client of the API gets is one that api.yaml lists.          *)
THEOREM AnswersDocumented == Spec => []DocumentedAnswer
  <1>1. HInv => DocumentedAnswer
    <2> SUFFICES ASSUME HInv, Over PROVE answer \in Documented(req.route) /\ line.status = answer
      BY DEF DocumentedAnswer, Documented
    <2> QED BY LoggedAnswer DEF HInv, Sound
  <1> QED BY <1>1, HandlersInvariance, PTL

(* The headers of an answer are those of its outcome.                         *)
THEOREM HeadersFollowOutcome == Spec => []HeadersFit
  <1>1. HInv => HeadersFit
    <2> SUFFICES ASSUME HInv, Over PROVE HeadersFit  BY DEF HeadersFit
    <2>1. line.status = answer /\ answer # None /\ out = head
      BY LoggedAnswer
    <2>2. req.route \in DOMAIN newMux
      BY DEF HInv, Routed, Route, Over
    <2>3. "requestId" \in head
      BY DEF HInv, Headed
    <2>4. "cache" \in head => answer = 200 /\ ~served /\ req.route \notin Mine
      BY <2>1, <2>2, RouteFacts DEF HInv, Headed, SuccessOnly, Sound
    <2>5. req.route \in Mine => "vary" \in head
      BY <2>1 DEF HInv, Headed, Varying
    <2>6. "disposition" \in head <=> req.route = "export" /\ answer = 200
      BY <2>1, <2>2, RouteFacts DEF HInv, Headed, SuccessOnly, Attached
    <2>7. "challenge" \in head <=> answer = 401 /\ req.route \in Mine
      BY DEF HInv, Headed, Challenged
    <2> QED BY <2>1, <2>3, <2>4, <2>5, <2>6, <2>7 DEF HeadersFit
  <1> QED BY <1>1, HandlersInvariance, PTL

=============================================================================
