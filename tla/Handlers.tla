------------------------------- MODULE Handlers -------------------------------
(* One request through the whole chain of internal/server: request id,        *)
(* logging, recovery, the mux, the limiter or the authentication of its       *)
(* route, and the handler with its checks, its one call of a service and its  *)
(* answer.  A handler is the sequence of its stages; what a handler may write *)
(* and how it is logged is Middleware, which this module implements.          *)
EXTENDS Integers, Sequences

CONSTANTS MaxBytes,  \* bound: bytes of a body
          None

VARIABLES req,     \* [route, bad: the parts of the request that are malformed]
          phase,   \* "stages", how far the answer is, or Middleware's pc after that
          todo,    \* the stages still to pass
          answer,  \* the status the handler decided on
          served,  \* the service was called
          head,    \* the headers set so far
          out,     \* the headers net/http committed
          rec, sent, closing, gone, panic, line  \* as in Middleware

wrapped == <<rec, sent, closing, gone, panic, line>>
vars == <<req, phase, todo, answer, served, head, out, wrapped>>

-----------------------------------------------------------------------------
(* The stages of each handler.                                                *)

\* Erroneous variants: an unchecked body; a header set before the checks.
HandleUpdateCollectionAnyBody == <<"id", "json", "service">>
HandleHarmonyCachedFirst == <<"hex", "cache", "harmony", "query">>

HandleLive == <<>>
HandleReady == <<"ping">>
HandleVersion == <<>>
HandleCreateUser == <<"json", "fields", "service">>
HandleCreateToken == <<"json", "service">>
HandleDeleteToken == <<"service">>
HandleGetMe == <<"service">>
HandleDeleteMe == <<"service">>
HandleExport == <<"service", "disposition">>
HandleListCollections == <<"service">>
HandleCreateCollection == <<"json", "fields", "service">>
HandleGetCollection == <<"id", "service">>
HandleUpdateCollection == <<"id", "json", "fields", "service">>
HandleDeleteCollection == <<"id", "service">>
HandleListColors == <<"id", "query", "service">>
HandleAddColor == <<"id", "json", "fields", "service">>
HandleDeleteAllColors == <<"id", "service">>
HandleDeleteColor == <<"id", "hex", "service">>
HandleListCommonColors == <<"query", "list", "cache">>
HandleListShades == <<"cache">>
HandleColorInfo == <<"hex", "cache">>
HandleHarmony == <<"hex", "harmony", "query", "cache">>

limitConcurrent(h) == <<"slot">> \o h
authenticate(h) == <<"vary", "token">> \o h

newMux ==
  [live |-> HandleLive, ready |-> HandleReady, version |-> HandleVersion,
   signUp |-> limitConcurrent(HandleCreateUser),
   login |-> limitConcurrent(HandleCreateToken),
   logout |-> authenticate(HandleDeleteToken),
   getMe |-> authenticate(HandleGetMe), deleteMe |-> authenticate(HandleDeleteMe),
   export |-> authenticate(HandleExport),
   listClts |-> authenticate(HandleListCollections),
   createClt |-> authenticate(HandleCreateCollection),
   getClt |-> authenticate(HandleGetCollection),
   updateClt |-> authenticate(HandleUpdateCollection),
   deleteClt |-> authenticate(HandleDeleteCollection),
   listColors |-> authenticate(HandleListColors),
   addColor |-> authenticate(HandleAddColor),
   deleteColors |-> authenticate(HandleDeleteAllColors),
   deleteColor |-> authenticate(HandleDeleteColor),
   css |-> HandleListCommonColors, shades |-> HandleListShades,
   info |-> HandleColorInfo, harmony |-> HandleHarmony]

\* What no pattern claims goes to the files of the page.
Route == DOMAIN newMux \cup {"static"}

Part == {"token", "json", "fields", "id", "hex", "harmony", "query"}

\* What the path, the method and the description of a route say that it takes.
Mine == Route \ {"static", "live", "ready", "version", "signUp", "login",
                 "css", "shades", "info", "harmony"}
Given(route) ==
  {part \in Part :
     CASE part = "token" -> route \in Mine
       [] part = "id" -> route \in {"getClt", "updateClt", "deleteClt", "listColors",
                                    "addColor", "deleteColors", "deleteColor"}
       [] part = "hex" -> route \in {"deleteColor", "info", "harmony"}
       [] part = "harmony" -> route = "harmony"
       [] part = "query" -> route \in {"listColors", "css", "harmony"}
       [] part = "json" -> route \in {"signUp", "login", "createClt", "updateClt", "addColor"}
       [] part = "fields" -> route \in {"signUp", "createClt", "updateClt", "addColor"}}

\* An erroneous variant: a missing token is told like a missing row.
writeRequestErrorTokenMissing(part) == CASE part = "json" -> {400, 413}
                                         [] part \in {"harmony", "token"} -> {404}
                                         [] OTHER -> {400}

\* The status of a refusal.
writeRequestError(part) == CASE part = "json" -> {400, 413}
                             [] part = "harmony" -> {404}
                             [] part = "token" -> {401}
                             [] OTHER -> {400}

\* What can go wrong in the service of a route, besides a database error.
Errors(route) ==
  CASE route = "signUp" -> {"ErrDuplicateNickname"}
    [] route = "login" -> {"ErrInvalidCredentials", "ErrUserNotFound"}
    [] route \in {"getMe", "deleteMe", "export"} -> {"ErrUserNotFound"}
    [] route = "createClt" -> {"ErrUserNotFound", "ErrQuotaFull"}
    [] route \in {"getClt", "updateClt", "listColors", "deleteColor", "deleteColors"} ->
         {"ErrNotFound"}
    [] route = "deleteClt" -> {"ErrNotFound", "ErrDeleteDefault"}
    [] route = "addColor" -> {"ErrNotFound", "ErrQuotaFull"}
    [] OTHER -> {}

writeStorageError(err) ==
  CASE err \in {"ErrUserNotFound", "ErrNotFound"} -> 404
    [] err \in {"ErrDuplicateNickname", "ErrQuotaFull", "ErrDeleteDefault"} -> 409
    [] err = "ErrInvalidCredentials" -> 401
    [] OTHER -> 500

Success(route) ==
  CASE route \in {"signUp", "login", "createClt"} -> {201}
    [] route \in {"logout", "deleteMe", "deleteClt", "deleteColor", "deleteColors"} -> {204}
    [] route = "addColor" -> {200, 201}
    [] OTHER -> {200}

-----------------------------------------------------------------------------
(* Middleware sees a handler at work until it returns.                        *)
pc == IF phase \in {"stages", "answer", "body", "done"} THEN "handler" ELSE phase

M == INSTANCE Middleware WITH Codes <- 200..599, NoBody <- {204, 304}, pc <- pc

ASSUME HandlersAssumption == MaxBytes \in Nat /\ None \notin Int \cup {"before", "after"} \cup M!Line

Init ==
  /\ \E route \in Route : \E bad \in SUBSET Given(route) :
       req = [route |-> route, bad |-> bad]
  /\ phase = IF req.route = "static" THEN "done" ELSE "stages"
  /\ todo = IF req.route = "static" THEN <<>> ELSE newMux[req.route]
  /\ answer = None /\ served = FALSE
  /\ head = {"requestId"} /\ out = {}
  /\ rec = [status |-> 200, bytes |-> 0, wrote |-> FALSE]
  /\ sent = [status |-> None, bytes |-> 0]
  /\ closing = FALSE /\ gone = FALSE /\ panic = None /\ line = None

StageIs(stage) == phase = "stages" /\ todo # <<>> /\ Head(todo) = stage

\* A stage is passed, or the handler has its answer.
Advance == /\ todo' = Tail(todo)
           /\ UNCHANGED <<req, phase, answer, out, wrapped>>

Decide(status) == /\ phase' = "answer" /\ answer' = status
                  /\ UNCHANGED <<req, todo, out, wrapped>>

SetHeader(h) == StageIs(h) /\ Advance /\ head' = head \cup {h} /\ UNCHANGED served

\* One part of a request: the token in authenticate; an id, a body and its
\* fields as in HandleUpdateCollection; a hex, a harmony and a query as in
\* HandleHarmony and listColorsParams.
Check(part) ==
  /\ StageIs(part)
  /\ \/ part \notin req.bad /\ Advance /\ head' = head
     \/ /\ part \in req.bad
        /\ \E status \in writeRequestError(part) : Decide(status)
        /\ head' = IF part = "token" THEN head \cup {"challenge"} ELSE head
  /\ UNCHANGED served

\* The token lookup is a query, which may fail.
LookupFails == StageIs("token") /\ Decide(500) /\ UNCHANGED <<served, head>>

\* limitConcurrent: a slot, a 429, or nothing for a client that hung up.
Enter == StageIs("slot") /\ Advance /\ UNCHANGED <<served, head>>

Busy == /\ StageIs("slot") /\ Decide(429)
        /\ head' = head \cup {"retryAfter"} /\ UNCHANGED served

GiveUp == /\ StageIs("slot") /\ gone
          /\ phase' = "returned"
          /\ UNCHANGED <<req, todo, answer, served, head, out, wrapped>>

Ping == StageIs("ping") /\ (Advance \/ Decide(503)) /\ UNCHANGED <<served, head>>

\* palette.List, which refuses a sort that the check of the query let through.
ListPalette == StageIs("list") /\ (Advance \/ Decide(500)) /\ UNCHANGED <<served, head>>

Serve ==
  /\ StageIs("service")
  /\ served' = TRUE /\ head' = head
  /\ \/ Advance
     \/ \E err \in Errors(req.route) \cup {"other"} : Decide(writeStorageError(err))

Succeed ==
  /\ phase = "stages" /\ todo = <<>>
  /\ \E status \in Success(req.route) : Decide(status)
  /\ UNCHANGED <<served, head>>

Stages == \/ \E h \in {"vary", "cache", "disposition"} : SetHeader(h)
          \/ \E part \in Part : Check(part)
          \/ LookupFails \/ Enter \/ Busy \/ GiveUp \/ Ping \/ ListPalette
          \/ Serve \/ Succeed

\* A step of Middleware; the first byte of a response commits its headers.
Writing(next) == /\ phase' = next
                 /\ out' = IF sent.status = None THEN head ELSE out
                 /\ UNCHANGED <<req, todo, answer, served, head>>
Around(next) == phase' = next /\ UNCHANGED <<req, todo, answer, served, head, out>>

\* WriteJSON, WriteError and the bare 204.
WriteStatus == /\ phase = "answer"
               /\ Writing(IF answer = 204 THEN "done" ELSE "body")
               /\ M!WriteHeader(answer)

WriteBody == /\ phase = "body"
             /\ Writing("done")
             /\ \E n \in 1..MaxBytes : M!Write(n)

\* readOnly and http.FileServerFS, which writes as it likes.  A path that the mux
\* cleans, and answers with a redirect itself, counts as one of the page.
ServeFile == /\ req.route = "static" /\ phase = "done"
             /\ Writing("done")
             /\ \/ \E status \in {200, 206, 301, 304, 404, 416, 500} : M!WriteHeader(status)
                \/ \E n \in 0..MaxBytes : M!Write(n)

Return == phase = "done" /\ Around("returned") /\ M!Return

Panic == Around("panicking") /\ M!Panic

\* Only net/http's own handlers panic with ErrAbortHandler.
Abort == req.route = "static" /\ Around("aborted") /\ M!Abort

Recover == (IF rec.wrote THEN Around("returned") ELSE Writing("returned")) /\ M!Recover
Log == Around("logged") /\ M!Log
Finish == Writing("over") /\ M!Finish
HangUp == Around(phase) /\ M!HangUp

Next == \/ Stages \/ WriteStatus \/ WriteBody \/ ServeFile \/ Return
        \/ Panic \/ Abort \/ Recover \/ Log \/ Finish \/ HangUp

Spec == Init /\ [][Next]_vars

-----------------------------------------------------------------------------
(* middleware.go: every request that comes back through the chain has a line  *)
(* in the access log with the status and the size net/http sent: a refusal, a *)
(* panic at any stage, a file, a client that hung up in the limiter's queue.  *)
LoggedIsSent == M!LoggedIsSent

(* recoveryMiddleware: a panic of any handler before its first byte becomes a *)
(* logged 500 on a connection that ends; a later one leaves the answer alone. *)
PanicAnswered == M!PanicAnswered

(* Nothing malformed reaches a service: whatever parts of a request are bad   *)
(* together, its handler turns it down before the call that changes or reads  *)
(* rows; and no sound request is turned down as malformed.                    *)
ServedIfSound ==
  /\ served => req.bad = {}
  /\ req.bad = {} => answer \notin {400, 413}

\* api.yaml: the responses of each operation.
Statuses ==
  [live |-> {200}, ready |-> {200, 503}, version |-> {200},
   signUp |-> {201, 400, 409, 413, 429, 500}, login |-> {201, 400, 401, 413, 429, 500},
   logout |-> {204, 401, 500},
   getMe |-> {200, 401, 404, 500}, deleteMe |-> {204, 401, 404, 500},
   export |-> {200, 401, 404, 500},
   listClts |-> {200, 401, 500}, createClt |-> {201, 400, 401, 404, 409, 413, 500},
   getClt |-> {200, 400, 401, 404, 500}, updateClt |-> {200, 400, 401, 404, 413, 500},
   deleteClt |-> {204, 400, 401, 404, 409, 500},
   listColors |-> {200, 400, 401, 404, 500},
   addColor |-> {200, 201, 400, 401, 404, 409, 413, 500},
   deleteColors |-> {204, 400, 401, 404, 500}, deleteColor |-> {204, 400, 401, 404, 500},
   css |-> {200, 400, 500}, shades |-> {200, 500}, info |-> {200, 400},
   harmony |-> {200, 400, 404}]

\* A handler answered, and the answer was logged.
Over == line # None /\ panic = None /\ rec.wrote /\ req.route # "static"

(* The status a client gets is one that api.yaml lists for the operation,     *)
(* through limiter, authentication, request errors and storage errors alike.  *)
(* It lists no 404 for a login whose account goes away while it is checked.   *)
DocumentedAnswer ==
  Over => line.status \in Statuses[req.route] \cup (IF req.route = "login" THEN {404} ELSE {})

(* The headers of an answer are those of its outcome, set before the first    *)
(* byte: a shared cache may keep only a 200 that no service and no account    *)
(* went into; what depends on a token varies by it; only an export that came  *)
(* through is an attachment; a 401 of the token check, and no other, carries  *)
(* the challenge; and every answer names its request.                         *)
HeadersFit ==
  Over => /\ "requestId" \in out
          /\ "cache" \in out => line.status = 200 /\ ~served /\ req.route \notin Mine
          /\ req.route \in Mine => "vary" \in out
          /\ "disposition" \in out <=> req.route = "export" /\ line.status = 200
          /\ "challenge" \in out <=> line.status = 401 /\ req.route \in Mine
=============================================================================
