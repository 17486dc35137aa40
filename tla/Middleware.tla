------------------------------ MODULE Middleware ------------------------------
(* One request through loggingMiddleware(recoveryMiddleware(mux)): what the   *)
(* statusRecorder notes down, what net/http really commits, and the line of   *)
(* the access log, while the handler writes, gives up, panics or aborts.      *)
EXTENDS Integers

CONSTANTS Codes,     \* the final statuses a handler writes (no 1xx: none does)
          NoBody,    \* those of them whose body net/http refuses (204, 304)
          MaxBytes,  \* bound: bytes of a body
          None       \* neither a number, a text nor a line of the log

VARIABLES pc,     \* where the request is
          rec,    \* the statusRecorder
          sent,   \* what net/http committed: a status or None, and body bytes
          closing,\* Connection: close in the committed header
          gone,   \* the request's context is done
          panic,  \* None, or whether a panic came before or after the header was out
          line    \* the request's line in the access log, or None

vars == <<pc, rec, sent, closing, gone, panic, line>>

Recorder == [status : Codes, bytes : 0..MaxBytes, wrote : BOOLEAN]
Sent == [status : Codes \cup {None}, bytes : 0..MaxBytes]
Line == [status : Codes, bytes : 0..MaxBytes, aborted : BOOLEAN]

Init ==
  /\ pc = "handler"
  /\ rec = [status |-> 200, bytes |-> 0, wrote |-> FALSE]
  /\ sent = [status |-> None, bytes |-> 0]
  /\ closing = FALSE /\ gone = FALSE /\ panic = None /\ line = None

-----------------------------------------------------------------------------
(* net/http: the first header stands, a later one is ignored with a warning.  *)
Commits(s, code) == IF s.status = None THEN [s EXCEPT !.status = code] ELSE s

\* An erroneous variant: the last code is kept.
NotedLast(r, code) == [r EXCEPT !.status = code, !.wrote = TRUE]

(* statusRecorder.WriteHeader keeps the first code, as net/http does.         *)
Noted(r, code) ==
  IF r.wrote THEN r ELSE [r EXCEPT !.status = code, !.wrote = TRUE]

WriteHeader(code) ==
  /\ pc = "handler"
  /\ rec' = Noted(rec, code)
  /\ sent' = Commits(sent, code)
  /\ UNCHANGED <<pc, closing, gone, panic, line>>

(* What net/http takes of n bytes: none where the status has no body, and any *)
(* part of them once the client is gone.                                      *)
Takes(status, n) ==
  IF status \in NoBody THEN {0} ELSE IF gone THEN 0..n ELSE {n}

(* statusRecorder.Write commits a 200 first, and counts what was taken.       *)
Write(n) ==
  /\ pc = "handler" /\ sent.bytes + n <= MaxBytes
  /\ LET r == Noted(rec, 200)
         s == Commits(sent, 200)
     IN \E m \in Takes(s.status, n) :
          /\ rec' = [r EXCEPT !.bytes = @ + m]
          /\ sent' = [s EXCEPT !.bytes = @ + m]
  /\ UNCHANGED <<pc, closing, gone, panic, line>>

(* Every handler answers before it returns, but the limiter: when its client  *)
(* hung up in the queue it returns with nothing written.                      *)
Return ==
  /\ pc = "handler" /\ (rec.wrote \/ gone)
  /\ pc' = "returned"
  /\ UNCHANGED <<rec, sent, closing, gone, panic, line>>

Panic ==
  /\ pc = "handler"
  /\ pc' = "panicking"
  /\ panic' = IF rec.wrote THEN "after" ELSE "before"
  /\ UNCHANGED <<rec, sent, closing, gone, line>>

(* http.ErrAbortHandler goes through recovery and logging to net/http, which  *)
(* drops the connection: the request has no line.                             *)
Abort ==
  /\ pc = "handler"
  /\ pc' = "aborted"
  /\ UNCHANGED <<rec, sent, closing, gone, panic, line>>

\* An erroneous variant: the connection is kept after a panic.
RecoverKeepsOpen ==
  /\ pc = "panicking"
  /\ pc' = "returned"
  /\ rec' = Noted(rec, 500)
  /\ sent' = Commits(sent, 500)
  /\ UNCHANGED <<closing, gone, panic, line>>

(* recoveryMiddleware: a 500 and the connection's end, unless a header is out. *)
Recover ==
  /\ pc = "panicking"
  /\ pc' = "returned"
  /\ IF rec.wrote
     THEN UNCHANGED <<rec, sent, closing>>
     ELSE /\ rec' = Noted(rec, 500)
          /\ sent' = Commits(sent, 500)
          /\ closing' = TRUE
  /\ UNCHANGED <<gone, panic, line>>

(* loggingMiddleware after next.ServeHTTP returned.                           *)
Log ==
  /\ pc = "returned"
  /\ pc' = "logged"
  /\ line' = [status |-> rec.status, bytes |-> rec.bytes, aborted |-> gone]
  /\ UNCHANGED <<rec, sent, closing, gone, panic>>

(* net/http ends the response; nothing written means 200.                     *)
Finish ==
  /\ pc = "logged"
  /\ pc' = "over"
  /\ sent' = Commits(sent, 200)
  /\ UNCHANGED <<rec, closing, gone, panic, line>>

(* The client hangs up.                                                       *)
HangUp ==
  /\ ~gone /\ pc \notin {"over", "aborted"}
  /\ gone' = TRUE
  /\ UNCHANGED <<pc, rec, sent, closing, panic, line>>

Next ==
  \/ \E code \in Codes : WriteHeader(code)
  \/ \E n \in 0..MaxBytes : Write(n)
  \/ Return \/ Panic \/ Abort \/ Recover \/ Log \/ Finish \/ HangUp

Spec == Init /\ [][Next]_vars

-----------------------------------------------------------------------------
(* The variables keep their types, and the recorder says a header is out      *)
(* exactly when net/http has one, until net/http ends the response itself.    *)
TypeOK ==
  /\ pc \in {"handler", "panicking", "aborted", "returned", "logged", "over"}
  /\ rec \in Recorder /\ sent \in Sent
  /\ closing \in BOOLEAN /\ gone \in BOOLEAN
  /\ panic \in {None, "before", "after"}
  /\ line \in Line \cup {None}
  /\ pc # "over" => (rec.wrote <=> sent.status # None)

(* The access log tells the truth: a request that ended has a line with the   *)
(* status and the size net/http sent, whatever order the handler wrote its    *)
(* headers and body in, and whether it panicked or not; and where nobody      *)
(* answered (the limiter, when its client is gone) it says why.               *)
LoggedIsSent ==
  pc = "over" =>
    /\ line # None
    /\ line.status = sent.status /\ line.bytes = sent.bytes
    /\ ~rec.wrote => line.aborted

(* recoveryMiddleware "turns it into a logged 500": a panic before the header *)
(* is answered and logged with a 500 on a connection that ends; one after it  *)
(* leaves the response as it was.                                             *)
PanicAnswered ==
  pc = "over" =>
    /\ panic = "before" => line.status = 500 /\ sent.status = 500 /\ closing
    /\ panic # "before" => ~closing

=============================================================================
