------------------------------ MODULE MCServer ------------------------------
(***************************************************************************)
(* Server for TLC: two requests for the bcrypt routes and one for another. *)
(***************************************************************************)
EXTENDS Server

CONSTANTS r1, r2, r3

MCReq == {r1, r2, r3}
MCLimited == {r1, r2}

\* A value the code takes and those at the edge that it refuses.
MCEnv == [port : {0, 8080}, shutdownTimeout : {0, 10000}, dsnParses : BOOLEAN,
          colorQuota : {0, 100}, collectionQuota : {0, 10}, ttl : {0, 86400000},
          authLimit : {-1, 1}, authWait : {-1, 1000, 5000},
          slowQuery : {-1, 0}, slowAcquire : {-1, 0},
          webDir : {"none", "page", "empty"}, dev : BOOLEAN]
=============================================================================
