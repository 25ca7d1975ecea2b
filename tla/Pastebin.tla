------------------------------ MODULE Pastebin ------------------------------
(***************************************************************************)
(* The whole request-parallel server of src/src/app.js: the create         *)
(* handlers (Ingestion), the read dispatchers (Reads) and the listing and  *)
(* management handlers (Management) interleave their awaited calls on the  *)
(* one paste store while the clock advances.                               *)
(*                                                                         *)
(* The process itself can be stopped (Crash): SIGINT and SIGTERM close    *)
(* the database and exit under the requests in flight.  The database       *)
(* outlives the process: a restart (startServer) finds the store as it    *)
(* was.                                                                    *)
(***************************************************************************)
EXTENDS Ingestion, Reads, Management

CONSTANT MaxStops   \* bound on the shutdown signals a run delivers

VARIABLES
    server,         \* "up" (listening) or "down" (the process has exited)
    stops           \* shutdown signals delivered so far

serverVars == <<server, stops>>

vars == <<store, clock, idIndex, creq, rreq, lreq, server, stops>>

TypeOK ==
    /\ IngestionTypeOK /\ ReadsTypeOK /\ ManagementTypeOK
    /\ server \in {"up", "down"}
    /\ stops \in 0 .. MaxStops

Init == IngestionInit /\ ReadsInit /\ ManagementInit /\ server = "up" /\ stops = 0

(***************************************************************************)
(* The process lifecycle                                                   *)
(***************************************************************************)

\* How a request begun and not answered ends when the database closes under
\* it: `sequelize.close()` / `mongoose.disconnect()` makes its next store
\* call reject and the handler's catch answer 500 ("error"), or the process
\* exits first and the connection closes without a response ("reset").
Abort(q, how) == IF q.pc \in {"idle", "done"} THEN q ELSE [q EXCEPT !.pc = "done", !.resp = how]

\* process.on('SIGINT' | 'SIGTERM'): await dbManager.disconnect(), then
\* process.exit(0).  The HTTP server is never closed, so while the database
\* closes requests still arrive and the handlers' steps go on; those steps
\* touch no state the close does, so they are taken as happening before this
\* step, and the close and the exit as one step that ends every request in
\* flight in one of the two ways of Abort.
Crash ==
    /\ server = "up" /\ stops < MaxStops
    /\ server' = "down" /\ stops' = stops + 1
    /\ \E cw \in [Creators -> {"error", "reset"}], rw \in [Readers -> {"error", "reset"}],
          lw \in [Listers -> {"error", "reset"}] :
        /\ creq' = [c \in Creators |-> Abort(creq[c], cw[c])]
        /\ rreq' = [r \in Readers |-> Abort(rreq[r], rw[r])]
        /\ lreq' = [l \in Listers |-> Abort(lreq[l], lw[l])]
    /\ UNCHANGED storeVars

\* dbManager.connect(): mongoose.connect, or new Sequelize(config) and
\* authenticate(), for the dialect DB_TYPE names; a failure is logged and
\* rethrown.
Connect == {"connected", "failed"}

\* startServer: await dbManager.connect(), await initializeModels() (whose
\* `sync({ force: false })` keeps existing tables), app.listen().  When the
\* connect or the sync throws, the catch calls process.exit(1) before
\* listen and the server stays down.  The database, and every paste in it,
\* outlives the process.
Restart ==
    /\ server = "down"
    /\ \E outcome \in Connect : server' = IF outcome = "connected" THEN "up" ELSE "down"
    /\ UNCHANGED <<store, clock, idIndex, creq, rreq, lreq, stops>>

(***************************************************************************)
(* The specification                                                       *)
(***************************************************************************)

\* Requests arrive while the process listens.
Next ==
    \/ server = "up" /\ \E c \in Creators : Start(c) /\ UNCHANGED <<rreq, lreq, serverVars>>
    \/ server = "up" /\ \E r \in Readers : StartRead(r) /\ UNCHANGED <<creq, lreq, serverVars>>
    \/ server = "up" /\ \E l \in Listers : (StartList(l) \/ Refuse(l))
                                              /\ UNCHANGED <<creq, rreq, serverVars>>
    \/ \E c \in Creators : Serve(c) /\ UNCHANGED <<rreq, lreq, serverVars>>
    \/ \E r \in Readers : ServeRead(r) /\ UNCHANGED <<creq, lreq, serverVars>>
    \/ \E l \in Listers : ServeList(l) /\ UNCHANGED <<creq, rreq, serverVars>>
    \/ Crash \/ Restart
    \/ Tick /\ UNCHANGED <<creq, rreq, lreq, serverVars>>

\* Every awaited database call is resumed by the event loop once it returns,
\* so each started request keeps being served; arrivals, signals and
\* restarts are not assumed.
Spec ==
    /\ Init /\ [][Next]_vars
    /\ \A c \in Creators : WF_vars(Serve(c) /\ UNCHANGED <<rreq, lreq, serverVars>>)
    /\ \A r \in Readers : WF_vars(ServeRead(r) /\ UNCHANGED <<creq, lreq, serverVars>>)
    /\ \A l \in Listers : WF_vars(ServeList(l) /\ UNCHANGED <<creq, rreq, serverVars>>)

\* Every request, create, read or list, that has started eventually ends:
\* it is answered, or the process exits under it and its connection closes.
EveryRequestAnswered ==
    EveryCreateAnswered /\ EveryReadAnswered /\ EveryListAnswered

=============================================================================
