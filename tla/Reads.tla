------------------------------- MODULE Reads -------------------------------
(***************************************************************************)
(* The read dispatchers that are mounted in src/src/app.js, each a         *)
(* process that takes `now` from `new Date()`, awaits the lookup, applies  *)
(* the visibility/expiry policy and awaits the view-count increment(s):    *)
(*   "view"      GET /:id         app.js        (increments twice)         *)
(*   "api"       GET /pastes/:id  routes/pastes.js (owner-aware, reports   *)
(*                                views + 1 from the record it read)       *)
(*   "apiPaste"  GET /paste/:id   app.js        (reads the stale models    *)
(*                                export)                                  *)
(*   "raw"       GET /raw/:id, /r/:id  routes/raw.js                       *)
(*   "download"  GET /download/:id     routes/download.js                  *)
(* routes/highlight.js is required by app.js but never mounted.           *)
(***************************************************************************)
EXTENDS Auth

CONSTANT Readers    \* concurrent read requests (model values)

VARIABLE rreq       \* rreq[r]: the state of read request r

readVars == <<store, clock, idIndex, rreq>>

ReadPaths == {"view", "api", "apiPaste", "raw", "download"}

\* The dispatchers that send the stored content itself as the body.
RawPaths == {"raw", "download"}

ReadRequest == [pc: {"idle", "fetch", "incr", "incr2", "done"},
                path: ReadPaths \cup {"none"}, id: Ids, who: Owners,
                user: Owners, now: 0 .. MaxTime, seen: Nat, reported: Nat,
                kind: ContentKinds \cup {"none"}, served: {"none", "text", "decoded"},
                resp: {"none", "ok", "notfound", "expired", "forbidden", "error", "reset"}]

ReadIdle == [pc |-> "idle", path |-> "none", id |-> CHOOSE i \in Ids : TRUE,
             who |-> Anon, user |-> Anon, now |-> 0, seen |-> 0, reported |-> 0,
             kind |-> "none", served |-> "none", resp |-> "none"]

ReadsTypeOK ==
    /\ StoreTypeOK
    /\ \A r \in Readers : rreq[r] \in ReadRequest

\* Mutant: the `!paste.isPublic` check left out.
PublicDecisionNoPrivacy(p, now) ==
    CASE p = NoPaste       -> "notfound"
      [] Expired(p, now)   -> "expired"
      [] OTHER             -> "pass"

\* raw.js (and, line for line, download.js and app.js GET /:id): not found,
\* then expired, then private -> refused, whoever asks.
PublicDecision(p, now) ==
    CASE p = NoPaste       -> "notfound"
      [] Expired(p, now)   -> "expired"
      [] ~p.isPublic       -> "forbidden"
      [] OTHER             -> "pass"

\* pastes.js GET /:id: a private paste is served when req.user is its owner.
ApiDecision(p, user, now) ==
    CASE p = NoPaste       -> "notfound"
      [] Expired(p, now)   -> "expired"
      [] ~p.isPublic /\ (user = Anon \/ user # p.owner) -> "forbidden"
      [] OTHER             -> "pass"

Decide(path, p, user, now) ==
    IF path = "api" THEN ApiDecision(p, user, now) ELSE PublicDecision(p, now)

\* A request arrives for paste `id` from client `who`; the handler reads
\* `new Date()`.  The JSON route resolves `who`'s bearer token through
\* optionalAuth.  GET /paste/:id dereferences `require('./models').models
\* .Paste` before any await and answers 500 when the export is stale.
StartRead(r) ==
    /\ rreq[r].pc = "idle"
    /\ \E path \in ReadPaths, id \in Ids, who \in Owners :
        rreq' = [rreq EXCEPT ![r] = [ReadIdle EXCEPT
                    !.path = path, !.id = id, !.who = who, !.now = clock,
                    !.user = OptionalAuth(IF path = "api" /\ who # Anon
                                          THEN who ELSE NoToken),
                    !.pc = IF path = "apiPaste" /\ ~ModelsExportInitialized
                           THEN "done" ELSE "fetch",
                    !.resp = IF path = "apiPaste" /\ ~ModelsExportInitialized
                             THEN "error" ELSE "none"]]
    /\ UNCHANGED storeVars

\* Mutant: the policy's verdict stored as the response even when it passes.
FetchRawVerdict(r) ==
    LET q == rreq[r]
        p == FindByPk(q.id)
        d == Decide(q.path, p, q.user, q.now)
    IN /\ q.pc = "fetch"
       /\ rreq' = [rreq EXCEPT
              ![r].pc = IF d = "pass" THEN "incr" ELSE "done",
              ![r].resp = d,
              ![r].seen = IF d = "pass" THEN p.views ELSE 0]
       /\ UNCHANGED storeVars

\* Mutant: the not-found branch returns without sending a response.
FetchSilentNotFound(r) ==
    LET q == rreq[r]
        p == FindByPk(q.id)
        d == Decide(q.path, p, q.user, q.now)
    IN /\ q.pc = "fetch"
       /\ rreq' = [rreq EXCEPT
              ![r].pc = CASE d = "pass" -> "incr" [] d = "notfound" -> "fetch"
                          [] OTHER -> "done",
              ![r].resp = IF d \in {"pass", "notfound"} THEN "none" ELSE d,
              ![r].seen = IF d = "pass" THEN p.views ELSE 0]
       /\ UNCHANGED storeVars

\* await findByPk(id), then the policy, answered at once unless it passes.
Fetch(r) ==
    LET q == rreq[r]
        p == FindByPk(q.id)
        d == Decide(q.path, p, q.user, q.now)
    IN /\ q.pc = "fetch"
       /\ rreq' = [rreq EXCEPT
              ![r].pc = IF d = "pass" THEN "incr" ELSE "done",
              ![r].resp = IF d = "pass" THEN "none" ELSE d,
              ![r].seen = IF d = "pass" THEN p.views ELSE 0,
              ![r].kind = IF d = "pass" THEN p.content ELSE "none"]
       /\ UNCHANGED storeVars

\* What raw.js and download.js send, after the increment, for content c
\* of the record they fetched: `c.startsWith('data:')` -> split at ',',
\* Buffer.from(the part after it, 'base64') under the embedded media type;
\* a `data:` string without a comma has no part after it and Buffer.from
\* throws (the catch answers 500).  Other content is sent as its text.
Send(c) ==
    CASE c = "data"     -> {"decoded"}
      [] c = "dataText" -> {"decoded", "throws"}
      [] OTHER          -> {"text"}

\* await Paste.increment('views'); the JSON route then answers with
\* `views: paste.views + 1` from the record it fetched; raw and download
\* send the content (Send); app.js GET /:id goes on to a second, identical
\* increment.
IncrementViews(r) ==
    LET q == rreq[r] IN
    /\ q.pc = "incr"
    /\ Increment(q.id)
    /\ \E out \in IF q.path \in RawPaths THEN Send(q.kind) ELSE {"none"} :
        rreq' = [rreq EXCEPT
           ![r].pc = IF q.path = "view" THEN "incr2" ELSE "done",
           ![r].resp = CASE q.path = "view" -> "none"
                         [] out = "throws"  -> "error"
                         [] OTHER           -> "ok",
           ![r].served = IF out = "throws" THEN "none" ELSE out,
           ![r].reported = IF q.path = "api" THEN q.seen + 1 ELSE 0]
    /\ UNCHANGED clock

\* app.js GET /:id: the second `await Paste.increment('views')`, then render.
IncrementViewsAgain(r) ==
    /\ rreq[r].pc = "incr2"
    /\ Increment(rreq[r].id)
    /\ rreq' = [rreq EXCEPT ![r].pc = "done", ![r].resp = "ok"]
    /\ UNCHANGED clock

ServeRead(r) ==
    \/ Fetch(r)
    \/ IncrementViews(r)
    \/ IncrementViewsAgain(r)

ReadsInit == rreq = [r \in Readers |-> ReadIdle]

(***************************************************************************)
(* Properties                                                              *)
(***************************************************************************)

\* A private paste is served to no one but its owner, on any read path.
PrivateServedOnlyToOwner ==
    \A r \in Readers :
        rreq[r].resp = "ok" =>
            LET p == FindByPk(rreq[r].id) IN
            p.isPublic \/ (rreq[r].who # Anon /\ rreq[r].who = p.owner)

\* Spec section 6: raw and download tell a `data:` URI (decode the base64,
\* use the embedded media type) from plain text (UTF-8, text/plain).  A
\* raw or download read answered 200 decodes exactly the pastes an upload
\* stored as a data: URI, and sends every text paste as its text.
RawServesTextAsText ==
    \A r \in Readers :
        rreq[r].resp = "ok" /\ rreq[r].path \in RawPaths =>
            (rreq[r].served = "decoded" <=> rreq[r].kind = "data")

\* Every read that has started is eventually answered.
EveryReadAnswered ==
    \A r \in Readers : rreq[r].pc # "idle" ~> rreq[r].pc = "done"

=============================================================================
