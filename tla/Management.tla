----------------------------- MODULE Management -----------------------------
(***************************************************************************)
(* The handlers that list or manage pastes rather than read one:           *)
(*   "pastes"    GET /pastes                 src/src/routes/pastes.js      *)
(*   "create"    GET /create, /api/v1/create, /api/v1/pastes               *)
(*                                           src/src/routes/create.js      *)
(*   "recent"    GET /recent                 src/src/routes/recent.js      *)
(*   "update"    PUT /pastes/:id             src/src/routes/pastes.js      *)
(*   "delete"    DELETE /pastes/:id          src/src/routes/pastes.js      *)
(*   "userList"  GET /pastes/user/:userId    src/src/routes/pastes.js      *)
(* A listing parses page and limit, reads `new Date()`, then runs two     *)
(* store queries, a count and a page of rows.  Sequelize's                 *)
(* findAndCountAll issues both at once (either may execute first);         *)
(* Mongoose awaits countDocuments, then find.  The rows are ordered by     *)
(* createdAt, which the store does not record, so a page is any set of    *)
(* matching pastes of the page's size.                                     *)
(***************************************************************************)
EXTENDS Auth, FiniteSetsExt

CONSTANTS
    Listers,        \* concurrent list/manage requests (model values)
    PageInputs,     \* parseInt of the ?page= a client can send (0: absent or NaN)
    LimitInputs     \* parseInt of the ?limit= a client can send (0: absent or NaN)

VARIABLE lreq       \* lreq[l]: the state of list/manage request l

manageVars == <<store, clock, idIndex, lreq>>

ListPaths == {"pastes", "create", "recent"}
ManagePaths == {"update", "delete", "userList"}

ListRequest == [pc: {"idle", "query", "done"},
                path: ListPaths \cup ManagePaths \cup {"none"},
                who: Owners, id: Ids, page: Int, limit: Int, now: 0 .. MaxTime,
                pending: SUBSET {"count", "find"}, total: Nat, rows: SUBSET Ids,
                beyond: BOOLEAN, hasNext: BOOLEAN,
                resp: {"none", "ok", "error", "unauthorized", "forbidden", "reset"}]

ListIdle == [pc |-> "idle", path |-> "none", who |-> Anon,
             id |-> CHOOSE i \in Ids : TRUE, page |-> 0, limit |-> 0, now |-> 0,
             pending |-> {}, total |-> 0, rows |-> {}, beyond |-> FALSE,
             hasNext |-> FALSE, resp |-> "none"]

ManagementTypeOK ==
    /\ StoreTypeOK
    /\ \A l \in Listers : lreq[l] \in ListRequest

\* `parseInt(q) || d`: an absent or non-numeric query is NaN and 0 is falsy;
\* both are the input 0 here and give the default.
ParseIntOr(q, d) == IF q = 0 THEN d ELSE q

\* `Math.min(parseInt(req.query.limit) || d, 100)`, d = 50 on /recent, else 20.
PageLimit(path, q) == Min({ParseIntOr(q, IF path = "recent" THEN 50 ELSE 20), 100})

\* Mutant: `expiresAt >= now` in the where clause.
ListedInclusive(now) ==
    {p.id : p \in {p \in store : p.isPublic /\ (p.expiresAt = Never \/ p.expiresAt >= now)}}

\* The where clause: `isPublic: true` and `expiresAt` null or `> now`.
Listed(now) ==
    {p.id : p \in {p \in store : p.isPublic /\ (p.expiresAt = Never \/ p.expiresAt > now)}}

\* Math.ceil(total / limit) for a non-zero integer limit and total >= 0.
CeilDiv(a, b) == IF b > 0 THEN (a + b - 1) \div b ELSE -(a \div (-b))

\* The handler parses the query, reads `new Date()` and issues its queries.
StartList(l) ==
    /\ lreq[l].pc = "idle"
    /\ \E path \in ListPaths, pq \in PageInputs, lq \in LimitInputs :
        lreq' = [lreq EXCEPT ![l] = [ListIdle EXCEPT
                    !.pc = "query", !.path = path, !.page = ParseIntOr(pq, 1),
                    !.limit = PageLimit(path, lq), !.now = clock,
                    !.pending = {"count", "find"}]]
    /\ UNCHANGED storeVars

\* Once both queries are back: totalPages = Math.ceil(total / limit); the
\* JSON listings answer hasNext = page < totalPages with the rows, /recent
\* renders the page (its template lies outside src/ and is not modelled).
Answer(q) ==
    IF q.pending # {} THEN q
    ELSE [q EXCEPT !.pc = "done", !.resp = "ok",
                   !.hasNext = q.path # "recent" /\ q.page < CeilDiv(q.total, q.limit)]

\* findAndCountAll's count / `await countDocuments(query)`.
Count(l) ==
    LET q == lreq[l] IN
    /\ q.pc = "query" /\ "count" \in q.pending
    /\ lreq' = [lreq EXCEPT ![l] =
           Answer([q EXCEPT !.total = Cardinality(Listed(q.now)),
                            !.pending = @ \ {"count"}])]
    /\ UNCHANGED storeVars

\* Mutant: the driver rejects a negative LIMIT or OFFSET and the rejection is
\* not caught, so the request is never answered.
FindUncaught(l) ==
    LET q == lreq[l]
        offset == (q.page - 1) * q.limit
        matching == Listed(q.now)
        size == Max({0, Min({q.limit, Cardinality(matching) - offset})})
        Rows(rows) == lreq' = [lreq EXCEPT ![l] =
            Answer([q EXCEPT !.rows = rows, !.pending = @ \ {"find"},
                             !.beyond = Cardinality(matching) > offset + q.limit])]
    IN
    /\ q.pc = "query" /\ "find" \in q.pending
    /\ Backend = "mongodb" => "count" \notin q.pending
    /\ IF q.limit < 0 \/ offset < 0
       THEN UNCHANGED lreq
       ELSE \E rows \in kSubset(size, matching) : Rows(rows)
    /\ UNCHANGED storeVars

\* findAndCountAll's findAll / `await find(query).sort().limit().skip()`
\* (Mongoose only after the count).  A negative LIMIT or OFFSET is a
\* driver-dependent outcome: rejected (the catch answers 500) or taken as
\* no limit, so the rows are any matching pastes.
Find(l) ==
    LET q == lreq[l]
        offset == (q.page - 1) * q.limit
        matching == Listed(q.now)
        size == Max({0, Min({q.limit, Cardinality(matching) - offset})})
        Rows(rows) == lreq' = [lreq EXCEPT ![l] =
            Answer([q EXCEPT !.rows = rows, !.pending = @ \ {"find"},
                             !.beyond = Cardinality(matching) > offset + q.limit])]
    IN
    /\ q.pc = "query" /\ "find" \in q.pending
    /\ Backend = "mongodb" => "count" \notin q.pending
    /\ IF q.limit < 0 \/ offset < 0
       THEN \/ lreq' = [lreq EXCEPT ![l].pc = "done", ![l].resp = "error"]
            \/ \E rows \in SUBSET matching : Rows(rows)
       ELSE \E rows \in kSubset(size, matching) : Rows(rows)
    /\ UNCHANGED storeVars

\* PUT, DELETE and GET /user/:userId run optionalAuth, which leaves req.user
\* null (module Auth): PUT and DELETE answer 401 `Authentication required`,
\* the user listing 403 `Access denied`, before any store call.  What
\* follows the check in those handlers is unreachable.
Refuse(l) ==
    /\ lreq[l].pc = "idle"
    /\ \E path \in ManagePaths, id \in Ids, who \in Owners :
        /\ OptionalAuth(IF who = Anon THEN NoToken ELSE who) = Anon
        /\ lreq' = [lreq EXCEPT ![l] = [ListIdle EXCEPT
                        !.pc = "done", !.path = path, !.id = id, !.who = who,
                        !.resp = IF path = "userList" THEN "forbidden"
                                 ELSE "unauthorized"]]
    /\ UNCHANGED storeVars

ServeList(l) == Count(l) \/ Find(l)

ManagementInit == lreq = [l \in Listers |-> ListIdle]

(***************************************************************************)
(* Properties                                                              *)
(***************************************************************************)

\* Every paste a listing returned is one the read policy serves at the
\* listing's time: the listing's filter (`expiresAt > now`, public) and the
\* read dispatchers' refusals (`expiresAt <= now`, private) never overlap.
ListedPastesReadable ==
    \A l \in Listers : \A id \in lreq[l].rows :
        lreq[l].resp = "ok" =>
            /\ FindByPk(id).isPublic
            /\ ~Expired(FindByPk(id), lreq[l].now)

\* A JSON listing answers hasNext exactly when matching pastes lie beyond
\* its page, so a client that follows hasNext sees every page (spec section
\* 6: listPublicNonExpired returns the page and the total together).
HasNextExact ==
    \A l \in Listers :
        lreq[l].resp = "ok" /\ lreq[l].path # "recent" =>
            lreq[l].hasNext = lreq[l].beyond

\* Every list or manage request that has started is eventually answered.
EveryListAnswered ==
    \A l \in Listers : lreq[l].pc # "idle" ~> lreq[l].pc = "done"

=============================================================================
