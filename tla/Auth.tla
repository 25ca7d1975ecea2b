-------------------------------- MODULE Auth --------------------------------
(***************************************************************************)
(* How a request handler learns who is asking.                             *)
(*                                                                         *)
(* Routes behind `optionalAuth` (src/src/middleware/auth.js) resolve the   *)
(* bearer token by looking the user up through `require('../models')       *)
(* .models`.  That is the object src/src/models/index.js exports at load   *)
(* time, `{}`; initializeModels() later rebinds the module's local         *)
(* `models` and never touches the exported object, so the lookup reads     *)
(* `undefined.findByPk` and throws.  Routes without optionalAuth see the   *)
(* session user that addUserContext (middleware/sessionAuth.js) copied     *)
(* into req.user.                                                          *)
(***************************************************************************)
EXTENDS PasteStore

CONSTANT NoToken    \* the request carries no Authorization header

\* Whether `require('./models').models` has the Paste/User/Token models.
\* index.js exports the initial `{}` and initializeModels only reassigns the
\* local binding, so it never has them.
ModelsExportInitialized == FALSE

\* optionalAuth: no token -> req.user = null; otherwise jwt.verify, then
\* models.User.findByPk on the exported models; any exception -> null.
\* A client sends the token of the user it is (the jwt is taken as valid).
OptionalAuth(bearer) ==
    IF bearer = NoToken \/ ~ModelsExportInitialized THEN Anon ELSE bearer

\* addUserContext (middleware/sessionAuth.js) copies req.session.user into
\* req.user for the routes without optionalAuth.  Only the POST handlers of
\* routes/login.js and routes/register.js set req.session.user, and the /auth
\* router mounted before them answers those requests (app.js lines 92, 96,
\* 97), so no session ever carries a user.
SessionUser == Anon

=============================================================================
