----------------------------- MODULE MC_Pastebin -----------------------------
(* Model-checking instance of Pastebin: the bounds are set in the cfg. *)
EXTENDS Pastebin

\* ?page= and ?limit= a client can send: absent (0), a later page, a page
\* size of one, and a negative size.
MCPageInputs == {0, 2}
MCLimitInputs == {0, 1, -1}

\* A page size of one only.
MCLimitOne == {1}

\* expiresIn a JSON client can send: absent (0), one minute, and a negative
\* value, which `parseInt(expiresIn) * 60 * 1000` turns into a date in the
\* past.
MCExpiresIn == {0, 1, -1}

=============================================================================
