------------------------------- MODULE Result -------------------------------
(***************************************************************************)
(* The Result of the host's Rust code: a value under ok, or an error under *)
(* err.  Bind is the ? operator: go on with the value, or return the error.*)
(***************************************************************************)
Ok(v)  == [ok |-> v]
Err(e) == [err |-> e]

IsOk(r) == "ok" \in DOMAIN r

Bind(r, F(_)) == IF IsOk(r) THEN F(r.ok) ELSE r

=============================================================================
