--------------------------------- MODULE Result ---------------------------------
(***************************************************************************)
(* result/: a value or an error, and the combinators Map, AndThen and      *)
(* OrElse over std::expected.  FutureChain compares the asynchronous       *)
(* combinators of the same names with them.  The payload is the sequence   *)
(* of the functions that made the result.                                  *)
(***************************************************************************)
EXTENDS Sequences

Ok(path) == [ok |-> TRUE, path |-> path]
Err(path) == [ok |-> FALSE, path |-> path]

\* A user's function, named for its stage, makes a result or a value.
Made(f, r) == [ok |-> f.ok, path |-> Append(r.path, f.name)]

\* transform: the function, which cannot fail, is called on a value.
Map(r, f) == IF r.ok THEN Ok(Append(r.path, f.name)) ELSE r

\* and_then: the function, which makes a result, is called on a value.
AndThen(r, f) == IF r.ok THEN Made(f, r) ELSE r

\* or_else: the function, which makes a result, is called on an error.
OrElse(r, f) == IF r.ok THEN r ELSE Made(f, r)
=================================================================================
