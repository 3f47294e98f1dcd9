--------------------------------- MODULE Kv ---------------------------------
(***************************************************************************)
(* Porter's replacement of @vercel/kv over a plain Redis                   *)
(* (porter/templates/kv/index.ts): the codec and the string commands, as   *)
(* operators on a key space that maps each key there is to the raw text    *)
(* stored. A value is its text and whether the caller holds a string; the  *)
(* times to live are left out.                                             *)
(***************************************************************************)
CONSTANT JsonTexts      \* the texts JSON.parse accepts

Value(text, isString) == [text |-> text, string |-> isString]
Null == Value("null", FALSE)

\* Strings pass through, everything else is JSON.
encode(v) == v.text

\* What parses is parsed, whatever it was written as: a string that happens
\* to be JSON does not come back as the string it was.
decode(raw) == Value(raw, raw \notin JsonTexts)

Plain == [nx |-> FALSE, xx |-> FALSE]
OnlyNew == [nx |-> TRUE, xx |-> FALSE]

\* NX before XX, as in the shim's else-if.
Accepts(db, k, opts) ==
    /\ opts.nx => k \notin DOMAIN db
    /\ opts.xx /\ ~opts.nx => k \in DOMAIN db

\* A key space with k in it, whether it was there before or not.
With(f, k, x) == [j \in DOMAIN f \cup {k} |-> IF j = k THEN x ELSE f[j]]

set(db, k, v, opts) == IF Accepts(db, k, opts) THEN With(db, k, encode(v)) ELSE db

get(db, k) == IF k \in DOMAIN db THEN decode(db[k]) ELSE Null

del(db, ks) == [k \in DOMAIN db \ ks |-> db[k]]
=============================================================================
