--------------------------- MODULE MCSchemaCache ---------------------------
(* Two routers that serve one write each.                                  *)
EXTENDS SchemaCache, TLC

CONSTANTS r1, r2, a, b, int, str

\* Write 1 goes to the first router, write 2 to the second.
MCRouterOf == (1 :> r1) @@ (2 :> r2)

\* Write 2 brings a column of its own, and may give write 1's column another type.
MCInputs == (1 :> {{<<a, int>>}}) @@ (2 :> {{<<a, str>>, <<b, int>>}, {<<b, int>>}})
=============================================================================
