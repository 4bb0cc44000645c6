----------------------------- MODULE MCArrivals -----------------------------
(***************************************************************************)
(* What is asked of outputs comes: one connector, a configuration that     *)
(* asks for a mode of it and one that does not list it.                    *)
(***************************************************************************)
EXTENDS OutputLifecycle

CONSTANTS c1, v, m1, m2

Entry(name, enabled, mode) == [name |-> name, enabled |-> enabled, mode |-> mode]
OneReload == {<<Entry(c1, TRUE, m2)>>, <<Entry(v, FALSE, m1)>>}
=============================================================================
