----------------------------- MODULE MCPicomux -----------------------------
(***************************************************************************)
(* A picomux session over a healthy link (Picomux).                        *)
(***************************************************************************)
EXTENDS Picomux

CONSTANTS a, b, c1, c2

\* One end opens twice, so that the request channel and the accept queue of
\* one place both fill up.
TwoFromOne == {<<a, c1>>, <<a, c2>>}
=============================================================================
