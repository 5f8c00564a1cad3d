--------------------------- MODULE MCObservability ---------------------------
(***************************************************************************)
(* A small instance of Observability and the event bus under it.           *)
(***************************************************************************)
EXTENDS Observability, TLC

CONSTANTS h1, h2

\* h1 is synchronous, may raise, and filters; h2 is asynchronous.
MCAccepts == [h \in Handlers |-> IF h = h1 THEN {Failure} ELSE Names]

\* h1 is on two lists for the same event.
MCSubscribed == [k \in Keys |-> IF k = Star THEN <<h1, h2>> ELSE <<h1>>]

PublisherSymmetry == Permutations(Publishers)
=============================================================================
