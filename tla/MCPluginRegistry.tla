-------------------------- MODULE MCPluginRegistry --------------------------
(***************************************************************************)
(* A small instance of PluginRegistry.                                     *)
(***************************************************************************)
EXTENDS PluginRegistry

CONSTANTS p1, p2, p3, p4

\* In and against the order of the dependencies; without the last plugin; with
\* a plugin that does not admit this version, p4.
MCOrders == {<<p1, p2, p3>>, <<p3, p2, p1>>, <<p1, p2>>, <<p4, p3>>}

\* A chain with a shortcut, a cycle beside a plugin that depends on p4, and a
\* chain that begins at p3.
MCGraphs ==
    {[p \in Plugins |-> IF p = p3 THEN <<p1, p2>> ELSE IF p = p2 THEN <<p1>> ELSE <<>>],
     [p \in Plugins |-> IF p = p1 THEN <<p2>> ELSE IF p = p2 THEN <<p1>>
                        ELSE IF p = p3 THEN <<p4>> ELSE <<>>],
     [p \in Plugins |-> IF p = p1 THEN <<p3>> ELSE IF p = p2 THEN <<p1>> ELSE <<>>]}
=============================================================================
