----------------------------- MODULE MCContexts -----------------------------
(***************************************************************************)
(* A parent and a child context, one key of long-term memory, and one      *)
(* fault of the process or of the file.                                    *)
(***************************************************************************)
EXTENDS Contexts

CONSTANTS parent, child, k, none

MCKeys     == {k}
MCCtxs     == {parent, child}
MCParentOf == [c \in MCCtxs |-> IF c = child THEN parent ELSE none]
MCSlotOf   == [c \in MCCtxs |-> <<"context", c>>]
MCAllSlot  == <<"contexts">>
MCForeign  == {<<"context", c>> : c \in MCCtxs} \cup {<<"contexts">>}
MCTtls     == {0}
MCCtxTtls  == {1}
MCJsonOf   == [v \in {"list", "tuple", "opaque"} |-> IF v = "tuple" THEN "list" ELSE v]
============================================================================
