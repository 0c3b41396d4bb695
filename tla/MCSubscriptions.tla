--------------------------- MODULE MCSubscriptions ---------------------------
EXTENDS Subscriptions, TLC

MCChange == {[cls |-> "fvBD", dn |-> <<"tn-A", "BD-1">>, status |-> "created"],
             [cls |-> "fvCtx", dn |-> <<"tn-B", "ctx-1">>, status |-> "deleted"]}

MCScope == {[kind |-> "class", value |-> "fvBD"], [kind |-> "dn", value |-> <<"tn-B">>]}

OneChange == {[cls |-> "fvBD", dn |-> <<"tn-A", "BD-1">>, status |-> "created"]}

OneScope == {[kind |-> "dn", value |-> <<"tn-A">>]}

Symmetry == Permutations(Handler)

=============================================================================
