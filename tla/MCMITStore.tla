----------------------------- MODULE MCMITStore -----------------------------
(* MITStore on a tree of one top DN and two branches, one of them with     *)
(* leaves below a DN that may exist as a stub only.                        *)
EXTENDS MITStore

MCDn == {<<"uni">>, <<"uni", "tn-A">>, <<"uni", "tn-B">>,
         <<"uni", "tn-A", "BD-1">>, <<"uni", "tn-A", "BD-2">>}

MCRn == {"uni", "tn-A", "tn-B", "BD-1", "BD-2"}

=============================================================================
