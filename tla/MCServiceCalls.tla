---------------------------- MODULE MCServiceCalls ----------------------------
(* Small instance of ServiceCalls for TLC: two POSTs of one actor, of which one *)
(* publishes a Page, and a download that is tried again.                        *)
EXTENDS ServiceCalls, TLC

CONSTANTS tab1, tab2, viewer

MCCalls == (tab1 :> 1) @@ (tab2 :> 0) @@ (viewer :> 2)
MCAttempts == (tab1 :> 1) @@ (tab2 :> 1) @@ (viewer :> 2)
=============================================================================
