-------------------------- MODULE MCPluginLifecycle --------------------------
(* Two games that hook a common address, a dashboard that maps code at one *)
(* of the addresses, and a trampoline buffer with no unit to spare.        *)
EXTENDS PluginLifecycle, TLC

CONSTANTS iw3, t4, dashboard, noExe, s1, s2, s3, loader

MCBuilds == {iw3, t4}
MCOthers == {dashboard}
MCSite   == {s1, s2, s3}
MCMaps   == (iw3 :> {s1, s2}) @@ (t4 :> {s2, s3}) @@ (dashboard :> {s1})
MCHooks  == (iw3 :> <<s1, s2>>) @@ (t4 :> <<s3, s2>>)
MCRelative == [e \in MCBuilds \cup MCOthers |->
                 [s \in MCSite |-> IF s = s1 \/ (e = t4 /\ s = s2) THEN 1 ELSE 0]]
=============================================================================
