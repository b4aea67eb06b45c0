----------------------------- MODULE MCDashboard -----------------------------
(***************************************************************************)
(* One plan ranks three users, one of them without a commission, and two   *)
(* of amounts whose cents the total loses; the other ranks only the viewer.*)
(* The first is opened on everybody, the second on the viewer.             *)
(***************************************************************************)
EXTENDS Dashboard

MCRoutes == {<<"planA", NoUser>>, <<"planB", "me">>}
MCFirstRoutes == MCRoutes
MCRanking == [highest |-> <<"me", "ana", "rui">>, lowest |-> <<"rui", "ana", "me">>]
MCWages == {[p \in Plans |-> [me |-> 3, ana |-> 1, rui |-> NoMoney]]}
MCListed == {<<"planA", "me">>, <<"planA", "ana">>, <<"planA", "rui">>, <<"planB", "me">>}
MCPaid == {<<"planA", "me">>, <<"planA", "ana">>, <<"planA", NoUser>>,
           <<"planB", "me">>, <<"planB", NoUser>>}
MCSelling == MCPaid
=============================================================================
