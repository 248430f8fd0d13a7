---------------------------- MODULE MCFollowing ----------------------------
(* A service "news" on two ensembles, linked to the FM frequency f1 with the  *)
(* PI p, which f2 sends too, "music" on the second ensemble only, and an     *)
(* FM station with the PI q.                                                 *)
EXTENDS Following, TLC

CONSTANTS e1, e2, f1, f2, f3, news, music, p, q

MCEnsembles == {e1, e2}
MCCarried == (e1 :> {news}) @@ (e2 :> {news, music})
MCPi      == [f \in Frequencies |-> IF f = f3 THEN q ELSE p]
MCLinkFm  == [s \in Services |-> IF s = news THEN {f1} ELSE {}]
MCLinkPi  == [s \in Services |-> p]
\* One ensemble and one service.
MCOne     == {e1}
MCOneCarried == e1 :> {news}
=============================================================================
