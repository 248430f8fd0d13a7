---------------------------- MODULE MCReception ----------------------------
(* Two services on one ensemble and none on the other, two frequencies with  *)
(* different programs, slides of three and of two segments, two to a sector. *)
EXTENDS Reception, TLC

CONSTANTS e1, e2, f1, f2, news, music, p, q

MCCarried == (e1 :> {news, music}) @@ (e2 :> {})
MCPi      == (f1 :> p) @@ (f2 :> q)
MCNext100 == (f1 :> f2) @@ (f2 :> f1)
MCLevel   == [x \in Ensembles \cup Frequencies |-> IF x = e2 THEN 0 ELSE 2]
MCSizes   == <<3, 2>>
=============================================================================
