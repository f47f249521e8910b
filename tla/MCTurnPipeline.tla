--------------------------- MODULE MCTurnPipeline ---------------------------
(* One tenant's question of plain knowledge and his technical case, for what   *)
(* the documents and comments promise of a turn.                               *)
EXTENDS TurnPipeline

Asked == {[tenant |-> n, question |-> q, route |-> kind[1], traits |-> kind[2]] :
            n \in Tenants, q \in Questions,
            kind \in {<<"knowledge", {}>>, <<"technical", {"verdict", "computed"}>>}}
=============================================================================
