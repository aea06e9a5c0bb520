------------------------ MODULE MCPortfolioBaseline ------------------------
(* Two executions of one order, the first of them corrected. *)
EXTENDS PortfolioBaseline

CONSTANTS o1

MCExecs == 1..2
MCOrders == {o1}
MCOrderOf == [e \in 1..2 |-> o1]
MCCorrectable == {1}
MCSessionEnds == {2}
=============================================================================
