-------------------------- MODULE MCStrategyControl --------------------------
(* Three changes over two strategies: an allocation that keeps the SOTA, one  *)
(* that moves to the other strategy and designates it, and a designation.     *)
EXTENDS StrategyControl

CONSTANTS k1, k2, c1, c2, c3, a, b

MCContent == [c \in Changes |->
  CASE c = c1 -> [keys |-> {k2}, sota |-> NoKey, day |-> 1]
    [] c = c2 -> [keys |-> {k1, k2}, sota |-> k2, day |-> 1]
    [] OTHER  -> [keys |-> {}, sota |-> k2, day |-> 0]]
=============================================================================
