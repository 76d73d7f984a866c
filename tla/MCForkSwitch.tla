---------------------------- MODULE MCForkSwitch ----------------------------
(* A tree of eight blocks over Genesis: two rival chains a and b, a branch c *)
(* off b whose tip is refused, and a block d2 that repeats a transaction of  *)
(* its parent a1.  t3 needs a1 on the chain, and conflicts with t2.          *)
EXTENDS ForkSwitch, TLC

CONSTANTS g, a1, a2, b1, b2, b3, c2, c3, d2, t1, t2, t3

MCBlocks == {g, a1, a2, b1, b2, b3, c2, c3, d2}
MCParent == (a1 :> g) @@ (a2 :> a1) @@ (b1 :> g) @@ (b2 :> b1) @@ (b3 :> b2)
            @@ (c2 :> b1) @@ (c3 :> c2) @@ (d2 :> a1)
MCHeight == (g :> 0) @@ (a1 :> 1) @@ (a2 :> 2) @@ (b1 :> 1) @@ (b2 :> 2) @@ (b3 :> 3)
            @@ (c2 :> 2) @@ (c3 :> 3) @@ (d2 :> 2)
MCTxOf == (g :> {}) @@ (a1 :> {t1}) @@ (a2 :> {}) @@ (b1 :> {}) @@ (b2 :> {t1}) @@ (b3 :> {t2})
          @@ (c2 :> {t2}) @@ (c3 :> {}) @@ (d2 :> {t1})
MCRuns == {<<t, b, S>> \in {t1, t2, t3} \X MCBlocks \X SUBSET {t1, t2, t3} :
    t = t3 => b \in {a1, a2} /\ t2 \notin S}
=============================================================================
