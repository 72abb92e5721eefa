---------------------------- MODULE MCClientPool ----------------------------
(* Small instances of ClientPool for TLC. *)
EXTENDS ClientPool, TLC

CONSTANTS p1, p2, p3, p4, p5, p6, k1, k2, k3, k4, k5

\* Every caller has a configuration of its own, named like the caller.
OwnConfig == [p \in Callers |-> p]

\* The configurations of p1 and p6 collide in the first of five keys.
FiveKeys == (p1 :> k1) @@ (p2 :> k2) @@ (p3 :> k3) @@ (p4 :> k4) @@ (p5 :> k5) @@ (p6 :> k1)

\* The callers of the first key are alike, and so are those of the others.
CallerOf(k) == CHOOSE p \in {p2, p3, p4, p5} : FiveKeys[p] = k
Alike == {f @@ [p \in {p2, p3, p4, p5} |-> CallerOf(f[FiveKeys[p]])] @@ g :
            f \in Permutations({k2, k3, k4, k5}), g \in Permutations({p1, p6})}

=============================================================================
