---------------------------- MODULE FencedEffects ----------------------------
(***************************************************************************)
(* What a fence promises, with no rows, generations, states or callers:    *)
(* epochs of a scope are granted one after the other and never come back,  *)
(* and an effect runs under the latest epoch granted, so the effects of a  *)
(* scope follow the order of its grants.                                   *)
(***************************************************************************)
EXTENDS Naturals

CONSTANT Scopes

VARIABLES
    epoch,     \* the epoch granted last in each scope, 0 before the first
    applied    \* the epoch the last effect of each scope ran under, 0 before the first

fencedVars == <<epoch, applied>>

FencedInit == epoch = [s \in Scopes |-> 0] /\ applied = [s \in Scopes |-> 0]

Grant(s) ==
    /\ epoch' = [epoch EXCEPT ![s] = epoch[s] + 1]
    /\ UNCHANGED applied

Apply(s) ==
    /\ epoch[s] > 0
    /\ applied' = [applied EXCEPT ![s] = epoch[s]]
    /\ UNCHANGED epoch

FencedNext == \E s \in Scopes : Grant(s) \/ Apply(s)

FencedSpec == FencedInit /\ [][FencedNext]_fencedVars
=============================================================================
