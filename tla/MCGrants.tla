------------------------------ MODULE MCGrants ------------------------------
(***************************************************************************)
(* Small instances of Grants for TLC, in two mixes of calls.  The          *)
(* configuration gives the constants of the first: a grant is approved,    *)
(* exchanged, refreshed, used and revoked, to the end of its life.         *)
(***************************************************************************)
EXTENDS Grants, TLC

Symmetry == Permutations(Requests)

VARIABLE mix

\* API tokens are used while they are disabled and deleted.
Disabling == INSTANCE Grants WITH
    Offered <- {"createApiToken", "submitVerifiedTicket", "updateApiToken", "deleteApiToken"},
    MaxTime <- 2

ASSUME LifetimesAssumption /\ LagAssumption

MixInit == mix \in {"refreshing", "disabling"} /\ Init

MixNext ==
    /\ UNCHANGED mix
    /\ \/ mix = "refreshing" /\ Next
       \/ mix = "disabling"  /\ Disabling!Next

MixSpec == MixInit /\ [][MixNext]_<<vars, mix>>
=============================================================================
