--------------------------- MODULE MCAdministration ---------------------------
(***************************************************************************)
(* Small instances of Administration for TLC.  A behaviour is of one of    *)
(* three mixes of calls.                                                   *)
(***************************************************************************)
EXTENDS Administration, TLC

Symmetry == Permutations(Requests)

OneSupport == <<"support">>
BothKinds == <<"support", "invoicing">>

\* NotificationSettings::default.
MCDefault == [s \in Settings |-> s # "assigned_to_others_updated"]

VARIABLE mix

\* A membership is added, changed, removed and added again.
Joining == INSTANCE Administration WITH
    Offered <- {"addMember", "removeMember", "setMemberRole", "updateNotificationSettings"},
    MaxCalls <- 5

\* A user is deleted, and again after a deletion was cut short, while
\* memberships are added and changed.
Dismissing == INSTANCE Administration WITH
    Superusers <- 2, Offered <- {"deleteUser", "addMember", "setMemberRole"}, MaxCalls <- 4

\* Instances, accounts and addresses are made, changed and removed.
Arranging == INSTANCE Administration WITH
    Kinds <- BothKinds,
    Offered <- {"createInstance", "updateInstance", "setInstanceDeleted", "addInboundAddress",
                "removeInboundAddress", "createUser", "updateUser"},
    MaxCalls <- 4

Busy(n) == Cardinality({r \in Requests : requests[r].step # "idle"}) <= n

MixInit ==
    \/ mix = "joining"    /\ Joining!Init
    \/ mix = "dismissing" /\ Dismissing!Init
    \/ mix = "arranging"  /\ Arranging!Init

MixNext ==
    /\ UNCHANGED mix
    /\ \/ mix = "joining"    /\ Joining!Next    /\ Busy(3)'
       \/ mix = "dismissing" /\ Dismissing!Next /\ Busy(2)'
       \/ mix = "arranging"  /\ Arranging!Next  /\ Busy(2)'

MixSpec == MixInit /\ [][MixNext]_<<vars, mix>>
=============================================================================
