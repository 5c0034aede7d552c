------------------------------ MODULE MCAccess ------------------------------
(***************************************************************************)
(* Small instances, for TLC, of two ways in: login codes and sessions      *)
(* (Login) and passkeys (Passkeys).  They share no row but a user's, so a  *)
(* behaviour is of one of them, in one of five mixes of calls; the other   *)
(* stays as it starts.  The configuration gives the constants of the first *)
(* mix: one session is used, logged out and expires.                       *)
(***************************************************************************)
EXTENDS Login, TLC

CONSTANTS ann, bob, u1, Devices, Names

VARIABLES
    mix,
    pkNow, pkEnabled, pkChallenges, pkPasskeys, pkSeen, pkNamed, pkSessions, pkRequests, pkCalls

pkVars == <<pkNow, pkEnabled, pkChallenges, pkPasskeys, pkSeen, pkNamed, pkSessions,
            pkRequests, pkCalls>>

\* bob has no account.
TwoAddresses == (ann :> u1 @@ bob :> Nobody)

-----------------------------------------------------------------------------
(* Mixes of Login                                                          *)

\* Codes to log in with and to submit with, of two addresses.
Coding == INSTANCE Login WITH
    Offered <- {"requestAuthCode", "verifyAuthCode", "requestSubmitCode", "verifySubmitCode",
                "updateUser"},
    MaxTime <- 1, MaxCodes <- 2, MaxCalls <- 4

\* Verifications of one address's codes, up to the limit of attempts.
Verifying == INSTANCE Login WITH
    Offered <- {"requestAuthCode", "verifyAuthCode"}, MaxTime <- 2, MaxCodes <- 2, MaxCalls <- 5

OnlyAnn == \A r \in Requests : requests[r].email # bob

-----------------------------------------------------------------------------
(* Mixes of Passkeys                                                       *)

\* A user adds, uses, renames and deletes passkeys.
Keeping == INSTANCE Passkeys WITH
    Devices <- {CHOOSE d \in Devices : TRUE},
    MaxPasskeys <- 2, ChallengeLife <- 1, Lag <- TRUE,
    Offered <- {"beginPasskeyRegistration", "finishPasskeyRegistration", "beginPasskeyLogin",
                "finishPasskeyLogin", "renamePasskey", "deletePasskey", "updateUser"},
    MaxTime <- 1, MaxCalls <- 5,
    now <- pkNow, enabled <- pkEnabled, challenges <- pkChallenges, passkeys <- pkPasskeys,
    passSeen <- pkSeen, named <- pkNamed, sessions <- pkSessions,
    requests <- pkRequests, calls <- pkCalls

\* Three devices are registered at once, under a cap of one.
Crowding == INSTANCE Passkeys WITH
    Names <- {CHOOSE n \in Names : TRUE},
    MaxPasskeys <- 1, ChallengeLife <- 1, Lag <- FALSE,
    Offered <- {"beginPasskeyRegistration", "finishPasskeyRegistration"},
    MaxTime <- 1, MaxCalls <- 6,
    now <- pkNow, enabled <- pkEnabled, challenges <- pkChallenges, passkeys <- pkPasskeys,
    passSeen <- pkSeen, named <- pkNamed, sessions <- pkSessions,
    requests <- pkRequests, calls <- pkCalls

ASSUME Keeping!LimitsAssumption /\ Keeping!LagAssumption
ASSUME Crowding!LimitsAssumption

-----------------------------------------------------------------------------
(* One of the mixes                                                        *)

Symmetry == Permutations(Requests)

AccessInit ==
    /\ mix \in {"using", "coding", "verifying", "keeping", "crowding"}
    /\ Init /\ Keeping!Init

LoginNext ==
    /\ UNCHANGED pkVars
    /\ \/ mix = "using" /\ Next /\ OnlyAnn'
       \/ mix = "coding" /\ Coding!Next
       \/ mix = "verifying" /\ Verifying!Next /\ OnlyAnn'

PasskeyNext ==
    /\ UNCHANGED vars
    /\ \/ mix = "keeping" /\ Keeping!Next
       \/ mix = "crowding" /\ Crowding!Next

AccessNext == UNCHANGED mix /\ (LoginNext \/ PasskeyNext)

AccessSpec == AccessInit /\ [][AccessNext]_<<mix, vars, pkVars>>

-----------------------------------------------------------------------------
(* Properties of Passkeys, stated there                                    *)

\* Rows and requests of both are well formed.
AccessTypeOK ==
    /\ TypeOK
    /\ IF mix = "crowding" THEN Crowding!TypeOK ELSE Keeping!TypeOK

\* A passkey has the label last given to it or put with it, though a login that
\* read its row before a rename writes it after.
RenamesKept == Keeping!RenamesKept

\* finish_passkey_registration's second look at the cap: however many challenges
\* are outstanding, only registrations whose counts and puts overlap exceed it.
CapAlmostHolds == mix = "crowding" => Crowding!CapAlmostHolds

\* What was ended stays ended: no touch, login or rename on its way writes back a
\* session that was logged out or a passkey that was deleted.  Only the put of a
\* passkey's own registration, sent again, brings it back.
EndedStaysEnded == LogoutIsFinal /\ Keeping!DeletedUnlessPut
=============================================================================
