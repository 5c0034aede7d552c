-------------------------------- MODULE Passkeys --------------------------------
(***************************************************************************)
(* Passkeys: registering, using, renaming and deleting them                *)
(* (api/src/graphql/mutations.rs, api/src/dynamodb.rs).                    *)
(*                                                                         *)
(* A ceremony is two calls, joined by a challenge row in ephemeral_state.  *)
(* As elsewhere an action is one storage call with the checks up to the    *)
(* next, and a resolver can stop between any two.  The count and the list  *)
(* of a user's passkeys come from an index, which is eventually            *)
(* consistent, as is every GetItem.  What webauthn-rs verifies is left     *)
(* out, signature counters included: a device answers a challenge or not.  *)
(* An id stands for a position: challenges, passkeys and sessions are      *)
(* sequences.                                                              *)
(***************************************************************************)
EXTENDS Integers, Sequences, FiniteSets

CONSTANTS
    Requests,     \* invocations that may be in flight at once
    Users,
    Devices,      \* authenticators, which refuse a challenge that excludes them
    Names,        \* labels of passkeys
    MaxPasskeys,  \* MAX_PASSKEYS_PER_USER
    ChallengeLife,
    Lag,          \* whether a read may return an earlier state of a row or index
    Offered,      \* the mutations clients call
    MaxTime, MaxCalls,  \* bounds
    None

\* Assumed by the modules that instantiate this one.
LimitsAssumption == MaxPasskeys \in Nat \ {0} /\ ChallengeLife \in Nat \ {0}
LagAssumption == Lag \in BOOLEAN

VARIABLES
    now,
    enabled,     \* users whose account is enabled
    challenges,  \* rows of kind "reg" and "auth"
    passkeys,    \* the webauthn_credential table
    passSeen,    \* every row each of its keys has had
    named,       \* the label last put or given to each passkey: history
    sessions,    \* the user_token rows a login created
    requests, calls

vars == <<now, enabled, challenges, passkeys, passSeen, named, sessions, requests, calls>>

-----------------------------------------------------------------------------
(* Rows                                                                    *)

Challenge == [kind : {"reg", "auth"}, user : Users \cup {None}, excluded : SUBSET Devices,
              expires_at : Nat, exists : BOOLEAN]

\* challenge: the one whose answer made the credential, and so its id.
Passkey == [user : Users, challenge : Nat, device : Devices, name : Names,
            last_used_at : Nat \cup {None}, exists : BOOLEAN]

Session == [user : Users, passkey : Nat, challenge : Nat]

Steps == {"idle", "challenge", "count", "register", "discard", "credential", "touch",
          "spent", "issue", "rename", "delete"}

Request == [step      : Steps,
            user      : Users \cup {None},
            challenge : Nat, passkey : Nat,
            row       : Passkey \cup {None},    \* the passkey it read
            device    : Devices \cup {None},
            name      : Names \cup {None},
            excluded  : SUBSET Devices]

Idle == [step |-> "idle", user |-> None, challenge |-> 0, passkey |-> 0, row |-> None,
         device |-> None, name |-> None, excluded |-> {}]

TypeOK ==
    /\ now \in 0..MaxTime /\ enabled \subseteq Users
    /\ challenges \in Seq(Challenge)
    /\ passkeys \in Seq(Passkey) /\ Len(passSeen) = Len(passkeys)
    /\ \A p \in 1..Len(passkeys) : passkeys[p] \in passSeen[p] /\ named[p] \in Names
    /\ sessions \in Seq(Session)
    /\ \A s \in 1..Len(sessions) : challenges[sessions[s].challenge].kind = "auth"
    /\ requests \in [Requests -> Request]

Init ==
    /\ now = 0 /\ enabled = Users
    /\ challenges = <<>> /\ passkeys = <<>> /\ passSeen = <<>> /\ named = <<>>
    /\ sessions = <<>>
    /\ requests = [r \in Requests |-> Idle] /\ calls = 0

-----------------------------------------------------------------------------
(* Calls and reads                                                         *)

tables == <<challenges, passkeys, passSeen, named, sessions>>

Call(r, op) ==
    /\ requests[r].step = "idle" /\ op \in Offered /\ calls < MaxCalls
    /\ calls' = calls + 1 /\ UNCHANGED <<now, enabled>>

At(r, step) == requests[r].step = step /\ UNCHANGED <<now, enabled, calls>>
Enter(r, record) == requests' = [requests EXCEPT ![r] = record]
Goto(r, step) == requests' = [requests EXCEPT ![r].step = step]
Return(r) == requests' = [requests EXCEPT ![r] = Idle]

\* The rows that exist: a user's, what an index may say they are, and the
\* earlier states GetItem may return.
Held(u) == {p \in 1..Len(passkeys) : passkeys[p].exists /\ passkeys[p].user = u}
Indexed(u) == IF Lag THEN SUBSET {p \in 1..Len(passkeys) : passkeys[p].user = u}
                     ELSE {Held(u)}
Rows(p) == IF Lag THEN passSeen[p] ELSE {passkeys[p]}
Readable(c) == challenges[c].exists \/ Lag

SetPasskey(p, row) ==
    /\ passkeys' = [passkeys EXCEPT ![p] = row]
    /\ passSeen' = [passSeen EXCEPT ![p] = @ \cup {row}]

Tick == /\ now < MaxTime /\ now' = now + 1
        /\ UNCHANGED <<enabled, challenges, passkeys, passSeen, named, sessions, requests, calls>>

\* updateUser, as far as it concerns a login.
SetEnabled(u) ==
    /\ "updateUser" \in Offered /\ calls < MaxCalls /\ calls' = calls + 1
    /\ enabled' \in {enabled \cup {u}, enabled \ {u}}
    /\ UNCHANGED <<now, challenges, passkeys, passSeen, named, sessions, requests>>

-----------------------------------------------------------------------------
(* Registration                                                            *)

\* The cap, and the devices to exclude, from two reads of the index.
BeginPasskeyRegistration(r, u) ==
    /\ Call(r, "beginPasskeyRegistration")
    /\ u \in enabled
    /\ \E counted \in Indexed(u), listed \in Indexed(u) :
        /\ Cardinality(counted) < MaxPasskeys
        /\ Enter(r, [Idle EXCEPT !.step = "challenge", !.user = u,
                                 !.excluded = {passkeys[p].device : p \in listed}])
    /\ UNCHANGED tables

PutChallenge(kind, u, excluded) ==
    challenges' = Append(challenges, [kind |-> kind, user |-> u, excluded |-> excluded,
                                      expires_at |-> now + ChallengeLife, exists |-> TRUE])

RegistrationChallenge(r) ==
    /\ At(r, "challenge")
    /\ PutChallenge("reg", requests[r].user, requests[r].excluded)
    /\ Return(r)
    /\ UNCHANGED <<passkeys, passSeen, named, sessions>>

\* The challenge is the caller's own; past its expiry it is deleted.
FinishPasskeyRegistration(r, u, c, d, name) ==
    /\ Call(r, "finishPasskeyRegistration")
    /\ Readable(c) /\ challenges[c].kind = "reg" /\ challenges[c].user = u
    /\ d \notin challenges[c].excluded
    /\ Enter(r, [Idle EXCEPT !.user = u, !.challenge = c, !.device = d, !.name = name,
                     !.step = IF now >= challenges[c].expires_at THEN "discard" ELSE "count"])
    /\ UNCHANGED tables

\* Mutated: without the second look at the cap.
WithinCap_Unchecked(counted) == TRUE

WithinCap(counted) == Cardinality(counted) < MaxPasskeys

RegistrationCount(r) ==
    /\ At(r, "count")
    /\ \E counted \in Indexed(requests[r].user) :
        Goto(r, IF WithinCap(counted) THEN "register" ELSE "discard")
    /\ UNCHANGED tables

\* The row a registration puts: as new, whatever became of one it put before.
NewPasskey(q) ==
    [user |-> q.user, challenge |-> q.challenge, device |-> q.device, name |-> q.name,
     last_used_at |-> None, exists |-> TRUE]

MadeFor(row, q) ==
    row.user = q.user /\ row.challenge = q.challenge /\ row.device = q.device

\* The credential the client presents: one more, or again one the device has
\* made for the challenge; once the request has put it, it is that.
Presented(q) ==
    IF q.passkey # 0 THEN {q.passkey}
    ELSE {Len(passkeys) + 1} \cup {p \in 1..Len(passkeys) : MadeFor(passkeys[p], q)}

AddPasskey(row) ==
    /\ passkeys' = Append(passkeys, row) /\ passSeen' = Append(passSeen, {row})
    /\ named' = Append(named, row.name)

\* Its id is the credential's, and the put has no condition: it also writes over
\* the row of a credential presented before, or brings it back.
PutAgain(p, row) ==
    /\ SetPasskey(p, row)
    /\ named' = [named EXCEPT ![p] = row.name]

\* create_webauthn_credential.  If the response is lost, the SDK sends the put
\* again.
RegistrationPut(r) ==
    LET q == requests[r] IN
    /\ At(r, "register")
    /\ \E p \in Presented(q) :
        /\ IF p \in 1..Len(passkeys) THEN PutAgain(p, NewPasskey(q)) ELSE AddPasskey(NewPasskey(q))
        /\ \/ Goto(r, "discard")
           \/ Enter(r, [q EXCEPT !.passkey = p])
    /\ UNCHANGED <<challenges, sessions>>

DeleteChallenge(c) ==
    \/ challenges' = [challenges EXCEPT ![c].exists = FALSE]
    \/ UNCHANGED challenges

\* The challenge is deleted last; a failure is ignored.
Discard(r) ==
    /\ At(r, "discard")
    /\ DeleteChallenge(requests[r].challenge)
    /\ Return(r)
    /\ UNCHANGED <<passkeys, passSeen, named, sessions>>

-----------------------------------------------------------------------------
(* Login                                                                   *)

BeginPasskeyLogin(r) ==
    /\ Call(r, "beginPasskeyLogin")
    /\ PutChallenge("auth", None, {})
    /\ UNCHANGED <<passkeys, passSeen, named, sessions, requests>>

\* Mutated: a challenge of either kind.
LoginChallenge_AnyKind(c) == Readable(c)

LoginChallenge(c) == Readable(c) /\ challenges[c].kind = "auth"

\* A device signs the challenge with passkey p.
FinishPasskeyLogin(r, c, p) ==
    /\ Call(r, "finishPasskeyLogin")
    /\ LoginChallenge(c)
    /\ Enter(r, [Idle EXCEPT !.challenge = c, !.passkey = p,
                     !.step = IF now >= challenges[c].expires_at THEN "discard"
                                                                 ELSE "credential"])
    /\ UNCHANGED tables

LoginCredential(r) ==
    /\ At(r, "credential")
    /\ \E row \in Rows(requests[r].passkey) :
        Enter(r, [requests[r] EXCEPT !.row = row,
                                     !.step = IF row.exists THEN "touch" ELSE "discard"])
    /\ UNCHANGED tables

\* Mutated: the row that was read is written back.
TouchLastUsed_WholeRow(p, row) ==
    passkeys[p].exists /\ SetPasskey(p, [row EXCEPT !.last_used_at = now])

\* Mutated: UpdateItem without its condition.
TouchLastUsed_Upsert(p, row) ==
    SetPasskey(p, [passkeys[p] EXCEPT !.last_used_at = now, !.exists = TRUE])

\* last_used_at and the serialized key, on the condition that the row exists.
TouchLastUsed(p, row) ==
    passkeys[p].exists /\ SetPasskey(p, [passkeys[p] EXCEPT !.last_used_at = now])

\* A failure of the touch is ignored.
LoginTouch(r) ==
    /\ At(r, "touch")
    /\ \/ TouchLastUsed(requests[r].passkey, requests[r].row)
       \/ UNCHANGED <<passkeys, passSeen>>
    /\ Goto(r, "spent")
    /\ UNCHANGED <<challenges, named, sessions>>

LoginSpent(r) ==
    /\ At(r, "spent")
    /\ DeleteChallenge(requests[r].challenge)
    /\ Goto(r, "issue")
    /\ UNCHANGED <<passkeys, passSeen, named, sessions>>

\* The user of the row that was read, if enabled.
LoginIssue(r) ==
    LET q == requests[r] IN
    /\ At(r, "issue")
    /\ sessions' = IF q.row.user \in enabled
                   THEN Append(sessions, [user |-> q.row.user, passkey |-> q.passkey,
                                          challenge |-> q.challenge])
                   ELSE sessions
    /\ Return(r)
    /\ UNCHANGED <<challenges, passkeys, passSeen, named>>

-----------------------------------------------------------------------------
(* Settings                                                                *)

\* renamePasskey and deletePasskey read the row for its owner.
OwnPasskey(r, op, step, u, p, name) ==
    /\ Call(r, op)
    /\ u \in enabled
    /\ \E row \in Rows(p) : row.exists /\ row.user = u
    /\ Enter(r, [Idle EXCEPT !.step = step, !.user = u, !.passkey = p, !.name = name])
    /\ UNCHANGED tables

RenameWrite(r) ==
    LET q == requests[r] IN
    /\ At(r, "rename")
    /\ IF passkeys[q.passkey].exists
       THEN /\ SetPasskey(q.passkey, [passkeys[q.passkey] EXCEPT !.name = q.name])
            /\ named' = [named EXCEPT ![q.passkey] = q.name]
       ELSE UNCHANGED <<passkeys, passSeen, named>>
    /\ Return(r)
    /\ UNCHANGED <<challenges, sessions>>

DeleteWrite(r) ==
    LET p == requests[r].passkey IN
    /\ At(r, "delete")
    /\ SetPasskey(p, [passkeys[p] EXCEPT !.exists = FALSE])
    /\ Return(r)
    /\ UNCHANGED <<challenges, named, sessions>>

\* Whatever it was doing, an invocation can end.
Stop(r) ==
    /\ requests[r].step # "idle" /\ Return(r)
    /\ UNCHANGED <<now, enabled, challenges, passkeys, passSeen, named, sessions, calls>>

-----------------------------------------------------------------------------

Registration(r) ==
    \/ \E u \in Users :
        \/ BeginPasskeyRegistration(r, u)
        \/ \E c \in 1..Len(challenges), d \in Devices, name \in Names :
            FinishPasskeyRegistration(r, u, c, d, name)
    \/ RegistrationChallenge(r) \/ RegistrationCount(r) \/ RegistrationPut(r) \/ Discard(r)

Login(r) ==
    \/ BeginPasskeyLogin(r)
    \/ \E c \in 1..Len(challenges), p \in 1..Len(passkeys) : FinishPasskeyLogin(r, c, p)
    \/ LoginCredential(r) \/ LoginTouch(r) \/ LoginSpent(r) \/ LoginIssue(r)

Settings(r) ==
    \/ \E u \in Users, p \in 1..Len(passkeys) :
        \/ \E name \in Names : OwnPasskey(r, "renamePasskey", "rename", u, p, name)
        \/ OwnPasskey(r, "deletePasskey", "delete", u, p, None)
    \/ RenameWrite(r) \/ DeleteWrite(r)

Next ==
    \/ Tick
    \/ \E u \in Users : SetEnabled(u)
    \/ \E r \in Requests : Registration(r) \/ Login(r) \/ Settings(r) \/ Stop(r)

Spec == Init /\ [][Next]_vars

-----------------------------------------------------------------------------
(* Properties                                                              *)

\* "Passkeys a single user may register", "re-checked after the WebAuthn ceremony
\* completes to close the race between the pre-check and the write".
CapHolds == \A u \in Users : Cardinality(Held(u)) <= MaxPasskeys

\* What the second look at the cap does buy, from an index that is up to date:
\* however many challenges are outstanding and credentials put again, only
\* registrations whose own counts and puts overlap exceed the cap.
CapAlmostHolds ==
    \A u \in Users : Cardinality(Held(u)) <= MaxPasskeys + Cardinality(Requests) - 1

\* A passkey that was deleted stays deleted while no registration with its
\* credential is on its way: no login or rename writes its row again, and only
\* the put of that registration, repeated, brings it back, as new.
DeletedUnlessPut ==
    [][\A p \in 1..Len(passkeys) : ~passkeys[p].exists /\ passkeys'[p].exists =>
        \E r \in Requests : /\ requests[r].step = "register"
                            /\ MadeFor(passkeys[p], requests[r])
                            /\ passkeys'[p] = NewPasskey(requests[r])]_vars

\* A passkey has the label last given to it by a rename or put with it: a login
\* that read the row before the rename and writes it after does not restore the
\* old one.  (A registration's put that is repeated after the rename does.)
RenamesKept == \A p \in 1..Len(passkeys) : passkeys[p].name = named[p]
=============================================================================
