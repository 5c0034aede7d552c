--------------------------- MODULE PasskeysProofs ---------------------------
(***************************************************************************)
(* Proofs about Passkeys, for every value of its constants: labels, what   *)
(* brings a deleted passkey back, and by how much registrations that       *)
(* overlap pass the cap.                                                   *)
(***************************************************************************)
EXTENDS Passkeys, SequenceTheorems, FiniteSetTheorems, TLAPS

-----------------------------------------------------------------------------
(* The inductive invariant.                                                *)

ChallengesSound == now \in Nat /\ enabled \subseteq Users /\ challenges \in Seq(Challenge)

\* Every row a passkey has had is its user's, and the label is the one last given.
PasskeysSound ==
    /\ passkeys \in Seq(Passkey) /\ passSeen \in Seq(SUBSET Passkey) /\ named \in Seq(Names)
    /\ Len(passSeen) = Len(passkeys) /\ Len(named) = Len(passkeys)
    /\ \A p \in 1..Len(passkeys) :
        /\ passkeys[p] \in passSeen[p] /\ named[p] = passkeys[p].name
        /\ \A row \in passSeen[p] : row.user = passkeys[p].user

\* Sessions are for challenges to log in with.
SessionsSound ==
    /\ sessions \in Seq(Session)
    /\ \A s \in 1..Len(sessions) :
        /\ sessions[s].challenge \in 1..Len(challenges)
        /\ challenges[sessions[s].challenge].kind = "auth"

TablesSound == ChallengesSound /\ PasskeysSound /\ SessionsSound

Registrations == {"count", "register", "discard"}
Logins        == {"credential", "touch", "spent", "issue"}

\* What a call goes on with is there: a registration has a user, a device and a
\* label, and has put nothing yet or the credential it puts again; a login has a
\* challenge to log in with and, once read, a row.
Ready(q, cs, ps) ==
    /\ q.step \in Registrations \cup Logins => q.challenge \in 1..Len(cs)
    /\ q.step \in {"count", "register"} => q.user \in Users /\ q.device \in Devices /\ q.name \in Names
    /\ q.step = "count" => q.passkey = 0
    /\ q.step = "register" /\ q.passkey # 0 =>
            q.passkey \in 1..Len(ps) /\ MadeFor(ps[q.passkey], q)
    /\ q.step \in Logins => cs[q.challenge].kind = "auth" /\ q.passkey \in 1..Len(ps)
    /\ q.step \in {"touch", "spent", "issue"} => q.row \in Passkey
    /\ q.step \in {"rename", "delete"} => q.passkey \in 1..Len(ps)
    /\ q.step = "rename" => q.name \in Names

RequestsSound ==
    /\ requests \in [Requests -> Request]
    /\ \A r \in Requests : Ready(requests[r], challenges, passkeys)

Sound == TablesSound /\ RequestsSound

-----------------------------------------------------------------------------
(* What a step may do to rows others refer to.                             *)

\* Tables grow, a challenge keeps its kind, and a passkey what it was made for.
Grown ==
    /\ Len(challenges) <= Len(challenges') /\ Len(passkeys) <= Len(passkeys')
    /\ \A c \in 1..Len(challenges) : challenges'[c].kind = challenges[c].kind
    /\ \A p \in 1..Len(passkeys) : MadeFor(passkeys'[p], passkeys[p])

\* What was deleted stays so.
Gone == \A p \in 1..Len(passkeys) : ~passkeys[p].exists => ~passkeys'[p].exists

\* What was deleted stays so, or is what a registration on its way puts.
Revived ==
    \A p \in 1..Len(passkeys) : ~passkeys[p].exists /\ passkeys'[p].exists =>
        \E r \in Requests : /\ requests[r].step = "register"
                            /\ MadeFor(passkeys[p], requests[r])
                            /\ passkeys'[p] = NewPasskey(requests[r])

\* Calls about to put a passkey of the user, that none has put yet or that they put
\* again, and the passkeys the user has or would have by those put again.
Registering(u) == {r \in Requests : requests[r].step = "register" /\ requests[r].user = u}
Fresh(u)       == {r \in Registering(u) : requests[r].passkey = 0}
Repeating(u)   == {r \in Registering(u) : requests[r].passkey # 0}
Taken(u)       == Held(u) \cup {requests[r].passkey : r \in Repeating(u)}

\* No user has more passkeys, or more about to be put.
NoMore == \A u \in Users : Taken(u)' \subseteq Taken(u) /\ Fresh(u)' \subseteq Fresh(u)

\* Rows of the tables, and lengths.
LEMMA Tables ==
  ASSUME Sound
  PROVE  /\ Len(challenges) \in Nat /\ Len(passkeys) \in Nat /\ Len(sessions) \in Nat
         /\ \A c \in 1..Len(challenges) : challenges[c] \in Challenge
         /\ \A p \in 1..Len(passkeys) : passkeys[p] \in Passkey
BY LenProperties, ElementOfSeq DEF Sound, TablesSound, ChallengesSound, PasskeysSound, SessionsSound

\* Between its steps a call has what it goes on with.
LEMMA InFlight ==
  ASSUME Sound, NEW r \in Requests
  PROVE  requests[r] \in Request /\ Ready(requests[r], challenges, passkeys)
BY DEF Sound, RequestsSound

\* Rows a call goes on with stay, whatever the step.
LEMMA Waits ==
  ASSUME Sound, Grown, NEW q, Ready(q, challenges, passkeys)
  PROVE  Ready(q, challenges', passkeys')
<1>1. Len(challenges) \in Nat /\ Len(passkeys) \in Nat
  BY Tables
<1>2. \A c \in 1..Len(challenges) : c \in 1..Len(challenges') /\ challenges'[c].kind = challenges[c].kind
  BY <1>1 DEF Grown
<1>3. \A p \in 1..Len(passkeys) : p \in 1..Len(passkeys') /\ MadeFor(passkeys'[p], passkeys[p])
  BY <1>1 DEF Grown
<1>4. q.step = "register" /\ q.passkey # 0 =>
        q.passkey \in 1..Len(passkeys') /\ MadeFor(passkeys'[q.passkey], q)
  BY <1>3 DEF Ready, MadeFor
<1>5. QED
  BY <1>2, <1>3, <1>4 DEF Ready, Logins, Registrations

\* A call goes on as q, and the tables are sound.
LEMMA GoesOn ==
  ASSUME Sound, TablesSound', Grown, NEW r \in Requests, NEW q \in Request,
         Ready(q, challenges', passkeys'), requests' = [requests EXCEPT ![r] = q]
  PROVE  Sound'
<1>1. requests' \in [Requests -> Request]
  BY DEF Sound, RequestsSound
<1>2. ASSUME NEW p \in Requests PROVE Ready(requests'[p], challenges', passkeys')
  <2>1. CASE p = r
    BY <2>1 DEF Sound, RequestsSound
  <2>2. CASE p # r
    <3>1. requests'[p] = requests[p]
      BY <2>2 DEF Sound, RequestsSound
    <3>2. QED
      BY <3>1, InFlight, Waits
  <2>3. QED
    BY <2>1, <2>2
<1>3. QED
  BY <1>1, <1>2 DEF Sound, RequestsSound

\* An invocation that serves no call.
LEMMA IdleIsReady ==
  /\ Idle \in Request /\ Idle.step = "idle"
  /\ \A cs, ps : Ready(Idle, cs, ps)
<1>1. Idle \in Request
  BY DEF Idle, Request, Steps
<1>2. Idle.step = "idle"
  BY DEF Idle
<1>3. QED
  BY <1>1, <1>2 DEF Ready, Logins, Registrations

\* A call that returns.
LEMMA Returns ==
  ASSUME Sound, TablesSound', Grown, NEW r \in Requests, Return(r)
  PROVE  Sound'
BY IdleIsReady, GoesOn DEF Return

\* A call that goes on to register nothing, where no passkey is added.
LEMMA NoneMore ==
  ASSUME Sound, NEW r \in Requests, NEW q, q.step # "register",
         requests' = [requests EXCEPT ![r] = q], \A u \in Users : Held(u)' \subseteq Held(u)
  PROVE  NoMore
<1>1. \A p \in Requests : requests'[p] = IF p = r THEN q ELSE requests[p]
  BY DEF Sound, RequestsSound
<1>2. ASSUME NEW u \in Users
      PROVE  Taken(u)' \subseteq Taken(u) /\ Fresh(u)' \subseteq Fresh(u)
  <2>1. \A p \in Requests : requests'[p].step = "register" => requests'[p] = requests[p]
    BY <1>1
  <2>2. Fresh(u)' \subseteq Fresh(u) /\ Repeating(u)' \subseteq Repeating(u)
    BY <2>1 DEF Fresh, Repeating, Registering
  <2>3. \A p \in Repeating(u)' : requests'[p].passkey = requests[p].passkey
    BY <2>1 DEF Repeating, Registering
  <2>4. QED
    BY <2>2, <2>3 DEF Taken
<1>3. QED
  BY <1>2 DEF NoMore

\* A call that returns has nothing on the way.
LEMMA ReturnsNoMore ==
  ASSUME Sound, NEW r \in Requests, Return(r), \A u \in Users : Held(u)' \subseteq Held(u)
  PROVE  NoMore
BY IdleIsReady, NoneMore DEF Return

-----------------------------------------------------------------------------
(* Writes.                                                                 *)

\* Nothing is written.
LEMMA NothingWritten ==
  ASSUME Sound, UNCHANGED tables, now' \in Nat, enabled' \subseteq Users
  PROVE  TablesSound' /\ Grown /\ Gone /\ \A u \in Users : Held(u)' = Held(u)
<1>1. /\ challenges' = challenges /\ passkeys' = passkeys /\ passSeen' = passSeen
      /\ named' = named /\ sessions' = sessions
  BY DEF tables
<1>2. TablesSound'
  BY <1>1 DEF Sound, TablesSound, ChallengesSound, PasskeysSound, SessionsSound
<1>3. Grown
  BY <1>1, Tables DEF Grown, MadeFor
<1>4. QED
  BY <1>1, <1>2, <1>3 DEF Gone, Held

\* A challenge is put.
LEMMA ChallengePut ==
  ASSUME Sound, NEW kind \in {"reg", "auth"}, NEW u \in Users \cup {None}, NEW ex \in SUBSET Devices,
         PutChallenge(kind, u, ex), LimitsAssumption,
         UNCHANGED <<now, enabled, passkeys, passSeen, named, sessions>>
  PROVE  TablesSound' /\ Grown /\ Gone /\ \A v \in Users : Held(v)' = Held(v)
<1>1. PICK row : row = [kind |-> kind, user |-> u, excluded |-> ex,
                        expires_at |-> now + ChallengeLife, exists |-> TRUE]
  OBVIOUS
<1>2. now + ChallengeLife \in Nat
  BY DEF Sound, TablesSound, ChallengesSound, LimitsAssumption
<1>3. row \in Challenge
  BY <1>1, <1>2 DEF Challenge
<1>4. challenges \in Seq(Challenge) /\ challenges' = Append(challenges, row)
  BY <1>1 DEF Sound, TablesSound, ChallengesSound, PutChallenge
<1>5. /\ challenges' \in Seq(Challenge) /\ Len(challenges') = Len(challenges) + 1
      /\ \A c \in 1..Len(challenges) : challenges'[c] = challenges[c]
  BY <1>3, <1>4, AppendProperties
<1>6. ChallengesSound' /\ PasskeysSound'
  BY <1>5 DEF Sound, TablesSound, ChallengesSound, PasskeysSound
<1>7. Len(challenges) \in Nat
  BY Tables
<1>8. \A c \in 1..Len(challenges) : c \in 1..Len(challenges') /\ challenges'[c] = challenges[c]
  BY <1>5, <1>7
<1>9. SessionsSound'
  BY <1>8 DEF Sound, TablesSound, SessionsSound
<1>10. Grown
  BY <1>5, <1>7, Tables DEF Grown, MadeFor
<1>11. QED
  BY <1>6, <1>9, <1>10 DEF TablesSound, Gone, Held

\* A challenge is deleted, or is not.
LEMMA ChallengeDeleted ==
  ASSUME Sound, NEW c \in 1..Len(challenges), DeleteChallenge(c),
         UNCHANGED <<now, enabled, passkeys, passSeen, named, sessions>>
  PROVE  TablesSound' /\ Grown /\ Gone /\ \A v \in Users : Held(v)' = Held(v)
<1>1. CASE UNCHANGED challenges
  BY <1>1, NothingWritten DEF tables, Sound, TablesSound, ChallengesSound
<1>2. CASE challenges' = [challenges EXCEPT ![c].exists = FALSE]
  <2>1. PICK old : old = challenges[c]
    OBVIOUS
  <2>2. PICK row : row = [old EXCEPT !.exists = FALSE]
    OBVIOUS
  <2>3. old \in Challenge
    BY <2>1, Tables
  <2>4. row \in Challenge /\ row.kind = old.kind
    BY <2>2, <2>3 DEF Challenge
  <2>5. challenges \in Seq(Challenge) /\ challenges' = [challenges EXCEPT ![c] = row]
    BY <1>2, <2>1, <2>2 DEF Sound, TablesSound, ChallengesSound
  <2>6. /\ challenges' \in Seq(Challenge) /\ Len(challenges') = Len(challenges)
        /\ \A d \in 1..Len(challenges) : challenges'[d] = IF d = c THEN row ELSE challenges[d]
    BY <2>4, <2>5, ExceptSeq
  <2>7. \A d \in 1..Len(challenges) : challenges'[d].kind = challenges[d].kind
    BY <2>1, <2>4, <2>6
  <2>8. ChallengesSound' /\ PasskeysSound' /\ SessionsSound'
    BY <2>6, <2>7 DEF Sound, TablesSound, ChallengesSound, PasskeysSound, SessionsSound
  <2>9. Grown
    BY <2>6, <2>7, Tables DEF Grown, MadeFor
  <2>10. QED
    BY <2>8, <2>9 DEF TablesSound, Gone, Held
<1>3. QED
  BY <1>1, <1>2 DEF DeleteChallenge

\* A row is written over that of a passkey, made for the same, and its label noted.
LEMMA PasskeyOver ==
  ASSUME Sound, NEW p \in 1..Len(passkeys), NEW row \in Passkey, SetPasskey(p, row),
         MadeFor(row, passkeys[p]), named' = [named EXCEPT ![p] = row.name],
         UNCHANGED <<now, enabled, challenges, sessions>>
  PROVE  /\ TablesSound' /\ Grown /\ Len(passkeys') = Len(passkeys)
         /\ \A k \in 1..Len(passkeys) : passkeys'[k] = IF k = p THEN row ELSE passkeys[k]
<1>1. /\ passkeys \in Seq(Passkey) /\ passSeen \in Seq(SUBSET Passkey) /\ named \in Seq(Names)
      /\ Len(passSeen) = Len(passkeys) /\ Len(named) = Len(passkeys)
  BY DEF Sound, TablesSound, PasskeysSound
<1>2. /\ passkeys' = [passkeys EXCEPT ![p] = row]
      /\ passSeen' = [passSeen EXCEPT ![p] = passSeen[p] \cup {row}]
  BY DEF SetPasskey
<1>3. /\ passkeys' \in Seq(Passkey) /\ Len(passkeys') = Len(passkeys)
      /\ \A k \in 1..Len(passkeys) : passkeys'[k] = IF k = p THEN row ELSE passkeys[k]
  BY <1>1, <1>2, ExceptSeq
<1>4. passSeen[p] \cup {row} \in SUBSET Passkey
  BY <1>1, ElementOfSeq
<1>5. /\ passSeen' \in Seq(SUBSET Passkey) /\ Len(passSeen') = Len(passSeen)
      /\ \A k \in 1..Len(passSeen) :
            passSeen'[k] = IF k = p THEN passSeen[p] \cup {row} ELSE passSeen[k]
  BY <1>1, <1>2, <1>4, ExceptSeq
<1>6. row.name \in Names
  BY DEF Passkey
<1>7. /\ named' \in Seq(Names) /\ Len(named') = Len(named)
      /\ \A k \in 1..Len(named) : named'[k] = IF k = p THEN row.name ELSE named[k]
  BY <1>1, <1>6, ExceptSeq
<1>8. ASSUME NEW k \in 1..Len(passkeys')
      PROVE  /\ passkeys'[k] \in passSeen'[k] /\ named'[k] = passkeys'[k].name
             /\ \A old \in passSeen'[k] : old.user = passkeys'[k].user
  <2>1. /\ k \in 1..Len(passkeys) /\ k \in 1..Len(passSeen) /\ k \in 1..Len(named)
        /\ passkeys[k] \in passSeen[k] /\ named[k] = passkeys[k].name
        /\ \A old \in passSeen[k] : old.user = passkeys[k].user
    BY <1>1, <1>3 DEF Sound, TablesSound, PasskeysSound
  <2>2. CASE k = p
    BY <1>3, <1>5, <1>7, <2>1, <2>2 DEF MadeFor
  <2>3. CASE k # p
    BY <1>3, <1>5, <1>7, <2>1, <2>3
  <2>4. QED
    BY <2>2, <2>3
<1>9. PasskeysSound'
  BY <1>1, <1>3, <1>5, <1>7, <1>8 DEF PasskeysSound
<1>10. ChallengesSound' /\ SessionsSound'
  BY DEF Sound, TablesSound, ChallengesSound, SessionsSound
<1>11. Grown
  BY <1>3, Tables DEF Grown, MadeFor
<1>12. QED
  BY <1>3, <1>9, <1>10, <1>11 DEF TablesSound

\* It is not put where none is.
LEMMA PasskeySet ==
  ASSUME Sound, NEW p \in 1..Len(passkeys), NEW row \in Passkey, SetPasskey(p, row),
         MadeFor(row, passkeys[p]), row.exists => passkeys[p].exists,
         named' = [named EXCEPT ![p] = row.name],
         UNCHANGED <<now, enabled, challenges, sessions>>
  PROVE  TablesSound' /\ Grown /\ Gone /\ \A v \in Users : Held(v)' \subseteq Held(v)
<1>1. /\ TablesSound' /\ Grown /\ Len(passkeys') = Len(passkeys)
      /\ \A k \in 1..Len(passkeys) : passkeys'[k] = IF k = p THEN row ELSE passkeys[k]
  BY PasskeyOver
<1>2. row.user = passkeys[p].user
  BY DEF MadeFor
<1>3. \A v \in Users : Held(v)' \subseteq Held(v)
  BY <1>1, <1>2 DEF Held
<1>4. QED
  BY <1>1, <1>3 DEF Gone

\* A passkey is added: its user has one more, and what was deleted stays so.
LEMMA PasskeyAdded ==
  ASSUME Sound, NEW row \in Passkey, AddPasskey(row), UNCHANGED <<now, enabled, challenges, sessions>>
  PROVE  /\ TablesSound' /\ Grown /\ Gone /\ Len(passkeys') = Len(passkeys) + 1
         /\ passkeys'[Len(passkeys) + 1] = row
         /\ \A k \in 1..Len(passkeys) : passkeys'[k] = passkeys[k]
<1>1. /\ passkeys \in Seq(Passkey) /\ passSeen \in Seq(SUBSET Passkey) /\ named \in Seq(Names)
      /\ Len(passSeen) = Len(passkeys) /\ Len(named) = Len(passkeys) /\ Len(passkeys) \in Nat
  BY Tables DEF Sound, TablesSound, PasskeysSound
<1>2. PICK n : n = Len(passkeys)
  OBVIOUS
<1>3. row.name \in Names /\ {row} \in SUBSET Passkey
  BY DEF Passkey
<1>4. /\ passkeys' \in Seq(Passkey) /\ Len(passkeys') = n + 1 /\ passkeys'[n + 1] = row
      /\ \A p \in 1..n : passkeys'[p] = passkeys[p]
  BY <1>1, <1>2, AppendProperties DEF AddPasskey
<1>5. /\ passSeen' \in Seq(SUBSET Passkey) /\ Len(passSeen') = n + 1 /\ passSeen'[n + 1] = {row}
      /\ \A p \in 1..n : passSeen'[p] = passSeen[p]
  BY <1>1, <1>2, <1>3, AppendProperties DEF AddPasskey
<1>6. /\ named' \in Seq(Names) /\ Len(named') = n + 1 /\ named'[n + 1] = row.name
      /\ \A p \in 1..n : named'[p] = named[p]
  BY <1>1, <1>2, <1>3, AppendProperties DEF AddPasskey
<1>7. ASSUME NEW p \in 1..Len(passkeys')
      PROVE  /\ passkeys'[p] \in passSeen'[p] /\ named'[p] = passkeys'[p].name
             /\ \A old \in passSeen'[p] : old.user = passkeys'[p].user
  <2>1. CASE p = n + 1
    BY <1>4, <1>5, <1>6, <2>1
  <2>2. CASE p \in 1..n
    BY <1>2, <1>4, <1>5, <1>6, <2>2, SMTT(60) DEF Sound, TablesSound, PasskeysSound
  <2>3. QED
    BY <1>1, <1>2, <1>4, <2>1, <2>2
<1>8. PasskeysSound'
  BY <1>4, <1>5, <1>6, <1>7 DEF PasskeysSound
<1>9. ChallengesSound' /\ SessionsSound'
  BY DEF Sound, TablesSound, ChallengesSound, SessionsSound
<1>10. Grown /\ Gone
  BY <1>1, <1>2, <1>4, Tables DEF Grown, Gone, MadeFor
<1>11. QED
  BY <1>2, <1>4, <1>8, <1>9, <1>10 DEF TablesSound

\* The row that was read last, and its label, are kept.
LEMMA RowOf ==
  ASSUME Sound, NEW p \in 1..Len(passkeys)
  PROVE  /\ passkeys[p] \in Passkey /\ named[p] = passkeys[p].name
         /\ named = [named EXCEPT ![p] = passkeys[p].name]
<1>1. passkeys[p] \in Passkey /\ named[p] = passkeys[p].name
  BY Tables DEF Sound, TablesSound, PasskeysSound
<1>2. named \in [1..Len(named) -> Names]
  BY LenProperties DEF Sound, TablesSound, PasskeysSound
<1>3. QED
  BY <1>1, <1>2

\* A session is given.
LEMMA SessionGiven ==
  ASSUME Sound, NEW row \in Session, row.challenge \in 1..Len(challenges),
         challenges[row.challenge].kind = "auth", sessions' = Append(sessions, row),
         UNCHANGED <<now, enabled, challenges, passkeys, passSeen, named>>
  PROVE  TablesSound' /\ Grown /\ Gone /\ \A v \in Users : Held(v)' = Held(v)
<1>1. sessions \in Seq(Session)
  BY DEF Sound, TablesSound, SessionsSound
<1>2. /\ sessions' \in Seq(Session) /\ Len(sessions') = Len(sessions) + 1
      /\ \A s \in 1..Len(sessions) : sessions'[s] = sessions[s]
      /\ sessions'[Len(sessions) + 1] = row
  BY <1>1, AppendProperties
<1>3. Len(sessions) \in Nat
  BY Tables
<1>4. \A s \in 1..Len(sessions') : s \in 1..Len(sessions) \/ s = Len(sessions) + 1
  BY <1>2, <1>3
<1>5. SessionsSound'
  BY <1>2, <1>4 DEF Sound, TablesSound, SessionsSound
<1>6. ChallengesSound' /\ PasskeysSound'
  BY DEF Sound, TablesSound, ChallengesSound, PasskeysSound
<1>7. Grown
  BY Tables DEF Grown, MadeFor
<1>8. QED
  BY <1>5, <1>6, <1>7 DEF TablesSound, Gone, Held

-----------------------------------------------------------------------------
(* Actions.  Each keeps the invariant and, but for a registration's put,    *)
(* what was deleted, and but for its count and put there are no more        *)
(* passkeys, held or on the way, than before.                               *)

\* begin_passkey_registration's reads.
LEMMA BeginPasskeyRegistrationSound ==
  ASSUME Sound, NEW r \in Requests, NEW u \in Users, BeginPasskeyRegistration(r, u)
  PROVE  Sound' /\ Gone /\ NoMore
<1>1. PICK listed \in Indexed(u) :
        requests' = [requests EXCEPT ![r] = [Idle EXCEPT !.step = "challenge", !.user = u,
                                    !.excluded = {passkeys[p].device : p \in listed}]]
  BY DEF BeginPasskeyRegistration, Enter
<1>2. listed \subseteq 1..Len(passkeys)
  BY DEF Indexed, Held
<1>3. PICK ex : ex = {passkeys[p].device : p \in listed}
  OBVIOUS
<1>4. ex \in SUBSET Devices
  BY <1>2, <1>3, Tables DEF Passkey
<1>5. PICK q : q = [Idle EXCEPT !.step = "challenge", !.user = u, !.excluded = ex]
  OBVIOUS
<1>6. q \in Request /\ q.step = "challenge"
  BY <1>4, <1>5 DEF Idle, Request, Steps
<1>7. requests' = [requests EXCEPT ![r] = q]
  BY <1>1, <1>3, <1>5
<1>8. TablesSound' /\ Grown /\ Gone /\ \A v \in Users : Held(v)' = Held(v)
  BY NothingWritten DEF BeginPasskeyRegistration, Call, Sound, TablesSound, ChallengesSound
<1>9. Ready(q, challenges', passkeys')
  BY <1>6 DEF Ready, Registrations, Logins
<1>10. QED
  BY <1>6, <1>7, <1>8, <1>9, GoesOn, NoneMore

\* Its challenge.
LEMMA RegistrationChallengeSound ==
  ASSUME Sound, LimitsAssumption, NEW r \in Requests, RegistrationChallenge(r)
  PROVE  Sound' /\ Gone /\ NoMore
<1>1. requests[r].user \in Users \cup {None} /\ requests[r].excluded \in SUBSET Devices
  BY InFlight DEF Request
<1>2. TablesSound' /\ Grown /\ Gone /\ \A v \in Users : Held(v)' = Held(v)
  BY <1>1, ChallengePut DEF RegistrationChallenge, At
<1>3. QED
  BY <1>2, Returns, ReturnsNoMore DEF RegistrationChallenge

\* finish_passkey_registration finds the challenge, expired or not.
LEMMA FinishPasskeyRegistrationSound ==
  ASSUME Sound, NEW r \in Requests, NEW u \in Users, NEW c \in 1..Len(challenges),
         NEW d \in Devices, NEW name \in Names, FinishPasskeyRegistration(r, u, c, d, name)
  PROVE  Sound' /\ Gone /\ NoMore
<1>1. PICK step : step = IF now >= challenges[c].expires_at THEN "discard" ELSE "count"
  OBVIOUS
<1>2. PICK q : q = [Idle EXCEPT !.user = u, !.challenge = c, !.device = d, !.name = name, !.step = step]
  OBVIOUS
<1>3. c \in Nat
  BY Tables
<1>4. /\ q \in Request /\ q.step = step /\ q.user = u /\ q.challenge = c /\ q.device = d
      /\ q.name = name /\ q.passkey = 0
  BY <1>1, <1>2, <1>3 DEF Idle, Request, Steps
<1>5. requests' = [requests EXCEPT ![r] = q]
  BY <1>1, <1>2 DEF FinishPasskeyRegistration, Enter
<1>6. TablesSound' /\ Grown /\ Gone /\ \A v \in Users : Held(v)' = Held(v)
  BY NothingWritten DEF FinishPasskeyRegistration, Call, Sound, TablesSound, ChallengesSound
<1>7. Ready(q, challenges, passkeys)
  BY <1>1, <1>4 DEF Ready, Registrations, Logins
<1>8. Ready(q, challenges', passkeys')
  BY <1>6, <1>7, Waits
<1>9. QED
  BY <1>1, <1>4, <1>5, <1>6, <1>8, GoesOn, NoneMore

\* The second look at the cap.
LEMMA RegistrationCountSound ==
  ASSUME Sound, NEW r \in Requests, RegistrationCount(r)
  PROVE  /\ Sound' /\ Gone /\ \A v \in Users : Held(v)' = Held(v)
         /\ \E step \in {"register", "discard"}, counted \in Indexed(requests[r].user) :
             /\ step = "register" => Cardinality(counted) < MaxPasskeys
             /\ \A p \in Requests : requests'[p].step = IF p = r THEN step ELSE requests[p].step
             /\ \A p \in Requests : /\ requests'[p].user = requests[p].user
                                    /\ requests'[p].passkey = requests[p].passkey
         /\ requests[r].passkey = 0
<1>1. PICK q : q = requests[r]
  OBVIOUS
<1>2. q \in Request /\ Ready(q, challenges, passkeys) /\ q.step = "count"
  BY <1>1, InFlight DEF RegistrationCount, At
<1>3. PICK counted \in Indexed(q.user) :
        requests' = [requests EXCEPT ![r].step = IF WithinCap(counted) THEN "register" ELSE "discard"]
  BY <1>1 DEF RegistrationCount, Goto
<1>4. PICK step : step = IF WithinCap(counted) THEN "register" ELSE "discard"
  OBVIOUS
<1>5. PICK p : p = [q EXCEPT !.step = step]
  OBVIOUS
<1>6. /\ p \in Request /\ p.step = step /\ p.user = q.user /\ p.device = q.device
      /\ p.name = q.name /\ p.challenge = q.challenge /\ p.passkey = q.passkey
  BY <1>2, <1>4, <1>5 DEF Request, Steps
<1>7. requests' = [requests EXCEPT ![r] = p]
  BY <1>1, <1>3, <1>4, <1>5
<1>8. TablesSound' /\ Grown /\ Gone /\ \A v \in Users : Held(v)' = Held(v)
  BY NothingWritten DEF RegistrationCount, At, Sound, TablesSound, ChallengesSound
<1>9. Ready(p, challenges, passkeys)
  BY <1>2, <1>4, <1>6 DEF Ready, Registrations, Logins
<1>10. Sound'
  BY <1>6, <1>7, <1>8, <1>9, Waits, GoesOn
<1>11. \A o \in Requests : requests'[o] = IF o = r THEN p ELSE requests[o]
  BY <1>7 DEF Sound, RequestsSound
<1>12. step \in {"register", "discard"} /\ (step = "register" => Cardinality(counted) < MaxPasskeys)
  BY <1>4 DEF WithinCap
<1>13. \A o \in Requests : requests'[o].step = IF o = r THEN step ELSE requests[o].step
  BY <1>6, <1>11
<1>14. \A o \in Requests : /\ requests'[o].user = requests[o].user
                            /\ requests'[o].passkey = requests[o].passkey
  BY <1>1, <1>6, <1>11
<1>15. counted \in Indexed(requests[r].user) /\ requests[r].passkey = 0
  BY <1>1, <1>2 DEF Ready
<1>16. QED
  BY <1>8, <1>10, <1>12, <1>13, <1>14, <1>15, Zenon

\* The put adds a passkey or writes over one made for the same: who had a put on
\* the way has it still, as one to repeat, or has the passkey.
LEMMA RegistrationPutSound ==
  ASSUME Sound, NEW r \in Requests, RegistrationPut(r)
  PROVE  /\ Sound' /\ requests[r].step = "register"
         /\ \A p \in 1..Len(passkeys) : ~passkeys[p].exists /\ passkeys'[p].exists =>
                MadeFor(passkeys[p], requests[r]) /\ passkeys'[p] = NewPasskey(requests[r])
         /\ \E p : /\ requests[r].passkey # 0 => p \in Taken(requests[r].user)
                   /\ \A v \in Users :
                        /\ Taken(v)' \subseteq Taken(v) \cup (IF v = requests[r].user THEN {p} ELSE {})
                        /\ Fresh(v)' \subseteq Fresh(v) \ {r}
<1>1. PICK q : q = requests[r]
  OBVIOUS
<1>2. q \in Request /\ Ready(q, challenges, passkeys) /\ q.step = "register"
  BY <1>1, InFlight DEF RegistrationPut, At
<1>3. PICK row : row = NewPasskey(q)
  OBVIOUS
<1>4. q.user \in Users /\ q.device \in Devices /\ q.name \in Names /\ q.challenge \in Nat
  BY <1>2 DEF Ready, Request
<1>5. row \in Passkey /\ MadeFor(row, q) /\ row.exists /\ row.user = q.user
  BY <1>3, <1>4 DEF Passkey, NewPasskey, MadeFor
<1>6. PICK p \in Presented(q) :
        /\ IF p \in 1..Len(passkeys) THEN PutAgain(p, row) ELSE AddPasskey(row)
        /\ Goto(r, "discard") \/ Enter(r, [q EXCEPT !.passkey = p])
  BY <1>1, <1>3 DEF RegistrationPut
<1>7. UNCHANGED <<now, enabled, challenges, sessions>>
  BY DEF RegistrationPut, At
<1>8. /\ p \in 1..Len(passkeys) \/ p = Len(passkeys) + 1
      /\ p \in 1..Len(passkeys) => MadeFor(passkeys[p], q)
      /\ q.passkey # 0 => p = q.passkey /\ p \in 1..Len(passkeys)
  BY <1>2 DEF Ready, Presented
<1>9. Len(passkeys) \in Nat
  BY Tables
<1>10. /\ TablesSound' /\ Grown /\ p \in 1..Len(passkeys') /\ passkeys'[p] = row
       /\ \A k \in 1..Len(passkeys') : k # p => k \in 1..Len(passkeys) /\ passkeys'[k] = passkeys[k]
       /\ \A k \in 1..Len(passkeys) : k # p => passkeys'[k] = passkeys[k]
  <2>1. CASE p \in 1..Len(passkeys)
    <3>1. SetPasskey(p, row) /\ named' = [named EXCEPT ![p] = row.name]
      BY <1>6, <2>1 DEF PutAgain
    <3>2. MadeFor(row, passkeys[p])
      BY <1>5, <1>8, <2>1 DEF MadeFor
    <3>3. QED
      BY <1>5, <1>7, <2>1, <3>1, <3>2, PasskeyOver
  <2>2. CASE p \notin 1..Len(passkeys)
    <3>1. AddPasskey(row) /\ p = Len(passkeys) + 1
      BY <1>6, <1>8, <2>2
    <3>2. QED
      BY <1>5, <1>7, <1>9, <3>1, PasskeyAdded
  <2>3. QED
    BY <2>1, <2>2
<1>11. PICK o : /\ o \in Request /\ o.user = q.user /\ requests' = [requests EXCEPT ![r] = o]
                /\ Ready(o, challenges', passkeys')
                /\ o.step = "discard" \/ (o.step = "register" /\ o.passkey = p /\ p # 0)
  <2>1. p \in Nat /\ p # 0
    BY <1>9, <1>10
  <2>2. CASE Goto(r, "discard")
    <3>1. PICK o : o = [q EXCEPT !.step = "discard"]
      OBVIOUS
    <3>2. o \in Request /\ o.step = "discard" /\ o.challenge = q.challenge /\ o.user = q.user
      BY <1>2, <3>1 DEF Request, Steps
    <3>3. requests' = [requests EXCEPT ![r] = o]
      BY <1>1, <2>2, <3>1 DEF Goto
    <3>4. Ready(o, challenges, passkeys)
      BY <1>2, <3>2 DEF Ready, Registrations, Logins
    <3>5. QED
      BY <1>10, <3>2, <3>3, <3>4, Waits
  <2>3. CASE Enter(r, [q EXCEPT !.passkey = p])
    <3>1. PICK o : o = [q EXCEPT !.passkey = p]
      OBVIOUS
    <3>2. /\ o \in Request /\ o.step = "register" /\ o.challenge = q.challenge /\ o.user = q.user
          /\ o.passkey = p /\ o.device = q.device /\ o.name = q.name
      BY <1>2, <2>1, <3>1 DEF Request, Steps
    <3>3. requests' = [requests EXCEPT ![r] = o]
      BY <2>3, <3>1 DEF Enter
    <3>4. MadeFor(passkeys'[p], o)
      BY <1>5, <1>10, <3>2 DEF MadeFor
    <3>5. o.challenge \in 1..Len(challenges')
      BY <1>2, <1>7, <3>2 DEF Ready, Registrations
    <3>6. Ready(o, challenges', passkeys')
      BY <1>4, <1>10, <3>2, <3>4, <3>5 DEF Ready, Registrations, Logins
    <3>7. QED
      BY <2>1, <3>2, <3>3, <3>6
  <2>4. QED
    BY <1>6, <2>2, <2>3
<1>12. Sound'
  BY <1>10, <1>11, GoesOn
<1>13. ASSUME NEW k \in 1..Len(passkeys), ~passkeys[k].exists, passkeys'[k].exists
       PROVE  MadeFor(passkeys[k], q) /\ passkeys'[k] = NewPasskey(q)
  BY <1>3, <1>8, <1>10, <1>13
<1>14. q.passkey # 0 => p \in Taken(q.user)
  BY <1>1, <1>2, <1>8 DEF Taken, Repeating, Registering
<1>15. \A k \in Requests : requests'[k] = IF k = r THEN o ELSE requests[k]
  BY <1>11 DEF Sound, RequestsSound
<1>16. ASSUME NEW v \in Users
       PROVE  /\ Taken(v)' \subseteq Taken(v) \cup (IF v = q.user THEN {p} ELSE {})
              /\ Fresh(v)' \subseteq Fresh(v) \ {r}
  <2>1. Held(v)' \subseteq Held(v) \cup (IF v = q.user THEN {p} ELSE {})
    BY <1>5, <1>10 DEF Held
  <2>2. ASSUME NEW k \in Repeating(v)'
        PROVE  requests'[k].passkey \in Taken(v) \cup (IF v = q.user THEN {p} ELSE {})
    <3>1. CASE k = r
      BY <1>11, <1>15, <2>2, <3>1 DEF Repeating, Registering
    <3>2. CASE k # r
      BY <1>15, <2>2, <3>2 DEF Repeating, Registering, Taken
    <3>3. QED
      BY <3>1, <3>2
  <2>3. Fresh(v)' \subseteq Fresh(v) \ {r}
    BY <1>11, <1>15 DEF Fresh, Registering
  <2>4. QED
    BY <2>1, <2>2, <2>3 DEF Taken
<1>17. QED
  BY <1>1, <1>2, <1>12, <1>13, <1>14, <1>16, Zenon

\* The challenge is deleted last.
LEMMA DiscardSound ==
  ASSUME Sound, NEW r \in Requests, Discard(r)
  PROVE  Sound' /\ Gone /\ NoMore
<1>1. requests[r].challenge \in 1..Len(challenges)
  BY InFlight DEF Discard, At, Ready, Registrations
<1>2. TablesSound' /\ Grown /\ Gone /\ \A v \in Users : Held(v)' = Held(v)
  BY <1>1, ChallengeDeleted DEF Discard, At
<1>3. QED
  BY <1>2, Returns, ReturnsNoMore DEF Discard

\* begin_passkey_login's challenge.
LEMMA BeginPasskeyLoginSound ==
  ASSUME Sound, LimitsAssumption, NEW r \in Requests, BeginPasskeyLogin(r)
  PROVE  Sound' /\ Gone /\ NoMore
<1>1. TablesSound' /\ Grown /\ Gone /\ \A v \in Users : Held(v)' = Held(v)
  BY ChallengePut DEF BeginPasskeyLogin, Call
<1>2. requests' = requests
  BY DEF BeginPasskeyLogin
<1>3. Sound'
  BY <1>1, <1>2, Waits DEF Sound, RequestsSound
<1>4. QED
  BY <1>1, <1>2, <1>3 DEF NoMore, Taken, Fresh, Repeating, Registering

\* finish_passkey_login finds the challenge.
LEMMA FinishPasskeyLoginSound ==
  ASSUME Sound, NEW r \in Requests, NEW c \in 1..Len(challenges), NEW p \in 1..Len(passkeys),
         FinishPasskeyLogin(r, c, p)
  PROVE  Sound' /\ Gone /\ NoMore
<1>1. PICK step : step = IF now >= challenges[c].expires_at THEN "discard" ELSE "credential"
  OBVIOUS
<1>2. PICK q : q = [Idle EXCEPT !.challenge = c, !.passkey = p, !.step = step]
  OBVIOUS
<1>3. c \in Nat /\ p \in Nat
  BY Tables
<1>4. q \in Request /\ q.step = step /\ q.challenge = c /\ q.passkey = p
  BY <1>1, <1>2, <1>3 DEF Idle, Request, Steps
<1>5. requests' = [requests EXCEPT ![r] = q]
  BY <1>1, <1>2 DEF FinishPasskeyLogin, Enter
<1>6. TablesSound' /\ Grown /\ Gone /\ \A v \in Users : Held(v)' = Held(v)
  BY NothingWritten DEF FinishPasskeyLogin, Call, Sound, TablesSound, ChallengesSound
<1>7. Ready(q, challenges, passkeys)
  BY <1>1, <1>4 DEF Ready, Registrations, Logins, FinishPasskeyLogin, LoginChallenge
<1>8. Ready(q, challenges', passkeys')
  BY <1>6, <1>7, Waits
<1>9. QED
  BY <1>1, <1>4, <1>5, <1>6, <1>8, GoesOn, NoneMore

\* It reads the passkey's row, or an earlier one.
LEMMA LoginCredentialSound ==
  ASSUME Sound, LagAssumption, NEW r \in Requests, LoginCredential(r)
  PROVE  Sound' /\ Gone /\ NoMore
<1>1. PICK q : q = requests[r]
  OBVIOUS
<1>2. q \in Request /\ Ready(q, challenges, passkeys) /\ q.step = "credential"
  BY <1>1, InFlight DEF LoginCredential, At
<1>3. PICK row \in Rows(q.passkey) :
        requests' = [requests EXCEPT ![r] =
            [q EXCEPT !.row = row, !.step = IF row.exists THEN "touch" ELSE "discard"]]
  BY <1>1 DEF LoginCredential, Enter
<1>4. q.passkey \in 1..Len(passkeys)
  BY <1>2 DEF Ready, Logins
<1>5. row \in Passkey
  <2>1. passkeys[q.passkey] \in Passkey /\ passSeen[q.passkey] \in SUBSET Passkey
    BY <1>4, ElementOfSeq DEF Sound, TablesSound, PasskeysSound
  <2>2. QED
    BY <1>3, <2>1 DEF Rows
<1>6. PICK step : step = IF row.exists THEN "touch" ELSE "discard"
  OBVIOUS
<1>7. PICK p : p = [q EXCEPT !.row = row, !.step = step]
  OBVIOUS
<1>8. /\ p \in Request /\ p.step = step /\ p.row = row /\ p.challenge = q.challenge
      /\ p.passkey = q.passkey
  BY <1>2, <1>5, <1>6, <1>7 DEF Request, Steps
<1>9. requests' = [requests EXCEPT ![r] = p]
  BY <1>3, <1>6, <1>7
<1>10. TablesSound' /\ Grown /\ Gone /\ \A v \in Users : Held(v)' = Held(v)
  BY NothingWritten DEF LoginCredential, At, Sound, TablesSound, ChallengesSound
<1>11. Ready(p, challenges, passkeys)
  BY <1>2, <1>5, <1>6, <1>8 DEF Ready, Registrations, Logins
<1>12. Ready(p, challenges', passkeys')
  BY <1>10, <1>11, Waits
<1>13. QED
  BY <1>6, <1>8, <1>9, <1>10, <1>12, GoesOn, NoneMore

\* A login goes on to another of its steps.
LEMMA LoginGoesOn ==
  ASSUME Sound, NEW r \in Requests, requests[r].step \in {"touch", "spent"},
         NEW step \in {"spent", "issue"}, Goto(r, step),
         TablesSound', Grown, \A u \in Users : Held(u)' \subseteq Held(u)
  PROVE  Sound' /\ NoMore
<1>1. PICK q : q = requests[r]
  OBVIOUS
<1>2. q \in Request /\ Ready(q, challenges, passkeys) /\ q.step \in {"touch", "spent"}
  BY <1>1, InFlight
<1>3. PICK p : p = [q EXCEPT !.step = step]
  OBVIOUS
<1>4. /\ p \in Request /\ p.step = step /\ p.row = q.row /\ p.challenge = q.challenge
      /\ p.passkey = q.passkey
  BY <1>2, <1>3 DEF Request, Steps
<1>5. requests' = [requests EXCEPT ![r] = p]
  BY <1>1, <1>3 DEF Goto
<1>6. Ready(p, challenges, passkeys)
  BY <1>2, <1>4 DEF Ready, Registrations, Logins
<1>7. QED
  BY <1>4, <1>5, <1>6, Waits, GoesOn, NoneMore

\* The touch is conditioned on the row's existence, and leaves its label alone.
LEMMA LoginTouchSound ==
  ASSUME Sound, NEW r \in Requests, LoginTouch(r)
  PROVE  Sound' /\ Gone /\ NoMore
<1>1. requests[r].step = "touch" /\ Goto(r, "spent")
  BY DEF LoginTouch, At
<1>2. PICK p : p = requests[r].passkey
  OBVIOUS
<1>3. p \in 1..Len(passkeys)
  BY <1>1, <1>2, InFlight DEF Ready, Logins
<1>4. TablesSound' /\ Grown /\ Gone /\ \A u \in Users : Held(u)' \subseteq Held(u)
  <2>1. CASE UNCHANGED <<passkeys, passSeen>>
    BY <2>1, NothingWritten DEF LoginTouch, At, tables, Sound, TablesSound, ChallengesSound
  <2>2. CASE TouchLastUsed(p, requests[r].row)
    <3>1. PICK old : old = passkeys[p]
      OBVIOUS
    <3>2. PICK row : row = [old EXCEPT !.last_used_at = now]
      OBVIOUS
    <3>3. old \in Passkey /\ now \in Nat
      BY <1>3, <3>1, RowOf DEF Sound, TablesSound, ChallengesSound
    <3>4. row \in Passkey /\ MadeFor(row, old) /\ row.exists = old.exists /\ row.name = old.name
      BY <3>2, <3>3 DEF Passkey, MadeFor
    <3>5. SetPasskey(p, row)
      BY <2>2, <3>1, <3>2 DEF TouchLastUsed
    <3>6. named' = [named EXCEPT ![p] = row.name]
      BY <1>3, <3>1, <3>4, RowOf DEF LoginTouch
    <3>7. QED
      BY <1>3, <3>1, <3>4, <3>5, <3>6, PasskeySet DEF LoginTouch, At
  <2>3. QED
    BY <1>2, <2>1, <2>2 DEF LoginTouch
<1>5. QED
  BY <1>1, <1>4, LoginGoesOn

\* It deletes the challenge.
LEMMA LoginSpentSound ==
  ASSUME Sound, NEW r \in Requests, LoginSpent(r)
  PROVE  Sound' /\ Gone /\ NoMore
<1>1. requests[r].step = "spent" /\ Goto(r, "issue")
  BY DEF LoginSpent, At
<1>2. requests[r].challenge \in 1..Len(challenges)
  BY <1>1, InFlight DEF Ready, Logins
<1>3. TablesSound' /\ Grown /\ Gone /\ \A v \in Users : Held(v)' = Held(v)
  BY <1>2, ChallengeDeleted DEF LoginSpent, At
<1>4. QED
  BY <1>1, <1>3, LoginGoesOn

\* It gives a session to a user who is enabled.
LEMMA LoginIssueSound ==
  ASSUME Sound, NEW r \in Requests, LoginIssue(r)
  PROVE  Sound' /\ Gone /\ NoMore
<1>1. PICK q : q = requests[r]
  OBVIOUS
<1>2. q \in Request /\ Ready(q, challenges, passkeys) /\ q.step = "issue"
  BY <1>1, InFlight DEF LoginIssue, At
<1>3. TablesSound' /\ Grown /\ Gone /\ \A v \in Users : Held(v)' = Held(v)
  <2>1. CASE sessions' = sessions
    BY <2>1, NothingWritten DEF LoginIssue, At, tables, Sound, TablesSound, ChallengesSound
  <2>2. CASE sessions' = Append(sessions, [user |-> q.row.user, passkey |-> q.passkey,
                                           challenge |-> q.challenge])
    <3>1. PICK row : row = [user |-> q.row.user, passkey |-> q.passkey, challenge |-> q.challenge]
      OBVIOUS
    <3>2. q.row \in Passkey /\ q.challenge \in 1..Len(challenges) /\ q.passkey \in 1..Len(passkeys)
          /\ challenges[q.challenge].kind = "auth"
      BY <1>2 DEF Ready, Logins
    <3>3. row \in Session /\ row.challenge = q.challenge
      BY <3>1, <3>2, Tables DEF Session, Passkey
    <3>4. sessions' = Append(sessions, row)
      BY <2>2, <3>1
    <3>5. QED
      BY <3>2, <3>3, <3>4, SessionGiven DEF LoginIssue, At
  <2>3. QED
    BY <1>1, <2>1, <2>2 DEF LoginIssue
<1>4. QED
  BY <1>3, Returns, ReturnsNoMore DEF LoginIssue

\* What renamePasskey and deletePasskey read.
LEMMA OwnPasskeySound ==
  ASSUME Sound, NEW r \in Requests, NEW op, NEW step \in {"rename", "delete"}, NEW u \in Users,
         NEW p \in 1..Len(passkeys), NEW name \in Names \cup {None},
         step = "rename" => name \in Names, OwnPasskey(r, op, step, u, p, name)
  PROVE  Sound' /\ Gone /\ NoMore
<1>1. PICK q : q = [Idle EXCEPT !.step = step, !.user = u, !.passkey = p, !.name = name]
  OBVIOUS
<1>2. p \in Nat
  BY Tables
<1>3. q \in Request /\ q.step = step /\ q.passkey = p /\ q.name = name
  BY <1>1, <1>2 DEF Idle, Request, Steps
<1>4. requests' = [requests EXCEPT ![r] = q]
  BY <1>1 DEF OwnPasskey, Enter
<1>5. TablesSound' /\ Grown /\ Gone /\ \A v \in Users : Held(v)' = Held(v)
  BY NothingWritten DEF OwnPasskey, Call, Sound, TablesSound, ChallengesSound
<1>6. Ready(q, challenges, passkeys)
  BY <1>3 DEF Ready, Registrations, Logins
<1>7. QED
  BY <1>3, <1>4, <1>5, <1>6, Waits, GoesOn, NoneMore

\* The label is written where there is a row, and nothing else of it.
LEMMA RenameWriteSound ==
  ASSUME Sound, NEW r \in Requests, RenameWrite(r)
  PROVE  Sound' /\ Gone /\ NoMore
<1>1. PICK q : q = requests[r]
  OBVIOUS
<1>2. q \in Request /\ Ready(q, challenges, passkeys) /\ q.step = "rename"
  BY <1>1, InFlight DEF RenameWrite, At
<1>3. PICK p : p = q.passkey
  OBVIOUS
<1>4. p \in 1..Len(passkeys) /\ q.name \in Names
  BY <1>2, <1>3 DEF Ready
<1>5. TablesSound' /\ Grown /\ Gone /\ \A u \in Users : Held(u)' \subseteq Held(u)
  <2>1. CASE ~passkeys[p].exists
    BY <1>1, <1>3, <2>1, NothingWritten DEF RenameWrite, At, tables, Sound, TablesSound, ChallengesSound
  <2>2. CASE passkeys[p].exists
    <3>1. PICK old : old = passkeys[p]
      OBVIOUS
    <3>2. PICK row : row = [old EXCEPT !.name = q.name]
      OBVIOUS
    <3>3. old \in Passkey
      BY <1>4, <3>1, RowOf
    <3>4. row \in Passkey /\ MadeFor(row, old) /\ row.exists = old.exists /\ row.name = q.name
      BY <1>4, <3>2, <3>3 DEF Passkey, MadeFor
    <3>5. SetPasskey(p, row) /\ named' = [named EXCEPT ![p] = row.name]
      BY <1>1, <1>3, <2>2, <3>1, <3>2, <3>4 DEF RenameWrite
    <3>6. QED
      BY <1>4, <3>1, <3>4, <3>5, PasskeySet DEF RenameWrite, At
  <2>3. QED
    BY <2>1, <2>2
<1>6. QED
  BY <1>5, Returns, ReturnsNoMore DEF RenameWrite

\* The row is deleted.
LEMMA DeleteWriteSound ==
  ASSUME Sound, NEW r \in Requests, DeleteWrite(r)
  PROVE  Sound' /\ Gone /\ NoMore
<1>1. PICK p : p = requests[r].passkey
  OBVIOUS
<1>2. p \in 1..Len(passkeys)
  BY <1>1, InFlight DEF DeleteWrite, At, Ready
<1>3. PICK old : old = passkeys[p]
  OBVIOUS
<1>4. PICK row : row = [old EXCEPT !.exists = FALSE]
  OBVIOUS
<1>5. old \in Passkey
  BY <1>2, <1>3, RowOf
<1>6. row \in Passkey /\ MadeFor(row, old) /\ ~row.exists /\ row.name = old.name
  BY <1>4, <1>5 DEF Passkey, MadeFor
<1>7. SetPasskey(p, row)
  BY <1>1, <1>3, <1>4 DEF DeleteWrite
<1>8. named' = [named EXCEPT ![p] = row.name]
  BY <1>2, <1>3, <1>6, RowOf DEF DeleteWrite
<1>9. TablesSound' /\ Grown /\ Gone /\ \A u \in Users : Held(u)' \subseteq Held(u)
  BY <1>2, <1>3, <1>6, <1>7, <1>8, PasskeySet DEF DeleteWrite, At
<1>10. QED
  BY <1>9, Returns, ReturnsNoMore DEF DeleteWrite

\* A call ends at any step.
LEMMA StopSound ==
  ASSUME Sound, NEW r \in Requests, Stop(r)
  PROVE  Sound' /\ Gone /\ NoMore
<1>1. TablesSound' /\ Grown /\ Gone /\ \A v \in Users : Held(v)' = Held(v)
  BY NothingWritten DEF Stop, tables, Sound, TablesSound, ChallengesSound
<1>2. QED
  BY <1>1, Returns, ReturnsNoMore DEF Stop

\* Time passes, an account is disabled or enabled, or nothing happens.
LEMMA OthersSound ==
  ASSUME Sound, Tick \/ (\E u \in Users : SetEnabled(u)) \/ UNCHANGED vars
  PROVE  Sound' /\ Gone /\ NoMore
<1>1. now' \in Nat /\ enabled' \subseteq Users /\ UNCHANGED tables /\ UNCHANGED requests
  BY DEF Tick, SetEnabled, vars, tables, Sound, TablesSound, ChallengesSound
<1>2. TablesSound' /\ Grown /\ Gone /\ \A v \in Users : Held(v)' = Held(v)
  BY <1>1, NothingWritten
<1>3. Sound'
  BY <1>1, <1>2, Waits DEF Sound, RequestsSound
<1>4. QED
  BY <1>1, <1>2, <1>3 DEF NoMore, Taken, Fresh, Repeating, Registering

-----------------------------------------------------------------------------
(* Every step.                                                             *)

\* Every step keeps the invariant; only a put brings back what was deleted, and only
\* a count or a put can add to what a user has.
LEMMA StepSound ==
  ASSUME Sound, LimitsAssumption, LagAssumption, [Next]_vars
  PROVE  /\ Sound' /\ Revived
         /\ NoMore \/ \E r \in Requests : RegistrationCount(r) \/ RegistrationPut(r)
<1>1. Gone => Revived
  BY DEF Gone, Revived
<1>2. CASE Tick \/ (\E u \in Users : SetEnabled(u)) \/ UNCHANGED vars
  BY <1>1, <1>2, OthersSound
<1>3. ASSUME NEW r \in Requests, RegistrationPut(r) PROVE Sound' /\ Revived
  BY <1>3, RegistrationPutSound, Zenon DEF Revived
<1>4. ASSUME NEW r \in Requests, Registration(r)
      PROVE  Sound' /\ Revived /\ (NoMore \/ RegistrationCount(r) \/ RegistrationPut(r))
  BY <1>1, <1>3, <1>4, BeginPasskeyRegistrationSound, RegistrationChallengeSound,
     FinishPasskeyRegistrationSound, RegistrationCountSound, DiscardSound DEF Registration
<1>5. ASSUME NEW r \in Requests, Login(r) PROVE Sound' /\ Gone /\ NoMore
  BY <1>5, BeginPasskeyLoginSound, FinishPasskeyLoginSound, LoginCredentialSound, LoginTouchSound,
     LoginSpentSound, LoginIssueSound DEF Login
<1>6. ASSUME NEW r \in Requests, Settings(r) PROVE Sound' /\ Gone /\ NoMore
  BY <1>6, OwnPasskeySound, RenameWriteSound, DeleteWriteSound DEF Settings
<1>7. ASSUME NEW r \in Requests, Stop(r) PROVE Sound' /\ Gone /\ NoMore
  BY <1>7, StopSound
<1>8. QED
  BY <1>1, <1>2, <1>4, <1>5, <1>6, <1>7 DEF Next

\* It holds at the start.
LEMMA InitSound == Init => Sound
<1> SUFFICES ASSUME Init PROVE Sound
  OBVIOUS
<1>1. \A S : <<>> \in Seq(S) /\ Len(<<>>) = 0
  BY EmptySeq
<1>2. ChallengesSound
  BY <1>1 DEF Init, ChallengesSound
<1>3. PasskeysSound
  BY <1>1 DEF Init, PasskeysSound
<1>4. SessionsSound
  BY <1>1 DEF Init, SessionsSound
<1>5. RequestsSound
  <2>1. requests = [r \in Requests |-> Idle]
    BY DEF Init
  <2>2. QED
    BY <2>1, IdleIsReady DEF RequestsSound
<1>6. QED
  BY <1>2, <1>3, <1>4, <1>5 DEF Sound, TablesSound

\* Every state there is: rows, sessions and calls in flight refer to what is there.
THEOREM PasskeysAreSound ==
  ASSUME LimitsAssumption, LagAssumption
  PROVE  Spec => []Sound
<1>1. Sound /\ [Next]_vars => Sound'
  BY StepSound
<1>2. QED
  BY <1>1, InitSound, PTL DEF Spec

-----------------------------------------------------------------------------
(* What follows.                                                           *)

\* Passkeys have the label last given to them: touch and rename each write their
\* own part of the row, whichever row the login had read.
THEOREM LabelsAreKept ==
  ASSUME LimitsAssumption, LagAssumption
  PROVE  Spec => []RenamesKept
<1>1. Sound => RenamesKept
  BY DEF Sound, TablesSound, PasskeysSound, RenamesKept
<1>2. QED
  BY <1>1, PasskeysAreSound, PTL

\* "attribute_exists": neither a touch nor a rename on its way puts back the row of
\* a passkey that was deleted; only a registration with its credential does.
THEOREM DeletedUnlessPutAgain ==
  ASSUME LimitsAssumption, LagAssumption
  PROVE  Spec => DeletedUnlessPut
<1>1. Sound /\ [Next]_vars
        => [\A p \in 1..Len(passkeys) : ~passkeys[p].exists /\ passkeys'[p].exists =>
                \E r \in Requests : /\ requests[r].step = "register"
                                    /\ MadeFor(passkeys[p], requests[r])
                                    /\ passkeys'[p] = NewPasskey(requests[r])]_vars
  BY StepSound DEF Revived
<1>2. QED
  BY <1>1, PasskeysAreSound, PTL DEF Spec, DeletedUnlessPut

\* The clock is within its bound.
InTime == now \in 0..MaxTime

\* The clock stays within its bound.
LEMMA AlwaysInTime ==
  ASSUME MaxTime \in Nat
  PROVE  Spec => []InTime
<1>1. Init => InTime
  BY DEF Init, InTime
<1>2. InTime /\ [Next]_vars => InTime'
  <2> SUFFICES ASSUME InTime, [Next]_vars PROVE InTime'
    OBVIOUS
  <2>1. CASE UNCHANGED now
    BY <2>1 DEF InTime
  <2>2. CASE Tick
    BY <2>2 DEF InTime, Tick
  <2>3. ASSUME NEW u \in Users, SetEnabled(u) PROVE UNCHANGED now
    BY <2>3 DEF SetEnabled
  <2>4. ASSUME NEW r \in Requests, Registration(r) PROVE UNCHANGED now
    BY <2>4, ZenonT(60) DEF Registration, BeginPasskeyRegistration, FinishPasskeyRegistration,
       RegistrationChallenge, RegistrationCount, RegistrationPut, Discard, Call, At
  <2>5. ASSUME NEW r \in Requests, Login(r) PROVE UNCHANGED now
    BY <2>5, ZenonT(60) DEF Login, BeginPasskeyLogin, FinishPasskeyLogin, LoginCredential, LoginTouch,
       LoginSpent, LoginIssue, Call, At
  <2>6. ASSUME NEW r \in Requests, Settings(r) \/ Stop(r) PROVE UNCHANGED now
    BY <2>6 DEF Settings, OwnPasskey, RenameWrite, DeleteWrite, Stop, Call, At
  <2>7. QED
    BY <2>1, <2>2, <2>3, <2>4, <2>5, <2>6 DEF Next, vars
<1>3. QED
  BY <1>1, <1>2, PTL DEF Spec

\* Type correctness: rows of the tables and what calls in flight have read are
\* well formed, and sessions come from challenges to log in with.
THEOREM PasskeysTypeCorrect ==
  ASSUME LimitsAssumption, LagAssumption, MaxTime \in Nat
  PROVE  Spec => []TypeOK
<1>1. Sound /\ InTime => TypeOK
  <2> SUFFICES ASSUME Sound, InTime PROVE TypeOK
    OBVIOUS
  <2>1. \A p \in 1..Len(passkeys) : passkeys[p] \in passSeen[p] /\ named[p] \in Names
    BY Tables DEF Sound, TablesSound, PasskeysSound, Passkey
  <2>2. QED
    BY <2>1 DEF Sound, TablesSound, ChallengesSound, PasskeysSound, SessionsSound, RequestsSound,
       InTime, TypeOK
<1>2. QED
  BY <1>1, AlwaysInTime, PasskeysAreSound, PTL

-----------------------------------------------------------------------------
(* The cap.                                                                *)

\* Whoever's put is still to come has counted before, and one that is repeated puts
\* what it has put.
Capped ==
    \A u \in Users : Cardinality(Taken(u)) + Cardinality(Fresh(u))
                        <= MaxPasskeys + Cardinality(Requests) - 1

\* Passkeys held, and those each of some calls puts again, are not more than those
\* held and the calls.
LEMMA Count ==
  ASSUME IsFiniteSet(Requests), NEW held, IsFiniteSet(held),
         NEW repeating \in SUBSET Requests, NEW fresh \in SUBSET Requests,
         repeating \cap fresh = {}, NEW again, NEW put \in Surjection(repeating, again),
         NEW taken, taken = held \cup again
  PROVE  /\ IsFiniteSet(taken) /\ Cardinality(taken) \in Nat
         /\ IsFiniteSet(fresh) /\ Cardinality(fresh) \in Nat
         /\ Cardinality(held) \in Nat /\ Cardinality(Requests) \in Nat
         /\ Cardinality(held) <= Cardinality(taken)
         /\ Cardinality(taken) + Cardinality(fresh) <= Cardinality(held) + Cardinality(Requests)
<1>1. /\ IsFiniteSet(repeating) /\ IsFiniteSet(fresh)
      /\ Cardinality(repeating \cup fresh) <= Cardinality(Requests)
  <2>1. repeating \cup fresh \in SUBSET Requests
    OBVIOUS
  <2>2. QED
    BY <2>1, FS_Subset
<1>2. /\ Cardinality(repeating) \in Nat /\ Cardinality(fresh) \in Nat
      /\ Cardinality(held) \in Nat /\ Cardinality(Requests) \in Nat
  BY <1>1, FS_CardinalityType
<1>3. Cardinality(repeating) + Cardinality(fresh) <= Cardinality(Requests)
  <2>1. Cardinality(repeating \cup fresh) = Cardinality(repeating) + Cardinality(fresh) - 0
    BY <1>1, FS_Union, FS_EmptySet
  <2>2. QED
    BY <1>1, <1>2, <2>1, SMT
<1>4. IsFiniteSet(again) /\ Cardinality(again) <= Cardinality(repeating) /\ Cardinality(again) \in Nat
  BY <1>1, FS_Surjection, FS_CardinalityType
<1>5. IsFiniteSet(taken) /\ Cardinality(taken) <= Cardinality(held) + Cardinality(again)
  <2>1. /\ IsFiniteSet(taken)
        /\ Cardinality(taken) =
              Cardinality(held) + Cardinality(again) - Cardinality(held \cap again)
    BY <1>4, FS_Union
  <2>2. Cardinality(held \cap again) \in Nat
    <3>1. held \cap again \in SUBSET again
      OBVIOUS
    <3>2. QED
      BY <1>4, <3>1, FS_Subset, FS_CardinalityType
  <2>3. QED
    BY <1>2, <1>4, <2>1, <2>2, SMT
<1>6. Cardinality(taken) \in Nat /\ Cardinality(held) <= Cardinality(taken)
  <2>1. held \in SUBSET taken
    OBVIOUS
  <2>2. QED
    BY <1>5, <2>1, FS_Subset, FS_CardinalityType
<1>7. QED
  BY <1>1, <1>2, <1>3, <1>4, <1>5, <1>6, SMT

\* A user's passkeys are finitely many, and a call that puts one again has only that
\* one on its way.
LEMMA FewTaken ==
  ASSUME Sound, IsFiniteSet(Requests), NEW u
  PROVE  /\ IsFiniteSet(Taken(u)) /\ Cardinality(Taken(u)) \in Nat
         /\ IsFiniteSet(Fresh(u)) /\ Cardinality(Fresh(u)) \in Nat
         /\ Cardinality(Held(u)) \in Nat /\ Cardinality(Requests) \in Nat
         /\ Cardinality(Held(u)) <= Cardinality(Taken(u))
<1>1. Held(u) \in SUBSET (1..Len(passkeys))
  BY DEF Held
<1>2. IsFiniteSet(Held(u))
  <2>1. IsFiniteSet(1..Len(passkeys))
    BY Tables, FS_Interval
  <2>2. QED
    BY <1>1, <2>1, FS_Subset
<1>3. /\ Repeating(u) \in SUBSET Requests /\ Fresh(u) \in SUBSET Requests
      /\ Repeating(u) \cap Fresh(u) = {}
  BY DEF Repeating, Fresh, Registering
<1>4. PICK again : again = {requests[r].passkey : r \in Repeating(u)}
  OBVIOUS
<1>5. PICK put : put = [r \in Repeating(u) |-> requests[r].passkey]
  OBVIOUS
<1>6. put \in Surjection(Repeating(u), again)
  BY <1>4, <1>5 DEF Surjection
<1>7. Taken(u) = Held(u) \cup again
  BY <1>4 DEF Taken
<1>8. QED
  BY <1>2, <1>3, <1>6, <1>7, Count

\* After a step, too.
LEMMA FewTakenNext ==
  ASSUME Sound', IsFiniteSet(Requests), NEW u
  PROVE  /\ Cardinality(Taken(u)') \in Nat /\ Cardinality(Fresh(u)') \in Nat
         /\ Cardinality(Held(u)') \in Nat
         /\ Cardinality(Taken(u)') + Cardinality(Fresh(u)')
                <= Cardinality(Held(u)') + Cardinality(Requests)
<1>1. Held(u)' \in SUBSET (1..Len(passkeys'))
  BY DEF Held
<1>2. IsFiniteSet(Held(u)')
  <2>1. IsFiniteSet(1..Len(passkeys'))
    BY LenProperties, FS_Interval DEF Sound, TablesSound, PasskeysSound
  <2>2. QED
    BY <1>1, <2>1, FS_Subset
<1>3. /\ Repeating(u)' \in SUBSET Requests /\ Fresh(u)' \in SUBSET Requests
      /\ Repeating(u)' \cap Fresh(u)' = {}
  BY DEF Repeating, Fresh, Registering
<1>4. PICK again : again = {requests'[r].passkey : r \in Repeating(u)'}
  OBVIOUS
<1>5. PICK put : put = [r \in Repeating(u)' |-> requests'[r].passkey]
  OBVIOUS
<1>6. put \in Surjection(Repeating(u)', again)
  BY <1>4, <1>5 DEF Surjection
<1>7. Taken(u)' = Held(u)' \cup again
  BY <1>4 DEF Taken
<1>8. QED
  BY <1>2, <1>3, <1>6, <1>7, Count

\* No step takes a user past it.
LEMMA StepCapped ==
  ASSUME Sound, Capped, LimitsAssumption, Lag = FALSE, IsFiniteSet(Requests), [Next]_vars
  PROVE  Capped'
<1> SUFFICES ASSUME NEW u \in Users
             PROVE  Cardinality(Taken(u)') + Cardinality(Fresh(u)')
                        <= MaxPasskeys + Cardinality(Requests) - 1
  BY DEF Capped
<1>1. /\ Sound'
      /\ NoMore \/ \E r \in Requests : RegistrationCount(r) \/ RegistrationPut(r)
  BY StepSound DEF LagAssumption
<1>2. /\ IsFiniteSet(Taken(u)) /\ Cardinality(Taken(u)) \in Nat
      /\ IsFiniteSet(Fresh(u)) /\ Cardinality(Fresh(u)) \in Nat
      /\ Cardinality(Requests) \in Nat
  BY FewTaken
<1>3. /\ Cardinality(Taken(u)') \in Nat /\ Cardinality(Fresh(u)') \in Nat
      /\ Cardinality(Held(u)') \in Nat
      /\ Cardinality(Taken(u)') + Cardinality(Fresh(u)')
            <= Cardinality(Held(u)') + Cardinality(Requests)
  BY <1>1, FewTakenNext
<1>4. MaxPasskeys \in Nat
  BY DEF LimitsAssumption
<1>5. Cardinality(Taken(u)) + Cardinality(Fresh(u)) <= MaxPasskeys + Cardinality(Requests) - 1
  BY DEF Capped
<1>6. CASE Taken(u)' \subseteq Taken(u) /\ Fresh(u)' \subseteq Fresh(u)
  <2>1. /\ Cardinality(Taken(u)') <= Cardinality(Taken(u))
        /\ Cardinality(Fresh(u)') <= Cardinality(Fresh(u))
    BY <1>2, <1>6, FS_Subset
  <2>2. QED
    BY <1>2, <1>3, <1>4, <1>5, <2>1, SMT
<1>7. ASSUME NEW r \in Requests, RegistrationCount(r)
      PROVE  Cardinality(Taken(u)') + Cardinality(Fresh(u)')
                <= MaxPasskeys + Cardinality(Requests) - 1
  <2>1. PICK step \in {"register", "discard"}, counted \in Indexed(requests[r].user) :
            /\ step = "register" => Cardinality(counted) < MaxPasskeys
            /\ \A p \in Requests : requests'[p].step = IF p = r THEN step ELSE requests[p].step
            /\ \A p \in Requests : /\ requests'[p].user = requests[p].user
                                   /\ requests'[p].passkey = requests[p].passkey
    BY <1>7, RegistrationCountSound
  <2>2. Held(u)' = Held(u) /\ requests[r].passkey = 0
    BY <1>7, RegistrationCountSound
  <2>3. CASE step = "register" /\ requests[r].user = u
    <3>1. counted = Held(u)
      BY <2>1, <2>3 DEF Indexed
    <3>2. Cardinality(Held(u)') < MaxPasskeys
      BY <2>1, <2>2, <2>3, <3>1
    <3>3. QED
      BY <1>2, <1>3, <1>4, <3>2, SMT
  <2>4. CASE step = "discard" \/ requests[r].user # u
    <3>1. Fresh(u)' \subseteq Fresh(u) /\ Repeating(u)' \subseteq Repeating(u)
      BY <2>1, <2>2, <2>4 DEF Fresh, Repeating, Registering
    <3>2. \A p \in Repeating(u)' : requests'[p].passkey = requests[p].passkey
      BY <2>1 DEF Repeating, Registering
    <3>3. Taken(u)' \subseteq Taken(u)
      BY <2>2, <3>1, <3>2 DEF Taken
    <3>4. QED
      BY <1>6, <3>1, <3>3
  <2>5. QED
    BY <2>1, <2>3, <2>4
<1>8. ASSUME NEW r \in Requests, RegistrationPut(r)
      PROVE  Cardinality(Taken(u)') + Cardinality(Fresh(u)')
                <= MaxPasskeys + Cardinality(Requests) - 1
  <2>1. PICK p : /\ requests[r].passkey # 0 => p \in Taken(requests[r].user)
                 /\ Taken(u)' \subseteq Taken(u) \cup (IF u = requests[r].user THEN {p} ELSE {})
                 /\ Fresh(u)' \subseteq Fresh(u) \ {r}
    BY <1>8, RegistrationPutSound
  <2>2. CASE requests[r].user = u /\ requests[r].passkey = 0
    <3>1. r \in Fresh(u)
      BY <1>8, <2>2, RegistrationPutSound DEF Fresh, Registering
    <3>2. /\ IsFiniteSet(Fresh(u) \ {r})
          /\ Cardinality(Fresh(u) \ {r}) = Cardinality(Fresh(u)) - 1
      BY <1>2, <3>1, FS_RemoveElement
    <3>3. Cardinality(Fresh(u)') <= Cardinality(Fresh(u)) - 1
      BY <2>1, <3>2, FS_Subset
    <3>4. PICK put : put = Taken(u) \cup {p}
      OBVIOUS
    <3>5. IsFiniteSet(put) /\ Cardinality(put) \in Nat /\ Cardinality(put) <= Cardinality(Taken(u)) + 1
      <4>1. /\ IsFiniteSet(put)
            /\ Cardinality(put) = IF p \in Taken(u) THEN Cardinality(Taken(u))
                                                    ELSE Cardinality(Taken(u)) + 1
        BY <1>2, <3>4, FS_AddElement
      <4>2. QED
        BY <1>2, <4>1, SMT
    <3>6. Taken(u)' \subseteq put
      BY <2>1, <3>4
    <3>7. Cardinality(Taken(u)') <= Cardinality(put)
      BY <3>5, <3>6, FS_Subset
    <3>8. QED
      BY <1>2, <1>3, <1>4, <1>5, <3>3, <3>5, <3>7, SMT
  <2>3. CASE requests[r].user # u \/ requests[r].passkey # 0
    <3>1. Taken(u)' \subseteq Taken(u) /\ Fresh(u)' \subseteq Fresh(u)
      BY <2>1, <2>3
    <3>2. QED
      BY <1>6, <3>1
  <2>4. QED
    BY <2>2, <2>3
<1>9. QED
  BY <1>1, <1>6, <1>7, <1>8 DEF NoMore

\* finish_passkey_registration's second look at the cap, from an index that is up
\* to date: however many challenges are outstanding and devices answer, and whatever
\* is put again, only registrations whose own counts and puts overlap exceed it.
THEOREM OnlyOverlapsPassTheCap ==
  ASSUME LimitsAssumption, Lag = FALSE, IsFiniteSet(Requests)
  PROVE  Spec => []CapAlmostHolds
<1>1. Init => Capped
  <2> SUFFICES ASSUME Init, NEW u \in Users
               PROVE  Cardinality(Taken(u)) + Cardinality(Fresh(u))
                        <= MaxPasskeys + Cardinality(Requests) - 1
    BY DEF Capped
  <2>1. Held(u) = {}
    BY DEF Init, Held
  <2>2. \A r \in Requests : requests[r].step = "idle"
    BY IdleIsReady DEF Init
  <2>3. Fresh(u) = {} /\ Taken(u) = {}
    BY <2>1, <2>2 DEF Fresh, Taken, Repeating, Registering
  <2>4. Cardinality(Taken(u)) = 0 /\ Cardinality(Fresh(u)) = 0
    BY <2>3, FS_EmptySet
  <2>5. Cardinality(Requests) \in Nat
    BY FS_CardinalityType
  <2>6. QED
    BY <2>4, <2>5, SMT DEF LimitsAssumption
<1>2. Sound /\ Capped /\ [Next]_vars => Capped'
  BY StepCapped
<1>3. Sound /\ Capped => CapAlmostHolds
  <2> SUFFICES ASSUME Sound, Capped, NEW u \in Users
               PROVE  Cardinality(Held(u)) <= MaxPasskeys + Cardinality(Requests) - 1
    BY DEF CapAlmostHolds
  <2>1. /\ Cardinality(Held(u)) \in Nat /\ Cardinality(Taken(u)) \in Nat
        /\ Cardinality(Fresh(u)) \in Nat /\ Cardinality(Requests) \in Nat
        /\ Cardinality(Held(u)) <= Cardinality(Taken(u))
    BY FewTaken
  <2>2. Cardinality(Taken(u)) + Cardinality(Fresh(u))
            <= MaxPasskeys + Cardinality(Requests) - 1
    BY DEF Capped
  <2>3. QED
    BY <2>1, <2>2, SMT DEF LimitsAssumption
<1>4. LagAssumption
  BY DEF LagAssumption
<1>5. QED
  BY <1>1, <1>2, <1>3, <1>4, PasskeysAreSound, PTL DEF Spec
=============================================================================
