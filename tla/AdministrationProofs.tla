------------------------ MODULE AdministrationProofs ------------------------
(***************************************************************************)
(* Proofs about Administration, for every value of its constants: what the *)
(* rows, their histories and the calls in flight have to do with each      *)
(* other, and what follows for memberships and inbound addresses.          *)
(***************************************************************************)
EXTENDS Administration, SequenceTheorems, TLAPS

-----------------------------------------------------------------------------
(* The inductive invariant.                                                *)

UsersTyped == users \in Seq(User)

InstancesTyped ==
    /\ instances \in Seq(Instance) /\ instancesSeen \in Seq(SUBSET Instance)
    /\ Len(instancesSeen) = Len(instances)

\* Any read of an instance's kind will do.
KindsSeen ==
    \A i \in 1..Len(instances) : \A read \in instancesSeen[i] : read.kind = instances[i].kind

PublicIsSupport ==
    \A i \in 1..Len(instances) :
        instances[i].public_submission_enabled => instances[i].kind = "support"

InstancesSound == InstancesTyped /\ KindsSeen /\ PublicIsSupport

AddressesSound ==
    /\ addresses \in [Addresses -> 0..Len(instances)]
    /\ \A a \in Addresses : addresses[a] # 0 => instances[addresses[a]].kind = "support"

Parts == [role : Roles, settings : [Settings -> BOOLEAN]]

MembershipsTyped ==
    /\ memberships \in Seq(Membership) /\ wrote \in Seq(Parts)
    /\ Len(wrote) = Len(memberships)

\* Memberships are of users and instances there are.
MembershipsRefer ==
    \A m \in 1..Len(memberships) :
        memberships[m].user \in 1..Len(users) /\ memberships[m].instance \in 1..Len(instances)

DismissedRefer == \A d \in dismissed : d.row \in 1..Len(memberships)

MembershipsSound ==
    /\ MembershipsTyped /\ MembershipsRefer /\ DismissedRefer
    /\ PartsAreKept /\ DismissedAreOut

InstanceSteps == {"instanceUpdate", "deletedWrite", "memberPut", "addressCheck", "addressPut"}
UserSteps == {"emailCheck", "emailWrite", "fieldsWrite", "userDisable", "memberPut"}
MemberWrites == {"removeMember", "setMemberRole", "updateNotificationSettings"}

\* A call refers to rows there are.  One that makes an instance public, or maps an
\* address, does so to one for support.
Refers(q, us, is, ms) ==
    /\ q.step = "instancePut" => q.slug \in Slugs /\ (q.flag => q.kind = "support")
    /\ q.step \in InstanceSteps => q.instance \in 1..Len(is)
    /\ q.step = "instanceUpdate" /\ q.flag => is[q.instance].kind = "support"
    /\ q.step \in {"addressCheck", "addressPut"} => is[q.instance].kind = "support"
    /\ q.step \in {"addressCheck", "addressPut", "addressDelete"} => q.address \in Addresses
    /\ q.step \in {"userPut", "emailCheck", "emailWrite"} => q.email \in Emails
    /\ q.step \in UserSteps => q.user \in 1..Len(us)
    /\ q.step = "memberWrite" => q.row \in 1..Len(ms) /\ q.op \in MemberWrites

\* deleteUser, before it lists the user's memberships: one that was listed when it
\* was called is still listed if it is still there.  After: it is still to delete.
Owes(q, ms) ==
    /\ q.step \in {"userDisable", "userMemberships"} =>
         \A d \in q.owed :
            /\ d.row \in 1..Len(ms) /\ ms[d.row].user = q.user
            /\ d.shown /\ ms[d.row].exists => ms[d.row].shown
    /\ q.step = "membershipDelete" =>
         /\ q.left \subseteq 1..Len(ms)
         /\ \A d \in q.owed :
               d.row \in 1..Len(ms) /\ (d.shown /\ ms[d.row].exists => d.row \in q.left)

Ready(q, us, is, ms) == Refers(q, us, is, ms) /\ Owes(q, ms)

RequestsReady ==
    /\ requests \in [Requests -> Request]
    /\ \A r \in Requests : Ready(requests[r], users, instances, memberships)

Consistent ==
    /\ UsersTyped /\ InstancesSound /\ AddressesSound /\ MembershipsSound /\ RequestsReady

-----------------------------------------------------------------------------
(* What a step may do to the rows that calls in flight refer to.           *)

Longer(s, t) == Len(s) \in Nat /\ Len(t) \in Nat /\ Len(s) <= Len(t)

\* Instances keep their kind.
InstancesKept(is, js) == Longer(is, js) /\ \A i \in 1..Len(is) : js[i].kind = is[i].kind

\* Memberships keep their user and instance, are never put back, and as long as
\* they are there stay listed once they are.
MembershipsKept(ms, ns) ==
    /\ Longer(ms, ns)
    /\ \A m \in 1..Len(ms) :
         /\ ns[m].user = ms[m].user /\ ns[m].instance = ms[m].instance
         /\ ~ms[m].exists => ~ns[m].exists
         /\ ms[m].shown /\ ns[m].exists => ns[m].shown

Kept ==
    /\ Longer(users, users') /\ InstancesKept(instances, instances')
    /\ MembershipsKept(memberships, memberships')

\* What a call in flight needs of the rows survives such a step.
LEMMA ReadyKept ==
  ASSUME NEW us, NEW vs, NEW is, NEW js, NEW ms, NEW ns, NEW q,
         Longer(us, vs), InstancesKept(is, js), MembershipsKept(ms, ns), Ready(q, us, is, ms)
  PROVE  Ready(q, vs, js, ns)
<1>1. Refers(q, vs, js, ns)
  BY SMT DEF Longer, InstancesKept, MembershipsKept, Ready, Refers, InstanceSteps, UserSteps
<1>2. Owes(q, ns)
  <2>1. \A m \in 1..Len(ms) : m \in 1..Len(ns)
    BY SMT DEF MembershipsKept, Longer
  <2>2. QED
    BY <2>1 DEF MembershipsKept, Ready, Owes
<1>3. QED
  BY <1>1, <1>2 DEF Ready

\* A sequence that is typed has a length.
LEMMA SameLonger ==
  ASSUME NEW S, NEW s \in Seq(S)
  PROVE  Longer(s, s)
BY LenProperties, SMT DEF Longer

\* Whatever is left alone is kept.
LEMMA UsersLeft ==
  ASSUME Consistent, UNCHANGED users
  PROVE  UsersTyped' /\ Longer(users, users')
BY SameLonger DEF Consistent, UsersTyped

LEMMA InstancesLeft ==
  ASSUME Consistent, UNCHANGED <<instances, instancesSeen>>
  PROVE  InstancesSound' /\ InstancesKept(instances, instances')
<1>1. InstancesKept(instances, instances)
  BY SameLonger DEF Consistent, InstancesSound, InstancesTyped, InstancesKept
<1>2. QED
  BY <1>1 DEF Consistent, InstancesSound, InstancesTyped, KindsSeen, PublicIsSupport

LEMMA AddressesLeft ==
  ASSUME Consistent, InstancesKept(instances, instances'), UNCHANGED addresses
  PROVE  AddressesSound'
<1>1. \A i \in 0..Len(instances) : i \in 0..Len(instances')
  BY SMT DEF InstancesKept, Longer
<1>2. addresses \in [Addresses -> 0..Len(instances')]
  BY <1>1 DEF Consistent, AddressesSound
<1>3. ASSUME NEW a \in Addresses, addresses[a] # 0
      PROVE  instances'[addresses[a]].kind = "support"
  <2>1. addresses[a] \in 1..Len(instances)
    BY <1>3, SMT DEF Consistent, AddressesSound, InstancesKept, Longer
  <2>2. QED
    BY <1>3, <2>1 DEF Consistent, AddressesSound, InstancesKept
<1>4. QED
  BY <1>2, <1>3 DEF AddressesSound

LEMMA MembershipsSame ==
  ASSUME Consistent, UNCHANGED memberships
  PROVE  MembershipsKept(memberships, memberships')
BY SameLonger DEF Consistent, MembershipsSound, MembershipsTyped, MembershipsKept

LEMMA MembershipsReferStill ==
  ASSUME Consistent, Longer(users, users'), InstancesKept(instances, instances'),
         UNCHANGED memberships
  PROVE  MembershipsRefer'
BY SMT DEF Consistent, MembershipsSound, MembershipsRefer, Longer, InstancesKept

LEMMA MembershipsLeft ==
  ASSUME Consistent, Longer(users, users'), InstancesKept(instances, instances'),
         UNCHANGED membershipVars
  PROVE  MembershipsSound' /\ MembershipsKept(memberships, memberships')
<1>1. MembershipsKept(memberships, memberships') /\ MembershipsRefer'
  BY MembershipsSame, MembershipsReferStill DEF membershipVars
<1>2. QED
  BY <1>1 DEF Consistent, MembershipsSound, MembershipsTyped, DismissedRefer, PartsAreKept,
              DismissedAreOut, membershipVars

-----------------------------------------------------------------------------
(* What a step does to the calls in flight.                                *)

\* The tables are sound after the step, and nothing a call refers to was moved.
TablesSound ==
    /\ Kept
    /\ UsersTyped' /\ InstancesSound' /\ AddressesSound' /\ MembershipsSound'

\* The patch of a call that has none.
LEMMA NoPatch == [s \in {} |-> FALSE] \in Patch
<1>1. [s \in {} |-> FALSE] \in [{} -> BOOLEAN] /\ {} \in SUBSET Settings
  OBVIOUS
<1>2. QED
  BY <1>1 DEF Patch

\* An invocation that is not running refers to nothing.
LEMMA IdleIsReady ==
  ASSUME NEW us, NEW is, NEW ms
  PROVE  Idle \in Request /\ Ready(Idle, us, is, ms)
<1>1. Idle \in Request
  BY NoPatch, SMT DEF Idle, Request, Steps, Roles
<1>2. Ready(Idle, us, is, ms)
  BY SMT DEF Idle, Ready, Refers, Owes, InstanceSteps, UserSteps
<1>3. QED
  BY <1>1, <1>2

\* One call goes on, the others wait.
LEMMA OneGoesOn ==
  ASSUME Consistent, TablesSound, NEW r \in Requests, NEW q \in Request, Enter(r, q),
         Ready(q, users', instances', memberships')
  PROVE  Consistent' /\ Kept
<1>1. requests' \in [Requests -> Request]
  BY DEF Consistent, RequestsReady, Enter
<1>2. ASSUME NEW p \in Requests PROVE Ready(requests'[p], users', instances', memberships')
  <2>1. requests'[p] = IF p = r THEN q ELSE requests[p]
    BY DEF Consistent, RequestsReady, Enter
  <2>2. Ready(requests[p], users', instances', memberships')
    BY ReadyKept DEF Consistent, RequestsReady, TablesSound, Kept
  <2>3. QED
    BY <2>1, <2>2
<1>3. QED
  BY <1>1, <1>2 DEF RequestsReady, Consistent, TablesSound

\* All wait.
LEMMA AllWait ==
  ASSUME Consistent, TablesSound, UNCHANGED requests
  PROVE  Consistent' /\ Kept
<1>1. ASSUME NEW p \in Requests PROVE Ready(requests[p], users', instances', memberships')
  BY ReadyKept DEF Consistent, RequestsReady, TablesSound, Kept
<1>2. QED
  BY <1>1 DEF Consistent, RequestsReady, TablesSound

\* One call ends.
LEMMA OneReturns ==
  ASSUME Consistent, TablesSound, NEW r \in Requests, Return(r)
  PROVE  Consistent' /\ Kept
BY IdleIsReady, OneGoesOn DEF Return, Enter

\* One call goes on with what it has.
LEMMA OneContinues ==
  ASSUME Consistent, TablesSound, NEW r \in Requests, NEW step \in Steps, Goto(r, step),
         Ready([requests[r] EXCEPT !.step = step], users', instances', memberships')
  PROVE  Consistent' /\ Kept
<1> DEFINE q == [requests[r] EXCEPT !.step = step]
<1>1. requests[r] \in Request
  BY DEF Consistent, RequestsReady
<1>2. q \in Request
  BY <1>1, SMT DEF Request
<1>3. Enter(r, q)
  BY DEF Goto, Enter
<1>4. QED
  BY <1>2, <1>3, OneGoesOn

\* A call that has only read goes on with what it read.
LEMMA NothingWritten ==
  ASSUME Consistent, UNCHANGED <<userVars, instances, instancesSeen, membershipVars, addressVars>>
  PROVE  TablesSound
<1>1. UsersTyped' /\ Longer(users, users')
  BY UsersLeft DEF userVars
<1>2. InstancesSound' /\ InstancesKept(instances, instances')
  BY InstancesLeft
<1>3. AddressesSound'
  BY <1>2, AddressesLeft DEF addressVars
<1>4. MembershipsSound' /\ MembershipsKept(memberships, memberships')
  BY <1>1, <1>2, MembershipsLeft
<1>5. QED
  BY <1>1, <1>2, <1>3, <1>4 DEF TablesSound, Kept

LEMMA ReadConsistent ==
  ASSUME Consistent, NEW r \in Requests, NEW q \in Request, Enter(r, q),
         UNCHANGED <<userVars, instances, instancesSeen, membershipVars, addressVars>>,
         Ready(q, users, instances, memberships)
  PROVE  Consistent' /\ Kept
BY NothingWritten, OneGoesOn DEF userVars, membershipVars

-----------------------------------------------------------------------------
(* What each write does to the tables.                                     *)

\* One element of a sequence is replaced.
LEMMA Replaced ==
  ASSUME NEW S, NEW s \in Seq(S), NEW t, NEW n \in 1..Len(s), NEW e \in S, t = [s EXCEPT ![n] = e]
  PROVE  /\ t \in Seq(S) /\ Len(t) = Len(s) /\ Longer(s, t)
         /\ \A m \in 1..Len(s) : t[m] = IF m = n THEN e ELSE s[m]
<1>1. /\ t \in Seq(S) /\ Len(t) = Len(s)
      /\ \A m \in 1..Len(s) : t[m] = IF m = n THEN e ELSE s[m]
  BY ExceptSeq
<1>2. QED
  BY <1>1, LenProperties, SMT DEF Longer

\* One element is added.
LEMMA Added ==
  ASSUME NEW S, NEW s \in Seq(S), NEW t, NEW e \in S, t = Append(s, e)
  PROVE  /\ t \in Seq(S) /\ Len(t) = Len(s) + 1 /\ Len(s) \in Nat /\ Longer(s, t)
         /\ \A m \in 1..Len(s) : t[m] = s[m]
         /\ t[Len(s) + 1] = e
         /\ \A m \in 1..Len(t) : m \in 1..Len(s) \/ m = Len(s) + 1
<1>1. /\ t \in Seq(S) /\ Len(t) = Len(s) + 1
      /\ \A m \in 1..Len(s) : t[m] = s[m]
      /\ t[Len(s) + 1] = e
  BY AppendProperties
<1>2. Len(s) \in Nat
  BY LenProperties
<1>3. QED
  BY <1>1, <1>2, SMT DEF Longer

\* Users are written; instances, addresses and memberships are not.
LEMMA UsersWritten ==
  ASSUME Consistent, UsersTyped', Longer(users, users'),
         UNCHANGED <<instances, instancesSeen, membershipVars, addressVars>>
  PROVE  TablesSound
<1>1. InstancesSound' /\ InstancesKept(instances, instances')
  BY InstancesLeft
<1>2. AddressesSound'
  BY <1>1, AddressesLeft DEF addressVars
<1>3. MembershipsSound' /\ MembershipsKept(memberships, memberships')
  BY <1>1, MembershipsLeft
<1>4. QED
  BY <1>1, <1>2, <1>3 DEF TablesSound, Kept

LEMMA UserReplaced ==
  ASSUME Consistent, NEW u \in 1..Len(users), NEW row \in User, users' = [users EXCEPT ![u] = row],
         UNCHANGED <<instances, instancesSeen, membershipVars, addressVars>>
  PROVE  TablesSound
<1>1. users' \in Seq(User) /\ Longer(users, users')
  BY Replaced DEF Consistent, UsersTyped
<1>2. QED
  BY <1>1, UsersWritten DEF UsersTyped

LEMMA UserAdded ==
  ASSUME Consistent, NEW row \in User, users' = Append(users, row),
         UNCHANGED <<instances, instancesSeen, membershipVars, addressVars>>
  PROVE  TablesSound
<1>1. users' \in Seq(User) /\ Longer(users, users')
  BY Added DEF Consistent, UsersTyped
<1>2. QED
  BY <1>1, UsersWritten DEF UsersTyped

LEMMA UserTyped ==
  ASSUME Consistent, NEW u \in 1..Len(users)
  PROVE  users[u] \in User
BY ElementOfSeq DEF Consistent, UsersTyped

\* Instances are written; users, addresses and memberships are not.
LEMMA InstancesWritten ==
  ASSUME Consistent, InstancesSound', InstancesKept(instances, instances'),
         UNCHANGED <<users, membershipVars, addresses>>
  PROVE  TablesSound
<1>1. UsersTyped' /\ Longer(users, users')
  BY UsersLeft
<1>2. AddressesSound'
  BY AddressesLeft
<1>3. MembershipsSound' /\ MembershipsKept(memberships, memberships')
  BY <1>1, MembershipsLeft
<1>4. QED
  BY <1>1, <1>2, <1>3 DEF TablesSound, Kept

LEMMA InstanceTyped ==
  ASSUME Consistent, NEW i \in 1..Len(instances)
  PROVE  instances[i] \in Instance /\ instancesSeen[i] \in SUBSET Instance
BY ElementOfSeq DEF Consistent, InstancesSound, InstancesTyped

\* A row of an instance is written, with its kind, and noted or not among those
\* it has had.
LEMMA InstanceReplaced ==
  ASSUME Consistent, NEW i \in 1..Len(instances), NEW row \in Instance,
         row.kind = instances[i].kind,
         row.public_submission_enabled => row.kind = "support",
         instances' = [instances EXCEPT ![i] = row],
         \/ UNCHANGED instancesSeen
         \/ instancesSeen' = [instancesSeen EXCEPT ![i] = @ \cup {row}],
         UNCHANGED <<users, membershipVars, addresses>>
  PROVE  TablesSound
<1>1. /\ instances' \in Seq(Instance) /\ Len(instances') = Len(instances)
      /\ Longer(instances, instances')
      /\ \A j \in 1..Len(instances) : instances'[j] = IF j = i THEN row ELSE instances[j]
  <2>1. instances \in Seq(Instance)
    BY DEF Consistent, InstancesSound, InstancesTyped
  <2>2. Longer(instances, instances')
    BY <2>1, Replaced
  <2>3. QED
    BY <2>1, <2>2, Replaced
<1>2. InstancesKept(instances, instances')
  BY <1>1 DEF InstancesKept
<1>3. PublicIsSupport'
  BY <1>1 DEF Consistent, InstancesSound, PublicIsSupport
<1>4. /\ instancesSeen' \in Seq(SUBSET Instance) /\ Len(instancesSeen') = Len(instances)
      /\ \A j \in 1..Len(instances) : \A read \in instancesSeen'[j] :
            read \in instancesSeen[j] \/ (j = i /\ read = row)
  <2>1. /\ instancesSeen \in Seq(SUBSET Instance) /\ Len(instancesSeen) = Len(instances)
    BY DEF Consistent, InstancesSound, InstancesTyped
  <2>2. CASE UNCHANGED instancesSeen
    BY <2>1, <2>2
  <2>3. CASE instancesSeen' = [instancesSeen EXCEPT ![i] = @ \cup {row}]
    <3>1. PICK seen \in SUBSET Instance : seen = instancesSeen[i] \cup {row}
      BY InstanceTyped
    <3>2. instancesSeen' = [instancesSeen EXCEPT ![i] = seen]
      BY <2>3, <3>1
    <3>3. /\ instancesSeen' \in Seq(SUBSET Instance) /\ Len(instancesSeen') = Len(instances)
          /\ \A j \in 1..Len(instances) :
                instancesSeen'[j] = IF j = i THEN seen ELSE instancesSeen[j]
      BY <2>1, <3>2, Replaced
    <3>4. QED
      BY <3>1, <3>3
  <2>4. QED
    BY <2>2, <2>3
<1>5. KindsSeen'
  BY <1>1, <1>4 DEF Consistent, InstancesSound, KindsSeen
<1>6. InstancesSound'
  BY <1>1, <1>3, <1>4, <1>5 DEF InstancesSound, InstancesTyped
<1>7. QED
  BY <1>2, <1>6, InstancesWritten

LEMMA InstanceAdded ==
  ASSUME Consistent, NEW row \in Instance, row.public_submission_enabled => row.kind = "support",
         instances' = Append(instances, row), instancesSeen' = Append(instancesSeen, {row}),
         UNCHANGED <<users, membershipVars, addresses>>
  PROVE  TablesSound
<1>1. /\ instances' \in Seq(Instance) /\ Len(instances') = Len(instances) + 1
      /\ Longer(instances, instances')
      /\ \A j \in 1..Len(instances) : instances'[j] = instances[j]
      /\ instances'[Len(instances) + 1] = row
      /\ \A j \in 1..Len(instances') : j \in 1..Len(instances) \/ j = Len(instances) + 1
  <2>1. instances \in Seq(Instance)
    BY DEF Consistent, InstancesSound, InstancesTyped
  <2>2. Longer(instances, instances')
    BY <2>1, Added
  <2>3. QED
    BY <2>1, <2>2, Added
<1>2. PICK seen \in SUBSET Instance : seen = {row}
  OBVIOUS
<1>3. /\ instancesSeen' \in Seq(SUBSET Instance) /\ Len(instancesSeen') = Len(instances')
      /\ \A j \in 1..Len(instances) : instancesSeen'[j] = instancesSeen[j]
      /\ instancesSeen'[Len(instances) + 1] = seen
  BY <1>1, <1>2, Added DEF Consistent, InstancesSound, InstancesTyped
<1>4. InstancesKept(instances, instances')
  BY <1>1 DEF InstancesKept
<1>5. PublicIsSupport'
  BY <1>1 DEF Consistent, InstancesSound, PublicIsSupport
<1>6. KindsSeen'
  BY <1>1, <1>2, <1>3 DEF Consistent, InstancesSound, KindsSeen
<1>7. InstancesSound'
  BY <1>1, <1>3, <1>5, <1>6 DEF InstancesSound, InstancesTyped
<1>8. QED
  BY <1>4, <1>7, InstancesWritten

\* An address is mapped to an instance for support, or to none.
LEMMA AddressSet ==
  ASSUME Consistent, NEW a \in Addresses, NEW i \in 0..Len(instances),
         i # 0 => instances[i].kind = "support", SetAddress(a, i),
         UNCHANGED <<users, instances, instancesSeen, membershipVars>>
  PROVE  TablesSound
<1>1. addresses' \in [Addresses -> 0..Len(instances)]
  BY DEF SetAddress, Consistent, AddressesSound
<1>2. \A b \in Addresses : addresses'[b] = IF b = a THEN i ELSE addresses[b]
  BY DEF SetAddress, Consistent, AddressesSound
<1>3. AddressesSound'
  BY <1>1, <1>2 DEF Consistent, AddressesSound
<1>4. UsersTyped' /\ Longer(users, users')
  BY UsersLeft
<1>5. InstancesSound' /\ InstancesKept(instances, instances')
  BY InstancesLeft
<1>6. MembershipsSound' /\ MembershipsKept(memberships, memberships')
  BY <1>4, <1>5, MembershipsLeft
<1>7. QED
  BY <1>3, <1>4, <1>5, <1>6 DEF TablesSound, Kept

-----------------------------------------------------------------------------
(* What each write does to the memberships.                                *)

LEMMA MembershipTyped ==
  ASSUME Consistent, NEW m \in 1..Len(memberships)
  PROVE  /\ memberships[m] \in Membership /\ wrote[m] \in Parts
         /\ memberships[m].role = wrote[m].role /\ memberships[m].settings = wrote[m].settings
<1>1. memberships[m] \in Membership /\ wrote[m] \in Parts
  BY ElementOfSeq DEF Consistent, MembershipsSound, MembershipsTyped
<1>2. QED
  BY <1>1 DEF Consistent, MembershipsSound, PartsAreKept

\* Memberships are written; users, instances and addresses are not.
LEMMA MembershipsWritten ==
  ASSUME Consistent, MembershipsSound', MembershipsKept(memberships, memberships'),
         UNCHANGED <<users, instances, instancesSeen, addresses>>
  PROVE  TablesSound
<1>1. UsersTyped' /\ Longer(users, users')
  BY UsersLeft
<1>2. InstancesSound' /\ InstancesKept(instances, instances')
  BY InstancesLeft
<1>3. AddressesSound'
  BY <1>2, AddressesLeft
<1>4. QED
  BY <1>1, <1>2, <1>3 DEF TablesSound, Kept

\* A row is written, with what its history says was written to its parts.
LEMMA MembershipReplaced ==
  ASSUME Consistent, NEW m \in 1..Len(memberships), NEW row \in Membership, NEW parts \in Parts,
         row.user = memberships[m].user, row.instance = memberships[m].instance,
         ~memberships[m].exists => ~row.exists,
         memberships[m].shown /\ row.exists => row.shown,
         row.role = parts.role, row.settings = parts.settings,
         memberships' = [memberships EXCEPT ![m] = row],
         wrote' = [wrote EXCEPT ![m] = parts],
         UNCHANGED <<users, instances, instancesSeen, addresses, dismissed>>
  PROVE  TablesSound
<1>1. /\ memberships' \in Seq(Membership) /\ Len(memberships') = Len(memberships)
      /\ Longer(memberships, memberships')
      /\ \A n \in 1..Len(memberships) : memberships'[n] = IF n = m THEN row ELSE memberships[n]
  <2>1. memberships \in Seq(Membership)
    BY DEF Consistent, MembershipsSound, MembershipsTyped
  <2>2. Longer(memberships, memberships')
    BY <2>1, Replaced
  <2>3. QED
    BY <2>1, <2>2, Replaced
<1>2. /\ wrote \in Seq(Parts) /\ Len(wrote) = Len(memberships)
  BY DEF Consistent, MembershipsSound, MembershipsTyped
<1>3. /\ wrote' \in Seq(Parts) /\ Len(wrote') = Len(memberships)
      /\ \A n \in 1..Len(memberships) : wrote'[n] = IF n = m THEN parts ELSE wrote[n]
  BY <1>2, Replaced
<1>4. MembershipsKept(memberships, memberships')
  BY <1>1 DEF MembershipsKept
<1>5. MembershipsTyped'
  BY <1>1, <1>3 DEF MembershipsTyped
<1>6. MembershipsRefer'
  BY <1>1 DEF Consistent, MembershipsSound, MembershipsRefer
<1>7. DismissedRefer' /\ DismissedAreOut'
  BY <1>1 DEF Consistent, MembershipsSound, DismissedRefer, DismissedAreOut
<1>8. PartsAreKept'
  BY <1>1, <1>3 DEF Consistent, MembershipsSound, PartsAreKept
<1>9. QED
  BY <1>4, <1>5, <1>6, <1>7, <1>8, MembershipsWritten DEF MembershipsSound

\* The parts that were written are those that were already there.
LEMMA SameParts ==
  ASSUME Consistent, NEW m \in 1..Len(memberships)
  PROVE  wrote = [wrote EXCEPT ![m] = wrote[m]]
<1>1. wrote \in [1..Len(wrote) -> Parts]
  BY LenProperties DEF Consistent, MembershipsSound, MembershipsTyped
<1>2. QED
  BY <1>1

\* A membership is deleted: nothing else of its row changes.
LEMMA MembershipDeleted ==
  ASSUME Consistent, NEW m \in 1..Len(memberships),
         memberships' = [memberships EXCEPT ![m].exists = FALSE],
         UNCHANGED <<users, instances, instancesSeen, addresses, wrote, dismissed>>
  PROVE  TablesSound
<1>1. PICK old \in Membership, parts \in Parts :
        /\ old = memberships[m] /\ parts = wrote[m]
        /\ old.role = parts.role /\ old.settings = parts.settings
  BY MembershipTyped
<1>2. PICK row : row = [old EXCEPT !.exists = FALSE]
  OBVIOUS
<1>3. row \in Membership
  BY <1>2, Zenon DEF Membership
<1>4. /\ row.user = old.user /\ row.instance = old.instance /\ row.exists = FALSE
      /\ row.role = old.role /\ row.settings = old.settings
  BY <1>2, SMT DEF Membership
<1>5. memberships' = [memberships EXCEPT ![m] = row]
  BY <1>1, <1>2
<1>6. wrote' = [wrote EXCEPT ![m] = parts]
  BY <1>1, SameParts
<1>7. /\ row.user = memberships[m].user /\ row.instance = memberships[m].instance
      /\ ~row.exists /\ row.role = parts.role /\ row.settings = parts.settings
  BY <1>1, <1>4
<1>8. QED
  BY <1>3, <1>5, <1>6, <1>7, MembershipReplaced

\* A membership is put, with what its history says was written to its parts.
LEMMA MembershipAdded ==
  ASSUME Consistent, NEW row \in Membership, NEW parts \in Parts,
         row.user \in 1..Len(users), row.instance \in 1..Len(instances),
         row.role = parts.role, row.settings = parts.settings,
         memberships' = Append(memberships, row), wrote' = Append(wrote, parts),
         UNCHANGED <<users, instances, instancesSeen, addresses, dismissed>>
  PROVE  TablesSound
<1>1. /\ memberships \in Seq(Membership) /\ wrote \in Seq(Parts)
      /\ Len(wrote) = Len(memberships)
  BY DEF Consistent, MembershipsSound, MembershipsTyped
<1>2. /\ memberships' \in Seq(Membership) /\ Len(memberships') = Len(memberships) + 1
      /\ Longer(memberships, memberships')
  <2>1. Longer(memberships, memberships')
    BY <1>1, Added, ZenonT(60)
  <2>2. QED
    BY <1>1, <2>1, Added
<1>3. /\ \A n \in 1..Len(memberships) : memberships'[n] = memberships[n]
      /\ memberships'[Len(memberships) + 1] = row
      /\ \A n \in 1..Len(memberships') :
            n \in 1..Len(memberships) \/ n = Len(memberships) + 1
  BY <1>1, Added
<1>4. /\ wrote' \in Seq(Parts) /\ Len(wrote') = Len(memberships')
      /\ \A n \in 1..Len(memberships) : wrote'[n] = wrote[n]
      /\ wrote'[Len(memberships) + 1] = parts
  BY <1>1, <1>2, Added
<1>5. MembershipsKept(memberships, memberships')
  BY <1>2, <1>3 DEF MembershipsKept
<1>6. MembershipsTyped'
  BY <1>2, <1>4 DEF MembershipsTyped
<1>7. MembershipsRefer'
  BY <1>3 DEF Consistent, MembershipsSound, MembershipsRefer
<1>8. DismissedRefer' /\ DismissedAreOut'
  <2>1. \A n \in 1..Len(memberships) : n \in 1..Len(memberships')
    BY <1>2, SMT DEF Longer
  <2>2. QED
    BY <1>3, <2>1 DEF Consistent, MembershipsSound, DismissedRefer, DismissedAreOut
<1>9. PartsAreKept'
  BY <1>3, <1>4 DEF Consistent, MembershipsSound, PartsAreKept
<1>10. QED
  BY <1>5, <1>6, <1>7, <1>8, <1>9, MembershipsWritten DEF MembershipsSound

\* An index catches up with a row, which stays as it is otherwise: a membership
\* that is there is listed from then on.
LEMMA CatchUpConsistent ==
  ASSUME Consistent, CatchUp
  PROVE  Consistent' /\ Kept
<1>1. UNCHANGED <<usersSeen, instancesSeen, said, addressVars, wrote, dismissed, revoked, requests>>
  BY DEF CatchUp
<1>2. ASSUME NEW u \in 1..Len(users), users' = [users EXCEPT ![u].shown = users[u].email],
             UNCHANGED <<instances, memberships>>
      PROVE  TablesSound
  <2>1. PICK old \in User : old = users[u]
    BY UserTyped
  <2>2. PICK email \in Emails : email = old.email
    BY SMT DEF User
  <2>3. [old EXCEPT !.shown = email] \in User
    BY SMT DEF User
  <2>4. users' = [users EXCEPT ![u] = [old EXCEPT !.shown = email]]
    BY <1>2, <2>1, <2>2
  <2>5. QED
    BY <1>1, <1>2, <2>3, <2>4, UserReplaced DEF membershipVars, addressVars
<1>3. ASSUME NEW i \in 1..Len(instances), instances' = [instances EXCEPT ![i].shown = TRUE],
             UNCHANGED <<users, memberships>>
      PROVE  TablesSound
  <2>1. PICK old \in Instance : old = instances[i]
    BY InstanceTyped
  <2>2. PICK row : row = [old EXCEPT !.shown = TRUE]
    OBVIOUS
  <2>3. row \in Instance
    BY <2>2, Zenon DEF Instance
  <2>4. /\ row.kind = old.kind
        /\ row.public_submission_enabled = old.public_submission_enabled
    BY <2>2, SMT DEF Instance
  <2>5. row.kind = instances[i].kind /\ (row.public_submission_enabled => row.kind = "support")
    BY <2>1, <2>4 DEF Consistent, InstancesSound, PublicIsSupport
  <2>6. instances' = [instances EXCEPT ![i] = row]
    BY <1>3, <2>1, <2>2
  <2>7. QED
    BY <1>1, <1>3, <2>3, <2>5, <2>6, InstanceReplaced DEF membershipVars, addressVars
<1>4. ASSUME NEW m \in 1..Len(memberships),
             memberships' = [memberships EXCEPT ![m].shown = memberships[m].exists],
             UNCHANGED <<users, instances>>
      PROVE  TablesSound
  <2>1. PICK old \in Membership, parts \in Parts :
          /\ old = memberships[m] /\ parts = wrote[m]
          /\ old.role = parts.role /\ old.settings = parts.settings
    BY MembershipTyped
  <2>2. PICK exists \in BOOLEAN : exists = old.exists
    BY SMT DEF Membership
  <2>3. PICK row : row = [old EXCEPT !.shown = exists]
    OBVIOUS
  <2>4. row \in Membership
    BY <2>3, SMT DEF Membership
  <2>5. /\ row.user = old.user /\ row.instance = old.instance /\ row.exists = old.exists
        /\ row.shown = exists /\ row.role = old.role /\ row.settings = old.settings
    BY <2>3, SMT DEF Membership
  <2>6. memberships' = [memberships EXCEPT ![m] = row]
    BY <1>4, <2>1, <2>2, <2>3
  <2>7. wrote' = [wrote EXCEPT ![m] = parts]
    BY <1>1, <2>1, SameParts
  <2>8. /\ row.user = memberships[m].user /\ row.instance = memberships[m].instance
        /\ ~memberships[m].exists => ~row.exists
        /\ memberships[m].shown /\ row.exists => row.shown
        /\ row.role = parts.role /\ row.settings = parts.settings
    BY <2>1, <2>2, <2>5
  <2>9. UNCHANGED <<users, instances, instancesSeen, addresses, dismissed>>
    BY <1>1, <1>4 DEF addressVars
  <2>10. QED
    BY <2>4, <2>6, <2>7, <2>8, <2>9, MembershipReplaced
<1>5. TablesSound
  BY <1>2, <1>3, <1>4 DEF CatchUp
<1>6. QED
  BY <1>1, <1>5, AllWait

-----------------------------------------------------------------------------
(* Each step of a call about an instance.                                  *)

\* The slug was free in the index.
LEMMA CreateInstanceConsistent ==
  ASSUME Consistent, NEW r \in Requests, NEW slug \in Slugs, NEW kind \in {"support", "invoicing"},
         NEW public \in BOOLEAN, CreateInstance(r, slug, kind, public)
  PROVE  Consistent' /\ Kept
<1> DEFINE q == [Idle EXCEPT !.step = "instancePut", !.op = "createInstance", !.slug = slug,
                             !.kind = kind, !.flag = public]
<1>1. "createInstance" \in Offered /\ (public => kind = "support")
  BY DEF CreateInstance, Call
<1>2. q \in Request
  BY <1>1, NoPatch, Zenon DEF Idle, Request, Steps, Roles
<1>3. q.step = "instancePut" /\ q.slug = slug /\ q.flag = public /\ q.kind = kind
  BY SMT DEF Idle
<1>4. /\ Enter(r, q)
      /\ UNCHANGED <<userVars, instances, instancesSeen, membershipVars, addressVars>>
  BY DEF CreateInstance, instanceVars
<1> HIDE DEF q
<1>5. Ready(q, users, instances, memberships)
  BY <1>1, <1>3 DEF Ready, Refers, Owes, InstanceSteps, UserSteps
<1>6. QED
  BY <1>2, <1>4, <1>5, ReadConsistent

\* What a running call holds.
LEMMA Running ==
  ASSUME Consistent, NEW r \in Requests
  PROVE  /\ requests[r] \in Request
         /\ Ready(requests[r], users, instances, memberships)
BY DEF Consistent, RequestsReady

\* The instance is put.
LEMMA InstancePutConsistent ==
  ASSUME Consistent, NEW r \in Requests, InstancePut(r)
  PROVE  Consistent' /\ Kept
<1>1. PICK q \in Request : q = requests[r] /\ q.step = "instancePut"
  BY Running DEF InstancePut, At
<1>2. q.slug \in Slugs /\ (q.flag => q.kind = "support")
  BY <1>1, Running DEF Ready, Refers
<1>3. PICK flag \in BOOLEAN, kind \in {"support", "invoicing"}, slug \in Slugs :
        flag = q.flag /\ kind = q.kind /\ slug = q.slug
  BY <1>2, SMT DEF Request
<1>4. PICK row : row = [slug |-> slug, shown |-> FALSE, deleted |-> FALSE, kind |-> kind,
                        public_submission_enabled |-> flag]
  OBVIOUS
<1>5. row \in Instance
  BY <1>4, Zenon DEF Instance
<1>6. row.public_submission_enabled => row.kind = "support"
  BY <1>2, <1>3, <1>4
<1>7. instances' = Append(instances, row) /\ instancesSeen' = Append(instancesSeen, {row})
  BY <1>1, <1>3, <1>4 DEF InstancePut
<1>8. TablesSound
  BY <1>5, <1>6, <1>7, InstanceAdded DEF InstancePut, userVars, addressVars
<1>9. QED
  BY <1>8, OneReturns DEF InstancePut

\* An instance made public is one for support.
LEMMA UpdateInstanceConsistent ==
  ASSUME Consistent, NEW r \in Requests, NEW i \in 1..Len(instances), NEW public \in BOOLEAN,
         UpdateInstance(r, i, public)
  PROVE  Consistent' /\ Kept
<1> DEFINE q == [Idle EXCEPT !.step = "instanceUpdate", !.op = "updateInstance", !.instance = i,
                             !.flag = public]
<1>1. /\ "updateInstance" \in Offered /\ (public => instances[i].kind = "support")
      /\ i \in Nat
  BY SMT DEF UpdateInstance, Call, PublicFits
<1>2. q \in Request
  BY <1>1, NoPatch, Zenon DEF Idle, Request, Steps, Roles
<1>3. q.step = "instanceUpdate" /\ q.instance = i /\ q.flag = public
  BY SMT DEF Idle
<1>4. /\ Enter(r, q)
      /\ UNCHANGED <<userVars, instances, instancesSeen, membershipVars, addressVars>>
  BY DEF UpdateInstance, instanceVars
<1> HIDE DEF q
<1>5. Ready(q, users, instances, memberships)
  BY <1>1, <1>3 DEF Ready, Refers, Owes, InstanceSteps, UserSteps
<1>6. QED
  BY <1>2, <1>4, <1>5, ReadConsistent

\* public_submission_enabled is written.
LEMMA InstanceUpdateConsistent ==
  ASSUME Consistent, NEW r \in Requests, InstanceUpdate(r)
  PROVE  Consistent' /\ Kept
<1>1. PICK q \in Request : q = requests[r] /\ q.step = "instanceUpdate"
  BY Running DEF InstanceUpdate, At
<1>2. q.instance \in 1..Len(instances) /\ (q.flag => instances[q.instance].kind = "support")
  BY <1>1, Running DEF Ready, Refers, InstanceSteps
<1>3. PICK i \in 1..Len(instances), flag \in BOOLEAN : i = q.instance /\ flag = q.flag
  BY <1>2, SMT DEF Request
<1>4. PICK old \in Instance : old = instances[i]
  BY InstanceTyped
<1>5. PICK row : row = [old EXCEPT !.public_submission_enabled = flag]
  OBVIOUS
<1>6. row \in Instance /\ row.kind = old.kind /\ row.public_submission_enabled = flag
  BY <1>5, SMT DEF Instance
<1>7. row.kind = instances[i].kind /\ (row.public_submission_enabled => row.kind = "support")
  BY <1>2, <1>3, <1>4, <1>6
<1>8. /\ instances' = [instances EXCEPT ![i] = row]
      /\ instancesSeen' = [instancesSeen EXCEPT ![i] = @ \cup {row}]
  BY <1>1, <1>3, <1>4, <1>5 DEF InstanceUpdate, SetInstance
<1>9. TablesSound
  BY <1>6, <1>7, <1>8, InstanceReplaced DEF InstanceUpdate, userVars, addressVars
<1>10. QED
  BY <1>9, OneReturns DEF InstanceUpdate

\* setInstanceDeleted has read a state of the row, and answers or goes on.
LEMMA SetInstanceDeletedConsistent ==
  ASSUME Consistent, NEW r \in Requests, NEW i \in 1..Len(instances), NEW deleted \in BOOLEAN,
         SetInstanceDeleted(r, i, deleted)
  PROVE  Consistent' /\ Kept
<1> DEFINE q == [Idle EXCEPT !.step = "deletedWrite", !.op = "setInstanceDeleted",
                             !.instance = i, !.flag = deleted]
<1>1. "setInstanceDeleted" \in Offered /\ i \in Nat
  BY SMT DEF SetInstanceDeleted, Call
<1>2. q \in Request
  BY <1>1, NoPatch, Zenon DEF Idle, Request, Steps, Roles
<1>3. q.step = "deletedWrite" /\ q.instance = i
  BY SMT DEF Idle
<1>4. /\ Enter(r, q) \/ UNCHANGED requests
      /\ UNCHANGED <<userVars, instances, instancesSeen, membershipVars, addressVars>>
  BY DEF SetInstanceDeleted
<1> HIDE DEF q
<1>5. Ready(q, users, instances, memberships)
  BY <1>3 DEF Ready, Refers, Owes, InstanceSteps, UserSteps
<1>6. QED
  BY <1>2, <1>4, <1>5, ReadConsistent, NothingWritten, AllWait

\* deleted is written.
LEMMA DeletedWriteConsistent ==
  ASSUME Consistent, NEW r \in Requests, DeletedWrite(r)
  PROVE  Consistent' /\ Kept
<1>1. PICK q \in Request : q = requests[r] /\ q.step = "deletedWrite"
  BY Running DEF DeletedWrite, At
<1>2. q.instance \in 1..Len(instances)
  BY <1>1, Running DEF Ready, Refers, InstanceSteps
<1>3. PICK i \in 1..Len(instances), flag \in BOOLEAN : i = q.instance /\ flag = q.flag
  BY <1>2, SMT DEF Request
<1>4. PICK old \in Instance : old = instances[i]
  BY InstanceTyped
<1>5. PICK row : row = [old EXCEPT !.deleted = flag]
  OBVIOUS
<1>6. /\ row \in Instance /\ row.kind = old.kind
      /\ row.public_submission_enabled = old.public_submission_enabled
  BY <1>5, SMT DEF Instance
<1>7. row.kind = instances[i].kind /\ (row.public_submission_enabled => row.kind = "support")
  BY <1>4, <1>6 DEF Consistent, InstancesSound, PublicIsSupport
<1>8. /\ instances' = [instances EXCEPT ![i] = row]
      /\ instancesSeen' = [instancesSeen EXCEPT ![i] = @ \cup {row}]
  BY <1>1, <1>3, <1>4, <1>5 DEF DeletedWrite, SetInstance
<1>9. TablesSound
  BY <1>6, <1>7, <1>8, InstanceReplaced DEF DeletedWrite, userVars, addressVars
<1>10. QED
  BY <1>9, OneReturns DEF DeletedWrite

-----------------------------------------------------------------------------
(* Each step of a call about a user.                                       *)

\* The email was free in the index.
LEMMA CreateUserConsistent ==
  ASSUME Consistent, NEW r \in Requests, NEW email \in Emails, CreateUser(r, email)
  PROVE  Consistent' /\ Kept
<1> DEFINE q == [Idle EXCEPT !.step = "userPut", !.op = "createUser", !.email = email]
<1>1. "createUser" \in Offered
  BY DEF CreateUser, Call
<1>2. q \in Request
  BY <1>1, NoPatch, Zenon DEF Idle, Request, Steps, Roles
<1>3. q.step = "userPut" /\ q.email = email
  BY SMT DEF Idle
<1>4. /\ Enter(r, q)
      /\ UNCHANGED <<userVars, instances, instancesSeen, membershipVars, addressVars>>
  BY DEF CreateUser, instanceVars
<1> HIDE DEF q
<1>5. Ready(q, users, instances, memberships)
  BY <1>3 DEF Ready, Refers, Owes, InstanceSteps, UserSteps
<1>6. QED
  BY <1>2, <1>4, <1>5, ReadConsistent

\* The user is put.
LEMMA UserPutConsistent ==
  ASSUME Consistent, NEW r \in Requests, UserPut(r)
  PROVE  Consistent' /\ Kept
<1>1. PICK q \in Request : q = requests[r] /\ q.step = "userPut"
  BY Running DEF UserPut, At
<1>2. PICK email \in Emails : email = q.email
  BY <1>1, Running DEF Ready, Refers
<1>3. PICK row : row = [email |-> email, shown |-> None, enabled |-> TRUE, superuser |-> FALSE]
  OBVIOUS
<1>4. row \in User
  BY <1>3, Zenon DEF User
<1>5. users' = Append(users, row)
  BY <1>1, <1>2, <1>3 DEF UserPut
<1>6. TablesSound
  BY <1>4, <1>5, UserAdded DEF UserPut, instanceVars
<1>7. QED
  BY <1>6, OneReturns DEF UserPut

\* updateUser has read the row.
LEMMA UpdateUserConsistent ==
  ASSUME Consistent, NEW r \in Requests, NEW caller \in 1..Len(users), NEW u \in 1..Len(users),
         NEW email \in Emails, NEW enabled \in BOOLEAN, UpdateUser(r, caller, u, email, enabled)
  PROVE  Consistent' /\ Kept
<1>1. PICK read \in usersSeen[u] :
        /\ Call(r, "updateUser", "Superuser", 0)
        /\ Enter(r, [Idle EXCEPT !.op = "updateUser", !.user = u, !.email = email,
                         !.flag = enabled,
                         !.step = IF email = read.email THEN "fieldsWrite" ELSE "emailCheck"])
        /\ UNCHANGED <<userVars, instanceVars, membershipVars, addressVars>>
  BY DEF UpdateUser
<1>2. PICK step \in {"fieldsWrite", "emailCheck"} :
        step = IF email = read.email THEN "fieldsWrite" ELSE "emailCheck"
  OBVIOUS
<1> DEFINE q == [Idle EXCEPT !.op = "updateUser", !.user = u, !.email = email,
                             !.flag = enabled, !.step = step]
<1>3. "updateUser" \in Offered /\ u \in Nat /\ step \in Steps
  BY <1>1, SMT DEF Call, Steps
<1>4. q \in Request
  BY <1>3, NoPatch, Zenon DEF Idle, Request, Roles
<1>5. q.step = step /\ q.user = u /\ q.email = email
  BY SMT DEF Idle
<1>6. /\ Enter(r, q)
      /\ UNCHANGED <<userVars, instances, instancesSeen, membershipVars, addressVars>>
  BY <1>1, <1>2 DEF instanceVars
<1> HIDE DEF q
<1>7. Ready(q, users, instances, memberships)
  BY <1>2, <1>5 DEF Ready, Refers, Owes, InstanceSteps, UserSteps
<1>8. QED
  BY <1>4, <1>6, <1>7, ReadConsistent

\* A running call whose user is known goes on to write that user.
LEMMA GoesOnToUser ==
  ASSUME NEW us, NEW is, NEW ms, NEW q \in Request, NEW p,
         q.user \in 1..Len(us), q.email \in Emails \/ p.step = "fieldsWrite",
         p.step \in {"emailCheck", "emailWrite", "fieldsWrite"},
         p.user = q.user, p.email = q.email
  PROVE  Ready(p, us, is, ms)
BY DEF Ready, Refers, Owes, InstanceSteps, UserSteps

\* The new email was free in the index, or not.
LEMMA EmailCheckConsistent ==
  ASSUME Consistent, NEW r \in Requests, EmailCheck(r)
  PROVE  Consistent' /\ Kept
<1>1. PICK q \in Request : q = requests[r] /\ q.step = "emailCheck"
  BY Running DEF EmailCheck, At
<1>2. q.user \in 1..Len(users) /\ q.email \in Emails
  BY <1>1, Running DEF Ready, Refers, UserSteps
<1>3. TablesSound /\ UNCHANGED <<users, instances, memberships>>
  BY NothingWritten DEF EmailCheck, instanceVars, userVars, membershipVars
<1>4. CASE Return(r)
  BY <1>3, <1>4, OneReturns
<1>5. CASE Goto(r, "emailWrite")
  <2>1. PICK p : p = [q EXCEPT !.step = "emailWrite"]
    OBVIOUS
  <2>2. p.step = "emailWrite" /\ p.user = q.user /\ p.email = q.email
    BY <2>1, SMT DEF Request
  <2>3. Ready(p, users', instances', memberships')
    BY <1>2, <1>3, <2>2, GoesOnToUser
  <2>4. QED
    BY <1>1, <1>3, <1>5, <2>1, <2>3, OneContinues DEF Steps
<1>6. QED
  BY <1>4, <1>5 DEF EmailCheck

\* The email is written, the other fields are not yet.
LEMMA EmailWriteConsistent ==
  ASSUME Consistent, NEW r \in Requests, EmailWrite(r)
  PROVE  Consistent' /\ Kept
<1>1. PICK q \in Request : q = requests[r] /\ q.step = "emailWrite"
  BY Running DEF EmailWrite, At
<1>2. PICK u \in 1..Len(users), email \in Emails : u = q.user /\ email = q.email
  BY <1>1, Running DEF Ready, Refers, UserSteps
<1>3. PICK old \in User : old = users[u]
  BY UserTyped
<1>4. [old EXCEPT !.email = email] \in User
  BY SMT DEF User
<1>5. users' = [users EXCEPT ![u] = [old EXCEPT !.email = email]]
  BY <1>1, <1>2, <1>3 DEF EmailWrite, SetUser
<1>6. TablesSound
  BY <1>4, <1>5, UserReplaced DEF EmailWrite, instanceVars
<1>7. PICK p : p = [q EXCEPT !.step = "fieldsWrite"]
  OBVIOUS
<1>8. p.step = "fieldsWrite" /\ p.user = q.user /\ p.email = q.email
  BY <1>7, SMT DEF Request
<1>9. q.user \in 1..Len(users')
  BY <1>2, <1>6, SMT DEF TablesSound, Kept, Longer
<1>10. Ready(p, users', instances', memberships')
  BY <1>8, <1>9, GoesOnToUser
<1>11. QED
  BY <1>1, <1>6, <1>7, <1>10, OneContinues DEF EmailWrite, Steps

\* enabled is written.
LEMMA FieldsWriteConsistent ==
  ASSUME Consistent, NEW r \in Requests, FieldsWrite(r)
  PROVE  Consistent' /\ Kept
<1>1. PICK q \in Request : q = requests[r] /\ q.step = "fieldsWrite"
  BY Running DEF FieldsWrite, At
<1>2. PICK u \in 1..Len(users) : u = q.user
  BY <1>1, Running DEF Ready, Refers, UserSteps
<1>3. PICK flag \in BOOLEAN : flag = q.flag
  BY SMT DEF Request
<1>4. PICK old \in User : old = users[u]
  BY UserTyped
<1>5. [old EXCEPT !.enabled = flag] \in User
  BY SMT DEF User
<1>6. users' = [users EXCEPT ![u] = [old EXCEPT !.enabled = flag]]
  BY <1>1, <1>2, <1>3, <1>4 DEF FieldsWrite, SetUser
<1>7. TablesSound
  BY <1>5, <1>6, UserReplaced DEF FieldsWrite, instanceVars
<1>8. QED
  BY <1>7, OneReturns DEF FieldsWrite

\* deleteUser is called: it owes the memberships there are.
LEMMA DeleteUserConsistent ==
  ASSUME Consistent, NEW r \in Requests, NEW caller \in 1..Len(users), NEW u \in 1..Len(users),
         DeleteUser(r, caller, u)
  PROVE  Consistent' /\ Kept
<1> DEFINE held == {m \in 1..Len(memberships) :
                      memberships[m].exists /\ memberships[m].user = u}
<1>1. PICK owed : owed = {[row |-> m, shown |-> memberships[m].shown] : m \in held}
  OBVIOUS
<1>2. \A m \in held : memberships[m].shown \in BOOLEAN /\ m \in Nat
  BY MembershipTyped, SMT DEF Membership
<1>3. owed \in SUBSET [row : Nat, shown : BOOLEAN]
  BY <1>1, <1>2
<1>4. \A d \in owed : /\ d.row \in 1..Len(memberships) /\ memberships[d.row].user = u
                      /\ d.shown /\ memberships[d.row].exists => memberships[d.row].shown
  BY <1>1
<1> DEFINE q == [Idle EXCEPT !.step = "userDisable", !.op = "deleteUser", !.user = u,
                             !.owed = owed]
<1>5. "deleteUser" \in Offered /\ u \in Nat
  BY SMT DEF DeleteUser, Call
<1>6. q \in Request
  BY <1>3, <1>5, NoPatch, Zenon DEF Idle, Request, Steps, Roles
<1>7. q.step = "userDisable" /\ q.user = u /\ q.owed = owed
  BY SMT DEF Idle
<1>8. /\ Enter(r, q)
      /\ UNCHANGED <<userVars, instances, instancesSeen, membershipVars, addressVars>>
  BY <1>1 DEF DeleteUser, instanceVars
<1> HIDE DEF q
<1>9. Ready(q, users, instances, memberships)
  BY <1>4, <1>7 DEF Ready, Refers, Owes, InstanceSteps, UserSteps
<1>10. QED
  BY <1>6, <1>8, <1>9, ReadConsistent

\* The user is disabled, whether or not an earlier call did so.
LEMMA UserDisableConsistent ==
  ASSUME Consistent, NEW r \in Requests, UserDisable(r)
  PROVE  Consistent' /\ Kept
<1>1. PICK q \in Request : q = requests[r] /\ q.step = "userDisable"
  BY Running DEF UserDisable, At
<1>2. PICK u \in 1..Len(users) : u = q.user
  BY <1>1, Running DEF Ready, Refers, UserSteps
<1>3. PICK old \in User : old = users[u]
  BY UserTyped
<1>4. [old EXCEPT !.enabled = FALSE] \in User
  BY Zenon DEF User
<1>5. users' = [users EXCEPT ![u] = [old EXCEPT !.enabled = FALSE]]
  BY <1>1, <1>2, <1>3 DEF UserDisable, SetUser
<1>6. TablesSound
  BY <1>4, <1>5, UserReplaced DEF UserDisable, instanceVars
<1>7. PICK p : p = [q EXCEPT !.step = "userMemberships"]
  OBVIOUS
<1>8. p.step = "userMemberships" /\ p.user = q.user /\ p.owed = q.owed
  BY <1>7, SMT DEF Request
<1>9. Owes(q, memberships) /\ UNCHANGED memberships
  BY <1>1, Running DEF Ready, UserDisable, membershipVars
<1>10. Ready(p, users', instances', memberships')
  BY <1>1, <1>8, <1>9 DEF Ready, Refers, Owes, InstanceSteps, UserSteps
<1>11. QED
  BY <1>1, <1>6, <1>7, <1>10, OneContinues DEF UserDisable, Steps

\* The user's memberships are listed: among them is all that is owed, of what was
\* listed when deleteUser was called and is still there.
LEMMA UserMembershipsConsistent ==
  ASSUME Consistent, NEW r \in Requests, UserMemberships(r)
  PROVE  Consistent' /\ Kept
<1>1. PICK q \in Request : q = requests[r] /\ q.step = "userMemberships"
  BY Running DEF UserMemberships, At
<1>2. PICK left : left = ListedOf(q.user)
  OBVIOUS
<1>3. left \subseteq 1..Len(memberships) /\ left \in SUBSET Nat
  BY <1>2, SMT DEF ListedOf
<1>4. PICK p : p = [q EXCEPT !.step = "membershipDelete", !.left = left]
  OBVIOUS
<1>5. p \in Request
  <2>1. PICK on : on = [q EXCEPT !.step = "membershipDelete"]
    OBVIOUS
  <2>2. on \in Request
    BY <2>1, SMT DEF Request, Steps
  <2>3. [on EXCEPT !.left = left] \in Request
    BY <1>3, <2>2, SMT DEF Request
  <2>4. p = [on EXCEPT !.left = left]
    BY <1>4, <2>1, Zenon
  <2>5. QED
    BY <2>3, <2>4
<1>6. p.step = "membershipDelete" /\ p.left = left /\ p.owed = q.owed
  BY <1>4, SMT DEF Request
<1>7. \A d \in q.owed : /\ d.row \in 1..Len(memberships) /\ memberships[d.row].user = q.user
                        /\ d.shown /\ memberships[d.row].exists => memberships[d.row].shown
  BY <1>1, Running DEF Ready, Owes
<1>8. \A d \in q.owed : /\ d.row \in 1..Len(memberships)
                        /\ d.shown /\ memberships[d.row].exists => d.row \in left
  BY <1>2, <1>7 DEF ListedOf
<1>9. Ready(p, users, instances, memberships)
  BY <1>3, <1>6, <1>8 DEF Ready, Refers, Owes, InstanceSteps, UserSteps
<1>10. Enter(r, p)
  BY <1>1, <1>2, <1>4 DEF UserMemberships
<1>11. UNCHANGED <<userVars, instances, instancesSeen, membershipVars, addressVars>>
  BY DEF UserMemberships, instanceVars
<1>12. QED
  BY <1>5, <1>9, <1>10, <1>11, ReadConsistent

\* One of the listed memberships is deleted, or deleteUser answers.
LEMMA MembershipDeleteConsistent ==
  ASSUME Consistent, NEW r \in Requests, MembershipDelete(r)
  PROVE  Consistent' /\ Kept
<1>1. PICK q \in Request : q = requests[r] /\ q.step = "membershipDelete"
  BY Running DEF MembershipDelete, At
<1>2. /\ q.left \subseteq 1..Len(memberships)
      /\ \A d \in q.owed : /\ d.row \in 1..Len(memberships)
                           /\ d.shown /\ memberships[d.row].exists => d.row \in q.left
  BY <1>1, Running DEF Ready, Owes
<1>3. UNCHANGED <<users, instances, instancesSeen, addresses, wrote, revoked>>
  BY DEF MembershipDelete, userVars, instanceVars, addressVars
<1>4. ASSUME NEW m \in q.left, memberships' = [memberships EXCEPT ![m].exists = FALSE],
             Enter(r, [q EXCEPT !.left = @ \ {m}]), UNCHANGED dismissed
      PROVE  Consistent' /\ Kept
  <2>1. m \in 1..Len(memberships)
    BY <1>2
  <2>2. TablesSound
    BY <1>3, <1>4, <2>1, MembershipDeleted
  <2>3. memberships'[m].exists = FALSE
    <3>1. PICK old \in Membership : old = memberships[m]
      BY <2>1, MembershipTyped
    <3>2. PICK row : row = [old EXCEPT !.exists = FALSE]
      OBVIOUS
    <3>3. row \in Membership
      BY <3>2, Zenon DEF Membership
    <3>4. row.exists = FALSE
      BY <3>2, SMT DEF Membership
    <3>5. memberships' = [memberships EXCEPT ![m] = row]
      BY <1>4, <3>1, <3>2
    <3>6. memberships \in Seq(Membership)
      BY DEF Consistent, MembershipsSound, MembershipsTyped
    <3>7. memberships'[m] = row
      BY <2>1, <3>3, <3>5, <3>6, Replaced
    <3>8. QED
      BY <3>4, <3>7
  <2>4. PICK left : left = q.left \ {m}
    OBVIOUS
  <2>5. left \in SUBSET Nat
    BY <1>2, <2>4, SMT
  <2>6. PICK p : p = [q EXCEPT !.left = left]
    OBVIOUS
  <2>7. p \in Request
    BY <2>5, <2>6, SMT DEF Request
  <2>8. p.step = "membershipDelete" /\ p.left = left /\ p.owed = q.owed
    BY <1>1, <2>6, SMT DEF Request
  <2>9. Enter(r, p)
    BY <1>4, <2>4, <2>6
  <2>10. /\ \A n \in 1..Len(memberships) : n \in 1..Len(memberships')
         /\ \A n \in 1..Len(memberships) : ~memberships[n].exists => ~memberships'[n].exists
    BY <2>2, SMT DEF TablesSound, Kept, MembershipsKept, Longer
  <2>11. left \subseteq 1..Len(memberships')
    BY <1>2, <2>4, <2>10
  <2>12. \A d \in q.owed : /\ d.row \in 1..Len(memberships')
                           /\ d.shown /\ memberships'[d.row].exists => d.row \in left
    BY <1>2, <2>3, <2>4, <2>10
  <2>13. Ready(p, users', instances', memberships')
    BY <2>8, <2>11, <2>12 DEF Ready, Refers, Owes, InstanceSteps, UserSteps
  <2>14. QED
    BY <2>2, <2>7, <2>9, <2>13, OneGoesOn
<1>5. ASSUME q.left = {}, dismissed' = dismissed \cup q.owed, Return(r), UNCHANGED memberships
      PROVE  Consistent' /\ Kept
  <2>1. DismissedRefer'
    BY <1>2, <1>5 DEF Consistent, MembershipsSound, DismissedRefer
  <2>2. DismissedAreOut'
    BY <1>2, <1>5 DEF Consistent, MembershipsSound, DismissedAreOut
  <2>3. MembershipsTyped' /\ MembershipsRefer' /\ PartsAreKept'
    BY <1>3, <1>5 DEF Consistent, MembershipsSound, MembershipsTyped, MembershipsRefer,
                      PartsAreKept
  <2>4. MembershipsKept(memberships, memberships')
    BY <1>5, MembershipsSame
  <2>5. TablesSound
    BY <1>3, <2>1, <2>2, <2>3, <2>4, MembershipsWritten DEF MembershipsSound
  <2>6. QED
    BY <1>5, <2>5, OneReturns
<1>6. QED
  BY <1>1, <1>4, <1>5 DEF MembershipDelete

-----------------------------------------------------------------------------
(* Each step of a call about a membership.                                 *)

\* The user was not listed with the instance.
LEMMA AddMemberConsistent ==
  ASSUME Consistent, NEW r \in Requests, NEW i \in 1..Len(instances), NEW u \in 1..Len(users),
         NEW role \in Roles, AddMember(r, i, u, role)
  PROVE  Consistent' /\ Kept
<1> DEFINE q == [Idle EXCEPT !.step = "memberPut", !.op = "addMember", !.instance = i,
                             !.user = u, !.role = role]
<1>1. "addMember" \in Offered /\ i \in Nat /\ u \in Nat
  BY SMT DEF AddMember, Call
<1>2. q \in Request
  BY <1>1, NoPatch, Zenon DEF Idle, Request, Steps
<1>3. q.step = "memberPut" /\ q.instance = i /\ q.user = u
  BY SMT DEF Idle
<1>4. /\ Enter(r, q)
      /\ UNCHANGED <<userVars, instances, instancesSeen, membershipVars, addressVars>>
  BY DEF AddMember, instanceVars
<1> HIDE DEF q
<1>5. Ready(q, users, instances, memberships)
  BY <1>3 DEF Ready, Refers, Owes, InstanceSteps, UserSteps
<1>6. QED
  BY <1>2, <1>4, <1>5, ReadConsistent

\* The membership is put.
LEMMA MemberPutConsistent ==
  ASSUME Consistent, NEW r \in Requests, MemberPut(r)
  PROVE  Consistent' /\ Kept
<1>1. PICK q \in Request : q = requests[r] /\ q.step = "memberPut"
  BY Running DEF MemberPut, At
<1>2. q.user \in 1..Len(users) /\ q.instance \in 1..Len(instances)
  BY <1>1, Running DEF Ready, Refers, UserSteps, InstanceSteps
<1>3. PICK u \in Nat, i \in Nat, role \in Roles :
        u = q.user /\ i = q.instance /\ role = q.role
  BY SMT DEF Request
<1>4. PICK row : row = [user |-> u, instance |-> i, role |-> role, settings |-> Default,
                        exists |-> TRUE, shown |-> FALSE]
  OBVIOUS
<1>5. row \in Membership
  BY <1>4, BootstrapAssumption, Zenon DEF Membership
<1>6. PICK parts : parts = [role |-> role, settings |-> Default]
  OBVIOUS
<1>7. parts \in Parts
  BY <1>6, BootstrapAssumption, Zenon DEF Parts
<1>8. /\ row.user \in 1..Len(users) /\ row.instance \in 1..Len(instances)
      /\ row.role = parts.role /\ row.settings = parts.settings
  BY <1>2, <1>3, <1>4, <1>6
<1>9. memberships' = Append(memberships, row) /\ wrote' = Append(wrote, parts)
  BY <1>1, <1>3, <1>4, <1>6 DEF MemberPut
<1>10. UNCHANGED <<users, instances, instancesSeen, addresses, dismissed>>
  BY DEF MemberPut, userVars, instanceVars, addressVars
<1>11. TablesSound
  BY <1>5, <1>7, <1>8, <1>9, <1>10, MembershipAdded
<1>12. QED
  BY <1>11, OneReturns DEF MemberPut

\* Any of the three calls has found one of the user's memberships.
LEMMA FoundIsReady ==
  ASSUME NEW q, NEW us, NEW is, NEW ms,
         q.step = "memberWrite", q.row \in 1..Len(ms), q.op \in MemberWrites
  PROVE  Ready(q, us, is, ms)
BY DEF Ready, Refers, Owes, InstanceSteps, UserSteps

LEMMA ListedAreThere ==
  ASSUME NEW i, NEW u, NEW m \in ListedAt(u, i)
  PROVE  m \in 1..Len(memberships) /\ m \in Nat
BY SMT DEF ListedAt, ListedOf

LEMMA RemoveMemberConsistent ==
  ASSUME Consistent, NEW r \in Requests, NEW i \in 1..Len(instances), NEW u \in 1..Len(users),
         RemoveMember(r, i, u)
  PROVE  Consistent' /\ Kept
<1>1. PICK m \in ListedAt(u, i) :
        /\ Call(r, "removeMember", "Superuser", i)
        /\ Enter(r, [Idle EXCEPT !.step = "memberWrite", !.op = "removeMember", !.instance = i,
                                 !.user = u, !.row = m])
        /\ UNCHANGED <<userVars, instanceVars, membershipVars, addressVars>>
  BY DEF RemoveMember
<1> DEFINE q == [Idle EXCEPT !.step = "memberWrite", !.op = "removeMember", !.instance = i,
                             !.user = u, !.row = m]
<1>2. "removeMember" \in Offered /\ i \in Nat /\ u \in Nat
  BY <1>1, SMT DEF Call
<1>3. m \in 1..Len(memberships) /\ m \in Nat
  BY ListedAreThere
<1>4. q \in Request
  BY <1>2, <1>3, NoPatch, Zenon DEF Idle, Request, Steps, Roles
<1>5. q.step = "memberWrite" /\ q.op = "removeMember" /\ q.row = m
  BY SMT DEF Idle
<1>6. /\ Enter(r, q)
      /\ UNCHANGED <<userVars, instances, instancesSeen, membershipVars, addressVars>>
  BY <1>1 DEF instanceVars
<1> HIDE DEF q
<1>7. Ready(q, users, instances, memberships)
  BY <1>3, <1>5, FoundIsReady DEF MemberWrites
<1>8. QED
  BY <1>4, <1>6, <1>7, ReadConsistent

LEMMA SetMemberRoleConsistent ==
  ASSUME Consistent, NEW r \in Requests, NEW i \in 1..Len(instances), NEW u \in 1..Len(users),
         NEW role \in Roles, SetMemberRole(r, i, u, role)
  PROVE  Consistent' /\ Kept
<1>1. PICK m \in ListedAt(u, i) :
        /\ Call(r, "setMemberRole", "Superuser", i)
        /\ Enter(r, [Idle EXCEPT !.step = "memberWrite", !.op = "setMemberRole", !.instance = i,
                         !.user = u, !.row = m, !.was = memberships[m], !.role = role])
        /\ UNCHANGED <<userVars, instanceVars, membershipVars, addressVars>>
  BY DEF SetMemberRole
<1>2. "setMemberRole" \in Offered /\ i \in Nat /\ u \in Nat
  BY <1>1, SMT DEF Call
<1>3. m \in 1..Len(memberships) /\ m \in Nat
  BY ListedAreThere
<1>4. PICK was \in Membership : was = memberships[m]
  BY <1>3, MembershipTyped
<1> DEFINE q == [Idle EXCEPT !.step = "memberWrite", !.op = "setMemberRole", !.instance = i,
                             !.user = u, !.row = m, !.was = was, !.role = role]
<1>5. q \in Request
  BY <1>2, <1>3, NoPatch, Zenon DEF Idle, Request, Steps
<1>6. q.step = "memberWrite" /\ q.op = "setMemberRole" /\ q.row = m
  BY SMT DEF Idle
<1>7. /\ Enter(r, q)
      /\ UNCHANGED <<userVars, instances, instancesSeen, membershipVars, addressVars>>
  BY <1>1, <1>4 DEF instanceVars
<1> HIDE DEF q
<1>8. Ready(q, users, instances, memberships)
  BY <1>3, <1>6, FoundIsReady DEF MemberWrites
<1>9. QED
  BY <1>5, <1>7, <1>8, ReadConsistent

LEMMA UpdateNotificationSettingsConsistent ==
  ASSUME Consistent, NEW r \in Requests, NEW i \in 1..Len(instances), NEW u \in 1..Len(users),
         NEW patch \in Patch, UpdateNotificationSettings(r, i, u, patch)
  PROVE  Consistent' /\ Kept
<1>1. PICK m \in ListedAt(u, i) :
        /\ Call(r, "updateNotificationSettings", "Member", i)
        /\ Enter(r, [Idle EXCEPT !.step = "memberWrite", !.op = "updateNotificationSettings",
                         !.instance = i, !.user = u, !.row = m, !.was = memberships[m],
                         !.patch = patch])
        /\ UNCHANGED <<userVars, instanceVars, membershipVars, addressVars>>
  BY DEF UpdateNotificationSettings
<1>2. "updateNotificationSettings" \in Offered /\ i \in Nat /\ u \in Nat
  BY <1>1, SMT DEF Call
<1>3. m \in 1..Len(memberships) /\ m \in Nat
  BY ListedAreThere
<1>4. PICK was \in Membership : was = memberships[m]
  BY <1>3, MembershipTyped
<1> DEFINE q == [Idle EXCEPT !.step = "memberWrite", !.op = "updateNotificationSettings",
                             !.instance = i, !.user = u, !.row = m, !.was = was, !.patch = patch]
<1>5. q \in Request
  BY <1>2, <1>3, Zenon DEF Idle, Request, Steps, Roles
<1>6. q.step = "memberWrite" /\ q.op = "updateNotificationSettings" /\ q.row = m
  BY SMT DEF Idle
<1>7. /\ Enter(r, q)
      /\ UNCHANGED <<userVars, instances, instancesSeen, membershipVars, addressVars>>
  BY <1>1, <1>4 DEF instanceVars
<1> HIDE DEF q
<1>8. Ready(q, users, instances, memberships)
  BY <1>3, <1>6, FoundIsReady DEF MemberWrites
<1>9. QED
  BY <1>5, <1>7, <1>8, ReadConsistent

\* delete_membership.
LEMMA RemoveWriteConsistent ==
  ASSUME Consistent, NEW r \in Requests, RemoveWrite(r)
  PROVE  Consistent' /\ Kept
<1>1. PICK m \in 1..Len(memberships) : m = requests[r].row
  BY Running DEF RemoveWrite, At, Ready, Refers
<1>2. TablesSound
  BY <1>1, MembershipDeleted DEF RemoveWrite, userVars, instanceVars, addressVars
<1>3. QED
  BY <1>2, OneReturns DEF RemoveWrite

\* Patched settings are settings.
LEMMA PatchedTyped ==
  ASSUME NEW settings \in [Settings -> BOOLEAN], NEW patch \in Patch
  PROVE  Patched(settings, patch) \in [Settings -> BOOLEAN]
BY DEF Patch, Patched

\* update_membership_role and update_membership_notification_settings: the row
\* and its history take the same part, and keep the others.
LEMMA UpdateWriteConsistent ==
  ASSUME Consistent, NEW r \in Requests, UpdateWrite(r)
  PROVE  Consistent' /\ Kept
<1>1. PICK q \in Request : q = requests[r] /\ q.step = "memberWrite"
  BY Running DEF UpdateWrite, At
<1>2. PICK m \in 1..Len(memberships) : m = q.row
  BY <1>1, Running DEF Ready, Refers
<1>3. PICK old \in Membership, parts \in Parts :
        /\ old = memberships[m] /\ parts = wrote[m]
        /\ old.role = parts.role /\ old.settings = parts.settings
  BY MembershipTyped
<1>4. m \in 1..Len(wrote)
  BY DEF Consistent, MembershipsSound, MembershipsTyped
<1>5. UNCHANGED <<users, instances, instancesSeen, addresses, dismissed>>
  BY DEF UpdateWrite, userVars, instanceVars, addressVars
<1>6. CASE q.op = "setMemberRole"
  <2>1. PICK role \in Roles : role = q.role
    BY SMT DEF Request
  <2>2. PICK row : row = [old EXCEPT !.role = role]
    OBVIOUS
  <2>3. PICK now : now = [parts EXCEPT !.role = role]
    OBVIOUS
  <2>4. /\ row \in Membership /\ row.user = old.user /\ row.instance = old.instance
        /\ row.exists = old.exists /\ row.shown = old.shown
        /\ row.role = role /\ row.settings = old.settings
    BY <2>2, SMT DEF Membership
  <2>5. now \in Parts /\ now.role = role /\ now.settings = parts.settings
    BY <2>3, SMT DEF Parts
  <2>6. memberships' = [memberships EXCEPT ![m] = row]
    BY <1>1, <1>2, <1>3, <1>6, <2>1, <2>2 DEF UpdateWrite, WriteMembership, Updated
  <2>7. wrote' = [wrote EXCEPT ![m] = now]
    BY <1>1, <1>2, <1>3, <1>6, <2>1, <2>3 DEF UpdateWrite, Asked
  <2>8. /\ row.user = memberships[m].user /\ row.instance = memberships[m].instance
        /\ ~memberships[m].exists => ~row.exists
        /\ memberships[m].shown /\ row.exists => row.shown
        /\ row.role = now.role /\ row.settings = now.settings
    BY <1>3, <2>4, <2>5
  <2>9. TablesSound
    BY <1>5, <2>4, <2>5, <2>6, <2>7, <2>8, MembershipReplaced
  <2>10. QED
    BY <2>9, OneReturns DEF UpdateWrite
<1>7. CASE q.op # "setMemberRole"
  <2>1. old.settings \in [Settings -> BOOLEAN] /\ q.patch \in Patch
    BY SMT DEF Membership, Request
  <2>2. PICK settings \in [Settings -> BOOLEAN] : settings = Patched(old.settings, q.patch)
    BY <2>1, PatchedTyped
  <2>3. PICK row : row = [old EXCEPT !.settings = settings]
    OBVIOUS
  <2>4. PICK now : now = [parts EXCEPT !.settings = settings]
    OBVIOUS
  <2>5. /\ row \in Membership /\ row.user = old.user /\ row.instance = old.instance
        /\ row.exists = old.exists /\ row.shown = old.shown
        /\ row.role = old.role /\ row.settings = settings
    BY <2>3, SMT DEF Membership
  <2>6. now \in Parts /\ now.role = parts.role /\ now.settings = settings
    BY <2>4, SMT DEF Parts
  <2>7. memberships' = [memberships EXCEPT ![m] = row]
    BY <1>1, <1>2, <1>3, <1>7, <2>2, <2>3 DEF UpdateWrite, WriteMembership, Updated
  <2>8. wrote' = [wrote EXCEPT ![m] = now]
    <3>1. settings = Patched(parts.settings, q.patch)
      BY <1>3, <2>2
    <3>2. Asked(q, parts) = now
      BY <1>7, <2>4, <3>1 DEF Asked
    <3>3. QED
      BY <1>1, <1>2, <1>3, <3>2 DEF UpdateWrite
  <2>9. /\ row.user = memberships[m].user /\ row.instance = memberships[m].instance
        /\ ~memberships[m].exists => ~row.exists
        /\ memberships[m].shown /\ row.exists => row.shown
        /\ row.role = now.role /\ row.settings = now.settings
    BY <1>3, <2>5, <2>6
  <2>10. TablesSound
    BY <1>5, <2>5, <2>6, <2>7, <2>8, <2>9, MembershipReplaced
  <2>11. QED
    BY <2>10, OneReturns DEF UpdateWrite
<1>8. QED
  BY <1>6, <1>7

-----------------------------------------------------------------------------
(* Each step of a call about an inbound address.                           *)

\* The instance is one for support, as it was when its row was read.
LEMMA AddInboundAddressConsistent ==
  ASSUME Consistent, NEW r \in Requests, NEW i \in 1..Len(instances), NEW a \in Addresses,
         AddInboundAddress(r, i, a)
  PROVE  Consistent' /\ Kept
<1> DEFINE q == [Idle EXCEPT !.step = "addressCheck", !.op = "addInboundAddress", !.instance = i,
                             !.address = a]
<1>1. "addInboundAddress" \in Offered /\ i \in Nat
  BY SMT DEF AddInboundAddress, Call
<1>2. instances[i].kind = "support"
  BY DEF AddInboundAddress, Consistent, InstancesSound, KindsSeen
<1>3. q \in Request
  BY <1>1, NoPatch, Zenon DEF Idle, Request, Steps, Roles
<1>4. q.step = "addressCheck" /\ q.instance = i /\ q.address = a
  BY SMT DEF Idle
<1>5. /\ Enter(r, q)
      /\ UNCHANGED <<userVars, instances, instancesSeen, membershipVars, addressVars>>
  BY DEF AddInboundAddress, instanceVars
<1> HIDE DEF q
<1>6. Ready(q, users, instances, memberships)
  BY <1>2, <1>4 DEF Ready, Refers, Owes, InstanceSteps, UserSteps
<1>7. QED
  BY <1>3, <1>5, <1>6, ReadConsistent

\* The address may look free though it is not.
LEMMA AddressCheckConsistent ==
  ASSUME Consistent, NEW r \in Requests, AddressCheck(r)
  PROVE  Consistent' /\ Kept
<1>1. PICK q \in Request : q = requests[r] /\ q.step = "addressCheck"
  BY Running DEF AddressCheck, At
<1>2. /\ q.instance \in 1..Len(instances) /\ instances[q.instance].kind = "support"
      /\ q.address \in Addresses
  BY <1>1, Running DEF Ready, Refers, InstanceSteps
<1>3. TablesSound /\ UNCHANGED <<users, instances, memberships>>
  BY NothingWritten DEF AddressCheck, instanceVars, userVars, membershipVars
<1>4. CASE Return(r)
  BY <1>3, <1>4, OneReturns
<1>5. CASE Goto(r, "addressPut")
  <2>1. PICK p : p = [q EXCEPT !.step = "addressPut"]
    OBVIOUS
  <2>2. p.step = "addressPut" /\ p.instance = q.instance /\ p.address = q.address
    BY <2>1, SMT DEF Request
  <2>3. Ready(p, users', instances', memberships')
    BY <1>2, <1>3, <2>2 DEF Ready, Refers, Owes, InstanceSteps, UserSteps
  <2>4. QED
    BY <1>1, <1>3, <1>5, <2>1, <2>3, OneContinues DEF Steps
<1>6. QED
  BY <1>4, <1>5 DEF AddressCheck

\* The address is mapped, whoever has it.
LEMMA AddressPutConsistent ==
  ASSUME Consistent, NEW r \in Requests, AddressPut(r)
  PROVE  Consistent' /\ Kept
<1>1. /\ requests[r].instance \in 1..Len(instances)
      /\ instances[requests[r].instance].kind = "support"
      /\ requests[r].address \in Addresses
  BY Running DEF AddressPut, At, Ready, Refers, InstanceSteps
<1>2. PICK i \in 0..Len(instances), a \in Addresses :
        i = requests[r].instance /\ a = requests[r].address /\ instances[i].kind = "support"
  BY <1>1, SMT
<1>3. TablesSound
  BY <1>2, AddressSet DEF AddressPut, userVars, instanceVars
<1>4. QED
  BY <1>3, OneReturns DEF AddressPut

\* The address was seen mapped to the instance.
LEMMA RemoveInboundAddressConsistent ==
  ASSUME Consistent, NEW r \in Requests, NEW i \in 1..Len(instances), NEW a \in Addresses,
         RemoveInboundAddress(r, i, a)
  PROVE  Consistent' /\ Kept
<1> DEFINE q == [Idle EXCEPT !.step = "addressDelete", !.op = "removeInboundAddress",
                             !.instance = i, !.address = a]
<1>1. "removeInboundAddress" \in Offered /\ i \in Nat
  BY SMT DEF RemoveInboundAddress, Call
<1>2. q \in Request
  BY <1>1, NoPatch, Zenon DEF Idle, Request, Steps, Roles
<1>3. q.step = "addressDelete" /\ q.address = a
  BY SMT DEF Idle
<1>4. /\ Enter(r, q)
      /\ UNCHANGED <<userVars, instances, instancesSeen, membershipVars, addressVars>>
  BY DEF RemoveInboundAddress, instanceVars
<1> HIDE DEF q
<1>5. Ready(q, users, instances, memberships)
  BY <1>3 DEF Ready, Refers, Owes, InstanceSteps, UserSteps
<1>6. QED
  BY <1>2, <1>4, <1>5, ReadConsistent

\* The address is mapped to nothing.
LEMMA AddressDeleteConsistent ==
  ASSUME Consistent, NEW r \in Requests, AddressDelete(r)
  PROVE  Consistent' /\ Kept
<1>1. PICK a \in Addresses : a = requests[r].address
  BY Running DEF AddressDelete, At, Ready, Refers
<1>2. 0 \in 0..Len(instances)
  BY LenProperties, SMT DEF Consistent, InstancesSound, InstancesTyped
<1>3. TablesSound
  BY <1>1, <1>2, AddressSet DEF AddressDelete, userVars, instanceVars
<1>4. QED
  BY <1>3, OneReturns DEF AddressDelete

-----------------------------------------------------------------------------
(* Every step.                                                             *)

\* An invocation ends.
LEMMA StopConsistent ==
  ASSUME Consistent, NEW r \in Requests, Stop(r)
  PROVE  Consistent' /\ Kept
BY NothingWritten, OneReturns DEF Stop, instanceVars

\* Nothing changes.
LEMMA StutterConsistent ==
  ASSUME Consistent, UNCHANGED vars
  PROVE  Consistent' /\ Kept
BY NothingWritten, AllWait DEF vars, userVars, membershipVars, addressVars

\* The command line has made the first superusers and instances.
LEMMA InitConsistent ==
  ASSUME Init
  PROVE  Consistent
<1>1. UsersTyped
  <2>1. \A u \in 1..Superusers :
          [email |-> u, shown |-> u, enabled |-> TRUE, superuser |-> TRUE] \in User
    BY BootstrapAssumption, Zenon DEF User
  <2>2. users \in [1..Superusers -> User] /\ Superusers \in Nat
    BY <2>1, BootstrapAssumption DEF Init
  <2>3. QED
    BY <2>2, SeqDef DEF UsersTyped
<1>2. PICK n \in Nat : DOMAIN Kinds = 1..n /\ Kinds \in [1..n -> {"support", "invoicing"}]
  BY BootstrapAssumption, LenProperties
<1>3. \A i \in 1..n : /\ instances[i] \in Instance /\ instancesSeen[i] = {instances[i]}
                      /\ instances[i].public_submission_enabled = FALSE
  <2>1. \A i \in 1..n : [slug |-> i, shown |-> TRUE, deleted |-> FALSE, kind |-> Kinds[i],
                         public_submission_enabled |-> FALSE] \in Instance
    BY <1>2, BootstrapAssumption, Zenon DEF Instance
  <2>2. QED
    BY <1>2, <2>1 DEF Init
<1>4. DOMAIN instances = 1..n /\ DOMAIN instancesSeen = 1..n
      /\ instances = [i \in 1..n |-> instances[i]]
      /\ instancesSeen = [i \in 1..n |-> instancesSeen[i]]
  BY <1>2 DEF Init
<1>5. instances \in [1..n -> Instance] /\ instancesSeen \in [1..n -> SUBSET Instance]
  BY <1>3, <1>4
<1>6. instances \in Seq(Instance) /\ instancesSeen \in Seq(SUBSET Instance)
  BY <1>5, SeqDef
<1>7. Len(instances) = n /\ Len(instancesSeen) = n
  BY <1>4, <1>6, LenProperties, SMT
<1>8. InstancesSound
  BY <1>3, <1>6, <1>7 DEF InstancesSound, InstancesTyped, KindsSeen, PublicIsSupport
<1>9. AddressesSound
  <2>1. 0 \in 0..Len(instances)
    BY <1>7, SMT
  <2>2. QED
    BY <2>1 DEF Init, AddressesSound
<1>10. MembershipsSound
  BY EmptySeq, SMT DEF Init, MembershipsSound, MembershipsTyped, MembershipsRefer,
                       DismissedRefer, PartsAreKept, DismissedAreOut
<1>11. RequestsReady
  BY IdleIsReady DEF Init, RequestsReady
<1>12. QED
  BY <1>1, <1>8, <1>9, <1>10, <1>11 DEF Consistent

\* Whatever calls overlap or stop half way, the tables, their histories and the
\* calls in flight stay consistent, and no membership is put back.
LEMMA NextConsistent ==
  ASSUME Consistent, [Next]_vars
  PROVE  Consistent' /\ Kept
<1>1. CASE CatchUp
  BY <1>1, CatchUpConsistent
<1>2. ASSUME NEW r \in Requests, InstanceStep(r) PROVE Consistent' /\ Kept
  BY <1>2, CreateInstanceConsistent, UpdateInstanceConsistent, SetInstanceDeletedConsistent,
     InstancePutConsistent, InstanceUpdateConsistent, DeletedWriteConsistent DEF InstanceStep
<1>3. ASSUME NEW r \in Requests, UserStep(r) PROVE Consistent' /\ Kept
  BY <1>3, CreateUserConsistent, DeleteUserConsistent, UpdateUserConsistent, UserPutConsistent,
     EmailCheckConsistent, EmailWriteConsistent, FieldsWriteConsistent, UserDisableConsistent,
     UserMembershipsConsistent, MembershipDeleteConsistent DEF UserStep
<1>4. ASSUME NEW r \in Requests, MemberStep(r) PROVE Consistent' /\ Kept
  BY <1>4, AddMemberConsistent, SetMemberRoleConsistent, RemoveMemberConsistent,
     UpdateNotificationSettingsConsistent, MemberPutConsistent, RemoveWriteConsistent,
     UpdateWriteConsistent DEF MemberStep
<1>5. ASSUME NEW r \in Requests, AddressStep(r) PROVE Consistent' /\ Kept
  BY <1>5, AddInboundAddressConsistent, RemoveInboundAddressConsistent, AddressCheckConsistent,
     AddressPutConsistent, AddressDeleteConsistent DEF AddressStep
<1>6. CASE \E r \in Requests : Stop(r)
  BY <1>6, StopConsistent
<1>7. CASE UNCHANGED vars
  BY <1>7, StutterConsistent
<1>8. QED
  BY <1>1, <1>2, <1>3, <1>4, <1>5, <1>6, <1>7 DEF Next

-----------------------------------------------------------------------------
(* The theorems.                                                           *)

\* The inductive invariant: rows, histories and calls in flight agree.
THEOREM AdministrationIsConsistent == Spec => []Consistent
<1>1. Init => Consistent
  BY InitConsistent
<1>2. Consistent /\ [Next]_vars => Consistent'
  BY NextConsistent
<1>3. QED
  BY <1>1, <1>2, PTL DEF Spec

\* Type correctness, with what refers to what: memberships to users and instances
\* there are, addresses and public submission to instances for support.
THEOREM AdministrationTypeCorrect == Spec => []TypeOK
<1>1. Consistent => TypeOK
  BY DEF Consistent, UsersTyped, InstancesSound, InstancesTyped, PublicIsSupport, AddressesSound,
         MembershipsSound, MembershipsTyped, MembershipsRefer, RequestsReady, TypeOK
<1>2. QED
  BY <1>1, AdministrationIsConsistent, PTL

\* "Only the fields the patch sets are touched": setMemberRole and
\* updateNotificationSettings write the attributes they are about on the condition
\* that the row exists, so no overlap of calls loses what another wrote.
THEOREM PartsStayAsWritten == Spec => []PartsAreKept
<1>1. Consistent => PartsAreKept
  BY DEF Consistent, MembershipsSound
<1>2. QED
  BY <1>1, AdministrationIsConsistent, PTL

\* deleteUser, "written to converge on a retry after a partial failure": when it
\* answers, nothing is left of what the index listed when it was called.
THEOREM DismissedStayOut == Spec => []DismissedAreOut
<1>1. Consistent => DismissedAreOut
  BY DEF Consistent, MembershipsSound
<1>2. QED
  BY <1>1, AdministrationIsConsistent, PTL

\* A membership that was deleted is not put back by a role or a setting written by
\* a call that found it before.
THEOREM RemovalIsFinal == Spec => RemovedStayOut
<1>1. Consistent /\ [Next]_vars
        => [\A m \in 1..Len(memberships) : ~memberships[m].exists => ~memberships'[m].exists]_vars
  BY NextConsistent DEF Kept, MembershipsKept
<1>2. QED
  BY <1>1, AdministrationIsConsistent, PTL DEF Spec, RemovedStayOut
=============================================================================
