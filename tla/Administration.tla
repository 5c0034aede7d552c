---------------------------- MODULE Administration ----------------------------
(***************************************************************************)
(* Instances, users, memberships and inbound addresses: the mutations by   *)
(* which superusers, owners and members manage them                        *)
(* (api/src/graphql/mutations.rs) and the DynamoDB writes they end in.     *)
(*                                                                         *)
(* An action is one storage call with the checks up to the next.  A call   *)
(* begins with its caller's authentication (see Login), whose outcome is   *)
(* read in one step with the first row.  Rows are read with eventual       *)
(* consistency, so a read may return an earlier state; an index shows a    *)
(* row some time after it was written.  Names, signatures and the          *)
(* normalisation of emails, slugs and addresses are left out.              *)
(***************************************************************************)
EXTENDS Integers, Sequences, FiniteSets

CONSTANTS
    Requests,
    Emails, Slugs,    \* as numbers; user n and instance n start with the nth
    Superusers,       \* accounts made by the command line at the start
    Kinds,            \* kinds of the instances it made
    Addresses,
    Settings,         \* notification settings of a membership
    Default,          \* the value each has when it was never set
    Offered,          \* the calls made
    MaxCalls,         \* bound
    None

ASSUME BootstrapAssumption ==
    /\ Superusers \in Nat \ {0} /\ Kinds \in Seq({"support", "invoicing"})
    /\ 1..Superusers \subseteq Emails /\ DOMAIN Kinds \subseteq Slugs
    /\ Default \in [Settings -> BOOLEAN]

VARIABLES
    users, usersSeen,          \* rows, and every state each has had
    instances, instancesSeen,
    memberships,
    addresses, addressesSeen,  \* which instance an address is mapped to, or 0
    wrote,      \* what was last written to each part of a membership: history
    dismissed,  \* memberships that a successful deleteUser was to delete: history
    revoked,    \* users removed from instances, and not added since: history
    said,       \* what setInstanceDeleted last answered of each instance: history
    requests, calls

vars == <<users, usersSeen, instances, instancesSeen, memberships, addresses,
          addressesSeen, wrote, dismissed, revoked, said, requests, calls>>
userVars == <<users, usersSeen>>
instanceVars == <<instances, instancesSeen, said>>
membershipVars == <<memberships, wrote, dismissed, revoked>>
addressVars == <<addresses, addressesSeen>>

-----------------------------------------------------------------------------
(* Rows                                                                    *)

\* shown: what the index by email has of the row.
User == [email : Emails, shown : Emails \cup {None}, enabled : BOOLEAN,
         superuser : BOOLEAN]

\* shown: whether the index by slug has the row.
Instance == [slug : Slugs, shown : BOOLEAN, deleted : BOOLEAN,
             kind : {"support", "invoicing"}, public_submission_enabled : BOOLEAN]

Roles == {"owner", "member"}

\* shown: whether the indexes by user and by instance have the row.
Membership == [user : Nat, instance : Nat, role : Roles, settings : [Settings -> BOOLEAN],
               exists : BOOLEAN, shown : BOOLEAN]

Steps == {"idle", "instancePut", "instanceUpdate", "deletedWrite", "userPut", "emailCheck",
          "emailWrite", "fieldsWrite", "userDisable", "userMemberships", "membershipDelete",
          "memberPut", "memberWrite", "addressCheck", "addressPut", "addressDelete"}

Patch == UNION {[S -> BOOLEAN] : S \in SUBSET Settings}

Request == [step : Steps, op : Offered \cup {None},
            user : Nat, instance : Nat, email : Emails \cup {None},
            slug : Slugs \cup {None}, address : Addresses \cup {None},
            flag : BOOLEAN,   \* enabled, deleted or public_submission_enabled
            kind : {"support", "invoicing"}, role : Roles, patch : Patch,
            row : Nat, was : Membership \cup {None},  \* the membership it found
            left : SUBSET Nat,   \* memberships still to delete
            owed : SUBSET [row : Nat, shown : BOOLEAN]]  \* those there when it was called

Idle == [step |-> "idle", op |-> None, user |-> 0, instance |-> 0, email |-> None,
         slug |-> None, address |-> None, flag |-> FALSE, kind |-> "support",
         role |-> "member", patch |-> [s \in {} |-> FALSE], row |-> 0, was |-> None,
         left |-> {}, owed |-> {}]

TypeOK ==
    /\ users \in Seq(User) /\ memberships \in Seq(Membership)
    /\ instances \in Seq(Instance)
    /\ \A i \in 1..Len(instances) :
         instances[i].public_submission_enabled => instances[i].kind = "support"
    /\ addresses \in [Addresses -> 0..Len(instances)]
    /\ \A a \in Addresses : addresses[a] # 0 => instances[addresses[a]].kind = "support"
    /\ \A m \in 1..Len(memberships) :
         memberships[m].user \in 1..Len(users) /\ memberships[m].instance \in 1..Len(instances)
    /\ requests \in [Requests -> Request]

Init ==
    /\ users = [u \in 1..Superusers |->
                  [email |-> u, shown |-> u, enabled |-> TRUE, superuser |-> TRUE]]
    /\ usersSeen = [u \in 1..Superusers |-> {users[u]}]
    /\ instances = [i \in DOMAIN Kinds |->
                      [slug |-> i, shown |-> TRUE, deleted |-> FALSE, kind |-> Kinds[i],
                       public_submission_enabled |-> FALSE]]
    /\ instancesSeen = [i \in DOMAIN Kinds |-> {instances[i]}]
    /\ memberships = <<>> /\ wrote = <<>> /\ dismissed = {} /\ revoked = {}
    /\ addresses = [a \in Addresses |-> 0]
    /\ addressesSeen = [a \in Addresses |-> {0}]
    /\ said = [i \in DOMAIN Kinds |-> FALSE]
    /\ requests = [r \in Requests |-> Idle] /\ calls = 0

SetUser(u, row) ==
    /\ users' = [users EXCEPT ![u] = row]
    /\ usersSeen' = [usersSeen EXCEPT ![u] = @ \cup {row}]
SetInstance(i, row) ==
    /\ instances' = [instances EXCEPT ![i] = row]
    /\ instancesSeen' = [instancesSeen EXCEPT ![i] = @ \cup {row}]
SetAddress(a, i) ==
    /\ addresses' = [addresses EXCEPT ![a] = i]
    /\ addressesSeen' = [addressesSeen EXCEPT ![a] = @ \cup {i}]

\* What the indexes show: get_user_id_by_email and get_instance_id_by_slug,
\* which fail when there are two, and the memberships of a user.
UsersWith(email) == {u \in 1..Len(users) : users[u].shown = email}
InstancesWith(slug) == {i \in 1..Len(instances) : instances[i].shown /\ instances[i].slug = slug}
ListedOf(u) == {m \in 1..Len(memberships) : memberships[m].shown /\ memberships[m].user = u}
ListedAt(u, i) == {m \in ListedOf(u) : memberships[m].instance = i}

\* An index catches up with a row.
CatchUp ==
    /\ \/ \E u \in 1..Len(users) :
            /\ users[u].shown # users[u].email
            /\ users' = [users EXCEPT ![u].shown = users[u].email]
            /\ UNCHANGED <<instances, memberships>>
       \/ \E i \in 1..Len(instances) :
            /\ ~instances[i].shown
            /\ instances' = [instances EXCEPT ![i].shown = TRUE]
            /\ UNCHANGED <<users, memberships>>
       \/ \E m \in 1..Len(memberships) :
            /\ memberships[m].shown # memberships[m].exists
            /\ memberships' = [memberships EXCEPT ![m].shown = memberships[m].exists]
            /\ UNCHANGED <<users, instances>>
    /\ UNCHANGED <<usersSeen, instancesSeen, said, addressVars, wrote, dismissed, revoked,
                   requests, calls>>

-----------------------------------------------------------------------------
(* Calls and who may make them                                             *)

\* What fetch_update_user_auth_info finds: an enabled user, maybe not so any more.
Authenticated(u) == \E row \in usersSeen[u] : row.enabled

is_member(u, i) == ListedAt(u, i) # {}
is_owner(u, i) == \E m \in ListedAt(u, i) : memberships[m].role = "owner"

\* AuthGuard: the requirements these calls carry.
Allowed(u, requirement, i) ==
    /\ Authenticated(u)
    /\ CASE requirement = "Superuser" -> users[u].superuser
         [] requirement = "InstanceOwnerOrSuperuser" -> users[u].superuser \/ is_owner(u, i)
         [] requirement = "Member" -> is_member(u, i)

Call(r, op, requirement, i) ==
    /\ requests[r].step = "idle" /\ op \in Offered /\ calls < MaxCalls
    /\ \E u \in 1..Len(users) : Allowed(u, requirement, i)
    /\ calls' = calls + 1

At(r, step) == requests[r].step = step /\ UNCHANGED calls
Enter(r, record) == requests' = [requests EXCEPT ![r] = record]
Goto(r, step) == requests' = [requests EXCEPT ![r].step = step]
Return(r) == requests' = [requests EXCEPT ![r] = Idle]

-----------------------------------------------------------------------------
(* Instances                                                               *)

\* The slug is looked up in the index.
CreateInstance(r, slug, kind, public) ==
    /\ Call(r, "createInstance", "Superuser", 0)
    /\ InstancesWith(slug) = {}
    /\ public => kind = "support"
    /\ Enter(r, [Idle EXCEPT !.step = "instancePut", !.op = "createInstance", !.slug = slug,
                             !.kind = kind, !.flag = public])
    /\ UNCHANGED <<userVars, instanceVars, membershipVars, addressVars>>

\* On the condition that its fresh id is not taken.
InstancePut(r) ==
    LET q == requests[r]
        row == [slug |-> q.slug, shown |-> FALSE, deleted |-> FALSE, kind |-> q.kind,
                public_submission_enabled |-> q.flag]
    IN
    /\ At(r, "instancePut")
    /\ instances' = Append(instances, row) /\ instancesSeen' = Append(instancesSeen, {row})
    /\ said' = Append(said, FALSE)
    /\ Return(r)
    /\ UNCHANGED <<userVars, membershipVars, addressVars>>

\* Mutated: an instance of any kind.
PublicFits_AnyKind(public, kind) == TRUE

PublicFits(public, kind) == public => kind = "support"

\* An instance's kind never changes, so any read of it will do.
UpdateInstance(r, i, public) ==
    /\ Call(r, "updateInstance", "Superuser", i)
    /\ PublicFits(public, instances[i].kind)
    /\ Enter(r, [Idle EXCEPT !.step = "instanceUpdate", !.op = "updateInstance", !.instance = i,
                             !.flag = public])
    /\ UNCHANGED <<userVars, instanceVars, membershipVars, addressVars>>

InstanceUpdate(r) ==
    LET q == requests[r] IN
    /\ At(r, "instanceUpdate")
    /\ SetInstance(q.instance, [instances[q.instance] EXCEPT !.public_submission_enabled = q.flag])
    /\ Return(r)
    /\ UNCHANGED <<userVars, said, membershipVars, addressVars>>

\* Written only when the row that was read says otherwise.
SetInstanceDeleted(r, i, deleted) ==
    \E read \in instancesSeen[i] :
        /\ Call(r, "setInstanceDeleted", "Superuser", i)
        /\ \/ /\ read.deleted # deleted
              /\ Enter(r, [Idle EXCEPT !.step = "deletedWrite", !.op = "setInstanceDeleted",
                                       !.instance = i, !.flag = deleted])
              /\ UNCHANGED said
           \/ /\ read.deleted = deleted /\ said' = [said EXCEPT ![i] = deleted]
              /\ UNCHANGED requests
        /\ UNCHANGED <<userVars, instances, instancesSeen, membershipVars, addressVars>>

DeletedWrite(r) ==
    LET q == requests[r] IN
    /\ At(r, "deletedWrite")
    /\ SetInstance(q.instance, [instances[q.instance] EXCEPT !.deleted = q.flag])
    /\ said' = [said EXCEPT ![q.instance] = q.flag]
    /\ Return(r)
    /\ UNCHANGED <<userVars, membershipVars, addressVars>>

-----------------------------------------------------------------------------
(* Users                                                                   *)

CreateUser(r, email) ==
    /\ Call(r, "createUser", "Superuser", 0)
    /\ UsersWith(email) = {}
    /\ Enter(r, [Idle EXCEPT !.step = "userPut", !.op = "createUser", !.email = email])
    /\ UNCHANGED <<userVars, instanceVars, membershipVars, addressVars>>

\* No condition: the id is fresh.
UserPut(r) ==
    LET row == [email |-> requests[r].email, shown |-> None, enabled |-> TRUE,
                superuser |-> FALSE] IN
    /\ At(r, "userPut")
    /\ users' = Append(users, row) /\ usersSeen' = Append(usersSeen, {row})
    /\ Return(r)
    /\ UNCHANGED <<instanceVars, membershipVars, addressVars>>

\* Nobody disables the account the call is made with.
UpdateUser(r, caller, u, email, enabled) ==
    \E read \in usersSeen[u] :
        /\ Call(r, "updateUser", "Superuser", 0)
        /\ Allowed(caller, "Superuser", 0) /\ (enabled \/ u # caller)
        /\ Enter(r, [Idle EXCEPT !.op = "updateUser", !.user = u, !.email = email,
                         !.flag = enabled,
                         !.step = IF email = read.email THEN "fieldsWrite" ELSE "emailCheck"])
        /\ UNCHANGED <<userVars, instanceVars, membershipVars, addressVars>>

\* get_user_id_by_email, which may find the account itself.
EmailCheck(r) ==
    /\ At(r, "emailCheck")
    /\ \/ UsersWith(requests[r].email) = {} /\ Goto(r, "emailWrite")
       \/ UsersWith(requests[r].email) # {} /\ Return(r)
    /\ UNCHANGED <<userVars, instanceVars, membershipVars, addressVars>>

\* The first of two writes.
EmailWrite(r) ==
    LET q == requests[r] IN
    /\ At(r, "emailWrite")
    /\ SetUser(q.user, [users[q.user] EXCEPT !.email = q.email])
    /\ Goto(r, "fieldsWrite")
    /\ UNCHANGED <<instanceVars, membershipVars, addressVars>>

FieldsWrite(r) ==
    LET q == requests[r] IN
    /\ At(r, "fieldsWrite")
    /\ SetUser(q.user, [users[q.user] EXCEPT !.enabled = q.flag])
    /\ Return(r)
    /\ UNCHANGED <<instanceVars, membershipVars, addressVars>>

\* The memberships it owes are those there when it was called.
DeleteUser(r, caller, u) ==
    LET held == {m \in 1..Len(memberships) : memberships[m].exists /\ memberships[m].user = u} IN
    /\ Call(r, "deleteUser", "Superuser", 0)
    /\ Allowed(caller, "Superuser", 0) /\ u # caller
    /\ Enter(r, [Idle EXCEPT !.step = "userDisable", !.op = "deleteUser", !.user = u,
                             !.owed = {[row |-> m, shown |-> memberships[m].shown] : m \in held}])
    /\ UNCHANGED <<userVars, instanceVars, membershipVars, addressVars>>

\* Mutated: an account that is disabled was deleted before.
UserDisable_Once(r) ==
    LET q == requests[r] IN
    /\ At(r, "userDisable")
    /\ SetUser(q.user, [users[q.user] EXCEPT !.enabled = FALSE])
    /\ \/ users[q.user].enabled /\ Goto(r, "userMemberships") /\ UNCHANGED dismissed
       \/ ~users[q.user].enabled /\ Return(r) /\ dismissed' = dismissed \cup q.owed
    /\ UNCHANGED <<instanceVars, memberships, wrote, revoked, addressVars>>

UserDisable(r) ==
    LET q == requests[r] IN
    /\ At(r, "userDisable")
    /\ SetUser(q.user, [users[q.user] EXCEPT !.enabled = FALSE])
    /\ Goto(r, "userMemberships")
    /\ UNCHANGED <<instanceVars, membershipVars, addressVars>>

UserMemberships(r) ==
    LET q == requests[r] IN
    /\ At(r, "userMemberships")
    /\ Enter(r, [q EXCEPT !.step = "membershipDelete", !.left = ListedOf(q.user)])
    /\ UNCHANGED <<userVars, instanceVars, membershipVars, addressVars>>

\* One after another, in whatever order they were listed; then it answers.
MembershipDelete(r) ==
    LET q == requests[r] IN
    /\ At(r, "membershipDelete")
    /\ \/ \E m \in q.left :
            /\ memberships' = [memberships EXCEPT ![m].exists = FALSE]
            /\ Enter(r, [q EXCEPT !.left = @ \ {m}])
            /\ UNCHANGED dismissed
       \/ /\ q.left = {} /\ dismissed' = dismissed \cup q.owed
          /\ Return(r)
          /\ UNCHANGED memberships
    /\ UNCHANGED <<userVars, instanceVars, wrote, revoked, addressVars>>

-----------------------------------------------------------------------------
(* Memberships                                                             *)

\* The instance and the user are there for good, so reading them refuses
\* nothing; between the two reads and the lookup nothing else is looked at.
AddMember(r, i, u, role) ==
    /\ Call(r, "addMember", "Superuser", i)
    /\ ListedAt(u, i) = {}
    /\ Enter(r, [Idle EXCEPT !.step = "memberPut", !.op = "addMember", !.instance = i, !.user = u,
                             !.role = role])
    /\ UNCHANGED <<userVars, instanceVars, membershipVars, addressVars>>

\* No condition: the id is fresh.
MemberPut(r) ==
    LET q == requests[r]
        row == [user |-> q.user, instance |-> q.instance, role |-> q.role,
                settings |-> Default, exists |-> TRUE, shown |-> FALSE]
    IN
    /\ At(r, "memberPut")
    /\ memberships' = Append(memberships, row)
    /\ wrote' = Append(wrote, [role |-> q.role, settings |-> Default])
    /\ revoked' = revoked \ {[user |-> q.user, instance |-> q.instance]}
    /\ Return(r)
    /\ UNCHANGED <<userVars, instanceVars, dismissed, addressVars>>

\* removeMember, setMemberRole and updateNotificationSettings take the first
\* membership of the instance the user's are listed with.
RemoveMember(r, i, u) ==
    \E m \in ListedAt(u, i) :
        /\ Call(r, "removeMember", "Superuser", i)
        /\ Enter(r, [Idle EXCEPT !.step = "memberWrite", !.op = "removeMember", !.instance = i,
                                 !.user = u, !.row = m])
        /\ UNCHANGED <<userVars, instanceVars, membershipVars, addressVars>>

SetMemberRole(r, i, u, role) ==
    \E m \in ListedAt(u, i) :
        /\ Call(r, "setMemberRole", "Superuser", i)
        /\ Enter(r, [Idle EXCEPT !.step = "memberWrite", !.op = "setMemberRole", !.instance = i,
                         !.user = u, !.row = m, !.was = memberships[m], !.role = role])
        /\ UNCHANGED <<userVars, instanceVars, membershipVars, addressVars>>

\* An empty patch writes nothing.
UpdateNotificationSettings(r, i, u, patch) ==
    \E m \in ListedAt(u, i) :
        /\ Call(r, "updateNotificationSettings", "Member", i)
        /\ DOMAIN patch # {}
        /\ Enter(r, [Idle EXCEPT !.step = "memberWrite", !.op = "updateNotificationSettings",
                         !.instance = i, !.user = u, !.row = m, !.was = memberships[m],
                         !.patch = patch])
        /\ UNCHANGED <<userVars, instanceVars, membershipVars, addressVars>>

\* delete_membership.
RemoveWrite(r) ==
    LET q == requests[r] IN
    /\ At(r, "memberWrite") /\ q.op = "removeMember"
    /\ memberships' = [memberships EXCEPT ![q.row].exists = FALSE]
    /\ revoked' = revoked \cup {[user |-> q.user, instance |-> q.instance]}
    /\ Return(r)
    /\ UNCHANGED <<userVars, instanceVars, wrote, dismissed, addressVars>>

Patched(settings, patch) ==
    [s \in Settings |-> IF s \in DOMAIN patch THEN patch[s] ELSE settings[s]]

\* Mutated: the row that was found, changed and put back.
Updated_WholeRow(q, row) ==
    IF q.op = "setMemberRole" THEN [q.was EXCEPT !.role = q.role]
    ELSE [q.was EXCEPT !.settings = Patched(@, q.patch)]

\* update_membership_role and update_membership_notification_settings write the
\* attributes they are about.
Updated(q, row) ==
    IF q.op = "setMemberRole" THEN [row EXCEPT !.role = q.role]
    ELSE [row EXCEPT !.settings = Patched(@, q.patch)]

\* Mutated: UpdateItem without its condition.
WriteMembership_Upsert(q) ==
    memberships' = [memberships EXCEPT ![q.row] = [Updated(q, @) EXCEPT !.exists = TRUE]]

WriteMembership(q) ==
    memberships[q.row].exists /\ memberships' = [memberships EXCEPT ![q.row] = Updated(q, @)]

\* What the call asks of the parts of a membership: of a role, or of settings.
Asked(q, parts) ==
    IF q.op = "setMemberRole" THEN [parts EXCEPT !.role = q.role]
    ELSE [parts EXCEPT !.settings = Patched(@, q.patch)]

UpdateWrite(r) ==
    LET q == requests[r] IN
    /\ At(r, "memberWrite") /\ q.op # "removeMember"
    /\ WriteMembership(q)
    /\ wrote' = [wrote EXCEPT ![q.row] = Asked(q, @)]
    /\ Return(r)
    /\ UNCHANGED <<userVars, instanceVars, dismissed, revoked, addressVars>>

-----------------------------------------------------------------------------
(* Inbound addresses                                                       *)

\* The instance is one for support, and was not deleted when it was read.
AddInboundAddress(r, i, a) ==
    /\ Call(r, "addInboundAddress", "InstanceOwnerOrSuperuser", i)
    /\ \E read \in instancesSeen[i] : ~read.deleted /\ read.kind = "support"
    /\ Enter(r, [Idle EXCEPT !.step = "addressCheck", !.op = "addInboundAddress", !.instance = i,
                             !.address = a])
    /\ UNCHANGED <<userVars, instanceVars, membershipVars, addressVars>>

\* get_inbound_address.
AddressCheck(r) ==
    LET a == requests[r].address IN
    /\ At(r, "addressCheck")
    /\ \/ 0 \in addressesSeen[a] /\ Goto(r, "addressPut")
       \/ addressesSeen[a] # {0} /\ Return(r)
    /\ UNCHANGED <<userVars, instanceVars, membershipVars, addressVars>>

\* No condition, though the address is the key.
AddressPut(r) ==
    LET q == requests[r] IN
    /\ At(r, "addressPut")
    /\ SetAddress(q.address, q.instance)
    /\ Return(r)
    /\ UNCHANGED <<userVars, instanceVars, membershipVars>>

RemoveInboundAddress(r, i, a) ==
    /\ Call(r, "removeInboundAddress", "InstanceOwnerOrSuperuser", i)
    /\ i \in addressesSeen[a]
    /\ Enter(r, [Idle EXCEPT !.step = "addressDelete", !.op = "removeInboundAddress", !.instance = i,
                             !.address = a])
    /\ UNCHANGED <<userVars, instanceVars, membershipVars, addressVars>>

\* delete_inbound_address: by its key, no condition.
AddressDelete(r) ==
    /\ At(r, "addressDelete")
    /\ SetAddress(requests[r].address, 0)
    /\ Return(r)
    /\ UNCHANGED <<userVars, instanceVars, membershipVars>>

\* Whatever it was doing, an invocation can end.
Stop(r) ==
    /\ requests[r].step # "idle" /\ Return(r)
    /\ UNCHANGED <<userVars, instanceVars, membershipVars, addressVars, calls>>

-----------------------------------------------------------------------------

InstanceStep(r) ==
    \/ \E slug \in Slugs, kind \in {"support", "invoicing"}, public \in BOOLEAN :
         CreateInstance(r, slug, kind, public)
    \/ \E i \in 1..Len(instances), b \in BOOLEAN :
         UpdateInstance(r, i, b) \/ SetInstanceDeleted(r, i, b)
    \/ InstancePut(r) \/ InstanceUpdate(r) \/ DeletedWrite(r)

UserStep(r) ==
    \/ \E email \in Emails : CreateUser(r, email)
    \/ \E caller, u \in 1..Len(users) :
         \/ DeleteUser(r, caller, u)
         \/ \E email \in Emails, b \in BOOLEAN : UpdateUser(r, caller, u, email, b)
    \/ UserPut(r) \/ EmailCheck(r) \/ EmailWrite(r) \/ FieldsWrite(r)
    \/ UserDisable(r) \/ UserMemberships(r) \/ MembershipDelete(r)

MemberStep(r) ==
    \/ \E i \in 1..Len(instances), u \in 1..Len(users) :
         \/ \E role \in Roles : AddMember(r, i, u, role) \/ SetMemberRole(r, i, u, role)
         \/ RemoveMember(r, i, u)
         \/ \E patch \in Patch : UpdateNotificationSettings(r, i, u, patch)
    \/ MemberPut(r) \/ RemoveWrite(r) \/ UpdateWrite(r)

AddressStep(r) ==
    \/ \E i \in 1..Len(instances), a \in Addresses :
         AddInboundAddress(r, i, a) \/ RemoveInboundAddress(r, i, a)
    \/ AddressCheck(r) \/ AddressPut(r) \/ AddressDelete(r)

Next ==
    \/ CatchUp
    \/ \E r \in Requests :
         InstanceStep(r) \/ UserStep(r) \/ MemberStep(r) \/ AddressStep(r) \/ Stop(r)

Spec == Init /\ [][Next]_vars

-----------------------------------------------------------------------------
(* Properties                                                              *)

\* "Written to converge on a retry after a partial failure": when deleteUser
\* answers, nothing is left of what the index listed when it was called, though
\* earlier calls were cut short and roles and settings were written meanwhile.
DismissedAreOut == \A d \in dismissed : d.shown => ~memberships[d.row].exists

\* "removes every membership they hold".
DismissedHoldNothing == \A d \in dismissed : ~memberships[d.row].exists

\* A membership that was deleted is not put back by a role or a setting written
\* by a call that found it before.  (The put that created it has no condition; that
\* the SDK sends it again after the deletion is not modelled.)
RemovedStayOut ==
    [][\A m \in 1..Len(memberships) : ~memberships[m].exists => ~memberships'[m].exists]_vars

\* "Only the fields the patch sets are touched": a role, and each setting, is
\* what was last written to it, whatever calls overlap.
PartsAreKept ==
    \A m \in 1..Len(memberships) :
        /\ memberships[m].role = wrote[m].role
        /\ memberships[m].settings = wrote[m].settings

\* "Revoke userId's membership in instanceId": after removeMember the user is
\* not a member.
RevokedAreOut ==
    \A p \in revoked : \A m \in 1..Len(memberships) :
        memberships[m].user = p.user /\ memberships[m].instance = p.instance
            => ~memberships[m].exists

\* Two instances come to share a slug only when two callers race.
SlugsAreUnique == \A i, j \in 1..Len(instances) : instances[i].slug = instances[j].slug => i = j

\* setInstanceDeleted leaves the instance as it answers: "a no-op transition
\* (already at the requested state) still succeeds".
AnsweredIsSo == \A i \in 1..Len(instances) : instances[i].deleted = said[i]

\* An address that is mapped stays with its instance until it is removed:
\* addInboundAddress answers "already mapped".
AddressesNotTaken ==
    [][\A a \in Addresses : addresses[a] # 0 => addresses'[a] \in {0, addresses[a]}]_vars

\* removeInboundAddress removes addresses of the instance it was called for:
\* one that "belongs to a different instance" is not found.
OwnAddressesRemoved ==
    [][\A r \in Requests :
          requests[r].step = "addressDelete" /\ requests'[r].step = "idle"
          /\ addresses[requests[r].address] # 0 /\ addresses'[requests[r].address] = 0
              => addresses[requests[r].address] = requests[r].instance]_vars
=============================================================================
