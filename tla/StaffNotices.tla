---------------------------- MODULE StaffNotices ----------------------------
(***************************************************************************)
(* Who among an instance's members is mailed about a ticket event, and why *)
(* (api/src/staff_notify.rs).                                              *)
(*                                                                         *)
(* An event is [kind, old, new]; old and new are the assignees of an       *)
(* "assigned" event, or the statuses of a "statusChanged" one.  A member's *)
(* settings are the set of reasons for which they want mail: the five      *)
(* optional attributes of the membership row.                              *)
(***************************************************************************)
EXTENDS Naturals

CONSTANTS
    Users,      \* ids of users
    MailboxOf,  \* each user's address
    Nobody      \* no user

ASSUME NobodyAssumption == Nobody \notin Users

Reasons == {"newTicket", "assignedToMe", "assignedToMeUpdated",
            "unassignedUpdated", "assignedToOthersUpdated"}

\* NotificationSettings::default()
DefaultSettings == Reasons \ {"assignedToOthersUpdated"}

Updates == {"customerMessage", "agentReply", "internalNote", "statusChanged"}

Event(kind) == [kind |-> kind, old |-> Nobody, new |-> Nobody]

StatusChanged(old, new) == [kind |-> "statusChanged", old |-> old, new |-> new]
Assigned(old, new)      == [kind |-> "assigned", old |-> old, new |-> new]

\* A membership after updateNotificationSettings: the patch names the fields
\* it sets and leaves the others.
merged_onto(on, off, current) == (current \ off) \cup on

\* Mutated: an assignment is told to whoever follows other people's tickets.
reason_for_FansOut(user, wanted, assignee, event) ==
    \/ event.kind = "newTicket" /\ "newTicket" \in wanted
    \/ event.kind = "assigned" /\ event.new = user /\ "assignedToMe" \in wanted
    \/ event.kind = "assigned" /\ event.new # user /\ "assignedToMeUpdated" \in wanted
    \/ event.kind \in Updates /\ assignee = user /\ "assignedToMeUpdated" \in wanted
    \/ event.kind \in Updates /\ assignee = Nobody /\ "unassignedUpdated" \in wanted
    \/ event.kind \in Updates /\ assignee \notin {user, Nobody}
                              /\ "assignedToOthersUpdated" \in wanted

\* reason_for: does this event give the user a reason among those wanted?
\* An assignment concerns only the two people it is about.
reason_for(user, wanted, assignee, event) ==
    \/ event.kind = "newTicket" /\ "newTicket" \in wanted
    \/ event.kind = "assigned" /\ event.new = user /\ "assignedToMe" \in wanted
    \/ event.kind = "assigned" /\ event.new # user /\ event.old = user
                               /\ "assignedToMeUpdated" \in wanted
    \/ event.kind \in Updates /\ assignee = user /\ "assignedToMeUpdated" \in wanted
    \/ event.kind \in Updates /\ assignee = Nobody /\ "unassignedUpdated" \in wanted
    \/ event.kind \in Updates /\ assignee \notin {user, Nobody}
                              /\ "assignedToOthersUpdated" \in wanted

\* An actor is a user's id or the address of whoever wrote.
is_actor(user, actor) == actor \in {user, MailboxOf[user]}

\* select_recipients: among the enabled members, for a ticket that is not
\* deleted, everyone but the actor who has a reason.
select_recipients(members, settings, status, assignee, actor, event) ==
    {u \in members : /\ status # "deleted"
                     /\ ~is_actor(u, actor)
                     /\ reason_for(u, settings[u], assignee, event)}
=============================================================================
