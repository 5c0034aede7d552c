\* Memberships, accounts, instances and addresses: up to three calls at a time
\* of each mix.
SPECIFICATION MixSpec
SYMMETRY Symmetry
CONSTANTS
    None = None
    Requests = {r1, r2, r3}
    Emails = {1, 2}
    Slugs = {1, 2, 3}
    Superusers = 1
    Kinds <- OneSupport
    Addresses = {a1}
    Settings = {"assigned_to_me", "assigned_to_others_updated"}
    Default <- MCDefault
    Offered = {"createInstance", "updateInstance", "setInstanceDeleted", "addInboundAddress",
               "removeInboundAddress", "createUser", "updateUser", "deleteUser", "addMember",
               "removeMember", "setMemberRole", "updateNotificationSettings"}
    MaxCalls = 5
CHECK_DEADLOCK FALSE
INVARIANTS
    PartsAreKept
    DismissedAreOut
    TypeOK
PROPERTIES
    RemovedStayOut
