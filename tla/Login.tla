--------------------------------- MODULE Login ---------------------------------
(***************************************************************************)
(* Email codes and what they buy: the login codes of agents and their      *)
(* sessions, and the codes and submit tokens of the public submit form     *)
(* (api/src/graphql/mutations.rs, api/src/auth.rs, api/src/dynamodb.rs).   *)
(*                                                                         *)
(* Both kinds of code are one row each: a login code's key is the address  *)
(* (table login_code), a submit code's is made of instance and address     *)
(* (table ephemeral_state).  Every resolver runs in its own invocation; an *)
(* action is one storage call or send with the checks up to the next, and  *)
(* a resolver can stop after any of them.  GetItem and the indexes are     *)
(* eventually consistent.  Writes to these tables have no condition, the   *)
(* touch of a session excepted.                                            *)
(*                                                                         *)
(* A code is the position of its row in  issued : two draws of the same    *)
(* six digits are not modelled, nor are the hashes.  Durations are         *)
(* CONSTANTS, in the same proportions as expire.rs.                        *)
(***************************************************************************)
EXTENDS Integers, Sequences, FiniteSets

CONSTANTS
    Requests,     \* invocations that may be in flight at once
    Users, Addresses, Instances,
    AccountOf,    \* the user each address belongs to, or Nobody
    Public,       \* instances whose submit form is open
    ResendAfter, MaxAttempts, CodeLife, TokenLife, SessionLife, TouchAfter,
    Lag,          \* whether an unconditional read may return an earlier row
    Offered,      \* the mutations clients call
    MaxTime, MaxCodes, MaxSessions, MaxCalls,  \* bounds
    None, Nobody

ASSUME AccountsAssumption == AccountOf \in [Addresses -> Users \cup {Nobody}]
ASSUME PublicAssumption == Public \subseteq Instances
ASSUME DurationsAssumption ==
    {ResendAfter, MaxAttempts, CodeLife, TokenLife, SessionLife, TouchAfter} \subseteq Nat \ {0}
ASSUME LagAssumption == Lag \in BOOLEAN
ASSUME BoundAssumption == MaxTime \in Nat

VARIABLES
    now,       \* the clock
    users,     \* whether each user is enabled
    userSeen,  \* what get_users may return
    codes,     \* the code rows, by key
    codeSeen,  \* every row each key has had
    issued,    \* the codes stored so far: history
    mailed,    \* those that were mailed
    refusals,  \* requests answered "too soon": history
    sessions,  \* the user_token table
    sessSeen,  \* what its reads may return
    tokens,    \* the submit tokens in ephemeral_state
    requests, calls

codeVars == <<codes, codeSeen, issued>>
sessionVars == <<sessions, sessSeen>>
vars == <<now, users, userSeen, codes, codeSeen, issued, mailed, refusals,
          sessions, sessSeen, tokens, requests, calls>>

-----------------------------------------------------------------------------
(* Rows                                                                    *)

\* Mutated: one slot per address, shared with the login codes.
SubmitKey_ByEmail(i, a) == a

submit_code_state_id(i, a) == <<i, a>>

Keys == Addresses \cup {submit_code_state_id(i, a) : i \in Instances, a \in Addresses}

ASSUME KeysAssumption == Addresses \cap (Instances \X Addresses) = {}
ASSUME NoneAssumption ==
    /\ None \notin Nat /\ None \notin Addresses /\ None \notin Instances
    /\ Nobody \notin Users

\* A code row; code None: a row that has nothing but a count.
CodeRow == [code : Nat \cup {None}, attempts : Nat, expires_at : Nat, last_sent_at : Nat]

\* ADD creates the row it does not find.
Ghost == [code |-> None, attempts |-> 1, expires_at |-> 0, last_sent_at |-> 0]

\* A session: user_token row, the code it was given for, when it was last
\* served (history), and whether the row exists.
Session == [user : Users, code : Nat, created_at : Nat, expires_at : Nat,
            last_used_at : Nat \cup {None}, served : Nat \cup {None}, exists : BOOLEAN]

SubmitToken == [email : Addresses, instance : Instances, code : Nat, expires_at : Nat]

Steps == {"idle", "codePut", "codeMail", "verifyCount", "verifyDelete", "issue",
          "discard", "touch", "principal", "logout"}

Request == [step    : Steps,
            email   : Addresses \cup {None},
            inst    : Instances \cup {None},   \* None: a login code
            at      : Nat,                   \* the clock it read
            row     : CodeRow \cup {None},   \* the row it read
            typed   : Nat,                   \* the code the caller typed
            session : Nat,                   \* the session presented
            leaves  : BOOLEAN]               \* whether the call is logout

Idle == [step |-> "idle", email |-> None, inst |-> None, at |-> 0,
         row |-> None, typed |-> 0, session |-> 0, leaves |-> FALSE]

\* The row a request is about.
KeyFor(i, a) == IF i = None THEN a ELSE submit_code_state_id(i, a)
KeyOf(r) == KeyFor(requests[r].inst, requests[r].email)

TypeOK ==
    /\ now \in 0..MaxTime
    /\ users \in [Users -> BOOLEAN] /\ userSeen \in [Users -> SUBSET BOOLEAN]
    /\ codes \in [Keys -> CodeRow \cup {None}]
    /\ \A k \in Keys : codes[k] \in codeSeen[k]
    /\ issued \in Seq([inst : Instances \cup {None}, email : Addresses, at : Nat, counted : Nat])
    /\ mailed \subseteq 1..Len(issued)
    /\ sessions \in Seq(Session) /\ tokens \subseteq SubmitToken
    /\ requests \in [Requests -> Request]

Init ==
    /\ now = 0
    /\ users = [u \in Users |-> TRUE] /\ userSeen = [u \in Users |-> {TRUE}]
    /\ codes = [k \in Keys |-> None] /\ codeSeen = [k \in Keys |-> {None}]
    /\ issued = <<>> /\ mailed = {} /\ refusals = {}
    /\ sessions = <<>> /\ sessSeen = <<>> /\ tokens = {}
    /\ requests = [r \in Requests |-> Idle] /\ calls = 0

-----------------------------------------------------------------------------
(* Calls                                                                   *)

Call(r, op) ==
    /\ requests[r].step = "idle" /\ op \in Offered /\ calls < MaxCalls
    /\ calls' = calls + 1

At(r, step) == requests[r].step = step /\ UNCHANGED calls
Enter(r, record) == requests' = [requests EXCEPT ![r] = record]
Goto(r, step) == requests' = [requests EXCEPT ![r].step = step]
Return(r) == requests' = [requests EXCEPT ![r] = Idle]

Stored(k) == IF Lag THEN codeSeen[k] ELSE {codes[k]}

Put(k, row) ==
    /\ codes' = [codes EXCEPT ![k] = row]
    /\ codeSeen' = [codeSeen EXCEPT ![k] = @ \cup {row}]

Tick == /\ now < MaxTime /\ now' = now + 1
        /\ UNCHANGED <<users, userSeen, codes, codeSeen, issued, mailed, refusals,
                       sessions, sessSeen, tokens, requests, calls>>

\* The TTL of both tables removes a row some time after its expires_at.
Expire(k) ==
    /\ codes[k] # None /\ codes[k].code # None /\ codes[k].expires_at <= now
    /\ Put(k, None)
    /\ UNCHANGED <<now, users, userSeen, issued, mailed, refusals, sessions,
                   sessSeen, tokens, requests, calls>>

\* updateUser, as far as it concerns a login (see Administration).
SetEnabled(u) ==
    /\ "updateUser" \in Offered /\ calls < MaxCalls /\ calls' = calls + 1
    /\ \E on \in BOOLEAN :
        /\ users' = [users EXCEPT ![u] = on]
        /\ userSeen' = [userSeen EXCEPT ![u] = @ \cup {on}]
    /\ UNCHANGED <<now, codes, codeSeen, issued, mailed, refusals, sessions,
                   sessSeen, tokens, requests>>

UserOn(u, on) == on \in (IF Lag THEN userSeen[u] ELSE {users[u]})

-----------------------------------------------------------------------------
(* Asking for a code                                                       *)

TooSoon(row, at) == row # None /\ row.code # None /\ at < row.last_sent_at + ResendAfter

\* Mutated: a row that cannot be read refuses the request.
Refused_OnError(row, at) == row # None /\ (row.code = None \/ at < row.last_sent_at + ResendAfter)

\* Only a row that is there and can be read refuses: a ghost does not.
Refused(row, at) == TooSoon(row, at)

\* requestAuthCode and requestSubmitCode, up to the put: who may have a code,
\* then the rate limit.
RequestRead(r, i, a) ==
    /\ \E row \in Stored(KeyFor(i, a)) :
        IF Refused(row, now)
        THEN /\ refusals' = refusals \cup {[inst |-> i, email |-> a, at |-> now]}
             /\ UNCHANGED requests
        ELSE /\ Enter(r, [Idle EXCEPT !.step = "codePut", !.inst = i, !.email = a, !.at = now])
             /\ UNCHANGED refusals
    /\ UNCHANGED <<now, users, userSeen, codes, codeSeen, issued, mailed, sessions,
                   sessSeen, tokens>>

RequestAuthCode(r, a) ==
    /\ Call(r, "requestAuthCode")
    /\ AccountOf[a] # Nobody /\ UserOn(AccountOf[a], TRUE)
    /\ RequestRead(r, None, a)

RequestSubmitCode(r, i, a) ==
    /\ Call(r, "requestSubmitCode")
    /\ i \in Public
    /\ RequestRead(r, i, a)

\* The row of a code just put; it has no count yet.
NewCode(c, at) == [code |-> c, attempts |-> 0, expires_at |-> at + CodeLife, last_sent_at |-> at]

\* put_login_code, or put_ephemeral_state: whatever the row is by now.  If the
\* response is lost, the SDK sends the put again, and what was counted is gone.
CodePut(r) ==
    LET q == requests[r]
        c == IF q.typed = 0 THEN Len(issued) + 1 ELSE q.typed
    IN
    /\ At(r, "codePut")
    /\ IF q.typed = 0
       THEN /\ Len(issued) < MaxCodes
            /\ issued' = Append(issued, [inst |-> q.inst, email |-> q.email, at |-> q.at, counted |-> 0])
       ELSE issued' = [issued EXCEPT ![c].counted = 0]
    /\ Put(KeyOf(r), NewCode(c, q.at))
    /\ \E step \in {"codePut", "codeMail"} : Enter(r, [q EXCEPT !.step = step, !.typed = c])
    /\ UNCHANGED <<now, users, userSeen, mailed, refusals, sessions, sessSeen, tokens>>

\* A send that fails is logged, and the caller told nothing else.
CodeMail(r) ==
    /\ At(r, "codeMail")
    /\ mailed' \in {mailed, mailed \cup {requests[r].typed}}
    /\ Return(r)
    /\ UNCHANGED <<now, users, userSeen, codes, codeSeen, issued, refusals,
                   sessions, sessSeen, tokens>>

-----------------------------------------------------------------------------
(* Typing a code                                                           *)

\* verifyAuthCode and verifySubmitCode, up to their first write.  0 stands for
\* digits nobody was sent.
VerifyRead(r, i, a) ==
    /\ \E row \in Stored(KeyFor(i, a)) \ {None}, typed \in mailed \cup {0} :
        /\ row.code # None
        /\ Enter(r, [Idle EXCEPT !.inst = i, !.email = a, !.at = now, !.row = row, !.typed = typed,
                     !.step = IF now >= row.expires_at \/ row.attempts >= MaxAttempts
                              THEN "discard" ELSE "verifyCount"])
    /\ UNCHANGED <<now, users, userSeen, codes, codeSeen, issued, mailed, refusals,
                   sessions, sessSeen, tokens>>

VerifyAuthCode(r, a) == Call(r, "verifyAuthCode") /\ VerifyRead(r, None, a)

VerifySubmitCode(r, i, a) == Call(r, "verifySubmitCode") /\ VerifyRead(r, i, a)

\* Mutated: the count is written back from the row that was read.
increment_login_code_attempts_Put(k, row) == Put(k, [row EXCEPT !.attempts = @ + 1])

\* ADD attempts 1, on whatever row is there by now.
increment_login_code_attempts(k, row) ==
    Put(k, IF codes[k] = None THEN Ghost ELSE [codes[k] EXCEPT !.attempts = @ + 1])

\* Mutated: the write back counts as a code sent.
PutAttempts_Resent(k, row, at) ==
    Put(k, [row EXCEPT !.attempts = @ + 1, !.last_sent_at = at])

\* The submit code's payload is put back as it was read, but for the count.
PutAttempts(k, row, at) == Put(k, [row EXCEPT !.attempts = @ + 1])

\* Counted before it is compared; a count that fails is ignored.
VerifyCount(r) ==
    LET q == requests[r] IN
    /\ At(r, "verifyCount")
    /\ \/ /\ IF q.inst = None THEN increment_login_code_attempts(KeyOf(r), q.row)
                               ELSE PutAttempts(KeyOf(r), q.row, q.at)
          /\ issued' = [issued EXCEPT ![q.row.code].counted = @ + 1]
       \/ UNCHANGED codeVars
    /\ IF q.typed = q.row.code THEN Goto(r, "verifyDelete") ELSE Return(r)
    /\ UNCHANGED <<now, users, userSeen, mailed, refusals, sessions, sessSeen, tokens>>

Deletes(r, step) ==
    /\ \/ Put(KeyOf(r), None)
       \/ UNCHANGED <<codes, codeSeen>>
    /\ step
    /\ UNCHANGED <<now, users, userSeen, issued, mailed, refusals, sessions,
                   sessSeen, tokens>>

\* An expired or used up code; a delete that fails is ignored.
Discard(r) == At(r, "discard") /\ Deletes(r, Return(r))
VerifyDelete(r) == At(r, "verifyDelete") /\ Deletes(r, Goto(r, "issue"))

\* create_user_token, for a user read to be enabled.
IssueSession(r) ==
    LET q == requests[r]
        u == AccountOf[q.email]
        row == [user |-> u, code |-> q.typed, created_at |-> now,
                expires_at |-> now + SessionLife, last_used_at |-> None,
                served |-> None, exists |-> TRUE]
    IN
    /\ At(r, "issue") /\ q.inst = None /\ Len(sessions) < MaxSessions
    /\ IF u # Nobody /\ UserOn(u, TRUE)
       THEN sessions' = Append(sessions, row) /\ sessSeen' = Append(sessSeen, {row})
       ELSE UNCHANGED sessionVars
    /\ Return(r)
    /\ UNCHANGED <<now, users, userSeen, codes, codeSeen, issued, mailed, refusals, tokens>>

\* Mutated: email and instance in the other order.
SubmitTokenRow_Swapped(i, a, code) ==
    [email |-> i, instance |-> a, code |-> code, expires_at |-> now + TokenLife]

SubmitTokenRow(i, a, code) ==
    [email |-> a, instance |-> i, code |-> code, expires_at |-> now + TokenLife]

\* issue_submit_token.
IssueSubmitToken(r) ==
    LET q == requests[r] IN
    /\ At(r, "issue") /\ q.inst # None
    /\ tokens' = tokens \cup {SubmitTokenRow(q.inst, q.email, q.typed)}
    /\ Return(r)
    /\ UNCHANGED <<now, users, userSeen, codes, codeSeen, issued, mailed, refusals,
                   sessions, sessSeen>>

-----------------------------------------------------------------------------
(* Using a session                                                         *)

Stale(row, at) == row.last_used_at = None \/ at > row.last_used_at + TouchAfter

SetSession(s, row) ==
    /\ sessions' = [sessions EXCEPT ![s] = row]
    /\ sessSeen' = [sessSeen EXCEPT ![s] = @ \cup {row}]

\* verify_token_with_user_token: the row by the index and its fetch, neither
\* consistent; it may be one that was deleted since.
Authenticate(r, s) ==
    /\ \E op \in {"query", "logout"} :
        /\ Call(r, op)
        /\ \E row \in (IF Lag THEN sessSeen[s] ELSE {sessions[s]}) :
            /\ row.exists /\ now < row.expires_at
            /\ Enter(r, [Idle EXCEPT !.session = s, !.leaves = op = "logout", !.at = now,
                         !.step = IF Stale(row, now) THEN "touch" ELSE "principal"])
    /\ UNCHANGED <<now, users, userSeen, codes, codeSeen, issued, mailed, refusals,
                   sessions, sessSeen, tokens>>

\* Mutated: UpdateItem without a condition makes the row it does not find.
TouchLastUsed_Upsert(s) ==
    SetSession(s, [sessions[s] EXCEPT !.last_used_at = now, !.expires_at = now + SessionLife,
                                      !.exists = TRUE])

\* Mutated: last_used_at alone.
TouchLastUsed_NotExtended(s) ==
    sessions[s].exists /\ SetSession(s, [sessions[s] EXCEPT !.last_used_at = now])

\* On the condition that the row exists: last_used_at, and eight hours from now.
TouchLastUsed(s) ==
    /\ sessions[s].exists
    /\ SetSession(s, [sessions[s] EXCEPT !.last_used_at = now, !.expires_at = now + SessionLife])

\* A touch that fails, the row being gone, fails the call.
Touch(r) ==
    /\ At(r, "touch")
    /\ TouchLastUsed(requests[r].session)
    /\ Goto(r, "principal")
    /\ UNCHANGED <<now, users, userSeen, codes, codeSeen, issued, mailed, refusals, tokens>>

\* fetch_update_user_auth_info: the user is read enabled, and the call served.
Principal(r) ==
    LET s == requests[r].session IN
    /\ At(r, "principal")
    /\ UserOn(sessions[s].user, TRUE)
    /\ sessions' = [sessions EXCEPT ![s].served = requests[r].at]
    /\ IF requests[r].leaves THEN Goto(r, "logout") ELSE Return(r)
    /\ UNCHANGED <<now, users, userSeen, codes, codeSeen, issued, mailed, refusals,
                   sessSeen, tokens>>

\* delete_user_token.
Logout(r) ==
    LET s == requests[r].session IN
    /\ At(r, "logout")
    /\ SetSession(s, [sessions[s] EXCEPT !.exists = FALSE])
    /\ Return(r)
    /\ UNCHANGED <<now, users, userSeen, codes, codeSeen, issued, mailed, refusals, tokens>>

\* Whatever it was doing, an invocation can end.
Stop(r) ==
    /\ requests[r].step # "idle" /\ Return(r)
    /\ UNCHANGED <<now, users, userSeen, codes, codeSeen, issued, mailed, refusals,
                   sessions, sessSeen, tokens, calls>>

-----------------------------------------------------------------------------

AuthCode(r) ==
    \E a \in Addresses :
        RequestAuthCode(r, a) \/ VerifyAuthCode(r, a)
SubmitCode(r) ==
    \E i \in Instances, a \in Addresses :
        RequestSubmitCode(r, i, a) \/ VerifySubmitCode(r, i, a)
CodeStep(r) ==
    \/ CodePut(r) \/ CodeMail(r) \/ VerifyCount(r) \/ Discard(r) \/ VerifyDelete(r)
    \/ IssueSession(r) \/ IssueSubmitToken(r)
SessionStep(r) ==
    \/ \E s \in 1..Len(sessions) : Authenticate(r, s)
    \/ Touch(r) \/ Principal(r) \/ Logout(r)

Next ==
    \/ Tick
    \/ \E k \in Keys : Expire(k)
    \/ \E u \in Users : SetEnabled(u)
    \/ \E r \in Requests : AuthCode(r) \/ SubmitCode(r) \/ CodeStep(r) \/ SessionStep(r) \/ Stop(r)

Spec == Init /\ [][Next]_vars

-----------------------------------------------------------------------------
(* Properties                                                              *)

\* What a code buys is what it was mailed for.  A session has the code that was
\* mailed to its user's address to log in with, a submit token one mailed to its
\* address for its instance: no flow accepts the other's code
\* (SUBMIT_CODE_STATE_KIND), however requests and verifications interleave.
CodesBuyTheirOwn ==
    /\ \A s \in 1..Len(sessions) :
        LET c == sessions[s].code IN
        c \in mailed /\ issued[c].inst = None /\ AccountOf[issued[c].email] = sessions[s].user
    /\ \A t \in tokens :
        t.code \in mailed /\ issued[t.code].inst = t.instance /\ issued[t.code].email = t.email

\* No attempt counted since its code was put is forgotten, and so none since it was
\* mailed: the row of a login code counts every verification that read it and was
\* counted, however many run at once (increment_login_code_attempts, before the
\* comparison).  It says nothing of verifications that have not counted yet, which
\* LOGIN_CODE_MAX_ATTEMPTS does not bound.
LoginAttemptsKept ==
    \A a \in Addresses :
        codes[a] # None /\ codes[a].code # None => codes[a].attempts >= issued[codes[a].code].counted

\* The same of submit codes, which verify_submit_code says to count "mirroring
\* verify_auth_code".
SubmitAttemptsKept ==
    \A k \in Keys \ Addresses :
        codes[k] # None => codes[k].attempts >= issued[codes[k].code].counted

\* Whoever is refused a code was given one within the window: no row left by a
\* late write, no unreadable row keeps an address from logging in.
RefusalsJustified ==
    \A f \in refusals : \E c \in 1..Len(issued) :
        issued[c].inst = f.inst /\ issued[c].email = f.email /\ issued[c].at <= f.at /\ f.at < issued[c].at + ResendAfter

\* "At most one code per LOGIN_CODE_RATE_LIMIT_S per email".
OneCodePerWindow ==
    \A c, d \in 1..Len(issued) :
        c < d /\ issued[c].inst = issued[d].inst /\ issued[c].email = issued[d].email => issued[d].at >= issued[c].at + ResendAfter

\* A session that is logged out never exists again: a touch on its way when the
\* row is deleted does not write it back.
LogoutIsFinal ==
    [][\A s \in 1..Len(sessions) : ~sessions[s].exists => ~sessions'[s].exists]_vars

\* Someone who works on stays logged in: a session lasts at least SessionLife,
\* less the touch's throttle, from the last call it served.
UseKeepsAlive ==
    \A s \in 1..Len(sessions) :
        sessions[s].served # None /\ sessions[s].exists
            => sessions[s].expires_at >= sessions[s].served + SessionLife - TouchAfter

\* A user's session expires "8 hours from issuance".
ExpiresFromIssuance ==
    \A s \in 1..Len(sessions) :
        sessions[s].expires_at = sessions[s].created_at + SessionLife
=============================================================================
