--------------------------------- MODULE Grants ---------------------------------
(***************************************************************************)
(* Credentials of other programs: the OAuth grants of AI clients, from the *)
(* authorization code to rotation and revocation (api/src/oauth.rs,        *)
(* api/src/oauth_http.rs), and the API tokens of integrations              *)
(* (api/src/auth.rs), with the DynamoDB writes both end in.                *)
(*                                                                         *)
(* An action is one storage call with the checks up to the next; a handler *)
(* can stop between any two, and the answer to a write can be lost.  Rows  *)
(* of grants and API tokens are read consistently, codes are not.  A       *)
(* secret is a version: the hash stored with a row is that of version v,   *)
(* and a token is a row's position and a version.  Client ids, redirect    *)
(* addresses, PKCE and scopes are left out: they refuse a call before it   *)
(* does anything, or, of an exchange, after it has deleted the code.  So   *)
(* is the user's row: reading it as disabled refuses the call.             *)
(***************************************************************************)
EXTENDS Integers, Sequences, FiniteSets

CONSTANTS
    Requests,
    Users,
    CodeLife, AccessLife, RefreshLife, GrantLife, TouchAfter,
    Lag,      \* whether the read of a code may return an earlier state of it
    Offered,  \* the calls clients make
    MaxTime, MaxCalls,  \* bounds
    None

\* Assumed by the modules that instantiate this one.
LifetimesAssumption ==
    {CodeLife, AccessLife, RefreshLife, GrantLife, TouchAfter} \subseteq Nat \ {0}
LagAssumption == Lag \in BOOLEAN

VARIABLES
    now,
    codes,      \* rows of kind "oauth_code"
    grants,     \* the oauth_grant table
    drawn,      \* versions drawn for each grant
    given,      \* refresh tokens clients were given: grant and version
    rotations,  \* which version replaced which: history
    served,     \* calls a grant let through: history
    verdicts,   \* what API tokens were found to be, and what they were: history
    apiTokens,  \* the api_token table
    apiSeen,    \* every row each of its keys has had
    requests, calls

vars == <<now, codes, grants, drawn, given, rotations, served, verdicts,
          apiTokens, apiSeen, requests, calls>>
grantVars == <<codes, grants, drawn, given, rotations>>
apiVars == <<verdicts, apiTokens, apiSeen>>

-----------------------------------------------------------------------------
(* Rows                                                                    *)

Code == [user : Users, expires_at : Nat, exists : BOOLEAN, grants : Nat]

\* version: the secret both hashes are of.
Grant == [user : Users, code : Nat, version : Nat, access_expires_at : Nat,
          refresh_expires_at : Nat, expires_at : Nat, created_at : Nat,
          last_used_at : Nat \cup {None}, exists : BOOLEAN]

ApiToken == [enabled : BOOLEAN, last_used_at : Nat \cup {None}, exists : BOOLEAN]

Steps == {"idle", "codePut", "codeDelete", "mint", "rotate", "reuse", "touch", "serve",
          "revoke", "apiFetch", "apiTouch", "apiUpdate", "apiDelete"}

Request == [step    : Steps,
            user    : Users \cup {None},
            code    : Nat, grant : Nat, token : Nat,
            version : Nat,                  \* the secret presented
            at      : Nat,                  \* the clock it read
            row     : Grant \cup {None},    \* the grant it read
            enabled : BOOLEAN,              \* what an API token is set to
            was     : SUBSET BOOLEAN]       \* whether the token was good, from then until read

Idle == [step |-> "idle", user |-> None, code |-> 0, grant |-> 0, token |-> 0,
         version |-> 0, at |-> 0, row |-> None, enabled |-> TRUE, was |-> {}]

TypeOK ==
    /\ now \in 0..MaxTime
    /\ codes \in Seq(Code) /\ grants \in Seq(Grant) /\ Len(drawn) = Len(grants)
    /\ \A g \in 1..Len(grants) : grants[g].version \in 1..drawn[g]
    /\ \A t \in given : t.grant \in 1..Len(grants) /\ t.version \in 1..drawn[t.grant]
    /\ apiTokens \in Seq(ApiToken)
    /\ \A k \in 1..Len(apiTokens) : apiTokens[k] \in apiSeen[k]
    /\ requests \in [Requests -> Request]

Init ==
    /\ now = 0 /\ codes = <<>> /\ grants = <<>> /\ drawn = <<>>
    /\ given = {} /\ rotations = {} /\ served = {} /\ verdicts = {}
    /\ apiTokens = <<>> /\ apiSeen = <<>>
    /\ requests = [r \in Requests |-> Idle] /\ calls = 0

-----------------------------------------------------------------------------
(* Calls                                                                   *)

Call(r, op) ==
    /\ requests[r].step = "idle" /\ op \in Offered /\ calls < MaxCalls
    /\ calls' = calls + 1 /\ UNCHANGED now

At(r, step) == requests[r].step = step /\ UNCHANGED <<now, calls>>
Enter(r, record) == requests' = [requests EXCEPT ![r] = record]
Goto(r, step) == requests' = [requests EXCEPT ![r].step = step]
Return(r) == requests' = [requests EXCEPT ![r] = Idle]

Tick == /\ now < MaxTime /\ now' = now + 1
        /\ UNCHANGED <<codes, grants, drawn, given, rotations, served, verdicts,
                       apiTokens, apiSeen, requests, calls>>

\* The TTL of the table removes a grant some time after its expires_at.
Expire(g) ==
    /\ grants[g].exists /\ grants[g].expires_at <= now
    /\ grants' = [grants EXCEPT ![g].exists = FALSE]
    /\ UNCHANGED <<now, codes, drawn, given, rotations, served, verdicts,
                   apiTokens, apiSeen, requests, calls>>

-----------------------------------------------------------------------------
(* Authorization code                                                      *)

\* One put: approveOauthAuthorization, of a signed-in user.
ApproveOauthAuthorization(r, u) ==
    /\ Call(r, "approveOauthAuthorization")
    /\ codes' = Append(codes, [user |-> u, expires_at |-> now + CodeLife, exists |-> TRUE,
                               grants |-> 0])
    /\ UNCHANGED <<grants, drawn, given, rotations, served, requests>> /\ UNCHANGED apiVars

\* token_authorization_code: the code is read, and if it is there, deleted
\* before anything is checked.
Exchange(r, c) ==
    /\ Call(r, "authorization_code")
    /\ codes[c].exists \/ Lag
    /\ Enter(r, [Idle EXCEPT !.step = "codeDelete", !.code = c])
    /\ UNCHANGED <<served, apiVars, grantVars>>

\* The delete has no condition.  The checks refuse an expired code; they can
\* refuse any code.
CodeDelete(r) ==
    LET c == requests[r].code IN
    /\ At(r, "codeDelete")
    /\ codes' = [codes EXCEPT ![c].exists = FALSE]
    /\ \/ now < codes[c].expires_at /\ Goto(r, "mint")
       \/ Return(r)
    /\ UNCHANGED <<grants, drawn, given, rotations, served, apiVars>>

Earlier(s, t) == IF s < t THEN s ELSE t

\* Mutated: a refresh token lives for RefreshLife, whatever the grant does.
RefreshExpiry_Uncapped(at, cap) == at + RefreshLife

RefreshExpiry(at, cap) == Earlier(at + RefreshLife, cap)

\* mint_grant and create_oauth_grant, whose answer can be lost.
Mint(r) ==
    LET c == requests[r].code
        cap == now + GrantLife
        g == Len(grants) + 1
        row == [user |-> codes[c].user, code |-> c, version |-> 1,
                access_expires_at |-> now + AccessLife,
                refresh_expires_at |-> RefreshExpiry(now, cap),
                expires_at |-> cap, created_at |-> now, last_used_at |-> None,
                exists |-> TRUE]
    IN
    /\ At(r, "mint")
    /\ grants' = Append(grants, row) /\ drawn' = Append(drawn, 1)
    /\ codes' = [codes EXCEPT ![c].grants = @ + 1]
    /\ given' \in {given, given \cup {[grant |-> g, version |-> 1]}}
    /\ Return(r)
    /\ UNCHANGED <<rotations, served, apiVars>>

-----------------------------------------------------------------------------
(* Refresh                                                                 *)

\* token_refresh: a token that is not the grant's present one ends the grant.
Refresh(r, t) ==
    LET row == grants[t.grant] IN
    /\ Call(r, "refresh_token")
    /\ row.exists
    /\ \/ /\ row.version # t.version
          /\ Enter(r, [Idle EXCEPT !.step = "reuse", !.grant = t.grant])
       \/ /\ row.version = t.version
          /\ now < row.refresh_expires_at /\ now < row.expires_at
          /\ Enter(r, [Idle EXCEPT !.step = "rotate", !.grant = t.grant, !.at = now,
                                   !.version = t.version, !.row = row])
    /\ UNCHANGED <<served, grantVars, apiVars>>

\* delete_oauth_grant.
Reuse(r) ==
    /\ At(r, "reuse")
    /\ grants' = [grants EXCEPT ![requests[r].grant].exists = FALSE]
    /\ Return(r)
    /\ UNCHANGED <<codes, drawn, given, rotations, served, apiVars>>

\* Mutated: the row exists.
Rotatable_RowExists(g, row) == grants[g].exists

\* Rotate's condition.
Rotatable(g, row) == grants[g].exists /\ grants[g].version = row.version

\* update_oauth_grant.  When the answer is lost the write is sent again, fails
\* its own condition, and the client is refused: it never has the new tokens.
Rotate(r) ==
    LET q == requests[r]
        g == q.grant
        v == drawn[g] + 1
    IN
    /\ At(r, "rotate")
    /\ \/ /\ Rotatable(g, q.row)
          /\ grants' = [grants EXCEPT ![g].version = v,
                                      ![g].access_expires_at = q.at + AccessLife,
                                      ![g].refresh_expires_at = RefreshExpiry(q.at, q.row.expires_at)]
          /\ drawn' = [drawn EXCEPT ![g] = v]
          /\ rotations' = rotations \cup {[grant |-> g, from |-> q.version, to |-> v]}
          /\ given' \in {given, given \cup {[grant |-> g, version |-> v]}}
       \/ /\ ~Rotatable(g, q.row)
          /\ UNCHANGED <<grants, drawn, rotations, given>>
    /\ Return(r)
    /\ UNCHANGED <<codes, served, apiVars>>

-----------------------------------------------------------------------------
(* Access                                                                  *)

Stale(row, at) == row.last_used_at = None \/ at > row.last_used_at + TouchAfter

\* Mutated: the access token's own expiry is all that is looked at.
AccessValid_OwnExpiry(row, version) ==
    row.exists /\ row.version = version /\ now < row.access_expires_at

\* verify_access_token.
AccessValid(row, version) ==
    /\ row.exists /\ row.version = version
    /\ now < row.access_expires_at /\ now < row.expires_at

Access(r, t) ==
    LET row == grants[t.grant] IN
    /\ Call(r, "mcp")
    /\ AccessValid(row, t.version)
    /\ Enter(r, [Idle EXCEPT !.grant = t.grant, !.at = now, !.version = t.version, !.row = row,
                     !.step = IF Stale(row, now) THEN "touch" ELSE "serve"])
    /\ UNCHANGED <<served, grantVars, apiVars>>

\* Mutated: UpdateItem without its condition, which inserts a row of nothing else.
TouchGrant_Upsert(g) ==
    grants' = [grants EXCEPT ![g].last_used_at = now, ![g].exists = TRUE,
                             ![g].version = IF grants[g].exists THEN @ ELSE 0]

\* Mutated: the row that was read is put back.
TouchGrant_Put(g) == grants' = [grants EXCEPT ![g].last_used_at = now, ![g].exists = TRUE]

TouchGrant(g) ==
    grants[g].exists /\ grants' = [grants EXCEPT ![g].last_used_at = now]

\* A touch that fails fails the call.
Touch(r) ==
    /\ At(r, "touch")
    /\ TouchGrant(requests[r].grant)
    /\ Goto(r, "serve")
    /\ UNCHANGED <<codes, drawn, given, rotations, served, apiVars>>

Serve(r) ==
    LET q == requests[r] IN
    /\ At(r, "serve")
    /\ served' = served \cup {[grant |-> q.grant, at |-> q.at]}
    /\ Return(r)
    /\ UNCHANGED <<grantVars, apiVars>>

\* revokeOauthGrant: the row is read for its owner, then deleted.
RevokeOauthGrant(r, g) ==
    /\ Call(r, "revokeOauthGrant")
    /\ grants[g].exists
    /\ Enter(r, [Idle EXCEPT !.step = "revoke", !.grant = g])
    /\ UNCHANGED <<served, grantVars, apiVars>>

Revoke(r) ==
    /\ At(r, "revoke")
    /\ grants' = [grants EXCEPT ![requests[r].grant].exists = FALSE]
    /\ Return(r)
    /\ UNCHANGED <<codes, drawn, given, rotations, served, apiVars>>

-----------------------------------------------------------------------------
(* API tokens                                                              *)

Good(row) == row.exists /\ row.enabled

\* A write to a token, and to the history of the calls that are to read it.
SetApiToken(k, row, record, r) ==
    /\ apiTokens' = [apiTokens EXCEPT ![k] = row]
    /\ apiSeen' = [apiSeen EXCEPT ![k] = @ \cup {row}]
    /\ requests' = [q \in Requests |->
                      IF q = r THEN record
                      ELSE IF requests[q].step = "apiFetch" /\ requests[q].token = k
                           THEN [requests[q] EXCEPT !.was = @ \cup {Good(row)}]
                           ELSE requests[q]]

\* issue_api_token, a put on the condition that its fresh id is not taken.
CreateApiToken(r) ==
    LET row == [enabled |-> TRUE, last_used_at |-> None, exists |-> TRUE] IN
    /\ Call(r, "createApiToken")
    /\ apiTokens' = Append(apiTokens, row) /\ apiSeen' = Append(apiSeen, {[row EXCEPT !.exists = FALSE], row})
    /\ UNCHANGED <<grantVars, served, verdicts, requests>>

\* verify_token_with_api_token is about to read the row.
PresentApiToken(r, k) ==
    /\ Call(r, "submitVerifiedTicket")
    /\ Enter(r, [Idle EXCEPT !.step = "apiFetch", !.token = k,
                             !.was = {Good(apiTokens[k])}])
    /\ UNCHANGED <<grantVars, served, apiVars>>

\* Mutated: a BatchGetItem, which is eventually consistent.
get_api_token_Batched(k) == apiSeen[k]

get_api_token(k) == {apiTokens[k]}

ApiFetch(r) ==
    LET q == requests[r] IN
    /\ At(r, "apiFetch")
    /\ \E row \in get_api_token(q.token) :
        /\ \/ /\ Good(row)
              /\ IF Stale(row, now) THEN Goto(r, "apiTouch") ELSE Return(r)
           \/ ~Good(row) /\ Return(r)
        /\ verdicts' = verdicts \cup {[good |-> Good(row), was |-> q.was]}
    /\ UNCHANGED <<grantVars, served, apiTokens, apiSeen>>

\* last_used_at, on the condition that the row exists.
ApiTouch(r) ==
    LET k == requests[r].token IN
    /\ At(r, "apiTouch")
    /\ apiTokens[k].exists
    /\ SetApiToken(k, [apiTokens[k] EXCEPT !.last_used_at = now], Idle, r)
    /\ UNCHANGED <<grantVars, served, verdicts>>

\* updateApiToken and deleteApiToken read the row for its instance, then write.
ManageApiToken(r, k) ==
    /\ apiTokens[k].exists
    /\ \/ \E on \in BOOLEAN :
            /\ Call(r, "updateApiToken")
            /\ Enter(r, [Idle EXCEPT !.step = "apiUpdate", !.token = k, !.enabled = on])
       \/ /\ Call(r, "deleteApiToken")
          /\ Enter(r, [Idle EXCEPT !.step = "apiDelete", !.token = k])
    /\ UNCHANGED <<grantVars, served, apiVars>>

\* name and enabled, on the condition that the row exists.
ApiUpdate(r) ==
    LET q == requests[r] IN
    /\ At(r, "apiUpdate")
    /\ apiTokens[q.token].exists
    /\ SetApiToken(q.token, [apiTokens[q.token] EXCEPT !.enabled = q.enabled], Idle, r)
    /\ UNCHANGED <<grantVars, served, verdicts>>

ApiDelete(r) ==
    LET k == requests[r].token IN
    /\ At(r, "apiDelete")
    /\ SetApiToken(k, [apiTokens[k] EXCEPT !.exists = FALSE], Idle, r)
    /\ UNCHANGED <<grantVars, served, verdicts>>

\* Whatever it was doing, an invocation can end.
Stop(r) ==
    /\ requests[r].step # "idle" /\ Return(r)
    /\ UNCHANGED <<now, served, grantVars, apiVars, calls>>

-----------------------------------------------------------------------------

Oauth(r) ==
    \/ \E u \in Users : ApproveOauthAuthorization(r, u)
    \/ \E c \in 1..Len(codes) : Exchange(r, c)
    \/ \E t \in given : Refresh(r, t) \/ Access(r, t)
    \/ \E g \in 1..Len(grants) : RevokeOauthGrant(r, g)
    \/ CodeDelete(r) \/ Mint(r) \/ Reuse(r) \/ Rotate(r) \/ Touch(r) \/ Serve(r) \/ Revoke(r)

Api(r) ==
    \/ CreateApiToken(r)
    \/ \E k \in 1..Len(apiTokens) : PresentApiToken(r, k) \/ ManageApiToken(r, k)
    \/ ApiFetch(r) \/ ApiTouch(r) \/ ApiUpdate(r) \/ ApiDelete(r)

Next ==
    \/ Tick
    \/ \E g \in 1..Len(grants) : Expire(g)
    \/ \E r \in Requests : Oauth(r) \/ Api(r) \/ Stop(r)

Spec == Init /\ [][Next]_vars

-----------------------------------------------------------------------------
(* Properties                                                              *)

\* "Refresh rotation is a compare-and-swap on refresh_token_hash, so two
\* concurrent refreshes with the same token cannot both win": whatever is
\* resent, lost or late, a refresh token is replaced by one other at most.
OneSuccessor ==
    \A a, b \in rotations : a.grant = b.grant /\ a.from = b.from => a = b

\* A grant is never used beyond the life its user approved: refreshes move the
\* expiry of both tokens, never past GrantLife from the approval, and no call is
\* served after that, though an access token's own expiry may lie later.
NothingOutlivesTheGrant ==
    /\ \A g \in 1..Len(grants) : grants[g].refresh_expires_at <= grants[g].created_at + GrantLife
    /\ \A s \in served : s.grant # 0 => s.at < grants[s.grant].created_at + GrantLife

\* A grant that was revoked, or ended because a spent token was used, is not
\* brought back by a touch or a rotation that read it before.
RevokedIsFinal ==
    [][\A g \in 1..Len(grants) : ~grants[g].exists => ~grants'[g].exists]_vars

\* A grant is over when its user said it would be, or revoked it, and stays so:
\* nothing a client holds or has on its way is of use after that.
GrantsEndForGood == []NothingOutlivesTheGrant /\ RevokedIsFinal

\* A token is found to be what it was at some moment of the call: "disabling
\* takes effect on the token's very next request", and a token "must authenticate
\* on its very first use".
VerdictsAreCurrent == \A v \in verdicts : v.good \in v.was

\* "Single use": a code buys one grant.
CodesSingleUse == \A c \in 1..Len(codes) : codes[c].grants <= 1
=============================================================================
