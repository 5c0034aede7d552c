---------------------------- MODULE GrantsProofs ----------------------------
(***************************************************************************)
(* Proofs about Grants, for every value of its constants whose lifetimes   *)
(* are positive: what a grant's rows, the tokens in clients' hands and the *)
(* calls in flight have to do with each other, and what follows from it.   *)
(***************************************************************************)
EXTENDS Grants, SequenceTheorems, TLAPS

-----------------------------------------------------------------------------
(* The inductive invariant.                                                *)

ClockTyped == now \in Nat

CodesTyped == codes \in Seq(Code)

GrantsTyped == grants \in Seq(Grant) /\ drawn \in Seq(Nat) /\ Len(drawn) = Len(grants)

ApiTokensTyped ==
    /\ apiTokens \in Seq(ApiToken) /\ apiSeen \in Seq(SUBSET ApiToken)
    /\ Len(apiSeen) = Len(apiTokens)
    /\ \A k \in 1..Len(apiTokens) : apiTokens[k] \in apiSeen[k]

\* A grant's secret is one of those drawn for it.
VersionsDrawn == \A g \in 1..Len(grants) : grants[g].version \in 1..drawn[g]

\* A grant ends GrantLife after its approval, its refresh token no later.
Lives(row) ==
    /\ row.expires_at = row.created_at + GrantLife
    /\ row.refresh_expires_at <= row.expires_at
LivesCapped == \A g \in 1..Len(grants) : Lives(grants[g])

\* Clients were given secrets that were drawn.
GivenRefer ==
    \A t \in given : t.grant \in 1..Len(grants) /\ t.version \in 1..drawn[t.grant]

\* A version that was replaced is below its grant's present one.
ReplacedAreBelow ==
    \A a \in rotations : /\ a.grant \in 1..Len(grants)
                         /\ a.from \in Nat /\ a.from < grants[a.grant].version

\* Calls were let through before their grant's end.
ServedInTime ==
    \A s \in served : s.grant \in 1..Len(grants) /\ s.at < grants[s.grant].expires_at

GrantsSound ==
    /\ GrantsTyped /\ VersionsDrawn /\ LivesCapped /\ GivenRefer /\ ReplacedAreBelow
    /\ ServedInTime /\ OneSuccessor

GrantSteps == {"rotate", "reuse", "touch", "serve", "revoke"}
ApiSteps == {"apiFetch", "apiTouch", "apiUpdate", "apiDelete"}

\* A call refers to rows there are; one about to rotate holds the row as it was,
\* whose end does not move; one about to be served read the clock before the
\* grant's end; and one about to read an API token has noted what it is now.
Ready(q, cs, gs, ts) ==
    /\ q.step \in {"codeDelete", "mint"} => q.code \in 1..Len(cs)
    /\ q.step \in GrantSteps => q.grant \in 1..Len(gs)
    /\ q.step = "rotate" => /\ q.row \in Grant /\ q.version = q.row.version
                            /\ q.row.expires_at = gs[q.grant].expires_at
    /\ q.step \in {"touch", "serve"} => q.at < gs[q.grant].expires_at
    /\ q.step \in ApiSteps => q.token \in 1..Len(ts)
    /\ q.step = "apiFetch" => Good(ts[q.token]) \in q.was

RequestsReady ==
    /\ requests \in [Requests -> Request]
    /\ \A r \in Requests : Ready(requests[r], codes, grants, apiTokens)

Consistent ==
    /\ ClockTyped /\ CodesTyped /\ GrantsSound /\ ApiTokensTyped /\ RequestsReady
    /\ VerdictsAreCurrent

-----------------------------------------------------------------------------
(* What a step may do to the rows that calls in flight refer to.           *)

Longer(s, t) == Len(s) \in Nat /\ Len(t) \in Nat /\ Len(s) <= Len(t)

\* Grants keep the dates of their approval and end, are never brought back, and
\* their versions only go up.
GrantsKept(gs, hs) ==
    /\ Longer(gs, hs)
    /\ \A g \in 1..Len(gs) :
         /\ hs[g].created_at = gs[g].created_at /\ hs[g].expires_at = gs[g].expires_at
         /\ gs[g].version <= hs[g].version
         /\ ~gs[g].exists => ~hs[g].exists

\* API tokens stay as they are.
TokensKept(ts, us) == Longer(ts, us) /\ \A k \in 1..Len(ts) : us[k] = ts[k]

\* What a call in flight needs of the rows survives such a step.
LEMMA ReadyKept ==
  ASSUME NEW cs, NEW ds, NEW gs, NEW hs, NEW ts, NEW us, NEW q,
         Longer(cs, ds), GrantsKept(gs, hs), TokensKept(ts, us), Ready(q, cs, gs, ts)
  PROVE  Ready(q, ds, hs, us)
BY SMT DEF Longer, GrantsKept, TokensKept, Ready, GrantSteps, ApiSteps

\* A sequence that is typed has a length.
LEMMA SameLonger ==
  ASSUME NEW S, NEW s \in Seq(S)
  PROVE  Longer(s, s)
BY LenProperties, SMT DEF Longer

\* Whatever is left alone is kept.
LEMMA CodesStay == ASSUME Consistent, UNCHANGED codes PROVE Longer(codes, codes')
BY SameLonger DEF Consistent, CodesTyped

\* A grant's row.
LEMMA RowTyped ==
  ASSUME GrantsTyped, NEW g \in 1..Len(grants)
  PROVE  /\ grants[g] \in Grant
         /\ grants[g].user \in Users /\ grants[g].code \in Nat /\ grants[g].version \in Nat
         /\ grants[g].access_expires_at \in Nat /\ grants[g].refresh_expires_at \in Nat
         /\ grants[g].expires_at \in Nat /\ grants[g].created_at \in Nat
         /\ grants[g].last_used_at \in Nat \cup {None} /\ grants[g].exists \in BOOLEAN
<1>1. grants[g] \in Grant
  BY ElementOfSeq DEF GrantsTyped
<1>2. QED
  BY <1>1, SMT DEF Grant

LEMMA GrantsStay == ASSUME Consistent, UNCHANGED grants PROVE GrantsKept(grants, grants')
<1>1. Longer(grants, grants)
  BY SameLonger DEF Consistent, GrantsSound, GrantsTyped
<1>2. \A g \in 1..Len(grants) : grants[g].version <= grants[g].version
  BY RowTyped, SMT DEF Consistent, GrantsSound
<1>3. QED
  BY <1>1, <1>2 DEF GrantsKept

LEMMA TokensStay == ASSUME Consistent, UNCHANGED apiTokens PROVE TokensKept(apiTokens, apiTokens')
BY SameLonger DEF Consistent, ApiTokensTyped, TokensKept

\* One call goes on, the others wait.
LEMMA OneGoesOn ==
  ASSUME Consistent, NEW r \in Requests, NEW q \in Request, Enter(r, q),
         Longer(codes, codes'), GrantsKept(grants, grants'), TokensKept(apiTokens, apiTokens'),
         Ready(q, codes', grants', apiTokens')
  PROVE  RequestsReady'
<1>1. requests' \in [Requests -> Request]
  BY DEF Consistent, RequestsReady, Enter
<1>2. ASSUME NEW p \in Requests PROVE Ready(requests'[p], codes', grants', apiTokens')
  <2>1. requests'[p] = IF p = r THEN q ELSE requests[p]
    BY DEF Consistent, RequestsReady, Enter
  <2>2. Ready(requests[p], codes', grants', apiTokens')
    BY ReadyKept DEF Consistent, RequestsReady
  <2>3. QED
    BY <2>1, <2>2
<1>3. QED
  BY <1>1, <1>2 DEF RequestsReady

\* All wait.
LEMMA AllWait ==
  ASSUME Consistent, UNCHANGED requests,
         Longer(codes, codes'), GrantsKept(grants, grants'), TokensKept(apiTokens, apiTokens')
  PROVE  RequestsReady'
<1>1. ASSUME NEW p \in Requests PROVE Ready(requests[p], codes', grants', apiTokens')
  BY ReadyKept DEF Consistent, RequestsReady
<1>2. QED
  BY <1>1 DEF Consistent, RequestsReady

\* An invocation that is not running refers to nothing.
LEMMA IdleIsReady ==
  ASSUME NEW cs, NEW gs, NEW ts
  PROVE  Idle \in Request /\ Ready(Idle, cs, gs, ts)
BY SMT DEF Idle, Request, Steps, Ready, GrantSteps, ApiSteps

\* One call ends.
LEMMA OneReturns ==
  ASSUME Consistent, NEW r \in Requests, Return(r),
         Longer(codes, codes'), GrantsKept(grants, grants'), TokensKept(apiTokens, apiTokens')
  PROVE  RequestsReady'
BY IdleIsReady, OneGoesOn DEF Return, Enter

\* One call goes on with what it has.
LEMMA OneContinues ==
  ASSUME Consistent, NEW r \in Requests, NEW step \in Steps, Goto(r, step),
         Longer(codes, codes'), GrantsKept(grants, grants'), TokensKept(apiTokens, apiTokens'),
         Ready([requests[r] EXCEPT !.step = step], codes', grants', apiTokens')
  PROVE  RequestsReady'
<1> DEFINE q == [requests[r] EXCEPT !.step = step]
<1>1. q \in Request
  BY SMT DEF Consistent, RequestsReady, Request
<1>2. Enter(r, q)
  BY DEF Goto, Enter
<1>3. QED
  BY <1>1, <1>2, OneGoesOn

-----------------------------------------------------------------------------
(* What each write does to the grants.                                     *)

\* A row of a grant is written: its dates stay, it is not brought back, and its
\* version does not go down.
RowWritten(g, row) ==
    /\ row \in Grant /\ Lives(row)
    /\ row.created_at = grants[g].created_at /\ row.expires_at = grants[g].expires_at
    /\ grants[g].version <= row.version
    /\ ~grants[g].exists => ~row.exists
    /\ grants' = [grants EXCEPT ![g] = row]

LEMMA WrittenRows ==
  ASSUME GrantsTyped, LivesCapped, NEW g \in 1..Len(grants), NEW row, RowWritten(g, row)
  PROVE  /\ grants' \in Seq(Grant) /\ Len(grants') = Len(grants)
         /\ \A h \in 1..Len(grants) : grants'[h] = IF h = g THEN row ELSE grants[h]
         /\ GrantsKept(grants, grants') /\ LivesCapped'
<1>1. /\ grants' \in Seq(Grant) /\ Len(grants') = Len(grants)
      /\ \A h \in 1..Len(grants) : grants'[h] = IF h = g THEN row ELSE grants[h]
  <2>1. grants \in Seq(Grant) /\ row \in Grant /\ grants' = [grants EXCEPT ![g] = row]
    BY DEF GrantsTyped, RowWritten
  <2> DEFINE new == [grants EXCEPT ![g] = row]
  <2>2. /\ new \in Seq(Grant) /\ Len(new) = Len(grants)
        /\ \A h \in 1..Len(grants) : new[h] = IF h = g THEN row ELSE grants[h]
    BY <2>1, ExceptSeq
  <2>3. grants' = new
    BY <2>1
  <2> HIDE DEF new
  <2>4. QED
    BY <2>2, <2>3
<1>2. Longer(grants, grants')
  BY <1>1, LenProperties, SMT DEF GrantsTyped, Longer
<1>3. \A h \in 1..Len(grants) : grants[h].version <= grants[h].version
  BY RowTyped, SMT
<1>4. GrantsKept(grants, grants')
  BY <1>1, <1>2, <1>3, SMT DEF GrantsKept, RowWritten
<1>5. LivesCapped'
  BY <1>1, SMT DEF LivesCapped, RowWritten, Lives
<1>6. QED
  BY <1>1, <1>4, <1>5

\* What was let through, and what was replaced, stays in order.
LEMMA HistoryKept ==
  ASSUME GrantsSound, GrantsKept(grants, grants'), GrantsTyped'
  PROVE  /\ UNCHANGED served => ServedInTime'
         /\ UNCHANGED rotations => ReplacedAreBelow' /\ OneSuccessor'
<1>1. ASSUME NEW g \in 1..Len(grants)
      PROVE  /\ g \in 1..Len(grants') /\ grants'[g].expires_at = grants[g].expires_at
             /\ grants[g].version \in Nat /\ grants'[g].version \in Nat
             /\ grants[g].version <= grants'[g].version
  <2>1. g \in 1..Len(grants')
    BY SMT DEF GrantsKept, Longer
  <2>2. grants[g].version \in Nat
    BY RowTyped DEF GrantsSound
  <2>3. grants'[g] \in Grant
    BY <2>1, ElementOfSeq DEF GrantsTyped
  <2>4. grants'[g].version \in Nat
    BY <2>3, SMT DEF Grant
  <2>5. QED
    BY <2>1, <2>2, <2>4 DEF GrantsKept
<1>2. UNCHANGED served => ServedInTime'
  BY <1>1, SMT DEF GrantsSound, ServedInTime
<1>3. UNCHANGED rotations => ReplacedAreBelow'
  BY <1>1, SMT DEF GrantsSound, ReplacedAreBelow
<1>4. UNCHANGED rotations => OneSuccessor'
  BY DEF GrantsSound, OneSuccessor
<1>5. QED
  BY <1>2, <1>3, <1>4

\* A row is written with the secret it has.
LEMMA SameSecret ==
  ASSUME GrantsSound, NEW g \in 1..Len(grants), NEW row, RowWritten(g, row),
         row.version = grants[g].version, UNCHANGED <<drawn, given, rotations, served>>
  PROVE  GrantsSound' /\ GrantsKept(grants, grants')
<1>1. /\ grants' \in Seq(Grant) /\ Len(grants') = Len(grants)
      /\ \A h \in 1..Len(grants) : grants'[h] = IF h = g THEN row ELSE grants[h]
      /\ GrantsKept(grants, grants') /\ LivesCapped'
  BY WrittenRows DEF GrantsSound
<1>2. GrantsTyped'
  BY <1>1 DEF GrantsSound, GrantsTyped
<1>3. VersionsDrawn' /\ GivenRefer'
  BY <1>1 DEF GrantsSound, VersionsDrawn, GivenRefer
<1>4. ServedInTime' /\ ReplacedAreBelow' /\ OneSuccessor'
  BY <1>1, <1>2, HistoryKept
<1>5. QED
  BY <1>1, <1>2, <1>3, <1>4 DEF GrantsSound

\* A grant ends: it was revoked, a spent token was used, or its row expired.
LEMMA GrantEnds ==
  ASSUME GrantsSound, NEW g \in 1..Len(grants), grants' = [grants EXCEPT ![g].exists = FALSE],
         UNCHANGED <<drawn, given, rotations, served>>
  PROVE  GrantsSound' /\ GrantsKept(grants, grants')
<1> DEFINE row == [grants[g] EXCEPT !.exists = FALSE]
<1>1. grants[g] \in Grant /\ Lives(grants[g])
  BY RowTyped DEF GrantsSound, LivesCapped
<1>2. /\ row \in Grant /\ row.version = grants[g].version /\ ~row.exists
      /\ row.created_at = grants[g].created_at /\ row.expires_at = grants[g].expires_at
      /\ row.refresh_expires_at = grants[g].refresh_expires_at
  <2>1. row \in Grant
    BY <1>1, Zenon DEF Grant
  <2>2. row.exists = FALSE
    BY <1>1, SMT DEF Grant
  <2>3. QED
    BY <1>1, <2>1, <2>2, SMT DEF Grant
<1>3. grants' = [grants EXCEPT ![g] = row]
  OBVIOUS
<1> HIDE DEF row
<1>4. RowWritten(g, row)
  <2>1. Lives(row)
    BY <1>1, <1>2 DEF Lives
  <2>2. grants[g].version <= row.version
    BY <1>2, RowTyped, SMT DEF GrantsSound
  <2>3. QED
    BY <1>2, <1>3, <2>1, <2>2 DEF RowWritten
<1>5. QED
  BY <1>2, <1>4, SameSecret

\* A grant that is there is touched.
LEMMA GrantTouched ==
  ASSUME ClockTyped, GrantsSound, NEW g \in 1..Len(grants), TouchGrant(g),
         UNCHANGED <<drawn, given, rotations, served>>
  PROVE  GrantsSound' /\ GrantsKept(grants, grants')
<1> DEFINE row == [grants[g] EXCEPT !.last_used_at = now]
<1>1. grants[g] \in Grant /\ Lives(grants[g])
  BY RowTyped DEF GrantsSound, LivesCapped
<1>2. /\ row \in Grant /\ row.version = grants[g].version /\ row.exists = grants[g].exists
      /\ row.created_at = grants[g].created_at /\ row.expires_at = grants[g].expires_at
      /\ row.refresh_expires_at = grants[g].refresh_expires_at
  BY <1>1, SMT DEF Grant, ClockTyped
<1>3. grants' = [grants EXCEPT ![g] = row]
  BY DEF TouchGrant
<1> HIDE DEF row
<1>4. RowWritten(g, row)
  <2>1. Lives(row)
    BY <1>1, <1>2 DEF Lives
  <2>2. grants[g].version <= row.version
    BY <1>2, RowTyped, SMT DEF GrantsSound
  <2>3. QED
    BY <1>2, <1>3, <2>1, <2>2 DEF RowWritten
<1>5. QED
  BY <1>2, <1>4, SameSecret

\* The earlier of two moments is neither after the second nor, with a moment of
\* its own, ill typed.
LEMMA RefreshExpiryCapped ==
  ASSUME LifetimesAssumption, NEW at \in Nat, NEW cap \in Nat
  PROVE  RefreshExpiry(at, cap) \in Nat /\ RefreshExpiry(at, cap) <= cap
BY SMT DEF LifetimesAssumption, RefreshExpiry, Earlier

\* The lifetimes are numbers.
LEMMA LifetimesNat ==
  ASSUME LifetimesAssumption
  PROVE  /\ CodeLife \in Nat /\ AccessLife \in Nat /\ RefreshLife \in Nat
         /\ GrantLife \in Nat /\ TouchAfter \in Nat
BY SMT DEF LifetimesAssumption

\* A row with another secret, or another expiry of one of its tokens, is a row
\* with the same dates.
SameDates(row, new) ==
    /\ new \in Grant /\ new.exists = row.exists
    /\ new.created_at = row.created_at /\ new.expires_at = row.expires_at

LEMMA AnotherVersion ==
  ASSUME NEW row \in Grant, NEW v \in Nat
  PROVE  SameDates(row, [row EXCEPT !.version = v]) /\ [row EXCEPT !.version = v].version = v
BY SMT DEF Grant, SameDates

LEMMA AnotherAccessExpiry ==
  ASSUME NEW row \in Grant, NEW t \in Nat
  PROVE  /\ SameDates(row, [row EXCEPT !.access_expires_at = t])
         /\ [row EXCEPT !.access_expires_at = t].version = row.version
BY SMT DEF Grant, SameDates

LEMMA AnotherRefreshExpiry ==
  ASSUME NEW row \in Grant, NEW t \in Nat
  PROVE  /\ SameDates(row, [row EXCEPT !.refresh_expires_at = t])
         /\ [row EXCEPT !.refresh_expires_at = t].version = row.version
         /\ [row EXCEPT !.refresh_expires_at = t].refresh_expires_at = t
BY SMT DEF Grant, SameDates

\* A grant is rotated: only from the secret the caller presented, to one never
\* drawn before.
LEMMA GrantRotated ==
  ASSUME LifetimesAssumption, GrantsSound, NEW g \in 1..Len(grants), NEW from,
         NEW at \in Nat, NEW v, v = drawn[g] + 1, from = grants[g].version,
         grants' = [grants EXCEPT
           ![g].version = v, ![g].access_expires_at = at + AccessLife,
           ![g].refresh_expires_at = RefreshExpiry(at, grants[g].expires_at)],
         drawn' = [drawn EXCEPT ![g] = v],
         rotations' = rotations \cup {[grant |-> g, from |-> from, to |-> v]},
         given' \in {given, given \cup {[grant |-> g, version |-> v]}},
         UNCHANGED served
  PROVE  GrantsSound' /\ GrantsKept(grants, grants')
<1> DEFINE refresh == RefreshExpiry(at, grants[g].expires_at)
           row == [grants[g] EXCEPT !.version = v, !.access_expires_at = at + AccessLife,
                                    !.refresh_expires_at = refresh]
<1>1. grants[g] \in Grant /\ Lives(grants[g]) /\ grants[g].version \in 1..drawn[g]
  BY RowTyped DEF GrantsSound, LivesCapped, VersionsDrawn
<1>2. refresh \in Nat /\ refresh <= grants[g].expires_at
  BY RowTyped, RefreshExpiryCapped DEF GrantsSound
<1> HIDE DEF refresh
<1>3. /\ drawn \in Seq(Nat) /\ Len(drawn) = Len(grants) /\ drawn[g] \in Nat /\ v \in Nat
      /\ grants[g].version \in Nat /\ grants[g].version < v
  BY <1>1, ElementOfSeq, RowTyped, SMT DEF GrantsSound, GrantsTyped
<1>4. /\ row \in Grant /\ row.version = v /\ row.exists = grants[g].exists
      /\ row.created_at = grants[g].created_at /\ row.expires_at = grants[g].expires_at
      /\ row.refresh_expires_at = refresh
  <2>1. PICK access \in Nat : access = at + AccessLife
    BY LifetimesNat, SMT
  <2>2. PICK old \in Grant : old = grants[g]
    BY <1>1
  <2>3. PICK new \in Nat : new = refresh
    BY <1>2
  <2>4. PICK moved : moved = [old EXCEPT !.version = v]
    OBVIOUS
  <2>5. PICK renewed : renewed = [moved EXCEPT !.access_expires_at = access]
    OBVIOUS
  <2>6. row = [renewed EXCEPT !.refresh_expires_at = new]
    BY <2>1, <2>2, <2>3, <2>4, <2>5, Zenon
  <2> HIDE DEF row
  <2>7. SameDates(old, moved) /\ moved.version = v
    BY <1>3, <2>4, AnotherVersion
  <2>8. SameDates(moved, renewed) /\ renewed.version = moved.version
    BY <2>5, <2>7, AnotherAccessExpiry DEF SameDates
  <2>9. /\ SameDates(renewed, row) /\ row.version = renewed.version
        /\ row.refresh_expires_at = new
    BY <2>6, <2>8, AnotherRefreshExpiry DEF SameDates
  <2>10. QED
    BY <2>2, <2>3, <2>7, <2>8, <2>9 DEF SameDates
<1>5. grants' = [grants EXCEPT ![g] = row]
  <2>1. DOMAIN grants = 1..Len(grants)
    BY LenProperties DEF GrantsSound, GrantsTyped
  <2>2. QED
    BY <2>1, Zenon DEF refresh
<1> HIDE DEF row
<1>6. RowWritten(g, row)
  <2>1. Lives(row)
    BY <1>1, <1>2, <1>4 DEF Lives
  <2>2. grants[g].version <= row.version
    BY <1>3, <1>4, SMT
  <2>3. QED
    BY <1>4, <1>5, <2>1, <2>2 DEF RowWritten
<1>7. /\ grants' \in Seq(Grant) /\ Len(grants') = Len(grants)
      /\ \A h \in 1..Len(grants) : grants'[h] = IF h = g THEN row ELSE grants[h]
      /\ GrantsKept(grants, grants') /\ LivesCapped'
  BY <1>6, WrittenRows DEF GrantsSound
<1>8. /\ drawn' \in Seq(Nat) /\ Len(drawn') = Len(drawn)
      /\ \A h \in 1..Len(drawn) : drawn'[h] = IF h = g THEN v ELSE drawn[h]
  BY <1>3, ExceptSeq
<1>9. GrantsTyped'
  BY <1>3, <1>7, <1>8 DEF GrantsTyped
<1>10. VersionsDrawn'
  BY <1>3, <1>4, <1>7, <1>8, SMT DEF GrantsSound, VersionsDrawn
<1>11. GivenRefer'
  <2>1. ASSUME NEW t \in given
        PROVE  t.grant \in 1..Len(grants') /\ t.version \in 1..drawn'[t.grant]
    BY <1>3, <1>7, <1>8, SMT DEF GrantsSound, GivenRefer
  <2>2. g \in 1..Len(grants') /\ v \in 1..drawn'[g]
    BY <1>3, <1>7, <1>8, SMT
  <2>3. QED
    BY <2>1, <2>2, SMT DEF GivenRefer
<1>12. ServedInTime'
  BY <1>7, <1>9, HistoryKept
<1>13. ReplacedAreBelow'
  BY <1>3, <1>4, <1>7, SMT DEF GrantsSound, ReplacedAreBelow
<1>14. OneSuccessor'
  <2>1. ASSUME NEW a \in rotations, a.grant = g PROVE a.from # from
    BY <1>3, <2>1, SMT DEF GrantsSound, ReplacedAreBelow
  <2>2. QED
    BY <2>1 DEF GrantsSound, OneSuccessor
<1>15. QED
  BY <1>7, <1>9, <1>10, <1>11, <1>12, <1>13, <1>14 DEF GrantsSound

\* A grant is minted, with the first secret drawn for it.
LEMMA GrantMinted ==
  ASSUME GrantsSound, NEW row \in Grant, Lives(row), row.version = 1,
         grants' = Append(grants, row), drawn' = Append(drawn, 1),
         given' \in {given, given \cup {[grant |-> Len(grants) + 1, version |-> 1]}},
         UNCHANGED <<rotations, served>>
  PROVE  GrantsSound' /\ GrantsKept(grants, grants')
<1> DEFINE n == Len(grants)
<1>1. n \in Nat /\ grants \in Seq(Grant) /\ drawn \in Seq(Nat) /\ Len(drawn) = n
  BY LenProperties DEF GrantsSound, GrantsTyped
<1>2. /\ grants' \in Seq(Grant) /\ Len(grants') = n + 1
      /\ \A g \in 1..n : grants'[g] = grants[g]
      /\ grants'[n + 1] = row
  BY <1>1, AppendProperties
<1>3. /\ drawn' \in Seq(Nat) /\ Len(drawn') = n + 1
      /\ \A g \in 1..n : drawn'[g] = drawn[g]
      /\ drawn'[n + 1] = 1
  BY <1>1, AppendProperties
<1>4. \A g \in 1..n : grants[g].version <= grants[g].version
  BY RowTyped, SMT DEF GrantsSound
<1> HIDE DEF n
<1>5. \A g \in 1..(n + 1) : g \in 1..n \/ g = n + 1
  BY <1>1, SMT
<1>6. GrantsTyped'
  BY <1>2, <1>3 DEF GrantsTyped
<1>7. GrantsKept(grants, grants')
  BY <1>1, <1>2, <1>4, SMT DEF GrantsKept, Longer, n
<1>8. VersionsDrawn' /\ LivesCapped'
  <2>1. \A g \in 1..n : grants'[g].version \in 1..drawn'[g] /\ Lives(grants'[g])
    BY <1>2, <1>3 DEF GrantsSound, VersionsDrawn, LivesCapped, n
  <2>2. grants'[n + 1].version \in 1..drawn'[n + 1] /\ Lives(grants'[n + 1])
    BY <1>2, <1>3, SMT
  <2>3. QED
    BY <1>2, <1>5, <2>1, <2>2 DEF VersionsDrawn, LivesCapped
<1>9. GivenRefer'
  <2>1. ASSUME NEW t \in given
        PROVE  t.grant \in 1..(n + 1) /\ t.version \in 1..drawn'[t.grant]
    BY <1>1, <1>3, SMT DEF GrantsSound, GivenRefer, n
  <2>2. n + 1 \in 1..(n + 1) /\ 1 \in 1..drawn'[n + 1]
    BY <1>1, <1>3, SMT
  <2>3. QED
    <3>1. ASSUME NEW t \in given' PROVE t.grant \in 1..(n + 1) /\ t.version \in 1..drawn'[t.grant]
      <4>1. CASE t \in given
        BY <2>1, <4>1
      <4>2. CASE t = [grant |-> n + 1, version |-> 1]
        BY <2>2, <4>2
      <4>3. QED
        BY <4>1, <4>2 DEF n
    <3>2. QED
      BY <1>2, <3>1 DEF GivenRefer
<1>10. ServedInTime' /\ ReplacedAreBelow' /\ OneSuccessor'
  BY <1>6, <1>7, HistoryKept
<1>11. QED
  BY <1>6, <1>7, <1>8, <1>9, <1>10 DEF GrantsSound

\* Nothing is written to the grants, and no call is served.
LEMMA GrantsLeft ==
  ASSUME Consistent, UNCHANGED <<grants, drawn, given, rotations, served>>
  PROVE  GrantsSound' /\ GrantsKept(grants, grants')
<1>1. GrantsKept(grants, grants')
  BY GrantsStay
<1>2. QED
  BY <1>1 DEF Consistent, GrantsSound, GrantsTyped, VersionsDrawn, LivesCapped, GivenRefer,
              ReplacedAreBelow, ServedInTime, OneSuccessor

-----------------------------------------------------------------------------
(* What each write does to the codes and the API tokens.                   *)

\* A code is put.
LEMMA CodePut ==
  ASSUME CodesTyped, NEW row \in Code, codes' = Append(codes, row)
  PROVE  CodesTyped' /\ Longer(codes, codes')
<1>1. codes' \in Seq(Code) /\ Len(codes') = Len(codes) + 1
  BY AppendProperties DEF CodesTyped
<1>2. Len(codes) \in Nat
  BY LenProperties DEF CodesTyped
<1>3. QED
  BY <1>1, <1>2, SMT DEF CodesTyped, Longer

\* A code's row is written.
LEMMA CodeWritten ==
  ASSUME CodesTyped, NEW c \in 1..Len(codes), NEW row \in Code, codes' = [codes EXCEPT ![c] = row]
  PROVE  CodesTyped' /\ Longer(codes, codes')
<1>1. codes' \in Seq(Code) /\ Len(codes') = Len(codes)
  BY ExceptSeq DEF CodesTyped
<1>2. Len(codes) \in Nat
  BY LenProperties DEF CodesTyped
<1>3. QED
  BY <1>1, <1>2, SMT DEF CodesTyped, Longer

LEMMA CodeRowTyped ==
  ASSUME CodesTyped, NEW c \in 1..Len(codes)
  PROVE  codes[c] \in Code /\ codes[c].user \in Users
<1>1. codes[c] \in Code
  BY ElementOfSeq DEF CodesTyped
<1>2. QED
  BY <1>1, SMT DEF Code

\* A code is deleted, or counts a grant it bought.
LEMMA CodeDeletedOrSpent ==
  ASSUME CodesTyped, NEW c \in 1..Len(codes),
         \/ codes' = [codes EXCEPT ![c].exists = FALSE]
         \/ codes' = [codes EXCEPT ![c].grants = @ + 1]
  PROVE  CodesTyped' /\ Longer(codes, codes')
<1>1. PICK row \in Code : row = codes[c]
  BY CodeRowTyped
<1>2. CASE codes' = [codes EXCEPT ![c].exists = FALSE]
  <2>1. [row EXCEPT !.exists = FALSE] \in Code
    BY Zenon DEF Code
  <2>2. codes' = [codes EXCEPT ![c] = [row EXCEPT !.exists = FALSE]]
    BY <1>1, <1>2
  <2>3. QED
    BY <2>1, <2>2, CodeWritten
<1>3. CASE codes' = [codes EXCEPT ![c].grants = @ + 1]
  <2>1. PICK n \in Nat : n = row.grants + 1
    BY SMT DEF Code
  <2>2. [row EXCEPT !.grants = n] \in Code
    BY SMT DEF Code
  <2>3. codes' = [codes EXCEPT ![c] = [row EXCEPT !.grants = n]]
    BY <1>1, <1>3, <2>1
  <2>4. QED
    BY <2>2, <2>3, CodeWritten
<1>4. QED
  BY <1>2, <1>3

LEMMA TokenTyped ==
  ASSUME ApiTokensTyped, NEW k \in 1..Len(apiTokens)
  PROVE  apiTokens[k] \in ApiToken /\ apiSeen[k] \in SUBSET ApiToken
BY ElementOfSeq DEF ApiTokensTyped

\* A token is issued.
LEMMA TokenPut ==
  ASSUME ApiTokensTyped, NEW row \in ApiToken, NEW seen \in SUBSET ApiToken, row \in seen,
         apiTokens' = Append(apiTokens, row), apiSeen' = Append(apiSeen, seen)
  PROVE  ApiTokensTyped' /\ TokensKept(apiTokens, apiTokens')
<1> DEFINE n == Len(apiTokens)
<1>1. n \in Nat /\ apiTokens \in Seq(ApiToken) /\ apiSeen \in Seq(SUBSET ApiToken)
      /\ Len(apiSeen) = n /\ \A k \in 1..n : apiTokens[k] \in apiSeen[k]
  BY LenProperties DEF ApiTokensTyped
<1>2. /\ apiTokens' \in Seq(ApiToken) /\ Len(apiTokens') = n + 1
      /\ \A k \in 1..n : apiTokens'[k] = apiTokens[k]
      /\ apiTokens'[n + 1] = row
  BY <1>1, AppendProperties
<1>3. /\ apiSeen' \in Seq(SUBSET ApiToken) /\ Len(apiSeen') = n + 1
      /\ \A k \in 1..n : apiSeen'[k] = apiSeen[k]
      /\ apiSeen'[n + 1] = seen
  BY <1>1, AppendProperties
<1> HIDE DEF n
<1>4. \A k \in 1..(n + 1) : k \in 1..n \/ k = n + 1
  BY <1>1, SMT
<1>5. \A k \in 1..(n + 1) : apiTokens'[k] \in apiSeen'[k]
  BY <1>1, <1>2, <1>3, <1>4
<1>6. TokensKept(apiTokens, apiTokens')
  BY <1>1, <1>2, SMT DEF TokensKept, Longer, n
<1>7. QED
  BY <1>2, <1>3, <1>5, <1>6 DEF ApiTokensTyped

\* A token's row is written: every call about to read it notes what it is now.
LEMMA TokenSet ==
  ASSUME Consistent, NEW r \in Requests, NEW k \in 1..Len(apiTokens), NEW row \in ApiToken,
         SetApiToken(k, row, Idle, r), UNCHANGED <<codes, grants>>
  PROVE  ApiTokensTyped' /\ RequestsReady'
<1>1. apiTokens \in Seq(ApiToken) /\ apiSeen \in Seq(SUBSET ApiToken)
      /\ Len(apiSeen) = Len(apiTokens)
  BY DEF Consistent, ApiTokensTyped
<1>2. PICK seen \in SUBSET ApiToken : seen = apiSeen[k] \cup {row}
  BY TokenTyped DEF Consistent
<1>3. /\ apiTokens' \in Seq(ApiToken) /\ Len(apiTokens') = Len(apiTokens)
      /\ \A j \in 1..Len(apiTokens) : apiTokens'[j] = IF j = k THEN row ELSE apiTokens[j]
  BY <1>1, ExceptSeq DEF SetApiToken
<1>4. apiSeen' = [apiSeen EXCEPT ![k] = seen]
  BY <1>2 DEF SetApiToken
<1>5. /\ apiSeen' \in Seq(SUBSET ApiToken) /\ Len(apiSeen') = Len(apiSeen)
      /\ \A j \in 1..Len(apiSeen) : apiSeen'[j] = IF j = k THEN seen ELSE apiSeen[j]
  BY <1>1, <1>4, ExceptSeq
<1>6. ApiTokensTyped'
  BY <1>1, <1>2, <1>3, <1>5 DEF Consistent, ApiTokensTyped
<1>7. PICK good \in BOOLEAN : good = Good(row)
  BY SMT DEF Good, ApiToken
<1>8. ASSUME NEW p \in Requests
      PROVE  requests'[p] \in Request /\ Ready(requests'[p], codes', grants', apiTokens')
  <2>1. PICK q \in Request : q = requests[p]
    BY DEF Consistent, RequestsReady
  <2>2. Ready(q, codes, grants, apiTokens)
    BY <2>1 DEF Consistent, RequestsReady
  <2>3. CASE p = r
    BY <2>3, IdleIsReady DEF SetApiToken
  <2>4. CASE p # r /\ q.step = "apiFetch" /\ q.token = k
    <3>1. requests'[p] = [q EXCEPT !.was = @ \cup {good}]
      BY <1>7, <2>1, <2>4 DEF SetApiToken
    <3>2. PICK was \in SUBSET BOOLEAN : was = q.was \cup {good}
      <4>1. q.was \in SUBSET BOOLEAN
        BY SMT DEF Request
      <4>2. q.was \cup {good} \in SUBSET BOOLEAN
        BY <1>7, <4>1, Zenon
      <4>3. QED
        BY <4>2
    <3>3. requests'[p] = [q EXCEPT !.was = was]
      BY <3>1, <3>2
    <3>4. [q EXCEPT !.was = was] \in Request
      BY SMT DEF Request
    <3>5. Ready([q EXCEPT !.was = was], codes, grants, apiTokens')
      BY <1>3, <1>7, <2>2, <2>4, <3>2, SMT DEF Ready, Request, GrantSteps, ApiSteps
    <3>6. QED
      BY <3>3, <3>4, <3>5
  <2>5. CASE p # r /\ ~(q.step = "apiFetch" /\ q.token = k)
    <3>1. requests'[p] = q
      BY <2>1, <2>5 DEF SetApiToken
    <3>2. Ready(q, codes, grants, apiTokens')
      BY <1>3, <2>2, <2>5 DEF Ready, GrantSteps, ApiSteps
    <3>3. QED
      BY <3>1, <3>2
  <2>6. QED
    BY <2>3, <2>4, <2>5
<1>9. requests' \in [Requests -> Request]
  <2>1. DOMAIN requests' = Requests /\ requests' = [p \in Requests |-> requests'[p]]
    BY DEF SetApiToken
  <2>2. QED
    BY <1>8, <2>1
<1>10. QED
  BY <1>6, <1>8, <1>9 DEF RequestsReady

\* A call of a grant's client leaves the API tokens alone, and the other way round.
LEMMA TokensLeft ==
  ASSUME Consistent, UNCHANGED apiVars
  PROVE  ApiTokensTyped' /\ VerdictsAreCurrent' /\ TokensKept(apiTokens, apiTokens')
BY TokensStay DEF Consistent, ApiTokensTyped, VerdictsAreCurrent, apiVars

LEMMA CodesLeft ==
  ASSUME Consistent, UNCHANGED codes
  PROVE  CodesTyped' /\ Longer(codes, codes')
BY CodesStay DEF Consistent, CodesTyped

LEMMA GrantVarsLeft ==
  ASSUME Consistent, UNCHANGED <<grantVars, served>>
  PROVE  /\ CodesTyped' /\ Longer(codes, codes')
         /\ GrantsSound' /\ GrantsKept(grants, grants')
BY CodesLeft, GrantsLeft DEF grantVars

-----------------------------------------------------------------------------
(* Each step of a client of a grant.                                       *)

\* One put of a code, which nobody refers to yet.
LEMMA ApproveOauthAuthorizationConsistent ==
  ASSUME LifetimesAssumption, Consistent, NEW r \in Requests, NEW u \in Users,
         ApproveOauthAuthorization(r, u)
  PROVE  Consistent' /\ GrantsKept(grants, grants')
<1> DEFINE row == [user |-> u, expires_at |-> now + CodeLife, exists |-> TRUE, grants |-> 0]
<1>1. now + CodeLife \in Nat
  BY LifetimesNat, SMT DEF Consistent, ClockTyped
<1>2. row \in Code
  BY <1>1, SMT DEF Code
<1>3. codes' = Append(codes, row)
  BY DEF ApproveOauthAuthorization
<1> HIDE DEF row
<1>4. CodesTyped' /\ Longer(codes, codes')
  BY <1>2, <1>3, CodePut DEF Consistent
<1>5. GrantsSound' /\ GrantsKept(grants, grants')
  BY GrantsLeft DEF ApproveOauthAuthorization
<1>6. ApiTokensTyped' /\ VerdictsAreCurrent' /\ TokensKept(apiTokens, apiTokens')
  BY TokensLeft DEF ApproveOauthAuthorization
<1>7. RequestsReady'
  BY <1>4, <1>5, <1>6, AllWait DEF ApproveOauthAuthorization
<1>8. ClockTyped'
  BY DEF Consistent, ClockTyped, ApproveOauthAuthorization, Call
<1>9. QED
  BY <1>4, <1>5, <1>6, <1>7, <1>8 DEF Consistent

\* A call that has only read goes on with what it read.
LEMMA ReadConsistent ==
  ASSUME Consistent, NEW r \in Requests, NEW q \in Request, Enter(r, q), UNCHANGED now,
         UNCHANGED <<served, apiVars, grantVars>>, Ready(q, codes, grants, apiTokens)
  PROVE  Consistent' /\ GrantsKept(grants, grants')
<1>1. /\ CodesTyped' /\ Longer(codes, codes')
      /\ GrantsSound' /\ GrantsKept(grants, grants')
  BY GrantVarsLeft
<1>2. ApiTokensTyped' /\ VerdictsAreCurrent' /\ TokensKept(apiTokens, apiTokens')
  BY TokensLeft
<1>3. RequestsReady'
  BY <1>1, <1>2, OneGoesOn DEF grantVars, apiVars
<1>4. QED
  BY <1>1, <1>2, <1>3 DEF Consistent, ClockTyped

\* token_authorization_code has read a code.
LEMMA ExchangeConsistent ==
  ASSUME Consistent, NEW r \in Requests, NEW c \in 1..Len(codes), Exchange(r, c)
  PROVE  Consistent' /\ GrantsKept(grants, grants')
<1> DEFINE q == [Idle EXCEPT !.step = "codeDelete", !.code = c]
<1>1. q \in Request
  <2>1. c \in Nat
    BY SMT
  <2>2. QED
    BY <2>1, Zenon DEF Idle, Request, Steps
<1>2. Ready(q, codes, grants, apiTokens)
  BY SMT DEF Idle, Ready, GrantSteps, ApiSteps
<1>3. Enter(r, q) /\ UNCHANGED now /\ UNCHANGED <<served, apiVars, grantVars>>
  BY DEF Exchange, Call
<1> HIDE DEF q
<1>4. QED
  BY <1>1, <1>2, <1>3, ReadConsistent

\* The unconditional delete of a code.
LEMMA CodeDeleteConsistent ==
  ASSUME Consistent, NEW r \in Requests, CodeDelete(r)
  PROVE  Consistent' /\ GrantsKept(grants, grants')
<1>1. PICK q \in Request : q = requests[r] /\ q.step = "codeDelete"
  BY DEF Consistent, RequestsReady, CodeDelete, At
<1>2. q.code \in 1..Len(codes)
  BY <1>1 DEF Consistent, RequestsReady, Ready
<1>3. CodesTyped' /\ Longer(codes, codes')
  BY <1>1, <1>2, CodeDeletedOrSpent DEF Consistent, CodeDelete
<1>4. GrantsSound' /\ GrantsKept(grants, grants')
  BY GrantsLeft DEF CodeDelete
<1>5. ApiTokensTyped' /\ VerdictsAreCurrent' /\ TokensKept(apiTokens, apiTokens')
  BY TokensLeft DEF CodeDelete
<1>6. RequestsReady'
  <2>1. CASE Return(r)
    BY <1>3, <1>4, <1>5, <2>1, OneReturns
  <2>2. CASE Goto(r, "mint")
    <3>1. [q EXCEPT !.step = "mint"].step = "mint" /\ [q EXCEPT !.step = "mint"].code = q.code
      BY SMT DEF Request
    <3>2. q.code \in 1..Len(codes')
      BY <1>2, <1>3, SMT DEF Longer
    <3>3. Ready([q EXCEPT !.step = "mint"], codes', grants', apiTokens')
      BY <3>1, <3>2 DEF Ready, GrantSteps, ApiSteps
    <3>4. "mint" \in Steps
      BY DEF Steps
    <3>5. QED
      BY <1>1, <1>3, <1>4, <1>5, <2>2, <3>3, <3>4, OneContinues
  <2>3. QED
    BY <2>1, <2>2 DEF CodeDelete
<1>7. ClockTyped'
  BY DEF Consistent, ClockTyped, CodeDelete, At
<1>8. QED
  BY <1>3, <1>4, <1>5, <1>6, <1>7 DEF Consistent

\* mint_grant: a grant that ends GrantLife from now.
LEMMA MintConsistent ==
  ASSUME LifetimesAssumption, Consistent, NEW r \in Requests, Mint(r)
  PROVE  Consistent' /\ GrantsKept(grants, grants')
<1>1. PICK q \in Request : q = requests[r] /\ q.step = "mint"
  BY DEF Consistent, RequestsReady, Mint, At
<1>2. PICK c \in Nat : c = q.code /\ c \in 1..Len(codes)
  BY <1>1, SMT DEF Consistent, RequestsReady, Ready, Request
<1>3. PICK u \in Users : u = codes[c].user
  BY <1>2, CodeRowTyped DEF Consistent
<1>4. PICK access \in Nat, cap \in Nat, at \in Nat :
        access = now + AccessLife /\ cap = now + GrantLife /\ at = now
  BY LifetimesNat, SMT DEF Consistent, ClockTyped
<1>5. PICK refresh \in Nat : refresh = RefreshExpiry(now, cap) /\ refresh <= cap
  BY <1>4, RefreshExpiryCapped
<1> DEFINE row == [user |-> u, code |-> c, version |-> 1, access_expires_at |-> access,
                   refresh_expires_at |-> refresh, expires_at |-> cap, created_at |-> at,
                   last_used_at |-> None, exists |-> TRUE]
<1>6. row \in Grant /\ row.version = 1
  BY SMT DEF Grant
<1>7. Lives(row)
  BY <1>4, <1>5, SMT DEF Lives
<1>8. grants' = Append(grants, row) /\ drawn' = Append(drawn, 1)
  BY <1>1, <1>2, <1>3, <1>4, <1>5 DEF Mint
<1> HIDE DEF row
<1>9. GrantsSound' /\ GrantsKept(grants, grants')
  BY <1>6, <1>7, <1>8, GrantMinted DEF Consistent, Mint
<1>10. CodesTyped' /\ Longer(codes, codes')
  BY <1>1, <1>2, CodeDeletedOrSpent DEF Consistent, Mint
<1>11. ApiTokensTyped' /\ VerdictsAreCurrent' /\ TokensKept(apiTokens, apiTokens')
  BY TokensLeft DEF Mint
<1>12. RequestsReady'
  BY <1>9, <1>10, <1>11, OneReturns DEF Mint
<1>13. ClockTyped'
  BY DEF Consistent, ClockTyped, Mint, At
<1>14. QED
  BY <1>9, <1>10, <1>11, <1>12, <1>13 DEF Consistent

\* The rows of a token that a client was given.
LEMMA GivenRow ==
  ASSUME Consistent, NEW t \in given
  PROVE  /\ t.grant \in 1..Len(grants) /\ t.grant \in Nat /\ t.version \in Nat
         /\ grants[t.grant] \in Grant
BY RowTyped, SMT DEF Consistent, GrantsSound, GivenRefer

\* token_refresh has read the grant: the token is spent, or the row as it was
\* is held.
LEMMA RefreshConsistent ==
  ASSUME Consistent, NEW r \in Requests, NEW t \in given, Refresh(r, t)
  PROVE  Consistent' /\ GrantsKept(grants, grants')
<1>1. PICK g \in Nat, v \in Nat, row \in Grant, at \in Nat :
        /\ g = t.grant /\ v = t.version /\ row = grants[g] /\ at = now /\ g \in 1..Len(grants)
  BY GivenRow DEF Consistent, ClockTyped
<1>2. UNCHANGED now /\ UNCHANGED <<served, apiVars, grantVars>>
  BY DEF Refresh, Call
<1>3. CASE Enter(r, [Idle EXCEPT !.step = "reuse", !.grant = t.grant])
  <2> DEFINE q == [Idle EXCEPT !.step = "reuse", !.grant = g]
  <2>1. q \in Request
    BY Zenon DEF Idle, Request, Steps
  <2>2. Ready(q, codes, grants, apiTokens)
    BY <1>1, SMT DEF Idle, Ready, GrantSteps, ApiSteps
  <2>3. Enter(r, q)
    BY <1>1, <1>3
  <2> HIDE DEF q
  <2>4. QED
    BY <1>2, <2>1, <2>2, <2>3, ReadConsistent
<1>4. CASE /\ row.version = v
           /\ Enter(r, [Idle EXCEPT !.step = "rotate", !.grant = t.grant, !.at = now,
                                    !.version = t.version, !.row = grants[t.grant]])
  <2> DEFINE q == [Idle EXCEPT !.step = "rotate", !.grant = g, !.at = at, !.version = v,
                               !.row = row]
  <2>1. q \in Request
    BY Zenon DEF Idle, Request, Steps
  <2>2. q.step = "rotate" /\ q.grant = g /\ q.version = v /\ q.row = row
    BY SMT DEF Idle
  <2>3. Enter(r, q)
    BY <1>1, <1>4
  <2> HIDE DEF q
  <2>4. Ready(q, codes, grants, apiTokens)
    BY <1>1, <1>4, <2>2 DEF Ready, GrantSteps, ApiSteps
  <2>5. QED
    BY <1>2, <2>1, <2>3, <2>4, ReadConsistent
<1>5. QED
  BY <1>1, <1>3, <1>4 DEF Refresh

\* A grant in range of a call in flight.
LEMMA RequestGrant ==
  ASSUME Consistent, NEW r \in Requests, requests[r].step \in GrantSteps
  PROVE  requests[r].grant \in 1..Len(grants)
BY DEF Consistent, RequestsReady, Ready

\* delete_oauth_grant, after a spent token or by its owner.
LEMMA EndConsistent ==
  ASSUME Consistent, NEW r \in Requests, Reuse(r) \/ Revoke(r)
  PROVE  Consistent' /\ GrantsKept(grants, grants')
<1>1. PICK g \in 1..Len(grants) : g = requests[r].grant
  BY RequestGrant DEF Reuse, Revoke, At, GrantSteps
<1>2. /\ grants' = [grants EXCEPT ![g].exists = FALSE] /\ Return(r)
      /\ UNCHANGED <<now, codes, drawn, given, rotations, served, apiVars>>
  BY <1>1 DEF Reuse, Revoke, At
<1>3. GrantsSound' /\ GrantsKept(grants, grants')
  BY <1>2, GrantEnds DEF Consistent
<1>4. CodesTyped' /\ Longer(codes, codes')
  BY <1>2, CodesLeft
<1>5. ApiTokensTyped' /\ VerdictsAreCurrent' /\ TokensKept(apiTokens, apiTokens')
  BY <1>2, TokensLeft
<1>6. RequestsReady'
  BY <1>2, <1>3, <1>4, <1>5, OneReturns
<1>7. QED
  BY <1>2, <1>3, <1>4, <1>5, <1>6 DEF Consistent, ClockTyped

\* The TTL of the table.
LEMMA ExpireConsistent ==
  ASSUME Consistent, NEW g \in 1..Len(grants), Expire(g)
  PROVE  Consistent' /\ GrantsKept(grants, grants')
<1>1. GrantsSound' /\ GrantsKept(grants, grants')
  BY GrantEnds DEF Consistent, Expire
<1>2. CodesTyped' /\ Longer(codes, codes')
  BY CodesLeft DEF Expire
<1>3. ApiTokensTyped' /\ VerdictsAreCurrent' /\ TokensKept(apiTokens, apiTokens')
  BY TokensLeft DEF Expire, apiVars
<1>4. RequestsReady'
  BY <1>1, <1>2, <1>3, AllWait DEF Expire
<1>5. QED
  BY <1>1, <1>2, <1>3, <1>4 DEF Consistent, ClockTyped, Expire

\* update_oauth_grant, on the condition that the secret is the one presented.
LEMMA RotateConsistent ==
  ASSUME LifetimesAssumption, Consistent, NEW r \in Requests, Rotate(r)
  PROVE  Consistent' /\ GrantsKept(grants, grants')
<1>1. PICK q \in Request : q = requests[r] /\ q.step = "rotate"
  BY DEF Consistent, RequestsReady, Rotate, At
<1>2. /\ q.grant \in 1..Len(grants) /\ q.row \in Grant /\ q.version = q.row.version
      /\ q.row.expires_at = grants[q.grant].expires_at
  BY <1>1 DEF Consistent, RequestsReady, Ready, GrantSteps
<1>3. PICK g \in 1..Len(grants) : g = q.grant
  BY <1>2
<1>4. PICK at \in Nat : at = q.at
  BY SMT DEF Request
<1>5. GrantsSound' /\ GrantsKept(grants, grants')
  <2>1. CASE UNCHANGED <<grants, drawn, rotations, given>>
    BY <2>1, GrantsLeft DEF Rotate
  <2>2. CASE ~UNCHANGED <<grants, drawn, rotations, given>>
    <3>1. PICK v : v = drawn[g] + 1
      OBVIOUS
    <3>2. PICK from : from = q.version
      OBVIOUS
    <3>3. from = grants[g].version
      BY <1>1, <1>2, <1>3, <2>2, <3>2 DEF Rotate, Rotatable
    <3>4. grants' = [grants EXCEPT
            ![g].version = v, ![g].access_expires_at = at + AccessLife,
            ![g].refresh_expires_at = RefreshExpiry(at, grants[g].expires_at)]
      BY <1>1, <1>2, <1>3, <1>4, <2>2, <3>1 DEF Rotate
    <3>5. /\ drawn' = [drawn EXCEPT ![g] = v]
          /\ rotations' = rotations \cup {[grant |-> g, from |-> from, to |-> v]}
          /\ given' \in {given, given \cup {[grant |-> g, version |-> v]}}
          /\ UNCHANGED served
      BY <1>1, <1>3, <2>2, <3>1, <3>2 DEF Rotate
    <3>6. QED
      BY <3>1, <3>3, <3>4, <3>5, GrantRotated DEF Consistent
  <2>3. QED
    BY <2>1, <2>2
<1>6. CodesTyped' /\ Longer(codes, codes')
  BY CodesLeft DEF Rotate
<1>7. ApiTokensTyped' /\ VerdictsAreCurrent' /\ TokensKept(apiTokens, apiTokens')
  BY TokensLeft DEF Rotate
<1>8. RequestsReady'
  BY <1>5, <1>6, <1>7, OneReturns DEF Rotate
<1>9. QED
  BY <1>5, <1>6, <1>7, <1>8 DEF Consistent, ClockTyped, Rotate, At

\* verify_access_token has let a call through, before the grant's end.
LEMMA AccessConsistent ==
  ASSUME Consistent, NEW r \in Requests, NEW t \in given, Access(r, t)
  PROVE  Consistent' /\ GrantsKept(grants, grants')
<1>1. PICK g \in Nat, v \in Nat, row \in Grant, at \in Nat :
        /\ g = t.grant /\ v = t.version /\ row = grants[g] /\ at = now /\ g \in 1..Len(grants)
  BY GivenRow DEF Consistent, ClockTyped
<1>2. UNCHANGED now /\ UNCHANGED <<served, apiVars, grantVars>> /\ at < row.expires_at
  BY <1>1 DEF Access, Call, AccessValid
<1>3. PICK step \in {"touch", "serve"} : step = IF Stale(row, at) THEN "touch" ELSE "serve"
  OBVIOUS
<1> DEFINE q == [Idle EXCEPT !.grant = g, !.at = at, !.version = v, !.row = row, !.step = step]
<1>4. step \in Steps
  BY DEF Steps
<1>5. q \in Request
  BY <1>4, Zenon DEF Idle, Request
<1>6. q.step = step /\ q.grant = g /\ q.at = at
  BY SMT DEF Idle
<1>7. Enter(r, q)
  BY <1>1, <1>3 DEF Access
<1> HIDE DEF q
<1>8. Ready(q, codes, grants, apiTokens)
  BY <1>1, <1>2, <1>3, <1>6 DEF Ready, GrantSteps, ApiSteps
<1>9. QED
  BY <1>2, <1>5, <1>7, <1>8, ReadConsistent

\* A touch keeps the promise that the call is in time.
LEMMA TouchConsistent ==
  ASSUME Consistent, NEW r \in Requests, Touch(r)
  PROVE  Consistent' /\ GrantsKept(grants, grants')
<1>1. PICK q \in Request : q = requests[r] /\ q.step = "touch"
  BY DEF Consistent, RequestsReady, Touch, At
<1>2. PICK g \in 1..Len(grants) : g = q.grant
  BY <1>1, RequestGrant DEF GrantSteps
<1>3. q.at < grants[g].expires_at
  BY <1>1, <1>2 DEF Consistent, RequestsReady, Ready
<1>4. GrantsSound' /\ GrantsKept(grants, grants')
  BY <1>1, <1>2, GrantTouched DEF Consistent, Touch
<1>5. CodesTyped' /\ Longer(codes, codes')
  BY CodesLeft DEF Touch
<1>6. ApiTokensTyped' /\ VerdictsAreCurrent' /\ TokensKept(apiTokens, apiTokens')
  BY TokensLeft DEF Touch
<1>7. Ready([q EXCEPT !.step = "serve"], codes', grants', apiTokens')
  <2>1. PICK p : p = [q EXCEPT !.step = "serve"]
    OBVIOUS
  <2>2. p.step = "serve" /\ p.grant = g /\ p.at = q.at
    BY <1>2, <2>1, SMT DEF Request
  <2>3. g \in 1..Len(grants') /\ grants'[g].expires_at = grants[g].expires_at
    BY <1>4, SMT DEF GrantsKept, Longer
  <2>4. Ready(p, codes', grants', apiTokens')
    BY <1>3, <2>2, <2>3 DEF Ready, GrantSteps, ApiSteps
  <2>5. QED
    BY <2>1, <2>4
<1>8. RequestsReady'
  BY <1>1, <1>4, <1>5, <1>6, <1>7, OneContinues DEF Touch, Steps
<1>9. QED
  BY <1>4, <1>5, <1>6, <1>8 DEF Consistent, ClockTyped, Touch, At

\* The call is served.
LEMMA ServeConsistent ==
  ASSUME Consistent, NEW r \in Requests, Serve(r)
  PROVE  Consistent' /\ GrantsKept(grants, grants')
<1>1. PICK q \in Request : q = requests[r] /\ q.step = "serve"
  BY DEF Consistent, RequestsReady, Serve, At
<1>2. q.grant \in 1..Len(grants) /\ q.at < grants[q.grant].expires_at
  BY <1>1 DEF Consistent, RequestsReady, Ready, GrantSteps
<1>3. served' = served \cup {[grant |-> q.grant, at |-> q.at]} /\ UNCHANGED grants
  BY <1>1 DEF Serve, grantVars
<1>4. ServedInTime'
  BY <1>2, <1>3 DEF Consistent, GrantsSound, ServedInTime
<1>5. GrantsKept(grants, grants')
  BY <1>3, GrantsStay
<1>6. GrantsSound'
  BY <1>4 DEF Consistent, GrantsSound, GrantsTyped, VersionsDrawn, LivesCapped, GivenRefer,
              ReplacedAreBelow, OneSuccessor, Serve, grantVars
<1>7. CodesTyped' /\ Longer(codes, codes')
  BY CodesLeft DEF Serve, grantVars
<1>8. ApiTokensTyped' /\ VerdictsAreCurrent' /\ TokensKept(apiTokens, apiTokens')
  BY TokensLeft DEF Serve
<1>9. RequestsReady'
  BY <1>5, <1>7, <1>8, OneReturns DEF Serve
<1>10. QED
  BY <1>5, <1>6, <1>7, <1>8, <1>9 DEF Consistent, ClockTyped, Serve, At

\* revokeOauthGrant has read the grant.
LEMMA RevokeOauthGrantConsistent ==
  ASSUME Consistent, NEW r \in Requests, NEW g \in 1..Len(grants), RevokeOauthGrant(r, g)
  PROVE  Consistent' /\ GrantsKept(grants, grants')
<1> DEFINE q == [Idle EXCEPT !.step = "revoke", !.grant = g]
<1>1. g \in Nat
  BY SMT
<1>2. q \in Request
  BY <1>1, Zenon DEF Idle, Request, Steps
<1>3. Ready(q, codes, grants, apiTokens)
  BY SMT DEF Idle, Ready, GrantSteps, ApiSteps
<1>4. Enter(r, q) /\ UNCHANGED now /\ UNCHANGED <<served, apiVars, grantVars>>
  BY DEF RevokeOauthGrant, Call
<1> HIDE DEF q
<1>5. QED
  BY <1>2, <1>3, <1>4, ReadConsistent

-----------------------------------------------------------------------------
(* Each step of an integration with an API token.                          *)

\* issue_api_token.
LEMMA CreateApiTokenConsistent ==
  ASSUME Consistent, NEW r \in Requests, CreateApiToken(r)
  PROVE  Consistent' /\ GrantsKept(grants, grants')
<1> DEFINE row == [enabled |-> TRUE, last_used_at |-> None, exists |-> TRUE]
           seen == {[row EXCEPT !.exists = FALSE], row}
<1>1. row \in ApiToken /\ [row EXCEPT !.exists = FALSE] \in ApiToken
  BY Zenon DEF ApiToken
<1>2. seen \in SUBSET ApiToken /\ row \in seen
  BY <1>1
<1>3. apiTokens' = Append(apiTokens, row) /\ apiSeen' = Append(apiSeen, seen)
  BY DEF CreateApiToken
<1> HIDE DEF row, seen
<1>4. ApiTokensTyped' /\ TokensKept(apiTokens, apiTokens')
  BY <1>1, <1>2, <1>3, TokenPut DEF Consistent
<1>5. /\ CodesTyped' /\ Longer(codes, codes')
      /\ GrantsSound' /\ GrantsKept(grants, grants')
  BY GrantVarsLeft DEF CreateApiToken
<1>6. RequestsReady'
  BY <1>4, <1>5, AllWait DEF CreateApiToken
<1>7. QED
  BY <1>4, <1>5, <1>6 DEF Consistent, ClockTyped, VerdictsAreCurrent, CreateApiToken, Call

\* verify_token_with_api_token has not read the row yet.
LEMMA PresentApiTokenConsistent ==
  ASSUME Consistent, NEW r \in Requests, NEW k \in 1..Len(apiTokens), PresentApiToken(r, k)
  PROVE  Consistent' /\ GrantsKept(grants, grants')
<1>1. PICK good \in BOOLEAN : good = Good(apiTokens[k])
  BY TokenTyped, SMT DEF Consistent, Good, ApiToken
<1> DEFINE q == [Idle EXCEPT !.step = "apiFetch", !.token = k, !.was = {good}]
<1>2. k \in Nat
  BY SMT
<1>3. q \in Request
  BY <1>2, Zenon DEF Idle, Request, Steps
<1>4. q.step = "apiFetch" /\ q.token = k /\ q.was = {good}
  BY SMT DEF Idle
<1>5. Enter(r, q) /\ UNCHANGED now /\ UNCHANGED <<served, apiVars, grantVars>>
  BY <1>1 DEF PresentApiToken, Call
<1> HIDE DEF q
<1>6. Ready(q, codes, grants, apiTokens)
  BY <1>1, <1>4 DEF Ready, GrantSteps, ApiSteps
<1>7. QED
  BY <1>3, <1>5, <1>6, ReadConsistent

\* The row is read consistently, so what is found is what the token was just
\* noted to be.
LEMMA ApiFetchConsistent ==
  ASSUME Consistent, NEW r \in Requests, ApiFetch(r)
  PROVE  Consistent' /\ GrantsKept(grants, grants')
<1>1. PICK q \in Request : q = requests[r] /\ q.step = "apiFetch"
  BY DEF Consistent, RequestsReady, ApiFetch, At
<1>2. q.token \in 1..Len(apiTokens) /\ Good(apiTokens[q.token]) \in q.was
  BY <1>1 DEF Consistent, RequestsReady, Ready, ApiSteps
<1>3. PICK good : good = Good(apiTokens[q.token])
  OBVIOUS
<1>4. verdicts' = verdicts \cup {[good |-> good, was |-> q.was]}
  BY <1>1, <1>3 DEF ApiFetch, get_api_token
<1>5. VerdictsAreCurrent'
  BY <1>2, <1>3, <1>4 DEF Consistent, VerdictsAreCurrent
<1>6. /\ CodesTyped' /\ Longer(codes, codes')
      /\ GrantsSound' /\ GrantsKept(grants, grants')
  BY GrantVarsLeft DEF ApiFetch
<1>7. ApiTokensTyped' /\ TokensKept(apiTokens, apiTokens')
  BY TokensStay DEF Consistent, ApiTokensTyped, ApiFetch
<1>8. RequestsReady'
  <2>1. CASE Return(r)
    BY <1>6, <1>7, <2>1, OneReturns
  <2>2. CASE Goto(r, "apiTouch")
    <3>1. PICK p : p = [q EXCEPT !.step = "apiTouch"]
      OBVIOUS
    <3>2. p.step = "apiTouch" /\ p.token = q.token
      BY <3>1, SMT DEF Request
    <3>3. Ready(p, codes', grants', apiTokens')
      BY <1>2, <3>2 DEF Ready, GrantSteps, ApiSteps, ApiFetch
    <3>4. QED
      BY <1>1, <1>6, <1>7, <2>2, <3>1, <3>3, OneContinues DEF Steps
  <2>3. QED
    BY <2>1, <2>2 DEF ApiFetch
<1>9. QED
  BY <1>5, <1>6, <1>7, <1>8 DEF Consistent, ClockTyped, ApiFetch, At

\* updateApiToken and deleteApiToken have read the row.
LEMMA ManageApiTokenConsistent ==
  ASSUME Consistent, NEW r \in Requests, NEW k \in 1..Len(apiTokens), ManageApiToken(r, k)
  PROVE  Consistent' /\ GrantsKept(grants, grants')
<1>1. k \in Nat
  BY SMT
<1>2. ASSUME NEW on \in BOOLEAN,
             Call(r, "updateApiToken"),
             Enter(r, [Idle EXCEPT !.step = "apiUpdate", !.token = k, !.enabled = on])
      PROVE  Consistent' /\ GrantsKept(grants, grants')
  <2> DEFINE q == [Idle EXCEPT !.step = "apiUpdate", !.token = k, !.enabled = on]
  <2>1. q \in Request
    BY <1>1, Zenon DEF Idle, Request, Steps
  <2>2. q.step = "apiUpdate" /\ q.token = k
    BY SMT DEF Idle
  <2>3. Enter(r, q) /\ UNCHANGED now /\ UNCHANGED <<served, apiVars, grantVars>>
    BY <1>2 DEF ManageApiToken, Call
  <2> HIDE DEF q
  <2>4. Ready(q, codes, grants, apiTokens)
    BY <2>2 DEF Ready, GrantSteps, ApiSteps
  <2>5. QED
    BY <2>1, <2>3, <2>4, ReadConsistent
<1>3. ASSUME Call(r, "deleteApiToken"),
             Enter(r, [Idle EXCEPT !.step = "apiDelete", !.token = k])
      PROVE  Consistent' /\ GrantsKept(grants, grants')
  <2> DEFINE q == [Idle EXCEPT !.step = "apiDelete", !.token = k]
  <2>1. q \in Request
    BY <1>1, Zenon DEF Idle, Request, Steps
  <2>2. q.step = "apiDelete" /\ q.token = k
    BY SMT DEF Idle
  <2>3. Enter(r, q) /\ UNCHANGED now /\ UNCHANGED <<served, apiVars, grantVars>>
    BY <1>3 DEF ManageApiToken, Call
  <2> HIDE DEF q
  <2>4. Ready(q, codes, grants, apiTokens)
    BY <2>2 DEF Ready, GrantSteps, ApiSteps
  <2>5. QED
    BY <2>1, <2>3, <2>4, ReadConsistent
<1>4. QED
  BY <1>2, <1>3 DEF ManageApiToken

\* The three writes to a token's row.
LEMMA ApiWriteConsistent ==
  ASSUME Consistent, NEW r \in Requests, ApiTouch(r) \/ ApiUpdate(r) \/ ApiDelete(r)
  PROVE  Consistent' /\ GrantsKept(grants, grants')
<1>1. PICK q \in Request : q = requests[r] /\ q.step \in ApiSteps
  BY DEF Consistent, RequestsReady, ApiTouch, ApiUpdate, ApiDelete, At, ApiSteps
<1>2. PICK k \in 1..Len(apiTokens) : k = q.token
  BY <1>1 DEF Consistent, RequestsReady, Ready
<1>3. PICK old \in ApiToken : old = apiTokens[k]
  BY TokenTyped DEF Consistent
<1>4. PICK row \in ApiToken : SetApiToken(k, row, Idle, r)
  <2>1. CASE ApiTouch(r)
    <3>1. [old EXCEPT !.last_used_at = now] \in ApiToken
      BY SMT DEF ApiToken, Consistent, ClockTyped
    <3>2. QED
      BY <1>1, <1>2, <1>3, <2>1, <3>1 DEF ApiTouch
  <2>2. CASE ApiUpdate(r)
    <3>1. PICK on \in BOOLEAN : on = q.enabled
      BY SMT DEF Request
    <3>2. [old EXCEPT !.enabled = on] \in ApiToken
      BY SMT DEF ApiToken
    <3>3. QED
      BY <1>1, <1>2, <1>3, <2>2, <3>1, <3>2 DEF ApiUpdate
  <2>3. CASE ApiDelete(r)
    <3>1. [old EXCEPT !.exists = FALSE] \in ApiToken
      BY Zenon DEF ApiToken
    <3>2. QED
      BY <1>1, <1>2, <1>3, <2>3, <3>1 DEF ApiDelete
  <2>4. QED
    BY <2>1, <2>2, <2>3
<1>5. UNCHANGED <<now, grantVars, served, verdicts>>
  BY DEF ApiTouch, ApiUpdate, ApiDelete, At
<1>6. ApiTokensTyped' /\ RequestsReady'
  BY <1>4, <1>5, TokenSet DEF grantVars
<1>7. /\ CodesTyped' /\ GrantsSound' /\ GrantsKept(grants, grants')
  BY <1>5, GrantVarsLeft
<1>8. QED
  BY <1>5, <1>6, <1>7 DEF Consistent, ClockTyped, VerdictsAreCurrent

-----------------------------------------------------------------------------
(* Every step.                                                             *)

\* An invocation ends.
LEMMA StopConsistent ==
  ASSUME Consistent, NEW r \in Requests, Stop(r)
  PROVE  Consistent' /\ GrantsKept(grants, grants')
<1>1. UNCHANGED now /\ UNCHANGED <<served, apiVars, grantVars>> /\ Enter(r, Idle)
  BY DEF Stop, Return, Enter
<1>2. QED
  BY <1>1, IdleIsReady, ReadConsistent

\* Time passes.
LEMMA TickConsistent ==
  ASSUME Consistent, Tick
  PROVE  Consistent' /\ GrantsKept(grants, grants')
<1>1. ClockTyped'
  BY SMT DEF Consistent, ClockTyped, Tick
<1>2. /\ CodesTyped' /\ Longer(codes, codes')
      /\ GrantsSound' /\ GrantsKept(grants, grants')
  BY GrantVarsLeft DEF Tick, grantVars
<1>3. ApiTokensTyped' /\ VerdictsAreCurrent' /\ TokensKept(apiTokens, apiTokens')
  BY TokensLeft DEF Tick, apiVars
<1>4. RequestsReady'
  BY <1>2, <1>3, AllWait DEF Tick
<1>5. QED
  BY <1>1, <1>2, <1>3, <1>4 DEF Consistent

\* Nothing changes.
LEMMA StutterConsistent ==
  ASSUME Consistent, UNCHANGED vars
  PROVE  Consistent' /\ GrantsKept(grants, grants')
<1>1. UNCHANGED <<now, served, grantVars, apiVars, requests>>
  BY DEF vars, grantVars, apiVars
<1>2. /\ CodesTyped' /\ Longer(codes, codes')
      /\ GrantsSound' /\ GrantsKept(grants, grants')
  BY <1>1, GrantVarsLeft
<1>3. ApiTokensTyped' /\ VerdictsAreCurrent' /\ TokensKept(apiTokens, apiTokens')
  BY <1>1, TokensLeft
<1>4. RequestsReady'
  BY <1>1, <1>2, <1>3, AllWait
<1>5. QED
  BY <1>1, <1>2, <1>3, <1>4 DEF Consistent, ClockTyped

\* Nothing has been approved, and nobody is running.
LEMMA InitConsistent ==
  ASSUME Init
  PROVE  Consistent
<1>1. /\ CodesTyped /\ GrantsTyped /\ ApiTokensTyped
  BY EmptySeq, SMT DEF Init, CodesTyped, GrantsTyped, ApiTokensTyped
<1>2. /\ VersionsDrawn /\ LivesCapped /\ GivenRefer /\ ReplacedAreBelow /\ ServedInTime
      /\ OneSuccessor /\ VerdictsAreCurrent
  BY EmptySeq, SMT DEF Init, VersionsDrawn, LivesCapped, GivenRefer, ReplacedAreBelow,
                       ServedInTime, OneSuccessor, VerdictsAreCurrent
<1>3. RequestsReady
  BY IdleIsReady DEF Init, RequestsReady
<1>4. QED
  BY <1>1, <1>2, <1>3 DEF Init, Consistent, GrantsSound, ClockTyped

\* Whatever call goes on, the rows, the tokens given and the calls in flight stay
\* consistent, and no grant is brought back or lives longer.
LEMMA NextConsistent ==
  ASSUME LifetimesAssumption, Consistent, [Next]_vars
  PROVE  Consistent' /\ GrantsKept(grants, grants')
<1>1. CASE Tick
  BY <1>1, TickConsistent
<1>2. CASE \E g \in 1..Len(grants) : Expire(g)
  BY <1>2, ExpireConsistent
<1>3. ASSUME NEW r \in Requests, Oauth(r)
      PROVE  Consistent' /\ GrantsKept(grants, grants')
  <2>1. CASE \E u \in Users : ApproveOauthAuthorization(r, u)
    BY <2>1, ApproveOauthAuthorizationConsistent
  <2>2. CASE \E c \in 1..Len(codes) : Exchange(r, c)
    BY <2>2, ExchangeConsistent
  <2>3. CASE \E t \in given : Refresh(r, t) \/ Access(r, t)
    BY <2>3, RefreshConsistent, AccessConsistent
  <2>4. CASE \E g \in 1..Len(grants) : RevokeOauthGrant(r, g)
    BY <2>4, RevokeOauthGrantConsistent
  <2>5. CASE CodeDelete(r)
    BY <2>5, CodeDeleteConsistent
  <2>6. CASE Mint(r)
    BY <2>6, MintConsistent
  <2>7. CASE Reuse(r) \/ Revoke(r)
    BY <2>7, EndConsistent
  <2>8. CASE Rotate(r)
    BY <2>8, RotateConsistent
  <2>9. CASE Touch(r)
    BY <2>9, TouchConsistent
  <2>10. CASE Serve(r)
    BY <2>10, ServeConsistent
  <2>11. QED
    BY <1>3, <2>1, <2>2, <2>3, <2>4, <2>5, <2>6, <2>7, <2>8, <2>9, <2>10 DEF Oauth
<1>4. ASSUME NEW r \in Requests, Api(r)
      PROVE  Consistent' /\ GrantsKept(grants, grants')
  <2>1. CASE CreateApiToken(r)
    BY <2>1, CreateApiTokenConsistent
  <2>2. CASE \E k \in 1..Len(apiTokens) : PresentApiToken(r, k) \/ ManageApiToken(r, k)
    BY <2>2, PresentApiTokenConsistent, ManageApiTokenConsistent
  <2>3. CASE ApiFetch(r)
    BY <2>3, ApiFetchConsistent
  <2>4. CASE ApiTouch(r) \/ ApiUpdate(r) \/ ApiDelete(r)
    BY <2>4, ApiWriteConsistent
  <2>5. QED
    BY <1>4, <2>1, <2>2, <2>3, <2>4 DEF Api
<1>5. CASE \E r \in Requests : Stop(r)
  BY <1>5, StopConsistent
<1>6. CASE UNCHANGED vars
  BY <1>6, StutterConsistent
<1>7. QED
  BY <1>1, <1>2, <1>3, <1>4, <1>5, <1>6 DEF Next

-----------------------------------------------------------------------------
(* The theorems.                                                           *)

\* The inductive invariant: rows of grants, tokens in clients' hands and calls in
\* flight agree, however calls overlap, stop half way or lose their answers.
THEOREM GrantsAreConsistent ==
  ASSUME LifetimesAssumption
  PROVE  Spec => []Consistent
<1>1. Init => Consistent
  BY InitConsistent
<1>2. Consistent /\ [Next]_vars => Consistent'
  BY NextConsistent
<1>3. QED
  BY <1>1, <1>2, PTL DEF Spec

\* The clock stays within the bound of the model.
InBound == now \in 0..MaxTime

LEMMA ClockBounded ==
  ASSUME MaxTime \in Nat
  PROVE  Spec => []InBound
<1>1. Init => InBound
  BY SMT DEF Init, InBound
<1>2. InBound /\ [Next]_vars => InBound'
  <2>1. ASSUME InBound, Tick PROVE InBound'
    BY <2>1, SMT DEF Tick, InBound
  <2>2. Next => Tick \/ UNCHANGED now
    BY ZenonT(60) DEF Next, Expire, Oauth, Api, Stop, Call, At, ApproveOauthAuthorization, Exchange,
           CodeDelete, Mint, Refresh, Reuse, Rotate, Access, Touch, Serve, RevokeOauthGrant,
           Revoke, CreateApiToken, PresentApiToken, ApiFetch, ApiTouch, ManageApiToken,
           ApiUpdate, ApiDelete
  <2>3. QED
    BY <2>1, <2>2 DEF vars, InBound
<1>3. QED
  BY <1>1, <1>2, PTL DEF Spec

\* Type correctness of every table and every call in flight.
THEOREM GrantsTypeCorrect ==
  ASSUME LifetimesAssumption, MaxTime \in Nat
  PROVE  Spec => []TypeOK
<1>1. Consistent /\ InBound => TypeOK
  BY DEF Consistent, CodesTyped, GrantsSound, GrantsTyped, VersionsDrawn, GivenRefer,
         ApiTokensTyped, RequestsReady, InBound, TypeOK
<1>2. QED
  BY <1>1, GrantsAreConsistent, ClockBounded, PTL

\* "Refresh rotation is a compare-and-swap": whatever is resent, lost or late, a
\* refresh token is replaced by one other at most, because a version that was
\* replaced is below the grant's present one and a rotation is from the present one.
THEOREM RotationsDoNotFork ==
  ASSUME LifetimesAssumption
  PROVE  Spec => []OneSuccessor
<1>1. Consistent => OneSuccessor
  BY DEF Consistent, GrantsSound
<1>2. QED
  BY <1>1, GrantsAreConsistent, PTL

\* No refresh moves a token's expiry past what the user approved, and no call is
\* served after that: the row a rotation held when it computed the new expiry has
\* the grant's end, which no write moves.
THEOREM GrantsEndInTime ==
  ASSUME LifetimesAssumption
  PROVE  Spec => []NothingOutlivesTheGrant
<1>1. Consistent => NothingOutlivesTheGrant
  BY DEF Consistent, GrantsSound, LivesCapped, Lives, ServedInTime, NothingOutlivesTheGrant
<1>2. QED
  BY <1>1, GrantsAreConsistent, PTL

\* A grant that was revoked, or ended because a spent token was used, is not
\* brought back by a touch or a rotation that read it before.
THEOREM RevocationIsFinal ==
  ASSUME LifetimesAssumption
  PROVE  Spec => RevokedIsFinal
<1>1. Consistent /\ [Next]_vars
        => [\A g \in 1..Len(grants) : ~grants[g].exists => ~grants'[g].exists]_vars
  BY NextConsistent DEF GrantsKept
<1>2. QED
  BY <1>1, GrantsAreConsistent, PTL DEF Spec, RevokedIsFinal

\* Both: a grant is over when its user said it would be, or revoked it, for good.
THEOREM GrantsAreOverForGood ==
  ASSUME LifetimesAssumption
  PROVE  Spec => GrantsEndForGood
BY GrantsEndInTime, RevocationIsFinal DEF GrantsEndForGood

\* An API token is found to be what it was at some moment of the call: "disabling
\* takes effect on the token's very next request", and a new one works at once.
THEOREM VerdictsHold ==
  ASSUME LifetimesAssumption
  PROVE  Spec => []VerdictsAreCurrent
<1>1. Consistent => VerdictsAreCurrent
  BY DEF Consistent
<1>2. QED
  BY <1>1, GrantsAreConsistent, PTL
=============================================================================
