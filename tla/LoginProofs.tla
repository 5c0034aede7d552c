---------------------------- MODULE LoginProofs ----------------------------
(***************************************************************************)
(* Proofs about Login, for every value of its constants: what code rows,   *)
(* sessions, submit tokens and the calls in flight have to do with the     *)
(* codes that were stored and mailed, and what follows from it.            *)
(***************************************************************************)
EXTENDS Login, SequenceTheorems, TLAPS

-----------------------------------------------------------------------------
(* The inductive invariant.                                                *)

ClockTyped == now \in 0..MaxTime

UsersTyped == users \in [Users -> BOOLEAN] /\ userSeen \in [Users -> SUBSET BOOLEAN]

\* What is noted of a code that was stored.
Issue == [inst : Instances \cup {None}, email : Addresses, at : Nat, counted : Nat]

IssuedTyped == issued \in Seq(Issue)

\* A row with a code has one that was stored under its key, when the row says.
Fits(k, row, is) ==
    row # None /\ row.code # None =>
        /\ row.code \in 1..Len(is)
        /\ k = KeyFor(is[row.code].inst, is[row.code].email)
        /\ row.last_sent_at = is[row.code].at

CodesSound ==
    /\ codes \in [Keys -> CodeRow \cup {None}]
    /\ codeSeen \in [Keys -> SUBSET (CodeRow \cup {None})]
    /\ \A k \in Keys : codes[k] \in codeSeen[k] /\ \A row \in codeSeen[k] : Fits(k, row, issued)

\* Codes are stored for requests made before.
IssuedBefore == \A c \in 1..Len(issued) : issued[c].at <= now

MailedIssued == mailed \subseteq 1..Len(issued)

TokensTyped == tokens \subseteq SubmitToken

CodesConsistent ==
    /\ IssuedTyped /\ CodesSound /\ IssuedBefore /\ MailedIssued /\ TokensTyped
    /\ LoginAttemptsKept /\ RefusalsJustified

\* A session that was used lasts from its last use.
Lasts(row) == row.last_used_at # None => row.expires_at = row.last_used_at + SessionLife

SessionsTyped ==
    /\ sessions \in Seq(Session) /\ sessSeen \in Seq(SUBSET Session)
    /\ Len(sessSeen) = Len(sessions)

\* No row a session had lasts longer than its present one, nor it longer than if
\* it were used now.
SessionsLast ==
    \A s \in 1..Len(sessions) :
        /\ Lasts(sessions[s]) /\ sessions[s].expires_at <= now + SessionLife
        /\ \A row \in sessSeen[s] : Lasts(row) /\ row.expires_at <= sessions[s].expires_at

\* A session that served a call lasts from then on.
ServedLast ==
    \A s \in 1..Len(sessions) :
        sessions[s].served # None
            => sessions[s].expires_at >= sessions[s].served + SessionLife - TouchAfter

SessionsConsistent == SessionsTyped /\ SessionsLast /\ ServedLast

TypingSteps == {"verifyCount", "verifyDelete", "issue", "discard"}
SessionSteps == {"touch", "principal", "logout"}

\* A code that was stored, or is to be stored again, for a call.
StoredFor(q, is) ==
    /\ q.typed \in 1..Len(is)
    /\ is[q.typed].inst = q.inst /\ is[q.typed].email = q.email /\ is[q.typed].at = q.at

\* A call about a code knows the address, and refers to the code it stored or the
\* row it read; it goes on if the code typed is that row's.  A call of a session
\* refers to one there is, which the call may use for long enough.
Ready(q, t, is, ms, ss) ==
    /\ q.step \in TypingSteps \cup {"codePut"} => q.email \in Addresses
    /\ q.step \in {"codePut", "touch"} => q.at <= t
    /\ q.step = "codePut" /\ q.typed # 0 => StoredFor(q, is)
    /\ q.step = "codeMail" => q.typed \in 1..Len(is)
    /\ q.step \in TypingSteps =>
        /\ q.row \in CodeRow \ {None} /\ q.row.code # None
        /\ Fits(KeyFor(q.inst, q.email), q.row, is)
        /\ q.typed \in ms \cup {0}
    /\ q.step \in {"verifyDelete", "issue"} => q.typed = q.row.code
    /\ q.step \in SessionSteps => q.session \in 1..Len(ss)
    /\ q.step = "principal" => ss[q.session].expires_at >= q.at + SessionLife - TouchAfter

RequestsReady ==
    /\ requests \in [Requests -> Request]
    /\ \A r \in Requests : Ready(requests[r], now, issued, mailed, sessions)

Consistent ==
    /\ ClockTyped /\ UsersTyped /\ CodesConsistent /\ SessionsConsistent /\ RequestsReady
    /\ CodesBuyTheirOwn

-----------------------------------------------------------------------------
(* What a step may do to what calls in flight refer to.                    *)

Longer(s, t) == Len(s) \in Nat /\ Len(t) \in Nat /\ Len(s) <= Len(t)

\* Of a code that was stored, only the count of attempts changes.
IssuedKept(is, js) ==
    /\ Longer(is, js)
    /\ \A c \in 1..Len(is) : /\ js[c].inst = is[c].inst /\ js[c].email = is[c].email
                             /\ js[c].at = is[c].at

\* A session stays its user's, for the code it was given for; it is not brought
\* back, nor shortened.
SessionsKept(ss, us) ==
    /\ Longer(ss, us)
    /\ \A s \in 1..Len(ss) :
         /\ us[s].user = ss[s].user /\ us[s].code = ss[s].code
         /\ ss[s].expires_at \in Nat /\ us[s].expires_at \in Nat
         /\ ss[s].expires_at <= us[s].expires_at
         /\ ~ss[s].exists => ~us[s].exists

\* A row still has the code it had.
LEMMA FitsKept ==
  ASSUME NEW k, NEW row, NEW is, NEW js, IssuedKept(is, js), Fits(k, row, is)
  PROVE  Fits(k, row, js)
<1>1. CASE row = None \/ row.code = None
  BY <1>1 DEF Fits
<1>2. CASE row # None /\ row.code # None
  <2>1. /\ row.code \in 1..Len(is)
        /\ k = KeyFor(is[row.code].inst, is[row.code].email)
        /\ row.last_sent_at = is[row.code].at
    BY <1>2 DEF Fits
  <2>2. row.code \in 1..Len(js)
    BY <2>1, SMT DEF IssuedKept, Longer
  <2>3. QED
    BY <2>1, <2>2 DEF Fits, IssuedKept
<1>3. QED
  BY <1>1, <1>2

\* So does all that a call in flight refers to.
LEMMA ReadyKept ==
  ASSUME NEW t \in Int, NEW u \in Int, t <= u, NEW is, NEW js, NEW ms, NEW ns,
         NEW ss, NEW us, NEW q \in Request,
         IssuedKept(is, js), ms \subseteq ns, SessionsKept(ss, us), Ready(q, t, is, ms, ss)
  PROVE  Ready(q, u, js, ns, us)
<1>1. q.at \in Nat
  BY DEF Request
<1>2. q.step \in TypingSteps \cup {"codePut"} => q.email \in Addresses
  BY DEF Ready
<1>3. q.step \in {"codePut", "touch"} => q.at <= u
  BY <1>1, SMT DEF Ready
<1>9. q.step = "codePut" /\ q.typed # 0 => StoredFor(q, js)
  <2>1. ASSUME StoredFor(q, is) PROVE StoredFor(q, js)
    <3>1. q.typed \in 1..Len(js)
      BY <2>1, SMT DEF StoredFor, IssuedKept, Longer
    <3>2. QED
      BY <2>1, <3>1 DEF StoredFor, IssuedKept
  <2>2. QED
    BY <2>1 DEF Ready
<1>4. q.step = "codeMail" => q.typed \in 1..Len(js)
  BY SMT DEF Ready, IssuedKept, Longer
<1>5. q.step \in TypingSteps =>
        /\ q.row \in CodeRow \ {None} /\ q.row.code # None
        /\ Fits(KeyFor(q.inst, q.email), q.row, js)
        /\ q.typed \in ns \cup {0}
  BY FitsKept DEF Ready
<1>6. q.step \in {"verifyDelete", "issue"} => q.typed = q.row.code
  BY DEF Ready
<1>7. q.step \in SessionSteps => q.session \in 1..Len(us)
  BY SMT DEF Ready, SessionsKept, Longer
<1>8. ASSUME q.step = "principal"
      PROVE  us[q.session].expires_at >= q.at + SessionLife - TouchAfter
  <2>1. /\ q.session \in 1..Len(ss)
        /\ ss[q.session].expires_at >= q.at + SessionLife - TouchAfter
    BY <1>8 DEF Ready, SessionSteps
  <2>2. /\ ss[q.session].expires_at \in Nat /\ us[q.session].expires_at \in Nat
        /\ ss[q.session].expires_at <= us[q.session].expires_at
    BY <2>1 DEF SessionsKept
  <2>3. SessionLife \in Nat /\ TouchAfter \in Nat
    BY DurationsAssumption
  <2>4. QED
    BY <1>1, <2>1, <2>2, <2>3, SMT
<1>10. QED
  BY <1>2, <1>3, <1>4, <1>5, <1>6, <1>7, <1>8, <1>9, Zenon DEF Ready

\* A sequence that is typed has a length.
LEMMA SameLonger ==
  ASSUME NEW S, NEW s \in Seq(S)
  PROVE  Longer(s, s)
BY LenProperties, SMT DEF Longer

\* A code's note.
LEMMA IssueTyped ==
  ASSUME IssuedTyped, NEW c \in 1..Len(issued)
  PROVE  /\ issued[c] \in Issue /\ issued[c].inst \in Instances \cup {None}
         /\ issued[c].email \in Addresses /\ issued[c].at \in Nat /\ issued[c].counted \in Nat
<1>1. issued[c] \in Issue
  BY ElementOfSeq DEF IssuedTyped
<1>2. QED
  BY <1>1, SMT DEF Issue

\* A session's row.
LEMMA SessionTyped ==
  ASSUME SessionsTyped, NEW s \in 1..Len(sessions)
  PROVE  /\ sessions[s] \in Session /\ sessions[s].user \in Users /\ sessions[s].code \in Nat
         /\ sessions[s].created_at \in Nat /\ sessions[s].expires_at \in Nat
         /\ sessions[s].last_used_at \in Nat \cup {None}
         /\ sessions[s].served \in Nat \cup {None} /\ sessions[s].exists \in BOOLEAN
         /\ sessSeen[s] \subseteq Session
<1>1. sessions[s] \in Session /\ sessSeen[s] \in SUBSET Session
  BY ElementOfSeq DEF SessionsTyped
<1>2. QED
  BY <1>1, SMT DEF Session

\* Whatever is left alone is kept.
LEMMA IssuedStay == ASSUME Consistent, UNCHANGED issued PROVE IssuedKept(issued, issued')
BY SameLonger DEF Consistent, CodesConsistent, IssuedTyped, IssuedKept

\* So are sessions.
LEMMA SessionsStay ==
  ASSUME Consistent, UNCHANGED sessions PROVE SessionsKept(sessions, sessions')
<1>1. Longer(sessions, sessions)
  BY SameLonger DEF Consistent, SessionsConsistent, SessionsTyped
<1>2. \A s \in 1..Len(sessions) :
        sessions[s].expires_at \in Nat /\ sessions[s].expires_at <= sessions[s].expires_at
  BY SessionTyped, SMT DEF Consistent, SessionsConsistent
<1>3. QED
  BY <1>1, <1>2, Zenon DEF SessionsKept

\* What a step leaves to the calls in flight.
Keeps ==
    /\ now \in Int /\ now' \in Int /\ now <= now'
    /\ IssuedKept(issued, issued') /\ mailed \subseteq mailed'
    /\ SessionsKept(sessions, sessions')

\* Nothing but calls changes.
LEMMA NothingKeeps ==
  ASSUME Consistent, UNCHANGED <<now, issued, mailed, sessions>>
  PROVE  Keeps
<1>1. now \in Int /\ now' \in Int /\ now <= now'
  BY BoundAssumption, SMT DEF Consistent, ClockTyped
<1>2. QED
  BY <1>1, IssuedStay, SessionsStay DEF Keeps

\* A call goes on, the others wait.
LEMMA OneGoesOn ==
  ASSUME Consistent, Keeps, NEW r \in Requests, NEW q \in Request, Enter(r, q),
         Ready(q, now', issued', mailed', sessions')
  PROVE  RequestsReady'
<1>1. requests' \in [Requests -> Request]
  BY DEF Consistent, RequestsReady, Enter
<1>2. ASSUME NEW p \in Requests PROVE Ready(requests'[p], now', issued', mailed', sessions')
  <2>1. requests'[p] = IF p = r THEN q ELSE requests[p]
    BY DEF Consistent, RequestsReady, Enter
  <2>2. requests[p] \in Request /\ Ready(requests[p], now, issued, mailed, sessions)
    BY DEF Consistent, RequestsReady
  <2>3. Ready(requests[p], now', issued', mailed', sessions')
    BY <2>2, ReadyKept DEF Keeps
  <2>4. QED
    BY <2>1, <2>3
<1>3. QED
  BY <1>1, <1>2 DEF RequestsReady

\* All wait.
LEMMA AllWait ==
  ASSUME Consistent, Keeps, UNCHANGED requests
  PROVE  RequestsReady'
<1>1. ASSUME NEW p \in Requests PROVE Ready(requests[p], now', issued', mailed', sessions')
  <2>2. requests[p] \in Request /\ Ready(requests[p], now, issued, mailed, sessions)
    BY DEF Consistent, RequestsReady
  <2>3. QED
    BY <2>2, ReadyKept DEF Keeps
<1>2. QED
  BY <1>1 DEF Consistent, RequestsReady

\* An invocation that is not running refers to nothing.
LEMMA IdleIsReady ==
  ASSUME NEW t, NEW is, NEW ms, NEW ss
  PROVE  Idle \in Request /\ Ready(Idle, t, is, ms, ss)
BY SMT DEF Idle, Request, Steps, Ready, TypingSteps, SessionSteps

\* One call ends.
LEMMA OneReturns ==
  ASSUME Consistent, Keeps, NEW r \in Requests, Return(r)
  PROVE  RequestsReady'
BY IdleIsReady, OneGoesOn DEF Return, Enter

\* One call goes on with what it has.
LEMMA OneContinues ==
  ASSUME Consistent, Keeps, NEW r \in Requests, NEW step \in Steps, Goto(r, step),
         Ready([requests[r] EXCEPT !.step = step], now', issued', mailed', sessions')
  PROVE  RequestsReady'
<1> DEFINE q == [requests[r] EXCEPT !.step = step]
<1>1. q \in Request
  BY SMT DEF Consistent, RequestsReady, Request
<1>2. Enter(r, q)
  BY DEF Goto, Enter
<1>3. QED
  BY <1>1, <1>2, OneGoesOn

-----------------------------------------------------------------------------
(* What each part of the invariant needs.                                  *)

\* The keys of login codes are addresses, those of submit codes are not.
LEMMA KeysApart ==
  ASSUME NEW i \in Instances \cup {None}, NEW a \in Addresses,
         NEW j \in Instances \cup {None}, NEW b \in Addresses, KeyFor(i, a) = KeyFor(j, b)
  PROVE  i = j /\ a = b
<1>1. CASE i = None /\ j = None
  BY <1>1 DEF KeyFor
<1>2. CASE i # None /\ j # None
  BY <1>2 DEF KeyFor, submit_code_state_id
<1>3. CASE i = None /\ j # None
  <2>1. a = <<j, b>> /\ j \in Instances
    BY <1>3 DEF KeyFor, submit_code_state_id
  <2>2. a \in Instances \X Addresses
    BY <2>1
  <2>3. QED
    BY <2>2, KeysAssumption
<1>4. CASE i # None /\ j = None
  <2>1. b = <<i, a>> /\ i \in Instances
    BY <1>4 DEF KeyFor, submit_code_state_id
  <2>2. b \in Instances \X Addresses
    BY <2>1
  <2>3. QED
    BY <2>2, KeysAssumption
<1>5. QED
  BY <1>1, <1>2, <1>3, <1>4

\* A request's key is one of the tables'.
LEMMA KeysAreKeys ==
  ASSUME NEW i \in Instances \cup {None}, NEW a \in Addresses
  PROVE  KeyFor(i, a) \in Keys
BY DEF KeyFor, Keys

\* A row is put where it fits.
LEMMA PutFits ==
  ASSUME CodesSound, IssuedKept(issued, issued'), NEW k \in Keys,
         NEW row \in CodeRow \cup {None}, Put(k, row), Fits(k, row, issued')
  PROVE  CodesSound' /\ codes' = [codes EXCEPT ![k] = row]
<1>1. /\ codes' \in [Keys -> CodeRow \cup {None}]
      /\ codeSeen' \in [Keys -> SUBSET (CodeRow \cup {None})]
  BY DEF CodesSound, Put
<1>2. ASSUME NEW j \in Keys
      PROVE  codes'[j] \in codeSeen'[j] /\ \A old \in codeSeen'[j] : Fits(j, old, issued')
  <2>1. \A old \in codeSeen[j] : Fits(j, old, issued')
    BY FitsKept DEF CodesSound
  <2>2. /\ codes'[j] = IF j = k THEN row ELSE codes[j]
        /\ codeSeen'[j] = IF j = k THEN codeSeen[k] \cup {row} ELSE codeSeen[j]
    BY DEF CodesSound, Put
  <2>3. codes[j] \in codeSeen[j]
    BY DEF CodesSound
  <2>4. QED
    BY <2>1, <2>2, <2>3
<1>3. QED
  BY <1>1, <1>2 DEF CodesSound, Put

\* Nothing is put.
LEMMA NothingPut ==
  ASSUME CodesSound, IssuedKept(issued, issued'), UNCHANGED <<codes, codeSeen>>
  PROVE  CodesSound'
<1>1. ASSUME NEW j \in Keys
      PROVE  codes[j] \in codeSeen[j] /\ \A old \in codeSeen[j] : Fits(j, old, issued')
  BY FitsKept DEF CodesSound
<1>2. QED
  BY <1>1 DEF CodesSound

\* Refusals stay justified while codes are kept.
LEMMA RefusalsStay ==
  ASSUME RefusalsJustified, IssuedKept(issued, issued'), UNCHANGED refusals
  PROVE  RefusalsJustified'
<1>1. ASSUME NEW f \in refusals
      PROVE  \E c \in 1..Len(issued') :
                /\ issued'[c].inst = f.inst /\ issued'[c].email = f.email
                /\ issued'[c].at <= f.at /\ f.at < issued'[c].at + ResendAfter
  <2>1. PICK c \in 1..Len(issued) :
                /\ issued[c].inst = f.inst /\ issued[c].email = f.email
                /\ issued[c].at <= f.at /\ f.at < issued[c].at + ResendAfter
    BY DEF RefusalsJustified
  <2>2. c \in 1..Len(issued')
    BY SMT DEF IssuedKept, Longer
  <2>3. /\ issued'[c].inst = issued[c].inst /\ issued'[c].email = issued[c].email
        /\ issued'[c].at = issued[c].at
    BY DEF IssuedKept
  <2>4. QED
    BY <2>1, <2>2, <2>3
<1>2. QED
  BY <1>1, Zenon DEF RefusalsJustified

\* So does what codes bought, while sessions and codes are kept.
LEMMA BoughtStays ==
  ASSUME Consistent, Keeps, tokens' = tokens, Len(sessions') = Len(sessions)
  PROVE  CodesBuyTheirOwn'
<1>1. ASSUME NEW c \in mailed
      PROVE  /\ c \in mailed' /\ issued'[c].inst = issued[c].inst
             /\ issued'[c].email = issued[c].email
  BY DEF Consistent, CodesConsistent, MailedIssued, Keeps, IssuedKept
<1>2. ASSUME NEW s \in 1..Len(sessions)
      PROVE  sessions'[s].code = sessions[s].code /\ sessions'[s].user = sessions[s].user
  BY DEF Keeps, SessionsKept
<1>3. QED
  BY <1>1, <1>2 DEF Consistent, CodesBuyTheirOwn

\* Codes are left alone.
LEMMA CodesRest ==
  ASSUME Consistent, Keeps, UNCHANGED <<codes, codeSeen, issued, mailed, refusals, tokens>>
  PROVE  CodesConsistent'
<1>1. CodesSound' /\ RefusalsJustified'
  BY NothingPut, RefusalsStay DEF Consistent, CodesConsistent, Keeps
<1>2. IssuedTyped' /\ MailedIssued' /\ TokensTyped' /\ LoginAttemptsKept'
  BY DEF Consistent, CodesConsistent, IssuedTyped, MailedIssued, TokensTyped, LoginAttemptsKept
<1>3. IssuedBefore'
  <2>1. ASSUME NEW c \in 1..Len(issued) PROVE issued[c].at <= now'
    <3>1. issued[c].at \in Nat /\ issued[c].at <= now
      BY IssueTyped DEF Consistent, CodesConsistent, IssuedBefore
    <3>2. QED
      BY <3>1, SMT DEF Keeps
  <2>2. QED
    BY <2>1 DEF IssuedBefore
<1>4. QED
  BY <1>1, <1>2, <1>3 DEF CodesConsistent

\* Sessions are left alone.
LEMMA SessionsRest ==
  ASSUME Consistent, now \in Int, now' \in Int, now <= now', UNCHANGED <<sessions, sessSeen>>
  PROVE  SessionsConsistent'
<1>1. ASSUME NEW s \in 1..Len(sessions) PROVE sessions[s].expires_at <= now' + SessionLife
  <2>1. sessions[s].expires_at \in Nat /\ sessions[s].expires_at <= now + SessionLife
    BY SessionTyped DEF Consistent, SessionsConsistent, SessionsLast
  <2>2. QED
    BY <2>1, DurationsAssumption, SMT
<1>2. SessionsLast'
  BY <1>1 DEF Consistent, SessionsConsistent, SessionsLast, Lasts
<1>3. SessionsTyped' /\ ServedLast'
  BY DEF Consistent, SessionsConsistent, SessionsTyped, ServedLast
<1>4. QED
  BY <1>2, <1>3 DEF SessionsConsistent

\* Nothing is stored but what calls hold.
LEMMA OnlyCalls ==
  ASSUME Consistent, RequestsReady',
         UNCHANGED <<now, users, userSeen, codes, codeSeen, issued, mailed, refusals,
                     sessions, sessSeen, tokens>>
  PROVE  Consistent'
<1>1. Keeps
  BY NothingKeeps
<1>2. CodesConsistent'
  BY <1>1, CodesRest
<1>3. SessionsConsistent'
  BY <1>1, SessionsRest DEF Keeps
<1>4. CodesBuyTheirOwn'
  BY <1>1, BoughtStays
<1>5. ClockTyped' /\ UsersTyped'
  BY DEF Consistent, ClockTyped, UsersTyped
<1>6. QED
  BY <1>2, <1>3, <1>4, <1>5 DEF Consistent

-----------------------------------------------------------------------------
(* The clock, the TTL and updateUser.                                      *)

\* Time goes on.
LEMMA TickConsistent == ASSUME Consistent, Tick PROVE Consistent'
<1>1. now \in Int /\ now' \in Int /\ now <= now' /\ now' \in 0..MaxTime
  BY BoundAssumption, SMT DEF Consistent, ClockTyped, Tick
<1>2. IssuedKept(issued, issued') /\ SessionsKept(sessions, sessions')
  BY IssuedStay, SessionsStay DEF Tick
<1>3. Keeps
  BY <1>1, <1>2 DEF Keeps, Tick
<1>4. CodesConsistent'
  BY <1>3, CodesRest DEF Tick
<1>5. SessionsConsistent'
  BY <1>1, SessionsRest DEF Tick
<1>6. CodesBuyTheirOwn'
  BY <1>3, BoughtStays DEF Tick
<1>7. RequestsReady'
  BY <1>3, AllWait DEF Tick
<1>8. UsersTyped'
  BY DEF Consistent, UsersTyped, Tick
<1>9. QED
  BY <1>1, <1>4, <1>5, <1>6, <1>7, <1>8 DEF Consistent, ClockTyped

\* A row is removed: nothing is left to count attempts of.
LEMMA RemovedKeeps ==
  ASSUME Consistent, NEW k \in Keys, Put(k, None),
         UNCHANGED <<now, issued, mailed, refusals, tokens>>
  PROVE  CodesConsistent'
<1>1. IssuedKept(issued, issued')
  BY IssuedStay
<1>2. Fits(k, None, issued')
  BY DEF Fits
<1>3. CodesSound' /\ codes' = [codes EXCEPT ![k] = None]
  BY <1>1, <1>2, PutFits DEF Consistent, CodesConsistent
<1>4. LoginAttemptsKept'
  <2>1. codes \in [Keys -> CodeRow \cup {None}] /\ Addresses \subseteq Keys
    BY DEF Consistent, CodesConsistent, CodesSound, Keys
  <2>2. \A a \in Addresses : codes'[a] = IF a = k THEN None ELSE codes[a]
    BY <1>3, <2>1
  <2>3. QED
    BY <2>2 DEF Consistent, CodesConsistent, LoginAttemptsKept
<1>5. RefusalsJustified'
  BY <1>1, RefusalsStay DEF Consistent, CodesConsistent
<1>6. IssuedTyped' /\ MailedIssued' /\ TokensTyped' /\ IssuedBefore'
  BY DEF Consistent, CodesConsistent, IssuedTyped, MailedIssued, TokensTyped, IssuedBefore
<1>7. QED
  BY <1>3, <1>4, <1>5, <1>6 DEF CodesConsistent

\* The TTL removes an expired code.
LEMMA ExpireConsistent == ASSUME Consistent, NEW k \in Keys, Expire(k) PROVE Consistent'
<1>1. Keeps
  BY NothingKeeps DEF Expire
<1>2. CodesConsistent'
  BY RemovedKeeps DEF Expire
<1>3. SessionsConsistent'
  BY <1>1, SessionsRest DEF Keeps, Expire
<1>4. CodesBuyTheirOwn'
  BY <1>1, BoughtStays DEF Expire
<1>5. RequestsReady'
  BY <1>1, AllWait DEF Expire
<1>6. ClockTyped' /\ UsersTyped'
  BY DEF Consistent, ClockTyped, UsersTyped, Expire
<1>7. QED
  BY <1>2, <1>3, <1>4, <1>5, <1>6 DEF Consistent

\* updateUser enables or disables a user.
LEMMA SetEnabledConsistent == ASSUME Consistent, NEW u \in Users, SetEnabled(u) PROVE Consistent'
<1>1. Keeps
  BY NothingKeeps DEF SetEnabled
<1>2. UsersTyped'
  BY DEF Consistent, UsersTyped, SetEnabled
<1>3. CodesConsistent'
  BY <1>1, CodesRest DEF SetEnabled
<1>4. SessionsConsistent'
  BY <1>1, SessionsRest DEF Keeps, SetEnabled
<1>5. CodesBuyTheirOwn'
  BY <1>1, BoughtStays DEF SetEnabled
<1>6. RequestsReady'
  BY <1>1, AllWait DEF SetEnabled
<1>7. ClockTyped'
  BY DEF Consistent, ClockTyped, SetEnabled
<1>8. QED
  BY <1>2, <1>3, <1>4, <1>5, <1>6, <1>7 DEF Consistent

-----------------------------------------------------------------------------
(* Asking for a code.                                                      *)

\* What is read of a key is a row it had.
LEMMA StoredSeen ==
  ASSUME CodesSound, NEW k \in Keys, NEW row \in Stored(k)
  PROVE  row \in CodeRow \cup {None} /\ Fits(k, row, issued)
BY DEF CodesSound, Stored

\* requestAuthCode and requestSubmitCode are refused for a code stored within the
\* window, or go on to store one.
LEMMA RequestReadConsistent ==
  ASSUME Consistent, NEW r \in Requests, NEW i \in Instances \cup {None}, NEW a \in Addresses,
         RequestRead(r, i, a)
  PROVE  Consistent'
<1> DEFINE q == [Idle EXCEPT !.step = "codePut", !.inst = i, !.email = a, !.at = now]
           f == [inst |-> i, email |-> a, at |-> now]
<1>k. Keeps
  BY NothingKeeps DEF RequestRead
<1>n. now \in Nat
  BY BoundAssumption, SMT DEF Consistent, ClockTyped
<1>1. PICK row \in Stored(KeyFor(i, a)) :
        IF Refused(row, now)
        THEN refusals' = refusals \cup {f} /\ UNCHANGED requests
        ELSE Enter(r, q) /\ UNCHANGED refusals
  BY DEF RequestRead
<1>2. row \in CodeRow \cup {None} /\ Fits(KeyFor(i, a), row, issued)
  BY StoredSeen, KeysAreKeys DEF Consistent, CodesConsistent
<1>3. CASE Refused(row, now)
  <2>1. row # None /\ row.code # None /\ now < row.last_sent_at + ResendAfter
    BY <1>3 DEF Refused, TooSoon
  <2> DEFINE c == row.code
  <2>2. /\ c \in 1..Len(issued) /\ KeyFor(i, a) = KeyFor(issued[c].inst, issued[c].email)
        /\ row.last_sent_at = issued[c].at
    BY <1>2, <2>1 DEF Fits
  <2>3. issued[c].inst = i /\ issued[c].email = a
    <3>1. issued[c].inst \in Instances \cup {None} /\ issued[c].email \in Addresses
      BY <2>2, IssueTyped DEF Consistent, CodesConsistent
    <3>2. PICK j \in Instances \cup {None}, b \in Addresses :
            j = issued[c].inst /\ b = issued[c].email
      BY <3>1
    <3>3. KeyFor(i, a) = KeyFor(j, b)
      BY <2>2, <3>2
    <3>4. i = j /\ a = b
      BY <3>3, KeysApart
    <3>5. QED
      BY <3>2, <3>4
  <2>4. issued[c].at <= now
    BY <2>2 DEF Consistent, CodesConsistent, IssuedBefore
  <2>5. RefusalsJustified'
    <3>1. UNCHANGED issued /\ refusals' = refusals \cup {f}
      BY <1>1, <1>3 DEF RequestRead
    <3>2. ASSUME NEW g \in refusals'
          PROVE  \E d \in 1..Len(issued) :
                    /\ issued[d].inst = g.inst /\ issued[d].email = g.email
                    /\ issued[d].at <= g.at /\ g.at < issued[d].at + ResendAfter
      <4>1. CASE g = f
        BY <4>1, <2>1, <2>2, <2>3, <2>4
      <4>2. CASE g \in refusals
        BY <4>2 DEF Consistent, CodesConsistent, RefusalsJustified
      <4>3. QED
        BY <3>1, <4>1, <4>2
    <3>3. QED
      BY <3>1, <3>2, Zenon DEF RefusalsJustified
  <2>6. CodesConsistent'
    <3>1. CodesSound'
      BY NothingPut, <1>k DEF Consistent, CodesConsistent, RequestRead, Keeps
    <3>2. IssuedTyped' /\ MailedIssued' /\ TokensTyped' /\ IssuedBefore' /\ LoginAttemptsKept'
      BY DEF Consistent, CodesConsistent, IssuedTyped, MailedIssued, TokensTyped, IssuedBefore,
             LoginAttemptsKept, RequestRead
    <3>3. QED
      BY <2>5, <3>1, <3>2 DEF CodesConsistent
  <2>7. RequestsReady'
    BY <1>1, <1>3, <1>k, AllWait
  <2>8. SessionsConsistent' /\ CodesBuyTheirOwn'
    BY <1>k, SessionsRest, BoughtStays DEF Keeps, RequestRead
  <2>9. ClockTyped' /\ UsersTyped'
    BY DEF Consistent, ClockTyped, UsersTyped, RequestRead
  <2>10. QED
    BY <2>6, <2>7, <2>8, <2>9 DEF Consistent
<1>4. CASE ~Refused(row, now)
  <2>1. Enter(r, q) /\ UNCHANGED refusals
    BY <1>1, <1>4
  <2>2. q \in Request
    BY <1>n, Zenon DEF Idle, Request, Steps
  <2>3. Ready(q, now', issued', mailed', sessions')
    BY <1>n, SMT DEF Ready, Idle, TypingSteps, SessionSteps, RequestRead
  <2>4. RequestsReady'
    BY <1>k, <2>1, <2>2, <2>3, OneGoesOn
  <2>5. QED
    BY <2>1, <2>4, OnlyCalls DEF RequestRead
<1>5. QED
  BY <1>3, <1>4

\* What a call in flight is, and refers to.
LEMMA CallTyped ==
  ASSUME Consistent, NEW r \in Requests
  PROVE  /\ requests[r] \in Request /\ requests[r].step \in Steps
         /\ requests[r].email \in Addresses \cup {None}
         /\ requests[r].inst \in Instances \cup {None} /\ requests[r].at \in Nat
         /\ requests[r].row \in CodeRow \cup {None} /\ requests[r].typed \in Nat
         /\ requests[r].session \in Nat /\ requests[r].leaves \in BOOLEAN
         /\ Ready(requests[r], now, issued, mailed, sessions)
<1>1. requests[r] \in Request /\ Ready(requests[r], now, issued, mailed, sessions)
  BY DEF Consistent, RequestsReady
<1>2. QED
  BY <1>1, SMT DEF Request

\* The code that is put is of the call's address, instance and time, and no attempts
\* are counted of it: a new one, or the one put before.
LEMMA CodeIsPut ==
  ASSUME Consistent, NEW r \in Requests, CodePut(r)
  PROVE  \E c \in 1..Len(issued') :
           /\ issued' \in Seq(Issue) /\ Len(issued) \in Nat /\ Len(issued') \in Nat
           /\ IssuedKept(issued, issued')
           /\ issued'[c].inst = requests[r].inst /\ issued'[c].email = requests[r].email
           /\ issued'[c].at = requests[r].at /\ issued'[c].counted = 0
           /\ \A d \in 1..Len(issued') : d # c =>
                d \in 1..Len(issued) /\ issued'[d] = issued[d]
           /\ c \in 1..Len(issued) => /\ issued[c].inst = requests[r].inst
                                      /\ issued[c].email = requests[r].email
           /\ Put(KeyOf(r), NewCode(c, requests[r].at))
           /\ \E step \in {"codePut", "codeMail"} :
                Enter(r, [requests[r] EXCEPT !.step = step, !.typed = c])
<1> DEFINE q == requests[r]
           n == Len(issued) + 1
           note == [inst |-> q.inst, email |-> q.email, at |-> q.at, counted |-> 0]
<1>1. /\ q \in Request /\ q.inst \in Instances \cup {None} /\ q.at \in Nat /\ q.step = "codePut"
      /\ q.email \in Addresses
      /\ q.typed # 0 => StoredFor(q, issued)
  BY CallTyped DEF CodePut, At, Ready
<1>2. issued \in Seq(Issue) /\ Len(issued) \in Nat
  BY LenProperties DEF Consistent, CodesConsistent, IssuedTyped
<1>3. CASE q.typed = 0
  <2>1. note \in Issue
    BY <1>1, Zenon DEF Issue
  <2>2. issued' = Append(issued, note)
    BY <1>3 DEF CodePut
  <2>3. /\ issued' \in Seq(Issue) /\ Len(issued') = n
        /\ \A c \in 1..Len(issued) : issued'[c] = issued[c]
        /\ issued'[n] = note
    BY <1>2, <2>1, <2>2, AppendProperties
  <2>4. /\ n \in 1..Len(issued') /\ Len(issued') \in Nat /\ n \notin 1..Len(issued)
        /\ \A d \in 1..Len(issued') : d # n => d \in 1..Len(issued)
    BY <1>2, <2>3, SMT
  <2>5. IssuedKept(issued, issued')
    <3>1. Longer(issued, issued')
      BY <1>2, <2>3, SMT DEF Longer
    <3>2. QED
      BY <2>3, <3>1 DEF IssuedKept
  <2>6. /\ Put(KeyOf(r), NewCode(n, q.at))
        /\ \E step \in {"codePut", "codeMail"} : Enter(r, [q EXCEPT !.step = step, !.typed = n])
    BY <1>3 DEF CodePut
  <2>7. /\ issued'[n].inst = q.inst /\ issued'[n].email = q.email
        /\ issued'[n].at = q.at /\ issued'[n].counted = 0
    BY <2>3
  <2> HIDE DEF n, note
  <2>8. QED
    BY <1>2, <2>3, <2>4, <2>5, <2>6, <2>7
<1>4. CASE q.typed # 0
  <2> DEFINE c == q.typed
             note2 == [issued[c] EXCEPT !.counted = 0]
  <2>1. /\ c \in 1..Len(issued) /\ issued[c].inst = q.inst /\ issued[c].email = q.email
        /\ issued[c].at = q.at
    BY <1>1, <1>4 DEF StoredFor
  <2>2. issued' = [issued EXCEPT ![c] = note2]
    BY <1>4 DEF CodePut
  <2>3. issued[c] \in Issue
    BY <1>2, <2>1, ElementOfSeq
  <2>4. /\ note2 \in Issue /\ note2.inst = q.inst /\ note2.email = q.email
        /\ note2.at = q.at /\ note2.counted = 0
    <3>1. note2 \in Issue
      <4>1. PICK zero \in Nat : zero = 0
        OBVIOUS
      <4>2. [issued[c] EXCEPT !.counted = zero] \in Issue
        BY <2>3, <4>1, Zenon DEF Issue
      <4>3. QED
        BY <4>1, <4>2
    <3>2. note2.counted = 0 /\ note2.inst = q.inst
      BY <2>1, <2>3, Zenon DEF Issue
    <3>3. note2.email = q.email /\ note2.at = q.at
      BY <2>1, <2>3, Zenon DEF Issue
    <3>4. QED
      BY <3>1, <3>2, <3>3
  <2> HIDE DEF note2
  <2>5. /\ issued' \in Seq(Issue) /\ Len(issued') = Len(issued)
        /\ \A d \in 1..Len(issued) : issued'[d] = IF d = c THEN note2 ELSE issued[d]
    <3>1. PICK new : new = [issued EXCEPT ![c] = note2]
      OBVIOUS
    <3>2. /\ new \in Seq(Issue) /\ Len(new) = Len(issued)
          /\ \A d \in 1..Len(issued) : new[d] = IF d = c THEN note2 ELSE issued[d]
      BY <1>2, <2>1, <2>4, <3>1, ExceptSeq
    <3>3. QED
      BY <2>2, <3>1, <3>2
  <2>6. IssuedKept(issued, issued')
    <3>1. Longer(issued, issued')
      BY <1>2, <2>5, SMT DEF Longer
    <3>2. QED
      BY <2>1, <2>4, <2>5, <3>1 DEF IssuedKept
  <2>7. /\ Put(KeyOf(r), NewCode(c, q.at))
        /\ \E step \in {"codePut", "codeMail"} : Enter(r, [q EXCEPT !.step = step, !.typed = c])
    BY <1>4 DEF CodePut
  <2> HIDE DEF c
  <2>8. QED
    BY <1>2, <2>1, <2>4, <2>5, <2>6, <2>7
<1>5. QED
  BY <1>3, <1>4

\* put_login_code and put_ephemeral_state.
LEMMA CodePutConsistent ==
  ASSUME Consistent, NEW r \in Requests, CodePut(r)
  PROVE  Consistent'
<1>0. PICK q : q = requests[r]
  OBVIOUS
<1>1. /\ q \in Request /\ q.inst \in Instances \cup {None} /\ q.at \in Nat /\ q.step = "codePut"
      /\ q.email \in Addresses /\ q.at <= now
  BY <1>0, CallTyped DEF CodePut, At, Ready
<1>2. PICK n \in 1..Len(issued') :
        /\ issued' \in Seq(Issue) /\ Len(issued) \in Nat /\ Len(issued') \in Nat
        /\ IssuedKept(issued, issued')
        /\ issued'[n].inst = q.inst /\ issued'[n].email = q.email
        /\ issued'[n].at = q.at /\ issued'[n].counted = 0
        /\ \A d \in 1..Len(issued') : d # n => d \in 1..Len(issued) /\ issued'[d] = issued[d]
        /\ n \in 1..Len(issued) => issued[n].inst = q.inst /\ issued[n].email = q.email
        /\ Put(KeyOf(r), NewCode(n, q.at))
        /\ \E step \in {"codePut", "codeMail"} : Enter(r, [q EXCEPT !.step = step, !.typed = n])
  BY <1>0, CodeIsPut
<1>3. PICK k : k = KeyFor(q.inst, q.email)
  OBVIOUS
<1>4. PICK row : row = NewCode(n, q.at)
  OBVIOUS
<1>5. n \in Nat
  BY <1>2, SMT
<1>7. /\ now \in Int
      /\ UNCHANGED <<now, mailed, sessions, sessSeen, tokens, refusals, users, userSeen>>
  BY BoundAssumption, SMT DEF Consistent, ClockTyped, CodePut
<1>8. Keeps
  BY <1>2, <1>7, SessionsStay, SMT DEF Keeps
<1>9. k \in Keys
  BY <1>1, <1>3, KeysAreKeys
<1>10. /\ row \in CodeRow /\ row.code = n /\ row.last_sent_at = q.at /\ row.attempts = 0
  BY <1>1, <1>4, <1>5, DurationsAssumption, SMT DEF CodeRow, NewCode
<1>11. Fits(k, row, issued')
  BY <1>2, <1>3, <1>10 DEF Fits
<1>12. Put(k, row)
  BY <1>0, <1>2, <1>3, <1>4 DEF KeyOf
<1>13. CodesSound' /\ codes' = [codes EXCEPT ![k] = row]
  BY <1>2, <1>9, <1>10, <1>11, <1>12, PutFits DEF Consistent, CodesConsistent
<1>14. LoginAttemptsKept'
  <2>1. codes \in [Keys -> CodeRow \cup {None}] /\ Addresses \subseteq Keys
    BY DEF Consistent, CodesConsistent, CodesSound, Keys
  <2>2. ASSUME NEW a \in Addresses, codes'[a] # None, codes'[a].code # None
        PROVE  codes'[a].attempts >= issued'[codes'[a].code].counted
    <3>1. CASE a = k
      <4>1. codes'[a] = row
        BY <1>13, <2>1, <3>1
      <4>2. QED
        BY <1>2, <1>10, <4>1, SMT
    <3>2. CASE a # k
      <4>1. codes'[a] = codes[a]
        BY <1>13, <2>1, <3>2
      <4>2. /\ codes[a].code \in 1..Len(issued)
            /\ a = KeyFor(issued[codes[a].code].inst, issued[codes[a].code].email)
        BY <2>1, <2>2, <4>1 DEF Consistent, CodesConsistent, CodesSound, Fits
      <4>3. codes[a].code # n
        BY <1>2, <1>3, <3>2, <4>2
      <4>4. codes[a].code \in 1..Len(issued')
        BY <1>2, <4>2, SMT DEF IssuedKept, Longer
      <4>5. issued'[codes[a].code] = issued[codes[a].code]
        BY <1>2, <4>3, <4>4
      <4>6. QED
        BY <2>2, <4>1, <4>5 DEF Consistent, CodesConsistent, LoginAttemptsKept
    <3>3. QED
      BY <3>1, <3>2
  <2>3. QED
    BY <2>2 DEF LoginAttemptsKept
<1>15. RefusalsJustified'
  BY <1>2, <1>7, RefusalsStay DEF Consistent, CodesConsistent
<1>16. IssuedBefore'
  <2>1. ASSUME NEW c \in 1..Len(issued') PROVE issued'[c].at <= now
    <3>1. CASE c # n
      BY <1>2, <3>1 DEF Consistent, CodesConsistent, IssuedBefore
    <3>2. CASE c = n
      BY <1>1, <1>2, <3>2
    <3>3. QED
      BY <3>1, <3>2
  <2>2. QED
    BY <1>7, <2>1 DEF IssuedBefore
<1>17. IssuedTyped' /\ MailedIssued' /\ TokensTyped'
  <2>1. mailed \subseteq 1..Len(issued')
    BY <1>2, SMT DEF Consistent, CodesConsistent, MailedIssued, IssuedKept, Longer
  <2>2. QED
    BY <1>2, <1>7, <2>1
    DEF Consistent, CodesConsistent, IssuedTyped, MailedIssued, TokensTyped
<1>18. SessionsConsistent'
  BY <1>7, SessionsRest, SMT
<1>19. CodesBuyTheirOwn'
  BY <1>7, <1>8, BoughtStays
<1>20. RequestsReady'
  <2>1. PICK step \in {"codePut", "codeMail"} : Enter(r, [q EXCEPT !.step = step, !.typed = n])
    BY <1>2
  <2>2. PICK next : next = [q EXCEPT !.step = step, !.typed = n]
    OBVIOUS
  <2>3. next \in Request
    BY <1>1, <1>5, <2>1, <2>2, Zenon DEF Request, Steps
  <2>4. next.step = step /\ next.typed = n
    BY <1>1, <2>2, Zenon DEF Request
  <2>5. next.inst = q.inst /\ next.email = q.email /\ next.at = q.at
    BY <1>1, <2>2, Zenon DEF Request
  <2>6. StoredFor(next, issued')
    BY <1>2, <2>4, <2>5 DEF StoredFor
  <2>7. Ready(next, now', issued', mailed', sessions')
    BY <1>1, <1>2, <1>7, <2>1, <2>4, <2>5, <2>6, SMT DEF Ready, TypingSteps, SessionSteps
  <2>8. QED
    BY <1>8, <2>1, <2>2, <2>3, <2>7, OneGoesOn
<1>21. ClockTyped' /\ UsersTyped'
  BY <1>7 DEF Consistent, ClockTyped, UsersTyped
<1>22. QED
  BY <1>13, <1>14, <1>15, <1>16, <1>17, <1>18, <1>19, <1>20, <1>21
  DEF Consistent, CodesConsistent

\* The code is mailed, or the mail fails.
LEMMA CodeMailConsistent ==
  ASSUME Consistent, NEW r \in Requests, CodeMail(r)
  PROVE  Consistent'
<1>1. requests[r].typed \in 1..Len(issued)
  BY CallTyped DEF CodeMail, At, Ready
<1>2. mailed \subseteq mailed' /\ mailed' \subseteq 1..Len(issued)
  BY <1>1 DEF CodeMail, Consistent, CodesConsistent, MailedIssued
<1>3. /\ now \in Int
      /\ UNCHANGED <<now, codes, codeSeen, issued, sessions, sessSeen, tokens, refusals, users,
                     userSeen>>
  BY BoundAssumption, SMT DEF Consistent, ClockTyped, CodeMail
<1>4. Keeps
  BY <1>2, <1>3, IssuedStay, SessionsStay, SMT DEF Keeps
<1>5. CodesConsistent'
  <2>1. CodesSound'
    BY <1>3, <1>4, NothingPut DEF Consistent, CodesConsistent, Keeps
  <2>2. /\ IssuedTyped' /\ MailedIssued' /\ TokensTyped' /\ IssuedBefore' /\ LoginAttemptsKept'
        /\ RefusalsJustified'
    BY <1>2, <1>3 DEF Consistent, CodesConsistent, IssuedTyped, MailedIssued, TokensTyped,
                      IssuedBefore, LoginAttemptsKept, RefusalsJustified
  <2>3. QED
    BY <2>1, <2>2 DEF CodesConsistent
<1>6. SessionsConsistent'
  BY <1>3, SessionsRest, SMT
<1>7. CodesBuyTheirOwn'
  BY <1>3, <1>4, BoughtStays
<1>8. RequestsReady'
  BY <1>4, OneReturns DEF CodeMail
<1>9. ClockTyped' /\ UsersTyped'
  BY <1>3 DEF Consistent, ClockTyped, UsersTyped
<1>10. QED
  BY <1>5, <1>6, <1>7, <1>8, <1>9 DEF Consistent

-----------------------------------------------------------------------------
(* Typing a code.                                                          *)

\* A row the key had is read, and a code that was mailed, or none, typed.
LEMMA VerifyReadConsistent ==
  ASSUME Consistent, NEW r \in Requests, NEW i \in Instances \cup {None}, NEW a \in Addresses,
         VerifyRead(r, i, a)
  PROVE  Consistent'
<1>k. Keeps
  BY NothingKeeps DEF VerifyRead
<1>n. now \in Nat
  BY BoundAssumption, SMT DEF Consistent, ClockTyped
<1>1. PICK row \in Stored(KeyFor(i, a)) \ {None}, typed \in mailed \cup {0} :
        /\ row.code # None
        /\ Enter(r, [Idle EXCEPT !.inst = i, !.email = a, !.at = now, !.row = row, !.typed = typed,
                     !.step = IF now >= row.expires_at \/ row.attempts >= MaxAttempts
                              THEN "discard" ELSE "verifyCount"])
  BY DEF VerifyRead
<1>2. PICK step \in {"discard", "verifyCount"} :
        Enter(r, [Idle EXCEPT !.inst = i, !.email = a, !.at = now, !.row = row, !.typed = typed,
                     !.step = step])
  BY <1>1
<1> DEFINE q == [Idle EXCEPT !.inst = i, !.email = a, !.at = now, !.row = row, !.typed = typed,
                     !.step = step]
<1>3. row \in CodeRow /\ Fits(KeyFor(i, a), row, issued)
  BY StoredSeen, KeysAreKeys DEF Consistent, CodesConsistent
<1>4. typed \in Nat
  BY LenProperties, SMT DEF Consistent, CodesConsistent, MailedIssued, IssuedTyped
<1>5. q \in Request
  BY <1>n, <1>3, <1>4, Zenon DEF Idle, Request, Steps
<1>6. /\ q.step = step /\ q.inst = i /\ q.email = a /\ q.row = row /\ q.typed = typed
  BY Zenon DEF Idle
<1> HIDE DEF q
<1>7. Ready(q, now', issued', mailed', sessions')
  <2>1. q.step # "codePut" /\ q.step # "touch" /\ q.step # "codeMail" /\ q.step # "issue"
        /\ q.step # "verifyDelete" /\ q.step \notin SessionSteps /\ q.step # "principal"
    BY <1>6, SMT DEF SessionSteps
  <2>2. UNCHANGED <<issued, mailed>>
    BY DEF VerifyRead
  <2>3. QED
    BY <1>1, <1>3, <1>6, <2>1, <2>2 DEF Ready
<1>8. RequestsReady'
  BY <1>k, <1>2, <1>5, <1>7, OneGoesOn DEF q
<1>9. QED
  BY <1>8, OnlyCalls DEF VerifyRead

\* An attempt is noted of the code that was read, and the row of its key counts
\* one more than it did if it is a login code's.
LEMMA AttemptCounted ==
  ASSUME Consistent, NEW k \in Keys, NEW c \in 1..Len(issued), NEW row \in CodeRow,
         k = KeyFor(issued[c].inst, issued[c].email),
         issued' = [issued EXCEPT ![c].counted = @ + 1], Put(k, row), Fits(k, row, issued),
         k \in Addresses /\ row.code # None =>
            /\ codes[k] # None /\ row.code = codes[k].code
            /\ row.attempts = codes[k].attempts + 1,
         UNCHANGED <<now, mailed, refusals, sessions, tokens>>
  PROVE  CodesConsistent' /\ Keeps
<1> DEFINE note == [issued[c] EXCEPT !.counted = @ + 1]
<1>1. issued \in Seq(Issue) /\ issued[c] \in Issue /\ issued[c].counted \in Nat
  BY IssueTyped DEF Consistent, CodesConsistent, IssuedTyped
<1>2. /\ note \in Issue /\ note.inst = issued[c].inst /\ note.email = issued[c].email
      /\ note.at = issued[c].at /\ note.counted = issued[c].counted + 1
  <2>1. note \in Issue
    <3> DEFINE n == issued[c].counted + 1
    <3>1. n \in Nat
      BY <1>1, SMT
    <3> HIDE DEF n
    <3>2. [issued[c] EXCEPT !.counted = n] \in Issue
      BY <1>1, <3>1, Zenon DEF Issue
    <3>3. QED
      BY <3>2 DEF n
  <2>2. note.counted = issued[c].counted + 1
    BY <1>1, Zenon DEF Issue
  <2>3. note.inst = issued[c].inst
    BY <1>1, Zenon DEF Issue
  <2>4. note.email = issued[c].email /\ note.at = issued[c].at
    BY <1>1, Zenon DEF Issue
  <2>5. QED
    BY <2>1, <2>2, <2>3, <2>4
<1>3. issued' = [issued EXCEPT ![c] = note]
  OBVIOUS
<1> HIDE DEF note
<1>4. /\ issued' \in Seq(Issue) /\ Len(issued') = Len(issued)
      /\ \A d \in 1..Len(issued) : issued'[d] = IF d = c THEN note ELSE issued[d]
  <2> DEFINE new == [issued EXCEPT ![c] = note]
  <2>1. /\ new \in Seq(Issue) /\ Len(new) = Len(issued)
        /\ \A d \in 1..Len(issued) : new[d] = IF d = c THEN note ELSE issued[d]
    BY <1>1, <1>2, ExceptSeq
  <2>2. issued' = new
    BY <1>3
  <2> HIDE DEF new
  <2>3. QED
    BY <2>1, <2>2
<1>5. IssuedKept(issued, issued')
  <2>1. Longer(issued, issued')
    BY <1>1, <1>4, LenProperties, SMT DEF Longer
  <2>2. QED
    BY <1>2, <1>4, <2>1 DEF IssuedKept
<1>6. Keeps
  BY <1>5, SessionsStay, BoundAssumption, SMT DEF Keeps, Consistent, ClockTyped
<1>7. CodesSound' /\ codes' = [codes EXCEPT ![k] = row]
  <2>1. Fits(k, row, issued) => Fits(k, row, issued')
    BY <1>5, FitsKept
  <2>2. CodesSound
    BY DEF Consistent, CodesConsistent
  <2>3. QED
    BY <1>5, <2>1, <2>2, PutFits
<1>8. LoginAttemptsKept'
  <2>1. codes \in [Keys -> CodeRow \cup {None}] /\ Addresses \subseteq Keys
    BY DEF Consistent, CodesConsistent, CodesSound, Keys
  <2>2. ASSUME NEW a \in Addresses, codes'[a] # None, codes'[a].code # None
        PROVE  codes'[a].attempts >= issued'[codes'[a].code].counted
    <3>1. CASE a = k
      <4>1. codes'[a] = row
        BY <1>7, <2>1, <3>1
      <4>2. /\ codes[a] # None /\ codes[a].code # None /\ row.code = codes[a].code
            /\ row.attempts = codes[a].attempts + 1
        BY <2>2, <3>1, <4>1
      <4>3. /\ codes[a] \in CodeRow /\ codes[a].code \in 1..Len(issued)
            /\ codes[a].attempts >= issued[codes[a].code].counted
        BY <2>1, <4>2
        DEF Consistent, CodesConsistent, CodesSound, Fits, LoginAttemptsKept
      <4>4. codes[a].attempts \in Nat /\ issued[codes[a].code].counted \in Nat
        BY <4>3, IssueTyped DEF CodeRow, Consistent, CodesConsistent
      <4>5. \/ issued'[codes[a].code].counted = issued[codes[a].code].counted
            \/ issued'[codes[a].code].counted = issued[codes[a].code].counted + 1
        BY <1>2, <1>4, <4>3
      <4>6. QED
        BY <4>1, <4>2, <4>3, <4>4, <4>5, SMT
    <3>2. CASE a # k
      <4>1. codes'[a] = codes[a]
        BY <1>7, <2>1, <3>2
      <4>2. /\ codes[a].code \in 1..Len(issued)
            /\ a = KeyFor(issued[codes[a].code].inst, issued[codes[a].code].email)
        BY <2>1, <2>2, <4>1 DEF Consistent, CodesConsistent, CodesSound, Fits
      <4>3. codes[a].code # c
        BY <3>2, <4>2
      <4>4. issued'[codes[a].code] = issued[codes[a].code]
        BY <1>4, <4>2, <4>3
      <4>5. QED
        BY <2>2, <4>1, <4>4 DEF Consistent, CodesConsistent, LoginAttemptsKept
    <3>3. QED
      BY <3>1, <3>2
  <2>3. QED
    BY <2>2 DEF LoginAttemptsKept
<1>9. RefusalsJustified'
  BY <1>5, RefusalsStay DEF Consistent, CodesConsistent
<1>10. IssuedBefore'
  BY <1>2, <1>4 DEF Consistent, CodesConsistent, IssuedBefore
<1>11. IssuedTyped' /\ MailedIssued' /\ TokensTyped'
  BY <1>4 DEF Consistent, CodesConsistent, IssuedTyped, MailedIssued, TokensTyped
<1>12. QED
  BY <1>6, <1>7, <1>8, <1>9, <1>10, <1>11 DEF CodesConsistent

\* The attempt is counted, or the count fails; the call ends, or goes on.
LEMMA VerifyCountConsistent ==
  ASSUME Consistent, NEW r \in Requests, VerifyCount(r)
  PROVE  Consistent'
<1> DEFINE q == requests[r]
           k == KeyFor(q.inst, q.email)
           c == q.row.code
<1>1. /\ q \in Request /\ q.inst \in Instances \cup {None} /\ q.email \in Addresses
      /\ q.row \in CodeRow \ {None} /\ q.row.code # None /\ Fits(k, q.row, issued)
      /\ q.typed \in mailed \cup {0} /\ q.step = "verifyCount"
  BY CallTyped DEF VerifyCount, At, Ready, TypingSteps
<1>2. c \in 1..Len(issued) /\ k = KeyFor(issued[c].inst, issued[c].email)
  BY <1>1 DEF Fits
<1>3. k \in Keys
  BY <1>1, KeysAreKeys
<1>4. UNCHANGED <<now, users, userSeen, mailed, refusals, sessions, sessSeen, tokens>>
  BY DEF VerifyCount
<1>5. CodesConsistent' /\ Keeps
  <2>1. CASE UNCHANGED codeVars
    BY <1>4, <2>1, NothingKeeps, CodesRest DEF codeVars
  <2>2. CASE /\ q.inst = None /\ increment_login_code_attempts(k, q.row)
             /\ issued' = [issued EXCEPT ![c].counted = @ + 1]
    <3> DEFINE row == IF codes[k] = None THEN Ghost ELSE [codes[k] EXCEPT !.attempts = @ + 1]
    <3>1. codes[k] \in CodeRow \cup {None} /\ Fits(k, codes[k], issued)
      BY <1>3 DEF Consistent, CodesConsistent, CodesSound
    <3>2. /\ row \in CodeRow /\ Fits(k, row, issued)
          /\ row.code # None => /\ codes[k] # None /\ row.code = codes[k].code
                                /\ row.attempts = codes[k].attempts + 1
      <4>1. CASE codes[k] = None
        BY <4>1, SMT DEF Ghost, CodeRow, Fits
      <4>2. CASE codes[k] # None
        <5>1. codes[k] \in CodeRow
          BY <3>1, <4>2
        <5>2. row = [codes[k] EXCEPT !.attempts = @ + 1]
          BY <4>2
        <5>3. /\ row \in CodeRow /\ row.code = codes[k].code
              /\ row.attempts = codes[k].attempts + 1
              /\ row.last_sent_at = codes[k].last_sent_at
          BY <5>1, <5>2, SMT DEF CodeRow
        <5> HIDE DEF row
        <5>4. Fits(k, row, issued)
          BY <3>1, <4>2, <5>3 DEF Fits
        <5>5. QED
          BY <4>2, <5>3, <5>4
      <4>3. QED
        BY <4>1, <4>2
    <3>3. Put(k, row)
      BY <2>2 DEF increment_login_code_attempts
    <3> HIDE DEF row, c, k
    <3>4. QED
      BY <1>2, <1>3, <1>4, <2>2, <3>2, <3>3, AttemptCounted
  <2>3. CASE /\ q.inst # None /\ PutAttempts(k, q.row, q.at)
             /\ issued' = [issued EXCEPT ![c].counted = @ + 1]
    <3> DEFINE row == [q.row EXCEPT !.attempts = @ + 1]
    <3>1. /\ row \in CodeRow /\ row.code = q.row.code /\ row.last_sent_at = q.row.last_sent_at
      BY <1>1, SMT DEF CodeRow
    <3>2. Put(k, row)
      BY <2>3 DEF PutAttempts
    <3>3. k \notin Addresses
      <4>1. ASSUME k \in Addresses PROVE FALSE
        <5>1. KeyFor(None, k) = KeyFor(q.inst, q.email)
          BY DEF KeyFor
        <5> HIDE DEF k
        <5>2. None = q.inst
          BY <1>1, <4>1, <5>1, KeysApart
        <5>3. QED
          BY <2>3, <5>2
      <4>2. QED
        BY <4>1
    <3> HIDE DEF row
    <3>4. Fits(k, row, issued)
      BY <1>1, <1>2, <3>1 DEF Fits
    <3> HIDE DEF c, k
    <3>5. QED
      BY <1>2, <1>3, <1>4, <2>3, <3>1, <3>2, <3>3, <3>4, AttemptCounted
  <2>4. QED
    BY <2>1, <2>2, <2>3 DEF VerifyCount, KeyOf
<1>6. SessionsConsistent'
  BY <1>4, <1>5, SessionsRest DEF Keeps
<1>7. CodesBuyTheirOwn'
  BY <1>4, <1>5, BoughtStays
<1>8. RequestsReady'
  <2>1. CASE Return(r)
    BY <1>5, <2>1, OneReturns
  <2>2. CASE q.typed = c /\ Goto(r, "verifyDelete")
    <3> DEFINE n == [q EXCEPT !.step = "verifyDelete"]
    <3>1. /\ n.step = "verifyDelete" /\ n.email = q.email /\ n.inst = q.inst
          /\ n.row = q.row /\ n.typed = q.typed
      BY <1>1, SMT DEF Request
    <3> HIDE DEF n
    <3>2. Fits(k, q.row, issued')
      BY <1>1, <1>5, FitsKept DEF Keeps
    <3>3. q.typed \in mailed' \cup {0}
      BY <1>1, <1>4
    <3>4. Ready(n, now', issued', mailed', sessions')
      BY <1>1, <2>2, <3>1, <3>2, <3>3, SMT DEF Ready, TypingSteps, SessionSteps
    <3>5. QED
      BY <1>5, <2>2, <3>4, OneContinues DEF n, Steps
  <2>3. QED
    BY <2>1, <2>2 DEF VerifyCount
<1>9. ClockTyped' /\ UsersTyped'
  BY <1>4 DEF Consistent, ClockTyped, UsersTyped
<1>10. QED
  BY <1>5, <1>6, <1>7, <1>8, <1>9 DEF Consistent

\* The row of a code is deleted, or the delete fails.
LEMMA DeletesConsistent ==
  ASSUME Consistent, NEW r \in Requests,
         Put(KeyOf(r), None) \/ UNCHANGED <<codes, codeSeen>>,
         UNCHANGED <<now, users, userSeen, issued, mailed, refusals, sessions, sessSeen, tokens>>,
         requests[r].email \in Addresses, Keeps => RequestsReady'
  PROVE  Consistent'
<1>1. UNCHANGED <<now, users, userSeen, issued, mailed, refusals, sessions, sessSeen, tokens>>
  OBVIOUS
<1>2. Keeps
  BY <1>1, NothingKeeps
<1>3. CodesConsistent'
  <2>1. CASE UNCHANGED <<codes, codeSeen>>
    BY <1>1, <1>2, <2>1, CodesRest
  <2>2. CASE Put(KeyOf(r), None)
    <3>1. KeyOf(r) \in Keys
      BY CallTyped, KeysAreKeys DEF KeyOf
    <3>2. QED
      BY <1>1, <2>2, <3>1, RemovedKeeps
  <2>3. QED
    BY <2>1, <2>2
<1>4. SessionsConsistent' /\ CodesBuyTheirOwn'
  BY <1>1, <1>2, SessionsRest, BoughtStays DEF Keeps
<1>5. ClockTyped' /\ UsersTyped'
  BY <1>1 DEF Consistent, ClockTyped, UsersTyped
<1>6. QED
  BY <1>2, <1>3, <1>4, <1>5 DEF Consistent

\* An expired or used up code is deleted.
LEMMA DiscardConsistent ==
  ASSUME Consistent, NEW r \in Requests, Discard(r)
  PROVE  Consistent'
<1>1. requests[r].email \in Addresses
  BY CallTyped DEF Discard, At, Ready, TypingSteps
<1>2. /\ Return(r) /\ (Put(KeyOf(r), None) \/ UNCHANGED <<codes, codeSeen>>)
      /\ UNCHANGED <<now, users, userSeen, issued, mailed, refusals, sessions, sessSeen, tokens>>
  BY DEF Discard, Deletes, At
<1>3. Keeps => RequestsReady'
  BY <1>2, OneReturns
<1>4. QED
  BY <1>1, <1>2, <1>3, DeletesConsistent

\* A code that was typed right is deleted before it buys anything.
LEMMA VerifyDeleteConsistent ==
  ASSUME Consistent, NEW r \in Requests, VerifyDelete(r)
  PROVE  Consistent'
<1> DEFINE q == requests[r]
           n == [q EXCEPT !.step = "issue"]
<1>1. /\ q \in Request /\ q.inst \in Instances \cup {None} /\ q.email \in Addresses
      /\ q.row \in CodeRow \ {None} /\ q.row.code # None
      /\ Fits(KeyFor(q.inst, q.email), q.row, issued)
      /\ q.typed \in mailed \cup {0} /\ q.typed = q.row.code /\ q.step = "verifyDelete"
  BY CallTyped DEF VerifyDelete, At, Ready, TypingSteps
<1>2. /\ Goto(r, "issue") /\ (Put(KeyOf(r), None) \/ UNCHANGED <<codes, codeSeen>>)
      /\ UNCHANGED <<now, users, userSeen, issued, mailed, refusals, sessions, sessSeen, tokens>>
  BY DEF VerifyDelete, Deletes, At
<1>3. ASSUME Keeps PROVE RequestsReady'
  <2>1. /\ n.step = "issue" /\ n.email = q.email /\ n.inst = q.inst
        /\ n.row = q.row /\ n.typed = q.typed
    BY <1>1, SMT DEF Request
  <2> HIDE DEF n
  <2>2. Fits(KeyFor(q.inst, q.email), q.row, issued')
    BY <1>1, <1>3, FitsKept DEF Keeps
  <2>3. q.typed \in mailed' \cup {0}
    BY <1>1, <1>3 DEF Keeps
  <2>4. Ready(n, now', issued', mailed', sessions')
    BY <1>1, <2>1, <2>2, <2>3, SMT DEF Ready, TypingSteps, SessionSteps
  <2>5. QED
    BY <1>2, <1>3, <2>4, OneContinues DEF n, Steps
<1>4. QED
  BY <1>1, <1>2, <1>3, DeletesConsistent

\* The code a request was let through with was mailed to its address, for its
\* instance or to log in.
LEMMA TypedRight ==
  ASSUME Consistent, NEW r \in Requests, requests[r].step = "issue"
  PROVE  /\ requests[r].email \in Addresses /\ requests[r].inst \in Instances \cup {None}
         /\ requests[r].typed \in mailed /\ requests[r].typed \in Nat
         /\ issued[requests[r].typed].inst = requests[r].inst
         /\ issued[requests[r].typed].email = requests[r].email
<1> DEFINE q == requests[r]
<1>1. /\ q \in Request /\ q.inst \in Instances \cup {None} /\ q.email \in Addresses
      /\ q.row \in CodeRow \ {None} /\ q.row.code # None
      /\ Fits(KeyFor(q.inst, q.email), q.row, issued)
      /\ q.typed \in mailed \cup {0} /\ q.typed = q.row.code /\ q.typed \in Nat
  BY CallTyped DEF Ready, TypingSteps
<1>2. /\ q.typed \in 1..Len(issued)
      /\ KeyFor(q.inst, q.email) = KeyFor(issued[q.typed].inst, issued[q.typed].email)
  BY <1>1 DEF Fits
<1>3. q.typed \in mailed
  BY <1>1, <1>2, SMT
<1>4. PICK j \in Instances \cup {None}, b \in Addresses :
        j = issued[q.typed].inst /\ b = issued[q.typed].email
  BY <1>2, IssueTyped DEF Consistent, CodesConsistent
<1>5. KeyFor(q.inst, q.email) = KeyFor(j, b)
  BY <1>2, <1>4
<1>6. q.inst = j /\ q.email = b
  BY <1>1, <1>5, KeysApart
<1>7. QED
  BY <1>1, <1>3, <1>4, <1>6

-----------------------------------------------------------------------------
(* What a code buys.                                                       *)

\* create_user_token: a session for the user the address belongs to.
LEMMA IssueSessionConsistent ==
  ASSUME Consistent, NEW r \in Requests, IssueSession(r)
  PROVE  Consistent'
<1> DEFINE q == requests[r]
           u == AccountOf[q.email]
           row == [user |-> u, code |-> q.typed, created_at |-> now,
                   expires_at |-> now + SessionLife, last_used_at |-> None,
                   served |-> None, exists |-> TRUE]
<1>1. /\ q.email \in Addresses /\ q.typed \in mailed /\ q.typed \in Nat /\ q.inst = None
      /\ issued[q.typed].inst = None /\ issued[q.typed].email = q.email
  BY TypedRight DEF IssueSession, At
<1>2. /\ now \in Nat /\ SessionLife \in Nat
      /\ UNCHANGED <<now, users, userSeen, codes, codeSeen, issued, mailed, refusals, tokens>>
      /\ Return(r)
  BY BoundAssumption, DurationsAssumption, SMT DEF Consistent, ClockTyped, IssueSession
<1>3. CASE UNCHANGED sessionVars
  <2>1. Keeps
    BY <1>2, <1>3, NothingKeeps DEF sessionVars
  <2>2. RequestsReady'
    BY <1>2, <2>1, OneReturns
  <2>3. QED
    BY <1>2, <1>3, <2>2, OnlyCalls DEF sessionVars
<1>4. CASE /\ u # Nobody /\ sessions' = Append(sessions, row)
           /\ sessSeen' = Append(sessSeen, {row})
  <2>1. u \in Users
    BY <1>1, <1>4, AccountsAssumption
  <2>2. row \in Session
    <3> DEFINE e == now + SessionLife
    <3>1. e \in Nat
      BY <1>2, SMT
    <3> HIDE DEF e, u
    <3>2. [user |-> u, code |-> q.typed, created_at |-> now, expires_at |-> e,
           last_used_at |-> None, served |-> None, exists |-> TRUE] \in Session
      BY <1>1, <1>2, <2>1, <3>1, Zenon DEF Session
    <3>3. QED
      BY <3>2 DEF e, u
  <2>3. /\ sessions \in Seq(Session) /\ sessSeen \in Seq(SUBSET Session)
        /\ Len(sessSeen) = Len(sessions) /\ Len(sessions) \in Nat
    BY LenProperties DEF Consistent, SessionsConsistent, SessionsTyped
  <2> DEFINE m == Len(sessions) + 1
  <2>4. /\ row.user = u /\ row.code = q.typed /\ row.expires_at = now + SessionLife
        /\ row.last_used_at = None /\ row.served = None
    OBVIOUS
  <2> HIDE DEF row
  <2>5. /\ sessions' \in Seq(Session) /\ Len(sessions') = m
        /\ \A s \in 1..Len(sessions) : sessions'[s] = sessions[s]
        /\ sessions'[m] = row
    BY <1>4, <2>2, <2>3, AppendProperties
  <2>6. /\ sessSeen' \in Seq(SUBSET Session) /\ Len(sessSeen') = m
        /\ \A s \in 1..Len(sessions) : sessSeen'[s] = sessSeen[s]
        /\ sessSeen'[m] = {row}
    <3>1. {row} \in SUBSET Session
      BY <2>2
    <3>2. QED
      BY <1>4, <2>3, <3>1, AppendProperties
  <2>7. \A s \in 1..Len(sessions') : s \in 1..Len(sessions) \/ s = m
    BY <2>3, <2>5, SMT
  <2>8. Keeps
    <3>1. Longer(sessions, sessions')
      BY <2>3, <2>5, SMT DEF Longer
    <3>2. \A s \in 1..Len(sessions) :
            sessions[s].expires_at \in Nat /\ sessions[s].expires_at <= sessions[s].expires_at
      BY SessionTyped, SMT DEF Consistent, SessionsConsistent
    <3>3. SessionsKept(sessions, sessions')
      BY <2>5, <3>1, <3>2 DEF SessionsKept
    <3>4. QED
      BY <1>2, <3>3, IssuedStay, SMT DEF Keeps
  <2>9. SessionsConsistent'
    <3>1. SessionsTyped'
      BY <2>5, <2>6 DEF SessionsTyped
    <3>2. ASSUME NEW s \in 1..Len(sessions')
          PROVE  /\ Lasts(sessions'[s]) /\ sessions'[s].expires_at <= now' + SessionLife
                 /\ \A old \in sessSeen'[s] :
                      Lasts(old) /\ old.expires_at <= sessions'[s].expires_at
                 /\ sessions'[s].served # None =>
                      sessions'[s].expires_at >= sessions'[s].served + SessionLife - TouchAfter
      <4>1. CASE s \in 1..Len(sessions)
        BY <1>2, <2>5, <2>6, <4>1
        DEF Consistent, SessionsConsistent, SessionsLast, ServedLast
      <4>2. CASE s = m
        <5>1. Lasts(row)
          BY <2>4 DEF Lasts
        <5>2. row.expires_at <= now + SessionLife /\ row.expires_at <= row.expires_at
          BY <1>2, <2>4, SMT
        <5>3. QED
          BY <1>2, <2>4, <2>5, <2>6, <4>2, <5>1, <5>2
      <4>3. QED
        BY <2>7, <4>1, <4>2
    <3>3. SessionsLast' /\ ServedLast'
      BY <3>2 DEF SessionsLast, ServedLast
    <3>4. QED
      BY <3>1, <3>3 DEF SessionsConsistent
  <2>10. CodesBuyTheirOwn'
    <3>1. ASSUME NEW s \in 1..Len(sessions')
          PROVE  /\ sessions'[s].code \in mailed /\ issued[sessions'[s].code].inst = None
                 /\ AccountOf[issued[sessions'[s].code].email] = sessions'[s].user
      <4>1. CASE s \in 1..Len(sessions)
        BY <2>5, <4>1 DEF Consistent, CodesBuyTheirOwn
      <4>2. CASE s = m
        BY <1>1, <2>4, <2>5, <4>2
      <4>3. QED
        BY <2>7, <4>1, <4>2
    <3>2. QED
      BY <1>2, <3>1 DEF Consistent, CodesBuyTheirOwn
  <2>11. CodesConsistent' /\ RequestsReady'
    BY <1>2, <2>8, CodesRest, OneReturns
  <2>12. ClockTyped' /\ UsersTyped'
    BY <1>2 DEF Consistent, ClockTyped, UsersTyped
  <2>13. QED
    BY <2>9, <2>10, <2>11, <2>12 DEF Consistent
<1>5. QED
  BY <1>3, <1>4 DEF IssueSession

\* issue_submit_token: a token for the address and instance of the code.
LEMMA IssueSubmitTokenConsistent ==
  ASSUME Consistent, NEW r \in Requests, IssueSubmitToken(r)
  PROVE  Consistent'
<1> DEFINE q == requests[r]
           t == SubmitTokenRow(q.inst, q.email, q.typed)
<1>1. /\ q.email \in Addresses /\ q.typed \in mailed /\ q.typed \in Nat
      /\ q.inst \in Instances
      /\ issued[q.typed].inst = q.inst /\ issued[q.typed].email = q.email
  BY TypedRight DEF IssueSubmitToken, At
<1>2. /\ now \in Nat
      /\ UNCHANGED <<now, users, userSeen, codes, codeSeen, issued, mailed, refusals, sessions,
                     sessSeen>>
      /\ tokens' = tokens \cup {t} /\ Return(r)
  BY BoundAssumption, SMT DEF Consistent, ClockTyped, IssueSubmitToken
<1>3. t \in SubmitToken /\ t.code = q.typed /\ t.instance = q.inst /\ t.email = q.email
  <2> DEFINE e == now + TokenLife
  <2>1. e \in Nat
    BY <1>2, DurationsAssumption, SMT
  <2>2. t = [email |-> q.email, instance |-> q.inst, code |-> q.typed, expires_at |-> e]
    BY DEF SubmitTokenRow
  <2> HIDE DEF e, t
  <2>3. QED
    BY <1>1, <2>1, <2>2, Zenon DEF SubmitToken
<1> HIDE DEF t
<1>4. Keeps
  BY <1>2, NothingKeeps
<1>5. CodesConsistent'
  <2>1. CodesSound' /\ RefusalsJustified'
    BY <1>2, <1>4, NothingPut, RefusalsStay DEF Consistent, CodesConsistent, Keeps
  <2>2. IssuedTyped' /\ MailedIssued' /\ TokensTyped' /\ IssuedBefore' /\ LoginAttemptsKept'
    BY <1>2, <1>3 DEF Consistent, CodesConsistent, IssuedTyped, MailedIssued, TokensTyped,
                      IssuedBefore, LoginAttemptsKept
  <2>3. QED
    BY <2>1, <2>2 DEF CodesConsistent
<1>6. SessionsConsistent' /\ RequestsReady'
  BY <1>2, <1>4, SessionsRest, OneReturns DEF Keeps
<1>7. CodesBuyTheirOwn'
  BY <1>1, <1>2, <1>3 DEF Consistent, CodesBuyTheirOwn
<1>8. ClockTyped' /\ UsersTyped'
  BY <1>2 DEF Consistent, ClockTyped, UsersTyped
<1>9. QED
  BY <1>5, <1>6, <1>7, <1>8 DEF Consistent

\* An invocation ends.
LEMMA StopConsistent == ASSUME Consistent, NEW r \in Requests, Stop(r) PROVE Consistent'
<1>1. Keeps
  BY NothingKeeps DEF Stop
<1>2. RequestsReady'
  BY <1>1, OneReturns DEF Stop
<1>3. QED
  BY <1>2, OnlyCalls DEF Stop

-----------------------------------------------------------------------------
(* Using a session.                                                        *)

\* A call presents a session, and is let on by a row it had that is not expired.
LEMMA AuthenticateConsistent ==
  ASSUME Consistent, NEW r \in Requests, NEW s \in 1..Len(sessions), Authenticate(r, s)
  PROVE  Consistent'
<1>n. now \in Nat /\ SessionLife \in Nat /\ TouchAfter \in Nat
  BY BoundAssumption, DurationsAssumption, SMT DEF Consistent, ClockTyped
<1>u. UNCHANGED <<now, users, userSeen, codes, codeSeen, issued, mailed, refusals, sessions,
                  sessSeen, tokens>>
  BY DEF Authenticate
<1>k. Keeps
  BY <1>u, NothingKeeps
<1>1. PICK op \in {"query", "logout"}, row \in (IF Lag THEN sessSeen[s] ELSE {sessions[s]}) :
        Enter(r, [Idle EXCEPT !.session = s, !.leaves = op = "logout", !.at = now,
                         !.step = IF Stale(row, now) THEN "touch" ELSE "principal"])
  BY ZenonT(60) DEF Authenticate
<1>2. PICK leaves \in BOOLEAN, step \in {"touch", "principal"} :
        /\ Enter(r, [Idle EXCEPT !.session = s, !.leaves = leaves, !.at = now, !.step = step])
        /\ step = "principal" => ~Stale(row, now)
  BY <1>1
<1> DEFINE q == [Idle EXCEPT !.session = s, !.leaves = leaves, !.at = now, !.step = step]
<1>3. s \in Nat
  BY SMT
<1>4. q \in Request
  BY <1>n, <1>3, Zenon DEF Idle, Request, Steps
<1>5. q.step = step /\ q.session = s /\ q.at = now
  BY Zenon DEF Idle
<1>6. ASSUME step = "principal"
      PROVE  sessions[s].expires_at >= now + SessionLife - TouchAfter
  <2>1. /\ row.last_used_at # None /\ now <= row.last_used_at + TouchAfter
        /\ row \in Session
    <3>1. row \in Session
      BY SessionTyped DEF Consistent, SessionsConsistent
    <3>2. row.last_used_at # None /\ ~(now > row.last_used_at + TouchAfter)
      BY <1>2, <1>6 DEF Stale
    <3>3. row.last_used_at \in Nat
      BY <3>1, <3>2 DEF Session
    <3>4. QED
      BY <1>n, <3>1, <3>2, <3>3, SMT
  <2>2. row.last_used_at \in Nat /\ row.expires_at \in Nat
    BY <2>1 DEF Session
  <2>3. Lasts(row) /\ row.expires_at <= sessions[s].expires_at
    <3>1. sessions[s].expires_at <= sessions[s].expires_at
      BY SessionTyped, SMT DEF Consistent, SessionsConsistent
    <3>2. QED
      BY <3>1 DEF Consistent, SessionsConsistent, SessionsLast
  <2>4. row.expires_at = row.last_used_at + SessionLife
    BY <2>1, <2>3 DEF Lasts
  <2>5. sessions[s].expires_at \in Nat
    BY SessionTyped DEF Consistent, SessionsConsistent
  <2>6. QED
    BY <1>n, <2>1, <2>2, <2>3, <2>4, <2>5, SMT
<1> HIDE DEF q
<1>7. Ready(q, now', issued', mailed', sessions')
  <2>1. q.step \notin TypingSteps \cup {"codePut", "codeMail", "verifyDelete", "issue"}
    BY <1>5, SMT DEF TypingSteps
  <2>2. q.at <= now
    BY <1>5, <1>n, SMT
  <2>3. QED
    BY <1>5, <1>6, <1>u, <2>1, <2>2, Zenon DEF Ready
<1>8. RequestsReady'
  BY <1>k, <1>2, <1>4, <1>7, OneGoesOn DEF q
<1>9. QED
  BY <1>8, <1>u, OnlyCalls

\* A row is written that stays its user's and the code's, is not brought back, nor
\* shortened.
RowWritten(s, row) ==
    /\ row \in Session /\ Lasts(row)
    /\ row.user = sessions[s].user /\ row.code = sessions[s].code
    /\ sessions[s].expires_at <= row.expires_at /\ row.expires_at <= now + SessionLife
    /\ row.served # None => row.expires_at >= row.served + SessionLife - TouchAfter
    /\ ~sessions[s].exists => ~row.exists
    /\ sessions' = [sessions EXCEPT ![s] = row]

\* Rows that were there may still be read.
LEMMA RowWrittenKeeps ==
  ASSUME Consistent, NEW s \in 1..Len(sessions), NEW row, RowWritten(s, row),
         sessSeen' = sessSeen \/ sessSeen' = [sessSeen EXCEPT ![s] = @ \cup {row}],
         UNCHANGED <<now, issued, mailed>>
  PROVE  Keeps /\ SessionsConsistent' /\ Len(sessions') = Len(sessions)
<1>1. /\ sessions \in Seq(Session) /\ sessSeen \in Seq(SUBSET Session)
      /\ Len(sessSeen) = Len(sessions) /\ Len(sessions) \in Nat /\ row \in Session
  BY LenProperties DEF Consistent, SessionsConsistent, SessionsTyped, RowWritten
<1>2. /\ sessions' \in Seq(Session) /\ Len(sessions') = Len(sessions)
      /\ \A t \in 1..Len(sessions) : sessions'[t] = IF t = s THEN row ELSE sessions[t]
  <2> DEFINE new == [sessions EXCEPT ![s] = row]
  <2>1. /\ new \in Seq(Session) /\ Len(new) = Len(sessions)
        /\ \A t \in 1..Len(sessions) : new[t] = IF t = s THEN row ELSE sessions[t]
    BY <1>1, ExceptSeq
  <2>2. sessions' = new
    BY DEF RowWritten
  <2> HIDE DEF new
  <2>3. QED
    BY <2>1, <2>2
<1>3. /\ sessSeen' \in Seq(SUBSET Session) /\ Len(sessSeen') = Len(sessions)
      /\ \A t \in 1..Len(sessions) :
           sessSeen'[t] = sessSeen[t] \/ (t = s /\ sessSeen'[t] = sessSeen[t] \cup {row})
  <2>1. CASE sessSeen' = sessSeen
    BY <1>1, <2>1
  <2>2. CASE sessSeen' = [sessSeen EXCEPT ![s] = @ \cup {row}]
    <3> DEFINE rows == sessSeen[s] \cup {row}
               new == [sessSeen EXCEPT ![s] = rows]
    <3>1. rows \in SUBSET Session
      BY <1>1, SessionTyped DEF Consistent, SessionsConsistent
    <3>2. sessSeen' = new
      BY <2>2
    <3> HIDE DEF rows
    <3>3. /\ new \in Seq(SUBSET Session) /\ Len(new) = Len(sessSeen)
          /\ \A t \in 1..Len(sessSeen) : new[t] = IF t = s THEN rows ELSE sessSeen[t]
      BY <1>1, <3>1, ExceptSeq
    <3> HIDE DEF new
    <3>4. QED
      BY <1>1, <3>2, <3>3 DEF rows
  <2>3. QED
    BY <2>1, <2>2
<1>4. \A t \in 1..Len(sessions) :
        sessions[t].expires_at \in Nat /\ sessions[t].expires_at <= sessions[t].expires_at
  BY SessionTyped, SMT DEF Consistent, SessionsConsistent
<1>5. row.expires_at \in Nat /\ row.expires_at <= row.expires_at
  <2>1. row.expires_at \in Nat
    BY <1>1 DEF Session
  <2>2. QED
    BY <2>1, SMT
<1>6. Keeps
  <2>1. Longer(sessions, sessions')
    BY <1>1, <1>2, SMT DEF Longer
  <2>2. SessionsKept(sessions, sessions')
    BY <1>2, <1>4, <1>5, <2>1 DEF SessionsKept, RowWritten
  <2>3. now \in Int
    BY BoundAssumption, SMT DEF Consistent, ClockTyped
  <2>4. QED
    BY <2>2, <2>3, IssuedStay, SMT DEF Keeps
<1>7. ASSUME NEW t \in 1..Len(sessions)
      PROVE  /\ Lasts(sessions'[t]) /\ sessions'[t].expires_at <= now + SessionLife
             /\ \A old \in sessSeen'[t] : Lasts(old) /\ old.expires_at <= sessions'[t].expires_at
             /\ sessions'[t].served # None =>
                  sessions'[t].expires_at >= sessions'[t].served + SessionLife - TouchAfter
  <2>1. CASE t # s
    BY <1>2, <1>3, <2>1 DEF Consistent, SessionsConsistent, SessionsLast, ServedLast
  <2>2. CASE t = s
    <3>1. sessions'[t] = row
      BY <1>2, <2>2
    <3>2. ASSUME NEW old \in sessSeen[s] PROVE Lasts(old) /\ old.expires_at <= row.expires_at
      <4>1. Lasts(old) /\ old.expires_at <= sessions[s].expires_at
        BY DEF Consistent, SessionsConsistent, SessionsLast
      <4>2. old.expires_at \in Nat
        <5>1. old \in Session
          BY SessionTyped DEF Consistent, SessionsConsistent
        <5>2. QED
          BY <5>1 DEF Session
      <4>3. QED
        BY <1>4, <1>5, <4>1, <4>2, SMT DEF RowWritten
    <3>3. ASSUME NEW old \in sessSeen'[t] PROVE Lasts(old) /\ old.expires_at <= row.expires_at
      <4>1. old \in sessSeen[s] \/ old = row
        BY <1>3, <2>2
      <4>2. QED
        BY <1>5, <3>2, <4>1 DEF RowWritten
    <3>4. QED
      BY <3>1, <3>3 DEF RowWritten
  <2>3. QED
    BY <2>1, <2>2
<1>8. SessionsConsistent'
  <2>1. SessionsTyped'
    BY <1>2, <1>3 DEF SessionsTyped
  <2>2. SessionsLast' /\ ServedLast'
    BY <1>2, <1>7 DEF SessionsLast, ServedLast
  <2>3. QED
    BY <2>1, <2>2 DEF SessionsConsistent
<1>9. QED
  BY <1>2, <1>6, <1>8

\* Only sessions are written.
LEMMA OnlySessions ==
  ASSUME Consistent, Keeps, SessionsConsistent', Len(sessions') = Len(sessions), RequestsReady',
         UNCHANGED <<now, users, userSeen, codes, codeSeen, issued, mailed, refusals, tokens>>
  PROVE  Consistent'
<1>1. CodesConsistent' /\ CodesBuyTheirOwn'
  BY CodesRest, BoughtStays
<1>2. ClockTyped' /\ UsersTyped'
  BY DEF Consistent, ClockTyped, UsersTyped
<1>3. QED
  BY <1>1, <1>2 DEF Consistent

\* A touch: eight hours from now, if the row is there.
LEMMA TouchConsistent ==
  ASSUME Consistent, NEW r \in Requests, Touch(r)
  PROVE  Consistent'
<1> DEFINE q == requests[r]
           s == q.session
           n == [q EXCEPT !.step = "principal"]
           e == now + SessionLife
           row == [sessions[s] EXCEPT !.last_used_at = now, !.expires_at = e]
<1>1. q \in Request /\ q.at \in Nat /\ s \in 1..Len(sessions) /\ q.step = "touch" /\ q.at <= now
  BY CallTyped DEF Touch, At, Ready, SessionSteps
<1>2. /\ now \in Nat /\ SessionLife \in Nat /\ TouchAfter \in Nat /\ e \in Nat
      /\ UNCHANGED <<now, users, userSeen, codes, codeSeen, issued, mailed, refusals, tokens>>
      /\ sessSeen' = [sessSeen EXCEPT ![s] = @ \cup {row}]
      /\ sessions' = [sessions EXCEPT ![s] = row]
      /\ sessions[s].exists /\ Goto(r, "principal")
  BY BoundAssumption, DurationsAssumption, SMT
  DEF Consistent, ClockTyped, Touch, TouchLastUsed, SetSession
<1>3. /\ sessions[s] \in Session /\ sessions[s].expires_at \in Nat
      /\ sessions[s].served \in Nat \cup {None} /\ sessions[s].expires_at <= e
      /\ sessions[s].served # None =>
           sessions[s].expires_at >= sessions[s].served + SessionLife - TouchAfter
  BY <1>1, SessionTyped DEF Consistent, SessionsConsistent, SessionsLast, ServedLast
<1> HIDE DEF e, s
<1>4. row \in Session
  BY <1>2, <1>3, Zenon DEF Session
<1>5. /\ row.last_used_at = now /\ row.expires_at = e /\ row.user = sessions[s].user
      /\ row.code = sessions[s].code /\ row.served = sessions[s].served
      /\ row.exists = sessions[s].exists
  BY <1>3, Zenon DEF Session
<1> HIDE DEF row
<1>6. RowWritten(s, row)
  <2>1. Lasts(row)
    BY <1>5 DEF Lasts, e
  <2>2. row.expires_at <= now + SessionLife
    BY <1>2, <1>5, SMT DEF e
  <2>3. row.served # None => row.expires_at >= row.served + SessionLife - TouchAfter
    BY <1>2, <1>3, <1>5, SMT
  <2>4. QED
    BY <1>2, <1>3, <1>4, <1>5, <2>1, <2>2, <2>3 DEF RowWritten
<1>7. Keeps /\ SessionsConsistent' /\ Len(sessions') = Len(sessions)
  BY <1>1, <1>2, <1>6, RowWrittenKeeps DEF s
<1>8. sessions'[s].expires_at = e /\ s \in 1..Len(sessions')
  BY <1>1, <1>2, <1>5, <1>7, ElementOfSeq DEF s, Consistent, SessionsConsistent, SessionsTyped
<1>9. RequestsReady'
  <2>1. n.step = "principal" /\ n.session = s /\ n.at = q.at
    BY <1>1, SMT DEF Request, s
  <2> HIDE DEF n
  <2>2. e >= q.at + SessionLife - TouchAfter
    BY <1>1, <1>2, SMT DEF e
  <2>3. Ready(n, now', issued', mailed', sessions')
    BY <1>8, <2>1, <2>2, SMT DEF Ready, TypingSteps, SessionSteps
  <2>4. QED
    BY <1>2, <1>7, <2>3, OneContinues DEF n, Steps
<1>10. QED
  BY <1>2, <1>7, <1>9, OnlySessions

\* The call is served: the session lasts from the clock it read, but for the throttle.
LEMMA PrincipalConsistent ==
  ASSUME Consistent, NEW r \in Requests, Principal(r)
  PROVE  Consistent'
<1> DEFINE q == requests[r]
           s == q.session
           n == [q EXCEPT !.step = "logout"]
           row == [sessions[s] EXCEPT !.served = q.at]
<1>1. /\ q \in Request /\ q.at \in Nat /\ s \in 1..Len(sessions)
      /\ sessions[s].expires_at >= q.at + SessionLife - TouchAfter
  BY CallTyped DEF Principal, At, Ready, SessionSteps
<1>2. /\ UNCHANGED <<now, users, userSeen, codes, codeSeen, issued, mailed, refusals, tokens,
                     sessSeen>>
      /\ sessions' = [sessions EXCEPT ![s] = row]
      /\ Goto(r, "logout") \/ Return(r)
  BY DEF Principal
<1>3. /\ sessions[s] \in Session /\ sessions[s].expires_at \in Nat
      /\ sessions[s].expires_at <= now + SessionLife /\ Lasts(sessions[s])
      /\ sessions[s].expires_at <= sessions[s].expires_at
  BY <1>1, SessionTyped, SMT DEF Consistent, SessionsConsistent, SessionsLast
<1> HIDE DEF s
<1>4. row \in Session
  BY <1>1, <1>3, Zenon DEF Session
<1>5. /\ row.last_used_at = sessions[s].last_used_at /\ row.expires_at = sessions[s].expires_at
      /\ row.user = sessions[s].user /\ row.code = sessions[s].code /\ row.served = q.at
      /\ row.exists = sessions[s].exists
  BY <1>3, Zenon DEF Session
<1> HIDE DEF row
<1>6. RowWritten(s, row)
  <2>1. Lasts(row)
    BY <1>3, <1>5 DEF Lasts
  <2>2. QED
    BY <1>1, <1>2, <1>3, <1>4, <1>5, <2>1 DEF RowWritten
<1>7. Keeps /\ SessionsConsistent' /\ Len(sessions') = Len(sessions)
  BY <1>1, <1>2, <1>6, RowWrittenKeeps DEF s
<1>8. RequestsReady'
  <2>1. CASE Return(r)
    BY <1>7, <2>1, OneReturns
  <2>2. CASE Goto(r, "logout")
    <3>1. n.step = "logout" /\ n.session = s
      BY <1>1, SMT DEF Request, s
    <3> HIDE DEF n
    <3>2. s \in 1..Len(sessions')
      BY <1>1, <1>7 DEF s
    <3>3. Ready(n, now', issued', mailed', sessions')
      BY <3>1, <3>2, SMT DEF Ready, TypingSteps, SessionSteps
    <3>4. QED
      BY <1>7, <2>2, <3>3, OneContinues DEF n, Steps
  <2>3. QED
    BY <1>2, <2>1, <2>2
<1>9. QED
  BY <1>2, <1>7, <1>8, OnlySessions

\* delete_user_token.
LEMMA LogoutConsistent ==
  ASSUME Consistent, NEW r \in Requests, Logout(r)
  PROVE  Consistent'
<1> DEFINE s == requests[r].session
           row == [sessions[s] EXCEPT !.exists = FALSE]
<1>1. s \in 1..Len(sessions)
  BY CallTyped DEF Logout, At, Ready, SessionSteps
<1>2. /\ UNCHANGED <<now, users, userSeen, codes, codeSeen, issued, mailed, refusals, tokens>>
      /\ sessSeen' = [sessSeen EXCEPT ![s] = @ \cup {row}]
      /\ sessions' = [sessions EXCEPT ![s] = row]
      /\ Return(r)
  BY DEF Logout, SetSession
<1>3. /\ sessions[s] \in Session /\ sessions[s].expires_at \in Nat
      /\ sessions[s].expires_at <= now + SessionLife /\ Lasts(sessions[s])
      /\ sessions[s].expires_at <= sessions[s].expires_at
      /\ sessions[s].served # None =>
           sessions[s].expires_at >= sessions[s].served + SessionLife - TouchAfter
  BY <1>1, SessionTyped, SMT DEF Consistent, SessionsConsistent, SessionsLast, ServedLast
<1> HIDE DEF s
<1>4. row \in Session
  BY <1>3, Zenon DEF Session
<1>5. /\ row.last_used_at = sessions[s].last_used_at /\ row.expires_at = sessions[s].expires_at
      /\ row.user = sessions[s].user /\ row.code = sessions[s].code
      /\ row.served = sessions[s].served /\ row.exists = FALSE
  BY <1>3, Zenon DEF Session
<1> HIDE DEF row
<1>6. RowWritten(s, row)
  <2>1. Lasts(row)
    BY <1>3, <1>5 DEF Lasts
  <2>2. QED
    BY <1>2, <1>3, <1>4, <1>5, <2>1 DEF RowWritten
<1>7. Keeps /\ SessionsConsistent' /\ Len(sessions') = Len(sessions)
  BY <1>1, <1>2, <1>6, RowWrittenKeeps DEF s
<1>8. RequestsReady'
  BY <1>2, <1>7, OneReturns
<1>9. QED
  BY <1>2, <1>7, <1>8, OnlySessions

-----------------------------------------------------------------------------
(* The theorems.                                                           *)

\* Initially no code is stored, no session or token there, and no call in flight.
LEMMA InitConsistent == Init => Consistent
<1> SUFFICES ASSUME Init PROVE Consistent
  OBVIOUS
<1>1. ClockTyped /\ UsersTyped
  BY BoundAssumption, SMT DEF Init, ClockTyped, UsersTyped
<1>2. issued = <<>> /\ Len(issued) = 0 /\ sessions = <<>> /\ Len(sessions) = 0
  BY EmptySeq DEF Init
<1>3. 1..Len(issued) = {} /\ 1..Len(sessions) = {}
  BY <1>2, SMT
<1>4. CodesConsistent
  <2>1. IssuedTyped /\ IssuedBefore /\ MailedIssued /\ TokensTyped /\ RefusalsJustified
    BY <1>2, <1>3, EmptySeq
    DEF Init, IssuedTyped, IssuedBefore, MailedIssued, TokensTyped, RefusalsJustified
  <2>2. CodesSound /\ LoginAttemptsKept
    BY DEF Init, CodesSound, Fits, LoginAttemptsKept, Keys
  <2>3. QED
    BY <2>1, <2>2 DEF CodesConsistent
<1>5. SessionsConsistent /\ CodesBuyTheirOwn
  BY <1>2, <1>3, EmptySeq
  DEF Init, SessionsConsistent, SessionsTyped, SessionsLast, ServedLast, CodesBuyTheirOwn
<1>6. RequestsReady
  BY IdleIsReady DEF Init, RequestsReady
<1>7. QED
  BY <1>1, <1>4, <1>5, <1>6 DEF Consistent

\* Whatever is done next.
LEMMA NextConsistent == Consistent /\ [Next]_vars => Consistent'
<1> SUFFICES ASSUME Consistent, [Next]_vars PROVE Consistent'
  OBVIOUS
<1>1. CASE Tick
  BY <1>1, TickConsistent
<1>2. CASE \E k \in Keys : Expire(k)
  BY <1>2, ExpireConsistent
<1>3. CASE \E u \in Users : SetEnabled(u)
  BY <1>3, SetEnabledConsistent
<1>4. ASSUME NEW r \in Requests, AuthCode(r) PROVE Consistent'
  BY <1>4, RequestReadConsistent, VerifyReadConsistent
  DEF AuthCode, RequestAuthCode, VerifyAuthCode
<1>5. ASSUME NEW r \in Requests, SubmitCode(r) PROVE Consistent'
  BY <1>5, RequestReadConsistent, VerifyReadConsistent
  DEF SubmitCode, RequestSubmitCode, VerifySubmitCode
<1>6. ASSUME NEW r \in Requests, CodeStep(r) PROVE Consistent'
  BY <1>6, CodePutConsistent, CodeMailConsistent, VerifyCountConsistent, DiscardConsistent,
     VerifyDeleteConsistent, IssueSessionConsistent, IssueSubmitTokenConsistent
  DEF CodeStep
<1>7. ASSUME NEW r \in Requests, SessionStep(r) PROVE Consistent'
  BY <1>7, AuthenticateConsistent, TouchConsistent, PrincipalConsistent, LogoutConsistent
  DEF SessionStep
<1>8. ASSUME NEW r \in Requests, Stop(r) PROVE Consistent'
  BY <1>8, StopConsistent
<1>9. CASE UNCHANGED vars
  <2>1. UNCHANGED <<now, users, userSeen, codes, codeSeen, issued, mailed, refusals, sessions,
                    sessSeen, tokens, requests>>
    BY <1>9 DEF vars
  <2>2. RequestsReady'
    BY <2>1, NothingKeeps, AllWait
  <2>3. QED
    BY <2>1, <2>2, OnlyCalls
<1>10. QED
  BY <1>1, <1>2, <1>3, <1>4, <1>5, <1>6, <1>7, <1>8, <1>9 DEF Next

\* Rows, codes, sessions and calls in flight agree at all times.
THEOREM AlwaysConsistent == Spec => []Consistent
BY InitConsistent, NextConsistent, PTL DEF Spec

\* Type correctness of codes, sessions, submit tokens and the calls in flight
\* (the tables login_code, ephemeral_state and user_token).
THEOREM LoginTypeCorrect == Spec => []TypeOK
<1>1. Consistent => TypeOK
  <2> SUFFICES ASSUME Consistent PROVE TypeOK
    OBVIOUS
  <2>1. /\ now \in 0..MaxTime /\ users \in [Users -> BOOLEAN]
        /\ userSeen \in [Users -> SUBSET BOOLEAN]
    BY DEF Consistent, ClockTyped, UsersTyped
  <2>2. /\ codes \in [Keys -> CodeRow \cup {None}] /\ \A k \in Keys : codes[k] \in codeSeen[k]
        /\ issued \in Seq([inst : Instances \cup {None}, email : Addresses, at : Nat,
                           counted : Nat])
        /\ mailed \subseteq 1..Len(issued) /\ tokens \subseteq SubmitToken
    BY DEF Consistent, CodesConsistent, CodesSound, IssuedTyped, Issue, MailedIssued, TokensTyped
  <2>3. sessions \in Seq(Session) /\ requests \in [Requests -> Request]
    BY DEF Consistent, SessionsConsistent, SessionsTyped, RequestsReady
  <2>4. QED
    BY <2>1, <2>2, <2>3 DEF TypeOK
<1>2. QED
  BY <1>1, AlwaysConsistent, PTL

\* What a code buys is what it was mailed for: a session is its address's user's,
\* a submit token its address's and instance's, however requests and
\* verifications interleave (verify_auth_code, verify_submit_code).
THEOREM CodesAlwaysBuyTheirOwn == Spec => []CodesBuyTheirOwn
<1>1. Consistent => CodesBuyTheirOwn
  BY DEF Consistent
<1>2. QED
  BY <1>1, AlwaysConsistent, PTL

\* A login code's row has no fewer attempts than were counted of that code, however
\* many verifications run at once (increment_login_code_attempts).
THEOREM LoginAttemptsAlwaysKept == Spec => []LoginAttemptsKept
<1>1. Consistent => LoginAttemptsKept
  BY DEF Consistent, CodesConsistent
<1>2. QED
  BY <1>1, AlwaysConsistent, PTL

\* Whoever is refused a code for asking too soon was stored one within the window,
\* whichever past row the request read (the rate limit of requestAuthCode and
\* requestSubmitCode).
THEOREM RefusalsAlwaysJustified == Spec => []RefusalsJustified
<1>1. Consistent => RefusalsJustified
  BY DEF Consistent, CodesConsistent
<1>2. QED
  BY <1>1, AlwaysConsistent, PTL

\* A session that is there lasts SessionLife less TouchAfter from the last call it
\* served, though the row read may be an earlier one (verify_token_with_user_token
\* and its throttled touch).
THEOREM UseAlwaysKeepsAlive == Spec => []UseKeepsAlive
<1>1. Consistent => UseKeepsAlive
  BY DEF Consistent, SessionsConsistent, ServedLast, UseKeepsAlive
<1>2. QED
  BY <1>1, AlwaysConsistent, PTL

\* No step brings a session back.
LEMMA EndedStays ==
  ASSUME Consistent, Next, NEW s \in 1..Len(sessions), ~sessions[s].exists
  PROVE  ~sessions'[s].exists
<1>1. /\ sessions \in Seq(Session) /\ Len(sessions) \in Nat
      /\ \A t \in 1..Len(sessions) : sessions[t] \in Session
  BY LenProperties, SessionTyped DEF Consistent, SessionsConsistent, SessionsTyped
<1>2. \/ UNCHANGED sessions
      \/ \E r \in Requests : IssueSession(r) \/ Touch(r) \/ Principal(r) \/ Logout(r)
  <2>1. ASSUME NEW k \in Keys, Expire(k) PROVE UNCHANGED sessions
    BY <2>1 DEF Expire
  <2>2. ASSUME NEW u \in Users, SetEnabled(u) PROVE UNCHANGED sessions
    BY <2>2 DEF SetEnabled
  <2>3. ASSUME NEW r \in Requests, AuthCode(r) \/ SubmitCode(r) PROVE UNCHANGED sessions
    BY <2>3 DEF AuthCode, SubmitCode, RequestAuthCode, VerifyAuthCode, RequestSubmitCode,
                VerifySubmitCode, RequestRead, VerifyRead
  <2>4. ASSUME NEW r \in Requests, CodeStep(r) PROVE UNCHANGED sessions \/ IssueSession(r)
    BY <2>4 DEF CodeStep, CodePut, CodeMail, VerifyCount, Discard, VerifyDelete, Deletes,
                IssueSubmitToken
  <2>5. ASSUME NEW r \in Requests, SessionStep(r)
        PROVE  UNCHANGED sessions \/ Touch(r) \/ Principal(r) \/ Logout(r)
    BY <2>5 DEF SessionStep, Authenticate
  <2>6. ASSUME NEW r \in Requests, Stop(r) PROVE UNCHANGED sessions
    BY <2>6 DEF Stop
  <2>7. Tick => UNCHANGED sessions
    BY DEF Tick
  <2>8. QED
    BY <2>1, <2>2, <2>3, <2>4, <2>5, <2>6, <2>7 DEF Next
<1>3. ASSUME NEW r \in Requests, IssueSession(r) PROVE ~sessions'[s].exists
  <2> DEFINE q == requests[r]
             row == [user |-> AccountOf[q.email], code |-> q.typed, created_at |-> now,
                     expires_at |-> now + SessionLife, last_used_at |-> None,
                     served |-> None, exists |-> TRUE]
  <2>1. sessions' = sessions \/ sessions' = Append(sessions, row)
    BY <1>3 DEF IssueSession, sessionVars
  <2> HIDE DEF row
  <2>2. Append(sessions, row)[s] = sessions[s]
    BY <1>1, SMT
  <2>3. QED
    BY <2>1, <2>2
<1>4. ASSUME NEW t \in 1..Len(sessions), NEW row, sessions' = [sessions EXCEPT ![t] = row],
             t = s => ~row.exists
      PROVE  ~sessions'[s].exists
  BY <1>1, <1>4, SMT
<1>5. ASSUME NEW r \in Requests, Touch(r) \/ Principal(r) \/ Logout(r)
      PROVE  ~sessions'[s].exists
  <2> DEFINE t == requests[r].session
             touched == [sessions[t] EXCEPT !.last_used_at = now,
                                            !.expires_at = now + SessionLife]
             served == [sessions[t] EXCEPT !.served = requests[r].at]
             ended == [sessions[t] EXCEPT !.exists = FALSE]
  <2>1. t \in 1..Len(sessions)
    BY <1>5, CallTyped DEF Touch, Principal, Logout, At, Ready, SessionSteps
  <2>2. \/ sessions[t].exists /\ sessions' = [sessions EXCEPT ![t] = touched]
        \/ sessions' = [sessions EXCEPT ![t] = served]
        \/ sessions' = [sessions EXCEPT ![t] = ended]
    BY <1>5 DEF Touch, TouchLastUsed, Principal, Logout, SetSession
  <2>3. served.exists = sessions[t].exists /\ ended.exists = FALSE
    BY <1>1, <2>1, Zenon DEF Session
  <2> HIDE DEF touched, served, ended, t
  <2>4. CASE sessions[t].exists /\ sessions' = [sessions EXCEPT ![t] = touched]
    BY <1>4, <2>1, <2>4
  <2>5. CASE sessions' = [sessions EXCEPT ![t] = served]
    BY <1>4, <2>1, <2>3, <2>5
  <2>6. CASE sessions' = [sessions EXCEPT ![t] = ended]
    BY <1>4, <2>1, <2>3, <2>6
  <2>7. QED
    BY <2>2, <2>4, <2>5, <2>6
<1>6. QED
  BY <1>2, <1>3, <1>5

\* A session that was logged out is not brought back by a touch on its way
\* (touch_user_token_last_used's condition, delete_user_token).
THEOREM LogoutStaysFinal == Spec => LogoutIsFinal
<1>1. Consistent /\ [Next]_vars
        => [\A s \in 1..Len(sessions) : ~sessions[s].exists => ~sessions'[s].exists]_vars
  BY EndedStays
<1>2. QED
  BY <1>1, AlwaysConsistent, PTL DEF Spec, LogoutIsFinal
=============================================================================
