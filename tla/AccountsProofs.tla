---------------------------- MODULE AccountsProofs ----------------------------
(***************************************************************************)
(* What holds of a user's sessions, password and address for every number  *)
(* of requests, sessions, addresses and codes.                             *)
(*                                                                         *)
(* Tokens: a session's current token is its own and has not been exchanged *)
(* yet.  Passwords: whoever has set a password and not yet revoked is      *)
(* going to revoke every session of an older one.  Addresses: a code sent  *)
(* to an older address is used up, or about to be.                         *)
(***************************************************************************)
EXTENDS Accounts, TLAPS

Present(s) == session[s].state # "ABSENT"

(* The current tokens are distinct and none of them has been exchanged.    *)
TokensUnspent ==
    /\ \A s \in SessionIds : session[s].token <= minted
    /\ \A s, t \in SessionIds :
          Present(s) /\ Present(t) /\ session[s].token = session[t].token => s = t
    /\ \A e \in exchanges :
          /\ e.from <= minted
          /\ \A s \in SessionIds : Present(s) => session[s].token # e.from

(* A request that has set a password and will revoke session s.            *)
WillRevoke(w, s) ==
    \/ req[w].at \in {"resetWritten", "resetUsed"}
    \/ req[w].at = "changed" /\ req[w].session # s

OldSessionsAwaitRevocation ==
    \A s \in SessionIds :
       session[s].state = "LIVE" /\ session[s].password # user.password =>
          "password" \in late \/ \E w \in Workers : WillRevoke(w, s)

(* A request about codes is about codes of the right type; the code that a *)
(* request is verifying exists.                                            *)
CodesOfRequest(r) ==
    /\ r.at = "withdrawing" /\ r.changing => r.type = "EMAIL_VERIFICATION"
    /\ r.at \in {"verifying", "verified"} =>
          /\ code[r.code].state # "ABSENT"
          /\ code[r.code].type = "EMAIL_VERIFICATION"

OldCodesAwaitWithdrawal ==
    /\ \A w \in Workers : CodesOfRequest(req[w])
    /\ \A c \in CodeIds :
          /\ code[c].state \in {"VALID", "EXPIRED"}
          /\ code[c].type = "EMAIL_VERIFICATION"
          /\ code[c].sentTo # user.email
          => "email" \in late \/ \E w \in Workers : Readdressing(w)

AccountsInv ==
    /\ TypeOK
    /\ TokensUnspent
    /\ OldSessionsAwaitRevocation
    /\ OldCodesAwaitWithdrawal
    /\ VerifiedBySentCode

AllRequests == SessionRequests \cup CodeRequests

-----------------------------------------------------------------------------
LEMMA FirstEmailIsAnEmail == FirstEmail \in Emails
BY SessionsAssumption DEF SessionsAssumption, FirstEmail

LEMMA IdleRequest == Idle \in AllRequests /\ CodesOfRequest(Idle)
BY DEF Idle, AllRequests, SessionRequests, CodesOfRequest

(* The initial state of a user who registered.                             *)
LEMMA RegisteredInitially ==
    ASSUME InitRegistered
    PROVE  /\ user \in Users /\ session \in [SessionIds -> SessionRows]
           /\ minted \in Tokens /\ code \in [CodeIds -> CodeRows]
           /\ \A s \in SessionIds : session[s].token <= minted
           /\ \A s, t \in SessionIds : Present(s) /\ Present(t) => s = t
           /\ \A s \in SessionIds :
                 session[s].state = "LIVE" => session[s].password = user.password
           /\ user.email = FirstEmail
           /\ \A c \in CodeIds : code[c].sentTo = FirstEmail
<1> USE SessionsAssumption, FirstEmailIsAnEmail
<1>1. PICK s \in SessionIds :
        session = [t \in SessionIds |->
           IF t = s THEN [NoSession EXCEPT !.state = "LIVE", !.token = 1, !.password = 1]
           ELSE NoSession]
  BY DEF InitRegistered
<1>2. PICK c \in CodeIds :
        code = [NoCodes EXCEPT ![c] = [state |-> "VALID", type |-> "EMAIL_VERIFICATION",
                                       sentTo |-> FirstEmail]]
  BY DEF InitRegistered
<1>3. user = Registered /\ minted = 1
  BY DEF InitRegistered
<1>4. session \in [SessionIds -> SessionRows]
  <2>1. NoSession \in SessionRows
    BY DEF NoSession, SessionRows, Tokens, SessionAudience, SessionsAssumption
  <2>2. 1 \in Tokens /\ 1 \in 0..MaxPasswords
    BY DEF Tokens, SessionsAssumption
  <2>3. [NoSession EXCEPT !.state = "LIVE", !.token = 1, !.password = 1] \in SessionRows
    BY <2>1, <2>2 DEF SessionRows
  <2> QED
    BY <1>1, <2>1, <2>3
<1>5. /\ code \in [CodeIds -> CodeRows]
      /\ \A d \in CodeIds : code[d].sentTo = FirstEmail
  BY <1>2 DEF NoCodes, NoCode, CodeRows, AuthTokenType
<1>6. user \in Users /\ minted \in Tokens /\ user.email = FirstEmail
  BY <1>3 DEF Users, Registered, Tokens, SessionsAssumption
<1> QED
  BY <1>1, <1>3, <1>4, <1>5, <1>6 DEF Present, NoSession, Registered

(* The initial state of a user whom a provider vouches for.                *)
LEMMA ExternalInitially ==
    ASSUME InitExternal
    PROVE  /\ user \in Users /\ session \in [SessionIds -> SessionRows]
           /\ minted \in Tokens /\ code \in [CodeIds -> CodeRows]
           /\ \A s \in SessionIds : session[s].token <= minted /\ ~Present(s)
           /\ user.email = FirstEmail
           /\ \A c \in CodeIds : code[c].sentTo = FirstEmail
<1> USE SessionsAssumption, FirstEmailIsAnEmail
<1>1. user \in Users /\ user.email = FirstEmail /\ minted \in Tokens
  BY DEF InitExternal, Users, Tokens, SessionsAssumption
<1>2. code \in [CodeIds -> CodeRows] /\ \A c \in CodeIds : code[c].sentTo = FirstEmail
  BY DEF InitExternal, NoCodes, NoCode, CodeRows, AuthTokenType
<1>3. session \in [SessionIds -> SessionRows]
  BY DEF InitExternal, NoSession, SessionRows, Tokens, SessionAudience, SessionsAssumption
<1>4. \A s \in SessionIds : session[s].token <= minted /\ ~Present(s)
  BY DEF InitExternal, NoSession, Present
<1> QED
  BY <1>1, <1>2, <1>3, <1>4

(* The initial state.                                                      *)
LEMMA AccountsInitially == Init => AccountsInv
<1> SUFFICES ASSUME Init PROVE AccountsInv
  OBVIOUS
<1>1. /\ exchanges = {} /\ late = {} /\ proven = FirstEmail
      /\ req = [w \in Workers |-> Idle]
  BY DEF Init
<1>2. /\ user \in Users /\ session \in [SessionIds -> SessionRows]
      /\ minted \in Tokens /\ code \in [CodeIds -> CodeRows]
      /\ \A s \in SessionIds : session[s].token <= minted
      /\ \A s, t \in SessionIds : Present(s) /\ Present(t) => s = t
      /\ \A s \in SessionIds :
            session[s].state = "LIVE" => session[s].password = user.password
      /\ user.email = FirstEmail
      /\ \A c \in CodeIds : code[c].sentTo = FirstEmail
  BY RegisteredInitially, ExternalInitially DEF Init, Present
<1>3. TypeOK
  BY <1>1, <1>2, IdleRequest, FirstEmailIsAnEmail DEF TypeOK, SessionTypeOK, AllRequests
<1>4. TokensUnspent
  BY <1>1, <1>2 DEF TokensUnspent
<1>5. OldSessionsAwaitRevocation
  BY <1>2 DEF OldSessionsAwaitRevocation
<1>6. OldCodesAwaitWithdrawal
  BY <1>1, <1>2, IdleRequest DEF OldCodesAwaitWithdrawal
<1>7. VerifiedBySentCode
  BY <1>1, <1>2 DEF VerifiedBySentCode
<1> QED
  BY <1>3, <1>4, <1>5, <1>6, <1>7 DEF AccountsInv

-----------------------------------------------------------------------------
(* A step that sets neither password nor address, opens no session, creates*)
(* no token or code, and ends no request that others wait for.             *)
LEMMA QuietStep ==
    ASSUME AccountsInv,
           user' \in Users, user'.password = user.password, user'.email = user.email,
           user'.verified = user.verified,
           session' \in [SessionIds -> SessionRows],
           \A s \in SessionIds :
              /\ session'[s].token = session[s].token
              /\ session'[s].state = "ABSENT" <=> session[s].state = "ABSENT"
              /\ session'[s].state = "LIVE" =>
                    session[s].state = "LIVE" /\ session'[s].password = session[s].password,
           code' \in [CodeIds -> CodeRows],
           \A c \in CodeIds :
              /\ code[c].state # "ABSENT" => code'[c].state # "ABSENT"
              /\ code'[c].state \in {"VALID", "EXPIRED"} => code[c].state \in {"VALID", "EXPIRED"}
              /\ code'[c].type = code[c].type /\ code'[c].sentTo = code[c].sentTo,
           NEW w \in Workers, NEW r \in AllRequests,
           req' = [req EXCEPT ![w] = r], CodesOfRequest(r)',
           ~Readdressing(w),
           SkipsRevocation(w) => req[w].at = "resetWritten" /\ r.at = "resetUsed",
           UNCHANGED <<minted, exchanges, late, proven>>
    PROVE  AccountsInv'
<1>1. req \in [Workers -> AllRequests]
  BY DEF AccountsInv, TypeOK, AllRequests
<1>2. req'[w] = r /\ \A v \in Workers \ {w} : req'[v] = req[v]
  BY <1>1
<1>3. TypeOK'
  BY <1>1 DEF AccountsInv, TypeOK, SessionTypeOK, AllRequests
<1>4. TokensUnspent'
  BY DEF AccountsInv, TokensUnspent, Present
<1>5. OldSessionsAwaitRevocation'
  BY <1>2 DEF AccountsInv, OldSessionsAwaitRevocation, WillRevoke, SkipsRevocation
<1>6. \A v \in Workers : CodesOfRequest(req[v])'
  <2>1. \A v \in Workers : req[v].at \in {"verifying", "verified"} => req[v].code \in CodeIds
    BY <1>1 DEF AllRequests, SessionRequests, CodeRequests
  <2> QED
    BY <1>2, <2>1 DEF AccountsInv, OldCodesAwaitWithdrawal, CodesOfRequest
<1>7. OldCodesAwaitWithdrawal'
  BY <1>2, <1>6 DEF AccountsInv, OldCodesAwaitWithdrawal, Readdressing
<1>8. VerifiedBySentCode'
  BY DEF AccountsInv, VerifiedBySentCode
<1> QED
  BY <1>3, <1>4, <1>5, <1>7, <1>8 DEF AccountsInv

(* A request that begins.                                                  *)
LEMMA Begins ==
    ASSUME AccountsInv, NEW w \in Workers, NEW r \in AllRequests, Begin(w, r),
           CodesOfRequest(r), user' \in Users, user'.password = user.password,
           user'.email = user.email, user'.verified = user.verified,
           UNCHANGED <<session, minted, exchanges, late, code, proven>>
    PROVE  AccountsInv'
<1>1. session \in [SessionIds -> SessionRows] /\ code \in [CodeIds -> CodeRows]
  BY DEF AccountsInv, TypeOK, SessionTypeOK
<1>2. req[w].at = "idle" /\ req' = [req EXCEPT ![w] = r]
  BY DEF Begin, Idle
<1>3. ~Readdressing(w) /\ ~SkipsRevocation(w)
  BY <1>2 DEF Readdressing, SkipsRevocation
<1>4. CodesOfRequest(r)'
  BY DEF CodesOfRequest
<1> QED
  BY <1>1, <1>2, <1>3, <1>4, QuietStep

(* The first steps of requests about sessions.                             *)
LEMMA SessionsBegin ==
    ASSUME AccountsInv, NEW w \in Workers, UNCHANGED <<code, proven>>,
           \/ CheckLogin(w) \/ CheckPlatformLogin(w)
           \/ \E email \in Emails : CheckExternal(w, email)
           \/ \E s \in SessionIds, token \in 1..minted :
                 CheckRefresh(w, s, token) \/ DetectReuse(w, s, token) \/ CheckLogout(w, s, token)
           \/ \E current, s \in SessionIds : CheckRevokeOther(w, current, s)
           \/ \E current \in SessionIds : \E keep \in {{}, {current}} :
                 CheckLogoutAll(w, current, keep)
    PROVE  AccountsInv'
<1>0. user \in Users /\ session \in [SessionIds -> SessionRows]
  BY DEF AccountsInv, TypeOK, SessionTypeOK
<1> USE DEF AllRequests, SessionRequests, CodesOfRequest
<1>1. CASE CheckLogin(w)
  <2> DEFINE r == [at |-> "login", audience |-> "CLIENT", password |-> user.password]
  <2>1. r \in AllRequests /\ CodesOfRequest(r)
    BY <1>0 DEF Users, SessionAudience
  <2>2. Begin(w, r)
    BY <1>1 DEF CheckLogin
  <2> HIDE DEF r
  <2> QED
    BY <1>0, <1>1, <2>1, <2>2, Begins DEF CheckLogin
<1>2. CASE CheckPlatformLogin(w)
  <2> DEFINE r == [at |-> "login", audience |-> "PLATFORM_ADMIN", password |-> user.password]
  <2>1. r \in AllRequests /\ CodesOfRequest(r)
    BY <1>0 DEF Users, SessionAudience
  <2>2. Begin(w, r)
    BY <1>2 DEF CheckPlatformLogin
  <2> HIDE DEF r
  <2> QED
    BY <1>0, <1>2, <2>1, <2>2, Begins DEF CheckPlatformLogin
<1>3. CASE \E email \in Emails : CheckExternal(w, email)
  <2> DEFINE r == [at |-> "external"]
  <2>1. r \in AllRequests /\ CodesOfRequest(r)
    OBVIOUS
  <2>2. Begin(w, r) /\ user' = [user EXCEPT !.linked = TRUE]
    BY <1>3 DEF CheckExternal
  <2>3. /\ user' \in Users /\ user'.password = user.password
        /\ user'.email = user.email /\ user'.verified = user.verified
    BY <1>0, <2>2 DEF Users
  <2> HIDE DEF r
  <2> QED
    BY <1>3, <2>1, <2>2, <2>3, Begins DEF CheckExternal
<1>4. ASSUME NEW s \in SessionIds, NEW token \in 1..minted, CheckRefresh(w, s, token)
      PROVE  AccountsInv'
  <2> DEFINE r == [at |-> "refreshing", session |-> s, token |-> token]
  <2>1. r \in AllRequests /\ CodesOfRequest(r)
    BY <1>0, <1>4 DEF CheckRefresh, SessionRows
  <2>2. Begin(w, r)
    BY <1>4 DEF CheckRefresh
  <2> HIDE DEF r
  <2> QED
    BY <1>0, <1>4, <2>1, <2>2, Begins DEF CheckRefresh
<1>5. ASSUME NEW s \in SessionIds, Begin(w, [at |-> "leaving", session |-> s]),
             UNCHANGED <<user, session, minted, exchanges, late>>
      PROVE  AccountsInv'
  <2> DEFINE r == [at |-> "leaving", session |-> s]
  <2>1. r \in AllRequests /\ CodesOfRequest(r)
    OBVIOUS
  <2>2. Begin(w, r)
    BY <1>5
  <2> HIDE DEF r
  <2> QED
    BY <1>0, <1>5, <2>1, <2>2, Begins
<1>6. ASSUME NEW current \in SessionIds, NEW keep \in {{}, {current}},
             CheckLogoutAll(w, current, keep)
      PROVE  AccountsInv'
  <2> DEFINE r == [at |-> "clearing", keep |-> keep]
  <2>0. keep \in SUBSET SessionIds
    OBVIOUS
  <2>1. r \in AllRequests /\ CodesOfRequest(r)
    BY <2>0
  <2>2. Begin(w, r)
    BY <1>6 DEF CheckLogoutAll
  <2> HIDE DEF r
  <2> QED
    BY <1>0, <1>6, <2>1, <2>2, Begins DEF CheckLogoutAll
<1> QED
  BY <1>1, <1>2, <1>3, <1>4, <1>5, <1>6 DEF DetectReuse, CheckLogout, CheckRevokeOther

(* The first steps of requests about the password and the address.         *)
LEMMA AccountsBegin ==
    ASSUME AccountsInv, NEW w \in Workers,
           \/ RequestPasswordReset(w) \/ ResendVerification(w)
           \/ \E c \in CodeIds : CheckReset(w, c) \/ CheckVerify(w, c)
           \/ \E current \in SessionIds :
                 \/ CheckChange(w, current)
                 \/ \E email \in Emails : CheckChangeEmail(w, current, email)
    PROVE  AccountsInv'
<1>0. user \in Users
  BY DEF AccountsInv, TypeOK, SessionTypeOK
<1>1. ASSUME NEW type \in AuthTokenType, Begin(w, IssueRequest(type, user.email, FALSE)),
             UNCHANGED <<user, session, minted, exchanges, late, code, proven>>
      PROVE  AccountsInv'
  <2>1. IssueRequest(type, user.email, FALSE) \in AllRequests
    BY <1>0 DEF IssueRequest, AllRequests, CodeRequests, Users
  <2>2. CodesOfRequest(IssueRequest(type, user.email, FALSE))
    BY DEF IssueRequest, CodesOfRequest
  <2> QED
    BY <1>0, <1>1, <2>1, <2>2, Begins
<1>2. ASSUME NEW r \in AllRequests, CodesOfRequest(r), Begin(w, r),
             UNCHANGED <<user, session, minted, exchanges, late, code, proven>>
      PROVE  AccountsInv'
  BY <1>0, <1>2, Begins
<1>3. ASSUME NEW c \in CodeIds, CheckReset(w, c) PROVE AccountsInv'
  <2>1. /\ [at |-> "resetting", code |-> c] \in AllRequests
        /\ CodesOfRequest([at |-> "resetting", code |-> c])
    BY DEF AllRequests, CodeRequests, CodesOfRequest
  <2> QED
    BY <1>2, <1>3, <2>1 DEF CheckReset
<1>4. ASSUME NEW c \in CodeIds, CheckVerify(w, c) PROVE AccountsInv'
  <2>1. /\ [at |-> "verifying", code |-> c] \in AllRequests
        /\ CodesOfRequest([at |-> "verifying", code |-> c])
    BY <1>4 DEF AllRequests, CodeRequests, CodesOfRequest, CheckVerify
  <2> QED
    BY <1>2, <1>4, <2>1 DEF CheckVerify
<1>5. ASSUME NEW current \in SessionIds, CheckChange(w, current) PROVE AccountsInv'
  <2>1. /\ [at |-> "changing", session |-> current] \in AllRequests
        /\ CodesOfRequest([at |-> "changing", session |-> current])
    BY DEF AllRequests, CodeRequests, CodesOfRequest
  <2> QED
    BY <1>2, <1>5, <2>1 DEF CheckChange
<1>6. ASSUME NEW current \in SessionIds, NEW email \in Emails,
             CheckChangeEmail(w, current, email)
      PROVE  AccountsInv'
  <2>1. /\ [at |-> "rewriting", email |-> email] \in AllRequests
        /\ CodesOfRequest([at |-> "rewriting", email |-> email])
    BY DEF AllRequests, CodeRequests, CodesOfRequest
  <2> QED
    BY <1>2, <1>6, <2>1 DEF CheckChangeEmail
<1> QED
  BY <1>1, <1>3, <1>4, <1>5, <1>6 DEF RequestPasswordReset, ResendVerification, AuthTokenType

-----------------------------------------------------------------------------
(* A refresh: the token it stores is new, the one it exchanges is current. *)
LEMMA RotateStep ==
    ASSUME AccountsInv, NEW w \in Workers, Rotate(w), UNCHANGED <<code, proven>>
    PROVE  AccountsInv'
<1> DEFINE s == req[w].session
           expected == req[w].token
<1>0. /\ req \in [Workers -> AllRequests] /\ session \in [SessionIds -> SessionRows]
      /\ exchanges \subseteq Exchanges /\ minted \in Tokens
  BY DEF AccountsInv, TypeOK, SessionTypeOK, AllRequests
<1>1. s \in SessionIds /\ expected \in Tokens
  BY <1>0 DEF Rotate, AllRequests, SessionRequests, CodeRequests
<1>2. /\ minted + 1 \in Tokens /\ minted' = minted + 1 /\ minted \in Nat
      /\ req' = [req EXCEPT ![w] = Idle]
      /\ UNCHANGED <<user, late>>
  BY <1>0, SessionsAssumption DEF Rotate, Finish, Tokens, SessionsAssumption
<1>3. \/ UNCHANGED <<session, exchanges>>
      \/ /\ RotationApplies(session[s], expected)
         /\ session' = [session EXCEPT ![s].previous = expected, ![s].token = minted + 1]
         /\ exchanges' = exchanges \cup
               {[session |-> s, from |-> expected, to |-> minted + 1]}
  BY DEF Rotate
<1> HIDE DEF s, expected
<1>4. /\ session' \in [SessionIds -> SessionRows]
      /\ \A t \in SessionIds : /\ session'[t].state = session[t].state
                               /\ session'[t].password = session[t].password
                               /\ session'[t].token = session[t].token
                                  \/ (t = s /\ session'[t].token = minted + 1)
  <2>1. CASE UNCHANGED session
    BY <1>0, <2>1
  <2>2. CASE session' = [session EXCEPT ![s].previous = expected, ![s].token = minted + 1]
    <3>1. [session[s] EXCEPT !.previous = expected, !.token = minted + 1] \in SessionRows
      BY <1>0, <1>1, <1>2 DEF SessionRows
    <3>2. session' = [session EXCEPT ![s] =
             [session[s] EXCEPT !.previous = expected, !.token = minted + 1]]
      BY <2>2
    <3>3. /\ [session[s] EXCEPT !.previous = expected, !.token = minted + 1].state
                = session[s].state
          /\ [session[s] EXCEPT !.previous = expected, !.token = minted + 1].password
                = session[s].password
          /\ [session[s] EXCEPT !.previous = expected, !.token = minted + 1].token = minted + 1
      BY <1>0, <1>1 DEF SessionRows
    <3> QED
      BY <1>0, <1>1, <3>1, <3>2, <3>3
  <2> QED
    BY <1>3, <2>1, <2>2
<1>5. req'[w] = Idle /\ \A v \in Workers \ {w} : req'[v] = req[v]
  BY <1>0, <1>2
<1>6. TypeOK'
  <2>1. exchanges' \subseteq Exchanges
    BY <1>0, <1>1, <1>2, <1>3 DEF Exchanges
  <2> QED
    BY <1>0, <1>2, <1>4, <2>1, IdleRequest DEF AccountsInv, TypeOK, SessionTypeOK, AllRequests
<1>7. TokensUnspent'
  <2>1. \A t \in SessionIds : session[t].token \in Nat
    BY <1>0 DEF SessionRows, Tokens
  <2>2. \A e \in exchanges : e.from \in Nat
    BY <1>0 DEF Exchanges, Tokens
  <2>3. (\A t \in SessionIds : session[t].token <= minted)'
    BY <1>2, <1>4, <2>1 DEF AccountsInv, TokensUnspent
  <2>4. (\A t, u \in SessionIds :
           Present(t) /\ Present(u) /\ session[t].token = session[u].token => t = u)'
    BY <1>2, <1>4, <2>1 DEF AccountsInv, TokensUnspent, Present
  <2>5. CASE UNCHANGED <<session, exchanges>>
    BY <1>2, <2>2, <2>3, <2>4, <2>5 DEF AccountsInv, TokensUnspent, Present
  <2>6. CASE /\ RotationApplies(session[s], expected)
             /\ session' = [session EXCEPT ![s].previous = expected, ![s].token = minted + 1]
             /\ exchanges' = exchanges \cup
                   {[session |-> s, from |-> expected, to |-> minted + 1]}
    <3>1. session[s].token = expected /\ Present(s) /\ expected <= minted
      BY <1>1, <2>6 DEF RotationApplies, Present, AccountsInv, TokensUnspent
    <3>2. session'[s].token = minted + 1
      BY <1>0, <1>1, <2>6 DEF SessionRows
    <3>3. ASSUME NEW e \in exchanges', NEW t \in SessionIds, Present(t)'
          PROVE  e.from <= minted' /\ session'[t].token # e.from
      <4>1. Present(t)
        BY <1>4, <3>3 DEF Present
      <4>2. CASE e \in exchanges
        BY <1>2, <1>4, <2>2, <4>1, <4>2 DEF AccountsInv, TokensUnspent
      <4>3. CASE e.from = expected
        BY <1>1, <1>2, <1>4, <2>1, <3>1, <3>2, <4>1, <4>3 DEF AccountsInv, TokensUnspent
      <4> QED
        BY <2>6, <4>2, <4>3
    <3>4. ASSUME NEW e \in exchanges' PROVE e.from <= minted'
      BY <1>1, <1>2, <2>2, <2>6, <3>1 DEF AccountsInv, TokensUnspent, Tokens
    <3> QED
      BY <2>3, <2>4, <3>3, <3>4 DEF TokensUnspent
  <2> QED
    BY <1>3, <2>5, <2>6
<1>8. req[w].at = "refreshing"
  BY DEF Rotate
<1>9. OldSessionsAwaitRevocation'
  BY <1>2, <1>4, <1>5, <1>8 DEF AccountsInv, OldSessionsAwaitRevocation, WillRevoke
<1>10. OldCodesAwaitWithdrawal' /\ VerifiedBySentCode'
  BY <1>2, <1>5, <1>8, IdleRequest
  DEF AccountsInv, OldCodesAwaitWithdrawal, CodesOfRequest, Readdressing, VerifiedBySentCode
<1> QED
  BY <1>6, <1>7, <1>9, <1>10 DEF AccountsInv

(* A session that is opened.                                               *)
LEMMA CreateSessionStep ==
    ASSUME AccountsInv, NEW w \in Workers, CreateSession(w), UNCHANGED <<code, proven>>
    PROVE  AccountsInv'
<1> DEFINE audience == IF req[w].at = "login" THEN req[w].audience ELSE "CLIENT"
           password == IF req[w].at = "login" THEN req[w].password ELSE user.password
<1>0. /\ req \in [Workers -> AllRequests] /\ session \in [SessionIds -> SessionRows]
      /\ exchanges \subseteq Exchanges /\ minted \in Tokens /\ user \in Users
  BY DEF AccountsInv, TypeOK, SessionTypeOK, AllRequests
<1>1. audience \in SessionAudience /\ password \in 0..MaxPasswords
  BY <1>0 DEF AllRequests, SessionRequests, CodeRequests, SessionAudience, Users
<1>2. PICK s \in SessionIds : /\ session[s].state = "ABSENT"
                              /\ session' = [session EXCEPT ![s] = NewSession(audience, password)]
  BY DEF CreateSession
<1>3. /\ minted + 1 \in Tokens /\ minted' = minted + 1 /\ minted \in Nat
      /\ req' = [req EXCEPT ![w] = Idle] /\ req[w].at \in {"login", "external"}
      /\ late' = IF password = user.password THEN late ELSE late \cup {"password"}
      /\ UNCHANGED <<user, exchanges>>
  BY <1>0, SessionsAssumption DEF CreateSession, Finish, Tokens, SessionsAssumption
<1> HIDE DEF audience, password
<1> DEFINE new == NewSession(audience, password)
<1>4. /\ new \in SessionRows /\ new.state = "LIVE" /\ new.token = minted + 1
      /\ new.password = password
  <2>1. NoSession \in SessionRows
    BY SessionsAssumption DEF NoSession, SessionRows, Tokens, SessionAudience, SessionsAssumption
  <2> QED
    BY <1>1, <1>3, <2>1 DEF NewSession, SessionRows
<1> HIDE DEF new
<1>5. /\ session' \in [SessionIds -> SessionRows] /\ session'[s] = new
      /\ \A t \in SessionIds \ {s} : session'[t] = session[t]
  BY <1>0, <1>2, <1>4 DEF new
<1>6. req'[w] = Idle /\ \A v \in Workers \ {w} : req'[v] = req[v]
  BY <1>0, <1>3
<1>7. TypeOK'
  BY <1>0, <1>3, <1>5, IdleRequest DEF AccountsInv, TypeOK, SessionTypeOK, AllRequests
<1>8. TokensUnspent'
  <2>1. \A t \in SessionIds : session[t].token \in Nat
    BY <1>0 DEF SessionRows, Tokens
  <2>2. \A e \in exchanges : e.from \in Nat
    BY <1>0 DEF Exchanges, Tokens
  <2> QED
    BY <1>2, <1>3, <1>4, <1>5, <2>1, <2>2 DEF AccountsInv, TokensUnspent, Present
<1>9. OldSessionsAwaitRevocation'
  BY <1>3, <1>4, <1>5, <1>6 DEF AccountsInv, OldSessionsAwaitRevocation, WillRevoke
<1>10. OldCodesAwaitWithdrawal' /\ VerifiedBySentCode'
  BY <1>3, <1>6, IdleRequest
  DEF AccountsInv, OldCodesAwaitWithdrawal, CodesOfRequest, Readdressing, VerifiedBySentCode
<1> QED
  BY <1>7, <1>8, <1>9, <1>10 DEF AccountsInv

(* What revokes sessions changes neither their tokens nor which there are. *)
LEMMA Revocations ==
    ASSUME AccountsInv
    PROVE  /\ \A s \in SessionIds : Revoked(s) \in [SessionIds -> SessionRows]
           /\ \A keep \in SUBSET SessionIds :
                 RevokedUserSessions(keep) \in [SessionIds -> SessionRows]
           /\ \A s, t \in SessionIds :
                 /\ Revoked(s)[t].token = session[t].token
                 /\ Revoked(s)[t].password = session[t].password
                 /\ Revoked(s)[t].state \in {session[t].state, "REVOKED"}
                 /\ Revoked(s)[t].state = "REVOKED" => t = s \/ session[t].state = "REVOKED"
           /\ \A keep \in SUBSET SessionIds, t \in SessionIds :
                 /\ RevokedUserSessions(keep)[t].token = session[t].token
                 /\ RevokedUserSessions(keep)[t].password = session[t].password
                 /\ RevokedUserSessions(keep)[t].state = "ABSENT" <=> session[t].state = "ABSENT"
                 /\ RevokedUserSessions(keep)[t].state = "LIVE" =>
                       session[t].state = "LIVE" /\ t \in keep
<1>0. session \in [SessionIds -> SessionRows]
  BY DEF AccountsInv, TypeOK, SessionTypeOK
<1>1. ASSUME NEW row \in SessionRows
      PROVE  /\ [row EXCEPT !.state = "REVOKED"] \in SessionRows
             /\ [row EXCEPT !.state = "REVOKED"].state = "REVOKED"
             /\ [row EXCEPT !.state = "REVOKED"].token = row.token
             /\ [row EXCEPT !.state = "REVOKED"].password = row.password
  BY DEF SessionRows
<1>2. \A s \in SessionIds : Revoked(s) = [session EXCEPT ![s] = [session[s] EXCEPT !.state = "REVOKED"]]
  BY DEF Revoked
<1>3. ASSUME NEW s \in SessionIds
      PROVE  /\ Revoked(s) \in [SessionIds -> SessionRows]
             /\ \A t \in SessionIds :
                  /\ Revoked(s)[t].token = session[t].token
                  /\ Revoked(s)[t].password = session[t].password
                  /\ Revoked(s)[t].state \in {session[t].state, "REVOKED"}
                  /\ Revoked(s)[t].state = "REVOKED" => t = s \/ session[t].state = "REVOKED"
  <2> DEFINE row == [session[s] EXCEPT !.state = "REVOKED"]
  <2>1. /\ row \in SessionRows /\ row.state = "REVOKED"
        /\ row.token = session[s].token /\ row.password = session[s].password
    BY <1>0, <1>1
  <2>2. Revoked(s) = [session EXCEPT ![s] = row]
    BY <1>2
  <2> HIDE DEF row
  <2>3. /\ Revoked(s) \in [SessionIds -> SessionRows] /\ Revoked(s)[s] = row
        /\ \A t \in SessionIds \ {s} : Revoked(s)[t] = session[t]
    BY <1>0, <2>1, <2>2
  <2> QED
    BY <2>1, <2>3
<1>4. ASSUME NEW keep \in SUBSET SessionIds
      PROVE  /\ RevokedUserSessions(keep) \in [SessionIds -> SessionRows]
             /\ \A t \in SessionIds :
                  /\ RevokedUserSessions(keep)[t].token = session[t].token
                  /\ RevokedUserSessions(keep)[t].password = session[t].password
                  /\ RevokedUserSessions(keep)[t].state = "ABSENT" <=> session[t].state = "ABSENT"
                  /\ RevokedUserSessions(keep)[t].state = "LIVE" =>
                        session[t].state = "LIVE" /\ t \in keep
  BY <1>0, <1>1 DEF RevokedUserSessions, Revocable
<1> QED
  BY <1>3, <1>4

(* Signing out, and time passing.                                          *)
LEMMA SessionsEnd ==
    ASSUME AccountsInv, UNCHANGED <<code, proven>>,
           \/ \E w \in Workers : RevokeSession(w) \/ RevokeUserSessions(w)
           \/ \E s \in SessionIds : Expire(s) \/ RevokeExpired(s)
    PROVE  AccountsInv'
<1>0. /\ req \in [Workers -> AllRequests] /\ session \in [SessionIds -> SessionRows]
      /\ code \in [CodeIds -> CodeRows] /\ user \in Users
  BY DEF AccountsInv, TypeOK, SessionTypeOK, AllRequests
<1>1. CodesOfRequest(Idle)' /\ Idle \in AllRequests
  BY IdleRequest DEF Idle, CodesOfRequest
<1>2. ASSUME NEW w \in Workers, RevokeSession(w) PROVE AccountsInv'
  <2>1. req[w].session \in SessionIds
    BY <1>0, <1>2 DEF RevokeSession, AllRequests, SessionRequests, CodeRequests
  <2>2. session' \in {Revoked(req[w].session), session}
    BY <1>2 DEF RevokeSession
  <2>3. /\ session' \in [SessionIds -> SessionRows]
        /\ session[req[w].session].state = "ABSENT" => session' = session
        /\ \A t \in SessionIds : /\ session'[t].token = session[t].token
                                 /\ session'[t].password = session[t].password
                                 /\ session'[t].state \in {session[t].state, "REVOKED"}
                                 /\ session'[t].state = "REVOKED" => 
                                       t = req[w].session \/ session[t].state = "REVOKED"
    BY <1>0, <1>2, <2>1, <2>2, Revocations DEF RevokeSession, Revocable
  <2>4. ~Readdressing(w) /\ ~SkipsRevocation(w)
    BY <1>2 DEF RevokeSession, Readdressing, SkipsRevocation
  <2> QED
    BY <1>0, <1>1, <1>2, <2>1, <2>3, <2>4, QuietStep DEF RevokeSession, Finish
<1>3. ASSUME NEW w \in Workers, RevokeUserSessions(w) PROVE AccountsInv'
  <2>1. req[w].keep \in SUBSET SessionIds
    BY <1>0, <1>3 DEF RevokeUserSessions, AllRequests, SessionRequests, CodeRequests
  <2>2. /\ session' \in [SessionIds -> SessionRows]
        /\ \A t \in SessionIds : /\ session'[t].token = session[t].token
                                 /\ session'[t].password = session[t].password
                                 /\ session'[t].state = "ABSENT" <=> session[t].state = "ABSENT"
                                 /\ session'[t].state = "LIVE" => session[t].state = "LIVE"
    BY <1>3, <2>1, Revocations DEF RevokeUserSessions
  <2>3. ~Readdressing(w) /\ ~SkipsRevocation(w)
    BY <1>3 DEF RevokeUserSessions, Readdressing, SkipsRevocation
  <2> QED
    BY <1>0, <1>1, <1>3, <2>2, <2>3, QuietStep DEF RevokeUserSessions, Finish
<1>4. ASSUME NEW s \in SessionIds, Expire(s) \/ RevokeExpired(s) PROVE AccountsInv'
  <2>1. /\ session' \in [SessionIds -> SessionRows]
        /\ \A t \in SessionIds : /\ session'[t].token = session[t].token
                                 /\ session'[t].password = session[t].password
                                 /\ session'[t].state = "ABSENT" <=> session[t].state = "ABSENT"
                                 /\ session'[t].state = "LIVE" => session[t].state = "LIVE"
    <3>1. CASE Expire(s)
      <4>1. [session[s] EXCEPT !.expired = TRUE] \in SessionRows
        BY <1>0 DEF SessionRows
      <4>2. session' = [session EXCEPT ![s] = [session[s] EXCEPT !.expired = TRUE]]
        BY <3>1 DEF Expire
      <4>3. /\ [session[s] EXCEPT !.expired = TRUE].token = session[s].token
            /\ [session[s] EXCEPT !.expired = TRUE].password = session[s].password
            /\ [session[s] EXCEPT !.expired = TRUE].state = session[s].state
        BY <1>0 DEF SessionRows
      <4> QED
        BY <1>0, <4>1, <4>2, <4>3
    <3>2. CASE RevokeExpired(s)
      BY <1>0, <3>2, Revocations DEF RevokeExpired
    <3> QED
      BY <1>4, <3>1, <3>2
  <2>2. UNCHANGED <<user, minted, exchanges, late, req>>
    BY <1>4 DEF Expire, RevokeExpired
  <2>3. TypeOK'
    BY <2>1, <2>2 DEF AccountsInv, TypeOK, SessionTypeOK
  <2>4. TokensUnspent' /\ OldSessionsAwaitRevocation'
    BY <2>1, <2>2 DEF AccountsInv, TokensUnspent, Present, OldSessionsAwaitRevocation, WillRevoke
  <2>5. OldCodesAwaitWithdrawal' /\ VerifiedBySentCode'
    BY <2>2 DEF AccountsInv, OldCodesAwaitWithdrawal, CodesOfRequest, Readdressing,
                VerifiedBySentCode
  <2> QED
    BY <2>3, <2>4, <2>5 DEF AccountsInv
<1> QED
  BY <1>2, <1>3, <1>4

-----------------------------------------------------------------------------
(* Using up a code, or its time running out.                               *)
LEMMA CodesEnd ==
    ASSUME AccountsInv,
           \/ \E w \in Workers : UseResetCode(w) \/ UseVerificationCode(w)
           \/ \E c \in CodeIds : ExpireCode(c)
    PROVE  AccountsInv'
<1>0. /\ req \in [Workers -> AllRequests] /\ session \in [SessionIds -> SessionRows]
      /\ code \in [CodeIds -> CodeRows] /\ user \in Users
  BY DEF AccountsInv, TypeOK, SessionTypeOK, AllRequests
<1>1. CodesOfRequest(Idle)' /\ Idle \in AllRequests
  BY IdleRequest DEF Idle, CodesOfRequest
<1>2. ASSUME NEW c \in CodeIds, NEW state \in {"USED", "EXPIRED"},
             code' = [code EXCEPT ![c].state = state],
             state = "EXPIRED" => code[c].state = "VALID"
      PROVE  /\ code' \in [CodeIds -> CodeRows]
             /\ \A d \in CodeIds :
                  /\ code[d].state # "ABSENT" => code'[d].state # "ABSENT"
                  /\ code'[d].state \in {"VALID", "EXPIRED"} => code[d].state \in {"VALID", "EXPIRED"}
                  /\ code'[d].type = code[d].type /\ code'[d].sentTo = code[d].sentTo
  <2>1. code' = [code EXCEPT ![c] = [code[c] EXCEPT !.state = state]]
    BY <1>2
  <2>2. /\ [code[c] EXCEPT !.state = state] \in CodeRows
        /\ [code[c] EXCEPT !.state = state].state = state
        /\ [code[c] EXCEPT !.state = state].type = code[c].type
        /\ [code[c] EXCEPT !.state = state].sentTo = code[c].sentTo
    BY <1>0 DEF CodeRows
  <2> QED
    BY <1>0, <1>2, <2>1, <2>2
<1>3. ASSUME NEW w \in Workers, UseResetCode(w) PROVE AccountsInv'
  <2>0. /\ req[w].code \in CodeIds
        /\ [req[w] EXCEPT !.at = "resetUsed"] \in AllRequests
        /\ [req[w] EXCEPT !.at = "resetUsed"].at = "resetUsed"
    BY <1>0, <1>3 DEF UseResetCode, AllRequests, SessionRequests, CodeRequests
  <2>1. PICK r \in AllRequests : r = [req[w] EXCEPT !.at = "resetUsed"] /\ r.at = "resetUsed"
    BY <2>0
  <2>2. CodesOfRequest(r)' /\ req' = [req EXCEPT ![w] = r] /\ req[w].at = "resetWritten"
    BY <1>3, <2>1 DEF UseResetCode, CodesOfRequest, Move
  <2>3. ~Readdressing(w)
    BY <2>2 DEF Readdressing
  <2>4. /\ code' \in [CodeIds -> CodeRows]
        /\ \A d \in CodeIds :
             /\ code[d].state # "ABSENT" => code'[d].state # "ABSENT"
             /\ code'[d].state \in {"VALID", "EXPIRED"} => code[d].state \in {"VALID", "EXPIRED"}
             /\ code'[d].type = code[d].type /\ code'[d].sentTo = code[d].sentTo
    BY <1>2, <1>3, <2>0 DEF UseResetCode, UsedUp
  <2>5. UNCHANGED <<user, session, minted, exchanges, late, proven>>
    BY <1>3 DEF UseResetCode
  <2>6. SkipsRevocation(w) => req[w].at = "resetWritten" /\ r.at = "resetUsed"
    BY <2>1, <2>2
  <2>7. /\ user' \in Users /\ user'.password = user.password /\ user'.email = user.email
        /\ user'.verified = user.verified
        /\ session' \in [SessionIds -> SessionRows]
        /\ \A s \in SessionIds :
              /\ session'[s].token = session[s].token
              /\ session'[s].state = "ABSENT" <=> session[s].state = "ABSENT"
              /\ session'[s].state = "LIVE" =>
                    session[s].state = "LIVE" /\ session'[s].password = session[s].password
        /\ UNCHANGED <<minted, exchanges, late, proven>>
    BY <1>0, <2>5
  <2> QED
    BY <2>3, <2>4, <2>6, <2>7, <2>2, QuietStep
<1>4. ASSUME NEW w \in Workers, UseVerificationCode(w) PROVE AccountsInv'
  <2>1. req[w].code \in CodeIds
    BY <1>0, <1>4 DEF UseVerificationCode, AllRequests, SessionRequests, CodeRequests
  <2>2. ~Readdressing(w) /\ ~SkipsRevocation(w)
    BY <1>4 DEF UseVerificationCode, Readdressing, SkipsRevocation
  <2> QED
    BY <1>0, <1>1, <1>2, <1>4, <2>1, <2>2, QuietStep DEF UseVerificationCode, UsedUp, Finish
<1>5. ASSUME NEW c \in CodeIds, ExpireCode(c) PROVE AccountsInv'
  <2>1. /\ code' \in [CodeIds -> CodeRows]
        /\ \A d \in CodeIds :
             /\ code[d].state # "ABSENT" => code'[d].state # "ABSENT"
             /\ code'[d].state \in {"VALID", "EXPIRED"} => code[d].state \in {"VALID", "EXPIRED"}
             /\ code'[d].type = code[d].type /\ code'[d].sentTo = code[d].sentTo
    BY <1>2, <1>5 DEF ExpireCode
  <2>2. UNCHANGED <<user, session, minted, exchanges, late, proven, req>>
    BY <1>5 DEF ExpireCode
  <2>3. TypeOK'
    BY <2>1, <2>2 DEF AccountsInv, TypeOK, SessionTypeOK
  <2>4. TokensUnspent' /\ OldSessionsAwaitRevocation' /\ VerifiedBySentCode'
    BY <2>2 DEF AccountsInv, TokensUnspent, Present, OldSessionsAwaitRevocation, WillRevoke,
                VerifiedBySentCode
  <2>5. \A v \in Workers : req[v].at \in {"verifying", "verified"} => req[v].code \in CodeIds
    BY <1>0 DEF AllRequests, SessionRequests, CodeRequests
  <2>6. OldCodesAwaitWithdrawal'
    BY <2>1, <2>2, <2>5 DEF AccountsInv, OldCodesAwaitWithdrawal, CodesOfRequest, Readdressing
  <2> QED
    BY <2>3, <2>4, <2>6 DEF AccountsInv
<1> QED
  BY <1>3, <1>4, <1>5

(* Withdrawing the codes of a type, and issuing one.                       *)
LEMMA WithdrawStep ==
    ASSUME AccountsInv, NEW w \in Workers, WithdrawCodes(w)
    PROVE  AccountsInv'
<1> DEFINE type == req[w].type
<1>0. /\ req \in [Workers -> AllRequests] /\ code \in [CodeIds -> CodeRows]
  BY DEF AccountsInv, TypeOK, AllRequests
<1>1. /\ req[w].at = "withdrawing" /\ code' = Withdrawn(type)
      /\ req' = [req EXCEPT ![w] = [req[w] EXCEPT !.at = "issuing"]]
      /\ UNCHANGED <<user, session, minted, exchanges, late, proven>>
  BY DEF WithdrawCodes, Move
<1>2. PICK r \in AllRequests : r = [req[w] EXCEPT !.at = "issuing"] /\ r.at = "issuing"
  BY <1>0, <1>1 DEF AllRequests, SessionRequests, CodeRequests
<1>3. /\ code' \in [CodeIds -> CodeRows]
      /\ \A c \in CodeIds :
           /\ code'[c].type = code[c].type /\ code'[c].sentTo = code[c].sentTo
           /\ code'[c].state = "ABSENT" <=> code[c].state = "ABSENT"
           /\ code'[c].state \in {"VALID", "EXPIRED"} =>
                 code[c].state \in {"VALID", "EXPIRED"} /\ code[c].type # type
  <2>1. \A c \in CodeIds : /\ [code[c] EXCEPT !.state = "USED"] \in CodeRows
                           /\ [code[c] EXCEPT !.state = "USED"].state = "USED"
                           /\ [code[c] EXCEPT !.state = "USED"].type = code[c].type
                           /\ [code[c] EXCEPT !.state = "USED"].sentTo = code[c].sentTo
    BY <1>0 DEF CodeRows
  <2> QED
    BY <1>0, <1>1, <2>1 DEF Withdrawn
<1>4. req' = [req EXCEPT ![w] = r] /\ req'[w] = r /\ \A v \in Workers \ {w} : req'[v] = req[v]
  BY <1>0, <1>1, <1>2
<1>5. \A v \in Workers : req[v].at \in {"verifying", "verified"} => req[v].code \in CodeIds
  BY <1>0 DEF AllRequests, SessionRequests, CodeRequests
<1>6. Readdressing(w) => type = "EMAIL_VERIFICATION"
  BY <1>1 DEF AccountsInv, OldCodesAwaitWithdrawal, CodesOfRequest, Readdressing
<1> HIDE DEF type
<1>7. TypeOK'
  BY <1>0, <1>1, <1>3, <1>4 DEF AccountsInv, TypeOK, SessionTypeOK, AllRequests
<1>8. TokensUnspent' /\ VerifiedBySentCode'
  BY <1>1 DEF AccountsInv, TokensUnspent, Present, VerifiedBySentCode
<1>9. OldSessionsAwaitRevocation'
  BY <1>1, <1>4 DEF AccountsInv, OldSessionsAwaitRevocation, WillRevoke
<1>10. OldCodesAwaitWithdrawal'
  <2>1. (\A v \in Workers : CodesOfRequest(req[v]))'
    BY <1>2, <1>3, <1>4, <1>5 DEF AccountsInv, OldCodesAwaitWithdrawal, CodesOfRequest
  <2>2. ASSUME NEW c \in CodeIds, code'[c].state \in {"VALID", "EXPIRED"},
               code'[c].type = "EMAIL_VERIFICATION", code'[c].sentTo # user'.email
        PROVE  "email" \in late' \/ \E v \in Workers : Readdressing(v)'
    <3>1. "email" \in late \/ \E v \in Workers : Readdressing(v)
      BY <1>1, <1>3, <2>2 DEF AccountsInv, OldCodesAwaitWithdrawal
    <3>2. ~Readdressing(w)
      BY <1>3, <1>6, <2>2
    <3> QED
      BY <1>1, <1>4, <3>1, <3>2 DEF Readdressing
  <2> QED
    BY <2>1, <2>2 DEF OldCodesAwaitWithdrawal
<1> QED
  BY <1>7, <1>8, <1>9, <1>10 DEF AccountsInv

LEMMA IssueStep ==
    ASSUME AccountsInv, NEW w \in Workers, IssueCode(w)
    PROVE  AccountsInv'
<1>0. /\ req \in [Workers -> AllRequests] /\ code \in [CodeIds -> CodeRows]
  BY DEF AccountsInv, TypeOK, AllRequests
<1> DEFINE new == [state |-> "VALID", type |-> req[w].type, sentTo |-> req[w].sentTo]
<1>1. PICK c \in CodeIds : code[c].state = "ABSENT" /\ code' = [code EXCEPT ![c] = new]
  BY DEF IssueCode
<1>2. /\ req[w].at = "issuing" /\ req' = [req EXCEPT ![w] = Idle]
      /\ late' = IF req[w].sentTo = user.email THEN late ELSE late \cup {"email"}
      /\ UNCHANGED <<user, session, minted, exchanges, proven>>
  BY DEF IssueCode, Finish
<1>3. new \in CodeRows
  BY <1>0, <1>2 DEF AllRequests, SessionRequests, CodeRequests, CodeRows
<1>4. code'[c] = new /\ \A d \in CodeIds \ {c} : code'[d] = code[d]
  BY <1>0, <1>1
<1>5. req'[w] = Idle /\ \A v \in Workers \ {w} : req'[v] = req[v]
  BY <1>0, <1>2
<1>6. \A v \in Workers : req[v].at \in {"verifying", "verified"} => req[v].code \in CodeIds
  BY <1>0 DEF AllRequests, SessionRequests, CodeRequests
<1>7. TypeOK'
  BY <1>0, <1>1, <1>2, <1>3, IdleRequest DEF AccountsInv, TypeOK, SessionTypeOK, AllRequests
<1>8. TokensUnspent' /\ VerifiedBySentCode'
  BY <1>2 DEF AccountsInv, TokensUnspent, Present, VerifiedBySentCode
<1>9. OldSessionsAwaitRevocation'
  BY <1>2, <1>5 DEF AccountsInv, OldSessionsAwaitRevocation, WillRevoke
<1>10. OldCodesAwaitWithdrawal'
  <2>1. (\A v \in Workers : CodesOfRequest(req[v]))'
    <3>1. CodesOfRequest(req[w])'
      BY <1>5 DEF CodesOfRequest, Idle
    <3>2. ASSUME NEW v \in Workers \ {w} PROVE CodesOfRequest(req[v])'
      BY <1>1, <1>4, <1>5, <1>6 DEF AccountsInv, OldCodesAwaitWithdrawal, CodesOfRequest
    <3> QED
      BY <3>1, <3>2
  <2>2. ASSUME NEW d \in CodeIds, code'[d].state \in {"VALID", "EXPIRED"},
               code'[d].type = "EMAIL_VERIFICATION", code'[d].sentTo # user'.email
        PROVE  "email" \in late' \/ \E v \in Workers : Readdressing(v)'
    <3>1. CASE d = c
      BY <1>2, <1>4, <2>2, <3>1
    <3>2. CASE d # c
      <4>1. "email" \in late \/ \E v \in Workers : Readdressing(v)
        BY <1>2, <1>4, <2>2, <3>2 DEF AccountsInv, OldCodesAwaitWithdrawal
      <4> QED
        BY <1>2, <1>5, <4>1 DEF Readdressing
    <3> QED
      BY <3>1, <3>2
  <2> QED
    BY <2>1, <2>2 DEF OldCodesAwaitWithdrawal
<1> QED
  BY <1>7, <1>8, <1>9, <1>10 DEF AccountsInv

-----------------------------------------------------------------------------
(* What a step does about codes and tokens when it touches none of them.   *)
LEMMA CodesKept ==
    ASSUME AccountsInv, NEW w \in Workers, NEW r, CodesOfRequest(r),
           req' = [req EXCEPT ![w] = r], ~Readdressing(w),
           user'.email = user.email, UNCHANGED <<code, late>>
    PROVE  OldCodesAwaitWithdrawal'
<1>0. req \in [Workers -> AllRequests]
  BY DEF AccountsInv, TypeOK, AllRequests
<1>1. req'[w] = r /\ \A v \in Workers \ {w} : req'[v] = req[v]
  BY <1>0
<1>2. (\A v \in Workers : CodesOfRequest(req[v]))'
  BY <1>1 DEF AccountsInv, OldCodesAwaitWithdrawal, CodesOfRequest
<1> QED
  BY <1>1, <1>2 DEF AccountsInv, OldCodesAwaitWithdrawal, Readdressing

(* The password is set: the request is going to revoke older sessions.     *)
LEMMA WriteResetStep ==
    ASSUME AccountsInv, NEW w \in Workers, WriteReset(w)
    PROVE  AccountsInv'
<1>0. /\ req \in [Workers -> AllRequests] /\ user \in Users
  BY DEF AccountsInv, TypeOK, SessionTypeOK, AllRequests
<1>1. PICK r \in AllRequests : r = [req[w] EXCEPT !.at = "resetWritten"] /\ r.at = "resetWritten"
  <2> DEFINE q == [req[w] EXCEPT !.at = "resetWritten"]
  <2>1. req[w] \in [at : {"resetting", "resetWritten", "resetUsed"}, code : CodeIds]
    BY <1>0 DEF WriteReset, AllRequests, SessionRequests, CodeRequests
  <2>2. q \in AllRequests /\ q.at = "resetWritten"
    BY <2>1 DEF AllRequests, CodeRequests
  <2> HIDE DEF q
  <2> QED
    BY <2>2 DEF q
<1>2. /\ req[w].at = "resetting" /\ req' = [req EXCEPT ![w] = r]
      /\ UNCHANGED <<session, minted, exchanges, late, code, proven>>
  BY <1>1 DEF WriteReset, Move
<1>3. /\ user' \in Users /\ user'.email = user.email /\ user'.verified = user.verified
  BY <1>0, SessionsAssumption DEF WriteReset, SetPassword, Users, SessionsAssumption
<1>4. TypeOK'
  BY <1>0, <1>2, <1>3 DEF AccountsInv, TypeOK, SessionTypeOK, AllRequests
<1>5. TokensUnspent' /\ VerifiedBySentCode'
  BY <1>2, <1>3 DEF AccountsInv, TokensUnspent, Present, VerifiedBySentCode
<1>6. OldSessionsAwaitRevocation'
  BY <1>0, <1>1, <1>2 DEF OldSessionsAwaitRevocation, WillRevoke
<1>7. OldCodesAwaitWithdrawal'
  BY <1>1, <1>2, <1>3, CodesKept DEF CodesOfRequest, Readdressing
<1> QED
  BY <1>4, <1>5, <1>6, <1>7 DEF AccountsInv

LEMMA WriteChangeStep ==
    ASSUME AccountsInv, NEW w \in Workers, WriteChange(w)
    PROVE  AccountsInv'
<1> DEFINE s == req[w].session
           row == SetPassword(session[s])
<1>0. /\ req \in [Workers -> AllRequests] /\ user \in Users
      /\ session \in [SessionIds -> SessionRows]
  BY DEF AccountsInv, TypeOK, SessionTypeOK, AllRequests
<1>1. s \in SessionIds
  BY <1>0 DEF WriteChange, AllRequests, SessionRequests, CodeRequests
<1>2. PICK r \in AllRequests :
        r = [req[w] EXCEPT !.at = "changed"] /\ r.at = "changed" /\ r.session = s
  <2> DEFINE q == [req[w] EXCEPT !.at = "changed"]
  <2>1. req[w] \in [at : {"changing", "changed"}, session : SessionIds]
    BY <1>0 DEF WriteChange, AllRequests, SessionRequests, CodeRequests
  <2>2. q \in AllRequests /\ q.at = "changed" /\ q.session = s
    BY <2>1 DEF AllRequests, CodeRequests
  <2> HIDE DEF q, s
  <2> QED
    BY <2>2 DEF q
<1>3. /\ req[w].at = "changing" /\ req' = [req EXCEPT ![w] = r]
      /\ session' = [session EXCEPT ![s] = row]
      /\ UNCHANGED <<minted, exchanges, late, code, proven>>
  BY <1>2 DEF WriteChange, Move
<1>4. /\ user' \in Users /\ user'.email = user.email /\ user'.verified = user.verified
      /\ user'.password = user.password + 1 /\ user.password + 1 \in 0..MaxPasswords
  BY <1>0, SessionsAssumption DEF WriteChange, SetPassword, Users, SessionsAssumption
<1>5. /\ row \in SessionRows /\ row.password = user'.password
      /\ row.token = session[s].token /\ row.state = session[s].state
  BY <1>0, <1>1, <1>4 DEF SetPassword, SessionRows
<1> HIDE DEF s, row
<1>6. /\ session' \in [SessionIds -> SessionRows] /\ session'[s] = row
      /\ \A t \in SessionIds \ {s} : session'[t] = session[t]
  BY <1>0, <1>1, <1>3, <1>5
<1>7. TypeOK'
  BY <1>0, <1>3, <1>4, <1>6 DEF AccountsInv, TypeOK, SessionTypeOK, AllRequests
<1>8. TokensUnspent'
  BY <1>3, <1>5, <1>6 DEF AccountsInv, TokensUnspent, Present
<1>9. OldSessionsAwaitRevocation'
  BY <1>0, <1>2, <1>3, <1>5, <1>6 DEF OldSessionsAwaitRevocation, WillRevoke
<1>10. OldCodesAwaitWithdrawal' /\ VerifiedBySentCode'
  <2>1. CodesOfRequest(r) /\ ~Readdressing(w)
    BY <1>2, <1>3 DEF CodesOfRequest, Readdressing
  <2> QED
    BY <1>3, <1>4, <2>1, CodesKept DEF AccountsInv, VerifiedBySentCode
<1> QED
  BY <1>7, <1>8, <1>9, <1>10 DEF AccountsInv

(* It has revoked them: of the sessions that are live, only the one the    *)
(* change was made from is left, and what has set another password since   *)
(* has yet to revoke that one.                                             *)
LEMMA RevokeAfterStep ==
    ASSUME AccountsInv, NEW w \in Workers, RevokeAfterReset(w) \/ RevokeAfterChange(w)
    PROVE  AccountsInv'
<1> DEFINE keep == IF req[w].at = "changed" THEN {req[w].session} ELSE {}
<1>0. /\ req \in [Workers -> AllRequests]
  BY DEF AccountsInv, TypeOK, AllRequests
<1>1. /\ req[w].at \in {"resetUsed", "changed"} /\ req' = [req EXCEPT ![w] = Idle]
      /\ session' = RevokedUserSessions(keep)
      /\ UNCHANGED <<user, minted, exchanges, late, code, proven>>
  BY DEF RevokeAfterReset, RevokeAfterChange, Finish
<1>2. keep \in SUBSET SessionIds
  BY <1>0 DEF AllRequests, SessionRequests, CodeRequests
<1>3. \A t \in SessionIds : t \in keep => ~WillRevoke(w, t)
  BY <1>1 DEF WillRevoke
<1> HIDE DEF keep
<1>4. /\ session' \in [SessionIds -> SessionRows]
      /\ \A t \in SessionIds :
            /\ session'[t].token = session[t].token
            /\ session'[t].password = session[t].password
            /\ session'[t].state = "ABSENT" <=> session[t].state = "ABSENT"
            /\ session'[t].state = "LIVE" => session[t].state = "LIVE" /\ t \in keep
  BY <1>1, <1>2, Revocations
<1>5. req'[w] = Idle /\ \A v \in Workers \ {w} : req'[v] = req[v]
  BY <1>0, <1>1
<1>6. TypeOK'
  BY <1>0, <1>1, <1>4, IdleRequest DEF AccountsInv, TypeOK, SessionTypeOK, AllRequests
<1>7. TokensUnspent'
  BY <1>1, <1>4 DEF AccountsInv, TokensUnspent, Present
<1>8. OldSessionsAwaitRevocation'
  BY <1>1, <1>3, <1>4, <1>5 DEF AccountsInv, OldSessionsAwaitRevocation, WillRevoke
<1>9. OldCodesAwaitWithdrawal' /\ VerifiedBySentCode'
  <2>1. ~Readdressing(w)
    BY <1>1 DEF Readdressing
  <2> QED
    BY <1>1, <2>1, IdleRequest, CodesKept DEF AccountsInv, VerifiedBySentCode
<1> QED
  BY <1>6, <1>7, <1>8, <1>9 DEF AccountsInv

-----------------------------------------------------------------------------
(* The address is changed, and is not verified.                            *)
LEMMA WriteEmailStep ==
    ASSUME AccountsInv, NEW w \in Workers, WriteEmail(w)
    PROVE  AccountsInv'
<1>0. /\ req \in [Workers -> AllRequests] /\ user \in Users
  BY DEF AccountsInv, TypeOK, SessionTypeOK, AllRequests
<1>1. PICK r \in AllRequests : r = IssueRequest("EMAIL_VERIFICATION", req[w].email, TRUE)
  BY <1>0 DEF WriteEmail, IssueRequest, AllRequests, SessionRequests, CodeRequests, AuthTokenType
<1>2. /\ req[w].at = "rewriting" /\ req[w].email \in Emails /\ req' = [req EXCEPT ![w] = r]
      /\ UNCHANGED <<session, minted, exchanges, late, code, proven>>
  BY <1>0, <1>1 DEF WriteEmail, AllRequests, SessionRequests, CodeRequests
<1>3. /\ user' \in Users /\ user'.password = user.password /\ ~user'.verified
  BY <1>0, <1>2 DEF WriteEmail, Readdressed, Users
<1>4. /\ req'[w] = r /\ Readdressing(w)' /\ CodesOfRequest(r)
      /\ \A v \in Workers \ {w} : req'[v] = req[v]
  BY <1>0, <1>1, <1>2 DEF Readdressing, CodesOfRequest, IssueRequest
<1>5. TypeOK'
  BY <1>0, <1>2, <1>3 DEF AccountsInv, TypeOK, SessionTypeOK, AllRequests
<1>6. TokensUnspent' /\ VerifiedBySentCode'
  BY <1>2, <1>3 DEF AccountsInv, TokensUnspent, Present, VerifiedBySentCode
<1>7. OldSessionsAwaitRevocation'
  BY <1>2, <1>3, <1>4 DEF AccountsInv, OldSessionsAwaitRevocation, WillRevoke
<1>8. OldCodesAwaitWithdrawal'
  <2>1. (\A v \in Workers : CodesOfRequest(req[v]))'
    BY <1>2, <1>4 DEF AccountsInv, OldCodesAwaitWithdrawal, CodesOfRequest
  <2> QED
    BY <1>4, <2>1 DEF OldCodesAwaitWithdrawal
<1> QED
  BY <1>5, <1>6, <1>7, <1>8 DEF AccountsInv

(* A code that is not used up was sent to the address, unless the change   *)
(* of address is still on its way.                                         *)
LEMMA MarkVerifiedStep ==
    ASSUME AccountsInv, NEW w \in Workers, MarkVerified(w)
    PROVE  AccountsInv'
<1> DEFINE c == req[w].code
<1>0. /\ req \in [Workers -> AllRequests] /\ user \in Users /\ code \in [CodeIds -> CodeRows]
      /\ late \subseteq {"password", "email"}
  BY DEF AccountsInv, TypeOK, SessionTypeOK, AllRequests
<1>1. req[w].at = "verifying" /\ c \in CodeIds
  BY <1>0 DEF MarkVerified, AllRequests, SessionRequests, CodeRequests
<1>2. PICK r \in AllRequests :
        r = [req[w] EXCEPT !.at = "verified"] /\ r.at = "verified" /\ r.code = c
  <2> DEFINE q == [req[w] EXCEPT !.at = "verified"]
  <2>1. req[w] \in [at : {"verifying", "verified"}, code : CodeIds]
    BY <1>0, <1>1 DEF AllRequests, SessionRequests, CodeRequests
  <2>2. q \in AllRequests /\ q.at = "verified" /\ q.code = c
    BY <2>1 DEF AllRequests, CodeRequests
  <2> HIDE DEF q, c
  <2> QED
    BY <2>2 DEF q
<1>3. /\ req' = [req EXCEPT ![w] = r] /\ user' = [user EXCEPT !.verified = TRUE]
      /\ proven' = code[c].sentTo
      /\ late' = IF code[c].state = "USED" \/ \E v \in Workers : Readdressing(v)
                 THEN late \cup {"email"} ELSE late
      /\ UNCHANGED <<session, minted, exchanges, code>>
  BY <1>2 DEF MarkVerified, Move
<1>4. code[c].state # "ABSENT" /\ code[c].type = "EMAIL_VERIFICATION"
  BY <1>1 DEF AccountsInv, OldCodesAwaitWithdrawal, CodesOfRequest
<1> HIDE DEF c
<1>5. /\ user' \in Users /\ user'.password = user.password /\ user'.email = user.email
  BY <1>0, <1>3 DEF Users
<1>6. req'[w] = r /\ \A v \in Workers \ {w} : req'[v] = req[v]
  BY <1>0, <1>3
<1>7. TypeOK'
  <2>1. proven' \in Emails /\ late' \subseteq {"password", "email"}
    BY <1>0, <1>1, <1>3 DEF CodeRows
  <2> QED
    BY <1>0, <1>3, <1>5, <2>1 DEF AccountsInv, TypeOK, SessionTypeOK, AllRequests
<1>8. TokensUnspent'
  BY <1>3 DEF AccountsInv, TokensUnspent, Present
<1>9. OldSessionsAwaitRevocation'
  BY <1>1, <1>3, <1>5, <1>6 DEF AccountsInv, OldSessionsAwaitRevocation, WillRevoke
<1>10. OldCodesAwaitWithdrawal'
  <2>1. CodesOfRequest(r)' /\ ~Readdressing(w)
    BY <1>1, <1>2, <1>3, <1>4 DEF CodesOfRequest, Readdressing
  <2>2. (\A v \in Workers : CodesOfRequest(req[v]))'
    BY <1>3, <1>6, <2>1 DEF AccountsInv, OldCodesAwaitWithdrawal, CodesOfRequest
  <2> QED
    BY <1>3, <1>5, <1>6, <2>1, <2>2 DEF AccountsInv, OldCodesAwaitWithdrawal, Readdressing
<1>11. VerifiedBySentCode'
  <2>1. CASE code[c].state = "USED" \/ \E v \in Workers : Readdressing(v)
    BY <1>3, <2>1 DEF VerifiedBySentCode
  <2>2. CASE ~(code[c].state = "USED" \/ \E v \in Workers : Readdressing(v))
    <3>1. code[c].state \in {"VALID", "EXPIRED"}
      BY <1>0, <1>1, <1>4, <2>2 DEF CodeRows
    <3>2. code[c].sentTo = user.email \/ "email" \in late
      BY <1>1, <1>4, <2>2, <3>1 DEF AccountsInv, OldCodesAwaitWithdrawal
    <3> QED
      BY <1>3, <1>5, <3>2 DEF VerifiedBySentCode
  <2> QED
    BY <2>1, <2>2
<1> QED
  BY <1>7, <1>8, <1>9, <1>10, <1>11 DEF AccountsInv

(* A request that is cut short, whatever it leaves undone.                 *)
LEMMA FailStep ==
    ASSUME AccountsInv, NEW w \in Workers, Fail(w)
    PROVE  AccountsInv'
<1>0. /\ req \in [Workers -> AllRequests] /\ late \subseteq {"password", "email"}
  BY DEF AccountsInv, TypeOK, SessionTypeOK, AllRequests
<1>1. /\ req' = [req EXCEPT ![w] = Idle] /\ late \subseteq late'
      /\ late' \subseteq {"password", "email"}
      /\ SkipsRevocation(w) => "password" \in late'
      /\ Readdressing(w) => "email" \in late'
      /\ UNCHANGED <<user, session, minted, exchanges, code, proven>>
  BY <1>0 DEF Fail, Finish
<1>2. req'[w] = Idle /\ \A v \in Workers \ {w} : req'[v] = req[v]
  BY <1>0, <1>1
<1>3. TypeOK'
  BY <1>0, <1>1, IdleRequest DEF AccountsInv, TypeOK, SessionTypeOK, AllRequests
<1>4. TokensUnspent' /\ VerifiedBySentCode'
  BY <1>1 DEF AccountsInv, TokensUnspent, Present, VerifiedBySentCode
<1>5. OldSessionsAwaitRevocation'
  BY <1>1, <1>2 DEF AccountsInv, OldSessionsAwaitRevocation, WillRevoke, SkipsRevocation
<1>6. OldCodesAwaitWithdrawal'
  <2>1. (\A v \in Workers : CodesOfRequest(req[v]))'
    BY <1>1, <1>2, IdleRequest DEF AccountsInv, OldCodesAwaitWithdrawal, CodesOfRequest
  <2> QED
    BY <1>1, <1>2, <2>1 DEF AccountsInv, OldCodesAwaitWithdrawal, Readdressing
<1> QED
  BY <1>3, <1>4, <1>5, <1>6 DEF AccountsInv

-----------------------------------------------------------------------------
LEMMA AccountsInductive == AccountsInv /\ [Next]_vars => AccountsInv'
<1> SUFFICES ASSUME AccountsInv, [Next]_vars PROVE AccountsInv'
  OBVIOUS
<1>1. CASE SessionNext /\ UNCHANGED <<code, proven>>
  BY <1>1, SessionsBegin, CreateSessionStep, RotateStep, SessionsEnd DEF SessionNext
<1>2. CASE AccountStep
  BY <1>2, AccountsBegin, WithdrawStep, IssueStep, WriteResetStep, WriteChangeStep,
     RevokeAfterStep, WriteEmailStep, MarkVerifiedStep, CodesEnd, FailStep DEF AccountStep
<1>3. CASE UNCHANGED vars
  BY <1>3 DEF vars, AccountsInv, TypeOK, SessionTypeOK, TokensUnspent, Present,
     OldSessionsAwaitRevocation, WillRevoke, OldCodesAwaitWithdrawal, CodesOfRequest,
     Readdressing, VerifiedBySentCode
<1> QED
  BY <1>1, <1>2, <1>3 DEF Next

LEMMA AccountsInvariant == Spec => []AccountsInv
BY AccountsInitially, AccountsInductive, PTL DEF Spec

(* Every variable keeps its type: the rows of User, Session and AuthToken. *)
THEOREM AccountsTyped == Spec => []TypeOK
<1>1. AccountsInv => TypeOK
  BY DEF AccountsInv
<1> QED
  BY <1>1, AccountsInvariant, PTL

(* A refresh token is exchanged at most once, and never after its session  *)
(* was revoked, whatever refreshes, logins and revocations overlap.        *)
THEOREM TokensAreExchangedOnce == Spec => ExchangedOnceWhileLive
<1> DEFINE Once == \A new \in exchanges' \ exchanges :
                      /\ Alive(new.session)
                      /\ \A old \in exchanges : old.from # new.from
<1>1. AccountsInv /\ [Next]_vars => [Once]_<<session, exchanges>>
  <2> SUFFICES ASSUME AccountsInv, Next, exchanges' # exchanges PROVE Once
    BY DEF vars
  <2>1. PICK w \in Workers : Rotate(w)
    BY DEF Next, SessionNext, CheckLogin, CheckPlatformLogin, CheckExternal, CreateSession,
           RevokeSession, RevokeUserSessions, CheckRefresh, DetectReuse, CheckLogout,
           CheckRevokeOther, CheckLogoutAll, Expire, RevokeExpired, AccountStep,
           RequestPasswordReset, ResendVerification, WithdrawCodes, IssueCode, CheckReset,
           CheckVerify, WriteReset, UseResetCode, RevokeAfterReset, CheckChange,
           CheckChangeEmail, WriteChange, RevokeAfterChange, WriteEmail, MarkVerified,
           UseVerificationCode, Fail, ExpireCode
  <2> DEFINE s == req[w].session
             expected == req[w].token
  <2>2. /\ RotationApplies(session[s], expected)
        /\ exchanges' = exchanges \cup
              {[session |-> s, from |-> expected, to |-> minted + 1]}
    BY <2>1 DEF Rotate
  <2>3. s \in SessionIds
    BY <2>1 DEF AccountsInv, TypeOK, Rotate, SessionRequests, CodeRequests
  <2>4. Alive(s) /\ Present(s) /\ session[s].token = expected
    BY <2>2 DEF RotationApplies, Alive, Present
  <2>5. \A old \in exchanges : old.from # expected
    BY <2>3, <2>4 DEF AccountsInv, TokensUnspent
  <2> QED
    BY <2>2, <2>4, <2>5
<1> QED
  BY <1>1, AccountsInvariant, PTL DEF Spec, ExchangedOnceWhileLive

(* A session outlives the password it was opened with only while a reset   *)
(* or change has yet to revoke it, or when a login came late or a failure  *)
(* cut one short.                                                          *)
THEOREM OldSessionsAreEnded == Spec => []OldSessionsEnd
<1>1. AccountsInv => OldSessionsEnd
  BY DEF AccountsInv, OldSessionsAwaitRevocation, WillRevoke, OldSessionsEnd, SkipsRevocation
<1> QED
  BY <1>1, AccountsInvariant, PTL

(* A verified address was verified by a code sent to it, unless a change   *)
(* of address fell between two statements of another request, or failed.   *)
THEOREM AddressesAreProven == Spec => []VerifiedBySentCode
<1>1. AccountsInv => VerifiedBySentCode
  BY DEF AccountsInv
<1> QED
  BY <1>1, AccountsInvariant, PTL
=============================================================================
