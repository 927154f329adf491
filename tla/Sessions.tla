------------------------------ MODULE Sessions ------------------------------
(***************************************************************************)
(* The sessions of one user (src/src/modules/auth/sessions, authentication *)
(* and the sign-in of platform administrators).  A session row holds the   *)
(* hash of its current refresh token and of the one before.  Every handler *)
(* reads, decides and writes in statements of their own; exchanging a      *)
(* token compares the hash in its update, revoking compares that the row   *)
(* is not revoked.                                                         *)
(*                                                                         *)
(* Access tokens are left out: a request is allowed to do what its session *)
(* allows when it starts.  Expired rows stay, since nothing calls          *)
(* deleteExpiredSessions.  The window of recent authentication, switching  *)
(* the organization and the deactivation of users, which no operation of   *)
(* the program does, are left out too.                                     *)
(***************************************************************************)
EXTENDS Naturals

CONSTANTS Workers,        \* concurrent request handlers
          SessionIds,     \* identities of sessions
          Emails,         \* addresses the user may have
          PlatformAdmin,  \* the user has an active platform grant
          MaxTokens,      \* bound: refresh tokens generated
          MaxPasswords    \* bound: passwords the user has had

ASSUME SessionsAssumption ==
    /\ Emails # {}
    /\ PlatformAdmin \in BOOLEAN
    /\ MaxTokens \in Nat \ {0} /\ MaxPasswords \in Nat \ {0}

VARIABLES
    user,       \* the user's row; a password is the number of times it was set,
                \* 0 for a user created by a provider, who has none
    session,    \* the session rows, with the password they stand for
    minted,     \* refresh tokens generated so far; a token is its number
    exchanges,  \* the refreshes that succeeded
    late,       \* what was decided by what had changed since, or half done
    req         \* what each worker's request is about and where it stands

SessionAudience == {"CLIENT", "PLATFORM_ADMIN"}

Users == [password : 0..MaxPasswords, email : Emails, verified : BOOLEAN,
          linked : BOOLEAN]

NoSession == [state |-> "ABSENT", audience |-> "CLIENT", token |-> 0,
              previous |-> 0, password |-> 0, expired |-> FALSE]

Tokens == 0..MaxTokens

SessionRows == [state : {"ABSENT", "LIVE", "REVOKED"}, audience : SessionAudience,
                token : Tokens, previous : Tokens, password : 0..MaxPasswords,
                expired : BOOLEAN]

Exchanges == [session : SessionIds, from : Tokens, to : Tokens]

Idle == [at |-> "idle"]

SessionRequests ==
    [at : {"idle"}] \cup
    [at : {"login"}, audience : SessionAudience, password : 0..MaxPasswords] \cup
    [at : {"external"}] \cup
    [at : {"refreshing"}, session : SessionIds, token : Tokens] \cup
    [at : {"leaving"}, session : SessionIds] \cup
    [at : {"clearing"}, keep : SUBSET SessionIds]

SessionTypeOK ==
    /\ user \in Users
    /\ session \in [SessionIds -> SessionRows]
    /\ minted \in Tokens
    /\ exchanges \subseteq Exchanges
    /\ late \subseteq {"password", "email"}

HasPassword == user.password > 0

Alive(s) == session[s].state = "LIVE" /\ ~session[s].expired

Begin(w, record) ==
    /\ req[w] = Idle
    /\ req' = [req EXCEPT ![w] = record]

Finish(w) == req' = [req EXCEPT ![w] = Idle]

-----------------------------------------------------------------------------
(* Signing in: the password, or an identity the provider vouches for, is   *)
(* checked first and the session created later.                            *)

NewSession(audience, password) ==
    [NoSession EXCEPT !.state = "LIVE", !.audience = audience,
                      !.token = minted + 1, !.password = password]

CheckLogin(w) ==
    /\ HasPassword
    /\ Begin(w, [at |-> "login", audience |-> "CLIENT", password |-> user.password])
    /\ UNCHANGED <<user, session, minted, exchanges, late>>

CheckPlatformLogin(w) ==
    /\ PlatformAdmin /\ user.verified /\ HasPassword
    /\ Begin(w, [at |-> "login", audience |-> "PLATFORM_ADMIN", password |-> user.password])
    /\ UNCHANGED <<user, session, minted, exchanges, late>>

(* A known provider account signs in; an unknown one is linked if its      *)
(* address is the user's, unless the provider has a link already.          *)
CheckExternal(w, email) ==
    /\ user.linked \/ email = user.email
    /\ Begin(w, [at |-> "external"])
    /\ user' = [user EXCEPT !.linked = TRUE]
    /\ UNCHANGED <<session, minted, exchanges, late>>

CreateSession(w) ==
    LET audience == IF req[w].at = "login" THEN req[w].audience ELSE "CLIENT"
        password == IF req[w].at = "login" THEN req[w].password ELSE user.password
    IN /\ req[w].at \in {"login", "external"}
       /\ minted < MaxTokens
       /\ \E s \in SessionIds :
             /\ session[s].state = "ABSENT"
             /\ session' = [session EXCEPT ![s] = NewSession(audience, password)]
       /\ minted' = minted + 1
       /\ late' = IF password = user.password THEN late ELSE late \cup {"password"}
       /\ Finish(w)
       /\ UNCHANGED <<user, exchanges>>

-----------------------------------------------------------------------------
(* Refreshing.  A token that was exchanged already ends the session.       *)

Revoked(s) == [session EXCEPT ![s].state = "REVOKED"]

(* As account-wide revocation would be if it knew of clients only.         *)
RevocableClient(row, keep) ==
    row.state = "LIVE" /\ row.audience = "CLIENT" /\ ~keep

Revocable(row, keep) == row.state = "LIVE" /\ ~keep

MayRefresh(row) == row.audience = "CLIENT" \/ (PlatformAdmin /\ user.verified)

CheckRefresh(w, s, token) ==
    /\ Alive(s) /\ MayRefresh(session[s])
    /\ token = session[s].token
    /\ Begin(w, [at |-> "refreshing", session |-> s, token |-> token])
    /\ UNCHANGED <<user, session, minted, exchanges, late>>

DetectReuse(w, s, token) ==
    /\ Alive(s)
    /\ token # session[s].token /\ token = session[s].previous
    /\ Begin(w, [at |-> "leaving", session |-> s])
    /\ UNCHANGED <<user, session, minted, exchanges, late>>

(* As the update would be if it did not compare the token's hash.          *)
RotationAppliesToAny(row, expected) == row.state = "LIVE" /\ ~row.expired

RotationApplies(row, expected) ==
    row.state = "LIVE" /\ ~row.expired /\ row.token = expected

Rotate(w) ==
    LET s == req[w].session
        expected == req[w].token
    IN /\ req[w].at = "refreshing"
       /\ minted < MaxTokens
       /\ minted' = minted + 1
       /\ IF RotationApplies(session[s], expected)
          THEN /\ session' = [session EXCEPT ![s].previous = expected,
                                             ![s].token = minted + 1]
               /\ exchanges' = exchanges \cup
                     {[session |-> s, from |-> expected, to |-> minted + 1]}
          ELSE UNCHANGED <<session, exchanges>>
       /\ Finish(w)
       /\ UNCHANGED <<user, late>>

-----------------------------------------------------------------------------
(* Signing out.  The first step of each finds the session the request is   *)
(* made from, by token or by cookie, and the second revokes.               *)

CheckLogout(w, s, token) ==
    /\ session[s].state = "LIVE"
    /\ token > 0 /\ token \in {session[s].token, session[s].previous}
    /\ Begin(w, [at |-> "leaving", session |-> s])
    /\ UNCHANGED <<user, session, minted, exchanges, late>>

CheckRevokeOther(w, current, s) ==
    /\ Alive(current) /\ Alive(s) /\ s # current
    /\ Begin(w, [at |-> "leaving", session |-> s])
    /\ UNCHANGED <<user, session, minted, exchanges, late>>

RevokeSession(w) ==
    LET s == req[w].session
    IN /\ req[w].at = "leaving"
       /\ session' = IF Revocable(session[s], FALSE) THEN Revoked(s) ELSE session
       /\ Finish(w)
       /\ UNCHANGED <<user, minted, exchanges, late>>

(* Every session of the user, or every other session.                      *)
CheckLogoutAll(w, current, keep) ==
    /\ Alive(current)
    /\ keep \in {{}, {current}}
    /\ Begin(w, [at |-> "clearing", keep |-> keep])
    /\ UNCHANGED <<user, session, minted, exchanges, late>>

RevokedUserSessions(keep) ==
    [s \in SessionIds |-> IF Revocable(session[s], s \in keep)
                          THEN [session[s] EXCEPT !.state = "REVOKED"]
                          ELSE session[s]]

RevokeUserSessions(w) ==
    /\ req[w].at = "clearing"
    /\ session' = RevokedUserSessions(req[w].keep)
    /\ Finish(w)
    /\ UNCHANGED <<user, minted, exchanges, late>>

(* Time passes; whoever reads an expired session first revokes it.         *)
Expire(s) ==
    /\ Alive(s)
    /\ session' = [session EXCEPT ![s].expired = TRUE]
    /\ UNCHANGED <<user, minted, exchanges, late, req>>

RevokeExpired(s) ==
    /\ session[s].state = "LIVE" /\ session[s].expired
    /\ session' = Revoked(s)
    /\ UNCHANGED <<user, minted, exchanges, late, req>>

SessionNext ==
    \/ \E w \in Workers :
          \/ CheckLogin(w) \/ CheckPlatformLogin(w)
          \/ \E email \in Emails : CheckExternal(w, email)
          \/ CreateSession(w) \/ Rotate(w) \/ RevokeSession(w) \/ RevokeUserSessions(w)
          \/ \E s \in SessionIds, token \in 1..minted :
                \/ CheckRefresh(w, s, token) \/ DetectReuse(w, s, token)
                \/ CheckLogout(w, s, token)
          \/ \E current, s \in SessionIds : CheckRevokeOther(w, current, s)
          \/ \E current \in SessionIds : \E keep \in {{}, {current}} :
                CheckLogoutAll(w, current, keep)
    \/ \E s \in SessionIds : Expire(s) \/ RevokeExpired(s)

-----------------------------------------------------------------------------
(* A refresh token is exchanged at most once, and never after its session  *)
(* was revoked: whatever two refreshes, a refresh and a logout or a        *)
(* refresh and a password reset do to each other, a session has one line   *)
(* of tokens, and it ends where the session ends.                          *)
ExchangedOnceWhileLive ==
    [][\A new \in exchanges' \ exchanges :
          /\ Alive(new.session)
          /\ \A old \in exchanges : old.from # new.from]_<<session, exchanges>>
=============================================================================
