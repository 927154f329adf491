------------------------------ MODULE Accounts ------------------------------
(***************************************************************************)
(* The password and the address of a user (src/src/modules/auth/identity)  *)
(* and the one-time codes that prove an address or reset a password        *)
(* (tokens/one-time-token).  Setting a password, using up the code and     *)
(* revoking the sessions are separate statements, as are changing the      *)
(* address, withdrawing old codes and creating a new one: a process may    *)
(* die between any two, and other requests run in between.                 *)
(***************************************************************************)
EXTENDS Sessions

CONSTANTS CodeIds     \* identities of one-time codes

VARIABLES
    code,     \* the one-time codes, with the address they were sent to
    proven    \* where the code that verified the address had been sent, or
              \* the address a provider vouched for

vars == <<user, session, minted, exchanges, late, code, proven, req>>

AuthTokenType == {"PASSWORD_RESET", "EMAIL_VERIFICATION"}

FirstEmail == CHOOSE e \in Emails : TRUE

NoCode == [state |-> "ABSENT", type |-> "PASSWORD_RESET", sentTo |-> FirstEmail]

CodeRows == [state : {"ABSENT", "VALID", "USED", "EXPIRED"}, type : AuthTokenType,
             sentTo : Emails]

CodeRequests ==
    [at : {"withdrawing", "issuing"}, type : AuthTokenType, sentTo : Emails, changing : BOOLEAN] \cup
    [at : {"resetting", "resetWritten", "resetUsed"}, code : CodeIds] \cup
    [at : {"verifying", "verified"}, code : CodeIds] \cup
    [at : {"changing", "changed"}, session : SessionIds] \cup
    [at : {"rewriting"}, email : Emails]

(* Every variable keeps its type (the rows of User, Session and AuthToken  *)
(* in prisma/models).                                                      *)
TypeOK ==
    /\ SessionTypeOK
    /\ code \in [CodeIds -> CodeRows]
    /\ proven \in Emails
    /\ req \in [Workers -> SessionRequests \cup CodeRequests]

Registered == [password |-> 1, email |-> FirstEmail, verified |-> FALSE, linked |-> FALSE]

NoCodes == [c \in CodeIds |-> NoCode]

(* registerUser: a user, a first session and a verification code.          *)
InitRegistered ==
    /\ user = Registered
    /\ \E s \in SessionIds :
          session = [t \in SessionIds |->
             IF t = s THEN [NoSession EXCEPT !.state = "LIVE", !.token = 1, !.password = 1]
             ELSE NoSession]
    /\ minted = 1
    /\ \E c \in CodeIds :
          code = [NoCodes EXCEPT ![c] = [state |-> "VALID", type |-> "EMAIL_VERIFICATION",
                                         sentTo |-> FirstEmail]]

(* createExternalUser: a user the provider vouches for, with no password;  *)
(* the first session is opened by a request that signs in.                 *)
InitExternal ==
    /\ user = [password |-> 0, email |-> FirstEmail, verified |-> TRUE, linked |-> TRUE]
    /\ session = [s \in SessionIds |-> NoSession]
    /\ minted = 0
    /\ code = NoCodes

Init ==
    /\ InitRegistered \/ InitExternal
    /\ exchanges = {}
    /\ late = {}
    /\ proven = FirstEmail
    /\ req = [w \in Workers |-> Idle]

Move(w, at) == req' = [req EXCEPT ![w].at = at]

-----------------------------------------------------------------------------
(* Asking for a code: the ones not yet used are withdrawn, then a new one  *)
(* is created for the address read before and sent there.                  *)

IssueRequest(type, email, changing) ==
    [at |-> "withdrawing", type |-> type, sentTo |-> email, changing |-> changing]

RequestPasswordReset(w) ==
    /\ HasPassword
    /\ Begin(w, IssueRequest("PASSWORD_RESET", user.email, FALSE))
    /\ UNCHANGED <<user, session, minted, exchanges, late, code, proven>>

ResendVerification(w) ==
    /\ ~user.verified
    /\ Begin(w, IssueRequest("EMAIL_VERIFICATION", user.email, FALSE))
    /\ UNCHANGED <<user, session, minted, exchanges, late, code, proven>>

Withdrawn(type) ==
    [c \in CodeIds |-> IF code[c].state \in {"VALID", "EXPIRED"} /\ code[c].type = type
                       THEN [code[c] EXCEPT !.state = "USED"] ELSE code[c]]

WithdrawCodes(w) ==
    /\ req[w].at = "withdrawing"
    /\ code' = Withdrawn(req[w].type)
    /\ Move(w, "issuing")
    /\ UNCHANGED <<user, session, minted, exchanges, late, proven>>

IssueCode(w) ==
    /\ req[w].at = "issuing"
    /\ \E c \in CodeIds :
          /\ code[c].state = "ABSENT"
          /\ code' = [code EXCEPT ![c] = [state |-> "VALID", type |-> req[w].type,
                                          sentTo |-> req[w].sentTo]]
    /\ late' = IF req[w].sentTo = user.email THEN late ELSE late \cup {"email"}
    /\ Finish(w)
    /\ UNCHANGED <<user, session, minted, exchanges, proven>>

ExpireCode(c) ==
    /\ code[c].state = "VALID"
    /\ code' = [code EXCEPT ![c].state = "EXPIRED"]
    /\ UNCHANGED <<user, session, minted, exchanges, late, proven, req>>

UsedUp(c) == [code EXCEPT ![c].state = "USED"]

-----------------------------------------------------------------------------
(* Resetting and changing the password.                                    *)

SetPassword(row) == [row EXCEPT !.password = user.password + 1]

CheckReset(w, c) ==
    /\ code[c].state = "VALID" /\ code[c].type = "PASSWORD_RESET"
    /\ Begin(w, [at |-> "resetting", code |-> c])
    /\ UNCHANGED <<user, session, minted, exchanges, late, code, proven>>

WriteReset(w) ==
    /\ req[w].at = "resetting"
    /\ user.password < MaxPasswords
    /\ user' = SetPassword(user)
    /\ Move(w, "resetWritten")
    /\ UNCHANGED <<session, minted, exchanges, late, code, proven>>

UseResetCode(w) ==
    /\ req[w].at = "resetWritten"
    /\ code' = UsedUp(req[w].code)
    /\ Move(w, "resetUsed")
    /\ UNCHANGED <<user, session, minted, exchanges, late, proven>>

RevokeAfterReset(w) ==
    /\ req[w].at = "resetUsed"
    /\ session' = RevokedUserSessions({})
    /\ Finish(w)
    /\ UNCHANGED <<user, minted, exchanges, late, code, proven>>

CheckChange(w, current) ==
    /\ Alive(current) /\ HasPassword
    /\ Begin(w, [at |-> "changing", session |-> current])
    /\ UNCHANGED <<user, session, minted, exchanges, late, code, proven>>

(* The session it is made from stays and stands for the new password.      *)
WriteChange(w) ==
    /\ req[w].at = "changing"
    /\ user.password < MaxPasswords
    /\ user' = SetPassword(user)
    /\ session' = [session EXCEPT ![req[w].session] = SetPassword(@)]
    /\ Move(w, "changed")
    /\ UNCHANGED <<minted, exchanges, late, code, proven>>

RevokeAfterChange(w) ==
    /\ req[w].at = "changed"
    /\ session' = RevokedUserSessions({req[w].session})
    /\ Finish(w)
    /\ UNCHANGED <<user, minted, exchanges, late, code, proven>>

-----------------------------------------------------------------------------
(* Changing and verifying the address.                                     *)

CheckChangeEmail(w, current, email) ==
    /\ Alive(current) /\ HasPassword
    /\ email # user.email
    /\ Begin(w, [at |-> "rewriting", email |-> email])
    /\ UNCHANGED <<user, session, minted, exchanges, late, code, proven>>

(* As updateUserEmailRecord would be if it left emailVerifiedAt alone.     *)
ReaddressedStillVerified(email) == [user EXCEPT !.email = email]

Readdressed(email) == [user EXCEPT !.email = email, !.verified = FALSE]

WriteEmail(w) ==
    /\ req[w].at = "rewriting"
    /\ user' = Readdressed(req[w].email)
    /\ req' = [req EXCEPT ![w] = IssueRequest("EMAIL_VERIFICATION", req[w].email, TRUE)]
    /\ UNCHANGED <<session, minted, exchanges, late, code, proven>>

CheckVerify(w, c) ==
    /\ code[c].state = "VALID" /\ code[c].type = "EMAIL_VERIFICATION"
    /\ Begin(w, [at |-> "verifying", code |-> c])
    /\ UNCHANGED <<user, session, minted, exchanges, late, code, proven>>

(* A changed address whose old codes are not withdrawn yet.                *)
Readdressing(v) == req[v].at = "withdrawing" /\ req[v].changing

MarkVerified(w) ==
    LET c == req[w].code
    IN /\ req[w].at = "verifying"
       /\ user' = [user EXCEPT !.verified = TRUE]
       /\ proven' = code[c].sentTo
       /\ late' = IF code[c].state = "USED" \/ \E v \in Workers : Readdressing(v)
                  THEN late \cup {"email"} ELSE late
       /\ Move(w, "verified")
       /\ UNCHANGED <<session, minted, exchanges, code>>

UseVerificationCode(w) ==
    /\ req[w].at = "verified"
    /\ code' = UsedUp(req[w].code)
    /\ Finish(w)
    /\ UNCHANGED <<user, session, minted, exchanges, late, proven>>

-----------------------------------------------------------------------------
(* The process dies, or a statement fails, and the rest never happens.     *)
SkipsRevocation(w) == req[w].at \in {"resetWritten", "resetUsed", "changed"}

Fail(w) ==
    /\ req[w] # Idle
    /\ late' = late \cup (IF SkipsRevocation(w) THEN {"password"} ELSE {})
                    \cup (IF Readdressing(w) THEN {"email"} ELSE {})
    /\ Finish(w)
    /\ UNCHANGED <<user, session, minted, exchanges, code, proven>>

AccountStep ==
    \/ \E w \in Workers :
          \/ RequestPasswordReset(w) \/ ResendVerification(w)
          \/ WithdrawCodes(w) \/ IssueCode(w)
          \/ \E c \in CodeIds : CheckReset(w, c) \/ CheckVerify(w, c)
          \/ WriteReset(w) \/ UseResetCode(w) \/ RevokeAfterReset(w)
          \/ \E current \in SessionIds :
                \/ CheckChange(w, current)
                \/ \E email \in Emails : CheckChangeEmail(w, current, email)
          \/ WriteChange(w) \/ RevokeAfterChange(w)
          \/ WriteEmail(w) \/ MarkVerified(w) \/ UseVerificationCode(w)
          \/ Fail(w)
    \/ \E c \in CodeIds : ExpireCode(c)

Next == (SessionNext /\ UNCHANGED <<code, proven>>) \/ AccountStep

Spec == Init /\ [][Next]_vars

-----------------------------------------------------------------------------
(* A session outlives the password it was opened with only while a reset   *)
(* or change has yet to revoke it, as the session a change is made from,   *)
(* or when a login checked the old password or a failure cut a reset or    *)
(* change short: refreshes and other sign-ins in between keep none alive.  *)
OldSessionsEnd ==
    \A s \in SessionIds :
       session[s].state = "LIVE" /\ session[s].password # user.password =>
          \/ "password" \in late
          \/ \E w \in Workers : SkipsRevocation(w)

(* A verified address was verified by a code sent to that address, or      *)
(* vouched for by the provider that created the user, unless a change of   *)
(* address fell between two statements of another request, or failed       *)
(* between its own.                                                        *)
VerifiedBySentCode ==
    user.verified => proven = user.email \/ "email" \in late
=============================================================================
