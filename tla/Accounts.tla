------------------------------ MODULE Accounts ------------------------------
(***************************************************************************)
(* The accounts of the portal and their sessions (auth/auth.service.ts,    *)
(* common/guards/jwt-auth.guard.ts and the account operations of           *)
(* admin/users/users.service.ts).                                          *)
(*                                                                         *)
(* A handler reads the row, awaits bcrypt, the second factor or another    *)
(* query, and then updates the row by its identifier, whatever became of   *)
(* it in between. The first read with its checks is one step (Begin...),   *)
(* each later write is another. A request that fails a check changes       *)
(* nothing and is not modelled.                                            *)
(***************************************************************************)
EXTENDS Naturals, FiniteSets

CONSTANTS
    Users,
    Requests,   \* concurrent executions of the handlers
    MaxTokens   \* bound on the temporary tokens and the invitations

TokensAssumption == MaxTokens \in Nat \ {0}

VARIABLES
    account,  \* the users row
    request,  \* the locals of each execution
    signed,   \* the kinds of JWT_SECRET tokens that name the user
    tokens,   \* temporary tokens and invitations issued so far
    ended     \* history: signed out, with nothing of the user under way

vars == <<account, request, signed, tokens, ended>>

Statuses == {"absent", "PENDING", "ACTIVE", "INACTIVE", "deleted"}
Token == 0 .. MaxTokens \* 0: null

Account == [status: Statuses, document: BOOLEAN, password: BOOLEAN,
            must: BOOLEAN, twoFactor: BOOLEAN, secret: BOOLEAN,
            temporary: Token, invite: Token, refresh: BOOLEAN]
NoAccount == [status |-> "absent", document |-> FALSE, password |-> FALSE,
              must |-> FALSE, twoFactor |-> FALSE, secret |-> FALSE,
              temporary |-> 0, invite |-> 0, refresh |-> FALSE]

Labels == {"idle", "compare", "change", "verify", "rotate", "issue", "accept",
           "reset", "enable", "disable", "leave"}
Request == [pc: Labels, user: Users, must: BOOLEAN, twoFactor: BOOLEAN]

TypeOK ==
    /\ account \in [Users -> Account]
    /\ request \in [Requests -> Request]
    /\ signed \in [Users -> SUBSET {"access", "change", "factor"}]
    /\ tokens \in Token
    /\ ended \in [Users -> BOOLEAN]

Idle(u) == [pc |-> "idle", user |-> u, must |-> FALSE, twoFactor |-> FALSE]

Init ==
    /\ account = [u \in Users |-> NoAccount]
    /\ request \in [Requests -> {Idle(u) : u \in Users}]
    /\ signed = [u \in Users |-> {}]
    /\ tokens = 0
    /\ ended = [u \in Users |-> FALSE]

Exists(u) == account[u].status \notin {"absent", "deleted"}
Active(u) == account[u].status = "ACTIVE"
UserOf(r) == request[r].user
UnderWay(u) == {r \in Requests : UserOf(r) = u /\ request[r].pc # "idle"}

\* The guard verifies a token of the user and reads the row on each request.
JwtAuthGuard(u) == signed[u] # {} /\ Active(u)

Start(r, u, label) ==
    /\ request[r].pc = "idle"
    /\ request' = [request EXCEPT ![r] =
                     [pc |-> label, user |-> u,
                      must |-> account[u].must, twoFactor |-> account[u].twoFactor]]
GoTo(r, label) == request' = [request EXCEPT ![r].pc = label]
End(r) == request' = [request EXCEPT ![r] = Idle(UserOf(r))]
Sign(u, kind) == signed' = [signed EXCEPT ![u] = @ \cup {kind}]
\* Credentials were shown again: the sign-out is over.
Reopen(u) == ended' = [ended EXCEPT ![u] = FALSE]
\* An update by identifier fails when the row is gone.
Update(r, row) ==
    account' = IF Exists(UserOf(r)) THEN [account EXCEPT ![UserOf(r)] = row] ELSE account
-----------------------------------------------------------------------------
(* The administration of accounts.                                         *)

\* users.service: created active, with the document as temporary password.
Create(u) ==
    /\ account[u].status = "absent"
    /\ account' = [account EXCEPT ![u] = [NoAccount EXCEPT !.status = "ACTIVE",
                     !.document = TRUE, !.password = TRUE, !.must = TRUE]]
    /\ UNCHANGED <<request, signed, tokens, ended>>

\* auth.service: the row of an invitation is written without the document
\* that was asked for; mustChangePassword takes its default.
Invite(u) ==
    /\ account[u].status = "absent"
    /\ tokens < MaxTokens
    /\ tokens' = tokens + 1
    /\ account' = [account EXCEPT ![u] = [NoAccount EXCEPT !.status = "PENDING",
                     !.must = TRUE, !.invite = tokens + 1]]
    /\ UNCHANGED <<request, signed, ended>>

\* A new invitation, whatever the status.
ResendInvite(u) ==
    /\ Exists(u)
    /\ tokens < MaxTokens
    /\ tokens' = tokens + 1
    /\ account' = [account EXCEPT ![u].invite = tokens + 1]
    /\ UNCHANGED <<request, signed, ended>>

\* SUSPENDED is told apart from INACTIVE nowhere.
SetStatus(u) ==
    /\ Exists(u)
    /\ \E s \in {"ACTIVE", "INACTIVE", "PENDING"} : account' = [account EXCEPT ![u].status = s]
    /\ UNCHANGED <<request, signed, tokens, ended>>

\* The row is removed, its sessions with it.
Delete(u) ==
    /\ Exists(u)
    /\ account' = [account EXCEPT ![u] = [NoAccount EXCEPT !.status = "deleted"]]
    /\ UNCHANGED <<request, signed, tokens, ended>>
-----------------------------------------------------------------------------
(* The invitation and the forgotten password.                              *)

BeginAccept(r, u) ==
    /\ account[u].status = "PENDING"
    /\ account[u].invite # 0
    /\ Start(r, u, "accept")
    /\ UNCHANGED <<account, signed, tokens, ended>>

Accept(r) ==
    /\ request[r].pc = "accept"
    /\ Update(r, [account[UserOf(r)] EXCEPT !.password = TRUE, !.status = "ACTIVE", !.invite = 0])
    /\ End(r)
    /\ UNCHANGED <<signed, tokens, ended>>

\* The account is found by its document.
Found(u) == Active(u) /\ account[u].document

BeginForgot(r, u) ==
    /\ Found(u)
    /\ Start(r, u, "reset")
    /\ UNCHANGED <<account, signed, tokens, ended>>

ResetPassword(r) ==
    /\ request[r].pc = "reset"
    /\ Update(r, [account[UserOf(r)] EXCEPT !.password = TRUE])
    /\ End(r)
    /\ UNCHANGED <<signed, tokens, ended>>
-----------------------------------------------------------------------------
(* The four ways to a session.                                             *)

BeginLogin(r, u) ==
    /\ Found(u) /\ account[u].password
    /\ Start(r, u, "compare")
    /\ Reopen(u)
    /\ UNCHANGED <<account, signed, tokens>>

\* Mutant: the temporary password is not looked at.
LoginWithTemporary(r) ==
    /\ request[r].pc = "compare"
    /\ GoTo(r, "issue")
    /\ UNCHANGED <<account, signed, tokens, ended>>

\* With the row read before bcrypt: a temporary password first, then the
\* second factor, then the session.
Login(r) ==
    /\ request[r].pc = "compare"
    /\ LET u == UserOf(r)
       IN  \/ /\ request[r].must
              /\ Sign(u, "change")
              /\ End(r)
              /\ UNCHANGED <<account, tokens>>
           \/ /\ ~request[r].must /\ request[r].twoFactor
              /\ tokens < MaxTokens
              /\ tokens' = tokens + 1
              /\ Update(r, [account[u] EXCEPT !.temporary = tokens + 1])
              /\ Sign(u, "factor")
              /\ End(r)
           \/ /\ ~request[r].must /\ ~request[r].twoFactor
              /\ GoTo(r, "issue")
              /\ UNCHANGED <<account, signed, tokens>>
    /\ UNCHANGED ended

\* A token of purpose PASSWORD_CHANGE; the status is not read.
BeginChange(r, u) ==
    /\ "change" \in signed[u]
    /\ Exists(u) /\ account[u].must
    /\ Start(r, u, "change")
    /\ Reopen(u)
    /\ UNCHANGED <<account, signed, tokens>>

ChangeTemporaryPassword(r) ==
    /\ request[r].pc = "change"
    /\ Update(r, [account[UserOf(r)] EXCEPT !.password = TRUE, !.must = FALSE])
    /\ IF Exists(UserOf(r)) THEN GoTo(r, "issue") ELSE End(r)
    /\ UNCHANGED <<signed, tokens, ended>>

\* The token must be the one the last login stored.
BeginVerify(r, u) ==
    /\ Active(u) /\ account[u].twoFactor /\ account[u].secret
    /\ account[u].temporary # 0
    /\ Start(r, u, "verify")
    /\ Reopen(u)
    /\ UNCHANGED <<account, signed, tokens>>

\* A wrong code ends the request; a right one spends the token.
Verify2FA(r) ==
    /\ request[r].pc = "verify"
    /\ \/ /\ End(r)
          /\ UNCHANGED account
       \/ /\ Update(r, [account[UserOf(r)] EXCEPT !.twoFactor = TRUE, !.temporary = 0])
          /\ IF Exists(UserOf(r)) THEN GoTo(r, "issue") ELSE End(r)
    /\ UNCHANGED <<signed, tokens, ended>>

\* Mutant: the stored hash is not required.
BeginRefreshAnyway(r, u) ==
    /\ Active(u)
    /\ "access" \in signed[u]
    /\ Start(r, u, "rotate")
    /\ UNCHANGED <<account, signed, tokens, ended>>

\* A refresh token of the user (which one is not told apart), while the row
\* holds a hash.
BeginRefresh(r, u) ==
    /\ Active(u)
    /\ "access" \in signed[u]
    /\ account[u].refresh
    /\ Start(r, u, "rotate")
    /\ UNCHANGED <<account, signed, tokens, ended>>

Refresh(r) ==
    /\ request[r].pc = "rotate"
    /\ GoTo(r, "issue")
    /\ UNCHANGED <<account, signed, tokens, ended>>

\* The hash is stored over whatever a sign-out left.
IssueTokens(r) ==
    /\ request[r].pc = "issue"
    /\ Update(r, [account[UserOf(r)] EXCEPT !.refresh = TRUE])
    /\ IF Exists(UserOf(r)) THEN Sign(UserOf(r), "access") ELSE UNCHANGED signed
    /\ End(r)
    /\ UNCHANGED <<tokens, ended>>
-----------------------------------------------------------------------------
(* What a signed-in user does to the account.                              *)

BeginOwn(r, u) ==
    /\ JwtAuthGuard(u)
    /\ \E label \in {"enable", "disable", "leave"} : Start(r, u, label)
    /\ UNCHANGED <<account, signed, tokens, ended>>

Save2FA(r) ==
    /\ request[r].pc = "enable"
    /\ Update(r, [account[UserOf(r)] EXCEPT !.twoFactor = TRUE, !.secret = TRUE])
    /\ End(r)
    /\ UNCHANGED <<signed, tokens, ended>>

Disable2FA(r) ==
    /\ request[r].pc = "disable"
    /\ Update(r, [account[UserOf(r)] EXCEPT !.twoFactor = FALSE, !.secret = FALSE])
    /\ End(r)
    /\ UNCHANGED <<signed, tokens, ended>>

Logout(r) ==
    /\ request[r].pc = "leave"
    /\ Update(r, [account[UserOf(r)] EXCEPT !.refresh = FALSE])
    /\ End(r)
    /\ ended' = [ended EXCEPT ![UserOf(r)] = @ \/ UnderWay(UserOf(r)) = {r}]
    /\ UNCHANGED <<signed, tokens>>
-----------------------------------------------------------------------------
Administer(u) == Create(u) \/ Invite(u) \/ ResendInvite(u) \/ SetStatus(u) \/ Delete(u)
Receive(r, u) ==
    \/ BeginAccept(r, u) \/ BeginForgot(r, u) \/ BeginLogin(r, u) \/ BeginChange(r, u)
    \/ BeginVerify(r, u) \/ BeginRefresh(r, u) \/ BeginOwn(r, u)
Resume(r) ==
    \/ Accept(r) \/ ResetPassword(r) \/ Login(r) \/ ChangeTemporaryPassword(r)
    \/ Verify2FA(r) \/ Refresh(r) \/ IssueTokens(r)
    \/ Save2FA(r) \/ Disable2FA(r) \/ Logout(r)

Next ==
    \/ \E u \in Users : Administer(u)
    \/ \E r \in Requests, u \in Users : Receive(r, u)
    \/ \E r \in Requests : Resume(r)

Spec == Init /\ [][Next]_vars
-----------------------------------------------------------------------------
\* Nobody holds a session, on whichever way it was opened and however the
\* requests of several devices interleave, before the temporary password was
\* replaced (auth.service.ts: the checks of login, changeTemporaryPassword,
\* verify2FA and refresh, and the update of issueTokens).
OwnPasswordFirst == \A u \in Users : account[u].refresh => ~account[u].must

\* After a sign-out with nothing else of the user under way, no session comes
\* back until the credentials or the second factor are shown again
\* (auth.service.ts logout and refresh).
SignOutStands == \A u \in Users : ended[u] => ~account[u].refresh
=============================================================================
