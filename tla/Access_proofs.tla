---------------------------- MODULE Access_proofs ----------------------------
(***************************************************************************)
(* Proofs about Access, for any users, requests, rows and files.           *)
(*                                                                         *)
(* One part per component: its inductive invariant, that it holds at the   *)
(* start and that each of the component's actions keeps it, and what it    *)
(* implies.  A component moves or stays in a step of the composition, so   *)
(* the invariants hold together; the theorems come last.                   *)
(***************************************************************************)
EXTENDS Access, Sequences, FiniteSetTheorems, TLAPS

-----------------------------------------------------------------------------
(* Accounts and their sessions.                                           *)

\* What leads to a session, from the credentials to its tokens.
Entering == {"compare", "change", "verify", "rotate", "issue"}

\* A session or a temporary token has a password of the user's own; a row that is
\* gone, or not there yet, has neither.
AccountKnown(u) ==
    /\ accountsAccount[u].refresh \/ accountsAccount[u].temporary # 0 => ~accountsAccount[u].must
    /\ ~Accounts!Exists(u) => ~accountsAccount[u].must /\ ~accountsAccount[u].refresh
    /\ accountsEnded[u] => ~accountsAccount[u].refresh

\* What a request has read or checked is still so of the row.
RequestKnown(r) ==
    /\ accountsRequest[r].pc # "idle" => accountsAccount[Accounts!UserOf(r)].status # "absent"
    /\ accountsRequest[r].pc \in {"verify", "rotate", "issue"} =>
         ~accountsAccount[Accounts!UserOf(r)].must
    /\ accountsRequest[r].pc = "compare" /\ ~accountsRequest[r].must =>
         ~accountsAccount[Accounts!UserOf(r)].must
    /\ accountsRequest[r].pc \in Entering => ~accountsEnded[Accounts!UserOf(r)]

AccountsInv ==
    /\ Accounts!TypeOK
    /\ \A u \in AccountUsers : AccountKnown(u)
    /\ \A r \in AccountRequests : RequestKnown(r)

LEMMA AccRows ==
    /\ Accounts!NoAccount \in Accounts!Account
    /\ Accounts!Token \subseteq Nat /\ 0 \in Accounts!Token
    /\ accountsTokens \in Accounts!Token /\ accountsTokens < MaxTokens =>
         accountsTokens + 1 \in Accounts!Token /\ accountsTokens + 1 # 0
    /\ \A u \in AccountUsers : Accounts!Idle(u) \in Accounts!Request /\
         Accounts!Idle(u).pc = "idle" /\ Accounts!Idle(u).user = u
  BY ComponentsAssumption DEF Accounts!TokensAssumption, Accounts!NoAccount, Accounts!Account,
     Accounts!Statuses, Accounts!Token, Accounts!Idle, Accounts!Request, Accounts!Labels

LEMMA AccInit == Accounts!Init => AccountsInv
  <1> SUFFICES ASSUME Accounts!Init PROVE AccountsInv
    OBVIOUS
  <1>1. Accounts!TypeOK
    BY AccRows DEF Accounts!Init, Accounts!TypeOK
  <1>2. ASSUME NEW u \in AccountUsers PROVE AccountKnown(u)
    BY DEF Accounts!Init, AccountKnown, Accounts!Exists, Accounts!NoAccount
  <1>3. ASSUME NEW r \in AccountRequests PROVE RequestKnown(r)
    <2>1. accountsRequest[r].pc = "idle"
      BY AccRows DEF Accounts!Init
    <2> QED
      BY <2>1 DEF RequestKnown, Entering
  <1> QED
    BY <1>1, <1>2, <1>3 DEF AccountsInv

LEMMA AccAdminister ==
    ASSUME AccountsInv, NEW u \in AccountUsers, Accounts!Administer(u)
    PROVE  AccountsInv'
  <1>1. /\ accountsAccount \in [AccountUsers -> Accounts!Account]
        /\ accountsRequest \in [AccountRequests -> Accounts!Request]
        /\ \A v \in AccountUsers : AccountKnown(v)
        /\ \A r \in AccountRequests : RequestKnown(r)
        /\ accountsAccount[u] \in Accounts!Account
    BY DEF AccountsInv, Accounts!TypeOK
  <1>2. /\ UNCHANGED <<accountsRequest, accountsSigned, accountsEnded>>
        /\ accountsTokens' \in Accounts!Token
        /\ \E row \in Accounts!Account :
             /\ accountsAccount' = [accountsAccount EXCEPT ![u] = row]
             /\ accountsAccount[u].status # "absent" => row.status # "absent"
             /\ \/ /\ accountsAccount[u].status = "absent"
                   /\ row.temporary = 0 /\ ~row.refresh /\ Accounts!Exists(u)'
                \/ /\ accountsAccount[u].status # "absent"
                   /\ row.must => accountsAccount[u].must
                   /\ row.refresh => accountsAccount[u].refresh
                   /\ row.temporary # 0 => row.temporary = accountsAccount[u].temporary
                   /\ Accounts!Exists(u)' \/ (~row.must /\ ~row.refresh)
    <2>1. CASE Accounts!Create(u)
      <3> DEFINE row == [Accounts!NoAccount EXCEPT !.status = "ACTIVE", !.document = TRUE,
                           !.password = TRUE, !.must = TRUE]
      <3>1. row \in Accounts!Account /\ row.temporary = 0 /\ ~row.refresh /\ row.status = "ACTIVE"
        BY AccRows DEF Accounts!NoAccount, Accounts!Account, Accounts!Statuses
      <3>2. accountsAccount' = [accountsAccount EXCEPT ![u] = row]
        BY <2>1 DEF Accounts!Create
      <3> HIDE DEF row
      <3> QED
        BY <1>1, <2>1, <3>1, <3>2 DEF Accounts!Create, AccountsInv, Accounts!TypeOK, Accounts!Exists
    <2>2. CASE Accounts!Invite(u)
      <3> DEFINE row == [Accounts!NoAccount EXCEPT !.status = "PENDING", !.must = TRUE,
            !.invite = accountsTokens + 1]
      <3>0. accountsTokens + 1 \in Accounts!Token
        BY AccRows, <2>2 DEF Accounts!Invite, AccountsInv, Accounts!TypeOK
      <3>1. row \in Accounts!Account /\ row.temporary = 0 /\ ~row.refresh /\ row.status = "PENDING"
        BY AccRows, <3>0 DEF Accounts!NoAccount, Accounts!Account, Accounts!Statuses
      <3>2. accountsAccount' = [accountsAccount EXCEPT ![u] = row]
        BY <2>2 DEF Accounts!Invite
      <3> HIDE DEF row
      <3> QED
        BY <1>1, <2>2, <3>0, <3>1, <3>2 DEF Accounts!Invite, AccountsInv, Accounts!TypeOK,
           Accounts!Exists
    <2>3. CASE Accounts!ResendInvite(u)
      <3> DEFINE row == [accountsAccount[u] EXCEPT !.invite = accountsTokens + 1]
      <3>0. accountsTokens + 1 \in Accounts!Token
        BY AccRows, <2>3 DEF Accounts!ResendInvite, AccountsInv, Accounts!TypeOK
      <3>1. row \in Accounts!Account /\ row.temporary = accountsAccount[u].temporary
            /\ row.refresh = accountsAccount[u].refresh /\ row.must = accountsAccount[u].must
            /\ row.status = accountsAccount[u].status
        BY <1>1, <3>0 DEF Accounts!Account
      <3>2. accountsAccount' = [accountsAccount EXCEPT ![u] = row]
        BY <2>3 DEF Accounts!ResendInvite
      <3>3. accountsAccount'[u] = row
        BY <1>1, <3>2
      <3> HIDE DEF row
      <3> QED
        BY <1>1, <2>3, <3>0, <3>1, <3>2, <3>3 DEF Accounts!ResendInvite, AccountsInv,
           Accounts!TypeOK, Accounts!Exists
    <2>4. CASE Accounts!SetStatus(u)
      <3>0. PICK s \in {"ACTIVE", "INACTIVE", "PENDING"} :
               accountsAccount' = [accountsAccount EXCEPT ![u].status = s]
        BY <2>4 DEF Accounts!SetStatus
      <3> DEFINE row == [accountsAccount[u] EXCEPT !.status = s]
      <3>1. row \in Accounts!Account /\ row.temporary = accountsAccount[u].temporary
            /\ row.refresh = accountsAccount[u].refresh /\ row.must = accountsAccount[u].must
            /\ row.status = s
        BY <1>1 DEF Accounts!Account, Accounts!Statuses
      <3>2. accountsAccount' = [accountsAccount EXCEPT ![u] = row]
        BY <3>0
      <3>3. accountsAccount'[u] = row
        BY <1>1, <3>2
      <3> HIDE DEF row
      <3> QED
        BY <1>1, <2>4, <3>0, <3>1, <3>2, <3>3 DEF Accounts!SetStatus, AccountsInv,
           Accounts!TypeOK, Accounts!Exists
    <2>5. CASE Accounts!Delete(u)
      <3> DEFINE row == [Accounts!NoAccount EXCEPT !.status = "deleted"]
      <3>1. row \in Accounts!Account /\ row.temporary = 0 /\ ~row.refresh /\ ~row.must
            /\ row.status = "deleted"
        BY AccRows DEF Accounts!NoAccount, Accounts!Account, Accounts!Statuses
      <3>2. accountsAccount' = [accountsAccount EXCEPT ![u] = row]
        BY <2>5 DEF Accounts!Delete
      <3> HIDE DEF row
      <3> QED
        BY <1>1, <2>5, <3>1, <3>2 DEF Accounts!Delete, AccountsInv, Accounts!TypeOK, Accounts!Exists
    <2> QED
      BY <2>1, <2>2, <2>3, <2>4, <2>5 DEF Accounts!Administer
  <1>3. Accounts!TypeOK'
    BY <1>1, <1>2 DEF AccountsInv, Accounts!TypeOK
  <1>4. ASSUME NEW v \in AccountUsers PROVE AccountKnown(v)'
    BY <1>1, <1>2 DEF AccountKnown, Accounts!Exists, Accounts!Account
  <1>5. ASSUME NEW r \in AccountRequests PROVE RequestKnown(r)'
    <2>1. accountsRequest[r].user \in AccountUsers
      BY <1>1 DEF Accounts!Request
    <2> QED
      BY <1>1, <1>2, <2>1 DEF RequestKnown, Accounts!UserOf, Entering
  <1> QED
    BY <1>3, <1>4, <1>5 DEF AccountsInv

\* A request begins.
LEMMA AccStart ==
    ASSUME AccountsInv, NEW r \in AccountRequests, NEW u \in AccountUsers,
           NEW label \in Accounts!Labels \ {"idle"},
           Accounts!Start(r, u, label),
           UNCHANGED <<accountsAccount, accountsSigned, accountsTokens>>,
           accountsAccount[u].status # "absent",
           label \in {"verify", "rotate"} => ~accountsAccount[u].must,
           label # "issue",
           accountsEnded' = accountsEnded \/ Accounts!Reopen(u),
           label \in Entering => ~accountsEnded'[u]
    PROVE  AccountsInv'
  <1> DEFINE w == [pc |-> label, user |-> u, must |-> accountsAccount[u].must,
                   twoFactor |-> accountsAccount[u].twoFactor]
  <1>1. /\ accountsAccount \in [AccountUsers -> Accounts!Account]
        /\ accountsRequest \in [AccountRequests -> Accounts!Request]
        /\ accountsEnded \in [AccountUsers -> BOOLEAN]
        /\ \A v \in AccountUsers : AccountKnown(v)
        /\ \A q \in AccountRequests : RequestKnown(q)
        /\ accountsAccount[u] \in Accounts!Account
    BY DEF AccountsInv, Accounts!TypeOK
  <1>2. /\ w \in Accounts!Request /\ w.pc = label /\ w.user = u /\ w.must = accountsAccount[u].must
        /\ accountsRequest' = [accountsRequest EXCEPT ![r] = w]
    BY <1>1 DEF Accounts!Request, Accounts!Account, Accounts!Start
  <1> HIDE DEF w
  <1>3. /\ accountsEnded' \in [AccountUsers -> BOOLEAN]
        /\ \A v \in AccountUsers : accountsEnded'[v] => accountsEnded[v]
    BY <1>1 DEF Accounts!Reopen
  <1>4. Accounts!TypeOK'
    BY <1>1, <1>2, <1>3 DEF AccountsInv, Accounts!TypeOK
  <1>5. ASSUME NEW v \in AccountUsers PROVE AccountKnown(v)'
    BY <1>1, <1>3 DEF AccountKnown, Accounts!Exists
  <1>6. ASSUME NEW q \in AccountRequests PROVE RequestKnown(q)'
    <2>1. accountsRequest[q].user \in AccountUsers
      BY <1>1 DEF Accounts!Request
    <2>2. CASE q = r
      BY <1>1, <1>2, <2>2 DEF RequestKnown, Accounts!UserOf, Entering
    <2>3. CASE q # r
      BY <1>1, <1>2, <1>3, <2>1, <2>3 DEF RequestKnown, Accounts!UserOf, Entering
    <2> QED
      BY <2>2, <2>3
  <1> QED
    BY <1>4, <1>5, <1>6 DEF AccountsInv

LEMMA AccReceive ==
    ASSUME AccountsInv, NEW r \in AccountRequests, NEW u \in AccountUsers, Accounts!Receive(r, u)
    PROVE  AccountsInv'
  <1>1. /\ AccountKnown(u)
        /\ accountsEnded \in [AccountUsers -> BOOLEAN]
        /\ Accounts!Reopen(u) => ~accountsEnded'[u]
        /\ {"accept", "reset", "compare", "change", "verify", "rotate", "enable",
            "disable", "leave"} \subseteq Accounts!Labels \ {"idle"}
    BY DEF AccountsInv, Accounts!TypeOK, Accounts!Reopen, Accounts!Labels
  <1>2. CASE Accounts!BeginAccept(r, u)
    BY <1>1, <1>2, AccStart DEF Accounts!BeginAccept, Entering
  <1>3. CASE Accounts!BeginForgot(r, u)
    BY <1>1, <1>3, AccStart DEF Accounts!BeginForgot, Accounts!Found, Accounts!Active, Entering
  <1>4. CASE Accounts!BeginLogin(r, u)
    BY <1>1, <1>4, AccStart DEF Accounts!BeginLogin, Accounts!Found, Accounts!Active, Entering
  <1>5. CASE Accounts!BeginChange(r, u)
    BY <1>1, <1>5, AccStart DEF Accounts!BeginChange, Accounts!Exists, Entering
  <1>6. CASE Accounts!BeginVerify(r, u)
    BY <1>1, <1>6, AccStart DEF Accounts!BeginVerify, Accounts!Active, AccountKnown, Entering
  <1>7. CASE Accounts!BeginRefresh(r, u)
    BY <1>1, <1>7, AccStart DEF Accounts!BeginRefresh, Accounts!Active, AccountKnown, Entering
  <1>8. CASE Accounts!BeginOwn(r, u)
    <2>1. PICK label \in {"enable", "disable", "leave"} : Accounts!Start(r, u, label)
      BY <1>8 DEF Accounts!BeginOwn
    <2>2. label \in Accounts!Labels \ {"idle"} /\
            label \notin Entering \cup {"verify", "rotate", "issue"}
      BY <1>1 DEF Entering
    <2> QED
      BY <1>8, <2>1, <2>2, AccStart DEF Accounts!BeginOwn, Accounts!JwtAuthGuard, Accounts!Active
  <1> QED
    BY <1>2, <1>3, <1>4, <1>5, <1>6, <1>7, <1>8 DEF Accounts!Receive

\* A request goes on with the row of its user, which only gains a session from an
\* entry and never a duty to change the password.
LEMMA AccResumed ==
    ASSUME AccountsInv, NEW r \in AccountRequests, NEW row \in Accounts!Account,
           NEW w \in Accounts!Request,
           accountsRequest[r].pc # "idle",
           Accounts!Update(r, row), accountsRequest' = [accountsRequest EXCEPT ![r] = w],
           w.user = Accounts!UserOf(r),
           accountsSigned' \in [AccountUsers -> SUBSET {"access", "change", "factor"}],
           accountsTokens' \in Accounts!Token, accountsEnded' \in [AccountUsers -> BOOLEAN],
           \A v \in AccountUsers : accountsEnded'[v] => accountsEnded[v] \/ v = Accounts!UserOf(r),
           Accounts!Exists(Accounts!UserOf(r)) => row.status \notin {"absent", "deleted"},
           row.must => accountsAccount[Accounts!UserOf(r)].must,
           Accounts!Exists(Accounts!UserOf(r)) /\ (row.refresh \/ row.temporary # 0) => ~row.must,
           accountsEnded'[Accounts!UserOf(r)] =>
              /\ ~Accounts!Exists(Accounts!UserOf(r)) \/ ~row.refresh
              /\ w.pc \notin Entering
              /\ ~accountsEnded[Accounts!UserOf(r)] =>
                    \A q \in AccountRequests \ {r} : Accounts!UserOf(q) # Accounts!UserOf(r) \/
                        accountsRequest[q].pc = "idle",
           w.pc \in {"verify", "rotate", "issue"} =>
              IF Accounts!Exists(Accounts!UserOf(r)) THEN ~row.must
                  ELSE ~accountsAccount[Accounts!UserOf(r)].must,
           w.pc # "compare"
    PROVE  AccountsInv'
  <1> DEFINE u == Accounts!UserOf(r)
  <1>1. /\ accountsAccount \in [AccountUsers -> Accounts!Account]
        /\ accountsRequest \in [AccountRequests -> Accounts!Request]
        /\ \A v \in AccountUsers : AccountKnown(v)
        /\ \A q \in AccountRequests : RequestKnown(q)
        /\ u \in AccountUsers /\ accountsAccount[u] \in Accounts!Account
        /\ \A q \in AccountRequests : accountsRequest[q].user \in AccountUsers
    BY DEF AccountsInv, Accounts!TypeOK, Accounts!Request, Accounts!UserOf
  <1>2. \/ ~Accounts!Exists(u) /\ accountsAccount' = accountsAccount
        \/ Accounts!Exists(u) /\ accountsAccount' = [accountsAccount EXCEPT ![u] = row]
    BY DEF Accounts!Update
  <1>3. Accounts!TypeOK'
    BY <1>1, <1>2 DEF AccountsInv, Accounts!TypeOK
  <1> HIDE DEF u
  <1>4. ASSUME NEW v \in AccountUsers PROVE AccountKnown(v)'
    <2>1. CASE v # u
      BY <1>1, <1>2, <2>1 DEF AccountKnown, Accounts!Exists, u
    <2>2. CASE v = u /\ Accounts!Exists(u)
      BY <1>1, <1>2, <2>2 DEF AccountKnown, Accounts!Exists, u
    <2>3. CASE v = u /\ ~Accounts!Exists(u)
      BY <1>1, <1>2, <2>3 DEF AccountKnown, Accounts!Exists, u
    <2> QED
      BY <2>1, <2>2, <2>3
  <1>5. ASSUME NEW q \in AccountRequests PROVE RequestKnown(q)'
    <2>1. accountsAccount[u].status # "absent"
      BY <1>1 DEF RequestKnown, u
    <2>2. /\ accountsAccount'[u].must => accountsAccount[u].must
          /\ accountsAccount'[u].status # "absent"
          /\ w.pc \in {"verify", "rotate", "issue"} => ~accountsAccount'[u].must
          /\ \A v \in AccountUsers \ {u} : accountsAccount'[v] = accountsAccount[v]
      BY <1>1, <1>2, <2>1 DEF Accounts!Exists, u
    <2>3. CASE q = r
      BY <1>1, <2>2, <2>3 DEF RequestKnown, Accounts!UserOf, Entering, u
    <2>4. CASE q # r /\ Accounts!UserOf(q) # u
      BY <1>1, <2>2, <2>4 DEF RequestKnown, Accounts!UserOf, Entering, u
    <2>5. CASE q # r /\ Accounts!UserOf(q) = u
      <3>1. accountsRequest'[q] = accountsRequest[q] /\
              (accountsEnded'[u] => accountsEnded[u] \/ accountsRequest[q].pc = "idle")
        BY <1>1, <2>5 DEF u
      <3> QED
        BY <1>1, <2>2, <2>5, <3>1 DEF RequestKnown, Accounts!UserOf, Entering
    <2> QED
      BY <2>3, <2>4, <2>5
  <1> QED
    BY <1>3, <1>4, <1>5 DEF AccountsInv

LEMMA AccEnd ==
    ASSUME AccountsInv, NEW r \in AccountRequests
    PROVE  /\ Accounts!UserOf(r) \in AccountUsers
           /\ accountsAccount[Accounts!UserOf(r)] \in Accounts!Account
           /\ accountsRequest[r] \in Accounts!Request
           /\ AccountKnown(Accounts!UserOf(r)) /\ RequestKnown(r)
           /\ Accounts!End(r) => \E w \in Accounts!Request : /\ accountsRequest' = [accountsRequest EXCEPT ![r] = w]
                                           /\ w.user = Accounts!UserOf(r) /\ w.pc = "idle"
           /\ \A label \in Accounts!Labels : Accounts!GoTo(r, label) =>
                 \E w \in Accounts!Request : /\ accountsRequest' = [accountsRequest EXCEPT ![r] = w]
                                    /\ w.user = Accounts!UserOf(r) /\ w.pc = label
           /\ \A row \in Accounts!Account : UNCHANGED accountsAccount /\
                row = accountsAccount[Accounts!UserOf(r)] => Accounts!Update(r, row)
           /\ \A kind \in {"access", "change", "factor"} :
                 Accounts!Sign(Accounts!UserOf(r), kind) =>
                     accountsSigned' \in [AccountUsers -> SUBSET {"access", "change", "factor"}]
           /\ accountsSigned \in [AccountUsers -> SUBSET {"access", "change", "factor"}]
           /\ accountsTokens \in Accounts!Token /\ accountsEnded \in [AccountUsers -> BOOLEAN]
  <1>1. /\ accountsRequest \in [AccountRequests -> Accounts!Request]
        /\ accountsAccount \in [AccountUsers -> Accounts!Account]
        /\ Accounts!UserOf(r) \in AccountUsers
    BY DEF AccountsInv, Accounts!TypeOK, Accounts!UserOf, Accounts!Request
  <1>2. Accounts!End(r) => \E w \in Accounts!Request : /\ accountsRequest' = [accountsRequest EXCEPT ![r] = w]
                                     /\ w.user = Accounts!UserOf(r) /\ w.pc = "idle"
    BY <1>1, AccRows DEF Accounts!End
  <1>3. ASSUME NEW label \in Accounts!Labels, Accounts!GoTo(r, label)
        PROVE  \E w \in Accounts!Request : /\ accountsRequest' = [accountsRequest EXCEPT ![r] = w]
                                  /\ w.user = Accounts!UserOf(r) /\ w.pc = label
    <2> DEFINE w == [accountsRequest[r] EXCEPT !.pc = label]
    <2>1. w \in Accounts!Request /\ w.user = Accounts!UserOf(r) /\ w.pc = label
      BY <1>1 DEF Accounts!Request, Accounts!UserOf
    <2>2. accountsRequest' = [accountsRequest EXCEPT ![r] = w]
      BY <1>3 DEF Accounts!GoTo
    <2> HIDE DEF w
    <2> QED
      BY <2>1, <2>2
  <1>4. ASSUME NEW kind \in {"access", "change", "factor"}, Accounts!Sign(Accounts!UserOf(r), kind)
        PROVE  accountsSigned' \in [AccountUsers -> SUBSET {"access", "change", "factor"}]
    BY <1>1, <1>4 DEF Accounts!Sign, AccountsInv, Accounts!TypeOK
  <1>5. ASSUME NEW row \in Accounts!Account, UNCHANGED accountsAccount,
               row = accountsAccount[Accounts!UserOf(r)]
        PROVE  Accounts!Update(r, row)
    BY <1>1, <1>5 DEF Accounts!Update
  <1> QED
    BY <1>1, <1>2, <1>3, <1>4, <1>5 DEF AccountsInv, Accounts!TypeOK

LEMMA AccResume ==
    ASSUME AccountsInv, NEW r \in AccountRequests, Accounts!Resume(r)
    PROVE  AccountsInv'
  <1> DEFINE u == Accounts!UserOf(r)
  <1>0. /\ u \in AccountUsers /\ accountsAccount[u] \in Accounts!Account
        /\ accountsRequest[r] \in Accounts!Request
        /\ AccountKnown(u) /\ RequestKnown(r)
        /\ "idle" \in Accounts!Labels /\ "issue" \in Accounts!Labels
    BY AccEnd DEF Accounts!Labels
  <1>1. CASE Accounts!Accept(r)
    <2> DEFINE row == [accountsAccount[u] EXCEPT !.password = TRUE, !.status = "ACTIVE",
          !.invite = 0]
    <2>1. /\ row \in Accounts!Account /\ row.must = accountsAccount[u].must
          /\ row.refresh = accountsAccount[u].refresh
          /\ row.temporary = accountsAccount[u].temporary
          /\ row.status \in {accountsAccount[u].status, "ACTIVE"}
      BY <1>0, AccRows DEF Accounts!Account, Accounts!Statuses
    <2>2. Accounts!Update(r, row)
      BY <1>1 DEF Accounts!Accept
    <2>3. PICK w \in Accounts!Request : /\ accountsRequest' = [accountsRequest EXCEPT ![r] = w]
                              /\ w.user = Accounts!UserOf(r) /\ w.pc = "idle"
      BY <1>1, AccEnd DEF Accounts!Accept
    <2> HIDE DEF row
    <2> QED
      BY <1>0, <1>1, <2>1, <2>2, <2>3, AccEnd, AccResumed DEF Accounts!Accept, Accounts!Exists,
         AccountKnown, Entering
  <1>2. CASE Accounts!ResetPassword(r)
    <2> DEFINE row == [accountsAccount[u] EXCEPT !.password = TRUE]
    <2>1. /\ row \in Accounts!Account /\ row.must = accountsAccount[u].must
          /\ row.refresh = accountsAccount[u].refresh
          /\ row.temporary = accountsAccount[u].temporary
          /\ row.status \in {accountsAccount[u].status, "ACTIVE"}
      BY <1>0, AccRows DEF Accounts!Account, Accounts!Statuses
    <2>2. Accounts!Update(r, row)
      BY <1>2 DEF Accounts!ResetPassword
    <2>3. PICK w \in Accounts!Request : /\ accountsRequest' = [accountsRequest EXCEPT ![r] = w]
                              /\ w.user = Accounts!UserOf(r) /\ w.pc = "idle"
      BY <1>2, AccEnd DEF Accounts!ResetPassword
    <2> HIDE DEF row
    <2> QED
      BY <1>0, <1>2, <2>1, <2>2, <2>3, AccEnd, AccResumed DEF Accounts!ResetPassword,
         Accounts!Exists, AccountKnown, Entering
  <1>3. CASE Accounts!Save2FA(r)
    <2> DEFINE row == [accountsAccount[u] EXCEPT !.twoFactor = TRUE, !.secret = TRUE]
    <2>1. /\ row \in Accounts!Account /\ row.must = accountsAccount[u].must
          /\ row.refresh = accountsAccount[u].refresh
          /\ row.temporary = accountsAccount[u].temporary
          /\ row.status \in {accountsAccount[u].status, "ACTIVE"}
      BY <1>0, AccRows DEF Accounts!Account, Accounts!Statuses
    <2>2. Accounts!Update(r, row)
      BY <1>3 DEF Accounts!Save2FA
    <2>3. PICK w \in Accounts!Request : /\ accountsRequest' = [accountsRequest EXCEPT ![r] = w]
                              /\ w.user = Accounts!UserOf(r) /\ w.pc = "idle"
      BY <1>3, AccEnd DEF Accounts!Save2FA
    <2> HIDE DEF row
    <2> QED
      BY <1>0, <1>3, <2>1, <2>2, <2>3, AccEnd, AccResumed DEF Accounts!Save2FA, Accounts!Exists,
         AccountKnown, Entering
  <1>4. CASE Accounts!Disable2FA(r)
    <2> DEFINE row == [accountsAccount[u] EXCEPT !.twoFactor = FALSE, !.secret = FALSE]
    <2>1. /\ row \in Accounts!Account /\ row.must = accountsAccount[u].must
          /\ row.refresh = accountsAccount[u].refresh
          /\ row.temporary = accountsAccount[u].temporary
          /\ row.status \in {accountsAccount[u].status, "ACTIVE"}
      BY <1>0, AccRows DEF Accounts!Account, Accounts!Statuses
    <2>2. Accounts!Update(r, row)
      BY <1>4 DEF Accounts!Disable2FA
    <2>3. PICK w \in Accounts!Request : /\ accountsRequest' = [accountsRequest EXCEPT ![r] = w]
                              /\ w.user = Accounts!UserOf(r) /\ w.pc = "idle"
      BY <1>4, AccEnd DEF Accounts!Disable2FA
    <2> HIDE DEF row
    <2> QED
      BY <1>0, <1>4, <2>1, <2>2, <2>3, AccEnd, AccResumed DEF Accounts!Disable2FA,
         Accounts!Exists, AccountKnown, Entering
  <1>5. CASE Accounts!Login(r)
    <2>0. accountsRequest[r].pc = "compare"
      BY <1>5 DEF Accounts!Login
    <2>1. CASE accountsRequest[r].must /\ Accounts!Sign(u, "change") /\ Accounts!End(r) /\
            UNCHANGED <<accountsAccount, accountsTokens, accountsEnded>>
      <3>1. PICK w \in Accounts!Request : /\ accountsRequest' = [accountsRequest EXCEPT ![r] = w]
                                 /\ w.user = Accounts!UserOf(r) /\ w.pc = "idle"
        BY <2>1, AccEnd
      <3>2. Accounts!Update(r, accountsAccount[u])
        BY <1>0, <2>1, AccEnd
      <3> QED
        BY <1>0, <2>0, <2>1, <3>1, <3>2, AccEnd, AccResumed DEF Accounts!Exists, AccountKnown,
           Entering
    <2>2. CASE /\ ~accountsRequest[r].must /\ accountsTokens < MaxTokens
               /\ accountsTokens' = accountsTokens + 1
               /\ Accounts!Update(r, [accountsAccount[u] EXCEPT !.temporary = accountsTokens + 1])
               /\ Accounts!Sign(u, "factor") /\ Accounts!End(r) /\ UNCHANGED accountsEnded
      <3> DEFINE row == [accountsAccount[u] EXCEPT !.temporary = accountsTokens + 1]
      <3>0. accountsTokens' \in Accounts!Token
        BY <2>2, AccRows, AccEnd
      <3>1. /\ row \in Accounts!Account /\ row.must = accountsAccount[u].must
            /\ row.refresh = accountsAccount[u].refresh
            /\ row.status = accountsAccount[u].status
        BY <1>0, <2>2, <3>0 DEF Accounts!Account
      <3>2. Accounts!Update(r, row) /\ ~accountsAccount[u].must
        BY <1>0, <2>0, <2>2 DEF RequestKnown
      <3>3. PICK w \in Accounts!Request : /\ accountsRequest' = [accountsRequest EXCEPT ![r] = w]
                                 /\ w.user = Accounts!UserOf(r) /\ w.pc = "idle"
        BY <2>2, AccEnd
      <3> HIDE DEF row
      <3> QED
        BY <1>0, <2>0, <2>2, <3>0, <3>1, <3>2, <3>3, AccEnd, AccResumed DEF Accounts!Exists,
           AccountKnown, Entering
    <2>3. CASE ~accountsRequest[r].must /\ Accounts!GoTo(r, "issue") /\
            UNCHANGED <<accountsAccount, accountsSigned, accountsTokens, accountsEnded>>
      <3>1. PICK w \in Accounts!Request : /\ accountsRequest' = [accountsRequest EXCEPT ![r] = w]
                                 /\ w.user = Accounts!UserOf(r) /\ w.pc = "issue"
        BY <1>0, <2>3, AccEnd
      <3>2. Accounts!Update(r, accountsAccount[u])
        BY <1>0, <2>3, AccEnd
      <3> QED
        BY <1>0, <2>0, <2>3, <3>1, <3>2, AccEnd, AccResumed
           DEF Accounts!Exists, AccountKnown, RequestKnown, Entering
    <2> QED
      BY <1>5, <2>1, <2>2, <2>3 DEF Accounts!Login
  <1>6. CASE Accounts!ChangeTemporaryPassword(r)
    <2> DEFINE row == [accountsAccount[u] EXCEPT !.password = TRUE, !.must = FALSE]
    <2>1. /\ row \in Accounts!Account /\ ~row.must /\ row.refresh = accountsAccount[u].refresh
          /\ row.temporary = accountsAccount[u].temporary /\ row.status = accountsAccount[u].status
      BY <1>0 DEF Accounts!Account
    <2>2. Accounts!Update(r, row) /\ accountsRequest[r].pc = "change"
      BY <1>6 DEF Accounts!ChangeTemporaryPassword
    <2>3. PICK w \in Accounts!Request : /\ accountsRequest' = [accountsRequest EXCEPT ![r] = w]
                               /\ w.user = Accounts!UserOf(r)
                               /\ w.pc = IF Accounts!Exists(u) THEN "issue" ELSE "idle"
      BY <1>0, <1>6, AccEnd DEF Accounts!ChangeTemporaryPassword
    <2> HIDE DEF row
    <2> QED
      BY <1>0, <1>6, <2>1, <2>2, <2>3, AccEnd, AccResumed
         DEF Accounts!ChangeTemporaryPassword, Accounts!Exists, AccountKnown, RequestKnown, Entering
  <1>7. CASE Accounts!Verify2FA(r)
    <2>0. accountsRequest[r].pc = "verify" /\ ~accountsAccount[u].must /\ ~accountsEnded[u]
      BY <1>0, <1>7 DEF Accounts!Verify2FA, RequestKnown, Entering
    <2>1. CASE Accounts!End(r) /\ UNCHANGED accountsAccount
      <3>1. PICK w \in Accounts!Request : /\ accountsRequest' = [accountsRequest EXCEPT ![r] = w]
                                 /\ w.user = Accounts!UserOf(r) /\ w.pc = "idle"
        BY <2>1, AccEnd
      <3>2. Accounts!Update(r, accountsAccount[u])
        BY <1>0, <2>1, AccEnd
      <3> QED
        BY <1>0, <1>7, <2>0, <2>1, <3>1, <3>2, AccEnd, AccResumed
           DEF Accounts!Verify2FA, Accounts!Exists, AccountKnown, Entering
    <2>2. CASE /\ Accounts!Update(r,
                    [accountsAccount[u] EXCEPT !.twoFactor = TRUE, !.temporary = 0])
               /\ IF Accounts!Exists(u) THEN Accounts!GoTo(r, "issue") ELSE Accounts!End(r)
      <3> DEFINE row == [accountsAccount[u] EXCEPT !.twoFactor = TRUE, !.temporary = 0]
      <3>1. /\ row \in Accounts!Account /\ row.must = accountsAccount[u].must
            /\ row.refresh = accountsAccount[u].refresh
            /\ row.status = accountsAccount[u].status
        BY <1>0, AccRows DEF Accounts!Account
      <3>2. Accounts!Update(r, row)
        BY <2>2
      <3>3. PICK w \in Accounts!Request : /\ accountsRequest' = [accountsRequest EXCEPT ![r] = w]
                                 /\ w.user = Accounts!UserOf(r)
                                 /\ w.pc = IF Accounts!Exists(u) THEN "issue" ELSE "idle"
        BY <1>0, <2>2, AccEnd
      <3> HIDE DEF row
      <3> QED
        BY <1>0, <1>7, <2>0, <3>1, <3>2, <3>3, AccEnd, AccResumed
           DEF Accounts!Verify2FA, Accounts!Exists, AccountKnown, Entering
    <2> QED
      BY <1>7, <2>1, <2>2 DEF Accounts!Verify2FA
  <1>8. CASE Accounts!Refresh(r)
    <2>0. accountsRequest[r].pc = "rotate" /\ ~accountsAccount[u].must /\ ~accountsEnded[u]
      BY <1>0, <1>8 DEF Accounts!Refresh, RequestKnown, Entering
    <2>1. PICK w \in Accounts!Request : /\ accountsRequest' = [accountsRequest EXCEPT ![r] = w]
                               /\ w.user = Accounts!UserOf(r) /\ w.pc = "issue"
      BY <1>0, <1>8, AccEnd DEF Accounts!Refresh
    <2>2. Accounts!Update(r, accountsAccount[u])
      BY <1>0, <1>8, AccEnd DEF Accounts!Refresh
    <2> QED
      BY <1>0, <1>8, <2>0, <2>1, <2>2, AccEnd, AccResumed DEF Accounts!Refresh, Accounts!Exists,
         AccountKnown, Entering
  <1>9. CASE Accounts!IssueTokens(r)
    <2> DEFINE row == [accountsAccount[u] EXCEPT !.refresh = TRUE]
    <2>0. accountsRequest[r].pc = "issue" /\ ~accountsAccount[u].must /\ ~accountsEnded[u]
      BY <1>0, <1>9 DEF Accounts!IssueTokens, RequestKnown, Entering
    <2>1. row \in Accounts!Account /\ row.must = accountsAccount[u].must /\
            row.status = accountsAccount[u].status
      BY <1>0 DEF Accounts!Account
    <2>2. Accounts!Update(r, row)
      BY <1>9 DEF Accounts!IssueTokens
    <2>3. PICK w \in Accounts!Request : /\ accountsRequest' = [accountsRequest EXCEPT ![r] = w]
                               /\ w.user = Accounts!UserOf(r) /\ w.pc = "idle"
      BY <1>9, AccEnd DEF Accounts!IssueTokens
    <2>4. accountsSigned' \in [AccountUsers -> SUBSET {"access", "change", "factor"}]
      BY <1>9, AccEnd DEF Accounts!IssueTokens
    <2> HIDE DEF row
    <2> QED
      BY <1>0, <1>9, <2>0, <2>1, <2>2, <2>3, <2>4, AccEnd, AccResumed
         DEF Accounts!IssueTokens, Accounts!Exists, AccountKnown, Entering
  <1>10. CASE Accounts!Logout(r)
    <2> DEFINE row == [accountsAccount[u] EXCEPT !.refresh = FALSE]
    <2>0. accountsRequest[r].pc = "leave"
      BY <1>10 DEF Accounts!Logout
    <2>1. /\ row \in Accounts!Account /\ row.must = accountsAccount[u].must
          /\ row.status = accountsAccount[u].status
          /\ ~row.refresh /\ row.temporary = accountsAccount[u].temporary
      BY <1>0 DEF Accounts!Account
    <2>2. Accounts!Update(r, row)
      BY <1>10 DEF Accounts!Logout
    <2>3. PICK w \in Accounts!Request : /\ accountsRequest' = [accountsRequest EXCEPT ![r] = w]
                               /\ w.user = Accounts!UserOf(r) /\ w.pc = "idle"
      BY <1>10, AccEnd DEF Accounts!Logout
    <2>4. /\ accountsEnded' \in [AccountUsers -> BOOLEAN]
          /\ \A v \in AccountUsers : accountsEnded'[v] => accountsEnded[v] \/ v = u
          /\ accountsEnded'[u] /\ ~accountsEnded[u] => Accounts!UnderWay(u) = {r}
      BY <1>0, <1>10, AccEnd DEF Accounts!Logout
    <2>5. accountsEnded'[u] /\ ~accountsEnded[u] =>
             \A q \in AccountRequests \ {r} : Accounts!UserOf(q) # Accounts!UserOf(r) \/
                 accountsRequest[q].pc = "idle"
      BY <2>4 DEF Accounts!UnderWay
    <2> HIDE DEF row
    <2>6. /\ accountsSigned' \in [AccountUsers -> SUBSET {"access", "change", "factor"}]
          /\ accountsTokens' \in Accounts!Token
          /\ AccountKnown(u)
      BY <1>0, <1>10, AccEnd DEF Accounts!Logout
    <2>7. w.pc \notin Entering /\ w.pc \notin {"verify", "rotate", "issue"} /\ w.pc # "compare"
      BY <2>3 DEF Entering
    <2>8. /\ Accounts!Exists(u) => row.status \notin {"absent", "deleted"}
          /\ Accounts!Exists(u) /\ (row.refresh \/ row.temporary # 0) => ~row.must
      BY <2>1, <2>6 DEF Accounts!Exists, AccountKnown
    <2> QED
      BY <1>0, <2>0, <2>1, <2>2, <2>3, <2>4, <2>5, <2>6, <2>7, <2>8, AccResumed
  <1> QED
    BY <1>1, <1>2, <1>3, <1>4, <1>5, <1>6, <1>7, <1>8, <1>9, <1>10 DEF Accounts!Resume

LEMMA AccStep == AccountsInv /\ [Accounts!Next]_(Accounts!vars) => AccountsInv'
  <1> SUFFICES ASSUME AccountsInv, [Accounts!Next]_(Accounts!vars) PROVE AccountsInv'
    OBVIOUS
  <1>1. CASE UNCHANGED Accounts!vars
    BY <1>1 DEF Accounts!vars, AccountsInv, Accounts!TypeOK, AccountKnown, RequestKnown,
       Accounts!Exists, Accounts!UserOf
  <1> QED
    BY <1>1, AccAdminister, AccReceive, AccResume DEF Accounts!Next

LEMMA AccHolds == AccountsInv =>
    Accounts!TypeOK /\ Accounts!OwnPasswordFirst /\ Accounts!SignOutStands
  BY DEF AccountsInv, AccountKnown, Accounts!OwnPasswordFirst, Accounts!SignOutStands
-----------------------------------------------------------------------------
(* Module permissions.                                                    *)

\* What a save has done so far is about its own users.
WithinGrant(s) ==
    /\ permissionsSave[s].todo \subseteq permissionsSave[s].users
    /\ permissionsSave[s].pc \in {"lock", "insert"} =>
         permissionsSave[s].user \in permissionsSave[s].users \ permissionsSave[s].todo
    /\ permissionsSave[s].pc = "lock" =>
         \A v \in permissionsSave[s].seen : v[1][1] = permissionsSave[s].user
    /\ permissionsSave[s].pc = "commit" => permissionsSave[s].todo = {}
    /\ \A x \in permissionsSave[s].removed : x[1] \in permissionsSave[s].users
    /\ \A x \in permissionsSave[s].written : x[1] \in permissionsSave[s].users /\
         x[2] \in permissionsSave[s].modules

Reached(s, u, labels) == u \notin permissionsSave[s].todo /\
    ~(permissionsSave[s].pc \in labels /\ permissionsSave[s].user = u)

\* As long as nobody overtakes it, a save has seen, and then removed, every row
\* its user has, and has written the new ones.
Exact(s, u) ==
    /\ permissionsSave[s].pc = "lock" /\ permissionsSave[s].user = u =>
         \A m \in Modules : permissionsPermission[<<u, m>>] # None =>
            <<<<u, m>>, permissionsPermission[<<u, m>>]>> \in permissionsSave[s].seen
    /\ Reached(s, u, {"lock"}) =>
         \A m \in Modules : permissionsPermission[<<u, m>>] # None =>
             <<u, m>> \in permissionsSave[s].removed
    /\ Reached(s, u, {"lock", "insert"}) =>
         \A m \in permissionsSave[s].modules : <<u, m>> \in permissionsSave[s].written

\* The committed rows are of the last save, and of saves that are done.
Stands(u) ==
    permissionsLast[u] # None =>
       /\ permissionsSave[permissionsLast[u]].pc = "done"
       /\ <<permissionsLast[u], u>> \notin permissionsOvertaken =>
            \A m \in Modules : permissionsPermission[<<u, m>>] =
                IF m \in permissionsSave[permissionsLast[u]].modules THEN permissionsLast[u]
                ELSE None
Attributed(x) ==
    permissionsPermission[x] # None =>
       /\ permissionsSave[permissionsPermission[x]].pc = "done"
       /\ x[1] \in permissionsSave[permissionsPermission[x]].users
       /\ x[2] \in permissionsSave[permissionsPermission[x]].modules

PermissionsInv ==
    /\ ModulePermissions!TypeOK
    /\ \A s \in PermissionSaves : ModulePermissions!Open(s) => WithinGrant(s)
    /\ \A s \in PermissionSaves : ModulePermissions!Open(s) =>
          \A u \in permissionsSave[s].users : <<s, u>> \notin permissionsOvertaken => Exact(s, u)
    /\ \A u \in PermissionUsers : Stands(u)
    /\ \A x \in ModulePermissions!Rows : Attributed(x)

LEMMA PermRows ==
    /\ ModulePermissions!NoSave \in ModulePermissions!Save /\ ModulePermissions!NoSave.pc = "idle"
    /\ \A s \in PermissionSaves : s # None
  BY ComponentsAssumption DEF ModulePermissions!NoneAssumption, ModulePermissions!NoSave,
     ModulePermissions!GrantsAssumption, ModulePermissions!Save, ModulePermissions!Labels

LEMMA PermInit == ModulePermissions!Init => PermissionsInv
  <1> SUFFICES ASSUME ModulePermissions!Init PROVE PermissionsInv
    OBVIOUS
  <1>1. ModulePermissions!TypeOK
    BY PermRows DEF ModulePermissions!Init, ModulePermissions!TypeOK
  <1>2. \A s \in PermissionSaves : ~ModulePermissions!Open(s)
    BY PermRows DEF ModulePermissions!Init, ModulePermissions!Open
  <1> QED
    BY <1>1, <1>2 DEF ModulePermissions!Init, PermissionsInv, Stands, Attributed

\* A step of a save under way that commits nothing.
LEMMA PermQuiet ==
    ASSUME PermissionsInv, NEW s \in PermissionSaves, NEW w \in ModulePermissions!Save,
           permissionsSave' = [permissionsSave EXCEPT ![s] = w],
           UNCHANGED <<permissionsPermission, permissionsLast, permissionsOvertaken>>,
           permissionsSave[s].pc # "done", w.pc # "done",
           ModulePermissions!Open(s)' =>
               WithinGrant(s)' /\ \A u \in w.users : <<s, u>> \notin permissionsOvertaken =>
                   Exact(s, u)'
    PROVE  PermissionsInv'
  <1>1. ModulePermissions!TypeOK /\ permissionsSave \in [PermissionSaves -> ModulePermissions!Save]
    BY DEF PermissionsInv, ModulePermissions!TypeOK
  <1>2. ModulePermissions!TypeOK'
    BY <1>1 DEF ModulePermissions!TypeOK
  <1>3. ASSUME NEW t \in PermissionSaves, t # s
        PROVE  /\ ModulePermissions!Open(t)' = ModulePermissions!Open(t)
               /\ WithinGrant(t)' = WithinGrant(t) /\ permissionsSave'[t] = permissionsSave[t]
               /\ \A u \in permissionsSave[t].users : Exact(t, u)' = Exact(t, u)
    BY <1>1, <1>3 DEF ModulePermissions!Open, WithinGrant, Exact, Reached
  <1>4. permissionsSave'[s] = w
    BY <1>1
  <1>5. ASSUME NEW t \in PermissionSaves, permissionsSave[t].pc = "done"
          PROVE permissionsSave'[t] = permissionsSave[t]
    BY <1>1, <1>5
  <1>6. ASSUME NEW u \in PermissionUsers PROVE Stands(u)'
    <2>1. Stands(u) /\ permissionsLast[u] \in PermissionSaves \cup {None}
      BY <1>1 DEF PermissionsInv, ModulePermissions!TypeOK
    <2> QED
      BY <2>1, <1>5 DEF Stands
  <1>7. ASSUME NEW x \in ModulePermissions!Rows PROVE Attributed(x)'
    <2>1. Attributed(x) /\ permissionsPermission[x] \in PermissionSaves \cup {None}
      BY <1>1 DEF PermissionsInv, ModulePermissions!TypeOK
    <2> QED
      BY <2>1, <1>5 DEF Attributed
  <1> QED
    BY <1>2, <1>3, <1>4, <1>6, <1>7 DEF PermissionsInv

LEMMA PermStep == PermissionsInv /\ [ModulePermissions!Next]_(ModulePermissions!vars) =>
    PermissionsInv'
  <1> SUFFICES ASSUME PermissionsInv, [ModulePermissions!Next]_(ModulePermissions!vars)
        PROVE PermissionsInv'
    OBVIOUS
  <1>0. /\ ModulePermissions!TypeOK
        /\ permissionsSave \in [PermissionSaves -> ModulePermissions!Save]
        /\ permissionsPermission \in [ModulePermissions!Rows -> PermissionSaves \cup {None}]
        /\ \A s \in PermissionSaves : ModulePermissions!Open(s) => WithinGrant(s)
    BY DEF PermissionsInv, ModulePermissions!TypeOK
  <1>1. CASE UNCHANGED ModulePermissions!vars
    <2>1. ModulePermissions!TypeOK'
      BY <1>0, <1>1 DEF ModulePermissions!vars, ModulePermissions!TypeOK
    <2>2. \A s \in PermissionSaves : /\ ModulePermissions!Open(s)' = ModulePermissions!Open(s)
                                     /\ WithinGrant(s)' = WithinGrant(s)
                                     /\ \A u \in permissionsSave[s].users : Exact(s, u)' = Exact(s, u)
      BY <1>1 DEF ModulePermissions!vars, ModulePermissions!Open, WithinGrant, Exact, Reached
    <2>3. \A u \in PermissionUsers : Stands(u)' = Stands(u)
      BY <1>1 DEF ModulePermissions!vars, Stands
    <2>4. \A x \in ModulePermissions!Rows : Attributed(x)' = Attributed(x)
      BY <1>1 DEF ModulePermissions!vars, Attributed
    <2> QED
      BY <1>1, <2>1, <2>2, <2>3, <2>4 DEF ModulePermissions!vars, PermissionsInv
  <1>2. ASSUME NEW s \in PermissionSaves, ModulePermissions!Begin(s) PROVE PermissionsInv'
    <2>1. PICK targets \in (SUBSET (PermissionUsers \ Admins)) \ {{}}, modules \in SUBSET Modules,
               actions \in [Modules -> ActionGrants] :
             permissionsSave' = [permissionsSave EXCEPT ![s] = [ModulePermissions!NoSave EXCEPT !.pc = "delete",
                        !.users = targets, !.todo = targets, !.modules = modules,
                        !.actions = actions]]
      BY <1>2 DEF ModulePermissions!Begin
    <2> DEFINE w == [ModulePermissions!NoSave EXCEPT !.pc = "delete", !.users = targets,
          !.todo = targets, !.modules = modules, !.actions = actions]
    <2>2. /\ w \in ModulePermissions!Save /\ w.pc = "delete" /\ w.users = targets
          /\ w.todo = targets
          /\ w.modules = modules /\ w.removed = {} /\ w.written = {}
      BY PermRows DEF ModulePermissions!NoSave, ModulePermissions!Save, ModulePermissions!Labels
    <2>3. permissionsSave' = [permissionsSave EXCEPT ![s] = w] /\ permissionsSave[s].pc = "idle"
      BY <1>2, <2>1 DEF ModulePermissions!Begin
    <2> HIDE DEF w
    <2>4. permissionsSave'[s] = w
      BY <1>0, <2>3
    <2>5. WithinGrant(s)' /\ \A u \in w.users : Exact(s, u)'
      BY <2>2, <2>4 DEF WithinGrant, Exact, Reached
    <2> QED
      BY <1>2, <2>2, <2>3, <2>5, PermQuiet DEF ModulePermissions!Begin
  <1>3. ASSUME NEW s \in PermissionSaves, ModulePermissions!BeginDelete(s) PROVE PermissionsInv'
    <2>1. PICK u \in permissionsSave[s].todo :
             permissionsSave' = [permissionsSave EXCEPT ![s].pc = "lock", ![s].todo = @ \ {u},
                 ![s].user = u,
                                  ![s].seen = ModulePermissions!Committed(u)]
      BY <1>3 DEF ModulePermissions!BeginDelete
    <2>0. ModulePermissions!Open(s) /\ permissionsSave[s].pc = "delete" /\ WithinGrant(s) /\
            permissionsSave[s] \in ModulePermissions!Save
      BY <1>0, <1>3 DEF ModulePermissions!BeginDelete, ModulePermissions!Open
    <2>2. u \in PermissionUsers /\ u \in permissionsSave[s].users
      BY <2>0 DEF ModulePermissions!Save, WithinGrant
    <2>3. ModulePermissions!Committed(u) \in SUBSET (ModulePermissions!Rows \X PermissionSaves)
      BY <1>0, <2>2 DEF ModulePermissions!Committed
    <2> DEFINE w == [permissionsSave[s] EXCEPT !.pc = "lock", !.todo = @ \ {u}, !.user = u,
                                    !.seen = ModulePermissions!Committed(u)]
    <2>4. /\ w \in ModulePermissions!Save /\ w.pc = "lock"
          /\ w.todo = permissionsSave[s].todo \ {u} /\ w.user = u
          /\ w.seen = ModulePermissions!Committed(u) /\ w.users = permissionsSave[s].users
          /\ w.modules = permissionsSave[s].modules
          /\ w.removed = permissionsSave[s].removed /\ w.written = permissionsSave[s].written
      BY <2>0, <2>2, <2>3 DEF ModulePermissions!Save, ModulePermissions!Labels
    <2>5. permissionsSave' = [permissionsSave EXCEPT ![s] = w]
      BY <2>1
    <2> HIDE DEF w
    <2>6. permissionsSave'[s] = w
      BY <1>0, <2>5
    <2>7. \A v \in ModulePermissions!Committed(u) : v[1][1] = u
      BY DEF ModulePermissions!Committed
    <2>8. WithinGrant(s)'
      BY <2>0, <2>2, <2>4, <2>6, <2>7 DEF WithinGrant
    <2>9. ASSUME NEW v \in w.users, <<s, v>> \notin permissionsOvertaken PROVE Exact(s, v)'
      <3>1. Exact(s, v)
        BY <2>0, <2>4, <2>9 DEF PermissionsInv
      <3>2. \A m \in Modules : permissionsPermission[<<u, m>>] # None =>
               <<<<u, m>>, permissionsPermission[<<u, m>>]>> \in ModulePermissions!Committed(u)
        BY <2>2 DEF ModulePermissions!Committed, ModulePermissions!Rows
      <3> QED
        BY <1>3, <2>0, <2>4, <2>6, <3>1, <3>2 DEF ModulePermissions!BeginDelete, Exact, Reached
    <2> QED
      BY <1>3, <2>0, <2>4, <2>5, <2>8, <2>9, PermQuiet DEF ModulePermissions!BeginDelete
  <1>4. ASSUME NEW s \in PermissionSaves, ModulePermissions!DeleteRows(s) PROVE PermissionsInv'
    <2> DEFINE gone == {v[1] : v \in {y \in permissionsSave[s].seen :
          permissionsPermission[y[1]] = y[2]}}
               w == [permissionsSave[s] EXCEPT !.pc = "insert", !.removed = @ \cup gone]
    <2>0. ModulePermissions!Open(s) /\ permissionsSave[s].pc = "lock" /\ WithinGrant(s) /\
            permissionsSave[s] \in ModulePermissions!Save
      BY <1>0, <1>4 DEF ModulePermissions!DeleteRows, ModulePermissions!Open
    <2>1. gone \subseteq ModulePermissions!Rows /\ \A x \in gone : x[1] = permissionsSave[s].user
      BY <2>0 DEF ModulePermissions!Save, WithinGrant
    <2>2. permissionsSave' = [permissionsSave EXCEPT ![s] = w]
      BY <1>4 DEF ModulePermissions!DeleteRows
    <2>3. \A m \in Modules : permissionsPermission[<<permissionsSave[s].user, m>>] # None
             /\ <<<<permissionsSave[s].user, m>>,
                  permissionsPermission[<<permissionsSave[s].user,
                      m>>]>> \in permissionsSave[s].seen =>
             <<permissionsSave[s].user, m>> \in gone
      OBVIOUS
    <2> HIDE DEF gone
    <2>4. /\ w \in ModulePermissions!Save /\ w.pc = "insert"
          /\ w.removed = permissionsSave[s].removed \cup gone
          /\ w.todo = permissionsSave[s].todo /\ w.user = permissionsSave[s].user
          /\ w.users = permissionsSave[s].users /\ w.modules = permissionsSave[s].modules
          /\ w.written = permissionsSave[s].written
      BY <2>0, <2>1 DEF ModulePermissions!Save, ModulePermissions!Labels
    <2> HIDE DEF w
    <2>5. permissionsSave'[s] = w
      BY <1>0, <2>2
    <2>6. WithinGrant(s)'
      BY <2>0, <2>1, <2>4, <2>5 DEF WithinGrant
    <2>7. ASSUME NEW v \in w.users, <<s, v>> \notin permissionsOvertaken PROVE Exact(s, v)'
      <3>1. Exact(s, v)
        BY <2>0, <2>4, <2>7 DEF PermissionsInv
      <3> QED
        BY <1>4, <2>0, <2>3, <2>4, <2>5, <3>1 DEF ModulePermissions!DeleteRows, Exact, Reached
    <2> QED
      BY <1>4, <2>0, <2>2, <2>4, <2>6, <2>7, PermQuiet DEF ModulePermissions!DeleteRows
  <1>5. ASSUME NEW s \in PermissionSaves, ModulePermissions!InsertRows(s) PROVE PermissionsInv'
    <2> DEFINE label == IF permissionsSave[s].todo = {} THEN "commit" ELSE "delete"
               w == [permissionsSave[s] EXCEPT !.pc = label,
                   !.written = @ \cup ModulePermissions!Inserted(s)]
    <2>0. ModulePermissions!Open(s) /\ permissionsSave[s].pc = "insert" /\ WithinGrant(s) /\
            permissionsSave[s] \in ModulePermissions!Save
      BY <1>0, <1>5 DEF ModulePermissions!InsertRows, ModulePermissions!Open
    <2>1. /\ ModulePermissions!Inserted(s) \subseteq ModulePermissions!Rows
          /\ \A x \in ModulePermissions!Inserted(s) : x[1] = permissionsSave[s].user /\
               x[2] \in permissionsSave[s].modules
      BY <2>0 DEF ModulePermissions!Save, WithinGrant, ModulePermissions!Inserted,
         ModulePermissions!New, ModulePermissions!Rows
    <2>2. permissionsSave' = [permissionsSave EXCEPT ![s] = w]
      BY <1>5 DEF ModulePermissions!InsertRows
    <2>3. /\ w \in ModulePermissions!Save /\ w.pc = label
          /\ w.written = permissionsSave[s].written \cup ModulePermissions!Inserted(s)
          /\ w.todo = permissionsSave[s].todo /\ w.user = permissionsSave[s].user
          /\ w.users = permissionsSave[s].users /\ w.modules = permissionsSave[s].modules
          /\ w.removed = permissionsSave[s].removed
      BY <2>0, <2>1 DEF ModulePermissions!Save, ModulePermissions!Labels
    <2> HIDE DEF w
    <2>4. permissionsSave'[s] = w
      BY <1>0, <2>2
    <2>5. WithinGrant(s)'
      BY <2>0, <2>1, <2>3, <2>4 DEF WithinGrant
    <2>6. ASSUME NEW v \in w.users, <<s, v>> \notin permissionsOvertaken PROVE Exact(s, v)'
      <3>1. Exact(s, v)
        BY <2>0, <2>3, <2>6 DEF PermissionsInv
      <3>2. CASE v = permissionsSave[s].user
        <4>1. \A m \in Modules : permissionsPermission[<<v, m>>] # None =>
                <<v, m>> \in permissionsSave[s].removed
          BY <2>0, <3>1, <3>2 DEF Exact, Reached, WithinGrant
        <4>2. \A m \in permissionsSave[s].modules : <<v, m>> \in ModulePermissions!Inserted(s)
          BY <2>0, <3>2, <4>1 DEF ModulePermissions!Inserted, ModulePermissions!New,
             ModulePermissions!Save
        <4>3. UNCHANGED permissionsPermission
          BY <1>5 DEF ModulePermissions!InsertRows
        <4>4. /\ permissionsSave'[s].pc # "lock"
              /\ permissionsSave'[s].removed = permissionsSave[s].removed
              /\ permissionsSave'[s].modules = permissionsSave[s].modules
              /\ ModulePermissions!Inserted(s) \subseteq permissionsSave'[s].written
          BY <2>3, <2>4
        <4> QED
          BY <4>1, <4>2, <4>3, <4>4 DEF Exact
      <3>3. CASE v # permissionsSave[s].user
        BY <1>5, <2>0, <2>3, <2>4, <3>1, <3>3 DEF ModulePermissions!InsertRows, Exact, Reached
      <3> QED
        BY <3>2, <3>3
    <2> QED
      BY <1>5, <2>0, <2>2, <2>3, <2>5, <2>6, PermQuiet DEF ModulePermissions!InsertRows
  <1>6. ASSUME NEW s \in PermissionSaves, ModulePermissions!Commit(s) PROVE PermissionsInv'
    <2> DEFINE w == [ModulePermissions!NoSave EXCEPT !.pc = "done",
          !.users = permissionsSave[s].users, !.modules = permissionsSave[s].modules,
          !.actions = permissionsSave[s].actions]
    <2>0. /\ ModulePermissions!Open(s) /\ permissionsSave[s].pc = "commit" /\ WithinGrant(s)
          /\ permissionsSave[s] \in ModulePermissions!Save
          /\ permissionsSave[s].todo = {}
      BY <1>0, <1>6 DEF ModulePermissions!Commit, ModulePermissions!Open, WithinGrant
    <2>1. w \in ModulePermissions!Save /\ w.pc = "done" /\ w.users = permissionsSave[s].users /\
            w.modules = permissionsSave[s].modules
      BY <2>0, PermRows DEF ModulePermissions!NoSave, ModulePermissions!Save,
         ModulePermissions!Labels
    <2>2. permissionsSave' = [permissionsSave EXCEPT ![s] = w]
      BY <1>6 DEF ModulePermissions!Commit
    <2> HIDE DEF w
    <2>3. /\ permissionsSave'[s] = w /\ ~ModulePermissions!Open(s)'
          /\ \A t \in PermissionSaves \ {s} : permissionsSave'[t] = permissionsSave[t] /\
               ModulePermissions!Open(t)' = ModulePermissions!Open(t) /\
                   WithinGrant(t)' = WithinGrant(t)
      BY <1>0, <2>1, <2>2 DEF ModulePermissions!Open, WithinGrant
    <2>4. \A x \in ModulePermissions!Rows :
            permissionsPermission'[x] = IF x \in permissionsSave[s].written THEN s
                             ELSE IF x \in permissionsSave[s].removed THEN None
                                 ELSE permissionsPermission[x]
      BY <1>6 DEF ModulePermissions!Commit
    <2>5. ModulePermissions!TypeOK'
      <3>1. permissionsPermission' \in [ModulePermissions!Rows -> PermissionSaves \cup {None}]
        BY <1>0, <1>6 DEF ModulePermissions!Commit
      <3>2. permissionsLast' \in [PermissionUsers -> PermissionSaves \cup {None}]
        BY <1>0, <1>6 DEF ModulePermissions!Commit, ModulePermissions!TypeOK
      <3>3. permissionsOvertaken' \subseteq PermissionSaves \X PermissionUsers
        BY <1>0, <1>6 DEF ModulePermissions!Commit, ModulePermissions!TypeOK
      <3> QED
        BY <1>0, <2>1, <2>2, <3>1, <3>2, <3>3 DEF ModulePermissions!TypeOK
    <2>6. \A u \in PermissionUsers \ permissionsSave[s].users : \A m \in Modules :
             permissionsPermission'[<<u, m>>] = permissionsPermission[<<u, m>>]
      BY <2>0, <2>4 DEF WithinGrant, ModulePermissions!Rows
    <2>7. /\ permissionsOvertaken \subseteq permissionsOvertaken'
          /\ \A t \in PermissionSaves \ {s} : ModulePermissions!Open(t) =>
                \A u \in permissionsSave[t].users \cap permissionsSave[s].users :
                    u \in PermissionUsers => <<t, u>> \in permissionsOvertaken'
      BY <1>6 DEF ModulePermissions!Commit
    <2>8. ASSUME NEW t \in PermissionSaves, t # s, ModulePermissions!Open(t),
                 NEW u \in permissionsSave[t].users,
                 <<t, u>> \notin permissionsOvertaken'
          PROVE  Exact(t, u)'
      <3>1. u \in PermissionUsers /\ u \notin permissionsSave[s].users /\ Exact(t, u)
        BY <1>0, <2>7, <2>8 DEF PermissionsInv, ModulePermissions!Save
      <3> QED
        BY <2>3, <2>6, <2>8, <3>1 DEF Exact, Reached
    <2>9. ASSUME NEW u \in PermissionUsers PROVE Stands(u)'
      <3>1. permissionsLast'[u] = IF u \in permissionsSave[s].users THEN s ELSE permissionsLast[u]
        BY <1>6 DEF ModulePermissions!Commit
      <3>2. CASE u \notin permissionsSave[s].users
        <4>1. Stands(u) /\ permissionsLast[u] \in PermissionSaves \cup {None}
          BY <1>0 DEF PermissionsInv, ModulePermissions!TypeOK
        <4>2. permissionsLast[u] # None => permissionsLast[u] # s
          BY <2>0, <4>1 DEF Stands
        <4> QED
          BY <2>3, <2>6, <2>7, <3>1, <3>2, <4>1, <4>2 DEF Stands
      <3>3. CASE u \in permissionsSave[s].users
        <4>1. permissionsSave'[permissionsLast'[u]] = w
          BY <2>3, <3>1, <3>3
        <4>2. ASSUME <<s, u>> \notin permissionsOvertaken', NEW m \in Modules
              PROVE  permissionsPermission'[<<u, m>>] =
                       IF m \in permissionsSave[s].modules THEN s ELSE None
          <5>1. Exact(s, u)
            BY <2>0, <2>7, <3>3, <4>2 DEF PermissionsInv
          <5>2. /\ permissionsPermission[<<u, m>>] # None => <<u, m>> \in permissionsSave[s].removed
                /\ <<u, m>> \in permissionsSave[s].written <=> m \in permissionsSave[s].modules
            BY <2>0, <5>1 DEF Exact, Reached, WithinGrant
          <5> QED
            BY <2>4, <5>2, PermRows DEF ModulePermissions!Rows
        <4> QED
          BY <2>1, <3>1, <3>3, <4>1, <4>2 DEF Stands
      <3> QED
        BY <3>2, <3>3
    <2>10. ASSUME NEW x \in ModulePermissions!Rows PROVE Attributed(x)'
      <3>1. CASE x \in permissionsSave[s].written
        <4>1. permissionsPermission'[x] = s /\ x[1] \in permissionsSave[s].users /\
                x[2] \in permissionsSave[s].modules
          BY <2>0, <2>4, <3>1 DEF WithinGrant
        <4> QED
          BY <2>1, <2>3, <4>1 DEF Attributed
      <3>2. CASE x \notin permissionsSave[s].written
        <4>1. Attributed(x) /\ permissionsPermission[x] \in PermissionSaves \cup {None}
          BY <1>0 DEF PermissionsInv
        <4>2. permissionsPermission'[x] # None =>
                permissionsPermission'[x] = permissionsPermission[x]
          BY <2>4, <3>2
        <4>3. permissionsPermission[x] # None => permissionsPermission[x] # s
          BY <2>0, <4>1 DEF Attributed
        <4> QED
          BY <2>3, <4>1, <4>2, <4>3 DEF Attributed
      <3> QED
        BY <3>1, <3>2
    <2>11. \A t \in PermissionSaves : ModulePermissions!Open(t)' =>
             t # s /\ ModulePermissions!Open(t) /\ WithinGrant(t)' /\
                 permissionsSave'[t] = permissionsSave[t]
      BY <1>0, <2>3
    <2> QED
      BY <2>5, <2>8, <2>9, <2>10, <2>11 DEF PermissionsInv
  <1>7. ASSUME NEW s \in PermissionSaves, ModulePermissions!Abort(s) PROVE PermissionsInv'
    <2> DEFINE w == [ModulePermissions!NoSave EXCEPT !.pc = "failed"]
    <2>1. w \in ModulePermissions!Save /\ w.pc = "failed"
      BY PermRows DEF ModulePermissions!NoSave, ModulePermissions!Save, ModulePermissions!Labels
    <2>2. permissionsSave' = [permissionsSave EXCEPT ![s] = w] /\ permissionsSave[s].pc # "done"
      BY <1>7 DEF ModulePermissions!Abort, ModulePermissions!Open
    <2> HIDE DEF w
    <2>3. ~ModulePermissions!Open(s)'
      BY <1>0, <2>1, <2>2 DEF ModulePermissions!Open
    <2> QED
      BY <1>7, <2>1, <2>2, <2>3, PermQuiet DEF ModulePermissions!Abort
  <1> QED
    BY <1>1, <1>2, <1>3, <1>4, <1>5, <1>6, <1>7 DEF ModulePermissions!Next

LEMMA PermHolds == PermissionsInv => ModulePermissions!TypeOK /\ ModulePermissions!LastSaveStands
  <1> SUFFICES ASSUME PermissionsInv PROVE ModulePermissions!LastSaveStands
    BY DEF PermissionsInv
  <1>1. ASSUME NEW u \in PermissionUsers, permissionsLast[u] # None,
               <<permissionsLast[u], u>> \notin permissionsOvertaken,
               NEW required \in (SUBSET Modules) \ {{}}, NEW action \in Actions \cup {None}
        PROVE  ModulePermissions!CanActivate(u, "EMPLOYEE", FALSE, required, action) <=>
                 ModulePermissions!Answering(permissionsLast[u], required, action) # {}
    <2> DEFINE t == permissionsLast[u]
               allows(m) == action \in ModulePermissions!Granted(t, m) \cup {None}
    <2>1. t # None /\ \A m \in Modules : permissionsPermission[<<u, m>>] =
            IF m \in permissionsSave[t].modules THEN t ELSE None
      BY <1>1 DEF PermissionsInv, Stands
    <2>2. \A m \in required : permissionsPermission[<<u, m>>] # None /\
             ModulePermissions!Allows(ModulePermissions!ActionsOf(u, m), action) <=>
               m \in permissionsSave[t].modules /\ allows(m)
      <3>1. \A m \in required : m \in Modules /\
              (permissionsPermission[<<u, m>>] # None <=> m \in permissionsSave[t].modules)
        BY <2>1
      <3>2. ASSUME NEW m \in required, m \in permissionsSave[t].modules
            PROVE  ModulePermissions!Allows(ModulePermissions!ActionsOf(u, m), action) <=> allows(m)
        <4>1. ModulePermissions!ActionsOf(u, m) = permissionsSave[t].actions[m]
          BY <2>1, <3>1, <3>2 DEF ModulePermissions!ActionsOf
        <4>2. \A given : ModulePermissions!Allows(given, action) <=>
                action \in (IF given = {} THEN Actions ELSE given) \cup {None}
          BY DEF ModulePermissions!Allows
        <4> QED
          BY <4>1, <4>2 DEF ModulePermissions!Granted
      <3> HIDE DEF allows, t
      <3> QED
        BY <3>1, <3>2
    <2>3. ModulePermissions!CanActivate(u, "EMPLOYEE", FALSE, required, action) <=>
            \E m \in required : permissionsPermission[<<u, m>>] # None /\
              ModulePermissions!Allows(ModulePermissions!ActionsOf(u, m), action)
      <3> DEFINE passes(m) == permissionsPermission[<<u, m>>] # None /\
                   ModulePermissions!Allows(ModulePermissions!ActionsOf(u, m), action)
      <3>1. ModulePermissions!CanActivate(u, "EMPLOYEE", FALSE, required, action) <=>
              \/ required = {}
              \/ "EMPLOYEE" = "ADMIN"
              \/ required \cap {"overtime", "leaves"} # {} /\ ("EMPLOYEE" = "LEADER" \/ FALSE)
              \/ \E m \in required \cap Modules : passes(m)
        BY DEF ModulePermissions!CanActivate
      <3> HIDE DEF passes
      <3>2. "EMPLOYEE" # "ADMIN" /\ "EMPLOYEE" # "LEADER"
        OBVIOUS
      <3>4. required # {} /\ required \cap Modules = required
        OBVIOUS
      <3>5. ModulePermissions!CanActivate(u, "EMPLOYEE", FALSE, required, action) <=>
              \E m \in required \cap Modules : passes(m)
        BY <3>1, <3>2, <3>4, Zenon
      <3>3. ModulePermissions!CanActivate(u, "EMPLOYEE", FALSE, required, action) <=>
              \E m \in required : passes(m)
        BY <3>4, <3>5, Zenon
      <3> QED
        BY <3>3 DEF passes
    <2>4. ModulePermissions!Answering(t, required, action) # {} <=>
            \E m \in required : m \in permissionsSave[t].modules /\ allows(m)
      BY DEF ModulePermissions!Answering
    <2> HIDE DEF t, allows
    <2>5. ModulePermissions!CanActivate(u, "EMPLOYEE", FALSE, required, action) <=>
            ModulePermissions!Answering(t, required, action) # {}
      BY <2>2, <2>3, <2>4
    <2> QED
      BY <2>5 DEF t
  <1> QED
    BY <1>1 DEF PermissionsInv, ModulePermissions!LastSaveStands, Attributed
-----------------------------------------------------------------------------
(* The scope of who leads.                                                *)

LEMMA ScopeInit == Authorization!Init => Authorization!TypeOK
  BY DEF Authorization!Init, Authorization!TypeOK, Authorization!Person, Authorization!Roles

LEMMA ScopeStep == Authorization!TypeOK /\ [Authorization!Next]_(Authorization!vars) =>
    Authorization!TypeOK'
  <1> SUFFICES ASSUME Authorization!TypeOK, [Authorization!Next]_(Authorization!vars)
        PROVE Authorization!TypeOK'
    OBVIOUS
  <1>1. CASE UNCHANGED Authorization!vars
    BY <1>1 DEF Authorization!vars, Authorization!TypeOK
  <1>2. ASSUME NEW p \in People, Authorization!UpdateUserAdministrator(p)
          PROVE Authorization!TypeOK'
    <2>1. authorizationPerson[p] \in Authorization!Person
      BY DEF Authorization!TypeOK
    <2> DEFINE changed(row) == authorizationPerson' = [authorizationPerson EXCEPT ![p] = row]
    <2>2. \A row \in Authorization!Person : changed(row) => Authorization!TypeOK'
      BY DEF Authorization!TypeOK
    <2>3. CASE \E q \in People \cup {None} :
            authorizationPerson' = [authorizationPerson EXCEPT ![p].leader = q]
      <3>1. PICK q \in People \cup {None} : changed([authorizationPerson[p] EXCEPT !.leader = q])
        BY <2>3
      <3>2. [authorizationPerson[p] EXCEPT !.leader = q] \in Authorization!Person
        BY <2>1 DEF Authorization!Person
      <3> QED
        BY <2>2, <3>1, <3>2
    <2>4. CASE \E q \in People \cup {None} :
            authorizationPerson' = [authorizationPerson EXCEPT ![p].manager = q]
      <3>1. PICK q \in People \cup {None} : changed([authorizationPerson[p] EXCEPT !.manager = q])
        BY <2>4
      <3>2. [authorizationPerson[p] EXCEPT !.manager = q] \in Authorization!Person
        BY <2>1 DEF Authorization!Person
      <3> QED
        BY <2>2, <3>1, <3>2
    <2>5. CASE \E role \in Authorization!Roles :
            authorizationPerson' = [authorizationPerson EXCEPT ![p].role = role]
      <3>1. PICK role \in Authorization!Roles :
              changed([authorizationPerson[p] EXCEPT !.role = role])
        BY <2>5
      <3>2. [authorizationPerson[p] EXCEPT !.role = role] \in Authorization!Person
        BY <2>1 DEF Authorization!Person
      <3> QED
        BY <2>2, <3>1, <3>2
    <2>6. CASE \E leads \in BOOLEAN :
            authorizationPerson' = [authorizationPerson EXCEPT ![p].leads = leads]
      <3>1. PICK leads \in BOOLEAN : changed([authorizationPerson[p] EXCEPT !.leads = leads])
        BY <2>6
      <3>2. [authorizationPerson[p] EXCEPT !.leads = leads] \in Authorization!Person
        BY <2>1 DEF Authorization!Person
      <3> QED
        BY <2>2, <3>1, <3>2
    <2> QED
      BY <1>2, <2>3, <2>4, <2>5, <2>6 DEF Authorization!UpdateUserAdministrator
  <1> QED
    BY <1>1, <1>2 DEF Authorization!Next

\* Of every organisation.
LEMMA ScopeHolds == Authorization!ListedIsAccessible
  <1>1. ASSUME NEW actor \in People, NEW target \in Authorization!ScopeForUserQuery(actor)
        PROVE  \/ Authorization!CanAccessUser(actor, target)
               \/ Authorization!Leads(actor) /\
                    Authorization!CanReviewRequest(actor, authorizationPerson[target].leader)
    BY <1>1 DEF Authorization!ScopeForUserQuery, Authorization!CanAccessUser,
       Authorization!CanReviewRequest
  <1>3. ASSUME NEW actor \in People, Authorization!Leads(actor), NEW target \in People,
               Authorization!CanReviewRequest(actor, authorizationPerson[target].leader)
        PROVE  target \in Authorization!ScopeForUserQuery(actor)
    BY <1>3 DEF Authorization!ScopeForUserQuery, Authorization!CanReviewRequest
  <1>2. ASSUME NEW actor \in People, Authorization!Is(actor, "EMPLOYEE"), NEW target \in People
        PROVE  Authorization!CanAccessUser(actor, target) <=> target = actor
    BY <1>2 DEF Authorization!Is, Authorization!CanAccessUser
  <1> QED
    BY <1>1, <1>2, <1>3 DEF Authorization!ListedIsAccessible
-----------------------------------------------------------------------------
(* Staff records.                                                         *)

\* What ImportTellsFate says of one user.
Fate(d) ==
    LET named == {i \in StaffRecords!Written(d) : staffSheet[i].name # Blank}
    IN  /\ staffUser[d].name = IF named = {} THEN Blank
             ELSE staffSheet[StaffRecords!Max(named)].name
        /\ staffUser[d].entity <=> \E i \in StaffRecords!Written(d) : staffSheet[i].entity = "known"
        /\ staffUser[d].allowance <=>
             StaffRecords!Written(d) # {} /\
                 staffSheet[StaffRecords!Max(StaffRecords!Written(d))].allowance

Permitted(i) ==
    /\ StaffRecords!Made(i) =>
        staffSheet[i].cc \in StaffDocuments /\ staffSheet[i].entity # "strange"
    /\ i \in staffUnheard => staffResults[i] = "error"

StaffInv ==
    /\ StaffRecords!TypeOK
    /\ \A d \in StaffDocuments : Fate(d)
    /\ \A i \in DOMAIN staffResults : Permitted(i)

\* The highest of a set and something above it is what is above.
LEMMA StaffMax ==
    ASSUME NEW S, S \subseteq Nat, NEW n \in Nat, \A i \in S : i < n
    PROVE  StaffRecords!Max(S \cup {n}) = n
  <1> DEFINE T == S \cup {n}
  <1>0. n \in T /\ \A j \in T : n >= j
    OBVIOUS
  <1>1. \E i \in T : \A j \in T : i >= j
    BY <1>0
  <1>2. StaffRecords!Max(T) \in T /\ \A j \in T : StaffRecords!Max(T) >= j
    BY <1>1 DEF StaffRecords!Max
  <1>3. \A m \in T : (\A j \in T : m >= j) => m = n
    BY <1>0
  <1> QED
    BY <1>2, <1>3

LEMMA StaffInit == StaffRecords!Init => StaffInv
  <1> SUFFICES ASSUME StaffRecords!Init PROVE StaffInv
    OBVIOUS
  <1>1. StaffRecords!TypeOK
    BY ComponentsAssumption DEF StaffRecords!Init, StaffRecords!TypeOK, StaffRecords!Record,
       StaffRecords!RowsAssumption
  <1>2. DOMAIN staffResults = {}
    BY DEF StaffRecords!Init
  <1>3. \A d \in StaffDocuments : StaffRecords!Written(d) = {}
    BY <1>2 DEF StaffRecords!Written
  <1>4. \A d \in StaffDocuments : Fate(d)
    BY <1>3 DEF StaffRecords!Init, Fate
  <1> QED
    BY <1>1, <1>2, <1>4 DEF StaffInv

\* What a row of the file does to the rows there were.
LEMMA StaffRow ==
    ASSUME StaffRecords!TypeOK, NEW d \in StaffDocuments, Len(staffResults) < Len(staffSheet),
           UNCHANGED staffSheet,
           NEW outcome \in StaffRecords!Outcome, staffResults' = Append(staffResults, outcome),
           NEW lost \in BOOLEAN,
           staffUnheard' = IF lost THEN staffUnheard \cup {Len(staffResults) + 1} ELSE staffUnheard
    PROVE  /\ StaffRecords!Current \in StaffRecords!Row
           /\ staffResults' \in Seq(StaffRecords!Outcome) /\ Len(staffResults') <= Len(staffSheet)
           /\ DOMAIN staffResults' = DOMAIN staffResults \cup {Len(staffResults) + 1}
           /\ staffResults'[Len(staffResults) + 1] = outcome
           /\ \A i \in DOMAIN staffResults : staffResults'[i] = staffResults[i] /\
                i < Len(staffResults) + 1
           /\ DOMAIN staffResults \subseteq Nat
           /\ staffUnheard' \subseteq DOMAIN staffResults'
           /\ Len(staffResults) + 1 \in staffUnheard' <=> lost
           /\ \A i \in DOMAIN staffResults' :
                StaffRecords!Made(i)' <=>
                  IF i = Len(staffResults) + 1 THEN outcome = "updated" \/ lost
                  ELSE StaffRecords!Made(i)
           /\ \A i \in DOMAIN staffResults : i \in staffUnheard' <=> i \in staffUnheard
           /\ StaffRecords!Written(d) \subseteq DOMAIN staffResults
           /\ StaffRecords!Written(d)' = IF (outcome = "updated" \/ lost) /\ StaffRecords!Current.cc = d
                            THEN StaffRecords!Written(d) \cup {Len(staffResults) + 1}
                                ELSE StaffRecords!Written(d)
  <1>1. /\ StaffRecords!Current \in StaffRecords!Row
        /\ DOMAIN staffResults = 1 .. Len(staffResults) /\ Len(staffResults) \in Nat
        /\ staffResults' \in Seq(StaffRecords!Outcome) /\ Len(staffResults') = Len(staffResults) + 1
        /\ DOMAIN staffResults' = 1 .. Len(staffResults')
        /\ staffResults'[Len(staffResults) + 1] = outcome
        /\ \A i \in DOMAIN staffResults : staffResults'[i] = staffResults[i] /\
             i < Len(staffResults) + 1
        /\ Len(staffSheet) \in Nat
    BY DEF StaffRecords!TypeOK, StaffRecords!Current
  <1>2. DOMAIN staffResults' = DOMAIN staffResults \cup {Len(staffResults) + 1}
    BY <1>1
  <1>7. /\ staffUnheard' \subseteq DOMAIN staffResults'
        /\ Len(staffResults) + 1 \in staffUnheard' <=> lost
        /\ \A i \in DOMAIN staffResults : i \in staffUnheard' <=> i \in staffUnheard
    BY <1>1, <1>2 DEF StaffRecords!TypeOK
  <1>8. ASSUME NEW i \in DOMAIN staffResults'
        PROVE  StaffRecords!Made(i)' <=>
                 IF i = Len(staffResults) + 1 THEN outcome = "updated" \/ lost
                 ELSE StaffRecords!Made(i)
    BY <1>1, <1>2, <1>7 DEF StaffRecords!Made
  <1>3. \A i : i \in StaffRecords!Written(d)' <=>
          i \in DOMAIN staffResults' /\ StaffRecords!Made(i)' /\ staffSheet[i].cc = d
    BY DEF StaffRecords!Written
  <1>4. \A i : i \in StaffRecords!Written(d) <=>
          i \in DOMAIN staffResults /\ StaffRecords!Made(i) /\ staffSheet[i].cc = d
    BY DEF StaffRecords!Written
  <1>5. Len(staffResults) + 1 \notin DOMAIN staffResults
    BY <1>1
  <1>6. StaffRecords!Written(d)' = IF (outcome = "updated" \/ lost) /\ StaffRecords!Current.cc = d
                      THEN StaffRecords!Written(d) \cup {Len(staffResults) + 1}
                          ELSE StaffRecords!Written(d)
    <2>1. \A i : i \in StaffRecords!Written(d)' <=>
            \/ i \in StaffRecords!Written(d)
            \/ /\ i = Len(staffResults) + 1
               /\ outcome = "updated" \/ lost
               /\ StaffRecords!Current.cc = d
      BY <1>1, <1>2, <1>3, <1>4, <1>5, <1>8 DEF StaffRecords!Current
    <2>2. CASE (outcome = "updated" \/ lost) /\ StaffRecords!Current.cc = d
      BY <2>1, <2>2
    <2>3. CASE ~((outcome = "updated" \/ lost) /\ StaffRecords!Current.cc = d)
      BY <2>1, <2>3
    <2> QED
      BY <2>2, <2>3
  <1> QED
    BY <1>1, <1>2, <1>4, <1>6, <1>7, <1>8

LEMMA StaffStep == StaffInv /\ [StaffRecords!Next]_(StaffRecords!vars) => StaffInv'
  <1> SUFFICES ASSUME StaffInv, [StaffRecords!Next]_(StaffRecords!vars) PROVE StaffInv'
    OBVIOUS
  <1>1. CASE UNCHANGED StaffRecords!vars
    <2>1. \A d \in StaffDocuments : StaffRecords!Written(d)' = StaffRecords!Written(d)
      BY <1>1 DEF StaffRecords!vars, StaffRecords!Written, StaffRecords!Made
    <2>2. \A d \in StaffDocuments : Fate(d)' = Fate(d)
      BY <1>1, <2>1 DEF StaffRecords!vars, Fate
    <2>3. StaffRecords!TypeOK'
      BY <1>1 DEF StaffRecords!vars, StaffInv, StaffRecords!TypeOK
    <2> QED
      BY <1>1, <2>2, <2>3 DEF StaffRecords!vars, StaffInv, Permitted, StaffRecords!Made
  <1>2. CASE StaffRecords!ReadSheet
    <2>1. staffSheet' \in Seq(StaffRecords!Row) /\ Len(staffSheet') <= MaxRows /\
            staffResults = <<>> /\ UNCHANGED <<staffUser, staffResults, staffUnheard>>
      <3>1. PICK m \in 0 .. MaxRows : staffSheet' \in [1 .. m -> StaffRecords!Row]
        BY <1>2 DEF StaffRecords!ReadSheet, StaffRecords!BoundedSeq, StaffRecords!SeqOf
      <3>2. m \in Nat
        BY <3>1, ComponentsAssumption DEF StaffRecords!RowsAssumption
      <3> QED
        BY <1>2, <3>1, <3>2 DEF StaffRecords!ReadSheet, StaffInv, StaffRecords!TypeOK
    <2>2. StaffRecords!TypeOK'
      BY <2>1 DEF StaffInv, StaffRecords!TypeOK
    <2>3. DOMAIN staffResults = {} /\ DOMAIN staffResults' = {}
      BY <2>1
    <2>4. \A d \in StaffDocuments : StaffRecords!Written(d) = {} /\ StaffRecords!Written(d)' = {}
      BY <2>3 DEF StaffRecords!Written
    <2>5. ASSUME NEW d \in StaffDocuments PROVE Fate(d)'
      <3>1. Fate(d) /\ StaffRecords!Written(d) = {} /\ StaffRecords!Written(d)' = {} /\
              staffUser' = staffUser
        BY <2>1, <2>4 DEF StaffInv
      <3> QED
        BY <3>1 DEF Fate
    <2> QED
      BY <2>2, <2>3, <2>5 DEF StaffInv
  <1>3. CASE StaffRecords!UpdateRow
    <2> DEFINE n == Len(staffResults) + 1
               row == StaffRecords!Applied(staffUser[StaffRecords!Current.cc], StaffRecords!Current)
    <2>8. PICK lost \in BOOLEAN :
            /\ staffResults' = Append(staffResults, IF lost THEN "error" ELSE "updated")
            /\ staffUnheard' = IF lost THEN staffUnheard \cup {n} ELSE staffUnheard
      BY <1>3 DEF StaffRecords!UpdateRow
    <2> DEFINE outcome == IF lost THEN "error" ELSE "updated"
    <2>0. /\ StaffRecords!TypeOK /\ Len(staffResults) < Len(staffSheet) /\ UNCHANGED staffSheet
          /\ staffResults' = Append(staffResults, outcome) /\ outcome \in StaffRecords!Outcome
          /\ outcome = "updated" \/ lost
          /\ lost => outcome = "error"
          /\ StaffRecords!Current = staffSheet[n]
      BY <1>3, <2>8 DEF StaffRecords!UpdateRow, StaffInv, StaffRecords!Outcome, StaffRecords!Current
    <2> HIDE DEF outcome
    <2>1. n \in Nat /\ StaffRecords!Current \in StaffRecords!Row
      BY <2>0 DEF StaffRecords!TypeOK, StaffRecords!Current
    <2>2. StaffRecords!Current.cc \in StaffDocuments /\ StaffRecords!Current.entity # "strange"
      BY <1>3, <2>1 DEF StaffRecords!UpdateRow, StaffRecords!Refusal, StaffRecords!Row
    <2>3. /\ staffUser' = [staffUser EXCEPT ![StaffRecords!Current.cc] = row]
          /\ row.name = IF StaffRecords!Current.name = Blank
               THEN staffUser[StaffRecords!Current.cc].name ELSE StaffRecords!Current.name
          /\ row.entity <=>
               staffUser[StaffRecords!Current.cc].entity \/ StaffRecords!Current.entity = "known"
          /\ row.allowance = StaffRecords!Current.allowance
          /\ row \in StaffRecords!Record
      BY <1>3, <2>0, <2>1, <2>2 DEF StaffRecords!UpdateRow, StaffRecords!Applied,
         StaffRecords!Record, StaffRecords!Row, StaffRecords!TypeOK
    <2> HIDE DEF row
    <2>4. StaffRecords!TypeOK'
      BY <2>0, <2>2, <2>3, <2>8, StaffRow DEF StaffRecords!TypeOK
    <2>5. /\ DOMAIN staffResults' = DOMAIN staffResults \cup {n} /\ staffResults'[n] = outcome
          /\ \A i \in DOMAIN staffResults : staffResults'[i] = staffResults[i] /\ i < n
          /\ n \in staffUnheard' <=> lost
          /\ \A i \in DOMAIN staffResults :
               /\ i # n => (StaffRecords!Made(i)' <=> StaffRecords!Made(i))
               /\ i \in staffUnheard' <=> i \in staffUnheard
          /\ DOMAIN staffResults \subseteq Nat
          /\ \A d \in StaffDocuments : /\ StaffRecords!Written(d) \subseteq DOMAIN staffResults
                                  /\ StaffRecords!Written(d)' = IF StaffRecords!Current.cc = d
                                       THEN StaffRecords!Written(d) \cup {n}
                                           ELSE StaffRecords!Written(d)
      BY <2>0, <2>2, <2>8, StaffRow
    <2>6. \A i \in DOMAIN staffResults' :
             /\ StaffRecords!Made(i)' =>
                  staffSheet'[i].cc \in StaffDocuments /\ staffSheet'[i].entity # "strange"
             /\ i \in staffUnheard' => staffResults'[i] = "error"
      BY <2>0, <2>2, <2>5 DEF StaffInv, Permitted
    <2> HIDE DEF n
    <2>7. ASSUME NEW d \in StaffDocuments PROVE Fate(d)'
      <3> DEFINE before == {i \in StaffRecords!Written(d) : staffSheet[i].name # Blank}
      <3>1. /\ staffUser[d].name = IF before = {} THEN Blank
                 ELSE staffSheet[StaffRecords!Max(before)].name
            /\ staffUser[d].entity <=>
                 \E i \in StaffRecords!Written(d) : staffSheet[i].entity = "known"
            /\ staffUser[d].allowance <=>
                 StaffRecords!Written(d) # {} /\
                     staffSheet[StaffRecords!Max(StaffRecords!Written(d))].allowance
        BY DEF StaffInv, Fate
      <3>2. CASE StaffRecords!Current.cc # d
        <4>1. staffUser'[d] = staffUser[d] /\
                StaffRecords!Written(d)' = StaffRecords!Written(d) /\ staffSheet' = staffSheet
          BY <2>0, <2>3, <2>5, <3>2 DEF StaffRecords!TypeOK
        <4>2. Fate(d)
          BY DEF StaffInv
        <4> QED
          BY <4>1, <4>2 DEF Fate
      <3>3. CASE StaffRecords!Current.cc = d
        <4>1. staffUser'[d] = row /\
                StaffRecords!Written(d)' = StaffRecords!Written(d) \cup {n} /\
                    staffSheet' = staffSheet
          BY <2>0, <2>2, <2>3, <2>5, <3>3 DEF StaffRecords!TypeOK
        <4>2. StaffRecords!Max(StaffRecords!Written(d) \cup {n}) = n
          BY <2>1, <2>5, StaffMax
        <4>3. StaffRecords!Max(before \cup {n}) = n
          BY <2>1, <2>5, StaffMax
        <4>4. {i \in StaffRecords!Written(d) \cup {n} : staffSheet[i].name # Blank} =
                 IF StaffRecords!Current.name = Blank THEN before ELSE before \cup {n}
          BY <2>0
        <4>5. row.allowance <=>
                StaffRecords!Written(d)' # {} /\
                    staffSheet'[StaffRecords!Max(StaffRecords!Written(d)')].allowance
          BY <2>0, <2>3, <4>1, <4>2
        <4>6. row.entity <=> \E i \in StaffRecords!Written(d)' : staffSheet'[i].entity = "known"
          BY <2>0, <2>3, <3>1, <3>3, <4>1
        <4>7. {i \in StaffRecords!Written(d)' : staffSheet'[i].name # Blank} =
                 IF StaffRecords!Current.name = Blank THEN before ELSE before \cup {n}
          BY <4>1, <4>4
        <4>8. before \cup {n} # {} /\ staffSheet'[n] = StaffRecords!Current
          BY <2>0, <4>1 DEF n
        <4>9. row.name = LET named == {i \in StaffRecords!Written(d)' : staffSheet'[i].name # Blank}
                         IN  IF named = {} THEN Blank ELSE staffSheet'[StaffRecords!Max(named)].name
          BY <2>3, <3>1, <3>3, <4>1, <4>3, <4>7, <4>8
        <4> QED
          BY <4>1, <4>5, <4>6, <4>9 DEF Fate
      <3> QED
        BY <3>2, <3>3
    <2> QED
      BY <2>4, <2>6, <2>7 DEF StaffInv, Permitted
  <1>4. CASE StaffRecords!RefuseRow
    <2>0. /\ StaffRecords!TypeOK /\ Len(staffResults) < Len(staffSheet)
          /\ UNCHANGED <<staffUser, staffSheet, staffUnheard>>
          /\ staffUnheard' = IF FALSE THEN staffUnheard \cup {Len(staffResults) + 1} ELSE staffUnheard
          /\ StaffRecords!Current \in StaffRecords!Row
      BY <1>4 DEF StaffRecords!RefuseRow, StaffInv, StaffRecords!TypeOK, StaffRecords!Current
    <2>1. PICK outcome \in StaffRecords!Outcome \ {"updated"} :
            staffResults' = Append(staffResults, outcome)
      BY <1>4, <2>0 DEF StaffRecords!RefuseRow, StaffRecords!Refusal, StaffRecords!Outcome,
         StaffRecords!Row
    <2>2. \A d \in StaffDocuments : StaffRecords!Written(d)' = StaffRecords!Written(d)
      BY <2>0, <2>1, StaffRow
    <2>4. /\ DOMAIN staffResults' = DOMAIN staffResults \cup {Len(staffResults) + 1}
          /\ staffResults'[Len(staffResults) + 1] # "updated"
          /\ Len(staffResults) + 1 \notin DOMAIN staffResults
          /\ \A i \in DOMAIN staffResults : staffResults'[i] = staffResults[i]
          /\ staffUnheard \subseteq DOMAIN staffResults
      BY <2>0, <2>1 DEF StaffRecords!TypeOK
    <2>3. StaffRecords!TypeOK'
      <3>1. staffResults' \in Seq(StaffRecords!Outcome) /\ Len(staffResults') <= Len(staffSheet)
        BY <2>0, <2>1 DEF StaffRecords!TypeOK
      <3> QED
        BY <2>0, <2>4, <3>1 DEF StaffRecords!TypeOK
    <2>5. ASSUME NEW d \in StaffDocuments PROVE Fate(d)'
      <3>1. Fate(d) /\ StaffRecords!Written(d)' = StaffRecords!Written(d) /\
              staffUser' = staffUser /\ staffSheet' = staffSheet
        BY <2>0, <2>2 DEF StaffInv
      <3> QED
        BY <3>1 DEF Fate
    <2>6. ASSUME NEW i \in DOMAIN staffResults' PROVE Permitted(i)'
      <3>1. CASE i \in DOMAIN staffResults
        BY <2>0, <2>4, <3>1 DEF StaffInv, Permitted, StaffRecords!Made
      <3>2. CASE i = Len(staffResults) + 1
        BY <2>0, <2>4, <3>2 DEF Permitted, StaffRecords!Made
      <3> QED
        BY <2>4, <3>1, <3>2
    <2> QED
      BY <2>3, <2>5, <2>6 DEF StaffInv
  <1> QED
    BY <1>1, <1>2, <1>3, <1>4 DEF StaffRecords!Next

LEMMA StaffHolds == StaffInv => StaffRecords!TypeOK /\ StaffRecords!ImportTellsFate
  BY DEF StaffInv, Fate, Permitted, StaffRecords!ImportTellsFate
-----------------------------------------------------------------------------
(* Profile pictures.                                                      *)

\* A picture is stored from its upload on, and the one a profile names is of an
\* edit that has ended: no edit will take it back.
PictureInv ==
    /\ ProfilePicture!TypeOK
    /\ \A e \in Edits : pictureEdit[e] = "update" => e \in pictureImages
    /\ pictureAvatar # None /\ ~pictureUnsure =>
         pictureAvatar \in pictureImages /\ pictureEdit[pictureAvatar] = "end"

LEMMA PictureInit == ProfilePicture!Init => PictureInv
  BY DEF ProfilePicture!Init, PictureInv, ProfilePicture!TypeOK

LEMMA PictureStep == PictureInv /\ [ProfilePicture!Next]_(ProfilePicture!vars) => PictureInv'
  <1> SUFFICES ASSUME PictureInv, [ProfilePicture!Next]_(ProfilePicture!vars) PROVE PictureInv'
    OBVIOUS
  <1>1. CASE UNCHANGED ProfilePicture!vars
    BY <1>1 DEF ProfilePicture!vars, PictureInv, ProfilePicture!TypeOK
  <1>2. ASSUME NEW e \in Edits, ProfilePicture!Upload(e) PROVE PictureInv'
    BY <1>2 DEF ProfilePicture!Upload, ProfilePicture!Step, PictureInv, ProfilePicture!TypeOK
  <1>3. ASSUME NEW e \in Edits, ProfilePicture!UploadFails(e) PROVE PictureInv'
    BY <1>3 DEF ProfilePicture!UploadFails, ProfilePicture!Step, PictureInv, ProfilePicture!TypeOK
  <1>4. ASSUME NEW e \in Edits, ProfilePicture!UpdateProfile(e) PROVE PictureInv'
    BY <1>4, ComponentsAssumption DEF ProfilePicture!UpdateProfile, ProfilePicture!Step,
       PictureInv, ProfilePicture!TypeOK, ProfilePicture!NoPictureAssumption
  <1>5. ASSUME NEW e \in Edits, ProfilePicture!UpdateFails(e) PROVE PictureInv'
    BY <1>5 DEF ProfilePicture!UpdateFails, ProfilePicture!Step, PictureInv, ProfilePicture!TypeOK
  <1>6. ASSUME NEW e \in Edits, ProfilePicture!DeleteImage(e) PROVE PictureInv'
    BY <1>6 DEF ProfilePicture!DeleteImage, ProfilePicture!Step, PictureInv, ProfilePicture!TypeOK
  <1> QED
    BY <1>1, <1>2, <1>3, <1>4, <1>5, <1>6 DEF ProfilePicture!Next

LEMMA PictureHolds == PictureInv => ProfilePicture!TypeOK /\ ProfilePicture!AvatarIsStored
  BY DEF PictureInv, ProfilePicture!AvatarIsStored
-----------------------------------------------------------------------------
(* The password vault.                                                    *)

Updating(r) == vaultRequest[r].op \in {"update", "counted"}

\* An update that met no other still knows the password it read and the number of
\* versions it counted; each change of the password is a version.
VaultInv ==
    /\ PasswordVault!TypeOK
    /\ vaultVersions \in Seq(PasswordVault!Version) /\ vaultFormer \in Seq(0 .. MaxChanges)
    /\ Len(vaultVersions) = vaultChanges /\ Len(vaultFormer) = vaultChanges
    /\ \A r \in VaultRequests : vaultRequest[r].count <= vaultChanges
    /\ ~vaultCrossed =>
         /\ \A i \in 1 .. vaultChanges :
              vaultVersions[i] = [number |-> i, password |-> vaultFormer[i]]
         /\ \A r, q \in VaultRequests : Updating(r) /\ Updating(q) => r = q
         /\ \A r \in VaultRequests :
              /\ Updating(r) => vaultRequest[r].seen = vaultVault.password
              /\ vaultRequest[r].op = "counted" => vaultRequest[r].count = vaultChanges

LEMMA VaultConst == MaxChanges \in Nat /\ PasswordVault!First \in VaultGrants /\
    0 \in 0 .. MaxChanges /\ PasswordVault!Idle \in PasswordVault!Request
  BY ComponentsAssumption DEF PasswordVault!ChangesAssumption, PasswordVault!GrantsAssumption,
     PasswordVault!First, PasswordVault!Idle, PasswordVault!Request

LEMMA VaultElements ==
    ASSUME NEW S, NEW s \in Seq(S)
    PROVE  \A i \in DOMAIN s : s[i] \in S
  OBVIOUS

LEMMA VaultInit == PasswordVault!Init => VaultInv
  <1> SUFFICES ASSUME PasswordVault!Init PROVE VaultInv
    OBVIOUS
  <1>0. DOMAIN vaultVersions = {} /\ DOMAIN vaultFormer = {} /\ Len(vaultVersions) = 0
    BY DEF PasswordVault!Init
  <1>1. PasswordVault!TypeOK
    <2>1. vaultVault \in PasswordVault!Vault /\ vaultChanges \in 0 .. MaxChanges
      BY VaultConst DEF PasswordVault!Init, PasswordVault!Vault, PasswordVault!States
    <2>2. vaultRequest \in [VaultRequests -> PasswordVault!Request] /\
            vaultGrant \in [VaultGrants -> PasswordVault!Grant \cup {PasswordVault!NoGrant}]
      BY VaultConst DEF PasswordVault!Init
    <2>3. \A i \in DOMAIN vaultVersions : vaultVersions[i] \in PasswordVault!Version
      BY <1>0
    <2>4. \A i \in DOMAIN vaultFormer : vaultFormer[i] \in 0 .. MaxChanges
      BY <1>0
    <2>5. Len(vaultVersions) <= MaxChanges
      BY <1>0, VaultConst
    <2> QED
      BY <2>1, <2>2, <2>3, <2>4, <2>5 DEF PasswordVault!Init, PasswordVault!TypeOK
  <1>2. \A r \in VaultRequests : ~Updating(r) /\ vaultRequest[r].count = 0
    BY DEF PasswordVault!Init, Updating, PasswordVault!Idle
  <1>3. /\ vaultVersions = <<>> /\ vaultFormer = <<>> /\ vaultChanges = 0
        /\ vaultVersions \in Seq(PasswordVault!Version) /\ vaultFormer \in Seq(0 .. MaxChanges)
        /\ Len(vaultVersions) = 0 /\ Len(vaultFormer) = 0 /\ 1 .. vaultChanges = {}
    BY DEF PasswordVault!Init
  <1> QED
    BY <1>1, <1>2, <1>3 DEF VaultInv, Updating

\* A step that changes no password and whose request does not update.
LEMMA VaultQuiet ==
    ASSUME VaultInv, PasswordVault!TypeOK',
           UNCHANGED <<vaultVersions, vaultFormer, vaultChanges, vaultCrossed>>,
           vaultVault'.password = vaultVault.password,
           \A r \in VaultRequests : vaultRequest'[r] = vaultRequest[r] \/
               (~Updating(r)' /\ vaultRequest'[r].count = 0)
    PROVE  VaultInv'
  <1>1. /\ vaultVersions' = vaultVersions /\ vaultFormer' = vaultFormer
        /\ vaultChanges' = vaultChanges /\ vaultCrossed' = vaultCrossed
        /\ vaultChanges \in Nat
    BY VaultConst DEF VaultInv, PasswordVault!TypeOK
  <1>2. \A r \in VaultRequests :
           /\ vaultRequest'[r].count <= vaultChanges'
           /\ Updating(r)' => Updating(r) /\ vaultRequest'[r] = vaultRequest[r]
           /\ vaultRequest'[r].op = "counted" => vaultRequest'[r] = vaultRequest[r]
    BY <1>1 DEF VaultInv, Updating
  <1>3. vaultVersions' \in Seq(PasswordVault!Version) /\ vaultFormer' \in Seq(0 .. MaxChanges)
        /\ Len(vaultVersions') = vaultChanges' /\ Len(vaultFormer') = vaultChanges'
    BY <1>1 DEF VaultInv
  <1>4. ASSUME ~vaultCrossed'
        PROVE  /\ \A i \in 1 .. vaultChanges' :
                    vaultVersions'[i] = [number |-> i, password |-> vaultFormer'[i]]
               /\ \A r, q \in VaultRequests : Updating(r)' /\ Updating(q)' => r = q
               /\ \A r \in VaultRequests :
                    /\ Updating(r)' => vaultRequest'[r].seen = vaultVault'.password
                    /\ vaultRequest'[r].op = "counted" => vaultRequest'[r].count = vaultChanges'
    BY <1>1, <1>2, <1>4 DEF VaultInv
  <1> QED
    BY <1>2, <1>3, <1>4 DEF VaultInv

LEMMA VaultBegun ==
    ASSUME PasswordVault!TypeOK, NEW r \in VaultRequests,
           NEW op \in {"trash", "restore", "share", "change",
             "revoke", "reveal", "erase", "unfile"}, NEW g \in VaultGrants,
                 PasswordVault!Begin(r, op, 0, g)
    PROVE  /\ vaultRequest' \in [VaultRequests -> PasswordVault!Request]
           /\ \A q \in VaultRequests : vaultRequest'[q] = vaultRequest[q] \/
                (~Updating(q)' /\ vaultRequest'[q].count = 0)
  <1> DEFINE w == [op |-> op, seen |-> 0, count |-> 0, grant |-> g]
  <1>1. w \in PasswordVault!Request /\ w.op = op /\ w.count = 0
    BY VaultConst DEF PasswordVault!Request
  <1>2. vaultRequest' = [vaultRequest EXCEPT ![r] = w]
    BY DEF PasswordVault!Begin
  <1> HIDE DEF w
  <1> QED
    BY <1>1, <1>2 DEF PasswordVault!TypeOK, Updating

LEMMA VaultEnded ==
    ASSUME PasswordVault!TypeOK, NEW r \in VaultRequests, PasswordVault!End(r)
    PROVE  /\ vaultRequest' \in [VaultRequests -> PasswordVault!Request]
           /\ \A q \in VaultRequests : vaultRequest'[q] = vaultRequest[q] \/
                (~Updating(q)' /\ vaultRequest'[q].count = 0)
  <1>1. PasswordVault!Idle.op = "idle" /\ PasswordVault!Idle.count = 0
    BY DEF PasswordVault!Idle
  <1> QED
    BY <1>1, VaultConst DEF PasswordVault!End, PasswordVault!TypeOK, Updating

LEMMA VaultReceive == ASSUME VaultInv, NEW r \in VaultRequests, NEW u \in VaultUsers,
                             PasswordVault!Receive(r, u) PROVE VaultInv'
  <1>0. PasswordVault!TypeOK /\ PasswordVault!First \in VaultGrants
    BY VaultConst DEF VaultInv
  <1>1. CASE PasswordVault!BeginUpdate(r, u)
    <2> DEFINE w == [op |-> "update", seen |-> vaultVault.password, count |-> 0,
          grant |-> PasswordVault!First]
    <2>1. w \in PasswordVault!Request /\ w.op = "update" /\ w.count = 0 /\
            w.seen = vaultVault.password
      BY <1>0, VaultConst DEF PasswordVault!Request, PasswordVault!TypeOK, PasswordVault!Vault
    <2>2. /\ vaultRequest' = [vaultRequest EXCEPT ![r] = w]
          /\ vaultCrossed' = (vaultCrossed \/ \E q \in VaultRequests \ {r} : Updating(q))
          /\ UNCHANGED <<vaultVault, vaultVersions, vaultAudit, vaultGrant, vaultCategory,
               vaultChanges, vaultFormer, vaultOverdue>>
      BY <1>1 DEF PasswordVault!BeginUpdate, PasswordVault!Begin, PasswordVault!Rows, Updating
    <2> HIDE DEF w
    <2>3. PasswordVault!TypeOK'
      BY <1>0, <2>1, <2>2 DEF PasswordVault!TypeOK
    <2>4. /\ vaultRequest'[r] = w /\
               \A q \in VaultRequests \ {r} : vaultRequest'[q] = vaultRequest[q]
          /\ vaultChanges \in Nat
      BY <1>0, <2>2 DEF PasswordVault!TypeOK
    <2>5. \A q \in VaultRequests : Updating(q)' => q = r \/ Updating(q)
      BY <2>4 DEF Updating
    <2>6. ~vaultCrossed' => ~vaultCrossed /\ \A q \in VaultRequests : Updating(q)' => q = r
      BY <2>2, <2>5
    <2> QED
      BY <2>1, <2>2, <2>3, <2>4, <2>6 DEF VaultInv, Updating
  <1>2. CASE PasswordVault!BeginTrash(r, u)
    <2>1. PICK op \in {"trash", "restore", "erase"} :
            PasswordVault!Begin(r, op, 0, PasswordVault!First)
      BY <1>2 DEF PasswordVault!BeginTrash
    <2> QED
      BY <1>0, <1>2, <2>1, VaultBegun, VaultQuiet DEF PasswordVault!BeginTrash,
         PasswordVault!Rows, PasswordVault!History, PasswordVault!TypeOK
  <1>3. CASE PasswordVault!BeginSharing(r, u)
    <2>1. PICK op \in {"share", "change", "revoke"},
    g \in VaultGrants : PasswordVault!Begin(r, op, 0, g)
      BY <1>3 DEF PasswordVault!BeginSharing
    <2> QED
      BY <1>0, <1>3, <2>1, VaultBegun, VaultQuiet DEF PasswordVault!BeginSharing,
         PasswordVault!Rows, PasswordVault!History, PasswordVault!TypeOK
  <1>4. CASE PasswordVault!BeginReading(r, u)
    BY <1>0, <1>4, VaultBegun, VaultQuiet DEF PasswordVault!BeginReading, PasswordVault!Rows,
       PasswordVault!History, PasswordVault!TypeOK
  <1> QED
    BY <1>1, <1>2, <1>3, <1>4 DEF PasswordVault!Receive

LEMMA VaultCommit == ASSUME VaultInv, NEW r \in VaultRequests, PasswordVault!CommitUpdate(r)
    PROVE VaultInv'
  <1> DEFINE v == [number |-> vaultRequest[r].count + 1, password |-> vaultRequest[r].seen]
             n == vaultChanges + 1
  <1>0. /\ PasswordVault!TypeOK /\ vaultRequest[r].op = "counted" /\ PasswordVault!Exists
        /\ vaultChanges < MaxChanges
        /\ vaultChanges \in Nat /\ n \in 1 .. MaxChanges
    BY VaultConst DEF VaultInv, PasswordVault!CommitUpdate, PasswordVault!TypeOK
  <1>1. v \in PasswordVault!Version
    <2>1. vaultRequest[r] \in PasswordVault!Request /\ vaultRequest[r].count <= vaultChanges
      BY <1>0 DEF VaultInv, PasswordVault!TypeOK
    <2> QED
      BY <1>0, <2>1, VaultConst DEF PasswordVault!Request, PasswordVault!Version
  <1>2. /\ vaultVersions' = Append(vaultVersions, v)
        /\ vaultFormer' = Append(vaultFormer, vaultVault.password)
        /\ vaultVault' = [vaultVault EXCEPT !.password = n] /\ vaultChanges' = n
        /\ vaultAudit' = TRUE /\ PasswordVault!End(r)
        /\ UNCHANGED <<vaultGrant, vaultCategory, vaultCrossed, vaultOverdue>>
    BY DEF PasswordVault!CommitUpdate, PasswordVault!Audit, PasswordVault!History
  <1>3. vaultVault' \in PasswordVault!Vault /\ vaultVault.password \in 0 .. MaxChanges /\
          vaultVault'.password = n
    BY <1>0, <1>2 DEF PasswordVault!TypeOK, PasswordVault!Vault
  <1>4. /\ vaultVersions' \in Seq(PasswordVault!Version) /\ vaultFormer' \in Seq(0 .. MaxChanges)
        /\ Len(vaultVersions') = n /\ Len(vaultFormer') = n
        /\ vaultVersions'[n] = v /\ vaultFormer'[n] = vaultVault.password
        /\ \A i \in 1 .. vaultChanges : vaultVersions'[i] = vaultVersions[i] /\
             vaultFormer'[i] = vaultFormer[i]
    BY <1>0, <1>1, <1>2, <1>3 DEF VaultInv
  <1>5. /\ vaultRequest' \in [VaultRequests -> PasswordVault!Request]
        /\ \A q \in VaultRequests : vaultRequest'[q] = vaultRequest[q] \/
             (~Updating(q)' /\ vaultRequest'[q].count = 0)
        /\ vaultRequest'[r] = PasswordVault!Idle
    BY <1>0, <1>2, VaultEnded DEF PasswordVault!End, PasswordVault!TypeOK
  <1>6. PasswordVault!TypeOK'
    <2>1. \A i \in DOMAIN vaultVersions' : vaultVersions'[i] \in PasswordVault!Version
      BY <1>4, VaultElements
    <2>2. \A i \in DOMAIN vaultFormer' : vaultFormer'[i] \in 0 .. MaxChanges
      BY <1>4, VaultElements
    <2> QED
      BY <1>0, <1>2, <1>3, <1>4, <1>5, <2>1, <2>2 DEF PasswordVault!TypeOK
  <1>7. \A q \in VaultRequests : vaultRequest'[q].count <= n
    BY <1>0, <1>5 DEF VaultInv, PasswordVault!TypeOK, PasswordVault!Request
  <1>8. ASSUME ~vaultCrossed'
        PROVE  /\ \A i \in 1 .. n : vaultVersions'[i] = [number |-> i, password |-> vaultFormer'[i]]
               /\ \A q \in VaultRequests : ~Updating(q)'
    <2>1. ~vaultCrossed /\ vaultRequest[r].seen = vaultVault.password /\
            vaultRequest[r].count = vaultChanges
      BY <1>0, <1>2, <1>8 DEF VaultInv, Updating
    <2>2. \A i \in 1 .. n : i \in 1 .. vaultChanges \/ i = n
      BY <1>0
    <2>3. \A i \in 1 .. n : vaultVersions'[i] = [number |-> i, password |-> vaultFormer'[i]]
      BY <1>4, <2>1, <2>2 DEF VaultInv
    <2>4. \A q \in VaultRequests : Updating(q)' => Updating(q) /\ q # r
      BY <1>5 DEF Updating, PasswordVault!Idle
    <2>5. Updating(r)
      BY <1>0 DEF Updating
    <2> QED
      BY <2>1, <2>3, <2>4, <2>5 DEF VaultInv
  <1>9. \A q \in VaultRequests : vaultRequest'[q].op = "counted" => Updating(q)'
    BY DEF Updating
  <1> HIDE DEF v, n
  <1> QED
    BY <1>2, <1>3, <1>4, <1>6, <1>7, <1>8, <1>9 DEF VaultInv

LEMMA VaultResume == ASSUME VaultInv, NEW r \in VaultRequests, PasswordVault!Resume(r)
    PROVE VaultInv'
  <1>0. /\ PasswordVault!TypeOK /\ PasswordVault!First \in VaultGrants
        /\ vaultVault \in PasswordVault!Vault /\ vaultRequest[r] \in PasswordVault!Request
        /\ vaultRequest \in [VaultRequests -> PasswordVault!Request]
        /\ \A s \in PasswordVault!States : [vaultVault EXCEPT !.state = s] \in PasswordVault!Vault
                             /\ [vaultVault EXCEPT !.state = s].password = vaultVault.password
    BY VaultConst DEF VaultInv, PasswordVault!TypeOK, PasswordVault!Vault
  <1>1. CASE PasswordVault!CountVersions(r)
    <2> DEFINE w == [vaultRequest[r] EXCEPT !.op = "counted", !.count = Len(vaultVersions)]
    <2>1. /\ w \in PasswordVault!Request /\ w.op = "counted" /\ w.count = vaultChanges
          /\ w.seen = vaultRequest[r].seen
      BY <1>0, VaultConst DEF VaultInv, PasswordVault!TypeOK, PasswordVault!Request
    <2>2. /\ vaultRequest' = [vaultRequest EXCEPT ![r] = w] /\ Updating(r)
          /\ UNCHANGED <<vaultVault, vaultVersions, vaultAudit, vaultGrant, vaultCategory,
               vaultChanges, vaultFormer, vaultCrossed, vaultOverdue>>
      BY <1>1 DEF PasswordVault!CountVersions, PasswordVault!Rows, PasswordVault!History, Updating
    <2> HIDE DEF w
    <2>3. PasswordVault!TypeOK'
      BY <1>0, <2>1, <2>2 DEF PasswordVault!TypeOK
    <2>4. /\ vaultRequest'[r] = w /\
               \A q \in VaultRequests \ {r} : vaultRequest'[q] = vaultRequest[q]
          /\ vaultChanges \in Nat
      BY <1>0, <2>2, VaultConst DEF PasswordVault!TypeOK
    <2>5. \A q \in VaultRequests : Updating(q)' => Updating(q)
      BY <2>2, <2>4 DEF Updating
    <2>6. \A q \in VaultRequests : vaultRequest'[q].count <= vaultChanges'
      BY <2>1, <2>2, <2>4 DEF VaultInv
    <2>7. ASSUME ~vaultCrossed', NEW q \in VaultRequests
          PROVE  /\ \A p \in VaultRequests : Updating(q)' /\ Updating(p)' => q = p
                 /\ Updating(q)' => vaultRequest'[q].seen = vaultVault'.password
                 /\ vaultRequest'[q].op = "counted" => vaultRequest'[q].count = vaultChanges'
      BY <2>1, <2>2, <2>4, <2>5, <2>7 DEF VaultInv
    <2>8. ASSUME ~vaultCrossed'
          PROVE  \A i \in 1 .. vaultChanges' :
              vaultVersions'[i] = [number |-> i, password |-> vaultFormer'[i]]
      BY <2>2, <2>8 DEF VaultInv
    <2> QED
      BY <2>2, <2>3, <2>6, <2>7, <2>8 DEF VaultInv
  <1>2. CASE PasswordVault!CommitUpdate(r)
    BY <1>2, VaultCommit
  <1>3. CASE PasswordVault!UpdateFails(r)
    BY <1>0, <1>3, VaultEnded, VaultQuiet DEF PasswordVault!UpdateFails, PasswordVault!Rows,
       PasswordVault!History, PasswordVault!TypeOK
  <1>4. CASE PasswordVault!SoftDelete(r)
    <2>1. vaultVault' \in PasswordVault!Vault /\ vaultVault'.password = vaultVault.password
      BY <1>0, <1>4 DEF PasswordVault!SoftDelete, PasswordVault!States
    <2> QED
      BY <1>0, <1>4, <2>1, VaultEnded, VaultQuiet DEF PasswordVault!SoftDelete,
         PasswordVault!Audit, PasswordVault!History, PasswordVault!TypeOK
  <1>5. CASE PasswordVault!Restore(r)
    <2>1. vaultVault' \in PasswordVault!Vault /\ vaultVault'.password = vaultVault.password
      BY <1>0, <1>5 DEF PasswordVault!Restore, PasswordVault!States
    <2> QED
      BY <1>0, <1>5, <2>1, VaultEnded, VaultQuiet DEF PasswordVault!Restore, PasswordVault!Audit,
         PasswordVault!History, PasswordVault!TypeOK
  <1>6. CASE PasswordVault!PermanentDelete(r)
    <2>1. vaultVault' \in PasswordVault!Vault /\ vaultVault'.password = vaultVault.password
      BY <1>0, <1>6 DEF PasswordVault!PermanentDelete, PasswordVault!Erase, PasswordVault!States
    <2> QED
      BY <1>0, <1>6, <2>1, VaultEnded, VaultQuiet DEF PasswordVault!PermanentDelete,
         PasswordVault!History, PasswordVault!TypeOK
  <1>7. CASE PasswordVault!Share(r)
    <2>1. vaultGrant' \in [VaultGrants -> PasswordVault!Grant \cup {PasswordVault!NoGrant}]
      BY <1>0, <1>7 DEF PasswordVault!Share, PasswordVault!TypeOK
    <2> QED
      BY <1>0, <1>7, <2>1, VaultEnded, VaultQuiet DEF PasswordVault!Share, PasswordVault!Audit,
         PasswordVault!History, PasswordVault!TypeOK
  <1>8. CASE PasswordVault!ChangePermission(r)
    <2> DEFINE g == vaultRequest[r].grant
    <2>1. vaultGrant' \in [VaultGrants -> PasswordVault!Grant \cup {PasswordVault!NoGrant}] /\
            vaultAudit' \in BOOLEAN
      <3>1. g \in VaultGrants /\
              vaultGrant \in [VaultGrants -> PasswordVault!Grant \cup {PasswordVault!NoGrant}] /\
                  vaultAudit \in BOOLEAN
        BY <1>0 DEF PasswordVault!TypeOK, PasswordVault!Request
      <3>2. CASE vaultGrant[g] = PasswordVault!NoGrant
        BY <1>8, <3>1, <3>2 DEF PasswordVault!ChangePermission
      <3>3. CASE vaultGrant[g] # PasswordVault!NoGrant /\
              vaultGrant' = [vaultGrant EXCEPT ![g] = PasswordVault!NoGrant]
        BY <1>8, <3>1, <3>3 DEF PasswordVault!ChangePermission, PasswordVault!Audit
      <3>4. ASSUME vaultGrant[g] # PasswordVault!NoGrant, NEW level \in PasswordVault!Levels,
                   vaultGrant' = [vaultGrant EXCEPT ![g].level = level]
            PROVE  vaultGrant' \in [VaultGrants -> PasswordVault!Grant \cup {PasswordVault!NoGrant}] /\ vaultAudit' \in BOOLEAN
        <4>1. [vaultGrant[g] EXCEPT !.level = level] \in PasswordVault!Grant
          BY <3>1, <3>4 DEF PasswordVault!Grant
        <4> QED
          BY <1>8, <3>1, <3>4, <4>1 DEF PasswordVault!ChangePermission, PasswordVault!Audit
      <3> QED
        BY <1>8, <3>2, <3>3, <3>4 DEF PasswordVault!ChangePermission
    <2> QED
      BY <1>0, <1>8, <2>1, VaultEnded, VaultQuiet DEF PasswordVault!ChangePermission,
         PasswordVault!History, PasswordVault!TypeOK
  <1>9. CASE PasswordVault!Reveal(r)
    BY <1>0, <1>9, VaultEnded, VaultQuiet DEF PasswordVault!Reveal, PasswordVault!Audit,
       PasswordVault!History, PasswordVault!TypeOK
  <1>10. CASE PasswordVault!BeginDeleteCategory(r)
    BY <1>0, <1>10, VaultBegun, VaultQuiet DEF PasswordVault!BeginDeleteCategory,
       PasswordVault!Rows, PasswordVault!History, PasswordVault!TypeOK
  <1>11. CASE PasswordVault!DeleteCategory(r)
    <2>1. vaultVault' \in PasswordVault!Vault /\ vaultVault'.password = vaultVault.password
      BY <1>0, <1>11 DEF PasswordVault!DeleteCategory, PasswordVault!Vault
    <2> QED
      BY <1>0, <1>11, <2>1, VaultEnded, VaultQuiet DEF PasswordVault!DeleteCategory,
         PasswordVault!History, PasswordVault!TypeOK
  <1> QED
    BY <1>1, <1>2, <1>3, <1>4, <1>5, <1>6, <1>7, <1>8, <1>9, <1>10, <1>11 DEF PasswordVault!Resume

LEMMA VaultStep == VaultInv /\ [PasswordVault!Next]_(PasswordVault!vars) => VaultInv'
  <1> SUFFICES ASSUME VaultInv, [PasswordVault!Next]_(PasswordVault!vars) PROVE VaultInv'
    OBVIOUS
  <1>0. PasswordVault!TypeOK /\ vaultVault \in PasswordVault!Vault
    BY DEF VaultInv, PasswordVault!TypeOK
  <1>1. CASE UNCHANGED PasswordVault!vars
    BY <1>0, <1>1, VaultQuiet DEF PasswordVault!vars, PasswordVault!TypeOK
  <1>2. CASE PasswordVault!Create
    <2>1. PICK filed \in BOOLEAN :
            vaultVault' = [vaultVault EXCEPT !.state = "live", !.filed = filed]
      BY <1>2 DEF PasswordVault!Create
    <2>2. vaultVault' \in PasswordVault!Vault /\ vaultVault'.password = vaultVault.password
      BY <1>0, <2>1 DEF PasswordVault!Vault, PasswordVault!States
    <2> QED
      BY <1>0, <1>2, <2>2, VaultQuiet DEF PasswordVault!Create, PasswordVault!Audit,
         PasswordVault!History, PasswordVault!TypeOK
  <1>3. CASE PasswordVault!Age
    <2>1. vaultVault' \in PasswordVault!Vault /\ vaultVault'.password = vaultVault.password
      BY <1>0, <1>3 DEF PasswordVault!Age, PasswordVault!Vault, PasswordVault!States
    <2> QED
      BY <1>0, <1>3, <2>1, VaultQuiet DEF PasswordVault!Age, PasswordVault!History,
         PasswordVault!TypeOK
  <1>4. CASE PasswordVault!PurgeExpiredTrash
    <2>1. vaultVault' \in PasswordVault!Vault /\ vaultVault'.password = vaultVault.password
      BY <1>0, <1>4 DEF PasswordVault!PurgeExpiredTrash, PasswordVault!Erase,
         PasswordVault!Vault, PasswordVault!States
    <2> QED
      BY <1>0, <1>4, <2>1, VaultQuiet DEF PasswordVault!PurgeExpiredTrash, PasswordVault!TypeOK
  <1> QED
    BY <1>1, <1>2, <1>3, <1>4, VaultReceive, VaultResume DEF PasswordVault!Next

LEMMA VaultHistory == VaultInv => PasswordVault!TypeOK /\ PasswordVault!HistoryIsWhole
  <1> SUFFICES ASSUME VaultInv PROVE PasswordVault!HistoryIsWhole
    BY DEF VaultInv
  <1>1. DOMAIN vaultVersions = 1 .. vaultChanges
    BY DEF VaultInv
  <1> QED
    BY <1>1 DEF VaultInv, PasswordVault!HistoryIsWhole
-----------------------------------------------------------------------------
(* Generated passwords and their level.                                   *)

\* The number of elements, as the policy counts them.
LEMMA PolicyCount == \A S : PasswordPolicy!Cardinality(S) = Cardinality(S)
  BY DEF PasswordPolicy!Cardinality, Cardinality

\* The word is one there can be, and its level is the one of its score.
PolicyInv ==
    /\ PasswordPolicy!TypeOK
    /\ policyWord # PasswordPolicy!NoWord => PasswordPolicy!Possible(policyWord)
    /\ policyWord = PasswordPolicy!NoWord => policyOptions = PasswordPolicy!NoOptions
    /\ policyOptions # PasswordPolicy!NoOptions /\ policyWord # PasswordPolicy!NoWord =>
         policyWord.classes = policyOptions.classes
    /\ policyLevel # "none" =>
         policyWord # PasswordPolicy!NoWord /\
             policyLevel = PasswordPolicy!ScoreToLevel(PasswordPolicy!Score(policyWord))

LEMMA PolicyClasses ==
    /\ IsFiniteSet(PasswordPolicy!Classes) /\ Cardinality(PasswordPolicy!Classes) = 4
    /\ \A S : S \subseteq PasswordPolicy!Classes => IsFiniteSet(S) /\ Cardinality(S) \in 0 .. 4
  <1>1. /\ IsFiniteSet({}) /\ Cardinality({}) = 0
        /\ IsFiniteSet({"uppercase"}) /\ Cardinality({"uppercase"}) = 1
    BY FS_EmptySet, FS_Singleton
  <1>2. /\ IsFiniteSet({"uppercase"} \cup {"lowercase"})
        /\ Cardinality({"uppercase"} \cup {"lowercase"}) = 2
    BY <1>1, FS_AddElement
  <1>3. /\ IsFiniteSet(({"uppercase"} \cup {"lowercase"}) \cup {"numbers"})
        /\ Cardinality(({"uppercase"} \cup {"lowercase"}) \cup {"numbers"}) = 3
    BY <1>2, FS_AddElement
  <1>4. /\ IsFiniteSet((({"uppercase"} \cup {"lowercase"}) \cup {"numbers"}) \cup {"symbols"})
        /\ Cardinality((({"uppercase"} \cup {"lowercase"}) \cup {"numbers"}) \cup {"symbols"}) = 4
    BY <1>3, FS_AddElement
  <1>5. PasswordPolicy!Classes = (({"uppercase"} \cup {"lowercase"}) \cup {"numbers"}) \cup {"symbols"}
    BY DEF PasswordPolicy!Classes
  <1>6. IsFiniteSet(PasswordPolicy!Classes) /\ Cardinality(PasswordPolicy!Classes) = 4
    BY <1>4, <1>5
  <1>7. ASSUME NEW S, S \subseteq PasswordPolicy!Classes
          PROVE IsFiniteSet(S) /\ Cardinality(S) \in 0 .. 4
    <2>1. IsFiniteSet(S) /\ Cardinality(S) <= 4 /\ Cardinality(S) \in Nat
      BY <1>6, <1>7, FS_Subset, FS_CardinalityType
    <2> QED
      BY <2>1
  <1> QED
    BY <1>6, <1>7

\* Points for the length and for the classes: three each at most.
LEMMA PolicyThree ==
    ASSUME NEW a, NEW b, NEW c, a # b, a # c, b # c
    PROVE  /\ IsFiniteSet({a, b, c}) /\ Cardinality({a, b, c}) = 3
           /\ \A S : S \subseteq {a, b, c} => Cardinality(S) \in 0 .. 3
  <1>1. IsFiniteSet({a}) /\ Cardinality({a}) = 1
    BY FS_Singleton
  <1>2. IsFiniteSet({a} \cup {b}) /\ Cardinality({a} \cup {b}) = 2
    BY <1>1, FS_AddElement
  <1>3. IsFiniteSet(({a} \cup {b}) \cup {c}) /\ Cardinality(({a} \cup {b}) \cup {c}) = 3
    BY <1>2, FS_AddElement
  <1>4. {a, b, c} = ({a} \cup {b}) \cup {c}
    OBVIOUS
  <1>5. IsFiniteSet({a, b, c}) /\ Cardinality({a, b, c}) = 3
    BY <1>3, <1>4
  <1>6. ASSUME NEW S, S \subseteq {a, b, c} PROVE Cardinality(S) \in 0 .. 3
    <2>1. IsFiniteSet(S) /\ Cardinality(S) <= 3 /\ Cardinality(S) \in Nat
      BY <1>5, <1>6, FS_Subset, FS_CardinalityType
    <2> QED
      BY <2>1
  <1> QED
    BY <1>5, <1>6

LEMMA PolicyMin ==
    ASSUME NEW a \in Int, NEW b \in Int
    PROVE  PasswordPolicy!Min({a, b}) = IF a <= b THEN a ELSE b
  <1> DEFINE m == IF a <= b THEN a ELSE b
  <1>1. m \in {a, b} /\ \A y \in {a, b} : m =< y
    OBVIOUS
  <1>2. \E x \in {a, b} : \A y \in {a, b} : x =< y
    BY <1>1
  <1>3. PasswordPolicy!Min({a, b}) \in {a, b} /\ \A y \in {a, b} : PasswordPolicy!Min({a, b}) =< y
    BY <1>2 DEF PasswordPolicy!Min
  <1>4. \A x \in {a, b} : (\A y \in {a, b} : x =< y) => x = m
    OBVIOUS
  <1> QED
    BY <1>3, <1>4

LEMMA PolicyLength ==
    ASSUME NEW n \in Nat, n >= 16
    PROVE  {k \in {8, 12, 16} : n >= k} = {8, 12, 16}
  <1>1. n >= 8 /\ n >= 12 /\ n >= 16
    OBVIOUS
  <1> QED
    BY <1>1

LEMMA PolicyPoints ==
    ASSUME NEW w \in PasswordPolicy!Word
    PROVE  /\ PasswordPolicy!Points(w) \in 0 .. 6
           /\ {"lowercase", "uppercase", "symbols"} \subseteq w.classes /\ w.length >= 16 =>
                 PasswordPolicy!Points(w) = 6
  <1>1. /\ Cardinality({n \in {8, 12, 16} : w.length >= n}) \in 0 .. 3
        /\ Cardinality({8, 12, 16}) = 3
    <2> DEFINE a == 8
               b == 12
               c == 16
    <2>1. /\ a # b /\ a # c /\ b # c /\ {a, b, c} = {8, 12, 16}
          /\ {n \in {8, 12, 16} : w.length >= n} \subseteq {a, b, c}
      OBVIOUS
    <2> HIDE DEF a, b, c
    <2>2. a # b /\ a # c /\ b # c
      BY <2>1
    <2>3. /\ Cardinality({a, b, c}) = 3
          /\ \A S : S \subseteq {a, b, c} => Cardinality(S) \in 0 .. 3
      BY <2>2, PolicyThree
    <2> QED
      BY <2>1, <2>3
  <1>2. /\ Cardinality(w.classes \cap {"lowercase", "uppercase", "symbols"}) \in 0 .. 3
        /\ Cardinality({"lowercase", "uppercase", "symbols"}) = 3
    <2>1. "lowercase" # "uppercase" /\ "lowercase" # "symbols" /\ "uppercase" # "symbols"
      OBVIOUS
    <2>2. /\ Cardinality({"lowercase", "uppercase", "symbols"}) = 3
          /\ \A S : S \subseteq {"lowercase", "uppercase", "symbols"} => Cardinality(S) \in 0 .. 3
      BY <2>1, PolicyThree
    <2>3. w.classes \cap {"lowercase", "uppercase", "symbols"} \subseteq
             {"lowercase", "uppercase", "symbols"}
      OBVIOUS
    <2> QED
      BY <2>2, <2>3
  <1>3. w.length \in Nat
    BY ComponentsAssumption DEF PasswordPolicy!Word, PasswordPolicy!LengthsAssumption
  <1>4. w.length >= 16 => {n \in {8, 12, 16} : w.length >= n} = {8, 12, 16}
    BY <1>3, PolicyLength
  <1>5. {"lowercase", "uppercase", "symbols"} \subseteq w.classes =>
           w.classes \cap {"lowercase", "uppercase", "symbols"} = {"lowercase", "uppercase",
               "symbols"}
    OBVIOUS
  <1> QED
    BY <1>1, <1>2, <1>4, <1>5, PolicyCount DEF PasswordPolicy!Points

LEMMA PolicyScore ==
    ASSUME NEW w \in PasswordPolicy!Word, PasswordPolicy!Possible(w)
    PROVE  /\ PasswordPolicy!Score(w) \in 0 .. 6
           /\ w.common \/ w.repeated => PasswordPolicy!Score(w) <= 1
           /\ {"lowercase", "uppercase", "symbols"} \subseteq w.classes /\ w.length >= 16 =>
                 PasswordPolicy!Score(w) \in 5 .. 6
  <1> DEFINE known == IF w.common THEN 0 ELSE PasswordPolicy!Points(w)
             varied == IF w.repeated THEN PasswordPolicy!Min({known, 1}) ELSE known
  <1>1. known \in 0 .. 6
    BY PolicyPoints
  <1>2. PasswordPolicy!Min({known, 1}) = IF known <= 1 THEN known ELSE 1
    BY <1>1, PolicyMin
  <1>3. varied \in 0 .. 6 /\ (w.common \/ w.repeated => varied <= 1)
    BY <1>1, <1>2
  <1>4. PasswordPolicy!Score(w) = IF w.run /\ varied > 0 THEN varied - 1 ELSE varied
    BY DEF PasswordPolicy!Score
  <1>5. ASSUME {"lowercase", "uppercase", "symbols"} \subseteq w.classes, w.length >= 16
        PROVE  varied = 6
    <2>1. ~w.common
      <3>1. w.common => w.length \in 5 .. 11
        BY PolicyCount DEF PasswordPolicy!Possible
      <3> QED
        BY <1>5, <3>1
    <2>2. ~w.repeated
      <3>1. w.classes \subseteq PasswordPolicy!Classes
        BY DEF PasswordPolicy!Word
      <3>2. IsFiniteSet(w.classes)
        BY <3>1, PolicyClasses
      <3>3. CASE Cardinality(w.classes) = 1
        <4>1. \E x : w.classes = {x}
          BY <3>2, <3>3, FS_Singleton
        <4> QED
          BY <1>5, <4>1
      <3> QED
        BY <3>3, PolicyCount DEF PasswordPolicy!Possible
    <2> QED
      BY <1>5, <2>1, <2>2, PolicyPoints
  <1> HIDE DEF varied
  <1>6. PasswordPolicy!Score(w) \in 0 .. 6 /\
          (w.common \/ w.repeated => PasswordPolicy!Score(w) <= 1)
    BY <1>3, <1>4
  <1> QED
    BY <1>4, <1>5, <1>6

LEMMA PolicyInit == PasswordPolicy!Init => PolicyInv
  BY DEF PasswordPolicy!Init, PolicyInv, PasswordPolicy!TypeOK

LEMMA PolicyDrawn ==
    ASSUME NEW o \in PasswordPolicy!Options, NEW w \in PasswordPolicy!Word,
           w.classes \subseteq o.classes,
           Cardinality(w.classes) = PasswordPolicy!Min({o.length, Cardinality(o.classes)})
    PROVE  w.classes = o.classes
  <1>1. o.length \in Nat /\ o.length >= 8 /\ o.classes \subseteq PasswordPolicy!Classes
    BY ComponentsAssumption DEF PasswordPolicy!Options, PasswordPolicy!LengthsAssumption
  <1>2. IsFiniteSet(o.classes) /\ Cardinality(o.classes) \in 0 .. 4
    BY <1>1, PolicyClasses
  <1>3. PasswordPolicy!Min({o.length, Cardinality(o.classes)}) = Cardinality(o.classes)
    BY <1>1, <1>2, PolicyMin
  <1> QED
    BY <1>2, <1>3, FS_Subset

LEMMA PolicyWords ==
    /\ \A w \in PasswordPolicy!Word : w # PasswordPolicy!NoWord
    /\ \A s : PasswordPolicy!ScoreToLevel(s) \in PasswordPolicy!Levels /\
         "none" \notin PasswordPolicy!Levels
  <1>1. ASSUME NEW w \in PasswordPolicy!Word PROVE w # PasswordPolicy!NoWord
    <2>1. w.length # 0 /\ PasswordPolicy!NoWord.length = 0
      BY ComponentsAssumption DEF PasswordPolicy!Word, PasswordPolicy!LengthsAssumption,
         PasswordPolicy!NoWord
    <2> QED
      BY <2>1
  <1>2. \A s : PasswordPolicy!ScoreToLevel(s) \in PasswordPolicy!Levels
    BY DEF PasswordPolicy!ScoreToLevel, PasswordPolicy!Levels
  <1> QED
    BY <1>1, <1>2 DEF PasswordPolicy!Levels

LEMMA PolicyStep == PolicyInv /\ [PasswordPolicy!Next]_(PasswordPolicy!vars) => PolicyInv'
  <1> SUFFICES ASSUME PolicyInv, [PasswordPolicy!Next]_(PasswordPolicy!vars) PROVE PolicyInv'
    OBVIOUS
  <1>1. CASE UNCHANGED PasswordPolicy!vars
    BY <1>1 DEF PasswordPolicy!vars, PolicyInv, PasswordPolicy!TypeOK
  <1>2. CASE PasswordPolicy!Generate
    <2>1. PICK o \in PasswordPolicy!Options, w \in PasswordPolicy!Word :
             /\ PasswordPolicy!Possible(w) /\ w.classes \subseteq o.classes
             /\ Cardinality(w.classes) = PasswordPolicy!Min({o.length, Cardinality(o.classes)})
             /\ policyOptions' = o /\ policyWord' = w
      BY <1>2, PolicyCount DEF PasswordPolicy!Generate
    <2>2. w.classes = o.classes
      BY <2>1, PolicyDrawn
    <2>3. policyLevel' = "none" /\ w # PasswordPolicy!NoWord
      BY <1>2, PolicyWords DEF PasswordPolicy!Generate, PolicyInv
    <2>4. PasswordPolicy!TypeOK'
      BY <2>1, <2>3 DEF PasswordPolicy!TypeOK
    <2> QED
      BY <2>1, <2>2, <2>3, <2>4 DEF PolicyInv
  <1>3. CASE PasswordPolicy!Store
    <2>1. PICK w \in PasswordPolicy!Word : PasswordPolicy!Possible(w) /\ policyWord' = w
      BY <1>3 DEF PasswordPolicy!Store
    <2>2. policyLevel' = policyLevel /\ policyOptions' = policyOptions /\
            policyWord = PasswordPolicy!NoWord
      BY <1>3 DEF PasswordPolicy!Store
    <2> QED
      BY <2>1, <2>2 DEF PolicyInv, PasswordPolicy!TypeOK
  <1>4. CASE PasswordPolicy!EvaluatePassword
    BY <1>4, PolicyWords DEF PasswordPolicy!EvaluatePassword, PolicyInv, PasswordPolicy!TypeOK
  <1> QED
    BY <1>1, <1>2, <1>3, <1>4 DEF PasswordPolicy!Next

LEMMA PolicyKept == PolicyInv => PasswordPolicy!TypeOK /\ PasswordPolicy!PolicyHolds
  <1> SUFFICES ASSUME PolicyInv PROVE PasswordPolicy!PolicyHolds
    BY DEF PolicyInv
  <1>1. ASSUME policyLevel # "none"
        PROVE  /\ policyWord \in PasswordPolicy!Word /\ PasswordPolicy!Possible(policyWord)
               /\ policyLevel = PasswordPolicy!ScoreToLevel(PasswordPolicy!Score(policyWord))
    BY <1>1 DEF PolicyInv, PasswordPolicy!TypeOK
  <1>2. ASSUME policyLevel # "none"
        PROVE  /\ {"lowercase", "uppercase", "symbols"} \subseteq policyWord.classes /\
                    policyWord.length >= 16
                     => policyLevel \in {"MEDIUM", "STRONG"}
               /\ policyWord.common \/ policyWord.repeated => policyLevel = "VERY_WEAK"
               /\ policyLevel # "VERY_STRONG"
    BY <1>1, <1>2, PolicyScore DEF PasswordPolicy!ScoreToLevel
  <1> QED
    BY <1>2 DEF PolicyInv, PasswordPolicy!PolicyHolds
-----------------------------------------------------------------------------
(* Identity documents of the auxiliary team.                              *)

\* The number of files, as an upload counts them.
LEMMA DocumentCount == \A S : AuxDocument!Cardinality(S) = Cardinality(S)
  BY DEF AuxDocument!Cardinality, Cardinality

\* The files an execution of POST answers for at each of its steps.
UploadKnown(r) ==
    /\ r.pc = "idle" => r = AuxDocument!IdleUpload
    /\ r.pc # "idle" => r.selection # None
    /\ r.pc \in {"read", "audit"} => r.keys = {}
    /\ r.pc = "put" => \E n \in 0 .. Count - 1 : r.keys = 1 .. n
    /\ r.pc = "insert" => r.keys = AuxDocument!Keys

\* A deletion is of a row there is, and marks it when it has removed its files.
DeletionKnown(d) ==
    /\ documentsDeletion[d].pc = "idle" => documentsDeletion[d] = AuxDocument!IdleDeletion
    /\ documentsDeletion[d].pc # "idle" => documentsRow.state # "absent"
    /\ documentsDeletion[d].pc = "mark" => documentsDeletion[d].keys = {}

\* An upload alone: it fills the place of a row there is not, and no clean-up
\* or second upload touches the files of the row it leaves.
LoneUpload ==
    /\ \A u, v \in Uploads : documentsUpload[u].pc # "idle" /\ documentsUpload[v].pc # "idle" =>
         u = v
    /\ \A u \in Uploads :
          /\ documentsUpload[u].pc # "clean"
          /\ documentsUpload[u].pc \in {"put", "insert"} =>
                documentsRow.state = "absent" /\
                    \A k \in documentsUpload[u].keys :
                        documentsBucket[k] = documentsUpload[u].selection
    /\ documentsRow.state = "live" /\ ~AuxDocument!Deleting => AuxDocument!Whole

FileAnswered(k) == documentsBucket[k] = None \/ \E u \in Uploads : k \in documentsUpload[u].keys

\* A stored file is of a live row, of a deletion that has yet to remove it, or
\* of an upload that has yet to list it or to take it back.
FileClaimed ==
    /\ documentsRow.state # "live" => \A k \in AuxDocument!Keys : FileAnswered(k)
    /\ \A d \in Deletions : documentsDeletion[d].pc # "idle" =>
          \A k \in AuxDocument!Keys \ documentsDeletion[d].keys : FileAnswered(k)

DocumentsInv ==
    /\ AuxDocument!TypeOK
    /\ documentsRow.state = "live" <=> documentsRow.selection # None
    /\ \A u \in Uploads : UploadKnown(documentsUpload[u])
    /\ \A d \in Deletions : DeletionKnown(d)
    /\ documentsFaults = 0 /\ ~documentsMet => LoneUpload
    /\ documentsFaults = 0 => FileClaimed

LEMMA DocumentIdle ==
    AuxDocument!IdleUpload \in AuxDocument!Upload /\ UploadKnown(AuxDocument!IdleUpload) /\
        AuxDocument!IdleUpload.pc = "idle" /\ AuxDocument!IdleUpload.keys = {}
  BY DEF AuxDocument!Upload, UploadKnown, AuxDocument!IdleUpload

LEMMA DocumentInit == AuxDocument!Init => DocumentsInv
  <1> SUFFICES ASSUME AuxDocument!Init PROVE DocumentsInv
    OBVIOUS
  <1>1. AuxDocument!TypeOK
    <2>1. documentsRow \in AuxDocument!Row
      BY DEF AuxDocument!Init, AuxDocument!Row
    <2>2. AuxDocument!IdleUpload \in AuxDocument!Upload /\
            AuxDocument!IdleDeletion \in AuxDocument!Deletion
      BY DEF AuxDocument!IdleUpload, AuxDocument!IdleDeletion, AuxDocument!Upload,
         AuxDocument!Deletion
    <2>3. documentsUpload \in [Uploads -> AuxDocument!Upload] /\
            documentsDeletion \in [Deletions -> AuxDocument!Deletion]
      BY <2>2 DEF AuxDocument!Init
    <2>4. documentsBucket \in [AuxDocument!Keys -> Selections \cup {None}]
      BY DEF AuxDocument!Init
    <2>5. documentsFaults \in 0 .. MaxFaults
      BY ComponentsAssumption DEF AuxDocument!Init, AuxDocument!BoundsAssumption
    <2>6. documentsMet \in BOOLEAN
      BY DEF AuxDocument!Init
    <2> QED
      BY <2>1, <2>3, <2>4, <2>5, <2>6 DEF AuxDocument!TypeOK
  <1>2. \A u \in Uploads : documentsUpload[u] = AuxDocument!IdleUpload
    BY DEF AuxDocument!Init
  <1>3. \A u \in Uploads : UploadKnown(documentsUpload[u])
    BY <1>2, DocumentIdle
  <1>4. \A d \in Deletions : documentsDeletion[d] = AuxDocument!IdleDeletion
    BY DEF AuxDocument!Init
  <1>5. \A d \in Deletions : DeletionKnown(d)
    BY <1>4 DEF DeletionKnown, AuxDocument!IdleDeletion
  <1>6. LoneUpload
    BY <1>2 DEF AuxDocument!Init, LoneUpload, AuxDocument!IdleUpload
  <1>7. FileClaimed
    BY <1>4 DEF AuxDocument!Init, FileClaimed, FileAnswered, AuxDocument!IdleDeletion
  <1> QED
    BY <1>1, <1>3, <1>5, <1>6, <1>7 DEF AuxDocument!Init, DocumentsInv

\* The next file of an upload.
\* The next file of an upload.
LEMMA DocumentFile ==
    ASSUME NEW r, UploadKnown(r), r.pc = "put"
    PROVE  LET k == Cardinality(r.keys) + 1
           IN  k \in AuxDocument!Keys /\ r.keys = 1 .. k - 1 /\ r.keys \cup {k} = 1 .. k
  <1>1. PICK n \in 0 .. Count - 1 : r.keys = 1 .. n
    BY DEF UploadKnown
  <1>2. n \in Nat /\ Count \in Nat
    BY <1>1, ComponentsAssumption DEF AuxDocument!BoundsAssumption
  <1>3. Cardinality(1 .. n) = n
    BY <1>2, FS_Interval, 1 \in Int
  <1> QED
    BY <1>1, <1>2, <1>3 DEF AuxDocument!Keys

\* What is left of the files and the row when an execution of POST steps.
LEMMA DocumentUpload ==
    ASSUME DocumentsInv, NEW u \in Uploads, NEW r \in AuxDocument!Upload, UploadKnown(r),
           documentsUpload' = [documentsUpload EXCEPT ![u] = r], UNCHANGED documentsDeletion,
           documentsRow' \in AuxDocument!Row, documentsRow'.state = "live" <=>
               documentsRow'.selection # None,
           documentsRow'.state = "absent" => documentsRow.state = "absent",
           documentsBucket' \in [AuxDocument!Keys -> Selections \cup {None}],
           documentsMet' \in BOOLEAN,
           documentsFaults' \in 0 .. MaxFaults,
           documentsFaults' = 0 /\ ~documentsMet' => LoneUpload', documentsFaults' = 0 =>
               FileClaimed'
    PROVE  DocumentsInv'
  <1>1. documentsUpload' \in [Uploads -> AuxDocument!Upload] /\
          \A v \in Uploads : UploadKnown(documentsUpload'[v])
    BY DEF DocumentsInv, AuxDocument!TypeOK
  <1>2. AuxDocument!TypeOK'
    BY <1>1 DEF DocumentsInv, AuxDocument!TypeOK
  <1>3. \A d \in Deletions : DeletionKnown(d)'
    BY DEF DocumentsInv, DeletionKnown
  <1> QED
    BY <1>1, <1>2, <1>3 DEF DocumentsInv

\* An execution that keeps answering for its files, and leaves the rest.
LEMMA DocumentPasses ==
    ASSUME DocumentsInv, NEW u \in Uploads, NEW r \in AuxDocument!Upload, UploadKnown(r),
           documentsUpload' = [documentsUpload EXCEPT ![u] = r],
           UNCHANGED <<documentsRow, documentsBucket, documentsDeletion, documentsFaults>>,
           documentsMet' \in BOOLEAN, documentsMet => documentsMet',
           documentsFaults = 0 /\ ~documentsMet' =>
               \A v \in Uploads \ {u} : documentsUpload[v].pc = "idle",
           documentsUpload[u].keys \subseteq r.keys,
           documentsFaults = 0 /\ ~documentsMet' =>
              /\ r.pc # "clean"
              /\ r.pc \in {"put", "insert"} =>
                    documentsRow.state = "absent" /\
                        \A k \in r.keys : documentsBucket[k] = r.selection
    PROVE  DocumentsInv'
  <1>1. documentsUpload'[u] = r /\ \A v \in Uploads : v # u =>
          documentsUpload'[v] = documentsUpload[v]
    BY DEF DocumentsInv, AuxDocument!TypeOK
  <1>2. AuxDocument!Deleting' <=> AuxDocument!Deleting
    BY DEF AuxDocument!Deleting
  <1>3. ASSUME documentsFaults' = 0 /\ ~documentsMet' PROVE LoneUpload'
    <2>1. LoneUpload
      BY <1>3 DEF DocumentsInv, AuxDocument!TypeOK
    <2>2. documentsRow.state = "live" /\ ~AuxDocument!Deleting' => AuxDocument!Whole'
      BY <1>2, <2>1 DEF LoneUpload, AuxDocument!Whole
    <2> QED
      BY <1>1, <1>3, <2>1, <2>2 DEF LoneUpload
  <1>4. \A k \in AuxDocument!Keys : FileAnswered(k) => FileAnswered(k)'
    BY <1>1 DEF FileAnswered
  <1>5. ASSUME documentsFaults' = 0 PROVE FileClaimed'
    BY <1>4, <1>5 DEF DocumentsInv, FileClaimed
  <1> QED
    BY <1>3, <1>5, DocumentUpload DEF DocumentsInv, AuxDocument!TypeOK

\* When no two uploads were under way, the others are idle.
LEMMA DocumentLone ==
    ASSUME DocumentsInv, NEW u \in Uploads, documentsUpload[u].pc # "idle"
    PROVE  documentsFaults = 0 /\ ~documentsMet =>
        LoneUpload /\ \A v \in Uploads \ {u} : documentsUpload[v].pc = "idle"
  BY DEF DocumentsInv, LoneUpload

LEMMA DocumentBegin == ASSUME DocumentsInv, NEW u \in Uploads, AuxDocument!Begin(u)
    PROVE DocumentsInv'
  <1>1. PICK s \in Selections :
          AuxDocument!Continue(u, [pc |-> "read", selection |-> s, keys |-> {}])
    BY DEF AuxDocument!Begin
  <1> DEFINE r == [pc |-> "read", selection |-> s, keys |-> {}]
  <1>2. r \in AuxDocument!Upload /\ UploadKnown(r) /\ r.pc = "read" /\ r.keys = {}
    BY ComponentsAssumption DEF AuxDocument!Upload, UploadKnown, AuxDocument!NoneAssumption
  <1>3. documentsUpload' = [documentsUpload EXCEPT ![u] = r]
    BY <1>1 DEF AuxDocument!Continue
  <1> HIDE DEF r
  <1>4. /\ UNCHANGED <<documentsRow, documentsBucket, documentsDeletion, documentsFaults>>
        /\ documentsMet' = (documentsMet \/ \E v \in Uploads \ {u} : documentsUpload[v].pc # "idle")
        /\ documentsUpload[u].keys = {}
    BY DEF AuxDocument!Begin, DocumentsInv, UploadKnown, AuxDocument!IdleUpload
  <1>5. documentsMet' \in BOOLEAN /\ (documentsMet => documentsMet') /\
          (~documentsMet' => \A v \in Uploads \ {u} : documentsUpload[v].pc = "idle")
    BY <1>4 DEF DocumentsInv, AuxDocument!TypeOK
  <1> QED
    BY <1>2, <1>3, <1>4, <1>5, DocumentPasses

\* The locals of an execution at another label, and of one that has left.
LEMMA DocumentLabel ==
    ASSUME NEW r \in AuxDocument!Upload, NEW label \in {"put", "insert", "audit", "clean"}
    PROVE  LET next == [r EXCEPT !.pc = label]
           IN  next \in AuxDocument!Upload /\ next.pc = label /\ next.selection = r.selection /\
               next.keys = r.keys
  BY DEF AuxDocument!Upload

\* An execution under way that keeps answering for its files.
LEMMA DocumentGoes ==
    ASSUME DocumentsInv, NEW u \in Uploads, NEW r \in AuxDocument!Upload,
           documentsUpload[u].pc # "idle", UploadKnown(r),
           AuxDocument!Continue(u, r),
           UNCHANGED <<documentsRow, documentsBucket, documentsDeletion, documentsMet,
               documentsFaults>>,
           documentsUpload[u].keys \subseteq r.keys,
           documentsFaults = 0 /\ ~documentsMet =>
              /\ r.pc # "clean"
              /\ r.pc \in {"put", "insert"} =>
                    documentsRow.state = "absent" /\
                        \A k \in r.keys : documentsBucket[k] = r.selection
    PROVE  DocumentsInv'
  <1>1. documentsUpload' = [documentsUpload EXCEPT ![u] = r]
    BY DEF AuxDocument!Continue
  <1>2. documentsMet' \in BOOLEAN /\ (documentsMet => documentsMet')
    BY DEF DocumentsInv, AuxDocument!TypeOK
  <1>3. documentsFaults = 0 /\ ~documentsMet' =>
          \A v \in Uploads \ {u} : documentsUpload[v].pc = "idle"
    BY DocumentLone
  <1> QED
    BY <1>1, <1>2, <1>3, DocumentPasses

LEMMA DocumentLeave ==
    ASSUME DocumentsInv, NEW u \in Uploads, documentsUpload[u].pc # "idle",
           documentsUpload[u].keys = {}, AuxDocument!Leave(u),
           UNCHANGED <<documentsRow, documentsBucket, documentsDeletion, documentsMet,
               documentsFaults>>
    PROVE  DocumentsInv'
  BY DocumentIdle, DocumentGoes DEF AuxDocument!Leave

LEMMA DocumentReadRow == ASSUME DocumentsInv, NEW u \in Uploads, AuxDocument!ReadRow(u)
    PROVE DocumentsInv'
  <1>1. /\ documentsUpload[u].pc = "read" /\ documentsUpload[u].keys = {}
        /\ documentsUpload[u].selection # None
        /\ documentsUpload[u] \in AuxDocument!Upload
        /\ UNCHANGED <<documentsRow, documentsBucket, documentsDeletion, documentsMet,
             documentsFaults>>
    BY DEF AuxDocument!ReadRow, DocumentsInv, UploadKnown, AuxDocument!TypeOK
  <1>2. CASE documentsRow.state = "absent"
    <2> DEFINE r == [documentsUpload[u] EXCEPT !.pc = "put"]
    <2>1. r \in AuxDocument!Upload /\ r.pc = "put" /\ r.selection # None /\ r.keys = {}
      BY <1>1, DocumentLabel
    <2>2. AuxDocument!Continue(u, r)
      BY <1>2 DEF AuxDocument!ReadRow, AuxDocument!GoTo
    <2> HIDE DEF r
    <2>3. 0 \in 0 .. Count - 1 /\ {} = 1 .. 0
      BY ComponentsAssumption DEF AuxDocument!BoundsAssumption
    <2>4. UploadKnown(r)
      BY <2>1, <2>3 DEF UploadKnown
    <2> QED
      BY <1>1, <1>2, <2>1, <2>2, <2>4, DocumentGoes
  <1>3. CASE documentsRow.state # "absent"
    BY <1>1, <1>3, DocumentLeave DEF AuxDocument!ReadRow
  <1> QED
    BY <1>2, <1>3

LEMMA DocumentWriteAudit == ASSUME DocumentsInv, NEW u \in Uploads, AuxDocument!WriteAudit(u)
    PROVE DocumentsInv'
  BY DocumentLeave DEF AuxDocument!WriteAudit, DocumentsInv, UploadKnown

LEMMA DocumentInsertRefused == ASSUME DocumentsInv, NEW u \in Uploads,
                                      AuxDocument!InsertRefused(u) PROVE DocumentsInv'
  <1> DEFINE r == [documentsUpload[u] EXCEPT !.pc = "clean"]
  <1>1. /\ documentsUpload[u].pc = "insert" /\ documentsUpload[u].selection # None
        /\ documentsUpload[u] \in AuxDocument!Upload
        /\ UNCHANGED <<documentsRow, documentsBucket, documentsDeletion, documentsMet,
             documentsFaults>>
        /\ documentsRow.state # "absent"
    BY DEF AuxDocument!InsertRefused, AuxDocument!Inserts, DocumentsInv, UploadKnown,
       AuxDocument!TypeOK
  <1>2. r \in AuxDocument!Upload /\ r.pc = "clean" /\ r.selection # None /\
          r.keys = documentsUpload[u].keys
    BY <1>1, DocumentLabel
  <1>3. AuxDocument!Continue(u, r)
    BY DEF AuxDocument!InsertRefused, AuxDocument!GoTo
  <1> HIDE DEF r
  <1>4. UploadKnown(r)
    BY <1>2 DEF UploadKnown
  <1>5. ~(documentsFaults = 0 /\ ~documentsMet)
    BY <1>1 DEF DocumentsInv, LoneUpload
  <1> QED
    BY <1>1, <1>2, <1>3, <1>4, <1>5, DocumentGoes

LEMMA DocumentPutFile == ASSUME DocumentsInv, NEW u \in Uploads, AuxDocument!PutFile(u)
    PROVE DocumentsInv'
  <1> DEFINE k == Cardinality(documentsUpload[u].keys) + 1
             label == IF k = Count THEN "insert" ELSE "put"
             r == [[documentsUpload[u] EXCEPT !.keys = @ \cup {k}] EXCEPT !.pc = label]
             s == documentsUpload[u].selection
  <1>1. /\ documentsUpload[u].pc = "put" /\ s # None
        /\ documentsUpload[u] \in AuxDocument!Upload /\ UploadKnown(documentsUpload[u])
        /\ UNCHANGED <<documentsRow, documentsDeletion, documentsMet, documentsFaults>>
        /\ AuxDocument!Store(k, s)
    BY DocumentCount DEF AuxDocument!PutFile, DocumentsInv, UploadKnown, AuxDocument!TypeOK
  <1>2. AuxDocument!Continue(u, r)
    BY DocumentCount DEF AuxDocument!PutFile
  <1>3. k \in AuxDocument!Keys /\ documentsUpload[u].keys \cup {k} = 1 .. k
    BY <1>1, DocumentFile
  <1> HIDE DEF k
  <1>4. label \in {"insert", "put"}
    OBVIOUS
  <1>5. r = [documentsUpload[u] EXCEPT !.keys = documentsUpload[u].keys \cup {k}, !.pc = label]
    OBVIOUS
  <1>6. /\ r \in AuxDocument!Upload /\ r.pc = label /\ r.selection = s
        /\ r.keys = documentsUpload[u].keys \cup {k}
    BY <1>1, <1>3, <1>4, <1>5 DEF AuxDocument!Upload
  <1> HIDE DEF r
  <1>7. UploadKnown(r)
    BY <1>1, <1>3, <1>6, ComponentsAssumption DEF UploadKnown, AuxDocument!Keys,
       AuxDocument!BoundsAssumption
  <1>8. documentsBucket' = [documentsBucket EXCEPT ![k] = s] /\ s \in Selections
    BY <1>1 DEF AuxDocument!Store, AuxDocument!Upload
  <1>9. documentsBucket' \in [AuxDocument!Keys -> Selections \cup {None}]
    BY <1>8 DEF DocumentsInv, AuxDocument!TypeOK
  <1>10. documentsUpload' = [documentsUpload EXCEPT ![u] = r] /\ documentsUpload'[u] = r
         /\ \A v \in Uploads : v # u => documentsUpload'[v] = documentsUpload[v]
    BY <1>2 DEF AuxDocument!Continue, DocumentsInv, AuxDocument!TypeOK
  <1>11. ASSUME documentsFaults' = 0, ~documentsMet' PROVE LoneUpload'
    <2>1. LoneUpload /\ documentsRow.state = "absent" /\ \A v \in Uploads : v # u =>
            documentsUpload[v].pc = "idle"
      BY <1>1, <1>11 DEF DocumentsInv, LoneUpload
    <2>2. \A j \in r.keys : documentsBucket'[j] = s
      BY <1>1, <1>3, <1>6, <1>8, <2>1 DEF LoneUpload, DocumentsInv, AuxDocument!TypeOK,
         AuxDocument!Upload
    <2> QED
      BY <1>1, <1>4, <1>6, <1>10, <2>1, <2>2 DEF LoneUpload
  <1>12. ASSUME documentsFaults' = 0 PROVE FileClaimed'
    <2>1. FileClaimed
      BY <1>1, <1>12 DEF DocumentsInv
    <2>2. \A j \in AuxDocument!Keys : (FileAnswered(j) => FileAnswered(j)') /\
            (j = k => FileAnswered(j)')
      BY <1>1, <1>6, <1>8, <1>10 DEF FileAnswered, DocumentsInv, AuxDocument!TypeOK
    <2> QED
      BY <1>1, <1>3, <2>1, <2>2 DEF FileClaimed
  <1> QED
    BY <1>1, <1>6, <1>7, <1>9, <1>10, <1>11, <1>12, DocumentUpload DEF DocumentsInv,
       AuxDocument!TypeOK

LEMMA DocumentInsertRow == ASSUME DocumentsInv, NEW u \in Uploads, AuxDocument!InsertRow(u)
    PROVE DocumentsInv'
  <1> DEFINE s == documentsUpload[u].selection
             r == [documentsUpload[u] EXCEPT !.pc = "audit", !.keys = {}]
  <1>1. /\ documentsUpload[u].pc = "insert" /\ s # None /\ s \in Selections
        /\ documentsUpload[u] \in AuxDocument!Upload
        /\ documentsUpload[u].keys = AuxDocument!Keys /\ documentsRow.state = "absent"
        /\ UNCHANGED <<documentsBucket, documentsDeletion, documentsMet, documentsFaults>>
        /\ documentsRow' = [state |-> "live", selection |-> s]
    BY DEF AuxDocument!InsertRow, AuxDocument!Inserts, DocumentsInv, UploadKnown,
       AuxDocument!TypeOK, AuxDocument!Upload
  <1>2. r \in AuxDocument!Upload /\ r.pc = "audit" /\ r.selection = s /\ r.keys = {}
    BY <1>1 DEF AuxDocument!Upload
  <1>3. documentsUpload' = [documentsUpload EXCEPT ![u] = r]
    BY DEF AuxDocument!InsertRow, AuxDocument!Continue
  <1> HIDE DEF r
  <1>4. UploadKnown(r)
    BY <1>1, <1>2 DEF UploadKnown
  <1>5. documentsUpload'[u] = r /\ \A v \in Uploads : v # u =>
          documentsUpload'[v] = documentsUpload[v]
    BY <1>3 DEF DocumentsInv, AuxDocument!TypeOK
  <1>6. documentsRow' \in AuxDocument!Row /\ documentsRow'.state = "live" /\
          documentsRow'.selection = s
    BY <1>1 DEF AuxDocument!Row
  <1>7. \A d \in Deletions : documentsDeletion'[d].pc = "idle"
    BY <1>1 DEF DocumentsInv, DeletionKnown
  <1>8. ASSUME documentsFaults' = 0, ~documentsMet' PROVE LoneUpload'
    <2>1. LoneUpload
      BY <1>1, <1>8 DEF DocumentsInv
    <2>2. AuxDocument!Whole'
      BY <1>1, <1>6, <2>1 DEF LoneUpload, AuxDocument!Whole
    <2> QED
      BY <1>1, <1>2, <1>5, <2>1, <2>2 DEF LoneUpload
  <1>9. FileClaimed'
    BY <1>6, <1>7 DEF FileClaimed
  <1> QED
    BY <1>1, <1>2, <1>3, <1>4, <1>6, <1>8, <1>9, DocumentUpload DEF DocumentsInv, AuxDocument!TypeOK

LEMMA DocumentCleanFile == ASSUME DocumentsInv, NEW u \in Uploads, AuxDocument!CleanFile(u)
    PROVE DocumentsInv'
  <1>1. /\ documentsUpload[u].pc = "clean" /\ documentsUpload[u].selection # None
        /\ documentsUpload[u] \in AuxDocument!Upload
        /\ UNCHANGED <<documentsRow, documentsDeletion, documentsMet, documentsFaults>>
    BY DEF AuxDocument!CleanFile, DocumentsInv, UploadKnown, AuxDocument!TypeOK
  <1>2. CASE documentsUpload[u].keys = {}
    BY <1>1, <1>2, DocumentLeave DEF AuxDocument!CleanFile
  <1>3. CASE documentsUpload[u].keys # {}
    <2>1. PICK k \in documentsUpload[u].keys :
             AuxDocument!Store(k, None) /\
                 AuxDocument!Continue(u, [documentsUpload[u] EXCEPT !.keys = @ \ {k}])
      BY <1>3 DEF AuxDocument!CleanFile
    <2> DEFINE r == [documentsUpload[u] EXCEPT !.keys = @ \ {k}]
    <2>2. /\ r \in AuxDocument!Upload /\ r.pc = "clean" /\ r.selection # None
          /\ r.keys = documentsUpload[u].keys \ {k}
          /\ k \in AuxDocument!Keys
      BY <1>1 DEF AuxDocument!Upload
    <2>3. documentsUpload' = [documentsUpload EXCEPT ![u] = r]
      BY <2>1 DEF AuxDocument!Continue
    <2> HIDE DEF r
    <2>4. UploadKnown(r)
      BY <2>2 DEF UploadKnown
    <2>5. /\ documentsBucket' \in [AuxDocument!Keys -> Selections \cup {None}]
          /\ documentsBucket'[k] = None /\ \A j \in AuxDocument!Keys : j # k =>
               documentsBucket'[j] = documentsBucket[j]
      BY <2>1, <2>2 DEF AuxDocument!Store, DocumentsInv, AuxDocument!TypeOK
    <2>6. documentsUpload'[u] = r /\ \A v \in Uploads : v # u =>
            documentsUpload'[v] = documentsUpload[v]
      BY <2>3 DEF DocumentsInv, AuxDocument!TypeOK
    <2>7. ~(documentsFaults' = 0 /\ ~documentsMet')
      BY <1>1 DEF DocumentsInv, LoneUpload
    <2>8. ASSUME documentsFaults' = 0 PROVE FileClaimed'
      <3>1. FileClaimed
        BY <1>1, <2>8 DEF DocumentsInv
      <3>2. \A j \in AuxDocument!Keys : FileAnswered(j) => FileAnswered(j)'
        BY <2>2, <2>5, <2>6 DEF FileAnswered
      <3> QED
        BY <1>1, <3>1, <3>2 DEF FileClaimed
    <2> QED
      BY <1>1, <2>2, <2>3, <2>4, <2>5, <2>7, <2>8, DocumentUpload DEF DocumentsInv,
         AuxDocument!TypeOK
  <1> QED
    BY <1>2, <1>3


\* What a deletion leaves of the types and the shapes.
LEMMA DocumentDeletion ==
    ASSUME DocumentsInv, NEW d \in Deletions, NEW r \in AuxDocument!Deletion,
           UNCHANGED <<documentsUpload, documentsMet>>,
           documentsDeletion' = [documentsDeletion EXCEPT ![d] = r],
           r.pc = "idle" => r = AuxDocument!IdleDeletion, r.pc = "mark" => r.keys = {},
           documentsRow.state # "absent", documentsRow'.state # "absent",
           documentsRow' \in AuxDocument!Row, documentsRow'.state = "live" <=>
               documentsRow'.selection # None,
           documentsBucket' \in [AuxDocument!Keys -> Selections \cup {None}],
           documentsFaults' \in 0 .. MaxFaults,
           documentsFaults' = 0 /\ ~documentsMet => LoneUpload', documentsFaults' = 0 =>
               FileClaimed'
    PROVE  DocumentsInv'
  <1>1. /\ documentsDeletion' \in [Deletions -> AuxDocument!Deletion] /\ documentsDeletion'[d] = r
        /\ \A e \in Deletions : e # d => documentsDeletion'[e] = documentsDeletion[e]
    BY DEF DocumentsInv, AuxDocument!TypeOK
  <1>2. AuxDocument!TypeOK'
    BY <1>1 DEF DocumentsInv, AuxDocument!TypeOK
  <1>3. \A e \in Deletions : DeletionKnown(e)'
    BY <1>1 DEF DocumentsInv, DeletionKnown
  <1>4. \A u \in Uploads : UploadKnown(documentsUpload'[u])
    BY DEF DocumentsInv
  <1> QED
    BY <1>2, <1>3, <1>4 DEF DocumentsInv

LEMMA DocumentBeginDeletion == ASSUME DocumentsInv, NEW d \in Deletions,
                                      AuxDocument!BeginDeletion(d) PROVE DocumentsInv'
  <1> DEFINE r == [pc |-> IF AuxDocument!Listed = {} THEN "mark"
        ELSE "remove", keys |-> AuxDocument!Listed]
  <1>1. /\ documentsRow.state # "absent" /\ documentsDeletion' = [documentsDeletion EXCEPT ![d] = r]
        /\ UNCHANGED <<documentsRow, documentsBucket, documentsUpload, documentsMet,
             documentsFaults>>
    BY DEF AuxDocument!BeginDeletion
  <1>2. 1 \in AuxDocument!Keys
    BY ComponentsAssumption DEF AuxDocument!Keys, AuxDocument!BoundsAssumption
  <1>3. /\ r \in AuxDocument!Deletion /\ r.pc \in {"mark", "remove"} /\
             (r.pc = "mark" => r.keys = {})
        /\ r.keys = IF documentsRow.state = "live" THEN AuxDocument!Keys ELSE {}
    BY DEF AuxDocument!Deletion, AuxDocument!Listed
  <1> HIDE DEF r
  <1>4. documentsDeletion'[d] = r /\ \A e \in Deletions : e # d =>
          documentsDeletion'[e] = documentsDeletion[e]
    BY <1>1 DEF DocumentsInv, AuxDocument!TypeOK
  <1>5. AuxDocument!Deleting'
    BY <1>3, <1>4 DEF AuxDocument!Deleting
  <1>6. ASSUME documentsFaults' = 0, ~documentsMet PROVE LoneUpload'
    BY <1>1, <1>5, <1>6 DEF DocumentsInv, LoneUpload
  <1>7. ASSUME documentsFaults' = 0 PROVE FileClaimed'
    BY <1>1, <1>3, <1>4, <1>7 DEF DocumentsInv, FileClaimed, FileAnswered
  <1> QED
    BY <1>1, <1>3, <1>6, <1>7, DocumentDeletion DEF DocumentsInv, AuxDocument!TypeOK

LEMMA DocumentRemoveFile == ASSUME DocumentsInv, NEW d \in Deletions, AuxDocument!RemoveFile(d)
    PROVE DocumentsInv'
  <1>1. PICK k \in documentsDeletion[d].keys :
           /\ AuxDocument!Store(k, None)
           /\ documentsDeletion' = [documentsDeletion EXCEPT ![d] =
                 [pc |-> IF documentsDeletion[d].keys = {k} THEN "mark" ELSE "remove",
                  keys |-> documentsDeletion[d].keys \ {k}]]
    BY DEF AuxDocument!RemoveFile
  <1> DEFINE r == [pc |-> IF documentsDeletion[d].keys = {k} THEN "mark" ELSE "remove",
                   keys |-> documentsDeletion[d].keys \ {k}]
  <1>2. /\ documentsDeletion[d].pc = "remove" /\ documentsDeletion[d] \in AuxDocument!Deletion
        /\ documentsRow.state # "absent"
        /\ UNCHANGED <<documentsRow, documentsUpload, documentsMet, documentsFaults>>
    BY DEF AuxDocument!RemoveFile, DocumentsInv, AuxDocument!TypeOK, DeletionKnown
  <1>3. /\ r \in AuxDocument!Deletion /\ r.pc \in {"mark", "remove"} /\
             (r.pc = "mark" => r.keys = {})
        /\ r.keys = documentsDeletion[d].keys \ {k} /\ k \in AuxDocument!Keys
    BY <1>2 DEF AuxDocument!Deletion
  <1>4. documentsDeletion' = [documentsDeletion EXCEPT ![d] = r]
    BY <1>1
  <1> HIDE DEF r
  <1>5. documentsDeletion'[d] = r /\ \A e \in Deletions : e # d =>
          documentsDeletion'[e] = documentsDeletion[e]
    BY <1>4 DEF DocumentsInv, AuxDocument!TypeOK
  <1>6. /\ documentsBucket' \in [AuxDocument!Keys -> Selections \cup {None}]
        /\ documentsBucket'[k] = None /\ \A j \in AuxDocument!Keys : j # k =>
             documentsBucket'[j] = documentsBucket[j]
    BY <1>1, <1>3 DEF AuxDocument!Store, DocumentsInv, AuxDocument!TypeOK
  <1>7. AuxDocument!Deleting'
    BY <1>3, <1>5 DEF AuxDocument!Deleting
  <1>8. ASSUME documentsFaults' = 0, ~documentsMet PROVE LoneUpload'
    <2>1. LoneUpload
      BY <1>2, <1>8 DEF DocumentsInv
    <2>2. \A u \in Uploads : documentsUpload'[u].pc \notin {"put", "insert"}
      BY <1>2, <2>1 DEF LoneUpload
    <2> QED
      BY <1>2, <1>7, <2>1, <2>2 DEF LoneUpload
  <1>9. ASSUME documentsFaults' = 0 PROVE FileClaimed'
    <2>1. \A j \in AuxDocument!Keys : (FileAnswered(j) => FileAnswered(j)') /\ FileAnswered(k)'
      BY <1>2, <1>3, <1>6 DEF FileAnswered
    <2>2. FileClaimed
      BY <1>2, <1>9 DEF DocumentsInv
    <2>3. documentsRow'.state # "live" => \A j \in AuxDocument!Keys : FileAnswered(j)'
      BY <1>2, <2>1, <2>2 DEF FileClaimed
    <2>4. ASSUME NEW e \in Deletions, documentsDeletion'[e].pc # "idle",
                 NEW j \in AuxDocument!Keys \ documentsDeletion'[e].keys
          PROVE  FileAnswered(j)'
      BY <1>2, <1>3, <1>5, <2>1, <2>2, <2>4 DEF FileClaimed
    <2> QED
      BY <2>3, <2>4 DEF FileClaimed
  <1> QED
    BY <1>2, <1>3, <1>4, <1>6, <1>8, <1>9, DocumentDeletion DEF DocumentsInv, AuxDocument!TypeOK

LEMMA DocumentMarkDeleted == ASSUME DocumentsInv, NEW d \in Deletions, AuxDocument!MarkDeleted(d)
    PROVE DocumentsInv'
  <1>1. /\ documentsDeletion[d].pc = "mark" /\ documentsDeletion[d].keys = {}
        /\ documentsRow.state # "absent"
        /\ documentsRow' = [state |-> "deleted", selection |-> None]
        /\ documentsDeletion' = [documentsDeletion EXCEPT ![d] = AuxDocument!IdleDeletion]
        /\ UNCHANGED <<documentsBucket, documentsUpload, documentsMet, documentsFaults>>
    BY DEF AuxDocument!MarkDeleted, DocumentsInv, DeletionKnown
  <1>2. documentsRow' \in AuxDocument!Row /\ documentsRow'.state = "deleted" /\
          documentsRow'.selection = None
    BY <1>1 DEF AuxDocument!Row
  <1>3. AuxDocument!IdleDeletion \in AuxDocument!Deletion /\ AuxDocument!IdleDeletion.pc = "idle"
    BY DEF AuxDocument!IdleDeletion, AuxDocument!Deletion
  <1>4. \A e \in Deletions : e # d => documentsDeletion'[e] = documentsDeletion[e]
    BY <1>1 DEF DocumentsInv, AuxDocument!TypeOK
  <1>5. ASSUME documentsFaults' = 0, ~documentsMet PROVE LoneUpload'
    <2>1. LoneUpload
      BY <1>1, <1>5 DEF DocumentsInv
    <2>2. \A u \in Uploads : documentsUpload'[u].pc \notin {"put", "insert"}
      BY <1>1, <2>1 DEF LoneUpload
    <2> QED
      BY <1>1, <1>2, <2>1, <2>2 DEF LoneUpload
  <1>6. ASSUME documentsFaults' = 0 PROVE FileClaimed'
    <2>1. FileClaimed
      BY <1>1, <1>6 DEF DocumentsInv
    <2>2. \A k \in AuxDocument!Keys : FileAnswered(k)
      BY <1>1, <2>1 DEF FileClaimed
    <2> QED
      BY <1>1, <2>2 DEF FileClaimed, FileAnswered
  <1> QED
    BY <1>1, <1>2, <1>3, <1>5, <1>6, DocumentDeletion DEF DocumentsInv, AuxDocument!TypeOK

LEMMA DocumentFaulty == ASSUME DocumentsInv, AuxDocument!Fault
    PROVE documentsFaults' \in 0 .. MaxFaults /\ documentsFaults' # 0
  BY ComponentsAssumption DEF DocumentsInv, AuxDocument!TypeOK, AuxDocument!Fault,
     AuxDocument!BoundsAssumption

\* The row as it was, or as an upload inserted it.
LEMMA DocumentRow ==
    ASSUME DocumentsInv, NEW u \in Uploads, documentsUpload[u].pc = "insert",
           \/ AuxDocument!Inserts /\
                documentsRow' = [state |-> "live", selection |-> documentsUpload[u].selection]
           \/ UNCHANGED documentsRow
    PROVE  /\ documentsRow' \in AuxDocument!Row /\
                (documentsRow'.state = "live" <=> documentsRow'.selection # None)
           /\ documentsRow'.state = "absent" => documentsRow.state = "absent"
  <1>1. documentsUpload[u].selection \in Selections /\ documentsUpload[u].selection # None
    BY DEF DocumentsInv, AuxDocument!TypeOK, UploadKnown, AuxDocument!Upload
  <1>2. CASE UNCHANGED documentsRow
    BY <1>2 DEF DocumentsInv, AuxDocument!TypeOK
  <1>3. CASE documentsRow' = [state |-> "live", selection |-> documentsUpload[u].selection]
    BY <1>1, <1>3 DEF AuxDocument!Row
  <1> QED
    BY <1>2, <1>3

\* An execution of POST that meets a fault cleans up.
LEMMA DocumentFails ==
    ASSUME DocumentsInv, NEW u \in Uploads, AuxDocument!PutFails(u) \/
        AuxDocument!InsertFails(u) \/ AuxDocument!CleanFails(u)
    PROVE  DocumentsInv'
  <1>1. /\ documentsUpload[u].pc # "idle" /\ documentsUpload[u].selection # None
        /\ documentsUpload[u] \in AuxDocument!Upload
        /\ UNCHANGED <<documentsDeletion, documentsMet>> /\ documentsFaults' \in 0 .. MaxFaults
        /\ documentsFaults' # 0
    BY DocumentFaulty DEF AuxDocument!PutFails, AuxDocument!InsertFails, AuxDocument!CleanFails,
       DocumentsInv, AuxDocument!TypeOK, UploadKnown
  <1>2. PICK r \in AuxDocument!Upload : AuxDocument!Continue(u, r) /\ r.pc = "clean" /\
          r.selection # None
    <2>1. CASE AuxDocument!CleanFails(u)
      <3>1. PICK k \in documentsUpload[u].keys :
              AuxDocument!Continue(u, [documentsUpload[u] EXCEPT !.keys = @ \ {k}])
        BY <2>1 DEF AuxDocument!CleanFails
      <3> DEFINE s == [documentsUpload[u] EXCEPT !.keys = @ \ {k}]
      <3>2. s \in AuxDocument!Upload /\ s.pc = "clean" /\ s.selection # None
        BY <1>1, <2>1 DEF AuxDocument!Upload, AuxDocument!CleanFails
      <3> QED
        BY <3>1, <3>2
    <2>2. CASE AuxDocument!PutFails(u) \/ AuxDocument!InsertFails(u)
      <3> DEFINE s == [documentsUpload[u] EXCEPT !.pc = "clean"]
      <3>1. s \in AuxDocument!Upload /\ s.pc = "clean" /\ s.selection # None
        BY <1>1, DocumentLabel
      <3>2. AuxDocument!Continue(u, s)
        BY <2>2 DEF AuxDocument!PutFails, AuxDocument!InsertFails, AuxDocument!GoTo
      <3> QED
        BY <3>1, <3>2
    <2> QED
      BY <2>1, <2>2
  <1>3. UploadKnown(r) /\ documentsUpload' = [documentsUpload EXCEPT ![u] = r]
    BY <1>2 DEF UploadKnown, AuxDocument!Continue
  <1>4. documentsBucket' \in [AuxDocument!Keys -> Selections \cup {None}]
    <2>1. CASE AuxDocument!PutFails(u)
      <3>1. Cardinality(documentsUpload[u].keys) + 1 \in AuxDocument!Keys /\
              documentsUpload[u].selection \in Selections
        BY <2>1, <1>1, DocumentFile DEF AuxDocument!PutFails, DocumentsInv, AuxDocument!Upload
      <3> QED
        BY <2>1, <3>1, DocumentCount DEF AuxDocument!PutFails, AuxDocument!Store, DocumentsInv,
           AuxDocument!TypeOK
    <2>2. CASE AuxDocument!InsertFails(u) \/ AuxDocument!CleanFails(u)
      BY <2>2 DEF AuxDocument!InsertFails, AuxDocument!CleanFails, DocumentsInv, AuxDocument!TypeOK
    <2> QED
      BY <2>1, <2>2
  <1>5. /\ documentsRow' \in AuxDocument!Row /\
             (documentsRow'.state = "live" <=> documentsRow'.selection # None)
        /\ documentsRow'.state = "absent" => documentsRow.state = "absent"
    <2>1. CASE AuxDocument!InsertFails(u)
      BY <2>1, DocumentRow DEF AuxDocument!InsertFails
    <2>2. CASE AuxDocument!PutFails(u) \/ AuxDocument!CleanFails(u)
      BY <2>2 DEF AuxDocument!PutFails, AuxDocument!CleanFails, DocumentsInv, AuxDocument!TypeOK
    <2> QED
      BY <2>1, <2>2
  <1> QED
    BY <1>1, <1>2, <1>3, <1>4, <1>5, DocumentUpload DEF DocumentsInv, AuxDocument!TypeOK

LEMMA DocumentDeletionFails == ASSUME DocumentsInv, NEW d \in Deletions,
                                      AuxDocument!DeletionFails(d) PROVE DocumentsInv'
  <1>1. /\ documentsDeletion[d].pc # "idle" /\ documentsRow.state # "absent"
        /\ documentsDeletion' = [documentsDeletion EXCEPT ![d] = AuxDocument!IdleDeletion]
        /\ UNCHANGED <<documentsRow, documentsBucket, documentsUpload, documentsMet>>
        /\ documentsFaults' \in 0 .. MaxFaults /\ documentsFaults' # 0
    BY DocumentFaulty DEF AuxDocument!DeletionFails, DocumentsInv, DeletionKnown
  <1>2. AuxDocument!IdleDeletion \in AuxDocument!Deletion /\ AuxDocument!IdleDeletion.pc = "idle"
    BY DEF AuxDocument!IdleDeletion, AuxDocument!Deletion
  <1> QED
    BY <1>1, <1>2, DocumentDeletion DEF DocumentsInv, AuxDocument!TypeOK

LEMMA DocumentCrash == ASSUME DocumentsInv, AuxDocument!Crash PROVE DocumentsInv'
  <1>1. /\ documentsUpload' = [u \in Uploads |-> AuxDocument!IdleUpload]
        /\ documentsDeletion' = [d \in Deletions |-> AuxDocument!IdleDeletion]
        /\ UNCHANGED <<documentsRow, documentsBucket, documentsMet>>
        /\ documentsFaults' \in 0 .. MaxFaults /\ documentsFaults' # 0
    BY DocumentFaulty DEF AuxDocument!Crash
  <1>2. AuxDocument!IdleDeletion \in AuxDocument!Deletion /\ AuxDocument!IdleDeletion.pc = "idle"
    BY DEF AuxDocument!IdleDeletion, AuxDocument!Deletion
  <1>3. AuxDocument!TypeOK'
    BY <1>1, <1>2, DocumentIdle DEF DocumentsInv, AuxDocument!TypeOK
  <1>4. \A d \in Deletions : DeletionKnown(d)'
    BY <1>1, <1>2 DEF DeletionKnown
  <1>5. \A u \in Uploads : UploadKnown(documentsUpload'[u])
    BY <1>1, DocumentIdle
  <1> QED
    BY <1>1, <1>3, <1>4, <1>5 DEF DocumentsInv

LEMMA DocumentStill == ASSUME DocumentsInv, UNCHANGED AuxDocument!vars PROVE DocumentsInv'
  <1>1. UNCHANGED <<documentsRow, documentsBucket, documentsUpload, documentsDeletion,
          documentsMet, documentsFaults>>
    BY DEF AuxDocument!vars
  <1>2. AuxDocument!Deleting' <=> AuxDocument!Deleting
    BY <1>1 DEF AuxDocument!Deleting
  <1>3. LoneUpload => LoneUpload'
    BY <1>1, <1>2 DEF LoneUpload, AuxDocument!Whole
  <1>4. \A k \in AuxDocument!Keys : FileAnswered(k)' <=> FileAnswered(k)
    BY <1>1 DEF FileAnswered
  <1>5. FileClaimed => FileClaimed'
    BY <1>1, <1>4 DEF FileClaimed
  <1>6. AuxDocument!TypeOK'
    BY <1>1 DEF DocumentsInv, AuxDocument!TypeOK
  <1>7. \A d \in Deletions : DeletionKnown(d)'
    BY <1>1 DEF DocumentsInv, DeletionKnown
  <1> QED
    BY <1>1, <1>3, <1>5, <1>6, <1>7 DEF DocumentsInv

LEMMA DocumentStep == DocumentsInv /\ [AuxDocument!Next]_(AuxDocument!vars) => DocumentsInv'
  <1> SUFFICES ASSUME DocumentsInv, [AuxDocument!Next]_(AuxDocument!vars) PROVE DocumentsInv'
    OBVIOUS
  <1>1. CASE UNCHANGED AuxDocument!vars
    BY <1>1, DocumentStill
  <1>2. ASSUME NEW u \in Uploads,
               \/ AuxDocument!Begin(u) \/ AuxDocument!ReadRow(u) \/ AuxDocument!PutFile(u)
               \/ AuxDocument!InsertRow(u) \/ AuxDocument!InsertRefused(u) \/
                    AuxDocument!WriteAudit(u) \/ AuxDocument!CleanFile(u)
               \/ AuxDocument!PutFails(u) \/ AuxDocument!InsertFails(u) \/ AuxDocument!CleanFails(u)
        PROVE  DocumentsInv'
    BY <1>2, DocumentBegin, DocumentReadRow, DocumentPutFile, DocumentInsertRow,
       DocumentInsertRefused,
       DocumentWriteAudit, DocumentCleanFile, DocumentFails
  <1>3. ASSUME NEW d \in Deletions,
               AuxDocument!BeginDeletion(d) \/ AuxDocument!RemoveFile(d) \/
                   AuxDocument!MarkDeleted(d) \/ AuxDocument!DeletionFails(d)
        PROVE  DocumentsInv'
    BY <1>3, DocumentBeginDeletion, DocumentRemoveFile, DocumentMarkDeleted, DocumentDeletionFails
  <1>4. CASE AuxDocument!Crash
    BY <1>4, DocumentCrash
  <1> QED
    BY <1>1, <1>2, <1>3, <1>4 DEF AuxDocument!Next

LEMMA DocumentHolds == DocumentsInv =>
    AuxDocument!TypeOK /\ AuxDocument!LoneUploadIsWhole /\ AuxDocument!NoOrphans
  <1> SUFFICES ASSUME DocumentsInv
        PROVE AuxDocument!TypeOK /\ AuxDocument!LoneUploadIsWhole /\ AuxDocument!NoOrphans
    OBVIOUS
  <1>1. AuxDocument!LoneUploadIsWhole
    BY DEF DocumentsInv, LoneUpload, AuxDocument!LoneUploadIsWhole
  <1>2. (\A u \in Uploads : documentsUpload[u].pc = "idle") =>
          \A u \in Uploads : documentsUpload[u].keys = {}
    BY DEF DocumentsInv, UploadKnown, AuxDocument!IdleUpload
  <1>3. AuxDocument!NoOrphans
    BY <1>2 DEF DocumentsInv, FileClaimed, FileAnswered, AuxDocument!NoOrphans
  <1> QED
    BY <1>1, <1>3 DEF DocumentsInv

\* A deleted row is marked again at most.
LEMMA DocumentDeletedStays == DocumentsInv /\ [AuxDocument!Next]_(AuxDocument!vars) =>
    (documentsRow.state = "deleted" => documentsRow' = documentsRow)
  <1> SUFFICES ASSUME DocumentsInv, [AuxDocument!Next]_(AuxDocument!vars),
                      documentsRow.state = "deleted" PROVE documentsRow' = documentsRow
    OBVIOUS
  <1>1. documentsRow = [state |-> "deleted", selection |-> None]
    BY DEF DocumentsInv, AuxDocument!TypeOK, AuxDocument!Row
  <1>2. ~AuxDocument!Inserts
    BY DEF AuxDocument!Inserts
  <1>3. \A u \in Uploads : ~AuxDocument!InsertRow(u) /\
          (AuxDocument!InsertFails(u) => documentsRow' = documentsRow)
    BY <1>2 DEF AuxDocument!InsertRow, AuxDocument!InsertFails
  <1>4. \A d \in Deletions : AuxDocument!MarkDeleted(d) => documentsRow' = documentsRow
    BY <1>1 DEF AuxDocument!MarkDeleted
  <1> QED
    BY <1>3, <1>4 DEF AuxDocument!Next, AuxDocument!vars, AuxDocument!Begin, AuxDocument!ReadRow,
       AuxDocument!PutFile, AuxDocument!InsertRefused, AuxDocument!WriteAudit,
       AuxDocument!CleanFile,
       AuxDocument!PutFails, AuxDocument!CleanFails, AuxDocument!BeginDeletion,
       AuxDocument!RemoveFile, AuxDocument!DeletionFails, AuxDocument!Crash
-----------------------------------------------------------------------------
(* Flight itineraries of the auxiliary team.                              *)

SaveDone == [pc |-> "done"]
SaveSteps == {"read", "store", "write", "undo", "detach", "audit"}
SaveUnderWay == [pc : SaveSteps, op : Operations, old : SUBSET Saves]
SaveLocals == {AuxItinerary!Idle, SaveDone} \cup SaveUnderWay
Removal == [pc : {"write", "remove"}, old : SUBSET Saves]

ItineraryShape ==
    /\ itineraryRow \in AuxItinerary!Row \cup {None}
    /\ itineraryForm \in [Operations -> AuxItinerary!Form \cup {None}]
    /\ itinerarySave \in [Saves -> SaveLocals]
    /\ itineraryDelete \in [Deletes -> {AuxItinerary!Idle} \cup Removal]
    /\ itineraryImages \subseteq Saves /\ itineraryApplied \in [Operations -> Nat]
    /\ itineraryTold \subseteq Operations
    /\ itineraryUnheard \in BOOLEAN /\ itineraryFaulty \in BOOLEAN

\* The row is still the one the operation was asked about.
OfRevision(o) ==
    IF itineraryForm[o].revision = 0 THEN itineraryRow = None
        ELSE AuxItinerary!Listed /\ itineraryRow.revision = itineraryForm[o].revision

\* What an execution knows at each of its steps.
SaveKnown(h) ==
    LET s == itinerarySave[h] IN
      /\ s.pc \in SaveSteps => itineraryForm[s.op] # None
      /\ s.pc \in {"store", "write"} =>
            itineraryForm[s.op].revision < MaxRevision /\
                (OfRevision(s.op) => s.old = AuxItinerary!Stored)
      /\ s.pc = "store" => itineraryForm[s.op].file
      /\ s.pc \in {"detach", "audit"} => itineraryApplied[s.op] = 1
      /\ s.pc \in {"idle", "read", "store"} \/ (s.pc = "write" /\ ~itineraryForm[s.op].file) =>
           h \notin itineraryImages

\* An operation that changed the row is of a revision that is past.
AppliedOnce(o) ==
    /\ itineraryApplied[o] <= 1
    /\ itineraryApplied[o] = 1 =>
         itineraryForm[o] # None /\ itineraryForm[o].revision < AuxItinerary!Revision
    /\ o \in itineraryTold => itineraryApplied[o] = 1
    /\ itineraryForm[o] # None => itineraryForm[o].revision <= AuxItinerary!Revision
    /\ itineraryForm[o] # None /\ OfRevision(o) =>
         itineraryForm[o].retained \subseteq AuxItinerary!Stored

ItineraryKnown ==
    /\ itineraryRow # None =>
         itineraryApplied[itineraryRow.operation] = 1 /\
             (itineraryRow.deleted => itineraryRow.images = {})
    /\ \A d \in Deletes : itineraryDelete[d].pc = "remove" =>
         itineraryRow # None /\ itineraryRow.deleted

\* An execution that has not changed the row: nobody else can know its image.
BeforeWrite(h) == itinerarySave[h].pc \in {"idle", "read", "store", "write", "undo"}

ImageUnknown(h) ==
    /\ h \notin AuxItinerary!Stored
    /\ \A o \in Operations : itineraryForm[o] # None => h \notin itineraryForm[o].retained
    /\ \A g \in Saves : itinerarySave[g].pc \in SaveSteps => h \notin itinerarySave[g].old
    /\ \A d \in Deletes : itineraryDelete[d].pc # "idle" => h \notin itineraryDelete[d].old

ImageHeard(h) ==
    /\ BeforeWrite(h) => ImageUnknown(h)
    /\ itinerarySave[h].pc = "write" /\ AuxItinerary!FormOf(h).file => h \in itineraryImages
    /\ itinerarySave[h].pc = "detach" =>
         AuxItinerary!Stored \cap (itinerarySave[h].old \ AuxItinerary!Images(h)) = {}

\* An image is of the row, or of somebody who will list it or remove it.
ImageClaimed(x) ==
    \/ x \in AuxItinerary!Stored
    \/ itinerarySave[x].pc \in {"write", "undo"}
    \/ \E h \in Saves : itinerarySave[h].pc = "detach" /\
         x \in itinerarySave[h].old \ AuxItinerary!Images(h)
    \/ \E d \in Deletes : itineraryDelete[d].pc = "remove" /\ x \in itineraryDelete[d].old

ItineraryInv ==
    /\ ItineraryShape
    /\ \A h \in Saves : SaveKnown(h)
    /\ \A o \in Operations : AppliedOnce(o)
    /\ ItineraryKnown
    /\ ~itineraryUnheard =>
         AuxItinerary!Stored \subseteq itineraryImages /\ \A h \in Saves : ImageHeard(h)
    /\ ~itineraryUnheard /\ ~itineraryFaulty => \A x \in itineraryImages : ImageClaimed(x)

LEMMA ItineraryAssumed == MaxRevision \in Nat \ {0} /\ None \notin AuxItinerary!Row /\
    None \notin AuxItinerary!Form
  BY ComponentsAssumption DEF AuxItinerary!AuxItineraryAssumption

LEMMA ItineraryInit == AuxItinerary!Init => ItineraryInv
  <1> SUFFICES ASSUME AuxItinerary!Init PROVE ItineraryInv
    OBVIOUS
  <1>1. \A h \in Saves : itinerarySave[h] = AuxItinerary!Idle /\ itinerarySave[h].pc = "idle"
    BY DEF AuxItinerary!Init, AuxItinerary!Idle
  <1>2. \A d \in Deletes : itineraryDelete[d] = AuxItinerary!Idle /\ itineraryDelete[d].pc = "idle"
    BY DEF AuxItinerary!Init, AuxItinerary!Idle
  <1>3. /\ itineraryRow = None /\ itineraryForm \in [Operations -> {None}]
        /\ itineraryImages = {} /\ itineraryTold = {}
        /\ itineraryApplied \in [Operations -> Nat] /\
             \A o \in Operations : itineraryForm[o] = None /\ itineraryApplied[o] = 0
        /\ itineraryUnheard = FALSE /\ itineraryFaulty = FALSE
    BY DEF AuxItinerary!Init
  <1>4. itinerarySave \in [Saves -> SaveLocals] /\
          itineraryDelete \in [Deletes -> {AuxItinerary!Idle} \cup Removal]
    BY DEF AuxItinerary!Init, SaveLocals
  <1>5. ItineraryShape
    BY <1>3, <1>4 DEF ItineraryShape
  <1>6. \A h \in Saves : SaveKnown(h)
    BY <1>1, <1>3 DEF SaveKnown, SaveSteps
  <1>7. \A o \in Operations : AppliedOnce(o)
    BY <1>3 DEF AppliedOnce
  <1>8. ItineraryKnown
    BY <1>2, <1>3 DEF ItineraryKnown
  <1>9. AuxItinerary!Stored = {}
    BY <1>3 DEF AuxItinerary!Stored
  <1>10. \A h \in Saves : ImageHeard(h)
    BY <1>1, <1>2, <1>3, <1>9 DEF ImageHeard, ImageUnknown, BeforeWrite, SaveSteps
  <1> QED
    BY <1>3, <1>5, <1>6, <1>7, <1>8, <1>9, <1>10 DEF ItineraryInv

\* What an execution has of its own.
LEMMA ItinerarySave ==
    ASSUME ItineraryShape, NEW h \in Saves
    PROVE  /\ itinerarySave[h].pc \in SaveSteps \cup {"idle", "done"}
           /\ itinerarySave[h].pc = "idle" <=> itinerarySave[h] = AuxItinerary!Idle
           /\ itinerarySave[h].pc = "done" <=> itinerarySave[h] = SaveDone
           /\ itinerarySave[h].pc \in SaveSteps => /\ itinerarySave[h] \in SaveUnderWay
                                      /\ itinerarySave[h].op \in Operations
                                      /\ itinerarySave[h].old \subseteq Saves
  BY DEF ItineraryShape, SaveLocals, SaveUnderWay, SaveSteps, AuxItinerary!Idle, SaveDone

LEMMA ItineraryDelete ==
    ASSUME ItineraryShape, NEW d \in Deletes
    PROVE  /\ itineraryDelete[d].pc \in {"idle", "write", "remove"}
           /\ itineraryDelete[d].pc = "idle" <=> itineraryDelete[d] = AuxItinerary!Idle
           /\ itineraryDelete[d].pc # "idle" =>
                itineraryDelete[d] \in Removal /\ itineraryDelete[d].old \subseteq Saves
  BY DEF ItineraryShape, Removal, AuxItinerary!Idle

LEMMA ItineraryForm ==
    ASSUME ItineraryShape, NEW o \in Operations, itineraryForm[o] # None
    PROVE  /\ itineraryForm[o] \in AuxItinerary!Form /\ itineraryForm[o].revision \in Nat
           /\ itineraryForm[o].retained \subseteq Saves /\ itineraryForm[o].file \in BOOLEAN
  BY DEF ItineraryShape, AuxItinerary!Form

LEMMA ItineraryRow ==
    ASSUME ItineraryShape, itineraryRow # None
    PROVE  /\ itineraryRow \in AuxItinerary!Row /\ itineraryRow.revision \in Nat \ {0}
           /\ itineraryRow.images \subseteq Saves
           /\ itineraryRow.operation \in Operations /\ itineraryRow.deleted \in BOOLEAN
  BY ItineraryAssumed DEF ItineraryShape, AuxItinerary!Row

LEMMA ItineraryRevision == ASSUME ItineraryShape
    PROVE AuxItinerary!Revision \in Nat /\ AuxItinerary!Stored \subseteq Saves
  BY ItineraryRow DEF AuxItinerary!Revision, AuxItinerary!Stored

\* What is read of the row and of the forms stays when they do.
LEMMA ItinerarySame ==
    ASSUME UNCHANGED <<itineraryRow, itineraryForm>>
    PROVE  /\ AuxItinerary!Listed' = AuxItinerary!Listed
           /\ AuxItinerary!Stored' = AuxItinerary!Stored
           /\ AuxItinerary!Revision' = AuxItinerary!Revision
           /\ \A o : OfRevision(o)' <=> OfRevision(o)
           /\ \A h : itinerarySave'[h].op = itinerarySave[h].op =>
                AuxItinerary!Images(h)' = AuxItinerary!Images(h)
  BY DEF AuxItinerary!Listed, AuxItinerary!Stored, AuxItinerary!Revision, OfRevision,
     AuxItinerary!Images, AuxItinerary!FormOf, AuxItinerary!OpOf

\* A step of one execution that leaves the row: what it must have seen to.
LEMMA ItineraryMoves ==
    ASSUME ItineraryInv, NEW h \in Saves, NEW s \in SaveLocals,
           itinerarySave' = [itinerarySave EXCEPT ![h] = s],
           UNCHANGED <<itineraryRow, itineraryForm, itineraryApplied, itineraryDelete,
               itineraryUnheard>>,
           itineraryFaulty' \in BOOLEAN, itineraryFaulty => itineraryFaulty',
           itineraryTold' \subseteq Operations, \A o \in itineraryTold' : itineraryApplied[o] = 1,
           itineraryImages' \subseteq itineraryImages \cup {h},
           s.pc \in {"idle", "read", "store", "write", "undo"} => BeforeWrite(h),
           s.pc \in SaveSteps =>
               s.old \subseteq AuxItinerary!Stored \/
                   (itinerarySave[h].pc \in SaveSteps /\ s.old = itinerarySave[h].old),
           SaveKnown(h)',
           ~itineraryUnheard =>
               \A x \in itineraryImages \ itineraryImages' : x \notin AuxItinerary!Stored /\
                   (x # h => ~BeforeWrite(x)),
           ~itineraryUnheard /\ s.pc = "write" /\ itineraryForm[s.op].file =>
               h \in itineraryImages',
           s.pc # "detach",
           ~itineraryUnheard /\ ~itineraryFaulty' => \A x \in itineraryImages' : ImageClaimed(x)'
    PROVE  ItineraryInv'
  <1>1. ItineraryShape
    BY DEF ItineraryInv
  <1>2. itinerarySave' \in [Saves -> SaveLocals] /\ itinerarySave'[h] = s /\
          \A g \in Saves : g # h => itinerarySave'[g] = itinerarySave[g]
    BY <1>1 DEF ItineraryShape
  <1>3. ItineraryShape'
    BY <1>1, <1>2 DEF ItineraryShape
  <1>4. /\ AuxItinerary!Listed' = AuxItinerary!Listed
        /\ AuxItinerary!Stored' = AuxItinerary!Stored
        /\ AuxItinerary!Revision' = AuxItinerary!Revision
        /\ \A o : OfRevision(o)' <=> OfRevision(o)
        /\ \A g \in Saves : g # h =>
             AuxItinerary!Images(g)' = AuxItinerary!Images(g) /\
                 AuxItinerary!FormOf(g)' = AuxItinerary!FormOf(g)
    BY <1>2, ItinerarySame DEF AuxItinerary!FormOf, AuxItinerary!OpOf
  <1>5. \A g \in Saves : SaveKnown(g)'
    <2>1. ASSUME NEW g \in Saves, g # h PROVE SaveKnown(g)'
      <3>1. SaveKnown(g)
        BY DEF ItineraryInv
      <3> QED
        BY <1>2, <1>4, <2>1, <3>1 DEF SaveKnown
    <2> QED
      BY <2>1
  <1>6. ASSUME NEW o \in Operations PROVE AppliedOnce(o)'
    <2>1. AppliedOnce(o)
      BY DEF ItineraryInv
    <2> QED
      BY <1>4, <2>1 DEF AppliedOnce
  <1>7. ItineraryKnown'
    BY DEF ItineraryInv, ItineraryKnown
  <1>8. ASSUME ~itineraryUnheard'
          PROVE AuxItinerary!Stored' \subseteq itineraryImages' /\ \A g \in Saves : ImageHeard(g)'
    <2>1. AuxItinerary!Stored \subseteq itineraryImages /\ \A g \in Saves : ImageHeard(g)
      BY <1>8 DEF ItineraryInv
    <2>2. AuxItinerary!Stored' \subseteq itineraryImages'
      BY <1>4, <1>8, <2>1
    <2>3. ASSUME NEW g \in Saves, BeforeWrite(g)' PROVE ImageUnknown(g)'
      <3>1. BeforeWrite(g)
        BY <1>2, <2>3 DEF BeforeWrite
      <3>2. ImageUnknown(g)
        BY <2>1, <3>1 DEF ImageHeard
      <3>3. ASSUME NEW k \in Saves, itinerarySave'[k].pc \in SaveSteps
              PROVE g \notin itinerarySave'[k].old
        <4>1. CASE k = h
          BY <1>2, <3>2, <3>3, <4>1 DEF ImageUnknown
        <4>2. CASE k # h
          BY <1>2, <3>2, <3>3, <4>2 DEF ImageUnknown
        <4> QED
          BY <4>1, <4>2
      <3> QED
        BY <1>4, <3>2, <3>3 DEF ImageUnknown
    <2>4. ASSUME NEW g \in Saves PROVE ImageHeard(g)'
      <3>1. CASE g = h
        BY <1>2, <1>8, <2>3, <3>1 DEF ImageHeard, AuxItinerary!FormOf, AuxItinerary!OpOf
      <3>2. CASE g # h
        <4>1. ImageHeard(g) /\ itinerarySave'[g] = itinerarySave[g] /\
                AuxItinerary!Images(g)' = AuxItinerary!Images(g) /\
                    AuxItinerary!FormOf(g)' = AuxItinerary!FormOf(g)
          BY <1>2, <1>4, <2>1, <3>2
        <4>2. itinerarySave[g].pc = "write" => BeforeWrite(g)
          BY DEF BeforeWrite
        <4>3. itinerarySave[g].pc = "write" /\ AuxItinerary!FormOf(g).file => g \in itineraryImages'
          BY <1>8, <3>2, <4>1, <4>2 DEF ImageHeard
        <4> QED
          BY <1>4, <2>3, <4>1, <4>3 DEF ImageHeard
      <3> QED
        BY <3>1, <3>2
    <2> QED
      BY <2>2, <2>4
  <1> QED
    BY <1>3, <1>5, <1>6, <1>7, <1>8 DEF ItineraryInv

\* Claims that do not change.
LEMMA ItineraryClaims ==
    ASSUME ItineraryInv, NEW h \in Saves, NEW s \in SaveLocals,
           itinerarySave' = [itinerarySave EXCEPT ![h] = s],
           UNCHANGED <<itineraryRow, itineraryForm, itineraryDelete>>, NEW x \in Saves,
           ImageClaimed(x),
           x = h /\ itinerarySave[h].pc \in {"write", "undo"} => s.pc \in {"write", "undo"},
           itinerarySave[h].pc = "detach" => x \notin itinerarySave[h].old \ AuxItinerary!Images(h)
    PROVE  ImageClaimed(x)'
  <1>1. itinerarySave'[h] = s /\ \A g \in Saves : g # h => itinerarySave'[g] = itinerarySave[g]
    BY DEF ItineraryInv, ItineraryShape
  <1>2. AuxItinerary!Stored' = AuxItinerary!Stored /\ \A g \in Saves : g # h =>
          AuxItinerary!Images(g)' = AuxItinerary!Images(g)
    BY <1>1, ItinerarySame
  <1>3. CASE x \in AuxItinerary!Stored
    BY <1>2, <1>3 DEF ImageClaimed
  <1>4. CASE itinerarySave[x].pc \in {"write", "undo"}
    BY <1>1, <1>4 DEF ImageClaimed
  <1>5. ASSUME NEW g \in Saves, itinerarySave[g].pc = "detach" /\
          x \in itinerarySave[g].old \ AuxItinerary!Images(g)
        PROVE  ImageClaimed(x)'
    <2>1. g # h
      BY <1>5
    <2>2. itinerarySave'[g].pc = "detach" /\ x \in itinerarySave'[g].old \ AuxItinerary!Images(g)'
      BY <1>1, <1>2, <1>5, <2>1
    <2> QED
      BY <2>2 DEF ImageClaimed
  <1>6. CASE \E d \in Deletes : itineraryDelete[d].pc = "remove" /\ x \in itineraryDelete[d].old
    BY <1>6 DEF ImageClaimed
  <1> QED
    BY <1>3, <1>4, <1>5, <1>6 DEF ImageClaimed

\* The locals of an execution at another step.
LEMMA ItineraryLabel ==
    ASSUME NEW u \in SaveUnderWay, NEW pc \in SaveSteps
    PROVE  LET s == [u EXCEPT !.pc = pc]
           IN  s \in SaveLocals /\ s \in SaveUnderWay /\ s.pc = pc /\ s.op = u.op /\ s.old = u.old
  BY DEF SaveUnderWay, SaveLocals

LEMMA ItineraryDone == SaveDone \in SaveLocals /\ SaveDone.pc = "done" /\ "done" \notin SaveSteps
  BY DEF SaveDone, SaveLocals, SaveSteps

LEMMA ItineraryAt ==
    ASSUME ItineraryInv, NEW h \in Saves, itinerarySave[h].pc \in SaveSteps
    PROVE  /\ ItineraryShape /\ SaveKnown(h) /\ itinerarySave[h] \in SaveUnderWay
           /\ AuxItinerary!OpOf(h) \in Operations /\ itinerarySave[h].old \subseteq Saves
           /\ AuxItinerary!OpOf(h) = itinerarySave[h].op
           /\ AuxItinerary!FormOf(h) = itineraryForm[itinerarySave[h].op]
           /\ AuxItinerary!FormOf(h) # None
           /\ AuxItinerary!FormOf(h) \in AuxItinerary!Form
           /\ AuxItinerary!FormOf(h).revision \in Nat /\ AuxItinerary!FormOf(h).file \in BOOLEAN
  <1>1. ItineraryShape /\ SaveKnown(h)
    BY DEF ItineraryInv
  <1>2. /\ itinerarySave[h] \in SaveUnderWay /\ itinerarySave[h].op \in Operations
        /\ itinerarySave[h].old \subseteq Saves
        /\ itineraryForm[itinerarySave[h].op] # None
    BY <1>1, ItinerarySave DEF SaveKnown
  <1> QED
    BY <1>1, <1>2, ItineraryForm DEF AuxItinerary!OpOf, AuxItinerary!FormOf

\* An execution that ends keeps what the others know, unless it had an image
\* to list or to take back.
LEMMA ItineraryEnds ==
    ASSUME ItineraryInv, NEW h \in Saves, AuxItinerary!End(h),
           UNCHANGED <<itineraryRow, itineraryForm, itineraryApplied, itineraryDelete,
               itineraryUnheard>>,
           itineraryFaulty' \in BOOLEAN, itineraryFaulty => itineraryFaulty',
           itineraryTold' \subseteq Operations, \A o \in itineraryTold' : itineraryApplied[o] = 1,
           itineraryImages' = itineraryImages \/
               (BeforeWrite(h) /\ itineraryImages' = itineraryImages \ {h}),
           \/ itineraryFaulty' \/ itinerarySave[h].pc \in {"read", "audit"}
           \/ itinerarySave[h].pc = "undo" /\ h \notin itineraryImages'
    PROVE  ItineraryInv'
  <1>1. itinerarySave' = [itinerarySave EXCEPT ![h] = SaveDone]
    BY DEF AuxItinerary!End, SaveDone
  <1>2. ItineraryShape /\ itinerarySave'[h] = SaveDone
    BY <1>1 DEF ItineraryInv, ItineraryShape
  <1>3. SaveKnown(h)'
    BY <1>2, ItineraryDone DEF SaveKnown
  <1>4. ~itineraryUnheard /\ BeforeWrite(h) => h \notin AuxItinerary!Stored
    BY DEF ItineraryInv, ImageHeard, ImageUnknown
  <1>5. ~itineraryUnheard =>
          \A x \in itineraryImages \ itineraryImages' : x \notin AuxItinerary!Stored /\
              (x # h => ~BeforeWrite(x))
    BY <1>4
  <1>6. itineraryImages \subseteq Saves
    BY <1>2 DEF ItineraryShape
  <1>7. ASSUME ~itineraryUnheard, ~itineraryFaulty', NEW x \in itineraryImages'
          PROVE ImageClaimed(x)'
    <2>1. ImageClaimed(x) /\ x \in Saves
      BY <1>6, <1>7 DEF ItineraryInv
    <2>2. x = h => itinerarySave[h].pc \notin {"write", "undo"}
      BY <1>7
    <2>3. itinerarySave[h].pc # "detach"
      BY <1>7
    <2> QED
      BY <1>1, <2>1, <2>2, <2>3, ItineraryDone, ItineraryClaims
  <1> QED
    BY <1>1, <1>3, <1>5, <1>7, ItineraryDone, ItineraryMoves

LEMMA ItineraryReadOld == ASSUME ItineraryInv, NEW h \in Saves, AuxItinerary!ReadOld(h)
    PROVE ItineraryInv'
  <1>1. /\ itinerarySave[h].pc = "read" /\ "read" \in SaveSteps
        /\ UNCHANGED <<itineraryRow, itineraryForm, itineraryDelete, itineraryImages,
             itineraryApplied, itineraryUnheard, itineraryFaulty>>
        /\ itineraryFaulty \in BOOLEAN /\ itineraryTold \subseteq Operations /\
             \A o \in itineraryTold : itineraryApplied[o] = 1
    BY DEF AuxItinerary!ReadOld, AuxItinerary!At, ItineraryInv, ItineraryShape, AppliedOnce,
       SaveSteps
  <1>2. /\ ItineraryShape /\ SaveKnown(h) /\ itinerarySave[h] \in SaveUnderWay
        /\ AuxItinerary!OpOf(h) \in Operations
        /\ AuxItinerary!OpOf(h) = itinerarySave[h].op
        /\ AuxItinerary!FormOf(h) = itineraryForm[itinerarySave[h].op]
        /\ AuxItinerary!FormOf(h) # None
        /\ AuxItinerary!FormOf(h).file \in BOOLEAN
    BY <1>1, ItineraryAt
  <1>3. CASE AuxItinerary!Listed /\ AuxItinerary!Replays(h) /\
          AuxItinerary!FormOf(h).retained \subseteq AuxItinerary!Stored /\
              AuxItinerary!Images(h) # {}
    <2>1. AuxItinerary!End(h) /\ itineraryTold' = itineraryTold \cup {AuxItinerary!OpOf(h)}
      BY <1>3 DEF AuxItinerary!ReadOld
    <2>2. itineraryApplied[AuxItinerary!OpOf(h)] = 1
      BY <1>3 DEF ItineraryInv, ItineraryKnown, AuxItinerary!Replays
    <2> QED
      BY <1>1, <1>2, <2>1, <2>2, ItineraryEnds
  <1>4. CASE AuxItinerary!End(h) /\ itineraryTold' = itineraryTold
    BY <1>1, <1>4, ItineraryEnds
  <1>5. CASE /\ AuxItinerary!Accepted(h) /\ AuxItinerary!Revision < MaxRevision
             /\ itineraryTold' = itineraryTold
             /\ itinerarySave' = [itinerarySave EXCEPT ![h].pc = IF AuxItinerary!FormOf(h).file
                  THEN "store" ELSE "write",
                                     ![h].old = AuxItinerary!Stored]
    <2> DEFINE pc == IF AuxItinerary!FormOf(h).file THEN "store" ELSE "write"
               s == [itinerarySave[h] EXCEPT !.pc = pc, !.old = AuxItinerary!Stored]
    <2>1. itinerarySave' = [itinerarySave EXCEPT ![h] = s]
      BY <1>2, <1>5 DEF ItineraryShape
    <2>2. AuxItinerary!Stored \subseteq Saves /\ pc \in SaveSteps
      BY <1>2, ItineraryRevision DEF SaveSteps
    <2>3. s \in SaveUnderWay /\ s.pc = pc /\ s.op = itinerarySave[h].op /\
            s.old = AuxItinerary!Stored
      BY <1>2, <2>2 DEF SaveUnderWay
    <2> HIDE DEF s
    <2>4. s \in SaveLocals
      BY <2>3 DEF SaveLocals
    <2>5. itinerarySave'[h] = s /\ AuxItinerary!Stored' = AuxItinerary!Stored
      BY <1>1, <1>2, <2>1, ItinerarySame DEF ItineraryShape
    <2>6. h \notin itineraryImages /\ itineraryForm[s.op].revision < MaxRevision
      BY <1>1, <1>2, <1>5, <2>3 DEF SaveKnown, AuxItinerary!Accepted
    <2>7. SaveKnown(h)'
      BY <1>1, <1>2, <2>3, <2>5, <2>6 DEF SaveKnown
    <2>8. ASSUME ~itineraryUnheard, ~itineraryFaulty', NEW x \in itineraryImages'
            PROVE ImageClaimed(x)'
      <3>1. ImageClaimed(x) /\ x \in Saves
        BY <1>1, <1>2, <2>8 DEF ItineraryInv, ItineraryShape
      <3> QED
        BY <1>1, <2>1, <2>4, <3>1, ItineraryClaims
    <2>9. BeforeWrite(h) /\ s.pc # "detach" /\ ~(s.pc = "write" /\ itineraryForm[s.op].file)
      BY <1>1, <1>2, <2>3 DEF BeforeWrite
    <2>10. itineraryFaulty' \in BOOLEAN /\ (itineraryFaulty => itineraryFaulty')
      BY <1>1
    <2>11. itineraryImages' \subseteq itineraryImages \cup {h} /\
             itineraryImages \ itineraryImages' = {} /\ itineraryTold' = itineraryTold
      BY <1>1, <1>5
    <2> HIDE DEF pc
    <2> QED
      BY <1>1, <2>1, <2>3, <2>4, <2>7, <2>8, <2>9, <2>10, <2>11, ItineraryMoves
  <1> QED
    BY <1>3, <1>4, <1>5 DEF AuxItinerary!ReadOld

\* An execution that goes on to another label and leaves the row.
LEMMA ItineraryGoes ==
    ASSUME ItineraryInv, NEW h \in Saves, itinerarySave[h].pc \in SaveSteps,
           NEW pc \in {"write", "undo", "audit"}, AuxItinerary!GoTo(h, pc),
           UNCHANGED <<itineraryRow, itineraryForm, itineraryApplied, itineraryDelete,
               itineraryTold, itineraryUnheard>>,
           itineraryFaulty' \in BOOLEAN, itineraryFaulty => itineraryFaulty',
           itineraryImages' \subseteq itineraryImages \cup {h},
           pc # "audit" => BeforeWrite(h) /\ itineraryImages \subseteq itineraryImages',
           pc = "write" => itinerarySave[h].pc = "store" /\ h \in itineraryImages',
           pc = "audit" => /\ itinerarySave[h].pc = "detach"
                           /\ itineraryImages' \subseteq itineraryImages
                           /\ itineraryFaulty' \/
                                itineraryImages' = itineraryImages \ (itinerarySave[h].old \ AuxItinerary!Images(h))
                           /\ itineraryImages \ itineraryImages' \subseteq itinerarySave[h].old \ AuxItinerary!Images(h)
    PROVE  ItineraryInv'
  <1> DEFINE s == [itinerarySave[h] EXCEPT !.pc = pc]
  <1>0. pc \in SaveSteps
    BY DEF SaveSteps
  <1>1. /\ ItineraryShape /\ SaveKnown(h) /\ itinerarySave[h] \in SaveUnderWay
        /\ itinerarySave[h].old \subseteq Saves
        /\ AuxItinerary!OpOf(h) = itinerarySave[h].op
        /\ AuxItinerary!FormOf(h) = itineraryForm[itinerarySave[h].op]
        /\ AuxItinerary!FormOf(h) # None
        /\ itinerarySave[h].op \in Operations
    BY ItineraryAt
  <1>2. itinerarySave' = [itinerarySave EXCEPT ![h] = s]
    BY <1>1 DEF AuxItinerary!GoTo, ItineraryShape
  <1>3. s \in SaveLocals /\ s \in SaveUnderWay /\ s.pc = pc /\ s.op = itinerarySave[h].op /\
          s.old = itinerarySave[h].old
    BY <1>1, <1>0, ItineraryLabel
  <1> HIDE DEF s
  <1>4. itinerarySave'[h] = s /\ AuxItinerary!Stored' = AuxItinerary!Stored /\
          \A o : OfRevision(o)' <=> OfRevision(o)
    BY <1>1, <1>2, ItinerarySame DEF ItineraryShape
  <1>5. SaveKnown(h)'
    <2>1. CASE pc = "write"
      BY <1>1, <1>3, <1>4, <2>1 DEF SaveKnown
    <2>2. CASE pc = "undo"
      BY <1>1, <1>3, <1>4, <2>2 DEF SaveKnown
    <2>3. CASE pc = "audit"
      BY <1>1, <1>3, <1>4, <2>3 DEF SaveKnown
    <2> QED
      BY <2>1, <2>2, <2>3
  <1>6. ASSUME ~itineraryUnheard, NEW x \in itineraryImages \ itineraryImages'
          PROVE x \notin AuxItinerary!Stored /\ ~BeforeWrite(x)
    <2>1. /\ pc = "audit" /\ itinerarySave[h].pc = "detach"
          /\ x \in itinerarySave[h].old \ AuxItinerary!Images(h)
          /\ x \in Saves
      BY <1>1, <1>6 DEF ItineraryShape
    <2>2. ImageHeard(h) /\ ImageHeard(x)
      BY <1>6, <2>1 DEF ItineraryInv
    <2>3. x \notin AuxItinerary!Stored
      BY <2>1, <2>2 DEF ImageHeard
    <2>4. ~ImageUnknown(x)
      BY <2>1 DEF ImageUnknown
    <2> QED
      BY <2>2, <2>3, <2>4 DEF ImageHeard
  <1>7. ASSUME ~itineraryUnheard, ~itineraryFaulty', NEW x \in itineraryImages'
          PROVE ImageClaimed(x)'
    <2>0. BeforeWrite(h) => itinerarySave[h].pc # "detach"
      BY DEF BeforeWrite
    <2>1. CASE x \in itineraryImages
      <3>1. ImageClaimed(x) /\ x \in Saves
        BY <1>1, <1>7, <2>1 DEF ItineraryInv, ItineraryShape
      <3>2. itinerarySave[h].pc = "detach" => x \notin itinerarySave[h].old \ AuxItinerary!Images(h)
        BY <1>7, <2>0
      <3>3. x = h /\ itinerarySave[h].pc \in {"write", "undo"} => s.pc \in {"write", "undo"}
        BY <1>3
      <3> QED
        BY <1>2, <1>3, <3>1, <3>2, <3>3, ItineraryClaims
    <2>2. CASE x = h /\ pc # "audit"
      BY <1>3, <1>4, <2>2 DEF ImageClaimed
    <2> QED
      BY <1>7, <2>1, <2>2
  <1>8. \A o \in itineraryTold' : itineraryApplied[o] = 1
    BY DEF ItineraryInv, ItineraryShape, AppliedOnce
  <1>9. itineraryTold' \subseteq Operations
    BY <1>1 DEF ItineraryShape
  <1> QED
    BY <1>2, <1>3, <1>5, <1>6, <1>7, <1>8, <1>9, ItineraryMoves

LEMMA ItineraryStoreImage == ASSUME ItineraryInv, NEW h \in Saves, AuxItinerary!StoreImage(h)
    PROVE ItineraryInv'
  <1>1. /\ itinerarySave[h].pc = "store" /\ itinerarySave[h].pc \in SaveSteps /\ BeforeWrite(h)
        /\ UNCHANGED <<itineraryRow, itineraryForm, itineraryDelete, itineraryApplied,
             itineraryTold, itineraryUnheard>> /\ itineraryFaulty \in BOOLEAN
    BY DEF AuxItinerary!StoreImage, AuxItinerary!At, SaveSteps, BeforeWrite, ItineraryInv,
       ItineraryShape
  <1>2. CASE itineraryImages' = itineraryImages \cup {h} /\ AuxItinerary!GoTo(h, "write") /\
          UNCHANGED itineraryFaulty
    BY <1>1, <1>2, ItineraryGoes
  <1>3. CASE itineraryImages' \in {itineraryImages, itineraryImages \cup {h}} /\
          AuxItinerary!GoTo(h, "undo") /\ itineraryFaulty' = TRUE
    BY <1>1, <1>3, ItineraryGoes
  <1> QED
    BY <1>2, <1>3 DEF AuxItinerary!StoreImage

LEMMA ItineraryFaulty ==
    ASSUME ItineraryInv, itineraryFaulty' = TRUE \/ UNCHANGED itineraryFaulty
    PROVE  itineraryFaulty' \in BOOLEAN /\ (itineraryFaulty => itineraryFaulty')
  BY DEF ItineraryInv, ItineraryShape

LEMMA ItineraryUndo == ASSUME ItineraryInv, NEW h \in Saves, AuxItinerary!Undo(h)
    PROVE ItineraryInv'
  <1>1. /\ itinerarySave[h].pc = "undo" /\ BeforeWrite(h) /\ AuxItinerary!End(h)
        /\ UNCHANGED <<itineraryRow, itineraryForm, itineraryDelete, itineraryApplied,
             itineraryTold, itineraryUnheard>>
        /\ itineraryTold \subseteq Operations /\ \A o \in itineraryTold : itineraryApplied[o] = 1
    BY DEF AuxItinerary!Undo, AuxItinerary!At, BeforeWrite, ItineraryInv, ItineraryShape,
       AppliedOnce
  <1>2. itineraryFaulty' = TRUE \/ UNCHANGED itineraryFaulty
    BY DEF AuxItinerary!Undo
  <1> QED
    BY <1>1, <1>2, ItineraryFaulty, ItineraryEnds DEF AuxItinerary!Undo

LEMMA ItineraryDetach == ASSUME ItineraryInv, NEW h \in Saves, AuxItinerary!Detach(h)
    PROVE ItineraryInv'
  <1>1. /\ itinerarySave[h].pc = "detach" /\ itinerarySave[h].pc \in SaveSteps
        /\ AuxItinerary!GoTo(h, "audit")
        /\ UNCHANGED <<itineraryRow, itineraryForm, itineraryDelete, itineraryApplied,
             itineraryTold, itineraryUnheard>>
    BY DEF AuxItinerary!Detach, AuxItinerary!At, SaveSteps
  <1>2. /\ itineraryImages' \subseteq itineraryImages
        /\ itineraryImages \ itineraryImages' \subseteq itinerarySave[h].old \ AuxItinerary!Images(h)
        /\ itineraryFaulty' \/
             itineraryImages' = itineraryImages \ (itinerarySave[h].old \ AuxItinerary!Images(h))
    BY DEF AuxItinerary!Detach
  <1>3. itineraryFaulty' = TRUE \/ UNCHANGED itineraryFaulty
    BY DEF AuxItinerary!Detach
  <1> QED
    BY <1>1, <1>2, <1>3, ItineraryFaulty, ItineraryGoes

LEMMA ItineraryAnswer == ASSUME ItineraryInv, NEW h \in Saves, AuxItinerary!Answer(h)
    PROVE ItineraryInv'
  <1>1. /\ itinerarySave[h].pc = "audit" /\ itinerarySave[h].pc \in SaveSteps /\ AuxItinerary!End(h)
        /\ UNCHANGED <<itineraryRow, itineraryForm, itineraryDelete, itineraryImages,
             itineraryApplied, itineraryUnheard, itineraryFaulty>> /\ itineraryFaulty \in BOOLEAN
        /\ itineraryTold \subseteq Operations /\ \A o \in itineraryTold : itineraryApplied[o] = 1
        /\ itineraryTold' = itineraryTold \/
             itineraryTold' = itineraryTold \cup {AuxItinerary!OpOf(h)}
    BY DEF AuxItinerary!Answer, AuxItinerary!At, SaveSteps, ItineraryInv, ItineraryShape,
       AppliedOnce
  <1>2. itineraryApplied[AuxItinerary!OpOf(h)] = 1 /\ AuxItinerary!OpOf(h) \in Operations
    BY <1>1, ItineraryAt DEF SaveKnown
  <1> QED
    BY <1>1, <1>2, ItineraryEnds

LEMMA ItineraryCrash == ASSUME ItineraryInv, NEW h \in Saves, AuxItinerary!Crash(h)
    PROVE ItineraryInv'
  <1>1. /\ AuxItinerary!End(h) /\ itineraryFaulty' = TRUE
        /\ UNCHANGED <<itineraryRow, itineraryForm, itineraryDelete, itineraryImages,
             itineraryApplied, itineraryTold, itineraryUnheard>>
        /\ itineraryTold \subseteq Operations /\ \A o \in itineraryTold : itineraryApplied[o] = 1
    BY DEF AuxItinerary!Crash, ItineraryInv, ItineraryShape, AppliedOnce
  <1> QED
    BY <1>1, ItineraryEnds

\* An execution that begins with an operation that is new.
LEMMA ItineraryAsks ==
    ASSUME ItineraryInv, NEW h \in Saves, NEW o \in Operations,
           itinerarySave[h] = AuxItinerary!Idle, itineraryForm[o] = None,
           itineraryRow = None \/ AuxItinerary!Listed,
           NEW r \in AuxItinerary!Form, itineraryForm' = [itineraryForm EXCEPT ![o] = r],
           r.revision = AuxItinerary!Revision, r.retained \subseteq AuxItinerary!Stored,
           itinerarySave' = [itinerarySave EXCEPT ![h] = [pc |-> "read", op |-> o, old |-> {}]],
           UNCHANGED <<itineraryRow, itineraryDelete, itineraryImages, itineraryApplied,
               itineraryTold, itineraryUnheard, itineraryFaulty>>
    PROVE  ItineraryInv'
  <1> DEFINE s == [pc |-> "read", op |-> o, old |-> {}]
  <1>0. s \in SaveLocals /\ s.pc = "read" /\ s.op = o /\ s.old = {} /\
          itinerarySave' = [itinerarySave EXCEPT ![h] = s]
    BY DEF SaveLocals, SaveUnderWay, SaveSteps
  <1> HIDE DEF s
  <1>1. ItineraryShape /\ ItineraryShape'
    BY <1>0 DEF ItineraryInv, ItineraryShape
  <1>2. /\ itineraryForm'[o] = r /\ r # None /\ \A p \in Operations : p # o =>
             itineraryForm'[p] = itineraryForm[p]
        /\ itinerarySave'[h] = s /\ itinerarySave[h].pc = "idle" /\ \A g \in Saves : g # h =>
             itinerarySave'[g] = itinerarySave[g]
    BY <1>0, <1>1, ItineraryAssumed DEF ItineraryShape, AuxItinerary!Idle
  <1>3. AuxItinerary!Listed' = AuxItinerary!Listed /\
          AuxItinerary!Stored' = AuxItinerary!Stored /\
              AuxItinerary!Revision' = AuxItinerary!Revision
    BY DEF AuxItinerary!Listed, AuxItinerary!Stored, AuxItinerary!Revision
  <1>4. \A p \in Operations : p # o => (OfRevision(p)' <=> OfRevision(p))
    BY <1>2, <1>3 DEF OfRevision
  <1>5. ASSUME NEW g \in Saves, itinerarySave[g].pc \in SaveSteps
        PROVE  /\ itinerarySave[g].op \in Operations /\ itinerarySave[g].op # o
               /\ itinerarySave'[g] = itinerarySave[g]
               /\ AuxItinerary!FormOf(g)' = AuxItinerary!FormOf(g)
               /\ AuxItinerary!Images(g)' = AuxItinerary!Images(g)
    <2>1. itinerarySave[g].op \in Operations /\ itinerarySave[g].op # o
      BY <1>1, <1>5, ItinerarySave DEF ItineraryInv, SaveKnown
    <2>2. g # h
      BY <1>2, <1>5 DEF SaveSteps
    <2> QED
      BY <1>2, <2>1, <2>2 DEF AuxItinerary!FormOf, AuxItinerary!OpOf, AuxItinerary!Images
  <1>6. ASSUME NEW g \in Saves PROVE SaveKnown(g)'
    <2>1. SaveKnown(g)
      BY DEF ItineraryInv
    <2>2. CASE itinerarySave[g].pc \in SaveSteps
      BY <1>3, <1>2, <1>4, <1>5, <2>1, <2>2 DEF SaveKnown
    <2>3. CASE g = h
      BY <1>0, <1>2, <2>1, <2>3 DEF SaveKnown
    <2>4. CASE itinerarySave[g].pc \notin SaveSteps /\ g # h
      BY <1>2, <2>1, <2>4 DEF SaveKnown, SaveSteps
    <2> QED
      BY <2>2, <2>3, <2>4
  <1>7. ASSUME NEW p \in Operations PROVE AppliedOnce(p)'
    <2>1. AppliedOnce(p)
      BY DEF ItineraryInv
    <2>2. CASE p = o
      <3>1. itineraryApplied[o] = 0 \/ itineraryApplied[o] = 1
        BY <1>1, <2>1, <2>2 DEF AppliedOnce, ItineraryShape
      <3>2. itineraryApplied[o] = 0 /\ o \notin itineraryTold
        BY <2>1, <2>2, <3>1 DEF AppliedOnce
      <3>3. AuxItinerary!Revision \in Nat
        BY <1>1, ItineraryRevision
      <3> QED
        BY <1>2, <1>3, <2>2, <3>2, <3>3 DEF AppliedOnce
    <2>3. CASE p # o
      BY <1>2, <1>3, <1>4, <2>1, <2>3 DEF AppliedOnce
    <2> QED
      BY <2>2, <2>3
  <1>8. ItineraryKnown'
    BY DEF ItineraryInv, ItineraryKnown
  <1>9. ASSUME ~itineraryUnheard'
          PROVE AuxItinerary!Stored' \subseteq itineraryImages' /\ \A g \in Saves : ImageHeard(g)'
    <2>1. AuxItinerary!Stored \subseteq itineraryImages /\ \A g \in Saves : ImageHeard(g)
      BY <1>9 DEF ItineraryInv
    <2>2. ASSUME NEW g \in Saves, BeforeWrite(g)' PROVE ImageUnknown(g)'
      <3>1. ImageUnknown(g)
        BY <1>2, <2>1, <2>2 DEF ImageHeard, BeforeWrite
      <3>2. ASSUME NEW k \in Saves, itinerarySave'[k].pc \in SaveSteps
              PROVE g \notin itinerarySave'[k].old
        BY <1>0, <1>2, <3>1, <3>2 DEF ImageUnknown
      <3> QED
        BY <1>2, <1>3, <3>1, <3>2 DEF ImageUnknown
    <2>3. ASSUME NEW g \in Saves PROVE ImageHeard(g)'
      <3>1. CASE itinerarySave[g].pc \in {"write", "detach"}
        BY <1>3, <1>5, <2>1, <2>2, <3>1 DEF ImageHeard, SaveSteps
      <3>2. CASE itinerarySave[g].pc \notin {"write", "detach"}
        BY <1>0, <1>2, <2>2, <3>2 DEF ImageHeard
      <3> QED
        BY <3>1, <3>2
    <2> QED
      BY <1>3, <2>1, <2>3
  <1>10. ASSUME ~itineraryUnheard', ~itineraryFaulty', NEW x \in itineraryImages'
           PROVE ImageClaimed(x)'
    <2>1. ImageClaimed(x) /\ x \in Saves
      BY <1>1, <1>10 DEF ItineraryInv, ItineraryShape
    <2>2. CASE x \in AuxItinerary!Stored
      BY <1>3, <2>2 DEF ImageClaimed
    <2>3. CASE itinerarySave[x].pc \in {"write", "undo"}
      BY <1>5, <2>1, <2>3 DEF ImageClaimed, SaveSteps
    <2>4. ASSUME NEW g \in Saves, itinerarySave[g].pc = "detach" /\
            x \in itinerarySave[g].old \ AuxItinerary!Images(g)
          PROVE  ImageClaimed(x)'
      <3>1. itinerarySave'[g].pc = "detach" /\ x \in itinerarySave'[g].old \ AuxItinerary!Images(g)'
        BY <1>5, <2>4 DEF SaveSteps
      <3> QED
        BY <3>1 DEF ImageClaimed
    <2>5. CASE \E d \in Deletes : itineraryDelete[d].pc = "remove" /\ x \in itineraryDelete[d].old
      BY <2>5 DEF ImageClaimed
    <2> QED
      BY <2>1, <2>2, <2>3, <2>4, <2>5 DEF ImageClaimed
  <1> QED
    BY <1>1, <1>6, <1>7, <1>8, <1>9, <1>10 DEF ItineraryInv

\* An execution that begins, the forms being there.
LEMMA ItineraryStarts ==
    ASSUME ItineraryInv, NEW h \in Saves, NEW o \in Operations,
           itinerarySave[h] = AuxItinerary!Idle, itineraryForm[o] # None,
           itinerarySave' = [itinerarySave EXCEPT ![h] = [pc |-> "read", op |-> o, old |-> {}]],
           UNCHANGED <<itineraryRow, itineraryForm, itineraryDelete, itineraryImages,
               itineraryApplied, itineraryTold, itineraryUnheard, itineraryFaulty>>
    PROVE  ItineraryInv'
  <1> DEFINE s == [pc |-> "read", op |-> o, old |-> {}]
  <1>1. s \in SaveLocals /\ s.pc = "read" /\ s.op = o /\ s.old = {} /\
          itinerarySave' = [itinerarySave EXCEPT ![h] = s]
    BY DEF SaveLocals, SaveUnderWay, SaveSteps
  <1> HIDE DEF s
  <1>2. ItineraryShape /\ itinerarySave'[h] = s /\ itinerarySave[h].pc = "idle"
    BY <1>1 DEF ItineraryInv, ItineraryShape, AuxItinerary!Idle
  <1>3. h \notin itineraryImages
    BY <1>2 DEF ItineraryInv, SaveKnown
  <1>4. SaveKnown(h)'
    BY <1>1, <1>2, <1>3 DEF SaveKnown
  <1>5. ASSUME ~itineraryUnheard, ~itineraryFaulty', NEW x \in itineraryImages'
          PROVE ImageClaimed(x)'
    <2>1. ImageClaimed(x) /\ x \in Saves
      BY <1>2, <1>5 DEF ItineraryInv, ItineraryShape
    <2> QED
      BY <1>1, <1>2, <2>1, ItineraryClaims
  <1>6. itineraryTold \subseteq Operations /\ \A p \in itineraryTold : itineraryApplied[p] = 1
    BY <1>2 DEF ItineraryInv, ItineraryShape, AppliedOnce
  <1>7. itineraryFaulty' \in BOOLEAN /\ BeforeWrite(h)
    BY <1>2 DEF ItineraryShape, BeforeWrite
  <1> QED
    BY <1>1, <1>2, <1>4, <1>5, <1>6, <1>7, ItineraryMoves

LEMMA ItineraryBegin == ASSUME ItineraryInv, NEW h \in Saves, NEW o \in Operations,
                               AuxItinerary!Begin(h, o) PROVE ItineraryInv'
  <1>1. /\ itinerarySave[h] = AuxItinerary!Idle
        /\ itinerarySave' = [itinerarySave EXCEPT ![h] = [pc |-> "read", op |-> o, old |-> {}]]
        /\ UNCHANGED <<itineraryRow, itineraryDelete, itineraryImages, itineraryApplied,
             itineraryTold, itineraryUnheard, itineraryFaulty>>
    BY DEF AuxItinerary!Begin
  <1>2. CASE itineraryForm[o] # None /\ UNCHANGED itineraryForm
    BY <1>1, <1>2, ItineraryStarts
  <1>3. CASE itineraryForm[o] = None
    <2>1. itineraryRow = None \/ AuxItinerary!Listed
      BY <1>3 DEF AuxItinerary!Begin
    <2>2. PICK retained \in SUBSET AuxItinerary!Stored, file \in BOOLEAN :
             itineraryForm' = [itineraryForm EXCEPT ![o] = [revision |-> AuxItinerary!Revision,
                 retained |-> retained, file |-> file]]
      BY <1>3 DEF AuxItinerary!Begin
    <2> DEFINE r == [revision |-> AuxItinerary!Revision, retained |-> retained, file |-> file]
    <2>3. AuxItinerary!Revision \in 0 .. MaxRevision /\ AuxItinerary!Stored \subseteq Saves
      BY ItineraryAssumed DEF ItineraryInv, ItineraryShape, AuxItinerary!Row,
         AuxItinerary!Revision, AuxItinerary!Stored
    <2>4. r \in AuxItinerary!Form /\ r.revision = AuxItinerary!Revision /\
            r.retained \subseteq AuxItinerary!Stored /\
                itineraryForm' = [itineraryForm EXCEPT ![o] = r]
      BY <2>2, <2>3 DEF AuxItinerary!Form
    <2> HIDE DEF r
    <2> QED
      BY <1>1, <1>3, <2>1, <2>4, ItineraryAsks
  <1> QED
    BY <1>2, <1>3 DEF AuxItinerary!Begin

\* The row is written, by the execution that still fits it; its answer may be
\* lost, and the execution undoes its upload.
LEMMA ItineraryCommits ==
    ASSUME ItineraryInv, NEW h \in Saves, itinerarySave[h].pc = "write",
           OfRevision(AuxItinerary!OpOf(h)), AuxItinerary!WriteRow(h),
           NEW pc \in {"detach", "undo"}, AuxItinerary!GoTo(h, pc),
           UNCHANGED <<itineraryForm, itineraryDelete, itineraryImages, itineraryTold,
               itineraryFaulty>>,
           itineraryUnheard' \in BOOLEAN, itineraryUnheard => itineraryUnheard', pc = "undo" =>
               itineraryUnheard'
    PROVE  ItineraryInv'
  <1> DEFINE o == AuxItinerary!OpOf(h)
             s == [itinerarySave[h] EXCEPT !.pc = pc]
             r == [revision |-> AuxItinerary!Revision + 1, images |-> AuxItinerary!Images(h),
                 operation |-> o, deleted |-> FALSE]
  <1>1. /\ ItineraryShape /\ SaveKnown(h) /\ itinerarySave[h] \in SaveUnderWay
        /\ o \in Operations /\ itinerarySave[h].old \subseteq Saves
        /\ o = itinerarySave[h].op /\ AuxItinerary!FormOf(h) = itineraryForm[o]
        /\ itineraryForm[o] # None
        /\ itineraryForm[o] \in AuxItinerary!Form /\ itineraryForm[o].revision \in Nat
        /\ itineraryForm[o].file \in BOOLEAN
        /\ itineraryForm[o].retained \subseteq Saves
    BY ItineraryAt, ItineraryForm DEF SaveSteps
  <1>2. pc \in SaveSteps /\ AuxItinerary!Revision \in Nat
    BY <1>1, ItineraryRevision DEF SaveSteps
  <1>3. s \in SaveLocals /\ s.pc = pc /\ s.op = o /\ s.old = itinerarySave[h].old /\
          itinerarySave' = [itinerarySave EXCEPT ![h] = s]
    BY <1>1, <1>2, ItineraryLabel DEF AuxItinerary!GoTo, ItineraryShape
  <1>4. itineraryRow' = r /\
          itineraryApplied' = [itineraryApplied EXCEPT ![o] = itineraryApplied[o] + 1]
    BY DEF AuxItinerary!WriteRow
  <1>5. OfRevision(o) /\ (o = itinerarySave[h].op) /\
          AuxItinerary!Images(h) = itineraryForm[o].retained \cup (IF itineraryForm[o].file
              THEN {h} ELSE {})
    BY <1>1 DEF AuxItinerary!Images
  <1> HIDE DEF o, s
  <1>6. AuxItinerary!Revision = itineraryForm[o].revision /\
          AuxItinerary!Revision < MaxRevision /\ itinerarySave[h].old = AuxItinerary!Stored
    BY <1>1, <1>5 DEF OfRevision, AuxItinerary!Revision, SaveKnown, AuxItinerary!Listed
  <1>7. r \in AuxItinerary!Row
    BY <1>1, <1>2, <1>5, <1>6, ItineraryAssumed DEF AuxItinerary!Row
  <1>8. /\ itineraryRow' # None /\ itineraryRow' \in AuxItinerary!Row
        /\ itineraryRow'.revision = AuxItinerary!Revision + 1
        /\ itineraryRow'.images = AuxItinerary!Images(h)
        /\ itineraryRow'.operation = o /\ itineraryRow'.deleted = FALSE
    BY <1>4, <1>7, ItineraryAssumed
  <1> HIDE DEF r
  <1>9. AuxItinerary!Revision' = AuxItinerary!Revision + 1 /\
          AuxItinerary!Stored' = AuxItinerary!Images(h)
    BY <1>8 DEF AuxItinerary!Revision, AuxItinerary!Stored
  <1>10. /\ itinerarySave' \in [Saves -> SaveLocals] /\ itinerarySave'[h] = s /\
              \A g \in Saves : g # h => itinerarySave'[g] = itinerarySave[g]
    BY <1>1, <1>3 DEF ItineraryShape
  <1>11. \A g \in Saves : AuxItinerary!Images(g)' = AuxItinerary!Images(g) /\
           AuxItinerary!FormOf(g)' = AuxItinerary!FormOf(g)
    <2>1. \A g \in Saves : itinerarySave'[g].op = itinerarySave[g].op
      BY <1>3, <1>5, <1>10
    <2> QED
      BY <2>1 DEF AuxItinerary!Images, AuxItinerary!FormOf, AuxItinerary!OpOf
  <1>12. itineraryApplied[o] = 0
    <2>1. AppliedOnce(o) /\ itineraryApplied[o] \in Nat
      BY <1>1 DEF ItineraryInv, ItineraryShape
    <2> QED
      BY <1>2, <1>6, <2>1 DEF AppliedOnce
  <1>13. itineraryApplied' \in [Operations -> Nat] /\ itineraryApplied'[o] = 1 /\
           \A p \in Operations : p # o => itineraryApplied'[p] = itineraryApplied[p]
    BY <1>1, <1>4, <1>12 DEF ItineraryShape
  <1>14. ItineraryShape'
    BY <1>1, <1>8, <1>10, <1>13 DEF ItineraryShape
  <1>15. ASSUME NEW p \in Operations, itineraryForm[p] # None
           PROVE itineraryForm[p].revision <= AuxItinerary!Revision /\ ~OfRevision(p)'
    <2>1. AppliedOnce(p) /\ itineraryForm[p].revision \in Nat
      BY <1>1, <1>15, ItineraryForm DEF ItineraryInv
    <2> QED
      BY <1>2, <1>8, <1>15, <2>1 DEF AppliedOnce, OfRevision
  <1>16. ASSUME NEW g \in Saves PROVE SaveKnown(g)'
    <2>1. SaveKnown(g)
      BY DEF ItineraryInv
    <2>2. CASE g = h
      BY <1>1, <1>3, <1>10, <1>13, <2>2 DEF SaveKnown, SaveSteps
    <2>3. CASE g # h
      <3>1. itinerarySave[g].pc \in SaveSteps =>
              itinerarySave[g].op \in Operations /\ itineraryForm[itinerarySave[g].op] # None
        BY <1>1, <2>1, ItinerarySave DEF SaveKnown
      <3>2. itinerarySave[g].pc \in {"detach", "audit"} =>
              itineraryApplied'[itinerarySave[g].op] = 1
        BY <1>13, <2>1, <3>1 DEF SaveKnown, SaveSteps
      <3>3. itinerarySave[g].pc \in {"store", "write"} => ~OfRevision(itinerarySave[g].op)'
        BY <1>10, <1>15, <2>3, <3>1 DEF SaveSteps
      <3> QED
        BY <1>10, <2>1, <2>3, <3>2, <3>3 DEF SaveKnown
    <2> QED
      BY <2>2, <2>3
  <1>17. ASSUME NEW p \in Operations PROVE AppliedOnce(p)'
    <2>1. AppliedOnce(p) /\ itineraryApplied[p] \in Nat
      BY <1>1 DEF ItineraryInv, ItineraryShape
    <2>2. itineraryForm[p] # None => itineraryForm[p].revision \in Nat
      BY <1>1, ItineraryForm
    <2>3. CASE p = o
      BY <1>1, <1>2, <1>6, <1>9, <1>13, <1>15, <2>3 DEF AppliedOnce
    <2>4. CASE p # o
      BY <1>2, <1>9, <1>13, <1>15, <2>1, <2>2, <2>4 DEF AppliedOnce
    <2> QED
      BY <2>3, <2>4
  <1>18. \A d \in Deletes : itineraryDelete[d].pc # "remove"
    BY <1>5 DEF ItineraryInv, ItineraryKnown, OfRevision, AuxItinerary!Listed
  <1>19. ItineraryKnown'
    BY <1>8, <1>13, <1>18 DEF ItineraryKnown
  <1>20. BeforeWrite(h)
    BY DEF BeforeWrite
  <1>21. ASSUME ~itineraryUnheard'
           PROVE AuxItinerary!Stored' \subseteq itineraryImages' /\ \A g \in Saves : ImageHeard(g)'
    <2>1. AuxItinerary!Stored \subseteq itineraryImages /\ (\A g \in Saves : ImageHeard(g)) /\
            pc = "detach"
      BY <1>21 DEF ItineraryInv
    <2>2. itineraryForm[o].retained \subseteq AuxItinerary!Stored
      BY <1>1, <1>5 DEF ItineraryInv, AppliedOnce
    <2>3. itineraryForm[o].file => h \in itineraryImages
      BY <1>1, <2>1 DEF ImageHeard
    <2>4. AuxItinerary!Stored' \subseteq itineraryImages'
      BY <1>5, <1>9, <2>1, <2>2, <2>3
    <2>5. ImageUnknown(h)
      BY <1>20, <2>1 DEF ImageHeard
    <2>6. ASSUME NEW g \in Saves, BeforeWrite(g)' PROVE ImageUnknown(g)'
      <3>1. g # h /\ BeforeWrite(g)
        BY <1>3, <1>10, <2>1, <2>6 DEF BeforeWrite
      <3>2. ImageUnknown(g)
        BY <2>1, <3>1 DEF ImageHeard
      <3>3. g \notin AuxItinerary!Stored'
        BY <1>1, <1>5, <1>9, <3>1, <3>2 DEF ImageUnknown
      <3>4. ASSUME NEW k \in Saves, itinerarySave'[k].pc \in SaveSteps
              PROVE g \notin itinerarySave'[k].old
        BY <1>1, <1>3, <1>10, <3>2, <3>4 DEF ImageUnknown, SaveSteps
      <3> QED
        BY <3>2, <3>3, <3>4 DEF ImageUnknown
    <2>7. ASSUME NEW g \in Saves PROVE ImageHeard(g)'
      <3>1. CASE g = h
        BY <1>3, <1>9, <1>10, <1>11, <2>1, <2>6, <3>1 DEF ImageHeard
      <3>2. CASE g # h
        <4>1. itinerarySave[g].pc = "detach" =>
                AuxItinerary!Stored \cap (itinerarySave[g].old \ AuxItinerary!Images(g)) = {} /\
                    h \notin itinerarySave[g].old
          BY <2>1, <2>5 DEF ImageHeard, ImageUnknown, SaveSteps
        <4>2. itinerarySave[g].pc = "detach" =>
                AuxItinerary!Stored' \cap (itinerarySave[g].old \ AuxItinerary!Images(g)) = {}
          BY <1>5, <1>9, <2>2, <4>1
        <4> QED
          BY <1>10, <1>11, <2>1, <2>6, <3>2, <4>2 DEF ImageHeard
      <3> QED
        BY <3>1, <3>2
    <2> QED
      BY <2>4, <2>7
  <1>22. ASSUME ~itineraryUnheard', ~itineraryFaulty', NEW x \in itineraryImages'
           PROVE ImageClaimed(x)'
    <2>1. ImageClaimed(x) /\ x \in Saves /\ pc = "detach"
      BY <1>1, <1>22 DEF ItineraryInv, ItineraryShape
    <2>2. CASE x \in AuxItinerary!Stored
      <3>1. CASE x \in AuxItinerary!Images(h)
        BY <1>9, <3>1 DEF ImageClaimed
      <3>2. CASE x \notin AuxItinerary!Images(h)
        <4>1. itinerarySave'[h].pc = "detach" /\
                x \in itinerarySave'[h].old \ AuxItinerary!Images(h)'
          BY <1>3, <1>6, <1>10, <1>11, <2>1, <2>2, <3>2
        <4> QED
          BY <4>1 DEF ImageClaimed
      <3> QED
        BY <3>1, <3>2
    <2>3. CASE itinerarySave[x].pc \in {"write", "undo"}
      <3>1. CASE x = h
        <4>1. itineraryForm[o].file
          BY <1>1, <1>22, <3>1 DEF SaveKnown
        <4> QED
          BY <1>5, <1>9, <3>1, <4>1 DEF ImageClaimed
      <3>2. CASE x # h
        BY <1>10, <2>1, <2>3, <3>2 DEF ImageClaimed
      <3> QED
        BY <3>1, <3>2
    <2>4. ASSUME NEW g \in Saves, itinerarySave[g].pc = "detach" /\
            x \in itinerarySave[g].old \ AuxItinerary!Images(g)
          PROVE  ImageClaimed(x)'
      <3>1. itinerarySave'[g].pc = "detach" /\ x \in itinerarySave'[g].old \ AuxItinerary!Images(g)'
        BY <1>10, <1>11, <2>4
      <3> QED
        BY <3>1 DEF ImageClaimed
    <2> QED
      BY <1>18, <2>1, <2>2, <2>3, <2>4 DEF ImageClaimed
  <1> QED
    BY <1>14, <1>16, <1>17, <1>19, <1>21, <1>22 DEF ItineraryInv

LEMMA ItineraryMatches == \A h : AuxItinerary!Matches(h) <=> OfRevision(AuxItinerary!OpOf(h))
  BY DEF AuxItinerary!Matches, OfRevision, AuxItinerary!FormOf

LEMMA ItineraryWrite == ASSUME ItineraryInv, NEW h \in Saves, AuxItinerary!Write(h)
    PROVE ItineraryInv'
  <1>1. /\ itinerarySave[h].pc = "write" /\ itinerarySave[h].pc \in SaveSteps /\ BeforeWrite(h)
        /\ UNCHANGED <<itineraryForm, itineraryDelete, itineraryImages, itineraryTold,
             itineraryUnheard, itineraryFaulty>>
    BY DEF AuxItinerary!Write, AuxItinerary!At, SaveSteps, BeforeWrite
  <1>2. itineraryUnheard \in BOOLEAN /\ itineraryFaulty \in BOOLEAN
    BY DEF ItineraryInv, ItineraryShape
  <1>3. CASE AuxItinerary!Matches(h)
    BY <1>1, <1>2, <1>3, ItineraryMatches, ItineraryCommits DEF AuxItinerary!Write
  <1>4. CASE ~AuxItinerary!Matches(h)
    BY <1>1, <1>2, <1>4, ItineraryGoes DEF AuxItinerary!Write
  <1> QED
    BY <1>3, <1>4

LEMMA ItineraryWriteFails == ASSUME ItineraryInv, NEW h \in Saves, AuxItinerary!WriteFails(h)
    PROVE ItineraryInv'
  <1>1. /\ itinerarySave[h].pc = "write" /\ itinerarySave[h].pc \in SaveSteps /\ BeforeWrite(h)
        /\ AuxItinerary!GoTo(h, "undo")
        /\ UNCHANGED <<itineraryForm, itineraryDelete, itineraryImages, itineraryTold,
             itineraryFaulty>>
    BY DEF AuxItinerary!WriteFails, AuxItinerary!At, SaveSteps, BeforeWrite
  <1>2. itineraryUnheard \in BOOLEAN /\ itineraryFaulty \in BOOLEAN
    BY DEF ItineraryInv, ItineraryShape
  <1>3. CASE AuxItinerary!Matches(h) /\ AuxItinerary!WriteRow(h) /\ itineraryUnheard' = TRUE
    BY <1>1, <1>2, <1>3, ItineraryMatches, ItineraryCommits
  <1>4. CASE UNCHANGED <<itineraryRow, itineraryApplied, itineraryUnheard>>
    BY <1>1, <1>2, <1>4, ItineraryGoes
  <1> QED
    BY <1>3, <1>4 DEF AuxItinerary!WriteFails

\* What the saves know of a row that a deletion reads, empties or leaves.
LEMMA ItineraryDeletion ==
    ASSUME ItineraryInv, NEW d \in Deletes, NEW r \in {AuxItinerary!Idle} \cup Removal,
           itineraryDelete' = [itineraryDelete EXCEPT ![d] = r],
           UNCHANGED <<itineraryForm, itinerarySave, itineraryApplied, itineraryTold,
               itineraryUnheard>>,
           itineraryFaulty' \in BOOLEAN, itineraryImages' \subseteq itineraryImages,
           \/ UNCHANGED itineraryRow
           \/ AuxItinerary!Listed /\
                itineraryRow' = [itineraryRow EXCEPT !.deleted = TRUE, !.images = {}],
           r.pc = "remove" => itineraryRow' # None /\ itineraryRow'.deleted,
           r.pc # "idle" =>
               r.old \subseteq AuxItinerary!Stored \/
                   (itineraryDelete[d].pc # "idle" /\ r.old = itineraryDelete[d].old),
           ~itineraryUnheard =>
               \A x \in itineraryImages \ itineraryImages' : x \notin AuxItinerary!Stored /\
                   ~BeforeWrite(x),
           ~itineraryUnheard /\ ~itineraryFaulty' => \A x \in itineraryImages' : ImageClaimed(x)'
    PROVE  ItineraryInv'
  <1>1. ItineraryShape
    BY DEF ItineraryInv
  <1>2. /\ itineraryDelete' \in [Deletes -> {AuxItinerary!Idle} \cup Removal]
        /\ itineraryDelete'[d] = r /\ \A e \in Deletes : e # d =>
             itineraryDelete'[e] = itineraryDelete[e]
    BY <1>1 DEF ItineraryShape
  <1>3. /\ itineraryRow' \in AuxItinerary!Row \cup {None}
        /\ AuxItinerary!Revision' = AuxItinerary!Revision
        /\ AuxItinerary!Stored' \subseteq AuxItinerary!Stored
        /\ itineraryRow' # None <=> itineraryRow # None
        /\ itineraryRow' # None => itineraryRow'.operation = itineraryRow.operation
        /\ \A o \in Operations : OfRevision(o)' =>
             OfRevision(o) /\ AuxItinerary!Stored' = AuxItinerary!Stored
        /\ itineraryRow # None /\ itineraryRow.deleted => itineraryRow' = itineraryRow
        /\ itineraryRow' # itineraryRow => itineraryRow'.deleted /\ itineraryRow'.images = {}
    <2>1. CASE UNCHANGED itineraryRow
      BY <1>1, <2>1 DEF ItineraryShape, AuxItinerary!Revision, AuxItinerary!Stored, OfRevision,
         AuxItinerary!Listed
    <2>2. CASE AuxItinerary!Listed /\
            itineraryRow' = [itineraryRow EXCEPT !.deleted = TRUE, !.images = {}]
      <3>1. itineraryRow # None /\ itineraryRow \in AuxItinerary!Row /\ itineraryRow.deleted # TRUE
        BY <1>1, <2>2, ItineraryRow DEF AuxItinerary!Listed
      <3>2. /\ itineraryRow' \in AuxItinerary!Row
            /\ itineraryRow'.revision = itineraryRow.revision
            /\ itineraryRow'.operation = itineraryRow.operation
            /\ itineraryRow'.deleted = TRUE /\ itineraryRow'.images = {}
        BY <2>2, <3>1 DEF AuxItinerary!Row
      <3>3. itineraryRow' # None
        BY <3>2, ItineraryAssumed
      <3>4. AuxItinerary!Revision' = AuxItinerary!Revision /\ AuxItinerary!Stored' = {}
        BY <3>1, <3>2, <3>3 DEF AuxItinerary!Revision, AuxItinerary!Stored
      <3>5. \A o \in Operations : ~OfRevision(o)'
        BY <3>2, <3>3 DEF OfRevision, AuxItinerary!Listed
      <3> QED
        BY <3>1, <3>2, <3>3, <3>4, <3>5
    <2> QED
      BY <2>1, <2>2
  <1>4. ItineraryShape'
    BY <1>1, <1>2, <1>3 DEF ItineraryShape
  <1>5. \A g \in Saves : AuxItinerary!Images(g)' = AuxItinerary!Images(g) /\
          AuxItinerary!FormOf(g)' = AuxItinerary!FormOf(g)
    BY DEF AuxItinerary!Images, AuxItinerary!FormOf, AuxItinerary!OpOf
  <1>6. ASSUME NEW g \in Saves PROVE SaveKnown(g)'
    <2>1. SaveKnown(g)
      BY DEF ItineraryInv
    <2>2. itinerarySave[g].pc \in SaveSteps => itinerarySave[g].op \in Operations
      BY <1>1, ItinerarySave
    <2>3. itinerarySave[g].pc \in {"store", "write"} /\ OfRevision(itinerarySave[g].op)' =>
            itinerarySave[g].old = AuxItinerary!Stored'
      BY <1>3, <2>1, <2>2 DEF SaveKnown, SaveSteps
    <2> QED
      BY <2>1, <2>3 DEF SaveKnown
  <1>7. ASSUME NEW o \in Operations PROVE AppliedOnce(o)'
    <2>1. AppliedOnce(o)
      BY DEF ItineraryInv
    <2> QED
      BY <1>3, <2>1 DEF AppliedOnce
  <1>8. ItineraryKnown'
    <2>1. ItineraryKnown
      BY DEF ItineraryInv
    <2>2. itineraryRow' # None =>
            itineraryApplied'[itineraryRow'.operation] = 1 /\
                (itineraryRow'.deleted => itineraryRow'.images = {})
      BY <1>3, <2>1 DEF ItineraryKnown
    <2>3. ASSUME NEW e \in Deletes, itineraryDelete'[e].pc = "remove"
            PROVE itineraryRow' # None /\ itineraryRow'.deleted
      BY <1>2, <1>3, <2>1, <2>3 DEF ItineraryKnown
    <2> QED
      BY <2>2, <2>3 DEF ItineraryKnown
  <1>9. ASSUME ~itineraryUnheard'
          PROVE AuxItinerary!Stored' \subseteq itineraryImages' /\ \A g \in Saves : ImageHeard(g)'
    <2>1. AuxItinerary!Stored \subseteq itineraryImages /\ \A g \in Saves : ImageHeard(g)
      BY <1>9 DEF ItineraryInv
    <2>2. AuxItinerary!Stored' \subseteq itineraryImages'
      BY <1>3, <1>9, <2>1
    <2>3. ASSUME NEW g \in Saves, BeforeWrite(g)' PROVE ImageUnknown(g)'
      <3>1. ImageUnknown(g)
        BY <2>1, <2>3 DEF ImageHeard, BeforeWrite
      <3>2. ASSUME NEW e \in Deletes, itineraryDelete'[e].pc # "idle"
              PROVE g \notin itineraryDelete'[e].old
        BY <1>2, <3>1, <3>2 DEF ImageUnknown
      <3> QED
        BY <1>3, <3>1, <3>2 DEF ImageUnknown
    <2>4. ASSUME NEW g \in Saves PROVE ImageHeard(g)'
      <3>1. ImageHeard(g)
        BY <2>1
      <3>2. itinerarySave[g].pc = "write" => BeforeWrite(g)
        BY DEF BeforeWrite
      <3>3. itinerarySave[g].pc = "write" /\ AuxItinerary!FormOf(g).file => g \in itineraryImages'
        BY <1>9, <3>1, <3>2 DEF ImageHeard
      <3> QED
        BY <1>3, <1>5, <2>3, <3>1, <3>3 DEF ImageHeard
    <2> QED
      BY <2>2, <2>4
  <1> QED
    BY <1>4, <1>6, <1>7, <1>8, <1>9 DEF ItineraryInv

\* Claims that a deletion leaves.
LEMMA ItineraryClaimed ==
    ASSUME UNCHANGED <<itineraryForm, itinerarySave>>, NEW x, ImageClaimed(x),
           x \in AuxItinerary!Stored => x \in AuxItinerary!Stored',
           \A d \in Deletes : itineraryDelete[d].pc = "remove" /\ x \in itineraryDelete[d].old =>
              itineraryDelete'[d].pc = "remove" /\ x \in itineraryDelete'[d].old
    PROVE  ImageClaimed(x)'
  <1>1. \A g \in Saves : AuxItinerary!Images(g)' = AuxItinerary!Images(g)
    BY DEF AuxItinerary!Images, AuxItinerary!FormOf, AuxItinerary!OpOf
  <1> QED
    BY <1>1 DEF ImageClaimed

LEMMA ItineraryReadForDelete == ASSUME ItineraryInv, NEW d \in Deletes,
                                       AuxItinerary!ReadForDelete(d) PROVE ItineraryInv'
  <1> DEFINE r == [pc |-> "write", old |-> itineraryRow.images]
  <1>1. /\ itineraryDelete[d] = AuxItinerary!Idle /\ AuxItinerary!Listed
        /\ itineraryDelete' = [itineraryDelete EXCEPT ![d] = r]
        /\ UNCHANGED <<itineraryRow, itineraryForm, itinerarySave, itineraryImages,
             itineraryApplied, itineraryTold, itineraryUnheard, itineraryFaulty>>
    BY DEF AuxItinerary!ReadForDelete
  <1>2. ItineraryShape /\ itineraryRow # None
    BY <1>1 DEF ItineraryInv, AuxItinerary!Listed
  <1>3. r \in Removal /\ r.pc = "write" /\ r.old = AuxItinerary!Stored
    BY <1>2, ItineraryRow DEF Removal, AuxItinerary!Stored
  <1> HIDE DEF r
  <1>4. AuxItinerary!Stored' = AuxItinerary!Stored /\ itineraryFaulty' \in BOOLEAN
    BY <1>1, <1>2 DEF AuxItinerary!Stored, ItineraryShape
  <1>5. itineraryDelete[d].pc = "idle" /\ \A e \in Deletes : e # d =>
          itineraryDelete'[e] = itineraryDelete[e]
    BY <1>1, <1>2 DEF AuxItinerary!Idle, ItineraryShape
  <1>6. ASSUME ~itineraryUnheard, ~itineraryFaulty', NEW x \in itineraryImages'
          PROVE ImageClaimed(x)'
    BY <1>1, <1>4, <1>5, <1>6, ItineraryClaimed DEF ItineraryInv
  <1> QED
    BY <1>1, <1>3, <1>4, <1>6, ItineraryDeletion

LEMMA ItineraryDeleteRow == ASSUME ItineraryInv, NEW d \in Deletes, AuxItinerary!DeleteRow(d)
    PROVE ItineraryInv'
  <1>1. /\ itineraryDelete[d].pc = "write"
        /\ UNCHANGED <<itineraryForm, itinerarySave, itineraryImages, itineraryApplied,
             itineraryTold, itineraryUnheard>>
    BY DEF AuxItinerary!DeleteRow
  <1>2. ItineraryShape /\ itineraryDelete[d] \in Removal /\ itineraryFaulty \in BOOLEAN
    BY <1>1, ItineraryDelete DEF ItineraryInv, ItineraryShape
  <1>3. CASE AuxItinerary!Listed
    <2> DEFINE r == [itineraryDelete[d] EXCEPT !.pc = "remove"]
    <2>1. /\ itineraryRow' = [itineraryRow EXCEPT !.deleted = TRUE, !.images = {}]
          /\ itineraryDelete' = [itineraryDelete EXCEPT ![d] = r]
          /\ itineraryFaulty' = (itineraryFaulty \/ itineraryDelete[d].old # itineraryRow.images)
      BY <1>2, <1>3 DEF AuxItinerary!DeleteRow, ItineraryShape
    <2>2. r \in Removal /\ r.pc = "remove" /\ r.old = itineraryDelete[d].old
      BY <1>2 DEF Removal
    <2> HIDE DEF r
    <2>3. itineraryRow # None /\ itineraryRow \in AuxItinerary!Row
      BY <1>2, <1>3, ItineraryRow DEF AuxItinerary!Listed
    <2>4. itineraryRow' \in AuxItinerary!Row /\ itineraryRow'.deleted
      BY <2>1, <2>3 DEF AuxItinerary!Row
    <2>5. itineraryRow' # None
      BY <2>4, ItineraryAssumed
    <2>6. itineraryFaulty' \in BOOLEAN
      BY <1>2, <2>1
    <2>7. itineraryDelete'[d] = r /\ \A e \in Deletes : e # d =>
            itineraryDelete'[e] = itineraryDelete[e]
      BY <1>2, <2>1 DEF ItineraryShape
    <2>8. ASSUME ~itineraryUnheard, ~itineraryFaulty', NEW x \in itineraryImages'
            PROVE ImageClaimed(x)'
      <3>1. ~itineraryFaulty /\ itineraryDelete[d].old = AuxItinerary!Stored
        BY <2>1, <2>3, <2>8 DEF AuxItinerary!Stored
      <3>2. ImageClaimed(x)
        BY <1>1, <2>8, <3>1 DEF ItineraryInv
      <3>3. CASE x \in AuxItinerary!Stored
        BY <2>2, <2>7, <3>1, <3>3 DEF ImageClaimed
      <3>4. CASE x \notin AuxItinerary!Stored
        <4>1. \A e \in Deletes : itineraryDelete[e].pc = "remove" /\ x \in itineraryDelete[e].old =>
                 itineraryDelete'[e].pc = "remove" /\ x \in itineraryDelete'[e].old
          BY <1>1, <2>7
        <4> QED
          BY <1>1, <3>2, <3>4, <4>1, ItineraryClaimed
      <3> QED
        BY <3>3, <3>4
    <2> QED
      BY <1>1, <1>3, <2>1, <2>2, <2>4, <2>5, <2>6, <2>8, ItineraryDeletion
  <1>4. CASE ~AuxItinerary!Listed
    <2>1. itineraryDelete' = [itineraryDelete EXCEPT ![d] = AuxItinerary!Idle] /\
            UNCHANGED <<itineraryRow, itineraryFaulty>> /\ AuxItinerary!Idle.pc = "idle"
      BY <1>4 DEF AuxItinerary!DeleteRow, AuxItinerary!Idle
    <2>2. \A e \in Deletes : e # d => itineraryDelete'[e] = itineraryDelete[e]
      BY <1>2, <2>1 DEF ItineraryShape
    <2>3. AuxItinerary!Stored' = AuxItinerary!Stored
      BY <2>1 DEF AuxItinerary!Stored
    <2>4. ASSUME ~itineraryUnheard, ~itineraryFaulty', NEW x \in itineraryImages'
            PROVE ImageClaimed(x)'
      BY <1>1, <2>1, <2>2, <2>3, <2>4, ItineraryClaimed DEF ItineraryInv
    <2> QED
      BY <1>1, <1>2, <2>1, <2>4, ItineraryDeletion
  <1> QED
    BY <1>3, <1>4

LEMMA ItineraryRemoveImages == ASSUME ItineraryInv, NEW d \in Deletes,
                                      AuxItinerary!RemoveImages(d) PROVE ItineraryInv'
  <1>1. /\ itineraryDelete[d].pc = "remove"
        /\ itineraryDelete' = [itineraryDelete EXCEPT ![d] = AuxItinerary!Idle]
        /\ UNCHANGED <<itineraryRow, itineraryForm, itinerarySave, itineraryApplied,
             itineraryTold, itineraryUnheard>>
        /\ itineraryImages' \subseteq itineraryImages
        /\ itineraryImages \ itineraryImages' \subseteq itineraryDelete[d].old
        /\ (itineraryFaulty' = TRUE \/ UNCHANGED itineraryFaulty)
        /\ itineraryFaulty' \/ itineraryImages' = itineraryImages \ itineraryDelete[d].old
        /\ AuxItinerary!Idle.pc = "idle"
    BY DEF AuxItinerary!RemoveImages, AuxItinerary!Idle
  <1>2. /\ ItineraryShape /\ \A e \in Deletes : e # d => itineraryDelete'[e] = itineraryDelete[e]
        /\ AuxItinerary!Stored = {} /\ AuxItinerary!Stored' = {}
    BY <1>1 DEF ItineraryInv, ItineraryShape, ItineraryKnown, AuxItinerary!Stored
  <1>3. itineraryFaulty' \in BOOLEAN /\ (itineraryFaulty => itineraryFaulty')
    BY <1>1, ItineraryFaulty
  <1>4. ASSUME ~itineraryUnheard, NEW x \in itineraryImages \ itineraryImages'
          PROVE x \notin AuxItinerary!Stored /\ ~BeforeWrite(x)
    <2>1. ImageHeard(x) /\ ~ImageUnknown(x)
      BY <1>1, <1>2, <1>4 DEF ItineraryInv, ImageUnknown, ItineraryShape
    <2> QED
      BY <1>2, <2>1 DEF ImageHeard
  <1>5. ASSUME ~itineraryUnheard, ~itineraryFaulty', NEW x \in itineraryImages'
          PROVE ImageClaimed(x)'
    <2>1. ImageClaimed(x) /\ x \notin itineraryDelete[d].old
      BY <1>1, <1>3, <1>5 DEF ItineraryInv
    <2> QED
      BY <1>1, <1>2, <2>1, ItineraryClaimed
  <1> QED
    BY <1>1, <1>3, <1>4, <1>5, ItineraryDeletion

LEMMA ItineraryStill == ASSUME ItineraryInv, UNCHANGED AuxItinerary!vars PROVE ItineraryInv'
  <1>1. UNCHANGED <<itineraryRow, itineraryForm, itinerarySave, itineraryDelete, itineraryImages,
          itineraryApplied, itineraryTold, itineraryUnheard, itineraryFaulty>>
    BY DEF AuxItinerary!vars
  <1>2. /\ AuxItinerary!Listed' = AuxItinerary!Listed
        /\ AuxItinerary!Stored' = AuxItinerary!Stored
        /\ AuxItinerary!Revision' = AuxItinerary!Revision
        /\ \A o : OfRevision(o)' <=> OfRevision(o)
        /\ \A h : AuxItinerary!Images(h)' = AuxItinerary!Images(h) /\
             AuxItinerary!FormOf(h)' = AuxItinerary!FormOf(h)
    BY <1>1, ItinerarySame DEF AuxItinerary!FormOf, AuxItinerary!OpOf
  <1>3. ItineraryShape' /\ ItineraryKnown'
    BY <1>1 DEF ItineraryInv, ItineraryShape, ItineraryKnown
  <1>4. \A h \in Saves : SaveKnown(h)'
    BY <1>1, <1>2 DEF ItineraryInv, SaveKnown
  <1>5. \A o \in Operations : AppliedOnce(o)'
    BY <1>1, <1>2 DEF ItineraryInv, AppliedOnce
  <1>6. \A h \in Saves : ImageHeard(h) => ImageHeard(h)'
    BY <1>1, <1>2 DEF ImageHeard, BeforeWrite, ImageUnknown
  <1>7. \A x : ImageClaimed(x) => ImageClaimed(x)'
    BY <1>1, <1>2 DEF ImageClaimed
  <1> QED
    BY <1>1, <1>2, <1>3, <1>4, <1>5, <1>6, <1>7 DEF ItineraryInv

LEMMA ItineraryStep == ItineraryInv /\ [AuxItinerary!Next]_(AuxItinerary!vars) => ItineraryInv'
  <1> SUFFICES ASSUME ItineraryInv, [AuxItinerary!Next]_(AuxItinerary!vars) PROVE ItineraryInv'
    OBVIOUS
  <1>1. CASE UNCHANGED AuxItinerary!vars
    BY <1>1, ItineraryStill
  <1>2. ASSUME NEW h \in Saves,
               \/ \E o \in Operations : AuxItinerary!Begin(h, o)
               \/ AuxItinerary!ReadOld(h) \/ AuxItinerary!StoreImage(h) \/
                    AuxItinerary!Write(h) \/ AuxItinerary!WriteFails(h)
               \/ AuxItinerary!Undo(h) \/ AuxItinerary!Detach(h) \/ AuxItinerary!Answer(h) \/
                    AuxItinerary!Crash(h)
        PROVE  ItineraryInv'
    BY <1>2, ItineraryBegin, ItineraryReadOld, ItineraryStoreImage, ItineraryWrite,
       ItineraryWriteFails,
       ItineraryUndo, ItineraryDetach, ItineraryAnswer, ItineraryCrash
  <1>3. ASSUME NEW d \in Deletes, AuxItinerary!ReadForDelete(d) \/ AuxItinerary!DeleteRow(d) \/
          AuxItinerary!RemoveImages(d) PROVE ItineraryInv'
    BY <1>3, ItineraryReadForDelete, ItineraryDeleteRow, ItineraryRemoveImages
  <1> QED
    BY <1>1, <1>2, <1>3 DEF AuxItinerary!Next

LEMMA ItineraryHolds == ItineraryInv => AuxItinerary!TypeOK /\ AuxItinerary!ItineraryIsWhole
  <1> SUFFICES ASSUME ItineraryInv PROVE AuxItinerary!TypeOK /\ AuxItinerary!ItineraryIsWhole
    OBVIOUS
  <1>1. ItineraryShape
    BY DEF ItineraryInv
  <1>2. ASSUME NEW h \in Saves
        PROVE  itinerarySave[h] = AuxItinerary!Idle \/ itinerarySave[h] = [pc |-> "done"] \/
                 /\ DOMAIN itinerarySave[h] = {"pc", "op", "old"}
                 /\ itinerarySave[h].pc \in {"read", "store", "write", "undo", "detach", "audit"}
                 /\ itinerarySave[h].op \in Operations /\ itinerarySave[h].old \subseteq Saves
    BY <1>1 DEF ItineraryShape, SaveLocals, SaveUnderWay, SaveSteps, SaveDone
  <1>3. {itineraryUnheard, itineraryFaulty} \subseteq BOOLEAN
    BY <1>1 DEF ItineraryShape
  <1>4. AuxItinerary!TypeOK
    BY <1>1, <1>2, <1>3 DEF ItineraryShape, AuxItinerary!TypeOK, Removal
  <1>5. ASSUME AuxItinerary!Quiet, ~itineraryUnheard, ~itineraryFaulty
          PROVE itineraryImages = AuxItinerary!Stored
    <2>1. ASSUME NEW x \in itineraryImages PROVE x \in AuxItinerary!Stored
      <3>1. ImageClaimed(x) /\ x \in Saves
        BY <1>1, <1>5 DEF ItineraryInv, ItineraryShape
      <3>2. \A h \in Saves : itinerarySave[h].pc \in {"idle", "done"}
        BY <1>5 DEF AuxItinerary!Quiet, AuxItinerary!Busy, AuxItinerary!Idle
      <3>3. \A d \in Deletes : itineraryDelete[d].pc = "idle"
        BY <1>5 DEF AuxItinerary!Quiet, AuxItinerary!Idle
      <3> QED
        BY <3>1, <3>2, <3>3 DEF ImageClaimed
    <2> QED
      BY <1>5, <2>1 DEF ItineraryInv
  <1> QED
    BY <1>4, <1>5 DEF ItineraryInv, AppliedOnce, AuxItinerary!ItineraryIsWhole
-----------------------------------------------------------------------------
(* The password helper of the auxiliary team.                             *)

HelperShape ==
    /\ passwordsEntry \in [AuxPasswords!Ids -> AuxPasswords!Entry \cup {None}]
    /\ passwordsForm \in [Forms -> [id : AuxPasswords!Ids, shown : AuxPasswords!Entry] \cup {None}]
    /\ passwordsImport \in [Imports -> [file : SUBSET Identities,
         seen : SUBSET Identities] \cup {None}]
    /\ passwordsWrites \in 0 .. MaxWrites
    /\ passwordsChanged \in [AuxPasswords!Ids -> Nat]
    /\ passwordsAudit \in [AuxPasswords!Ids -> Nat]
    /\ passwordsMislaid \subseteq passwordsReborn /\ passwordsReborn \subseteq AuxPasswords!Ids

\* What is counted of an entry, and what an import leaves under an identity.
EntryCounted(i) ==
    /\ passwordsChanged[i] <= passwordsWrites /\ passwordsAudit[i] <= passwordsWrites
    /\ passwordsEntry[i] # None =>
         passwordsChanged[i] > 0 /\ passwordsEntry[i].revision <= passwordsWrites
    /\ i \in Identities /\ passwordsEntry[i] # None /\ passwordsEntry[i].revision = 1 =>
         passwordsEntry[i].identity = i

\* A form shows the entry as it is, or as it was under an earlier revision.
FormShows(f) ==
    passwordsForm[f] # None =>
       LET i == passwordsForm[f].id IN
         /\ passwordsChanged[i] > 0
         /\ passwordsEntry[i] # None /\ i \notin passwordsReborn =>
               /\ passwordsForm[f].shown.revision <= passwordsEntry[i].revision
               /\ passwordsForm[f].shown.revision = passwordsEntry[i].revision =>
                    passwordsForm[f].shown = passwordsEntry[i]

HelperInv == HelperShape /\ (\A i \in AuxPasswords!Ids : EntryCounted(i)) /\
    (\A f \in Forms : FormShows(f))

LEMMA HelperInit == AuxPasswords!Init => HelperInv
  BY ComponentsAssumption DEF AuxPasswords!Init, HelperInv, HelperShape, EntryCounted, FormShows,
     AuxPasswords!AuxPasswordsAssumption

\* A batch adds one to what it counts.
LEMMA HelperPlus ==
    ASSUME NEW count \in [AuxPasswords!Ids -> Nat], NEW ids
    PROVE  /\ AuxPasswords!Plus(count, ids) \in [AuxPasswords!Ids -> Nat]
           /\ \A i \in AuxPasswords!Ids : AuxPasswords!Plus(count, ids)[i] = IF i \in ids
                THEN count[i] + 1 ELSE count[i]
  BY DEF AuxPasswords!Plus

LEMMA HelperCommit ==
    ASSUME HelperShape, NEW ids, passwordsWrites < MaxWrites, AuxPasswords!Commit(ids)
    PROVE  /\ passwordsWrites' = passwordsWrites + 1 /\ passwordsWrites' \in 0 .. MaxWrites
           /\ passwordsWrites' \in 1 .. MaxWrites
           /\ passwordsChanged' \in [AuxPasswords!Ids -> Nat]
           /\ passwordsAudit' \in [AuxPasswords!Ids -> Nat]
           /\ \A i \in AuxPasswords!Ids : /\ passwordsChanged'[i] = IF i \in ids
                                               THEN passwordsChanged[i] + 1 ELSE passwordsChanged[i]
                             /\ passwordsAudit'[i] = IF i \in ids THEN passwordsAudit[i] + 1
                                  ELSE passwordsAudit[i]
  <1>1. passwordsChanged \in [AuxPasswords!Ids -> Nat] /\
          passwordsAudit \in [AuxPasswords!Ids -> Nat]
    BY DEF HelperShape
  <1>2. passwordsChanged' = AuxPasswords!Plus(passwordsChanged, ids) /\
          passwordsAudit' = AuxPasswords!Plus(passwordsAudit, ids) /\
              passwordsWrites' = passwordsWrites + 1
    BY DEF AuxPasswords!Commit
  <1>3. passwordsWrites' \in 0 .. MaxWrites /\ passwordsWrites' \in 1 .. MaxWrites
    BY <1>2, ComponentsAssumption DEF HelperShape, AuxPasswords!AuxPasswordsAssumption
  <1> QED
    BY <1>1, <1>2, <1>3, HelperPlus

LEMMA HelperCreate == ASSUME HelperInv, NEW i \in Created, AuxPasswords!Create(i) PROVE HelperInv'
  <1>1. PICK x \in Identities :
           passwordsEntry' = [passwordsEntry EXCEPT ![i] = [identity |-> x, revision |-> 1,
               content |-> passwordsWrites + 1]]
    BY DEF AuxPasswords!Create
  <1> DEFINE r == [identity |-> x, revision |-> 1, content |-> passwordsWrites + 1]
  <1>2. /\ HelperShape /\ passwordsChanged[i] = 0 /\ passwordsWrites < MaxWrites
        /\ AuxPasswords!Commit({i})
        /\ UNCHANGED <<passwordsForm, passwordsImport, passwordsMislaid, passwordsReborn>>
        /\ i \in AuxPasswords!Ids /\ i \notin Identities
    BY ComponentsAssumption DEF AuxPasswords!Create, HelperInv, AuxPasswords!Ids,
       AuxPasswords!AuxPasswordsAssumption
  <1>3. passwordsWrites \in Nat /\ MaxWrites \in Nat
    BY <1>2, ComponentsAssumption DEF HelperShape, AuxPasswords!AuxPasswordsAssumption
  <1>4. r \in AuxPasswords!Entry /\ r.revision = 1
    BY <1>2, <1>3 DEF AuxPasswords!Entry
  <1>5. passwordsEntry' = [passwordsEntry EXCEPT ![i] = r]
    BY <1>1
  <1> HIDE DEF r
  <1>6. passwordsEntry' \in [AuxPasswords!Ids -> AuxPasswords!Entry \cup {None}] /\
          passwordsEntry'[i] = r /\ \A j \in AuxPasswords!Ids : j # i =>
              passwordsEntry'[j] = passwordsEntry[j]
    BY <1>2, <1>4, <1>5 DEF HelperShape
  <1>7. HelperShape'
    BY <1>2, <1>6, HelperCommit DEF HelperShape
  <1>8. ASSUME NEW j \in AuxPasswords!Ids PROVE EntryCounted(j)'
    <2>1. EntryCounted(j) /\ passwordsChanged[j] \in Nat /\ passwordsAudit[j] \in Nat
      BY <1>2 DEF HelperInv, HelperShape
    <2>2. /\ passwordsWrites' = passwordsWrites + 1
          /\ passwordsChanged'[j] = IF j = i THEN passwordsChanged[j] + 1 ELSE passwordsChanged[j]
          /\ passwordsAudit'[j] = IF j = i THEN passwordsAudit[j] + 1 ELSE passwordsAudit[j]
      BY <1>2, HelperCommit
    <2>3. passwordsEntry[j] # None => passwordsEntry[j].revision \in Nat
      BY <1>2 DEF HelperShape, AuxPasswords!Entry
    <2>4. CASE j = i
      BY <1>2, <1>3, <1>4, <1>6, <2>1, <2>2, <2>4 DEF EntryCounted
    <2>5. CASE j # i
      BY <1>3, <1>6, <2>1, <2>2, <2>3, <2>5 DEF EntryCounted
    <2> QED
      BY <2>4, <2>5
  <1>9. ASSUME NEW f \in Forms PROVE FormShows(f)'
    <2>1. FormShows(f) /\ (passwordsForm[f] # None => passwordsForm[f].id \in AuxPasswords!Ids)
      BY <1>2 DEF HelperInv, HelperShape
    <2>2. passwordsForm[f] # None =>
            passwordsForm[f].id # i /\
                passwordsChanged'[passwordsForm[f].id] = passwordsChanged[passwordsForm[f].id]
      BY <1>2, <2>1, HelperCommit DEF FormShows
    <2> QED
      BY <1>2, <1>6, <2>1, <2>2 DEF FormShows
  <1> QED
    BY <1>7, <1>8, <1>9 DEF HelperInv

LEMMA HelperOpen == ASSUME HelperInv, NEW f \in Forms, NEW i \in AuxPasswords!Ids,
                           AuxPasswords!Open(f, i) PROVE HelperInv'
  <1> DEFINE s == [id |-> i, shown |-> passwordsEntry[i]]
  <1>1. /\ HelperShape /\ passwordsEntry[i] # None
        /\ passwordsForm' = [passwordsForm EXCEPT ![f] = s]
        /\ UNCHANGED <<passwordsEntry, passwordsImport, passwordsWrites, passwordsChanged,
             passwordsAudit, passwordsMislaid, passwordsReborn>>
    BY DEF AuxPasswords!Open, HelperInv
  <1>2. s \in [id : AuxPasswords!Ids, shown : AuxPasswords!Entry] /\ s.id = i /\
          s.shown = passwordsEntry[i]
    BY <1>1 DEF HelperShape
  <1> HIDE DEF s
  <1>3. passwordsForm'[f] = s /\ \A g \in Forms : g # f => passwordsForm'[g] = passwordsForm[g]
    BY <1>1 DEF HelperShape
  <1>4. HelperShape'
    BY <1>1, <1>2 DEF HelperShape
  <1>5. \A j \in AuxPasswords!Ids : EntryCounted(j)'
    BY <1>1 DEF HelperInv, EntryCounted
  <1>6. FormShows(f)'
    <2>1. EntryCounted(i) /\ passwordsEntry[i].revision \in Nat
      BY <1>1 DEF HelperInv, HelperShape, AuxPasswords!Entry
    <2> QED
      BY <1>1, <1>2, <1>3, <2>1 DEF FormShows, EntryCounted
  <1>7. \A g \in Forms : g # f => FormShows(g)'
    BY <1>1, <1>3 DEF HelperInv, FormShows
  <1> QED
    BY <1>4, <1>5, <1>6, <1>7 DEF HelperInv

\* A form that is closed shows nothing, and nothing else has changed.
LEMMA HelperClose ==
    ASSUME HelperInv, NEW f \in Forms, AuxPasswords!Close(f),
           UNCHANGED <<passwordsEntry, passwordsImport, passwordsWrites, passwordsChanged,
               passwordsAudit, passwordsMislaid, passwordsReborn>>
    PROVE  HelperInv'
  <1>1. HelperShape' /\ passwordsForm'[f] = None /\ \A g \in Forms : g # f =>
          passwordsForm'[g] = passwordsForm[g]
    BY DEF HelperInv, HelperShape, AuxPasswords!Close
  <1>2. \A j \in AuxPasswords!Ids : EntryCounted(j)'
    BY DEF HelperInv, EntryCounted
  <1>3. \A g \in Forms : FormShows(g)'
    BY <1>1 DEF HelperInv, FormShows
  <1> QED
    BY <1>1, <1>2, <1>3 DEF HelperInv

\* The entry a form replaces, under the revision it showed, is the entry it
\* showed, but for one that was imported again.
LEMMA HelperReplace ==
    ASSUME HelperInv, NEW f \in Forms, passwordsForm[f] # None, passwordsWrites < MaxWrites,
           AuxPasswords!Current(f),
           NEW r \in AuxPasswords!Entry \cup {None}, AuxPasswords!Replace(f, r),
           r # None => r.revision = passwordsForm[f].shown.revision + 1,
           AuxPasswords!Close(f), UNCHANGED <<passwordsImport, passwordsReborn>>
    PROVE  HelperInv'
  <1> DEFINE i == passwordsForm[f].id
             t == passwordsForm[f].shown
  <1>1. /\ HelperShape /\ i \in AuxPasswords!Ids /\ t \in AuxPasswords!Entry
        /\ passwordsEntry[i] # None /\ passwordsEntry[i] \in AuxPasswords!Entry
        /\ passwordsEntry[i].revision = t.revision
    BY DEF HelperInv, HelperShape, AuxPasswords!Current
  <1>2. /\ passwordsEntry' = [passwordsEntry EXCEPT ![i] = r] /\ AuxPasswords!Commit({i})
        /\ passwordsMislaid' = IF passwordsEntry[i] = t THEN passwordsMislaid
             ELSE passwordsMislaid \cup {i}
    BY DEF AuxPasswords!Replace
  <1>3. i \notin passwordsReborn => passwordsEntry[i] = t
    BY <1>1 DEF HelperInv, FormShows
  <1> HIDE DEF i, t
  <1>4. /\ passwordsForm' \in [Forms -> [id : AuxPasswords!Ids,
             shown : AuxPasswords!Entry] \cup {None}]
        /\ passwordsForm'[f] = None /\ \A g \in Forms : g # f =>
             passwordsForm'[g] = passwordsForm[g]
    BY <1>1 DEF HelperShape, AuxPasswords!Close
  <1>5. /\ passwordsEntry' \in [AuxPasswords!Ids -> AuxPasswords!Entry \cup {None}]
        /\ passwordsEntry'[i] = r /\ \A j \in AuxPasswords!Ids : j # i =>
             passwordsEntry'[j] = passwordsEntry[j]
    BY <1>1, <1>2 DEF HelperShape
  <1>6. passwordsMislaid' \subseteq passwordsReborn'
    BY <1>1, <1>2, <1>3 DEF HelperShape
  <1>7. HelperShape'
    BY <1>1, <1>2, <1>4, <1>5, <1>6, HelperCommit DEF HelperShape
  <1>8. t.revision \in Nat \ {0} /\ passwordsWrites \in Nat /\
          (r # None => r.revision = t.revision + 1)
    BY <1>1, ComponentsAssumption DEF HelperShape, AuxPasswords!Entry,
       AuxPasswords!AuxPasswordsAssumption, t
  <1>9. ASSUME NEW j \in AuxPasswords!Ids PROVE EntryCounted(j)'
    <2>1. EntryCounted(j) /\ passwordsChanged[j] \in Nat /\ passwordsAudit[j] \in Nat
      BY <1>1 DEF HelperInv, HelperShape
    <2>2. /\ passwordsWrites' = passwordsWrites + 1
          /\ passwordsChanged'[j] = IF j = i THEN passwordsChanged[j] + 1 ELSE passwordsChanged[j]
          /\ passwordsAudit'[j] = IF j = i THEN passwordsAudit[j] + 1 ELSE passwordsAudit[j]
      BY <1>1, <1>2, HelperCommit
    <2>3. passwordsEntry[j] # None => passwordsEntry[j].revision \in Nat
      BY <1>1 DEF HelperShape, AuxPasswords!Entry
    <2>4. CASE j = i
      BY <1>1, <1>5, <1>8, <2>1, <2>2, <2>4 DEF EntryCounted
    <2>5. CASE j # i
      BY <1>5, <1>8, <2>1, <2>2, <2>3, <2>5 DEF EntryCounted
    <2> QED
      BY <2>4, <2>5
  <1>10. ASSUME NEW g \in Forms PROVE FormShows(g)'
    <2>1. CASE g = f
      BY <1>4, <2>1 DEF FormShows
    <2>2. CASE g # f /\ passwordsForm[g] # None
      <3> DEFINE k == passwordsForm[g].id
                 v == passwordsForm[g].shown
      <3>1. /\ k \in AuxPasswords!Ids /\ v \in AuxPasswords!Entry
            /\ passwordsForm'[g] = passwordsForm[g] /\ passwordsChanged[k] > 0
            /\ passwordsEntry[k] # None /\ k \notin passwordsReborn =>
                  v.revision <= passwordsEntry[k].revision /\
                      (v.revision = passwordsEntry[k].revision => v = passwordsEntry[k])
        BY <1>1, <1>4, <2>2 DEF HelperInv, HelperShape, FormShows
      <3>2. passwordsChanged'[k] > 0
        BY <1>1, <1>2, <3>1, HelperCommit DEF HelperShape
      <3>3. v.revision \in Nat
        BY <3>1 DEF AuxPasswords!Entry
      <3> HIDE DEF k, v
      <3>4. passwordsEntry'[k] # None /\ k \notin passwordsReborn' =>
               v.revision <= passwordsEntry'[k].revision /\
                   (v.revision = passwordsEntry'[k].revision => v = passwordsEntry'[k])
        <4>1. CASE k = i
          BY <1>1, <1>5, <1>8, <3>1, <3>3, <4>1
        <4>2. CASE k # i
          BY <1>5, <3>1, <4>2
        <4> QED
          BY <4>1, <4>2
      <3> QED
        BY <3>1, <3>2, <3>4 DEF FormShows, k, v
    <2>3. CASE g # f /\ passwordsForm[g] = None
      BY <1>4, <2>3 DEF FormShows
    <2> QED
      BY <2>1, <2>2, <2>3
  <1> QED
    BY <1>7, <1>9, <1>10 DEF HelperInv

LEMMA HelperUpdate == ASSUME HelperInv, NEW f \in Forms, AuxPasswords!Update(f) PROVE HelperInv'
  <1>1. passwordsForm[f] # None /\ passwordsWrites < MaxWrites /\ AuxPasswords!Close(f) /\
          UNCHANGED <<passwordsImport, passwordsReborn>>
    BY DEF AuxPasswords!Update
  <1>2. CASE AuxPasswords!Current(f)
    <2>1. PICK x \in Identities :
             AuxPasswords!Replace(f,
                 [identity |-> x, revision |-> passwordsForm[f].shown.revision + 1,
                     content |-> passwordsWrites + 1])
      BY <1>2 DEF AuxPasswords!Update
    <2> DEFINE r == [identity |-> x, revision |-> passwordsForm[f].shown.revision + 1,
          content |-> passwordsWrites + 1]
    <2>2. /\ passwordsForm[f].id \in AuxPasswords!Ids /\ passwordsForm[f].shown.revision \in Nat
          /\ passwordsWrites \in Nat /\ MaxWrites \in Nat
          /\ passwordsForm[f].shown.revision <= passwordsWrites
      <3>1. /\ passwordsForm[f].id \in AuxPasswords!Ids
            /\ passwordsForm[f].shown \in AuxPasswords!Entry
            /\ EntryCounted(passwordsForm[f].id) /\ passwordsWrites \in Nat
        BY <1>1, ComponentsAssumption DEF HelperInv, HelperShape,
           AuxPasswords!AuxPasswordsAssumption
      <3> QED
        BY <1>2, <3>1, ComponentsAssumption DEF EntryCounted, AuxPasswords!Current,
           AuxPasswords!Entry, AuxPasswords!AuxPasswordsAssumption
    <2>3. r \in AuxPasswords!Entry /\ r.revision = passwordsForm[f].shown.revision + 1
      BY <1>1, <2>2 DEF AuxPasswords!Entry
    <2>4. AuxPasswords!Replace(f, r)
      BY <2>1
    <2> HIDE DEF r
    <2> QED
      BY <1>1, <1>2, <2>3, <2>4, HelperReplace
  <1>3. CASE ~AuxPasswords!Current(f)
    BY <1>1, <1>3, HelperClose DEF AuxPasswords!Update
  <1> QED
    BY <1>2, <1>3

LEMMA HelperDelete == ASSUME HelperInv, NEW f \in Forms, AuxPasswords!Delete(f) PROVE HelperInv'
  <1>1. passwordsForm[f] # None /\ passwordsWrites < MaxWrites /\ AuxPasswords!Close(f) /\
          UNCHANGED <<passwordsImport, passwordsReborn>>
    BY DEF AuxPasswords!Delete
  <1>2. CASE AuxPasswords!Current(f)
    BY <1>1, <1>2, HelperReplace DEF AuxPasswords!Delete
  <1>3. CASE ~AuxPasswords!Current(f)
    BY <1>1, <1>3, HelperClose DEF AuxPasswords!Delete
  <1> QED
    BY <1>2, <1>3

\* An import that begins or fails changes no entry.
LEMMA HelperQuiet ==
    ASSUME HelperInv, passwordsImport' \in [Imports -> [file : SUBSET Identities,
        seen : SUBSET Identities] \cup {None}],
           UNCHANGED <<passwordsEntry, passwordsForm, passwordsWrites, passwordsChanged,
               passwordsAudit, passwordsMislaid, passwordsReborn>>
    PROVE  HelperInv'
  BY DEF HelperInv, HelperShape, EntryCounted, FormShows

LEMMA HelperBeginImport == ASSUME HelperInv, NEW m \in Imports, AuxPasswords!BeginImport(m)
    PROVE HelperInv'
  <1>1. PICK file \in SUBSET Identities :
          passwordsImport' = [passwordsImport EXCEPT ![m] = [file |-> file,
              seen |-> AuxPasswords!Listed]]
    BY DEF AuxPasswords!BeginImport
  <1>2. AuxPasswords!Listed \subseteq Identities
    BY DEF AuxPasswords!Listed, HelperInv, HelperShape, AuxPasswords!Entry
  <1>3. [file |-> file, seen |-> AuxPasswords!Listed] \in [file : SUBSET Identities,
          seen : SUBSET Identities]
    BY <1>2
  <1>4. passwordsImport' \in [Imports -> [file : SUBSET Identities,
          seen : SUBSET Identities] \cup {None}]
    BY <1>1, <1>3 DEF HelperInv, HelperShape
  <1> QED
    BY <1>4, HelperQuiet DEF AuxPasswords!BeginImport

LEMMA HelperImportFails == ASSUME HelperInv, NEW m \in Imports, AuxPasswords!ImportFails(m)
    PROVE HelperInv'
  <1>1. passwordsImport' \in [Imports -> [file : SUBSET Identities,
          seen : SUBSET Identities] \cup {None}]
    BY DEF AuxPasswords!ImportFails, HelperInv, HelperShape
  <1> QED
    BY <1>1, HelperQuiet DEF AuxPasswords!ImportFails

LEMMA HelperFinishImport == ASSUME HelperInv, NEW m \in Imports, AuxPasswords!FinishImport(m)
    PROVE HelperInv'
  <1> DEFINE new == {x \in passwordsImport[m].file \ passwordsImport[m].seen :
        passwordsEntry[x] = None}
  <1>1. /\ HelperShape /\ passwordsWrites < MaxWrites /\ AuxPasswords!Commit(new)
        /\ UNCHANGED <<passwordsForm, passwordsMislaid>>
        /\ passwordsEntry' = [i \in AuxPasswords!Ids |-> IF i \in new
                                   THEN [identity |-> i, revision |-> 1,
                                       content |-> passwordsWrites + 1]
                                   ELSE passwordsEntry[i]]
        /\ passwordsReborn' = passwordsReborn \cup {x \in new : passwordsChanged[x] > 0}
        /\ passwordsImport' = [passwordsImport EXCEPT ![m] = None]
    BY DEF AuxPasswords!FinishImport, HelperInv
  <1>2. new \subseteq Identities /\ new \subseteq AuxPasswords!Ids /\
          \A i \in new : passwordsEntry[i] = None
    BY DEF AuxPasswords!FinishImport, HelperInv, HelperShape, AuxPasswords!Ids
  <1> HIDE DEF new
  <1>3. passwordsWrites \in Nat /\ MaxWrites \in Nat
    BY <1>1, ComponentsAssumption DEF HelperShape, AuxPasswords!AuxPasswordsAssumption
  <1>4. ASSUME NEW i \in AuxPasswords!Ids
        PROVE  /\ passwordsEntry'[i] \in AuxPasswords!Entry \cup {None}
               /\ i \notin new => passwordsEntry'[i] = passwordsEntry[i]
               /\ i \in new => passwordsEntry'[i].revision = 1 /\ passwordsEntry'[i].identity = i
    <2>1. passwordsEntry'[i] = IF i \in new
            THEN [identity |-> i, revision |-> 1, content |-> passwordsWrites + 1]
                ELSE passwordsEntry[i]
      BY <1>1
    <2>2. i \in new => [identity |-> i, revision |-> 1,
            content |-> passwordsWrites + 1] \in AuxPasswords!Entry
      BY <1>1, <1>2, <1>3 DEF AuxPasswords!Entry
    <2> QED
      BY <1>1, <2>1, <2>2 DEF HelperShape
  <1>5. passwordsEntry' \in [AuxPasswords!Ids -> AuxPasswords!Entry \cup {None}]
    BY <1>1, <1>4
  <1>6. passwordsImport' \in [Imports -> [file : SUBSET Identities,
          seen : SUBSET Identities] \cup {None}]
    BY <1>1 DEF HelperShape
  <1>7. passwordsMislaid' \subseteq passwordsReborn' /\ passwordsReborn' \subseteq AuxPasswords!Ids
    BY <1>1, <1>2 DEF HelperShape
  <1>8. HelperShape'
    BY <1>1, <1>5, <1>6, <1>7, HelperCommit DEF HelperShape
  <1>9. ASSUME NEW j \in AuxPasswords!Ids PROVE EntryCounted(j)'
    <2>1. EntryCounted(j) /\ passwordsChanged[j] \in Nat /\ passwordsAudit[j] \in Nat
      BY <1>1 DEF HelperInv, HelperShape
    <2>2. /\ passwordsWrites' = passwordsWrites + 1
          /\ passwordsChanged'[j] = IF j \in new THEN passwordsChanged[j] + 1
               ELSE passwordsChanged[j]
          /\ passwordsAudit'[j] = IF j \in new THEN passwordsAudit[j] + 1 ELSE passwordsAudit[j]
      BY <1>1, HelperCommit
    <2>3. passwordsEntry[j] # None => passwordsEntry[j].revision \in Nat
      BY <1>1 DEF HelperShape, AuxPasswords!Entry
    <2>4. CASE j \in new
      BY <1>3, <1>4, <2>1, <2>2, <2>4 DEF EntryCounted
    <2>5. CASE j \notin new
      BY <1>3, <1>4, <2>1, <2>2, <2>3, <2>5 DEF EntryCounted
    <2> QED
      BY <2>4, <2>5
  <1>10. ASSUME NEW g \in Forms PROVE FormShows(g)'
    <2>1. CASE passwordsForm[g] = None
      BY <1>1, <2>1 DEF FormShows
    <2>2. CASE passwordsForm[g] # None
      <3> DEFINE k == passwordsForm[g].id
                 v == passwordsForm[g].shown
      <3>1. /\ k \in AuxPasswords!Ids /\ passwordsForm'[g] = passwordsForm[g]
            /\ passwordsChanged[k] > 0
            /\ passwordsEntry[k] # None /\ k \notin passwordsReborn =>
                  v.revision <= passwordsEntry[k].revision /\
                      (v.revision = passwordsEntry[k].revision => v = passwordsEntry[k])
        BY <1>1, <2>2 DEF HelperInv, HelperShape, FormShows
      <3>2. passwordsChanged'[k] > 0
        BY <1>1, <3>1, HelperCommit DEF HelperShape
      <3> HIDE DEF k, v
      <3>3. passwordsEntry'[k] # None /\ k \notin passwordsReborn' =>
               v.revision <= passwordsEntry'[k].revision /\
                   (v.revision = passwordsEntry'[k].revision => v = passwordsEntry'[k])
        <4>1. CASE k \in new
          BY <1>1, <3>1, <4>1
        <4>2. CASE k \notin new
          BY <1>1, <1>4, <3>1, <4>2
        <4> QED
          BY <4>1, <4>2
      <3> QED
        BY <3>1, <3>2, <3>3 DEF FormShows, k, v
    <2> QED
      BY <2>1, <2>2
  <1> QED
    BY <1>8, <1>9, <1>10 DEF HelperInv

LEMMA HelperStep == HelperInv /\ [AuxPasswords!Next]_(AuxPasswords!vars) => HelperInv'
  <1> SUFFICES ASSUME HelperInv, [AuxPasswords!Next]_(AuxPasswords!vars) PROVE HelperInv'
    OBVIOUS
  <1>1. CASE UNCHANGED AuxPasswords!vars
    BY <1>1 DEF AuxPasswords!vars, HelperInv, HelperShape, EntryCounted, FormShows
  <1>2. ASSUME NEW i \in Created, AuxPasswords!Create(i) PROVE HelperInv'
    BY <1>2, HelperCreate
  <1>3. ASSUME NEW f \in Forms, (\E i \in AuxPasswords!Ids : AuxPasswords!Open(f, i)) \/
          AuxPasswords!Update(f) \/ AuxPasswords!Delete(f) PROVE HelperInv'
    BY <1>3, HelperOpen, HelperUpdate, HelperDelete
  <1>4. ASSUME NEW m \in Imports, AuxPasswords!BeginImport(m) \/ AuxPasswords!FinishImport(m) \/
          AuxPasswords!ImportFails(m) PROVE HelperInv'
    BY <1>4, HelperBeginImport, HelperFinishImport, HelperImportFails
  <1> QED
    BY <1>1, <1>2, <1>3, <1>4 DEF AuxPasswords!Next

LEMMA HelperHolds == HelperInv => AuxPasswords!TypeOK /\ AuxPasswords!ChangeIsOfWhatWasShown
  <1> SUFFICES ASSUME HelperInv PROVE AuxPasswords!TypeOK /\ AuxPasswords!ChangeIsOfWhatWasShown
    OBVIOUS
  <1>1. passwordsWrites \in Nat /\ passwordsWrites <= MaxWrites /\ MaxWrites \in Nat
    BY ComponentsAssumption DEF HelperInv, HelperShape, AuxPasswords!AuxPasswordsAssumption
  <1>2. ASSUME NEW i \in AuxPasswords!Ids
          PROVE passwordsChanged[i] \in 0 .. MaxWrites /\ passwordsAudit[i] \in 0 .. MaxWrites
    <2>1. passwordsChanged[i] \in Nat /\ passwordsAudit[i] \in Nat /\
            passwordsChanged[i] <= passwordsWrites /\ passwordsAudit[i] <= passwordsWrites
      BY DEF HelperInv, HelperShape, EntryCounted
    <2> QED
      BY <1>1, <2>1
  <1>3. passwordsChanged \in [AuxPasswords!Ids -> 0 .. MaxWrites] /\
          passwordsAudit \in [AuxPasswords!Ids -> 0 .. MaxWrites]
    BY <1>2 DEF HelperInv, HelperShape
  <1>4. AuxPasswords!TypeOK
    BY <1>3 DEF HelperInv, HelperShape, AuxPasswords!TypeOK
  <1>5. ASSUME NEW i \in Identities, passwordsEntry[i] # None
        PROVE  passwordsEntry[i].revision > 1 \/ passwordsEntry[i].identity = i
    <2>1. i \in AuxPasswords!Ids
      BY DEF AuxPasswords!Ids
    <2>2. EntryCounted(i) /\ passwordsEntry[i].revision \in Nat \ {0}
      BY <1>1, <1>5, <2>1 DEF HelperInv, HelperShape, AuxPasswords!Entry
    <2> QED
      BY <1>5, <2>2 DEF EntryCounted
  <1> QED
    BY <1>4, <1>5 DEF AuxPasswords!ChangeIsOfWhatWasShown, HelperInv, HelperShape
-----------------------------------------------------------------------------
(* The composition.                                                        *)

AccessInv ==
    /\ subject \in Components
    /\ AccountsInv /\ PermissionsInv /\ Authorization!TypeOK
    /\ StaffInv /\ PictureInv
    /\ VaultInv /\ PolicyInv
    /\ DocumentsInv /\ ItineraryInv /\ HelperInv

LEMMA AccessInit == Init => AccessInv
  BY AccInit, PermInit, ScopeInit, StaffInit, PictureInit, VaultInit, PolicyInit, DocumentInit,
     ItineraryInit, HelperInit
     DEF Init, AccessInv

\* The component that moves takes a step of its own; each of the others stays.
LEMMA AdministrationMoves ==
    ASSUME [Next]_vars
    PROVE  /\ subject' = subject
           /\ [Accounts!Next]_(Accounts!vars)
           /\ [ModulePermissions!Next]_(ModulePermissions!vars)
           /\ [Authorization!Next]_(Authorization!vars)
           /\ [StaffRecords!Next]_(StaffRecords!vars)
           /\ [ProfilePicture!Next]_(ProfilePicture!vars)
  BY DEF Next, vars, accountsVars, permissionsVars, authorizationVars, staffVars, pictureVars,
     Accounts!vars, ModulePermissions!vars, Authorization!vars, StaffRecords!vars,
     ProfilePicture!vars

LEMMA PasswordsMove ==
    ASSUME [Next]_vars
    PROVE  /\ [PasswordVault!Next]_(PasswordVault!vars)
           /\ [PasswordPolicy!Next]_(PasswordPolicy!vars)
           /\ [AuxPasswords!Next]_(AuxPasswords!vars)
  BY DEF Next, vars, vaultVars, policyVars, passwordsVars,
     PasswordVault!vars, PasswordPolicy!vars, AuxPasswords!vars

LEMMA FilesMove ==
    ASSUME [Next]_vars
    PROVE  /\ [AuxDocument!Next]_(AuxDocument!vars)
           /\ [AuxItinerary!Next]_(AuxItinerary!vars)
  BY DEF Next, vars, documentsVars, itineraryVars, AuxDocument!vars, AuxItinerary!vars

LEMMA AccessStep == AccessInv /\ [Next]_vars => AccessInv'
  <1> SUFFICES ASSUME AccessInv, [Next]_vars PROVE AccessInv'
    OBVIOUS
  <1>1. (subject \in Components)' /\ AccountsInv' /\ PermissionsInv' /\ Authorization!TypeOK'
    BY AdministrationMoves, AccStep, PermStep, ScopeStep DEF AccessInv, Components
  <1>2. StaffInv' /\ PictureInv'
    BY AdministrationMoves, StaffStep, PictureStep DEF AccessInv
  <1>3. VaultInv' /\ PolicyInv' /\ HelperInv'
    BY PasswordsMove, VaultStep, PolicyStep, HelperStep DEF AccessInv
  <1>4. DocumentsInv' /\ ItineraryInv'
    BY FilesMove, DocumentStep, ItineraryStep DEF AccessInv
  <1> QED
    BY <1>1, <1>2, <1>3, <1>4 DEF AccessInv

LEMMA AccessAlways == Spec => []AccessInv
  BY AccessInit, AccessStep, PTL DEF Spec

(* Every component is always in a state of its type.                           *)
THEOREM TypesKept == Spec => []TypesOK
  <1>1. AccessInv => TypesOK
    BY AccHolds, PermHolds, StaffHolds, PictureHolds, VaultHistory, PolicyKept, DocumentHolds,
       ItineraryHolds, HelperHolds
       DEF AccessInv, TypesOK
  <1> QED
    BY AccessAlways, <1>1, PTL

(* Nobody has a session on a password the system gave, and a sign-out with     *)
(* nothing else of the user under way stands until the credentials are shown   *)
(* again (auth.service.ts login, logout, refresh).                             *)
THEOREM SessionsOwned == Spec => []SessionsHold
  <1>1. AccessInv => SessionsHold
    BY AccHolds DEF AccessInv, SessionsHold
  <1> QED
    BY AccessAlways, <1>1, PTL

(* However many saves of permissions overlap, the guard lets a user through to *)
(* the modules of the last that reached them and no open save has crossed; and *)
(* who is listed to somebody who leads nobody may be opened by them            *)
(* (users.service.ts, module-permission.guard.ts, authorization.service.ts).   *)
THEOREM AdministrationRight == Spec => []AdministrationStands
  <1>1. AccessInv => AdministrationStands
    BY PermHolds, ScopeHolds DEF AccessInv, AdministrationStands
  <1> QED
    BY AccessAlways, <1>1, PTL

(* Each row of a file of users of any length tells what became of the user,    *)
(* and the picture a profile names is stored (users.service.ts                 *)
(* importFromBuffer, auth.service.ts updateProfile).                           *)
THEOREM RecordsTrue == Spec => []RecordsTellFate
  <1>1. AccessInv => RecordsTellFate
    BY StaffHolds, PictureHolds DEF AccessInv, RecordsTellFate
  <1> QED
    BY AccessAlways, <1>1, PTL

(* However the requests about a credential cross, its history has each         *)
(* password that was replaced, once and in order; and a password and its level *)
(* are those of the policy (password-vault.service.ts).                        *)
THEOREM VaultKept == Spec => []VaultHolds
  <1>1. AccessInv => VaultHolds
    BY VaultHistory, PolicyKept DEF AccessInv, VaultHolds
  <1> QED
    BY AccessAlways, <1>1, PTL

(* A change of a helper password replaces what its form showed, but for an     *)
(* access imported again, whose revisions start anew; and imports list no      *)
(* access twice (auxiliary-passwords.ts).                                      *)
THEOREM ChangesShown == Spec => []ChangeIsOfWhatWasShown
  <1>1. AccessInv => ChangeIsOfWhatWasShown
    BY HelperHolds DEF AccessInv, ChangeIsOfWhatWasShown
  <1> QED
    BY AccessAlways, <1>1, PTL

(* The rows of the auxiliary team and the files they name agree, whatever      *)
(* uploads, saves, clean-ups and deletions cross, and a deleted document does  *)
(* not come back (documents.ts, documents/[id].ts, flights.ts).                *)
THEOREM FilesWhole == Spec => FilesAreWhole
  <1>1. AccessInv => AuxDocument!LoneUploadIsWhole /\ AuxDocument!NoOrphans /\
          AuxItinerary!ItineraryIsWhole
    BY DocumentHolds, ItineraryHolds DEF AccessInv
  <1>2. AccessInv /\ [Next]_vars =>
           [documentsRow.state = "deleted" => documentsRow' = documentsRow]_(AuxDocument!vars)
    BY FilesMove, DocumentDeletedStays DEF AccessInv
  <1>3. Spec => [](AuxDocument!LoneUploadIsWhole /\ AuxDocument!NoOrphans /\
          AuxItinerary!ItineraryIsWhole)
    BY AccessAlways, <1>1, PTL
  <1>4. Spec => AuxDocument!DeletedForGood
    BY AccessAlways, <1>2, PTL DEF Spec, AuxDocument!DeletedForGood
  <1> QED
    BY <1>3, <1>4 DEF FilesAreWhole
=============================================================================
