-------------------------- MODULE SiteAccountsProofs --------------------------
(* Theorems about the accounts of a site, for any number of people, projects,  *)
(* requests in progress, links, tokens and removals.                          *)
EXTENDS SiteAccounts, SiteProjects, TLAPS

USE AccountsAssumption

Places == {"looked", "accounts", "members", "tokens"}

Asked ==
    [kind : Kinds, name : People, room : Rooms \union {Nobody}, role : Roles,
     link : 0..MaxLinks, todo : SUBSET Rooms, at : Places]

Typed ==
    /\ accounts \in [People -> Accounts \union {Nobody}]
    /\ members \in [Rooms -> [People -> Roles \union {NoRole}]]
    /\ tokens \subseteq [id : 1..MaxTokens, name : People, room : Rooms \union {Nobody}]
    /\ links \in 0..MaxLinks
    /\ request \in [Clerks -> Asked \union {Idle}]
    /\ uses \in [1..MaxLinks -> Nat]
    /\ void \subseteq 1..MaxLinks
    /\ met \subseteq People

LEMMA BusyIsTyped ==
  ASSUME Typed, NEW c \in Clerks, Busy(c)
  PROVE  request[c] \in Asked
BY DEF Typed, Busy

LEMMA NewAccountTyped ==
  ASSUME NEW password \in BOOLEAN, NEW invite \in Invites \union {Nobody}
  PROVE  NewAccount(password, invite) \in Accounts
BY DEF NewAccount, Accounts

LEMMA MintTyped ==
  ASSUME Typed, links < MaxLinks, NEW p \in Rooms \union {Nobody}, NEW role \in Roles
  PROVE  /\ Mint(p, role) \in Invites
         /\ links + 1 \in 1..MaxLinks
BY DEF Typed, Mint, Invites

LEMMA BeginsTyped ==
  ASSUME Typed, NEW c \in Clerks, NEW req \in Asked, Begins(c, req)
  PROVE  /\ request' \in [Clerks -> Asked \union {Idle}]
         /\ met' \subseteq People
BY DEF Typed, Begins, Asked

LEMMA AsksTyped ==
  ASSUME NEW kind \in Kinds, NEW n \in People, NEW p \in Rooms \union {Nobody},
         NEW role \in Roles, NEW at \in Places
  PROVE  /\ Asks(kind, n, p, role, at) \in Asked
         /\ Asks(kind, n, p, role, at).kind = kind
         /\ Asks(kind, n, p, role, at).name = n
         /\ Asks(kind, n, p, role, at).at = at
BY DEF Asks, Asked

LEMMA GoesOnTyped ==
  ASSUME Typed, NEW c \in Clerks, NEW req \in Asked, GoesOn(c, req)
  PROVE  request' \in [Clerks -> Asked \union {Idle}]
<1>1. PICK i \in 1..3 :
         request' = [request EXCEPT ![c] =
                        IF i = 3 THEN Idle ELSE [req EXCEPT !.at = RemovalOrder[i + 1]]]
  BY DEF GoesOn
<1>2. i # 3 => RemovalOrder[i + 1] \in Places
  BY DEF RemovalOrder, Places
<1>3. i # 3 => [req EXCEPT !.at = RemovalOrder[i + 1]] \in Asked
  BY <1>2 DEF Asked
<1>4. QED
  BY <1>1, <1>3 DEF Typed

LEMMA InitTyped == AccountsInit => Typed
<1> SUFFICES ASSUME AccountsInit PROVE Typed
  OBVIOUS
<1>1. accounts \in [People -> Accounts \union {Nobody}]
  BY DEF AccountsInit, Accounts
<1>2. MaxLinks \in Nat /\ links \in 0..MaxLinks
  BY DEF AccountsInit
<1>3. uses \in [1..MaxLinks -> Nat] /\ void \subseteq 1..MaxLinks
  BY DEF AccountsInit
<1>4. members \in [Rooms -> [People -> Roles \union {NoRole}]]
  BY DEF AccountsInit
<1>5. request \in [Clerks -> Asked \union {Idle}] /\ met \subseteq People
  BY DEF AccountsInit
<1>6. tokens \subseteq [id : 1..MaxTokens, name : People, room : Rooms \union {Nobody}]
  BY DEF AccountsInit
<1>7. QED
  BY <1>1, <1>2, <1>3, <1>4, <1>5, <1>6 DEF Typed

\* The steps that begin a request change nothing else.
Starts(c) == \E req \in Asked :
    /\ req.kind \in {"invite", "batch"} => req.at = "accounts"
    /\ req.kind = "redeem" => req.at = "accounts"
    /\ req.kind \in {"add", "token"} => Exists(req.name)
    /\ req.kind = "remove" => req.at = "members" /\ req.todo = Rooms
    /\ Begins(c, req)
    /\ UNCHANGED <<accounts, members, tokens, links, uses, void>>

LEMMA BeginningStarts ==
  ASSUME Typed, NEW c \in Clerks, NEW n \in People,
         \/ \E p \in Rooms, role \in Roles : AddMember(c, n, p, role) \/ InviteMember(c, n, p, role)
         \/ \E p \in Rooms \union {Nobody} : PasswordBatch(c, n, p, Picker)
         \/ LookForLink(c, n)
         \/ \E p \in Rooms : CheckGrants(c, n, p)
         \/ LookBeforeRemoving(c, n)
  PROVE  Starts(c)
<1>1. ASSUME NEW p \in Rooms, NEW role \in Roles, AddMember(c, n, p, role)
      PROVE  Starts(c)
  <2>1. Asks("add", n, p, role, "members") \in Asked
    BY AsksTyped DEF Kinds, Places
  <2>2. QED
    BY <1>1, <2>1 DEF AddMember, Starts, Asks
<1>2. ASSUME NEW p \in Rooms, NEW role \in Roles, InviteMember(c, n, p, role)
      PROVE  Starts(c)
  <2>1. Asks("invite", n, p, role, "accounts") \in Asked
    BY AsksTyped DEF Kinds, Places
  <2>2. QED
    BY <1>2, <2>1 DEF InviteMember, Starts, Asks
<1>3. ASSUME NEW p \in Rooms \union {Nobody}, PasswordBatch(c, n, p, Picker)
      PROVE  Starts(c)
  <2>1. Asks("batch", n, p, Picker, "accounts") \in Asked
    BY AsksTyped DEF Kinds, Places, Roles
  <2>2. QED
    BY <1>3, <2>1 DEF PasswordBatch, Starts, Asks
<1>4. ASSUME LookForLink(c, n) PROVE Starts(c)
  <2> DEFINE req == [Asks("redeem", n, Nobody, Picker, "accounts")
                     EXCEPT !.link = accounts[n].invite.link]
  <2>1. accounts[n].invite \in Invites
    BY <1>4 DEF LookForLink, Exists, Typed, Accounts
  <2>2. accounts[n].invite.link \in 0..MaxLinks
    BY <2>1 DEF Invites
  <2>3. Asks("redeem", n, Nobody, Picker, "accounts") \in Asked
    BY AsksTyped DEF Kinds, Places, Roles
  <2>4. req \in Asked /\ req.kind = "redeem" /\ req.at = "accounts"
    BY <2>2, <2>3 DEF Asked, Asks
  <2>5. Begins(c, req) /\ UNCHANGED <<accounts, members, tokens, links, uses, void>>
    BY <1>4 DEF LookForLink
  <2>6. QED
    BY <2>4, <2>5 DEF Starts
<1>5. ASSUME NEW p \in Rooms, CheckGrants(c, n, p) PROVE Starts(c)
  <2>1. Asks("token", n, p, Picker, "tokens") \in Asked
    BY AsksTyped DEF Kinds, Places, Roles
  <2>2. QED
    BY <1>5, <2>1 DEF CheckGrants, Starts, Asks
<1>6. ASSUME LookBeforeRemoving(c, n) PROVE Starts(c)
  <2> DEFINE req == [Asks("remove", n, Nobody, Picker, RemovalOrder[1]) EXCEPT !.todo = Rooms]
  <2>1. RemovalOrder[1] = "members"
    BY DEF RemovalOrder
  <2>2. Asks("remove", n, Nobody, Picker, "members") \in Asked
    BY AsksTyped DEF Kinds, Places, Roles
  <2>3. req \in Asked /\ req.kind = "remove" /\ req.at = "members" /\ req.todo = Rooms
    BY <2>1, <2>2 DEF Asked, Asks
  <2>4. Begins(c, req) /\ UNCHANGED <<accounts, members, tokens, links, uses, void>>
    BY <1>6 DEF LookBeforeRemoving
  <2>5. QED
    BY <2>3, <2>4 DEF Starts
<1>7. QED
  BY <1>1, <1>2, <1>3, <1>4, <1>5, <1>6

LEMMA StartsTyped ==
  ASSUME Typed, NEW c \in Clerks, Starts(c)
  PROVE  Typed'
<1>1. request' \in [Clerks -> Asked \union {Idle}] /\ met' \subseteq People
  BY BeginsTyped DEF Starts
<1>2. QED
  BY <1>1 DEF Starts, Typed

\* Whom a step may make an account, and what of one it may change.
LEMMA AccountTyped ==
  ASSUME Typed, NEW n \in People, Exists(n)
  PROVE  /\ accounts[n] \in Accounts
         /\ \A invite \in Invites \union {Nobody} :
               [accounts[n] EXCEPT !.invite = invite] \in Accounts
         /\ \A admin \in BOOLEAN : [accounts[n] EXCEPT !.admin = admin] \in Accounts
         /\ [accounts[n] EXCEPT !.password = TRUE, !.invite = Nobody] \in Accounts
<1>1. accounts[n] \in Accounts
  BY DEF Typed, Exists
<1>2. QED
  BY <1>1 DEF Accounts

LEMMA PendingTyped ==
  ASSUME Typed, NEW n \in People
  PROVE  Pending(n) \subseteq 1..MaxLinks
<1>1. CASE Exists(n) /\ accounts[n].invite # Nobody
  <2>1. accounts[n].invite \in Invites
    BY <1>1, AccountTyped DEF Accounts
  <2>2. accounts[n].invite.link \in 1..MaxLinks
    BY <2>1 DEF Invites
  <2>3. QED
    BY <1>1, <2>2 DEF Pending
<1>2. QED
  BY <1>1 DEF Pending

\* A new account with the next link.
LEMMA MintedTyped ==
  ASSUME Typed, links < MaxLinks, NEW p \in Rooms \union {Nobody}, NEW role \in Roles
  PROVE  /\ NewAccount(FALSE, Mint(p, role)) \in Accounts
         /\ links + 1 \in 0..MaxLinks
<1>1. Mint(p, role) \in Invites
  BY MintTyped
<1>2. NewAccount(FALSE, Mint(p, role)) \in Accounts
  BY <1>1, NewAccountTyped, Zenon
<1>3. MaxLinks \in Nat /\ links \in 0..MaxLinks
  BY DEF Typed
<1>4. links + 1 \in 0..MaxLinks
  BY <1>3
<1>5. QED
  BY <1>2, <1>4

\* A request in progress goes on as a request, or ends.
LEMMA RequestTyped ==
  ASSUME Typed, NEW c \in Clerks,
         Ends(c) \/ (Busy(c) /\ \E at \in Places : Goes(c, at)) \/ UNCHANGED request
  PROVE  request' \in [Clerks -> Asked \union {Idle}]
<1>1. CASE Ends(c)
  BY <1>1 DEF Ends, Typed
<1>2. ASSUME Busy(c), NEW at \in Places, Goes(c, at)
      PROVE  request' \in [Clerks -> Asked \union {Idle}]
  <2>1. [request[c] EXCEPT !.at = at] \in Asked
    BY <1>2, BusyIsTyped DEF Asked
  <2>2. request' = [request EXCEPT ![c] = [request[c] EXCEPT !.at = at]]
    BY <1>2 DEF Goes
  <2>3. QED
    BY <2>1, <2>2 DEF Typed
<1>3. QED
  BY <1>1, <1>2 DEF Typed

LEMMA DirectTyped ==
  ASSUME Typed, NEW n \in People,
         \/ \E p \in Rooms \union {Nobody}, role \in Roles : CreateAccount(n, p, role)
         \/ ReissueInvite(n)
         \/ \E admin \in BOOLEAN : UpdateAccount(n, admin)
         \/ \E p \in Rooms, role \in Roles : UpdateMember(p, n, role)
         \/ \E p \in Rooms : RemoveMember(p, n)
  PROVE  Typed'
<1>1. ASSUME NEW p \in Rooms \union {Nobody}, NEW role \in Roles, CreateAccount(n, p, role)
      PROVE  Typed'
  <2>1. NewAccount(FALSE, Mint(p, role)) \in Accounts /\ links + 1 \in 0..MaxLinks
    BY <1>1, MintedTyped DEF CreateAccount
  <2>2. QED
    BY <1>1, <2>1 DEF CreateAccount, Typed
<1>2. ASSUME ReissueInvite(n) PROVE Typed'
  <2>1. Mint(Nobody, Picker) \in Invites /\ links + 1 \in 0..MaxLinks
    BY <1>2, MintTyped DEF ReissueInvite, Typed, Roles
  <2>2. [accounts[n] EXCEPT !.invite = Mint(Nobody, Picker)] \in Accounts
    BY <1>2, <2>1, AccountTyped DEF ReissueInvite
  <2>3. accounts' \in [People -> Accounts \union {Nobody}]
    BY <1>2, <2>2 DEF ReissueInvite, Typed
  <2>4. Pending(n) \subseteq 1..MaxLinks
    BY PendingTyped
  <2>5. QED
    BY <1>2, <2>1, <2>3, <2>4 DEF ReissueInvite, Typed
<1>3. ASSUME NEW admin \in BOOLEAN, UpdateAccount(n, admin) PROVE Typed'
  <2>1. [accounts[n] EXCEPT !.admin = admin] \in Accounts
    BY <1>3, AccountTyped DEF UpdateAccount
  <2>2. QED
    BY <1>3, <2>1 DEF UpdateAccount, Typed
<1>4. ASSUME NEW p \in Rooms, NEW role \in Roles, UpdateMember(p, n, role) PROVE Typed'
  BY <1>4 DEF UpdateMember, Upsert, Typed
<1>5. ASSUME NEW p \in Rooms, RemoveMember(p, n) PROVE Typed'
  BY <1>5 DEF RemoveMember, Upsert, Typed
<1>6. QED
  BY <1>1, <1>2, <1>3, <1>4, <1>5

LEMMA WriteTyped ==
  ASSUME Typed, NEW c \in Clerks,
         \/ WriteInvited(c) \/ WriteBatch(c) \/ Redeem(c) \/ WriteRemoved(c)
         \/ WriteMember(c) \/ WriteToken(c)
         \/ \E p \in Rooms : RemoveFromRoom(c, p)
         \/ RemoveTokens(c)
         \/ GivesUp(c)
  PROVE  Typed'
<1> DEFINE r == request[c]
<1>0. Busy(c) => /\ r \in Asked /\ r.name \in People /\ r.role \in Roles
                 /\ r.room \in Rooms \union {Nobody} /\ r.link \in 0..MaxLinks
                 /\ r.todo \subseteq Rooms
  BY BusyIsTyped DEF Asked
<1>1. CASE WriteInvited(c)
  <2>1. Busy(c) /\ links < MaxLinks
    BY <1>1 DEF WriteInvited, Doing
  <2>2. NewAccount(FALSE, Mint(r.room, r.role)) \in Accounts /\ links + 1 \in 0..MaxLinks
    BY <1>0, <2>1, MintedTyped
  <2>3. request' \in [Clerks -> Asked \union {Idle}]
    BY <1>1, <2>1, RequestTyped DEF WriteInvited, Places
  <2>4. accounts' \in [People -> Accounts \union {Nobody}] /\ links' \in 0..MaxLinks
    <3>1. \/ accounts' = accounts /\ links' = links
          \/ /\ accounts' = [accounts EXCEPT ![r.name] = NewAccount(FALSE, Mint(r.room, r.role))]
             /\ links' = links + 1
      BY <1>1 DEF WriteInvited
    <3> DEFINE made == NewAccount(FALSE, Mint(r.room, r.role))
    <3>2. made \in Accounts
      BY <2>2
    <3> HIDE DEF made
    <3>3. [accounts EXCEPT ![r.name] = made] \in [People -> Accounts \union {Nobody}]
      BY <3>2 DEF Typed
    <3>4. accounts \in [People -> Accounts \union {Nobody}] /\ links \in 0..MaxLinks
      BY DEF Typed
    <3>5. QED
      BY <2>2, <3>1, <3>3, <3>4 DEF made
  <2>5. UNCHANGED <<members, tokens, uses, void, met>>
    BY <1>1 DEF WriteInvited
  <2>6. QED
    BY <2>3, <2>4, <2>5 DEF Typed
<1>2. CASE WriteBatch(c)
  <2>1. Busy(c)
    BY <1>2 DEF WriteBatch, Doing
  <2>2. NewAccount(TRUE, Nobody) \in Accounts
    BY NewAccountTyped
  <2>3. request' \in [Clerks -> Asked \union {Idle}]
    BY <1>2, <2>1, RequestTyped DEF WriteBatch, Places
  <2>4. QED
    BY <1>0, <1>2, <2>1, <2>2, <2>3 DEF WriteBatch, Typed
<1>3. CASE Redeem(c)
  <2>1. Busy(c)
    BY <1>3 DEF Redeem, Doing
  <2>2. CASE ~LinkHolds(r.name, r.link)
    <3>1. request' \in [Clerks -> Asked \union {Idle}]
      BY <1>3, <2>1, <2>2, RequestTyped DEF Redeem
    <3>2. QED
      BY <1>3, <2>2, <3>1 DEF Redeem, Typed
  <2>3. CASE LinkHolds(r.name, r.link)
    <3>1. Exists(r.name)
      BY <2>3 DEF LinkHolds, Pending
    <3>2. /\ accounts[r.name] \in Accounts
          /\ [accounts[r.name] EXCEPT !.password = TRUE, !.invite = Nobody] \in Accounts
      BY <1>0, <2>1, <3>1, AccountTyped
    <3> DEFINE invite == accounts[r.name].invite
    <3>3. invite \in Invites /\ r.link \in 1..MaxLinks
      BY <2>3, <3>1, <3>2 DEF LinkHolds, Pending, Accounts, Invites
    <3>4. accounts' \in [People -> Accounts \union {Nobody}]
      <4>1. accounts' = [accounts EXCEPT ![r.name] =
                           [accounts[r.name] EXCEPT !.password = TRUE, !.invite = Nobody]]
        BY <1>0, <1>3, <2>1, <2>3 DEF Redeem, Typed
      <4>2. QED
        BY <3>2, <4>1 DEF Typed
    <3>5. request' \in [Clerks -> Asked \union {Idle}]
      <4>1. [request[c] EXCEPT !.at = "members", !.room = invite.room, !.role = invite.role]
               \in Asked
        BY <1>0, <2>1, <3>3 DEF Asked, Invites, Places
      <4>2. \/ Ends(c)
            \/ request' = [request EXCEPT ![c] =
                  [request[c] EXCEPT !.at = "members", !.room = invite.room, !.role = invite.role]]
        BY <1>3, <2>3 DEF Redeem, Typed
      <4>3. QED
        BY <4>1, <4>2 DEF Ends, Typed
    <3>6. uses' \in [1..MaxLinks -> Nat] /\ void' \subseteq 1..MaxLinks
      <4>1. /\ uses' = [uses EXCEPT ![r.link] = @ + 1]
            /\ void' = void \union {r.link}
        BY <1>3, <2>3 DEF Redeem
      <4>2. uses \in [1..MaxLinks -> Nat] /\ void \subseteq 1..MaxLinks
        BY DEF Typed
      <4>3. uses[r.link] + 1 \in Nat
        BY <3>3, <4>2
      <4>4. uses' \in [1..MaxLinks -> Nat]
        BY <4>1, <4>2, <4>3
      <4>5. void' \subseteq 1..MaxLinks
        BY <3>3, <4>1, <4>2
      <4>6. QED
        BY <4>4, <4>5
    <3>7. QED
      BY <1>3, <3>4, <3>5, <3>6 DEF Redeem, Typed
  <2>4. QED
    BY <2>2, <2>3
<1>4. CASE WriteRemoved(c)
  <2>1. Busy(c)
    BY <1>4 DEF WriteRemoved, Doing
  <2>2. request' \in [Clerks -> Asked \union {Idle}]
    BY <1>0, <1>4, <2>1, GoesOnTyped, RequestTyped DEF WriteRemoved
  <2>3. Pending(r.name) \subseteq 1..MaxLinks
    BY <1>0, <2>1, PendingTyped
  <2>4. QED
    BY <1>4, <2>2, <2>3 DEF WriteRemoved, Typed
<1>5. CASE WriteMember(c)
  <2>1. Busy(c)
    BY <1>5 DEF WriteMember, Doing
  <2>2. request' \in [Clerks -> Asked \union {Idle}]
    BY <1>5, RequestTyped DEF WriteMember
  <2>3. QED
    BY <1>0, <1>5, <2>1, <2>2 DEF WriteMember, Upsert, Typed
<1>6. CASE WriteToken(c)
  <2>1. Busy(c)
    BY <1>6 DEF WriteToken, Doing
  <2>2. request' \in [Clerks -> Asked \union {Idle}]
    BY <1>6, RequestTyped DEF WriteToken
  <2>3. QED
    BY <1>0, <1>6, <2>1, <2>2 DEF WriteToken, Typed
<1>7. ASSUME NEW p \in Rooms, RemoveFromRoom(c, p) PROVE Typed'
  <2>1. Busy(c)
    BY <1>7 DEF RemoveFromRoom, Doing
  <2>2. request' \in [Clerks -> Asked \union {Idle}]
    <3>1. CASE r.todo = {p}
      <4>1. [r EXCEPT !.todo = {}] \in Asked
        BY <1>0, <2>1 DEF Asked
      <4>2. QED
        BY <1>7, <3>1, <4>1, GoesOnTyped DEF RemoveFromRoom
    <3>2. CASE r.todo # {p}
      <4>1. [r EXCEPT !.todo = r.todo \ {p}] \in Asked
        BY <1>0, <2>1 DEF Asked
      <4>2. request' = [request EXCEPT ![c] = [r EXCEPT !.todo = r.todo \ {p}]]
        BY <1>7, <3>2 DEF RemoveFromRoom
      <4>3. QED
        BY <4>1, <4>2 DEF Typed
    <3>3. QED
      BY <3>1, <3>2
  <2>3. QED
    BY <1>0, <1>7, <2>1, <2>2 DEF RemoveFromRoom, Upsert, Typed
<1>8. CASE RemoveTokens(c)
  <2>1. Busy(c)
    BY <1>8 DEF RemoveTokens, Doing
  <2>2. request' \in [Clerks -> Asked \union {Idle}]
    BY <1>0, <1>8, <2>1, GoesOnTyped DEF RemoveTokens
  <2>3. QED
    BY <1>8, <2>2 DEF RemoveTokens, Typed
<1>9. CASE GivesUp(c)
  BY <1>9, RequestTyped DEF GivesUp, Typed
<1>10. QED
  BY <1>1, <1>2, <1>3, <1>4, <1>5, <1>6, <1>7, <1>8, <1>9

LEMMA NextTyped ==
  ASSUME Typed, [AccountsNext]_accountVars
  PROVE  Typed'
<1>1. ASSUME NEW t \in tokens, RevokeToken(t) PROVE Typed'
  BY <1>1 DEF RevokeToken, Typed
<1>2. ASSUME NEW c \in Clerks, NEW n \in People,
             \/ \E p \in Rooms, role \in Roles : AddMember(c, n, p, role) \/ InviteMember(c, n, p, role)
             \/ \E p \in Rooms \union {Nobody} : PasswordBatch(c, n, p, Picker)
             \/ LookForLink(c, n)
             \/ \E p \in Rooms : CheckGrants(c, n, p)
             \/ LookBeforeRemoving(c, n)
      PROVE  Typed'
  <2>1. Starts(c)
    BY <1>2, BeginningStarts
  <2>2. QED
    BY <2>1, StartsTyped DEF Starts
<1>3. CASE UNCHANGED accountVars
  BY <1>3 DEF accountVars, Typed
<1>4. QED
  BY <1>1, <1>2, <1>3, DirectTyped, WriteTyped DEF AccountsNext

-----------------------------------------------------------------------------
(* A site keeps an administrator. Every step either leaves the administrators *)
(* that are there, or takes it from one when there is another.                *)

\* An administrator whose account is not taken or demoted stays one.
LEMMA AdministratorsStay ==
  ASSUME Typed, [AccountsNext]_accountVars, SiteKeepsAdmin
  PROVE  SiteKeepsAdmin'
<1> USE DEF SiteKeepsAdmin, Administrators
<1>1. ASSUME NEW n \in People, accounts' \in [People -> Accounts \union {Nobody}],
             \A m \in People \ {n} : accounts'[m] = accounts[m],
             n \in Administrators => n \in Administrators' \/ HasAnotherAdmin(n)
      PROVE  SiteKeepsAdmin'
  <2>1. PICK m \in Administrators : m # n \/ n \in Administrators'
    BY <1>1 DEF HasAnotherAdmin
  <2>2. QED
    BY <1>1, <2>1 DEF Exists
<1>2. CASE accounts' = accounts
  BY <1>2 DEF Exists
<1>3. accounts' \in [People -> Accounts \union {Nobody}]
  BY NextTyped DEF Typed
<1>4. \A n \in People : n \in Administrators => accounts[n] \in Accounts
  BY DEF Exists, Typed
<1>5. ASSUME NEW n \in People, NEW p \in Rooms \union {Nobody}, NEW role \in Roles,
             CreateAccount(n, p, role)
      PROVE  SiteKeepsAdmin'
  BY <1>1, <1>3, <1>5 DEF CreateAccount, Typed
<1>6. ASSUME NEW n \in People, ReissueInvite(n) PROVE SiteKeepsAdmin'
  <2>1. n \in Administrators => n \in Administrators'
    <3>1. n \in Administrators => accounts'[n].admin
      BY <1>4, <1>6 DEF ReissueInvite, Typed, Accounts
    <3>2. [accounts[n] EXCEPT !.invite = Mint(Nobody, Picker)] \in Accounts
      BY <1>6, AccountTyped, MintTyped DEF ReissueInvite, Roles
    <3>3. accounts'[n] # Nobody
      BY <1>6, <3>2 DEF ReissueInvite, Typed
    <3>4. QED
      BY <3>1, <3>3 DEF Exists
  <2>2. QED
    BY <1>1, <1>3, <1>6, <2>1 DEF ReissueInvite, Typed
<1>7. ASSUME NEW n \in People, NEW admin \in BOOLEAN, UpdateAccount(n, admin)
      PROVE  SiteKeepsAdmin'
  <2>1. n \in Administrators => HasAnotherAdmin(n)
    BY <1>7 DEF UpdateAccount, MayBecome
  <2>2. QED
    BY <1>1, <1>3, <1>7, <2>1 DEF UpdateAccount, Typed
<1>8. ASSUME NEW c \in Clerks,
             WriteInvited(c) \/ WriteBatch(c) \/ Redeem(c) \/ WriteRemoved(c)
      PROVE  SiteKeepsAdmin'
  <2> DEFINE n == request[c].name
  <2>1. Busy(c) /\ n \in People
    BY <1>8, BusyIsTyped DEF WriteInvited, WriteBatch, Redeem, WriteRemoved, Doing, Asked
  <2>2. \A m \in People \ {n} : accounts'[m] = accounts[m]
    BY <1>8 DEF WriteInvited, WriteBatch, Redeem, WriteRemoved, Typed
  <2>3. n \in Administrators => n \in Administrators' \/ HasAnotherAdmin(n)
    <3>1. CASE WriteInvited(c) \/ WriteBatch(c)
      BY <1>2, <2>1, <3>1 DEF WriteInvited, WriteBatch, Exists
    <3>2. CASE WriteRemoved(c)
      BY <1>2, <3>2 DEF WriteRemoved, MayStillRemove, MayRemove, Exists
    <3>3. CASE Redeem(c) /\ n \in Administrators
      <4>1. \/ accounts' = accounts
            \/ accounts' = [accounts EXCEPT ![n] =
                  [accounts[n] EXCEPT !.password = TRUE, !.invite = Nobody]]
        BY <2>1, <3>3 DEF Redeem, Typed
      <4> DEFINE kept == [accounts[n] EXCEPT !.password = TRUE, !.invite = Nobody]
      <4>2. kept \in Accounts /\ accounts[n] \in Accounts
        BY <2>1, <3>3, AccountTyped
      <4>3. kept.admin = accounts[n].admin
        BY <4>2 DEF Accounts
      <4>4. kept # Nobody
        BY <4>2
      <4> HIDE DEF kept
      <4>5. accounts' = accounts \/ accounts' = [accounts EXCEPT ![n] = kept]
        BY <4>1 DEF kept
      <4>6. accounts'[n] # Nobody /\ accounts'[n].admin
        BY <2>1, <3>3, <4>3, <4>4, <4>5 DEF Exists, Typed
      <4>7. QED
        BY <2>1, <4>6 DEF Exists
    <3>4. QED
      BY <1>8, <3>1, <3>2, <3>3
  <2>4. QED
    BY <1>1, <1>3, <2>1, <2>2, <2>3
<1>9. ASSUME NEW c \in Clerks, Starts(c) PROVE accounts' = accounts
  BY <1>9 DEF Starts
<1>10. ASSUME NEW c \in Clerks,
              \/ WriteMember(c) \/ WriteToken(c) \/ RemoveTokens(c) \/ GivesUp(c)
              \/ \E p \in Rooms : RemoveFromRoom(c, p)
       PROVE  accounts' = accounts
  BY <1>10 DEF WriteMember, WriteToken, RemoveTokens, GivesUp, RemoveFromRoom
<1>11. ASSUME NEW n \in People,
              \/ \E p \in Rooms, role \in Roles : UpdateMember(p, n, role)
              \/ \E p \in Rooms : RemoveMember(p, n)
       PROVE  accounts' = accounts
  BY <1>11 DEF UpdateMember, RemoveMember
<1>12. \A t \in tokens : RevokeToken(t) => accounts' = accounts
  BY DEF RevokeToken
<1>13. UNCHANGED accountVars => accounts' = accounts
  BY DEF accountVars
<1>14. QED
  BY <1>2, <1>5, <1>6, <1>7, <1>8, <1>9, <1>10, <1>11, <1>12, <1>13, BeginningStarts
  DEF AccountsNext

\* A site always has an account that administers it, however many demotions and
\* removals of administrators look, and write, between one another's steps.
THEOREM SiteAlwaysKeepsAdmin == AccountsSpec => []SiteKeepsAdmin
<1>1. AccountsInit => Typed
  BY InitTyped
<1>2. AccountsInit => SiteKeepsAdmin
  <2> SUFFICES ASSUME AccountsInit PROVE SiteKeepsAdmin
    OBVIOUS
  <2>1. PICK first \in People :
          accounts[first] = [admin |-> TRUE, password |-> TRUE, invite |-> Nobody]
    BY DEF AccountsInit
  <2>2. accounts[first] \in Accounts
    BY <2>1 DEF Accounts
  <2>3. QED
    BY <2>1, <2>2 DEF SiteKeepsAdmin, Administrators, Exists
<1>3. Typed /\ SiteKeepsAdmin /\ [AccountsNext]_accountVars => Typed' /\ SiteKeepsAdmin'
  BY NextTyped, AdministratorsStay
<1>4. QED
  BY <1>1, <1>2, <1>3, PTL DEF AccountsSpec

-----------------------------------------------------------------------------
(* A removed account leaves nothing. Of a name that is not met, no request    *)
(* gives while another removes; whoever gives does so to an account that is   *)
(* there; and a removal that has got so far has cleared so much.              *)

Removes(c) == request[c].kind = "remove"
OnOneName(c, d) == Busy(c) /\ Busy(d) /\ request[c].name = request[d].name

NotBoth ==
    \A c, d \in Clerks :
        OnOneName(c, d) /\ request[c].name \notin met => (Removes(c) <=> Removes(d))

GivesToSomebody ==
    \A c \in Clerks :
        Busy(c) /\ ~Removes(c) /\ request[c].name \notin met
          /\ request[c].at \in {"members", "tokens"}
        => Exists(request[c].name)

NoMembership(n) == \A p \in Rooms : members[p][n] = NoRole
NoToken(n) == \A t \in tokens : t.name # n

Clearing ==
    \A c \in Clerks :
        Busy(c) /\ Removes(c) /\ request[c].name \notin met =>
            LET n == request[c].name IN
            /\ request[c].at = "members" =>
                  \A p \in Rooms \ request[c].todo : members[p][n] = NoRole
            /\ request[c].at \in {"tokens", "accounts"} => NoMembership(n)
            /\ request[c].at = "accounts" => NoToken(n)

NothingLeft ==
    \A n \in People \ met : ~Exists(n) => NoMembership(n) /\ NoToken(n)

\* The steps of a request that has begun, and those that are no request.
Writes ==
    \E c \in Clerks :
        \/ WriteInvited(c) \/ WriteBatch(c) \/ Redeem(c) \/ WriteRemoved(c)
        \/ WriteMember(c) \/ WriteToken(c)
        \/ \E p \in Rooms : RemoveFromRoom(c, p)
        \/ RemoveTokens(c)
        \/ GivesUp(c)

Direct ==
    \/ \E n \in People :
          \/ \E p \in Rooms \union {Nobody}, role \in Roles : CreateAccount(n, p, role)
          \/ ReissueInvite(n)
          \/ \E admin \in BOOLEAN : UpdateAccount(n, admin)
          \/ \E p \in Rooms, role \in Roles : UpdateMember(p, n, role)
          \/ \E p \in Rooms : RemoveMember(p, n)
    \/ \E t \in tokens : RevokeToken(t)
    \/ UNCHANGED accountVars

LEMMA StepKinds ==
  ASSUME Typed, [AccountsNext]_accountVars
  PROVE  (\E c \in Clerks : Starts(c)) \/ Writes \/ Direct
BY BeginningStarts DEF AccountsNext, Writes, Direct

\* What a removal does with its request when it has done a part of its work.
LEMMA RemovalGoesOn ==
  ASSUME Typed, NEW c \in Clerks, NEW req \in Asked, GoesOn(c, req)
  PROVE  /\ \A d \in Clerks \ {c} : request'[d] = request[d]
         /\ req.at = "members" => request'[c] = [req EXCEPT !.at = "tokens"]
         /\ req.at = "tokens" => request'[c] = [req EXCEPT !.at = "accounts"]
         /\ req.at = "accounts" => request'[c] = Idle
<1>1. PICK i \in 1..3 :
         /\ RemovalOrder[i] = req.at
         /\ request' = [request EXCEPT ![c] =
                          IF i = 3 THEN Idle ELSE [req EXCEPT !.at = RemovalOrder[i + 1]]]
  BY DEF GoesOn
<1>2. /\ RemovalOrder[1] = "members" /\ RemovalOrder[2] = "tokens"
      /\ RemovalOrder[3] = "accounts"
  BY DEF RemovalOrder
<1>3. CASE i = 1
  BY <1>1, <1>2, <1>3 DEF Typed
<1>4. CASE i = 2
  BY <1>1, <1>2, <1>4 DEF Typed
<1>5. CASE i = 3
  BY <1>1, <1>2, <1>5 DEF Typed
<1>6. QED
  BY <1>1, <1>3, <1>4, <1>5

\* How a write leaves the requests: each as it was or ended, but for one that
\* gives to an account it has just made or found, and a removal's next part.
Onward(c) ==
    LET r == request[c]
        now == request'[c]
    IN  /\ now.name = r.name /\ now.kind = r.kind /\ Busy(c)
        /\ \/ ~Removes(c) /\ accounts'[r.name] # Nobody
           \/ /\ Removes(c) /\ r.at = "members"
              /\ \E p \in Rooms : /\ RemoveFromRoom(c, p)
                                  /\ \/ r.todo = {p} /\ now.at = "tokens"
                                     \/ now.at = "members" /\ now.todo = r.todo \ {p}
           \/ Removes(c) /\ RemoveTokens(c) /\ now.at = "accounts"

LEMMA WriteRequests ==
  ASSUME Typed, Writes
  PROVE  /\ met' = met
         /\ \A c \in Clerks : request'[c] \in {request[c], Idle} \/ Onward(c)
<1>1. PICK c \in Clerks :
        \/ WriteInvited(c) \/ WriteBatch(c) \/ Redeem(c) \/ WriteRemoved(c)
        \/ WriteMember(c) \/ WriteToken(c)
        \/ \E p \in Rooms : RemoveFromRoom(c, p)
        \/ RemoveTokens(c)
        \/ GivesUp(c)
  BY DEF Writes
<1>2. met' = met
  BY <1>1 DEF WriteInvited, WriteBatch, Redeem, WriteRemoved, WriteMember, WriteToken,
              RemoveFromRoom, RemoveTokens, GivesUp
<1>3. Busy(c) /\ request[c] \in Asked
  BY <1>1, BusyIsTyped DEF WriteInvited, WriteBatch, Redeem, WriteRemoved, WriteMember,
     WriteToken, RemoveFromRoom, RemoveTokens, GivesUp, Doing
<1>4. SUFFICES /\ \A d \in Clerks \ {c} : request'[d] = request[d]
               /\ request'[c] \in {request[c], Idle} \/ Onward(c)
  BY <1>2
<1>5. CASE Ends(c)
  BY <1>5 DEF Ends, Typed
<1>6. CASE WriteInvited(c) /\ ~Ends(c)
  <2>1. /\ request' = [request EXCEPT ![c] = [request[c] EXCEPT !.at = "members"]]
        /\ request[c].kind = "invite"
    BY <1>6 DEF WriteInvited, Goes, Doing
  <2>2. NewAccount(FALSE, Mint(request[c].room, request[c].role)) \in Accounts
    <3>1. links < MaxLinks
      BY <1>6 DEF WriteInvited
    <3>2. request[c].room \in Rooms \union {Nobody} /\ request[c].role \in Roles
      BY <1>3 DEF Asked
    <3>3. QED
      BY <3>1, <3>2, MintedTyped
  <2>3. accounts' = [accounts EXCEPT ![request[c].name] = NewAccount(FALSE, Mint(request[c].room, request[c].role))]
    BY <1>6 DEF WriteInvited
  <2>4. accounts'[request[c].name] # Nobody
    BY <1>3, <2>2, <2>3 DEF Asked, Typed
  <2>5. QED
    BY <1>3, <2>1, <2>4 DEF Onward, Removes, Typed, Asked
<1>7. CASE WriteBatch(c) /\ ~Ends(c)
  <2>1. /\ request' = [request EXCEPT ![c] = [request[c] EXCEPT !.at = "members"]]
        /\ request[c].kind = "batch"
    BY <1>7 DEF WriteBatch, Goes, Doing
  <2>2. NewAccount(TRUE, Nobody) \in Accounts
    BY NewAccountTyped
  <2>3. accounts' = [accounts EXCEPT ![request[c].name] = NewAccount(TRUE, Nobody)]
    BY <1>7 DEF WriteBatch
  <2>4. accounts'[request[c].name] # Nobody
    BY <1>3, <2>2, <2>3 DEF Asked, Typed
  <2>5. QED
    BY <1>3, <2>1, <2>4 DEF Onward, Removes, Typed, Asked
<1>8. CASE Redeem(c) /\ ~Ends(c)
  <2> DEFINE n == request[c].name
             kept == [accounts[n] EXCEPT !.password = TRUE, !.invite = Nobody]
  <2>1. LinkHolds(n, request[c].link)
    BY <1>8 DEF Redeem
  <2>2. kept \in Accounts
    BY <1>3, <2>1, AccountTyped DEF LinkHolds, Pending, Asked
  <2>3. accounts' = [accounts EXCEPT ![n] = kept]
    BY <1>3, <1>8, <2>1 DEF Redeem, Typed, Asked
  <2>4. accounts'[n] # Nobody
    <3> HIDE DEF kept
    <3>1. accounts'[n] = kept
      BY <1>3, <2>3 DEF Typed, Asked
    <3>2. QED
      BY <2>2, <3>1
  <2>5. /\ \A d \in Clerks \ {c} : request'[d] = request[d]
        /\ request'[c].name = n /\ request'[c].kind = "redeem" /\ request[c].kind = "redeem"
    BY <1>3, <1>8, <2>1 DEF Redeem, Doing, Typed, Asked
  <2>6. QED
    BY <1>3, <2>4, <2>5 DEF Onward, Removes
<1>9. CASE WriteRemoved(c)
  <2>1. request[c].at = "accounts"
    BY <1>9 DEF WriteRemoved, Doing
  <2>2. GoesOn(c, request[c]) \/ Ends(c)
    BY <1>9 DEF WriteRemoved
  <2>3. QED
    BY <1>3, <1>5, <2>1, <2>2, RemovalGoesOn
<1>10. ASSUME NEW p \in Rooms, RemoveFromRoom(c, p)
       PROVE  /\ \A d \in Clerks \ {c} : request'[d] = request[d]
              /\ Onward(c)
  <2>1. Removes(c) /\ request[c].at = "members"
    BY <1>10 DEF RemoveFromRoom, Doing, Removes
  <2>2. CASE request[c].todo = {p}
    <3> DEFINE req == [request[c] EXCEPT !.todo = {}]
    <3>1. /\ req \in Asked /\ req.at = "members"
          /\ req.name = request[c].name /\ req.kind = request[c].kind
      BY <1>3, <2>1 DEF Asked
    <3>2. GoesOn(c, req)
      BY <1>10, <2>2 DEF RemoveFromRoom
    <3>3. /\ \A d \in Clerks \ {c} : request'[d] = request[d]
          /\ request'[c] = [req EXCEPT !.at = "tokens"]
      BY <3>1, <3>2, RemovalGoesOn
    <3> HIDE DEF req
    <3>4. /\ request'[c].at = "tokens"
          /\ request'[c].name = request[c].name /\ request'[c].kind = request[c].kind
      BY <3>1, <3>3 DEF Asked
    <3>5. QED
      BY <1>3, <1>10, <2>1, <2>2, <3>3, <3>4 DEF Onward
  <2>3. CASE request[c].todo # {p}
    <3>1. request' = [request EXCEPT ![c] = [request[c] EXCEPT !.todo = request[c].todo \ {p}]]
      BY <1>10, <2>3 DEF RemoveFromRoom
    <3>2. /\ request'[c].at = "members" /\ request'[c].todo = request[c].todo \ {p}
          /\ request'[c].name = request[c].name /\ request'[c].kind = request[c].kind
      BY <1>3, <2>1, <3>1 DEF Asked, Typed
    <3>3. QED
      BY <1>3, <1>10, <2>1, <3>1, <3>2 DEF Onward, Typed
  <2>4. QED
    BY <2>2, <2>3
<1>11. CASE RemoveTokens(c)
  <2>1. Removes(c) /\ request[c].at = "tokens" /\ GoesOn(c, request[c])
    BY <1>11 DEF RemoveTokens, Doing, Removes
  <2>2. /\ \A d \in Clerks \ {c} : request'[d] = request[d]
        /\ request'[c] = [request[c] EXCEPT !.at = "accounts"]
    BY <1>3, <2>1, RemovalGoesOn
  <2>3. /\ request'[c].at = "accounts"
        /\ request'[c].name = request[c].name /\ request'[c].kind = request[c].kind
    BY <1>3, <2>2 DEF Asked
  <2>4. QED
    BY <1>3, <1>11, <2>1, <2>2, <2>3 DEF Onward
<1>12. WriteMember(c) \/ WriteToken(c) \/ GivesUp(c) => Ends(c)
  BY DEF WriteMember, WriteToken, GivesUp
<1>13. QED
  BY <1>1, <1>5, <1>6, <1>7, <1>8, <1>9, <1>10, <1>11, <1>12

\* Memberships and tokens come only of the requests that give them.
LEMMA OnlyGiftsGive ==
  ASSUME Typed, [AccountsNext]_accountVars
  PROVE  /\ \A n \in People, p \in Rooms :
              members'[p][n] # NoRole =>
                 \/ members[p][n] # NoRole
                 \/ \E c \in Clerks : WriteMember(c) /\ request[c].name = n
         /\ \A t \in tokens' :
              \/ t \in tokens
              \/ \E c \in Clerks : WriteToken(c) /\ request[c].name = t.name
<1>1. ASSUME NEW c \in Clerks, Starts(c) PROVE members' = members /\ tokens' = tokens
  BY <1>1 DEF Starts
<1>2. CASE Direct
  <2>1. tokens' \subseteq tokens
    BY <1>2 DEF Direct, CreateAccount, ReissueInvite, UpdateAccount, UpdateMember,
                RemoveMember, RevokeToken, accountVars
  <2>2. ASSUME NEW n \in People, NEW room \in Rooms, NEW role \in Roles,
               UpdateMember(room, n, role)
        PROVE  \A m \in People, p \in Rooms : members'[p][m] # NoRole => members[p][m] # NoRole
    BY <2>2 DEF UpdateMember, Upsert, Typed
  <2>3. ASSUME NEW n \in People, NEW room \in Rooms, RemoveMember(room, n)
        PROVE  \A m \in People, p \in Rooms : members'[p][m] # NoRole => members[p][m] # NoRole
    BY <2>3 DEF RemoveMember, Upsert, Typed
  <2>4. \/ members' = members
        \/ \E n \in People, p \in Rooms :
              RemoveMember(p, n) \/ \E role \in Roles : UpdateMember(p, n, role)
    BY <1>2 DEF Direct, CreateAccount, ReissueInvite, UpdateAccount, RevokeToken, accountVars
  <2>5. QED
    BY <2>1, <2>2, <2>3, <2>4
<1>3. ASSUME NEW c \in Clerks,
             WriteInvited(c) \/ WriteBatch(c) \/ Redeem(c) \/ WriteRemoved(c) \/ GivesUp(c)
      PROVE  members' = members /\ tokens' = tokens
  BY <1>3 DEF WriteInvited, WriteBatch, Redeem, WriteRemoved, GivesUp
<1>4. ASSUME NEW c \in Clerks, WriteMember(c)
      PROVE  /\ tokens' = tokens
             /\ \A n \in People, p \in Rooms :
                   members'[p][n] # members[p][n] => request[c].name = n
  BY <1>4 DEF WriteMember, Upsert, Typed
<1>5. ASSUME NEW c \in Clerks, WriteToken(c)
      PROVE  /\ members' = members
             /\ \A t \in tokens' : t \in tokens \/ request[c].name = t.name
  BY <1>5 DEF WriteToken
<1>6. ASSUME NEW c \in Clerks, NEW room \in Rooms, RemoveFromRoom(c, room)
      PROVE  /\ tokens' = tokens
             /\ \A n \in People, p \in Rooms :
                   members'[p][n] # NoRole => members[p][n] # NoRole
  BY <1>6 DEF RemoveFromRoom, Upsert, Typed
<1>7. ASSUME NEW c \in Clerks, RemoveTokens(c)
      PROVE  members' = members /\ tokens' \subseteq tokens
  BY <1>7 DEF RemoveTokens
<1>8. QED
  BY <1>1, <1>2, <1>3, <1>4, <1>5, <1>6, <1>7, StepKinds DEF Writes

\* An account goes only by the last step of its removal.
LEMMA OnlyRemovalsRemove ==
  ASSUME Typed, [AccountsNext]_accountVars, NEW n \in People, Exists(n), ~Exists(n)'
  PROVE  \E c \in Clerks : WriteRemoved(c) /\ request[c].name = n
<1>1. accounts[n] \in Accounts
  BY AccountTyped
<1>2. ASSUME NEW c \in Clerks, Starts(c) PROVE accounts' = accounts
  BY <1>2 DEF Starts
<1>3. CASE Direct
  <2>1. ASSUME NEW m \in People, ReissueInvite(m) PROVE FALSE
    <3>1. [accounts[n] EXCEPT !.invite = Mint(Nobody, Picker)] \in Accounts
      BY <2>1, AccountTyped, MintTyped DEF ReissueInvite, Roles
    <3>2. accounts'[n] # Nobody
      BY <2>1, <3>1 DEF ReissueInvite, Typed, Exists
    <3>3. QED
      BY <3>2 DEF Exists
  <2>2. ASSUME NEW m \in People, NEW admin \in BOOLEAN, UpdateAccount(m, admin) PROVE FALSE
    <3>1. [accounts[n] EXCEPT !.admin = admin] \in Accounts
      BY AccountTyped
    <3>2. accounts'[n] # Nobody
      BY <2>2, <3>1 DEF UpdateAccount, Typed, Exists
    <3>3. QED
      BY <3>2 DEF Exists
  <2>3. ASSUME NEW m \in People, NEW p \in Rooms \union {Nobody}, NEW role \in Roles,
               CreateAccount(m, p, role)
        PROVE  FALSE
    BY <2>3 DEF CreateAccount, Exists, Typed
  <2>4. QED
    BY <1>3, <2>1, <2>2, <2>3
    DEF Direct, UpdateMember, RemoveMember, RevokeToken, accountVars, Exists
<1>4. ASSUME NEW c \in Clerks, WriteInvited(c) \/ WriteBatch(c) PROVE FALSE
  BY <1>4 DEF WriteInvited, WriteBatch, Exists, Typed
<1>5. ASSUME NEW c \in Clerks, Redeem(c) PROVE FALSE
  <2> DEFINE kept == [accounts[n] EXCEPT !.password = TRUE, !.invite = Nobody]
  <2>1. kept \in Accounts
    BY AccountTyped
  <2>2. accounts'[n] = accounts[n] \/ accounts'[n] = kept
    <3>1. CASE request[c].name = n
      BY <1>5, <3>1 DEF Redeem, Typed
    <3>2. CASE request[c].name # n
      BY <1>5, <3>2 DEF Redeem, Typed
    <3>3. QED
      BY <3>1, <3>2
  <2>3. QED
    BY <1>1, <2>1, <2>2 DEF Exists
<1>6. ASSUME NEW c \in Clerks, WriteRemoved(c) PROVE request[c].name = n
  BY <1>6 DEF WriteRemoved, Exists, Typed
<1>7. ASSUME NEW c \in Clerks,
             \/ WriteMember(c) \/ WriteToken(c) \/ RemoveTokens(c) \/ GivesUp(c)
             \/ \E p \in Rooms : RemoveFromRoom(c, p)
      PROVE  accounts' = accounts
  BY <1>7 DEF WriteMember, WriteToken, RemoveTokens, GivesUp, RemoveFromRoom
<1>8. QED
  BY <1>2, <1>3, <1>4, <1>5, <1>6, <1>7, StepKinds DEF Writes, Exists

\* What a beginning leaves: one new request, of a name that is met if somebody
\* does the opposite with it.
LEMMA StartRequests ==
  ASSUME Typed, NEW c \in Clerks, Starts(c)
  PROVE  /\ met \subseteq met'
         /\ \A d \in Clerks \ {c} : request'[d] = request[d]
         /\ request'[c].name \notin met' =>
               \A d \in Clerks \ {c} :
                  Busy(d) /\ request[d].name = request'[c].name
                     => (Removes(d) <=> request'[c].kind = "remove")
         /\ request'[c].kind # "remove" /\ request'[c].at \in {"members", "tokens"}
               => Exists(request'[c].name)
         /\ request'[c].kind = "remove" =>
               request'[c].at = "members" /\ request'[c].todo = Rooms
<1>1. PICK req \in Asked :
         /\ req.kind \in {"invite", "batch"} => req.at = "accounts"
         /\ req.kind = "redeem" => req.at = "accounts"
         /\ req.kind \in {"add", "token"} => Exists(req.name)
         /\ req.kind = "remove" => req.at = "members" /\ req.todo = Rooms
         /\ Begins(c, req)
  BY DEF Starts
<1>2. /\ request' = [request EXCEPT ![c] = req]
      /\ met' = IF Meeting(req.kind, req.name) THEN met \union {req.name} ELSE met
  BY <1>1 DEF Begins
<1>3. request'[c] = req /\ \A d \in Clerks \ {c} : request'[d] = request[d]
  BY <1>2 DEF Typed
<1>4. req.name \notin met' => ~Meeting(req.kind, req.name)
  BY <1>2
<1>5. req.kind \in Kinds
  BY DEF Asked
<1>6. /\ req.kind # "remove" /\ req.at \in {"members", "tokens"} => Exists(req.name)
      /\ req.kind = "remove" => req.at = "members" /\ req.todo = Rooms
  BY <1>1, <1>5 DEF Kinds
<1>7. QED
  BY <1>2, <1>3, <1>4, <1>6 DEF Meeting, Removes

LEMMA NotBothStays ==
  ASSUME Typed, [AccountsNext]_accountVars, NotBoth
  PROVE  NotBoth'
<1>1. SUFFICES ASSUME NEW c \in Clerks, NEW d \in Clerks, OnOneName(c, d)',
                      request'[c].name \notin met'
               PROVE  request'[c].kind = "remove" <=> request'[d].kind = "remove"
  BY DEF NotBoth, Removes
<1>2. CASE Writes
  <2>1. met' = met /\ \A e \in Clerks : Busy(e)' =>
          /\ Busy(e) /\ request'[e].name = request[e].name
          /\ request'[e].kind = request[e].kind
    BY <1>2, WriteRequests DEF Busy, Onward
  <2>2. QED
    BY <1>1, <2>1 DEF NotBoth, OnOneName, Removes
<1>3. CASE Direct
  BY <1>1, <1>3 DEF Direct, CreateAccount, ReissueInvite, UpdateAccount, UpdateMember,
     RemoveMember, RevokeToken, accountVars, NotBoth, OnOneName, Removes, Busy
<1>4. ASSUME NEW e \in Clerks, Starts(e)
      PROVE  request'[c].kind = "remove" <=> request'[d].kind = "remove"
  <2>1. CASE c = e \/ d = e
    BY <1>1, <1>4, <2>1, StartRequests DEF OnOneName, Busy, Removes
  <2>2. CASE c # e /\ d # e
    BY <1>1, <1>4, <2>2, StartRequests DEF NotBoth, OnOneName, Busy, Removes
  <2>3. QED
    BY <2>1, <2>2
<1>5. QED
  BY <1>2, <1>3, <1>4, StepKinds

LEMMA GivesToSomebodyStays ==
  ASSUME Typed, [AccountsNext]_accountVars, NotBoth, GivesToSomebody
  PROVE  GivesToSomebody'
<1>1. SUFFICES ASSUME NEW c \in Clerks, Busy(c)', request'[c].kind # "remove",
                      request'[c].name \notin met', request'[c].at \in {"members", "tokens"}
               PROVE  accounts'[request'[c].name] # Nobody
  BY DEF GivesToSomebody, Removes, Exists
<1>2. ASSUME request'[c] = request[c], met \subseteq met'
      PROVE  accounts'[request'[c].name] # Nobody
  <2> DEFINE n == request[c].name
  <2>1. Busy(c) /\ ~Removes(c) /\ n \notin met /\ n \in People /\ Exists(n)
    BY <1>1, <1>2, BusyIsTyped DEF Busy, Removes, Asked, GivesToSomebody
  <2>2. SUFFICES ASSUME accounts'[n] = Nobody PROVE FALSE
    BY <1>2
  <2> HIDE DEF n
  <2>3. PICK d \in Clerks : WriteRemoved(d) /\ request[d].name = n
    BY <2>1, <2>2, OnlyRemovalsRemove DEF Exists
  <2>4. Busy(d) /\ Removes(d)
    BY <2>3 DEF WriteRemoved, Doing, Removes
  <2>5. QED
    BY <2>1, <2>3, <2>4 DEF NotBoth, OnOneName, n
<1>3. CASE Writes
  BY <1>1, <1>2, <1>3, WriteRequests DEF Onward, Removes, Busy
<1>4. CASE Direct
  <2>1. request' = request /\ met' = met
    BY <1>4 DEF Direct, CreateAccount, ReissueInvite, UpdateAccount, UpdateMember,
       RemoveMember, RevokeToken, accountVars
  <2>2. QED
    BY <1>2, <2>1
<1>5. ASSUME NEW d \in Clerks, Starts(d)
      PROVE  accounts'[request'[c].name] # Nobody
  <2>1. CASE c = d
    BY <1>1, <1>5, <2>1, StartRequests DEF Starts, Exists
  <2>2. CASE c # d
    BY <1>2, <1>5, <2>2, StartRequests
  <2>3. QED
    BY <2>1, <2>2
<1>6. QED
  BY <1>3, <1>4, <1>5, StepKinds

\* Of a name that one removes nobody gives: it gains no membership and no token.
LEMMA NothingIsGiven ==
  ASSUME Typed, [AccountsNext]_accountVars, NEW n \in People,
         \A c \in Clerks : Busy(c) /\ request[c].name = n =>
            \/ Removes(c)
            \/ request[c].at \notin {"members", "tokens"}
  PROVE  /\ \A p \in Rooms : members[p][n] = NoRole => members'[p][n] = NoRole
         /\ NoToken(n) => NoToken(n)'
<1>1. ASSUME NEW c \in Clerks, WriteMember(c) \/ WriteToken(c) PROVE request[c].name # n
  BY <1>1 DEF WriteMember, WriteToken, Doing, Removes
<1>2. QED
  BY <1>1, OnlyGiftsGive DEF NoToken

LEMMA ClearingStays ==
  ASSUME Typed, [AccountsNext]_accountVars, NotBoth, Clearing
  PROVE  Clearing'
<1>1. SUFFICES ASSUME NEW c \in Clerks, Busy(c)', request'[c].kind = "remove",
                      request'[c].name \notin met'
               PROVE  LET n == request'[c].name IN
                      /\ request'[c].at = "members" =>
                            \A p \in Rooms \ request'[c].todo : members'[p][n] = NoRole
                      /\ request'[c].at \in {"tokens", "accounts"} =>
                            \A p \in Rooms : members'[p][n] = NoRole
                      /\ request'[c].at = "accounts" => \A t \in tokens' : t.name # n
  BY DEF Clearing, Removes, NoMembership, NoToken
<1>2. ASSUME NEW n \in People \ met, Busy(c), Removes(c), request[c].name = n
      PROVE  /\ \A p \in Rooms : members[p][n] = NoRole => members'[p][n] = NoRole
             /\ NoToken(n) => \A t \in tokens' : t.name # n
  <2>1. \A d \in Clerks : Busy(d) /\ request[d].name = n => Removes(d)
    BY <1>2 DEF NotBoth, OnOneName
  <2>2. NoToken(n)' <=> \A t \in tokens' : t.name # n
    BY DEF NoToken
  <2>3. QED
    BY <2>1, <2>2, NothingIsGiven
<1>3. ASSUME request'[c] = request[c], met \subseteq met'
      PROVE  LET n == request'[c].name IN
             /\ request'[c].at = "members" =>
                   \A p \in Rooms \ request'[c].todo : members'[p][n] = NoRole
             /\ request'[c].at \in {"tokens", "accounts"} =>
                   \A p \in Rooms : members'[p][n] = NoRole
             /\ request'[c].at = "accounts" => \A t \in tokens' : t.name # n
  <2>1. PICK n \in People \ met : Busy(c) /\ Removes(c) /\ request[c].name = n
    BY <1>1, <1>3, BusyIsTyped DEF Busy, Removes, Asked
  <2>2. /\ request[c].at = "members" =>
              \A p \in Rooms \ request[c].todo : members[p][n] = NoRole
        /\ request[c].at \in {"tokens", "accounts"} => NoMembership(n)
        /\ request[c].at = "accounts" => NoToken(n)
    BY <2>1 DEF Clearing
  <2>3. QED
    BY <1>2, <1>3, <2>1, <2>2 DEF NoMembership
<1>4. CASE Writes
  <2>1. request'[c] = request[c] \/ Onward(c)
    BY <1>1, <1>4, WriteRequests DEF Busy
  <2>2. CASE Onward(c)
    <3>1. PICK n \in People \ met :
             /\ Busy(c) /\ Removes(c) /\ request[c].name = n /\ request'[c].name = n
      BY <1>1, <1>4, <2>2, WriteRequests, BusyIsTyped DEF Onward, Removes, Asked
    <3>2. /\ request[c].at = "members" =>
                \A p \in Rooms \ request[c].todo : members[p][n] = NoRole
          /\ request[c].at \in {"tokens", "accounts"} => NoMembership(n)
      BY <3>1 DEF Clearing
    <3>3. ASSUME NEW room \in Rooms, RemoveFromRoom(c, room), request[c].at = "members",
                 \/ request[c].todo = {room} /\ request'[c].at = "tokens"
                 \/ request'[c].at = "members" /\ request'[c].todo = request[c].todo \ {room}
          PROVE  /\ request'[c].at = "members" =>
                       \A p \in Rooms \ request'[c].todo : members'[p][n] = NoRole
                 /\ request'[c].at = "tokens" => \A p \in Rooms : members'[p][n] = NoRole
                 /\ request'[c].at # "accounts"
      <4>1. members'[room][n] = NoRole
        BY <3>1, <3>3 DEF RemoveFromRoom, Upsert, Typed
      <4>2. QED
        BY <1>2, <3>1, <3>2, <3>3, <4>1
    <3>4. ASSUME RemoveTokens(c), request'[c].at = "accounts"
          PROVE  /\ \A p \in Rooms : members'[p][n] = NoRole
                 /\ \A t \in tokens' : t.name # n
      BY <3>1, <3>2, <3>4 DEF RemoveTokens, Doing, NoMembership
    <3>5. QED
      BY <2>2, <3>1, <3>3, <3>4 DEF Onward
  <2>3. QED
    BY <1>3, <1>4, <2>1, <2>2, WriteRequests
<1>5. CASE Direct
  <2>1. request' = request /\ met' = met
    BY <1>5 DEF Direct, CreateAccount, ReissueInvite, UpdateAccount, UpdateMember,
       RemoveMember, RevokeToken, accountVars
  <2>2. QED
    BY <1>3, <2>1
<1>6. ASSUME NEW d \in Clerks, Starts(d)
      PROVE  LET n == request'[c].name IN
             /\ request'[c].at = "members" =>
                   \A p \in Rooms \ request'[c].todo : members'[p][n] = NoRole
             /\ request'[c].at \in {"tokens", "accounts"} =>
                   \A p \in Rooms : members'[p][n] = NoRole
             /\ request'[c].at = "accounts" => \A t \in tokens' : t.name # n
  <2>1. CASE c = d
    BY <1>1, <1>6, <2>1, StartRequests
  <2>2. CASE c # d
    BY <1>3, <1>6, <2>2, StartRequests
  <2>3. QED
    BY <2>1, <2>2
<1>7. QED
  BY <1>4, <1>5, <1>6, StepKinds

LEMMA NothingLeftStays ==
  ASSUME Typed, [AccountsNext]_accountVars,
         NotBoth, GivesToSomebody, Clearing, NothingLeft
  PROVE  NothingLeft'
<1>1. met \subseteq met'
  <2>1. \A c \in Clerks : Starts(c) => met \subseteq met'
    BY StartRequests
  <2>2. Direct => met' = met
    BY DEF Direct, CreateAccount, ReissueInvite, UpdateAccount, UpdateMember,
       RemoveMember, RevokeToken, accountVars
  <2>3. QED
    BY <2>1, <2>2, WriteRequests, StepKinds
<1>2. SUFFICES ASSUME NEW n \in People \ met, ~Exists(n)'
               PROVE  /\ \A p \in Rooms : members'[p][n] = NoRole
                      /\ \A t \in tokens' : t.name # n
  BY <1>1 DEF NothingLeft, NoMembership, NoToken, Exists
<1>3. CASE ~Exists(n)
  <2>1. NoMembership(n) /\ NoToken(n)
    BY <1>3 DEF NothingLeft
  <2>2. \A c \in Clerks : Busy(c) /\ request[c].name = n =>
            Removes(c) \/ request[c].at \notin {"members", "tokens"}
    BY <1>3 DEF GivesToSomebody
  <2>3. NoToken(n)' <=> \A t \in tokens' : t.name # n
    BY DEF NoToken
  <2>4. QED
    BY <2>1, <2>2, <2>3, NothingIsGiven DEF NoMembership
<1>4. CASE Exists(n)
  <2>1. PICK c \in Clerks : WriteRemoved(c) /\ request[c].name = n
    BY <1>2, <1>4, OnlyRemovalsRemove
  <2>2. Busy(c) /\ Removes(c) /\ request[c].at = "accounts"
    BY <2>1 DEF WriteRemoved, Doing, Removes
  <2>3. NoMembership(n) /\ NoToken(n)
    BY <2>1, <2>2 DEF Clearing
  <2>4. members' = members /\ tokens' = tokens
    BY <2>1 DEF WriteRemoved
  <2>5. QED
    BY <2>3, <2>4 DEF NoMembership, NoToken
<1>5. QED
  BY <1>3, <1>4

\* A name without an account has no membership and no token, also when its
\* removal stopped half way: for a name that nobody gave anything while it was
\* being removed, whatever else went on.
THEOREM RemovedAlwaysLeavesNothing == AccountsSpec => []RemovedLeavesNothing
<1> DEFINE IInv == Typed /\ NotBoth /\ GivesToSomebody /\ Clearing /\ NothingLeft
<1>1. AccountsInit => IInv
  <2> SUFFICES ASSUME AccountsInit PROVE IInv
    OBVIOUS
  <2>1. \A c \in Clerks : ~Busy(c)
    BY DEF AccountsInit, Busy
  <2>2. NothingLeft
    BY DEF AccountsInit, NothingLeft, NoMembership, NoToken
  <2>3. QED
    BY <2>1, <2>2, InitTyped DEF NotBoth, OnOneName, GivesToSomebody, Clearing
<1>2. IInv /\ [AccountsNext]_accountVars => IInv'
  BY NextTyped, NotBothStays, GivesToSomebodyStays, ClearingStays, NothingLeftStays
<1>3. IInv => RemovedLeavesNothing
  BY DEF NothingLeft, NoMembership, NoToken, RemovedLeavesNothing, MemberNames
<1>4. QED
  BY <1>1, <1>2, <1>3, PTL DEF AccountsSpec

-----------------------------------------------------------------------------
(* A link works once. A link is pending with one account, and once it was     *)
(* used, replaced or removed with its account it is pending with none.        *)

LinksApart ==
    /\ void \subseteq 1..links
    /\ \A n \in People : Pending(n) \subseteq 1..links /\ Pending(n) \cap void = {}
    /\ \A m, n \in People : m # n => Pending(m) \cap Pending(n) = {}

Others(n) == \A m \in People \ {n} : accounts'[m] = accounts[m]

NewLink(n) ==
    /\ Others(n) /\ Pending(n)' \subseteq {links + 1}
    /\ links' = links + 1 /\ void' = void \union Pending(n) /\ uses' = uses

LinkSpent(n) ==
    /\ Others(n) /\ Pending(n)' = {}
    /\ links' = links /\ void' = void \union Pending(n)
    /\ \A link \in 1..MaxLinks \ Pending(n) : uses'[link] = uses[link]

NoLinkMoves ==
    /\ \A n \in People : Pending(n)' = Pending(n)
    /\ UNCHANGED <<links, void, uses>>

LEMMA LinkSteps ==
  ASSUME Typed, [AccountsNext]_accountVars
  PROVE  NoLinkMoves \/ \E n \in People : NewLink(n) \/ LinkSpent(n)
<1>1. ASSUME NEW n \in People, NEW p \in Rooms \union {Nobody}, NEW role \in Roles,
             CreateAccount(n, p, role)
      PROVE  NewLink(n)
  BY <1>1 DEF CreateAccount, NewLink, Others, Pending, NewAccount, Mint, Exists, Typed
<1>2. ASSUME NEW n \in People, ReissueInvite(n) PROVE NewLink(n)
  <2>1. accounts[n] \in Accounts
    BY <1>2, AccountTyped DEF ReissueInvite
  <2>2. accounts'[n].invite = Mint(Nobody, Picker)
    BY <1>2, <2>1 DEF ReissueInvite, Typed, Accounts
  <2>3. Pending(n)' \subseteq {links + 1}
    BY <2>2 DEF Pending, Mint
  <2>4. QED
    BY <1>2, <2>3 DEF ReissueInvite, NewLink, Others, Typed
<1>3. ASSUME NEW n \in People, NEW admin \in BOOLEAN, UpdateAccount(n, admin)
      PROVE  NoLinkMoves
  <2> DEFINE account == [accounts[n] EXCEPT !.admin = admin]
  <2>1. /\ accounts[n] \in Accounts /\ account \in Accounts
        /\ accounts[n] # Nobody /\ account # Nobody
    BY <1>3, AccountTyped DEF UpdateAccount
  <2>2. account.invite = accounts[n].invite
    BY <2>1 DEF Accounts
  <2> HIDE DEF account
  <2>3. accounts' = [accounts EXCEPT ![n] = account]
    BY <1>3 DEF UpdateAccount, account
  <2>4. \A m \in People : Pending(m)' = Pending(m)
    BY <2>1, <2>2, <2>3 DEF Pending, Exists, Typed
  <2>5. QED
    BY <1>3, <2>4 DEF UpdateAccount, NoLinkMoves
<1>4. ASSUME NEW c \in Clerks, NEW n \in People, request[c].name = n, WriteInvited(c)
      PROVE  NoLinkMoves \/ NewLink(n)
  <2>1. CASE Exists(n)
    BY <1>4, <2>1 DEF WriteInvited, NoLinkMoves, Pending, Exists
  <2>2. CASE ~Exists(n)
    <3> DEFINE invite == Mint(request[c].room, request[c].role)
    <3>1. accounts' = [accounts EXCEPT ![n] = NewAccount(FALSE, invite)]
      BY <1>4, <2>2 DEF WriteInvited
    <3>2. accounts'[n].invite = invite /\ invite.link = links + 1
      BY <3>1 DEF NewAccount, Mint, Typed
    <3>3. Pending(n) = {} /\ Pending(n)' \subseteq {links + 1}
      BY <2>2, <3>2 DEF Pending
    <3>4. Others(n)
      BY <3>1 DEF Others, Typed
    <3>5. QED
      BY <1>4, <2>2, <3>3, <3>4 DEF WriteInvited, NewLink
  <2>3. QED
    BY <2>1, <2>2
<1>5. ASSUME NEW c \in Clerks, NEW n \in People, request[c].name = n, WriteBatch(c)
      PROVE  NoLinkMoves
  <2>1. CASE Exists(n)
    BY <1>5, <2>1 DEF WriteBatch, NoLinkMoves, Pending, Exists
  <2>2. CASE ~Exists(n)
    <3>1. accounts' = [accounts EXCEPT ![n] = NewAccount(TRUE, Nobody)]
      BY <1>5, <2>2 DEF WriteBatch
    <3>2. accounts'[n].invite = Nobody /\ \A m \in People \ {n} : accounts'[m] = accounts[m]
      BY <3>1 DEF NewAccount, Typed
    <3>3. \A m \in People : Pending(m)' = Pending(m)
      BY <2>2, <3>2 DEF Pending, Exists
    <3>4. QED
      BY <1>5, <3>3 DEF WriteBatch, NoLinkMoves
  <2>3. QED
    BY <2>1, <2>2
<1>6. ASSUME NEW c \in Clerks, NEW n \in People, request[c].name = n, Redeem(c)
      PROVE  NoLinkMoves \/ LinkSpent(n)
  <2> DEFINE link == request[c].link
  <2>1. CASE ~LinkHolds(n, link)
    BY <1>6, <2>1 DEF Redeem, NoLinkMoves, Pending, Exists
  <2>2. CASE LinkHolds(n, link)
    <3> DEFINE kept == [accounts[n] EXCEPT !.password = TRUE, !.invite = Nobody]
    <3>1. Pending(n) = {link} /\ Exists(n)
      BY <2>2 DEF LinkHolds, Pending
    <3>2. accounts[n] \in Accounts
      BY <3>1, AccountTyped
    <3>3. kept.invite = Nobody
      BY <3>2 DEF Accounts
    <3>4. accounts' = [accounts EXCEPT ![n] = kept]
      BY <1>6, <2>2 DEF Redeem, Typed
    <3> HIDE DEF kept
    <3>5. accounts'[n].invite = Nobody /\ Others(n)
      BY <3>3, <3>4 DEF Others, Typed
    <3>6. Pending(n)' = {}
      BY <3>5 DEF Pending
    <3>7. /\ uses' = [uses EXCEPT ![link] = @ + 1]
          /\ void' = void \union {link} /\ links' = links
      BY <1>6, <2>2 DEF Redeem
    <3>8. \A other \in 1..MaxLinks \ Pending(n) : uses'[other] = uses[other]
      BY <3>1, <3>7 DEF Typed
    <3>9. QED
      BY <3>1, <3>5, <3>6, <3>7, <3>8 DEF LinkSpent
  <2>3. QED
    BY <2>1, <2>2
<1>7. ASSUME NEW c \in Clerks, NEW n \in People, request[c].name = n, WriteRemoved(c)
      PROVE  NoLinkMoves \/ LinkSpent(n)
  <2>1. CASE ~MayStillRemove(n)
    BY <1>7, <2>1 DEF WriteRemoved, NoLinkMoves, Pending, Exists
  <2>2. CASE MayStillRemove(n)
    <3>1. accounts' = [accounts EXCEPT ![n] = Nobody] /\ void' = void \union Pending(n)
      BY <1>7, <2>2 DEF WriteRemoved
    <3>2. accounts'[n] = Nobody /\ Others(n)
      BY <3>1 DEF Others, Typed
    <3>3. Pending(n)' = {}
      BY <3>2 DEF Pending, Exists
    <3>4. QED
      BY <1>7, <3>1, <3>2, <3>3 DEF WriteRemoved, LinkSpent
  <2>3. QED
    BY <2>1, <2>2
<1>8. CASE UNCHANGED <<accounts, links, void, uses>>
  BY <1>8 DEF NoLinkMoves, Pending, Exists
<1>9. ASSUME NEW c \in Clerks,
             \/ Starts(c) /\ links' = links
             \/ WriteMember(c) \/ WriteToken(c) \/ RemoveTokens(c) \/ GivesUp(c)
             \/ \E p \in Rooms : RemoveFromRoom(c, p)
      PROVE  UNCHANGED <<accounts, links, void, uses>>
  BY <1>9 DEF Starts, WriteMember, WriteToken, RemoveTokens, GivesUp, RemoveFromRoom
<1>10. \/ \E p \in Rooms, n \in People :
            RemoveMember(p, n) \/ \E role \in Roles : UpdateMember(p, n, role)
       \/ \E t \in tokens : RevokeToken(t)
       \/ UNCHANGED accountVars
       => UNCHANGED <<accounts, links, void, uses>>
  BY DEF RemoveMember, UpdateMember, RevokeToken, accountVars
<1>11. \A c \in Clerks :
          WriteInvited(c) \/ WriteBatch(c) \/ Redeem(c) \/ WriteRemoved(c)
             => request[c].name \in People
  BY BusyIsTyped DEF WriteInvited, WriteBatch, Redeem, WriteRemoved, Doing, Asked
<1>12. \A c \in Clerks : Starts(c) => links' = links
  BY DEF Starts
<1>13. Writes => NoLinkMoves \/ \E n \in People : NewLink(n) \/ LinkSpent(n)
  BY <1>4, <1>5, <1>6, <1>7, <1>8, <1>9, <1>11 DEF Writes
<1>14. Direct => NoLinkMoves \/ \E n \in People : NewLink(n) \/ LinkSpent(n)
  <2>1. ASSUME NEW n \in People,
               \/ \E p \in Rooms \union {Nobody}, role \in Roles : CreateAccount(n, p, role)
               \/ ReissueInvite(n)
               \/ \E admin \in BOOLEAN : UpdateAccount(n, admin)
        PROVE  NoLinkMoves \/ NewLink(n)
    BY <1>1, <1>2, <1>3, <2>1
  <2>2. QED
    BY <1>8, <1>10, <2>1 DEF Direct
<1>15. QED
  BY <1>8, <1>9, <1>12, <1>13, <1>14, StepKinds

LEMMA LinksStayApart ==
  ASSUME Typed, [AccountsNext]_accountVars, LinksApart
  PROVE  LinksApart'
<1>1. links \in Nat /\ links' \in Nat
  BY NextTyped DEF Typed
<1>2. CASE NoLinkMoves
  BY <1>2 DEF NoLinkMoves, LinksApart
<1>3. ASSUME NEW n \in People, Others(n)
      PROVE  \A m \in People \ {n} : Pending(m)' = Pending(m)
  BY <1>3 DEF Others, Pending, Exists
<1>4. ASSUME NEW n \in People, NewLink(n) PROVE LinksApart'
  <2>1. /\ void' \subseteq 1..links
        /\ \A m \in People \ {n} : Pending(m)' = Pending(m)
    BY <1>3, <1>4 DEF NewLink, LinksApart
  <2>2. \A m \in People \ {n} : links + 1 \notin Pending(m)' /\ Pending(m)' \cap void' = {}
    BY <1>1, <1>4, <2>1 DEF NewLink, LinksApart
  <2>3. links + 1 \notin void' /\ 1..links \subseteq 1..links' /\ links + 1 \in 1..links'
    BY <1>1, <1>4, <2>1 DEF NewLink
  <2>4. \A m \in People : Pending(m)' \subseteq 1..links' /\ Pending(m)' \cap void' = {}
    BY <1>4, <2>1, <2>2, <2>3 DEF NewLink, LinksApart
  <2>5. \A m, o \in People : m # o => Pending(m)' \cap Pending(o)' = {}
    BY <1>4, <2>1, <2>2 DEF NewLink, LinksApart
  <2>6. QED
    BY <2>1, <2>3, <2>4, <2>5 DEF LinksApart
<1>5. ASSUME NEW n \in People, LinkSpent(n) PROVE LinksApart'
  <2>1. /\ links' = links /\ void' = void \union Pending(n) /\ Pending(n)' = {}
        /\ \A m \in People \ {n} : Pending(m)' = Pending(m)
    BY <1>3, <1>5 DEF LinkSpent
  <2>2. QED
    BY <2>1 DEF LinksApart
<1>6. QED
  BY <1>2, <1>4, <1>5, LinkSteps

\* An invite link sets one password: not again, not after a newer link was
\* issued, and not once its account is gone.
THEOREM LinkAlwaysWorksOnce == AccountsSpec => LinkWorksOnce
<1> DEFINE IInv == Typed /\ LinksApart
<1>1. AccountsInit => IInv
  <2> SUFFICES ASSUME AccountsInit PROVE IInv
    OBVIOUS
  <2>1. \A n \in People : Pending(n) = {}
    BY DEF AccountsInit, Pending, Exists
  <2>2. QED
    BY <2>1, InitTyped DEF AccountsInit, LinksApart
<1>2. IInv /\ [AccountsNext]_accountVars => IInv'
  BY NextTyped, LinksStayApart
<1>3. IInv /\ [AccountsNext]_accountVars => [\A link \in void : uses'[link] = uses[link]]_accountVars
  <2> SUFFICES ASSUME Typed, LinksApart, [AccountsNext]_accountVars, NEW link \in void
               PROVE  uses'[link] = uses[link]
    OBVIOUS
  <2>1. link \in 1..MaxLinks /\ \A n \in People : link \notin Pending(n)
    BY DEF Typed, LinksApart
  <2>2. QED
    BY <2>1, LinkSteps DEF NoLinkMoves, NewLink, LinkSpent
<1>4. QED
  BY <1>1, <1>2, <1>3, PTL DEF AccountsSpec, LinkWorksOnce

----------------------------------------------------------------------------
(* The projects of a site (SiteProjects): grants, directories, and the open     *)
(* runtimes the server keeps.                                                  *)
USE ProjectsAssumption

Ops == {"archive", "unarchive", "rename", "delete"}
Stages == {"evict", "write", "adopt", "check", "grants", "directory", "copy"}

Openings == [at : {"opened"}, key : Projects, of : Directories]
Builds == [at : {"built"}, key : Projects, of : Directories, archived : BOOLEAN]
Grantings == [at : {"granting"}, key : Projects]
Changing == [at : Stages, op : Ops, key : Projects, list : SUBSET Projects]

ProjectsTyped ==
    /\ directory \in [Projects -> Directories \union {Nowhere}]
    /\ marker \subseteq Projects /\ config \subseteq Projects
    /\ cache \in [Projects -> Runtimes \union {Nowhere}]
    /\ grants \subseteq Projects
    /\ visit \in [Visitors -> Openings \union Builds \union Grantings \union {None}]
    /\ change \in [Managers -> Changing \union {None}]
    /\ changes \in 0..MaxChanges
    /\ restarts \in 0..MaxRestarts
    /\ raced \subseteq Visitors /\ crossed \subseteq Projects /\ promised \subseteq Projects

\* What a change is at, and what a visitor is doing.
LEMMA ChangeAt ==
    ASSUME ProjectsTyped, NEW m \in Managers, change[m].at \in Stages
    PROVE  change[m] \in Changing
BY DEF ProjectsTyped, None, Stages

LEMMA VisitAt ==
    ASSUME ProjectsTyped, NEW v \in Visitors
    PROVE  /\ visit[v].at = "opened" => visit[v] \in Openings
           /\ visit[v].at = "built" => visit[v] \in Builds
           /\ visit[v].at = "granting" => visit[v] \in Grantings
           /\ visit[v].at \in {"opened", "built", "granting"} => visit[v].key \in Projects
           /\ visit[v].at \in {"opened", "built"} => visit[v].of \in Directories
BY DEF ProjectsTyped, None, Openings, Builds, Grantings

LEMMA VisitorsTyped ==
    ASSUME ProjectsTyped, NEW v \in Visitors,
           \/ \E k \in Projects : Open(v, k) \/ LookForGrant(v, k)
           \/ Build(v) \/ Keep(v) \/ Grant(v)
    PROVE  ProjectsTyped'
<1>1. ASSUME NEW k \in Projects, Open(v, k) PROVE ProjectsTyped'
  <2>1. [at |-> "opened", key |-> k, of |-> directory[k]] \in Openings
    BY <1>1 DEF Open, There, ProjectsTyped, Openings
  <2> QED BY <1>1, <2>1 DEF Open, ProjectsTyped
<1>2. ASSUME NEW k \in Projects, LookForGrant(v, k) PROVE ProjectsTyped'
  <2>1. [at |-> "granting", key |-> k] \in Grantings BY DEF Grantings
  <2>2. crossed' \subseteq Projects BY <1>2 DEF LookForGrant, ProjectsTyped
  <2> QED BY <1>2, <2>1, <2>2 DEF LookForGrant, ProjectsTyped
<1>3. CASE Build(v)
  <2> DEFINE b == [at |-> "built", key |-> visit[v].key, of |-> visit[v].of,
                   archived |-> IsArchived(visit[v].key)]
  <2>1. visit[v] \in Openings BY <1>3, VisitAt DEF Build
  <2>2. b \in Builds BY <2>1 DEF Openings, Builds, IsArchived
  <2>3. visit' = [visit EXCEPT ![v] = b] BY <1>3 DEF Build, ProjectsTyped
  <2> QED BY <1>3, <2>2, <2>3 DEF Build, ProjectsTyped
<1>4. CASE Keep(v)
  <2>1. visit[v] \in Builds BY <1>4, VisitAt DEF Keep
  <2>2. [of |-> visit[v].of, archived |-> visit[v].archived, overtaken |-> v \in raced] \in Runtimes
    BY <2>1 DEF Builds, Runtimes
  <2>3. cache' \in [Projects -> Runtimes \union {Nowhere}]
    BY <1>4, <2>1, <2>2 DEF Keep, ProjectsTyped, Builds
  <2> QED BY <1>4, <2>3 DEF Keep, ProjectsTyped
<1>5. CASE Grant(v)
  <2>1. visit[v] \in Grantings BY <1>5, VisitAt DEF Grant
  <2> QED BY <1>5, <2>1 DEF Grant, Grantings, ProjectsTyped
<1> QED BY <1>1, <1>2, <1>3, <1>4, <1>5

LEMMA BeginTyped ==
    ASSUME ProjectsTyped, NEW m \in Managers, NEW op \in Ops, NEW k \in Projects, NEW at \in Stages,
           Begin(m, op, k, at)
    PROVE  /\ change' \in [Managers -> Changing \union {None}] /\ promised' \subseteq Projects
           /\ changes' = changes + 1 /\ changes' \in 0..MaxChanges
           /\ change[m] = None /\ change'[m].at = at /\ change'[m].key = k /\ change'[m].op = op
           /\ change'[m].list = Copied(op, k) /\ change'[m] \in Changing
           /\ \A o \in Managers \ {m} : change'[o] = change[o]
<1>1. Copied(op, k) \in SUBSET Projects BY DEF Copied, ProjectsTyped
<1>2. [at |-> at, op |-> op, key |-> k, list |-> Copied(op, k)] \in Changing BY <1>1 DEF Changing
<1> QED BY <1>1, <1>2 DEF Begin, ProjectsTyped

\* A change goes on to another stage, or ends.
LEMMA GoesTyped ==
    ASSUME ProjectsTyped, NEW m \in Managers, change[m].at \in Stages
    PROVE  /\ \A at \in Stages : ChangeGoes(m, at) =>
                /\ change' \in [Managers -> Changing \union {None}]
                /\ change'[m] = [change[m] EXCEPT !.at = at]
                /\ \A o \in Managers \ {m} : change'[o] = change[o]
           /\ ChangeEnds(m) =>
                /\ change' \in [Managers -> Changing \union {None}] /\ change'[m] = None
                /\ \A o \in Managers \ {m} : change'[o] = change[o]
<1>1. change[m] \in Changing BY ChangeAt
<1>2. \A at \in Stages : [change[m] EXCEPT !.at = at] \in Changing BY <1>1 DEF Changing
<1> QED BY <1>2 DEF ChangeGoes, ChangeEnds, ProjectsTyped

LEMMA AfterIsTyped == After("grants") = "directory" /\ After("directory") = "copy" /\ DeletionOrder[1] = "grants"
BY DEF After, DeletionOrder

\* What is marked as overtaken is still what is kept.
LEMMA OvertakenTyped ==
    ASSUME ProjectsTyped, NEW keys
    PROVE  /\ Overtaken(keys) \in [Projects -> Runtimes \union {Nowhere}]
           /\ \A k \in Projects :
                 /\ k \notin keys => Overtaken(keys)[k] = cache[k]
                 /\ k \in keys => Overtaken(keys)[k] = Nowhere \/ Overtaken(keys)[k].overtaken
<1>1. ASSUME NEW k \in Projects, cache[k] # Nowhere
      PROVE  /\ [cache[k] EXCEPT !.overtaken = TRUE] \in Runtimes
             /\ [cache[k] EXCEPT !.overtaken = TRUE].overtaken = TRUE
  <2>1. cache[k] \in Runtimes BY <1>1 DEF ProjectsTyped
  <2> QED BY <2>1 DEF Runtimes
<1> QED BY <1>1 DEF Overtaken, ProjectsTyped

\* A new name in a project's ridal.toml.
LEMMA RetitleTyped ==
    ASSUME ProjectsTyped, NEW k \in Projects, Retitle(k), changes' \in 0..MaxChanges
    PROVE  /\ directory' \in [Projects -> Directories \union {Nowhere}]
           /\ raced' \subseteq Visitors /\ directory[k] # Nowhere /\ directory'[k] # Nowhere
           /\ \A j \in Projects \ {k} : directory'[j] = directory[j]
<1>1. directory[k] \in Directories BY DEF Retitle, There, ProjectsTyped
<1>2. [directory[k] EXCEPT !.title = changes'] \in Directories BY <1>1 DEF Directories
<1>3. Nowhere \notin Directories BY ProjectsAssumption
<1> QED BY <1>1, <1>2, <1>3 DEF Retitle, Opening, ProjectsTyped

LEMMA ManagersTyped ==
    ASSUME ProjectsTyped, NEW m \in Managers,
           \/ \E k \in Projects :
                 Archive(m, k) \/ Unarchive(m, k) \/ Rename(m, k) \/ Create(m, k)
                 \/ RenameUnconfirmed(m, k) \/ BeginDelete(m, k)
           \/ WriteList(m) \/ Adopt(m) \/ EvictChanged(m)
           \/ CheckArchived(m) \/ RemoveGrants(m) \/ RemoveDirectory(m) \/ CopyList(m)
           \/ ChangeFails(m)
    PROVE  ProjectsTyped'
<1>1. ASSUME NEW k \in Projects, Archive(m, k) \/ Unarchive(m, k) PROVE ProjectsTyped'
  <2>1. PICK op \in Ops, at \in Stages : Begin(m, op, k, at)
    BY <1>1 DEF Archive, Unarchive, Ops, Stages
  <2>2. change' \in [Managers -> Changing \union {None}] /\ promised' \subseteq Projects
        /\ changes' \in 0..MaxChanges
    BY <2>1, BeginTyped
  <2> QED BY <1>1, <2>2 DEF Archive, Unarchive, ProjectsTyped
<1>2. ASSUME NEW k \in Projects, Rename(m, k) PROVE ProjectsTyped'
  <2>1. Begin(m, "rename", k, "evict") /\ "rename" \in Ops /\ "evict" \in Stages
    BY <1>2 DEF Rename, Ops, Stages
  <2>2. change' \in [Managers -> Changing \union {None}] /\ promised' \subseteq Projects
        /\ changes' \in 0..MaxChanges
    BY <2>1, BeginTyped
  <2>3. Retitle(k) /\ UNCHANGED cache BY <1>2 DEF Rename
  <2>4. directory' \in [Projects -> Directories \union {Nowhere}] /\ raced' \subseteq Visitors
    BY <2>2, <2>3, RetitleTyped
  <2> QED BY <2>2, <2>3, <2>4 DEF Retitle, ProjectsTyped
<1>15. ASSUME NEW k \in Projects, RenameUnconfirmed(m, k) PROVE ProjectsTyped'
  <2>1. /\ changes' \in 0..MaxChanges /\ Retitle(k) /\ cache' = Overtaken({k})
        /\ UNCHANGED <<change, promised>>
    BY <1>15 DEF RenameUnconfirmed, ProjectsTyped
  <2>2. /\ directory' \in [Projects -> Directories \union {Nowhere}] /\ raced' \subseteq Visitors
        /\ cache' \in [Projects -> Runtimes \union {Nowhere}]
    BY <2>1, RetitleTyped, OvertakenTyped
  <2> QED BY <2>1, <2>2 DEF Retitle, ProjectsTyped
<1>3. ASSUME NEW k \in Projects, Create(m, k) PROVE ProjectsTyped'
  <2>1. changes' \in 0..MaxChanges BY <1>3 DEF Create, ProjectsTyped
  <2>2. [born |-> changes', title |-> changes'] \in Directories BY <2>1 DEF Directories
  <2> QED BY <1>3, <2>1, <2>2 DEF Create, ProjectsTyped
<1>4. ASSUME NEW k \in Projects, BeginDelete(m, k) PROVE ProjectsTyped'
  <2>1. Begin(m, "delete", k, "check") /\ "delete" \in Ops /\ "check" \in Stages
    BY <1>4 DEF BeginDelete, Ops, Stages
  <2>2. change' \in [Managers -> Changing \union {None}] /\ promised' \subseteq Projects
        /\ changes' \in 0..MaxChanges
    BY <2>1, BeginTyped
  <2>3. cache' \in [Projects -> Runtimes \union {Nowhere}] BY <1>4 DEF BeginDelete, Evicted, ProjectsTyped
  <2> QED BY <1>4, <2>2, <2>3 DEF BeginDelete, ProjectsTyped
<1>5. ASSUME change' \in [Managers -> Changing \union {None}],
             UNCHANGED <<directory, visit, changes, restarts>>,
             marker' \in {marker, change[m].list}, config' \in {config, change[m].list},
             change[m].list \in SUBSET Projects, change[m].key \in Projects,
             cache' \in {cache, Evicted(change[m].key)}, grants' \subseteq grants,
             UNCHANGED raced,
             crossed' \subseteq crossed \union {change[m].key},
             promised' \subseteq promised \union {change[m].key}
      PROVE  ProjectsTyped'
  <2>1. cache' \in [Projects -> Runtimes \union {Nowhere}] BY <1>5 DEF Evicted, ProjectsTyped
  <2> QED BY <1>5, <2>1 DEF ProjectsTyped
<1>6. ASSUME change[m].at \in Stages
      PROVE  change[m].list \in SUBSET Projects /\ change[m].key \in Projects
  BY <1>6, ChangeAt DEF Changing
<1>7. CASE WriteList(m)
  <2>1. change[m].at \in Stages /\ "adopt" \in Stages BY <1>7 DEF WriteList, Stages
  <2>2. change' \in [Managers -> Changing \union {None}] BY <1>7, <2>1, GoesTyped DEF WriteList
  <2> QED BY <1>5, <1>6, <1>7, <2>1, <2>2 DEF WriteList
<1>8. CASE Adopt(m)
  <2>1. change[m].at \in Stages /\ "evict" \in Stages BY <1>8 DEF Adopt, Stages
  <2>2. change' \in [Managers -> Changing \union {None}] BY <1>8, <2>1, GoesTyped DEF Adopt
  <2>3. cache' \in [Projects -> Runtimes \union {Nowhere}]
    BY <1>8, OvertakenTyped DEF Adopt
  <2>4. raced' \subseteq Visitors BY <1>8 DEF Adopt, Opening, ProjectsTyped
  <2> QED BY <1>6, <1>8, <2>1, <2>2, <2>3, <2>4 DEF Adopt, ProjectsTyped
<1>9. CASE EvictChanged(m)
  <2>1. change[m].at \in Stages BY <1>9 DEF EvictChanged, Stages
  <2>2. change' \in [Managers -> Changing \union {None}] BY <1>9, <2>1, GoesTyped DEF EvictChanged
  <2> QED BY <1>5, <1>6, <1>9, <2>1, <2>2 DEF EvictChanged, LetGo
<1>10. CASE CheckArchived(m)
  <2>1. change[m].at \in Stages /\ "grants" \in Stages BY <1>10 DEF CheckArchived, At, Stages
  <2>2. change' \in [Managers -> Changing \union {None}]
    BY <1>10, <2>1, GoesTyped, AfterIsTyped DEF CheckArchived
  <2> QED BY <1>5, <1>6, <1>10, <2>1, <2>2 DEF CheckArchived
<1>11. CASE RemoveGrants(m)
  <2>1. change[m].at \in Stages /\ "directory" \in Stages BY <1>11 DEF RemoveGrants, At, Stages
  <2>2. change' \in [Managers -> Changing \union {None}]
    BY <1>11, <2>1, GoesTyped, AfterIsTyped DEF RemoveGrants
  <2> QED BY <1>5, <1>6, <1>11, <2>1, <2>2 DEF RemoveGrants
<1>12. CASE RemoveDirectory(m)
  <2>1. change[m].at \in Stages /\ "copy" \in Stages BY <1>12 DEF RemoveDirectory, At, Stages
  <2>2. change' \in [Managers -> Changing \union {None}]
    BY <1>12, <2>1, GoesTyped, AfterIsTyped DEF RemoveDirectory
  <2>3. raced' \subseteq Visitors /\ directory' \in [Projects -> Directories \union {Nowhere}]
    BY <1>12, <1>6, <2>1 DEF RemoveDirectory, Opening, ProjectsTyped
  <2>4. cache' \in [Projects -> Runtimes \union {Nowhere}]
    BY <1>12, OvertakenTyped DEF RemoveDirectory
  <2> QED BY <1>12, <2>2, <2>3, <2>4 DEF RemoveDirectory, ProjectsTyped
<1>13. CASE CopyList(m)
  <2>1. change[m] \in Changing BY <1>13, ChangeAt DEF CopyList, At, Stages
  <2>2. [[change[m] EXCEPT !.list = config \ {change[m].key}] EXCEPT !.at = "write"] \in Changing
    BY <2>1 DEF Changing, Stages, ProjectsTyped
  <2>3. change' = [change EXCEPT ![m] =
                     [[change[m] EXCEPT !.list = config \ {change[m].key}] EXCEPT !.at = "write"]]
    BY <1>13 DEF CopyList, ProjectsTyped
  <2> QED BY <1>13, <2>2, <2>3 DEF CopyList, ProjectsTyped
<1>14. CASE ChangeFails(m)
  <2>1. change[m].at \in Stages BY <1>14 DEF ChangeFails, Stages
  <2>2. change' \in [Managers -> Changing \union {None}] BY <1>14, <2>1, GoesTyped DEF ChangeFails
  <2>3. marker' \in {marker, change[m].list} /\ grants' \subseteq grants BY <1>14 DEF ChangeFails
  <2> QED BY <1>6, <1>14, <2>1, <2>2, <2>3 DEF ChangeFails, ProjectsTyped
<1> QED BY <1>1, <1>2, <1>15, <1>3, <1>4, <1>7, <1>8, <1>9, <1>10, <1>11, <1>12, <1>13, <1>14

LEMMA ProjectsStepsTyped == ASSUME ProjectsTyped, [ProjectsNext]_projectVars PROVE ProjectsTyped'
<1>1. CASE Restart BY <1>1 DEF Restart, ProjectsTyped
<1>2. CASE UNCHANGED projectVars BY <1>2 DEF projectVars, ProjectsTyped
<1> QED BY <1>1, <1>2, VisitorsTyped, ManagersTyped DEF ProjectsNext

LEMMA ProjectsInitTyped == ProjectsInit => ProjectsTyped
BY DEF ProjectsInit, ProjectsTyped, Directories

\* What a site keeps of its projects, what is asked of them and what changes
\* them keeps its type.
THEOREM ProjectsTypedAlways == ProjectsSpec => []ProjectsTypeOK
<1>1. ProjectsTyped => ProjectsTypeOK
  <2> SUFFICES ASSUME ProjectsTyped PROVE ProjectsTypeOK OBVIOUS
  <2>1. \A v \in Visitors : visit[v].key \in Projects \union {Nowhere}
    BY DEF ProjectsTyped, None, Openings, Builds, Grantings
  <2>2. \A m \in Managers : change[m].key \in Projects \union {Nowhere}
    BY DEF ProjectsTyped, None, Changing
  <2> QED BY <2>1, <2>2 DEF ProjectsTyped, ProjectsTypeOK
<1>2. ProjectsTyped /\ [ProjectsNext]_projectVars => ProjectsTyped' BY ProjectsStepsTyped
<1> QED BY <1>1, <1>2, ProjectsInitTyped, PTL DEF ProjectsSpec

----------------------------------------------------------------------------
(* Grants of what is deleted *)

\* A key that a visitor has looked at is there, and no deletion of it is past
\* its look at the archived flag.
Granted ==
    \A v \in Visitors, k \in Projects \ crossed :
       visit[v].at = "granting" /\ visit[v].key = k =>
          There(k) /\ \A m \in Managers : Deletes(m, k) => change[m].at = "check"

\* When its directory is about to go, no token has a grant for the key.
Cleared ==
    \A m \in Managers, k \in Projects \ crossed :
       Deletes(m, k) /\ change[m].at = "directory" => k \notin grants

GrantsInv == ProjectsTyped /\ Granted /\ Cleared /\ DeletedLeavesNoGrant

\* Steps that look at no key and take no deletion further.
LEMMA GrantsFrame ==
    ASSUME GrantsInv, crossed \subseteq crossed', grants' \subseteq grants,
           \A v \in Visitors : visit'[v].at = "granting" => visit'[v] = visit[v],
           \A k \in Projects : directory[k] # Nowhere => directory'[k] # Nowhere,
           \A m \in Managers : change'[m].op = "delete" =>
              \/ change'[m].at = "check" \/ change'[m] = None
              \/ /\ change[m].op = "delete" /\ change[m].key = change'[m].key
                 /\ change[m].at # "check"
                 /\ change'[m].at = "directory" => change[m].at = "directory"
    PROVE  Granted' /\ Cleared' /\ DeletedLeavesNoGrant'
<1>1. \A k \in Projects : k # Nowhere BY ProjectsAssumption
<1>2. None.key = Nowhere BY DEF None
<1>3. ASSUME NEW m \in Managers, NEW k \in Projects \ crossed',
             change'[m].key = k, change'[m].op = "delete"
      PROVE  \/ change'[m].at = "check"
             \/ /\ change[m].key = k /\ change[m].op = "delete" /\ change[m].at # "check"
                /\ change'[m].at = "directory" => change[m].at = "directory"
  BY <1>1, <1>2, <1>3
<1>4. Granted'
  <2> SUFFICES ASSUME NEW v \in Visitors, NEW k \in Projects \ crossed',
                      visit'[v].at = "granting", visit'[v].key = k
               PROVE  /\ directory'[k] # Nowhere
                      /\ \A m \in Managers : change'[m].key = k /\ change'[m].op = "delete"
                                           => change'[m].at = "check"
    BY DEF Granted, Deletes, There
  <2>1. visit[v].at = "granting" /\ visit[v].key = k /\ k \in Projects \ crossed OBVIOUS
  <2>2. directory[k] # Nowhere /\ \A m \in Managers : change[m].key = k /\ change[m].op = "delete"
                                           => change[m].at = "check"
    BY <2>1 DEF GrantsInv, Granted, Deletes, There
  <2> QED BY <1>3, <2>2
<1>5. Cleared'
  <2> SUFFICES ASSUME NEW m \in Managers, NEW k \in Projects \ crossed',
                      change'[m].key = k, change'[m].op = "delete", change'[m].at = "directory"
               PROVE  k \notin grants'
    BY DEF Cleared, Deletes
  <2>1. change[m].key = k /\ change[m].op = "delete" /\ change[m].at = "directory" BY <1>3
  <2> QED BY <2>1 DEF GrantsInv, Cleared, Deletes
<1> QED BY <1>4, <1>5 DEF GrantsInv, DeletedLeavesNoGrant, There

LEMMA VisitorsKeepGrants ==
    ASSUME GrantsInv, NEW v \in Visitors,
           \/ \E k \in Projects : Open(v, k) \/ LookForGrant(v, k)
           \/ Build(v) \/ Keep(v) \/ Grant(v)
    PROVE  Granted' /\ Cleared' /\ DeletedLeavesNoGrant'
<1>1. ASSUME UNCHANGED <<directory, grants, change, crossed>>,
             \A w \in Visitors : visit'[w].at = "granting" => visit'[w] = visit[w]
      PROVE  Granted' /\ Cleared' /\ DeletedLeavesNoGrant'
  BY <1>1 DEF GrantsInv, Granted, Cleared, DeletedLeavesNoGrant, Deletes, There
<1>2. CASE (\E k \in Projects : Open(v, k)) \/ Build(v) \/ Keep(v)
  <2>1. UNCHANGED <<directory, grants, change, crossed>> BY <1>2 DEF Open, Build, Keep
  <2>2. \A w \in Visitors : visit'[w].at = "granting" => visit'[w] = visit[w]
    BY <1>2 DEF Open, Build, Keep, None, GrantsInv, ProjectsTyped
  <2> QED BY <1>1, <2>1, <2>2
<1>3. ASSUME NEW k \in Projects, LookForGrant(v, k)
      PROVE  Granted' /\ Cleared' /\ DeletedLeavesNoGrant'
  <2>1. UNCHANGED <<directory, grants, change>> /\ crossed \subseteq crossed' /\ directory[k] # Nowhere
    BY <1>3 DEF LookForGrant, There
  <2>2. k \notin crossed' => \A m \in Managers : ~Deletes(m, k) BY <1>3 DEF LookForGrant
  <2>3. \A w \in Visitors : visit'[w] = visit[w] \/ (w = v /\ visit'[w].key = k)
    BY <1>3 DEF LookForGrant, GrantsInv, ProjectsTyped
  <2>4. Granted'
    <3> SUFFICES ASSUME NEW w \in Visitors, NEW j \in Projects \ crossed',
                        visit'[w].at = "granting", visit'[w].key = j
                 PROVE  directory[j] # Nowhere /\ \A m \in Managers : Deletes(m, j) => change[m].at = "check"
      BY <2>1 DEF Granted, Deletes, There
    <3>1. CASE w = v /\ j = k BY <2>1, <2>2, <3>1
    <3>2. CASE visit'[w] = visit[w] BY <2>1, <3>2 DEF GrantsInv, Granted, There
    <3> QED BY <2>3, <3>1, <3>2
  <2> QED BY <2>1, <2>4 DEF GrantsInv, Cleared, DeletedLeavesNoGrant, Deletes, There
<1>4. CASE Grant(v)
  <2>1. /\ UNCHANGED <<directory, change, crossed>> /\ visit[v].at = "granting"
        /\ grants' = grants \union {visit[v].key}
    BY <1>4 DEF Grant
  <2>2. visit[v].key \in Projects BY <2>1, VisitAt DEF GrantsInv
  <2>3. \A w \in Visitors : visit'[w].at = "granting" => visit'[w] = visit[w]
    BY <1>4 DEF Grant, None, GrantsInv, ProjectsTyped
  <2>4. visit[v].key \notin crossed =>
          /\ There(visit[v].key)
          /\ \A m \in Managers : Deletes(m, visit[v].key) => change[m].at = "check"
    BY <2>1, <2>2 DEF GrantsInv, Granted
  <2>5. Granted' BY <2>1, <2>3 DEF GrantsInv, Granted, Deletes, There
  <2>6. Cleared' BY <2>1, <2>4 DEF GrantsInv, Cleared, Deletes
  <2>7. DeletedLeavesNoGrant' BY <2>1, <2>4 DEF GrantsInv, DeletedLeavesNoGrant, There
  <2> QED BY <2>5, <2>6, <2>7
<1> QED BY <1>2, <1>3, <1>4

LEMMA ManagersKeepGrants ==
    ASSUME GrantsInv, NEW m \in Managers,
           \/ \E k \in Projects :
                 Archive(m, k) \/ Unarchive(m, k) \/ Rename(m, k) \/ Create(m, k)
                 \/ RenameUnconfirmed(m, k) \/ BeginDelete(m, k)
           \/ WriteList(m) \/ Adopt(m) \/ EvictChanged(m)
           \/ CheckArchived(m) \/ RemoveGrants(m) \/ RemoveDirectory(m) \/ CopyList(m)
           \/ ChangeFails(m)
    PROVE  Granted' /\ Cleared' /\ DeletedLeavesNoGrant'
<1> DEFINE Further(o) ==
              \/ change'[o].at = "check" \/ change'[o] = None
              \/ /\ change[o].op = "delete" /\ change[o].key = change'[o].key
                 /\ change[o].at # "check"
                 /\ change'[o].at = "directory" => change[o].at = "directory"
<1>1. ASSUME grants' \subseteq grants, UNCHANGED <<visit, crossed>>,
             \A k \in Projects : directory[k] # Nowhere => directory'[k] # Nowhere,
             \A o \in Managers \ {m} : change'[o] = change[o],
             change'[m].op = "delete" => Further(m)
      PROVE  Granted' /\ Cleared' /\ DeletedLeavesNoGrant'
  <2>1. \A o \in Managers \ {m} : change'[o].op = "delete" => Further(o) BY <1>1
  <2> QED BY <1>1, <2>1, GrantsFrame
<1> HIDE DEF Further
<1>2. ASSUME NEW k \in Projects,
             Archive(m, k) \/ Unarchive(m, k) \/ Rename(m, k) \/ BeginDelete(m, k)
      PROVE  Granted' /\ Cleared' /\ DeletedLeavesNoGrant'
  <2>1. PICK op \in Ops, at \in Stages : Begin(m, op, k, at) /\ (op = "delete" => at = "check")
    BY <1>2 DEF Archive, Unarchive, Rename, BeginDelete, Ops, Stages
  <2>2. /\ change'[m].at = at /\ change'[m].op = op
        /\ \A o \in Managers \ {m} : change'[o] = change[o]
    BY <2>1, BeginTyped DEF GrantsInv
  <2>3. UNCHANGED <<grants, visit, crossed>>
    BY <1>2 DEF Archive, Unarchive, Rename, Retitle, BeginDelete
  <2>4. \A j \in Projects : directory[j] # Nowhere => directory'[j] # Nowhere
    <3>1. CASE Rename(m, k)
      <4>1. Retitle(k) /\ changes' \in 0..MaxChanges
        BY <3>1, ManagersTyped DEF Rename, GrantsInv, ProjectsTyped
      <4> QED BY <4>1, RetitleTyped DEF GrantsInv
    <3>2. CASE UNCHANGED directory BY <3>2
    <3> QED BY <1>2, <3>1, <3>2 DEF Archive, Unarchive, BeginDelete
  <2> QED BY <1>1, <2>1, <2>2, <2>3, <2>4 DEF Further
<1>8. ASSUME NEW k \in Projects, RenameUnconfirmed(m, k)
      PROVE  Granted' /\ Cleared' /\ DeletedLeavesNoGrant'
  <2>1. Retitle(k) /\ UNCHANGED <<grants, visit, crossed, change>> /\ changes' \in 0..MaxChanges
    BY <1>8, ManagersTyped DEF RenameUnconfirmed, Retitle, GrantsInv, ProjectsTyped
  <2>2. \A j \in Projects : directory[j] # Nowhere => directory'[j] # Nowhere
    BY <2>1, RetitleTyped DEF GrantsInv
  <2> QED BY <2>1, <2>2, GrantsFrame
<1>3. ASSUME NEW k \in Projects, Create(m, k)
      PROVE  Granted' /\ Cleared' /\ DeletedLeavesNoGrant'
  <2>1. /\ UNCHANGED <<grants, visit, crossed, change>>
        /\ directory' = [directory EXCEPT ![k] = [born |-> changes', title |-> changes']]
    BY <1>3 DEF Create
  <2>2. changes' \in 0..MaxChanges BY <1>3, ManagersTyped DEF GrantsInv, ProjectsTyped
  <2>3. [born |-> changes', title |-> changes'] \in Directories BY <2>2 DEF Directories
  <2>4. \A j \in Projects : directory[j] # Nowhere => directory'[j] # Nowhere
    BY <2>1, <2>3 DEF GrantsInv, ProjectsTyped
  <2> QED BY <2>1, <2>4, GrantsFrame
<1>4. CASE WriteList(m) \/ Adopt(m) \/ EvictChanged(m) \/ CopyList(m) \/ ChangeFails(m)
  <2>1. grants' \subseteq grants /\ UNCHANGED <<directory, visit, crossed>>
    BY <1>4 DEF WriteList, Adopt, EvictChanged, CopyList, ChangeFails
  <2>2. change[m].at \in Stages
    BY <1>4 DEF WriteList, Adopt, EvictChanged, CopyList, ChangeFails, At, Stages
  <2>3. change[m] \in Changing BY <2>2, ChangeAt DEF GrantsInv
  <2>4. \/ change'[m] = None
        \/ /\ change[m].at \in {"write", "adopt", "copy"}
           /\ change'[m].at \in {"adopt", "evict", "write"}
           /\ change'[m].key = change[m].key /\ change'[m].op = change[m].op
    <3>1. CASE WriteList(m)
        BY <3>1, <2>3 DEF WriteList, ChangeGoes, GrantsInv, ProjectsTyped, Changing
    <3>2. CASE Adopt(m)
        BY <3>2, <2>3 DEF Adopt, ChangeGoes, ChangeEnds, GrantsInv, ProjectsTyped, Changing
    <3>3. CASE EvictChanged(m) \/ ChangeFails(m)
        BY <3>3 DEF EvictChanged, ChangeFails, ChangeEnds, GrantsInv, ProjectsTyped
    <3>4. CASE CopyList(m)
        BY <3>4, <2>3 DEF CopyList, At, GrantsInv, ProjectsTyped, Changing
    <3> QED BY <1>4, <3>1, <3>2, <3>3, <3>4
  <2>5. \A o \in Managers \ {m} : change'[o] = change[o]
    BY <1>4 DEF WriteList, Adopt, EvictChanged, CopyList, ChangeFails, ChangeGoes, ChangeEnds,
                GrantsInv, ProjectsTyped
  <2>6. change'[m].op = "delete" => Further(m) BY <2>4 DEF Further
  <2> QED BY <1>1, <2>1, <2>5, <2>6
<1>5. CASE CheckArchived(m)
  <2> DEFINE k == change[m].key
  <2>1. /\ UNCHANGED <<directory, grants, visit>> /\ crossed \subseteq crossed'
        /\ change[m].at = "check" /\ change[m].op = "delete"
    BY <1>5 DEF CheckArchived, At
  <2>2. change[m] \in Changing BY <2>1, ChangeAt DEF GrantsInv, Stages
  <2>3. \A v \in Visitors : k \notin crossed' => ~(visit[v].at = "granting" /\ visit[v].key = k)
    BY <1>5 DEF CheckArchived
  <2>4. \/ change'[m] = None
        \/ change'[m].at = "grants" /\ change'[m].key = k /\ change'[m].op = "delete"
    BY <1>5, <2>1, <2>2 DEF CheckArchived, DeletionOrder, ChangeGoes, ChangeEnds, GrantsInv,
                            ProjectsTyped, Changing
  <2>5. \A o \in Managers \ {m} : change'[o] = change[o]
    BY <1>5 DEF CheckArchived, ChangeGoes, ChangeEnds, GrantsInv, ProjectsTyped
  <2>6. Granted'
    <3> SUFFICES ASSUME NEW v \in Visitors, NEW j \in Projects \ crossed',
                        visit[v].at = "granting", visit[v].key = j
                 PROVE  directory[j] # Nowhere /\ \A o \in Managers :
                          change'[o].key = j /\ change'[o].op = "delete" => change'[o].at = "check"
      BY <2>1 DEF Granted, Deletes, There
    <3>1. j # k BY <2>3
    <3>2. j # Nowhere /\ None.key = Nowhere BY ProjectsAssumption DEF None
    <3>3. \A o \in Managers : Deletes(o, j) => change[o].at = "check"
      BY <2>1 DEF GrantsInv, Granted
    <3>4. directory[j] # Nowhere BY <2>1 DEF GrantsInv, Granted, There
    <3> QED BY <2>4, <2>5, <3>1, <3>2, <3>3, <3>4 DEF Deletes
  <2>7. Cleared'
    <3> SUFFICES ASSUME NEW o \in Managers, NEW j \in Projects \ crossed',
                        change'[o].key = j, change'[o].op = "delete", change'[o].at = "directory"
                 PROVE  j \notin grants
      BY <2>1 DEF Cleared, Deletes
    <3>1. None.at # "directory" BY DEF None
    <3>2. o # m BY <2>4, <3>1
    <3> QED BY <2>1, <2>5, <3>2 DEF GrantsInv, Cleared, Deletes
  <2> QED BY <2>1, <2>6, <2>7 DEF GrantsInv, DeletedLeavesNoGrant, There
<1>6. CASE RemoveGrants(m)
  <2> DEFINE k == change[m].key
  <2>1. /\ UNCHANGED <<directory, visit, crossed>> /\ grants' = grants \ {k}
        /\ change[m].at = "grants" /\ change[m].op = "delete"
    BY <1>6 DEF RemoveGrants, At
  <2>2. change[m] \in Changing BY <2>1, ChangeAt DEF GrantsInv, Stages
  <2>3. change'[m].at = "directory" /\ change'[m].key = k /\ change'[m].op = "delete"
    BY <1>6, <2>1, <2>2, AfterIsTyped DEF RemoveGrants, ChangeGoes, GrantsInv, ProjectsTyped, Changing
  <2>4. \A o \in Managers \ {m} : change'[o] = change[o]
    BY <1>6 DEF RemoveGrants, ChangeGoes, GrantsInv, ProjectsTyped
  <2>5. Granted'
    <3> SUFFICES ASSUME NEW v \in Visitors, NEW j \in Projects \ crossed,
                        visit[v].at = "granting", visit[v].key = j
                 PROVE  directory[j] # Nowhere /\ \A o \in Managers :
                          change'[o].key = j /\ change'[o].op = "delete" => change'[o].at = "check"
      BY <2>1 DEF Granted, Deletes, There
    <3>1. directory[j] # Nowhere /\ \A o \in Managers : Deletes(o, j) => change[o].at = "check"
      BY DEF GrantsInv, Granted, There
    <3>2. j # k BY <2>1, <3>1 DEF Deletes
    <3> QED BY <2>3, <2>4, <3>1, <3>2 DEF Deletes
  <2>6. Cleared'
    <3> SUFFICES ASSUME NEW o \in Managers, NEW j \in Projects \ crossed,
                        change'[o].key = j, change'[o].op = "delete", change'[o].at = "directory"
                 PROVE  j \notin grants'
      BY <2>1 DEF Cleared, Deletes
    <3>1. CASE o = m BY <2>1, <2>3, <3>1
    <3>2. CASE o # m BY <2>1, <2>4, <3>2 DEF GrantsInv, Cleared, Deletes
    <3> QED BY <3>1, <3>2
  <2> QED BY <2>1, <2>5, <2>6 DEF GrantsInv, DeletedLeavesNoGrant, There
<1>7. CASE RemoveDirectory(m)
  <2> DEFINE k == change[m].key
  <2>1. /\ UNCHANGED <<grants, visit, crossed>> /\ directory' = [directory EXCEPT ![k] = Nowhere]
        /\ change[m].at = "directory" /\ change[m].op = "delete"
    BY <1>7 DEF RemoveDirectory, At
  <2>2. change[m] \in Changing BY <2>1, ChangeAt DEF GrantsInv, Stages
  <2>3. k \in Projects BY <2>2 DEF Changing
  <2>4. k \notin crossed => k \notin grants BY <2>1, <2>3 DEF GrantsInv, Cleared, Deletes
  <2>5. change'[m].at = "copy" /\ change'[m].key = k /\ change'[m].op = "delete"
    BY <1>7, <2>1, <2>2, AfterIsTyped DEF RemoveDirectory, ChangeGoes, GrantsInv, ProjectsTyped, Changing
  <2>6. \A o \in Managers \ {m} : change'[o] = change[o]
    BY <1>7 DEF RemoveDirectory, ChangeGoes, GrantsInv, ProjectsTyped
  <2>7. \A j \in Projects \ {k} : directory'[j] = directory[j]
    BY <2>1 DEF GrantsInv, ProjectsTyped
  <2>8. Granted'
    <3> SUFFICES ASSUME NEW v \in Visitors, NEW j \in Projects \ crossed,
                        visit[v].at = "granting", visit[v].key = j
                 PROVE  directory'[j] # Nowhere /\ \A o \in Managers :
                          change'[o].key = j /\ change'[o].op = "delete" => change'[o].at = "check"
      BY <2>1 DEF Granted, Deletes, There
    <3>1. directory[j] # Nowhere /\ \A o \in Managers : Deletes(o, j) => change[o].at = "check"
      BY DEF GrantsInv, Granted, There
    <3>2. j # k BY <2>1, <3>1 DEF Deletes
    <3> QED BY <2>5, <2>6, <2>7, <3>1, <3>2 DEF Deletes
  <2>9. Cleared'
    <3> SUFFICES ASSUME NEW o \in Managers, NEW j \in Projects \ crossed,
                        change'[o].key = j, change'[o].op = "delete", change'[o].at = "directory"
                 PROVE  j \notin grants
      BY <2>1 DEF Cleared, Deletes
    <3> QED BY <2>5, <2>6 DEF GrantsInv, Cleared, Deletes
  <2> QED BY <2>1, <2>4, <2>7, <2>8, <2>9 DEF GrantsInv, DeletedLeavesNoGrant, There
<1> QED BY <1>2, <1>3, <1>4, <1>5, <1>6, <1>7, <1>8

LEMMA GrantsStay == ASSUME GrantsInv, [ProjectsNext]_projectVars PROVE GrantsInv'
<1>1. ProjectsTyped' BY ProjectsStepsTyped DEF GrantsInv
<1>2. CASE Restart
  <2>1. /\ UNCHANGED <<directory, grants, crossed>>
        /\ visit' = [v \in Visitors |-> None] /\ change' = [o \in Managers |-> None]
    BY <1>2 DEF Restart
  <2>2. \A v \in Visitors : visit'[v].at # "granting" BY <2>1 DEF None
  <2>3. \A o \in Managers : change'[o] = None BY <2>1
  <2> QED BY <1>1, <2>1, <2>2, <2>3, GrantsFrame DEF GrantsInv
<1>3. CASE UNCHANGED projectVars
  BY <1>1, <1>3 DEF projectVars, GrantsInv, Granted, Cleared, DeletedLeavesNoGrant, Deletes, There
<1> QED BY <1>1, <1>2, <1>3, VisitorsKeepGrants, ManagersKeepGrants DEF ProjectsNext, GrantsInv

\* Whatever requests run at once and wherever one of them or the server stops, a
\* key whose project is gone has no grant left, but one granted while it was
\* being deleted.
THEOREM DeletedNeverLeavesGrant == ProjectsSpec => []DeletedLeavesNoGrant
<1>1. ProjectsInit => GrantsInv
  <2> SUFFICES ASSUME ProjectsInit PROVE GrantsInv OBVIOUS
  <2>1. ProjectsTyped BY ProjectsInitTyped
  <2>2. grants = {} /\ (\A v \in Visitors : visit[v] = None) BY DEF ProjectsInit
  <2>3. None.at # "granting" BY DEF None
  <2> QED BY <2>1, <2>2, <2>3 DEF GrantsInv, Granted, Cleared, DeletedLeavesNoGrant
<1>2. GrantsInv /\ [ProjectsNext]_projectVars => GrantsInv' BY GrantsStay
<1>3. GrantsInv => DeletedLeavesNoGrant BY DEF GrantsInv
<1> QED BY <1>1, <1>2, <1>3, PTL DEF ProjectsSpec

----------------------------------------------------------------------------
(* What is kept of a project *)

\* A visitor whose project did not change has it as it is.
OpenedIsCurrent ==
    \A v \in Visitors : visit[v].at \in {"opened", "built"} /\ v \notin raced =>
       /\ There(visit[v].key) /\ visit[v].of = directory[visit[v].key]
       /\ visit[v].at = "built" => visit[v].archived = IsArchived(visit[v].key)

\* And what is kept is as it is, or is about to be let go, unless it was
\* overtaken.
Current(k) ==
    cache[k] # Nowhere /\ ~cache[k].overtaken
       => cache[k].of = directory[k] /\ cache[k].archived = IsArchived(k)
Leaving(k) == \E m \in Managers : change[m].key = k /\ change[m].at = "evict"
CachedIsCurrent == \A k \in Projects : Current(k) \/ Leaving(k)

KeptInv == ProjectsTyped /\ OpenedIsCurrent /\ CachedIsCurrent

\* A manager's step leaves what the others are doing.
LEMMA OthersGoOn ==
    ASSUME ProjectsTyped, NEW m \in Managers,
           \/ \E k \in Projects :
                 Archive(m, k) \/ Unarchive(m, k) \/ Rename(m, k) \/ Create(m, k)
                 \/ RenameUnconfirmed(m, k) \/ BeginDelete(m, k)
           \/ WriteList(m) \/ Adopt(m) \/ EvictChanged(m) \/ CheckArchived(m) \/ RemoveGrants(m)
           \/ RemoveDirectory(m) \/ CopyList(m) \/ ChangeFails(m)
    PROVE  \A o \in Managers \ {m} : change'[o] = change[o]
<1>1. change' = change \/ \E x : change' = [change EXCEPT ![m] = x]
  <2>1. CASE \E k \in Projects :
                Archive(m, k) \/ Unarchive(m, k) \/ Rename(m, k) \/ Create(m, k)
                \/ RenameUnconfirmed(m, k) \/ BeginDelete(m, k)
    BY <2>1 DEF Archive, Unarchive, Rename, RenameUnconfirmed, Create, BeginDelete, Begin
  <2>2. CASE WriteList(m) \/ Adopt(m) \/ EvictChanged(m)
    BY <2>2 DEF WriteList, Adopt, EvictChanged, ChangeGoes, ChangeEnds
  <2>3. CASE CheckArchived(m) \/ RemoveGrants(m) \/ RemoveDirectory(m)
    BY <2>3 DEF CheckArchived, RemoveGrants, RemoveDirectory, ChangeGoes, ChangeEnds
  <2>4. CASE CopyList(m) \/ ChangeFails(m)
    BY <2>4 DEF CopyList, ChangeFails, ChangeEnds
  <2> QED BY <2>1, <2>2, <2>3, <2>4
<1> QED BY <1>1 DEF ProjectsTyped

LEMMA VisitorsKeepKept ==
    ASSUME KeptInv, NEW v \in Visitors,
           \/ \E k \in Projects : Open(v, k) \/ LookForGrant(v, k)
           \/ Build(v) \/ Keep(v) \/ Grant(v)
    PROVE  KeptInv'
<1>1. ProjectsTyped' BY VisitorsTyped DEF KeptInv
<1>2. UNCHANGED <<directory, config, change>>
  BY DEF Open, LookForGrant, Build, Keep, Grant
<1>4. ASSUME UNCHANGED <<cache, raced>>,
             \A w \in Visitors : \/ visit'[w].at \notin {"opened", "built"}
                                 \/ visit'[w] = visit[w]
                                 \/ /\ visit'[w].key \in Projects /\ There(visit'[w].key)
                                    /\ visit'[w].at = "opened" /\ visit'[w].of = directory[visit'[w].key]
                                 \/ /\ visit[w].at = "opened" /\ visit'[w].key = visit[w].key
                                    /\ visit'[w].of = visit[w].of
                                    /\ visit'[w].archived = IsArchived(visit[w].key)
      PROVE  KeptInv'
  <2>1. CachedIsCurrent' BY <1>2, <1>4 DEF KeptInv, CachedIsCurrent, Leaving, Current, IsArchived
  <2>2. OpenedIsCurrent' BY <1>2, <1>4 DEF KeptInv, OpenedIsCurrent, There, IsArchived
  <2> QED BY <1>1, <2>1, <2>2 DEF KeptInv
<1>5. ASSUME NEW k \in Projects, Open(v, k) \/ LookForGrant(v, k) PROVE KeptInv'
  BY <1>4, <1>5 DEF Open, LookForGrant, KeptInv, ProjectsTyped
<1>6. CASE Build(v)
  BY <1>4, <1>6 DEF Build, KeptInv, ProjectsTyped
<1>7. CASE Grant(v)
  BY <1>4, <1>7 DEF Grant, None, KeptInv, ProjectsTyped
<1>8. CASE Keep(v)
  <2> DEFINE r == visit[v]
  <2> DEFINE kept == [of |-> r.of, archived |-> r.archived, overtaken |-> v \in raced]
  <2>1. r \in Builds /\ r.key \in Projects /\ r.at = "built" BY <1>8, VisitAt DEF Keep, KeptInv
  <2>2. /\ \A w \in Visitors : visit'[w] = IF w = v THEN None ELSE visit[w]
        /\ \A w \in Visitors \ {v} : w \in raced' <=> w \in raced
    BY <1>8 DEF Keep, KeptInv, ProjectsTyped
  <2>3. \A k \in Projects : cache'[k] = cache[k] \/ (k = r.key /\ cache'[k] = kept)
    BY <1>8, <2>1 DEF Keep, KeptInv, ProjectsTyped
  <2>4. None.at \notin {"opened", "built"} BY DEF None
  <2>5. OpenedIsCurrent' BY <1>2, <2>2, <2>4 DEF KeptInv, OpenedIsCurrent, There, IsArchived
  <2>7. CachedIsCurrent'
    <3> SUFFICES ASSUME NEW k \in Projects
                 PROVE  \/ (/\ cache'[k] # Nowhere /\ ~cache'[k].overtaken
                            => cache'[k].of = directory[k] /\ cache'[k].archived = IsArchived(k))
                        \/ Leaving(k)
      BY <1>2 DEF CachedIsCurrent, Current, Leaving, IsArchived
    <3>1. CASE cache'[k] = cache[k] BY <3>1 DEF KeptInv, CachedIsCurrent, Current
    <3>2. CASE k = r.key /\ cache'[k] = kept
      <4>1. CASE v \in raced
        <5>1. (v \in raced) = TRUE BY <4>1
        <5>2. kept = [of |-> r.of, archived |-> r.archived, overtaken |-> TRUE] BY <5>1, Zenon
        <5>3. cache'[k].overtaken = TRUE BY <3>2, <5>2
        <5> QED BY <5>3
      <4>2. CASE v \notin raced
        <5>1. (v \in raced) = FALSE BY <4>2
        <5>2. kept = [of |-> r.of, archived |-> r.archived, overtaken |-> FALSE] BY <5>1, Zenon
        <5>3. cache'[k].of = r.of /\ cache'[k].archived = r.archived BY <3>2, <5>2
        <5>4. r.of = directory[k] /\ r.archived = IsArchived(k)
          BY <2>1, <3>2, <4>2 DEF KeptInv, OpenedIsCurrent
        <5> QED BY <5>3, <5>4
      <4> QED BY <4>1, <4>2
    <3> QED BY <2>3, <3>1, <3>2
  <2> QED BY <1>1, <2>5, <2>7 DEF KeptInv
<1> QED BY <1>5, <1>6, <1>7, <1>8

\* A manager's step changes some projects. Visitors that were opening them are
\* raced, and what is kept of them is let go, about to be, or overtaken; what is
\* kept of the others stays or goes.
LEMMA ManagerKeepsKept ==
    ASSUME KeptInv, NEW m \in Managers, ProjectsTyped', UNCHANGED visit, raced \subseteq raced',
           \A o \in Managers \ {m} : change'[o] = change[o],
           NEW keys \in SUBSET Projects,
           \A k \in Projects \ keys :
              /\ directory'[k] = directory[k]
              /\ k \in config' <=> k \in config
              /\ cache'[k] \in {cache[k], Nowhere}
              /\ change[m].key = k /\ change[m].at = "evict" => cache'[k] = Nowhere,
           \A k \in keys : Opening(k) \subseteq raced',
           \A k \in keys : cache'[k] = Nowhere \/ cache'[k].overtaken \/ Leaving(k)'
    PROVE  KeptInv'
<1>1. OpenedIsCurrent'
  <2> SUFFICES ASSUME NEW v \in Visitors, visit[v].at \in {"opened", "built"}, v \notin raced'
               PROVE  /\ directory'[visit[v].key] # Nowhere
                      /\ visit[v].of = directory'[visit[v].key]
                      /\ visit[v].at = "built" => visit[v].archived = (visit[v].key \in config')
    BY DEF OpenedIsCurrent, There, IsArchived
  <2>1. visit[v].key \in Projects \ keys BY VisitAt DEF KeptInv, Opening
  <2>2. /\ directory[visit[v].key] # Nowhere /\ visit[v].of = directory[visit[v].key]
        /\ visit[v].at = "built" => visit[v].archived = (visit[v].key \in config)
    BY DEF KeptInv, OpenedIsCurrent, There, IsArchived
  <2>3. (visit[v].key \in config') = (visit[v].key \in config) BY <2>1
  <2> QED BY <2>1, <2>2, <2>3
<1>2. ASSUME NEW k \in Projects PROVE Current(k)' \/ Leaving(k)'
  <2>1. CASE k \in keys BY <2>1 DEF Current
  <2>2. CASE cache'[k] = Nowhere BY <2>2 DEF Current
  <2>3. CASE k \notin keys /\ cache'[k] = cache[k] /\ Current(k)
    <3>1. (k \in config') = (k \in config) /\ directory'[k] = directory[k] BY <2>3
    <3> QED BY <2>3, <3>1 DEF Current, IsArchived
  <2>4. CASE k \notin keys /\ cache'[k] # Nowhere /\ Leaving(k)
    <3>1. PICK o \in Managers : change[o].key = k /\ change[o].at = "evict" BY <2>4 DEF Leaving
    <3>2. o # m BY <2>4, <3>1
    <3> QED BY <3>1, <3>2 DEF Leaving
  <2> QED BY <2>1, <2>2, <2>3, <2>4 DEF KeptInv, CachedIsCurrent
<1> QED BY <1>1, <1>2 DEF KeptInv, CachedIsCurrent

\* Steps that change no project: a change begins, or goes on to its next stage.
LEMMA QuietKeepsKept ==
    ASSUME KeptInv, NEW m \in Managers,
           \/ \E k \in Projects : Archive(m, k) \/ Unarchive(m, k) \/ BeginDelete(m, k)
           \/ WriteList(m) \/ EvictChanged(m) \/ CheckArchived(m) \/ RemoveGrants(m) \/ CopyList(m)
           \/ ChangeFails(m)
    PROVE  KeptInv'
<1>1. ProjectsTyped' BY ManagersTyped DEF KeptInv
<1>2. \A o \in Managers \ {m} : change'[o] = change[o] BY OthersGoOn DEF KeptInv
<1>5. ASSUME UNCHANGED <<directory, config, visit, raced>>,
             \A j \in Projects : cache'[j] \in {cache[j], Nowhere},
             \A j \in Projects : change[m].key # j \/ change[m].at # "evict" \/ cache'[j] = Nowhere
      PROVE  KeptInv'
  <2> DEFINE keys == {}
  <2>1. keys \in SUBSET Projects OBVIOUS
  <2>2. \A k \in Projects \ keys :
           /\ directory'[k] = directory[k]
           /\ k \in config' <=> k \in config
           /\ cache'[k] \in {cache[k], Nowhere}
           /\ change[m].key = k /\ change[m].at = "evict" => cache'[k] = Nowhere
    BY <1>5
  <2>3. /\ \A k \in keys : Opening(k) \subseteq raced'
        /\ \A k \in keys : cache'[k] = Nowhere \/ cache'[k].overtaken \/ Leaving(k)'
    OBVIOUS
  <2>4. raced \subseteq raced' /\ UNCHANGED visit BY <1>5
  <2> HIDE DEF keys
  <2> QED BY <1>1, <1>2, <2>1, <2>2, <2>3, <2>4, ManagerKeepsKept
<1>3. ASSUME NEW k \in Projects, Archive(m, k) \/ Unarchive(m, k) \/ BeginDelete(m, k)
      PROVE  /\ UNCHANGED <<directory, config, visit, raced>>
             /\ \A j \in Projects : cache'[j] \in {cache[j], Nowhere}
             /\ change[m].at # "evict"
  BY <1>3 DEF Archive, Unarchive, BeginDelete, Begin, None, Evicted, KeptInv, ProjectsTyped
<1>4. CASE WriteList(m) \/ EvictChanged(m) \/ CheckArchived(m) \/ RemoveGrants(m) \/ CopyList(m)
             \/ ChangeFails(m)
  <2>1. change[m].at \in Stages
    BY <1>4 DEF WriteList, EvictChanged, CheckArchived, RemoveGrants, CopyList, ChangeFails, At, Stages
  <2>2. change[m] \in Changing BY <2>1, ChangeAt DEF KeptInv
  <2>3. /\ UNCHANGED <<directory, config, visit, raced>>
        /\ \A j \in Projects : cache'[j] \in {cache[j], Nowhere}
        /\ \A j \in Projects : change[m].key # j \/ change[m].at # "evict" \/ cache'[j] = Nowhere
    BY <1>4, <2>2 DEF WriteList, EvictChanged, CheckArchived, RemoveGrants, CopyList, ChangeFails, At,
                LetGo, Evicted, KeptInv, ProjectsTyped
  <2> QED BY <1>5, <2>3
<1> QED BY <1>3, <1>4, <1>5

LEMMA AdoptKeepsKept == ASSUME KeptInv, NEW m \in Managers, Adopt(m) PROVE KeptInv'
<1> DEFINE keys == Flipped(change[m].list)
<1>1. ProjectsTyped' BY ManagersTyped DEF KeptInv
<1>2. change[m] \in Changing /\ change[m].at = "adopt"
  BY ChangeAt DEF Adopt, Stages, KeptInv
<1>3. /\ UNCHANGED <<directory, visit>> /\ config' = change[m].list
      /\ raced' = raced \union UNION {Opening(k) : k \in keys}
      /\ cache' = Overtaken(keys \ (IF change[m].op = "delete" THEN {} ELSE {change[m].key}))
  BY DEF Adopt
<1>4. \A o \in Managers \ {m} : change'[o] = change[o] BY OthersGoOn DEF KeptInv
<1>5. keys \in SUBSET Projects BY <1>2 DEF Flipped, Changing, KeptInv, ProjectsTyped
<1>6. \A k \in Projects \ keys : (k \in config' <=> k \in config) /\ cache'[k] = cache[k]
  BY <1>3, OvertakenTyped DEF Flipped, KeptInv
<1>7. \A k \in keys : Opening(k) \subseteq raced' BY <1>3
<1>8. ASSUME NEW k \in keys PROVE cache'[k] = Nowhere \/ cache'[k].overtaken \/ Leaving(k)'
  <2>1. CASE k = change[m].key /\ change[m].op # "delete"
    <3>1. change'[m].at = "evict" /\ change'[m].key = k
      BY <1>2, <2>1 DEF Adopt, ChangeGoes, KeptInv, ProjectsTyped, Changing
    <3> QED BY <3>1 DEF Leaving
  <2>2. CASE k # change[m].key \/ change[m].op = "delete"
    <3>1. k \in keys \ (IF change[m].op = "delete" THEN {} ELSE {change[m].key}) BY <2>2
    <3>2. k \in Projects BY <1>5
    <3> QED BY <1>3, <3>1, <3>2, OvertakenTyped DEF KeptInv
  <2> QED BY <2>1, <2>2
<1>9. \A k \in Projects \ keys :
         /\ directory'[k] = directory[k]
         /\ k \in config' <=> k \in config
         /\ cache'[k] \in {cache[k], Nowhere}
         /\ change[m].key = k /\ change[m].at = "evict" => cache'[k] = Nowhere
  BY <1>2, <1>3, <1>6
<1>10. \A k \in keys : cache'[k] = Nowhere \/ cache'[k].overtaken \/ Leaving(k)' BY <1>8
<1>11. raced \subseteq raced' /\ UNCHANGED visit BY <1>3
<1> HIDE DEF keys
<1> QED BY <1>1, <1>4, <1>5, <1>7, <1>9, <1>10, <1>11, ManagerKeepsKept

LEMMA DirectoryKeepsKept ==
    ASSUME KeptInv, NEW m \in Managers,
           \/ \E k \in Projects : Rename(m, k) \/ RenameUnconfirmed(m, k) \/ Create(m, k)
           \/ RemoveDirectory(m)
    PROVE  KeptInv'
<1>1. ProjectsTyped' BY ManagersTyped DEF KeptInv
<1>2. \A o \in Managers \ {m} : change'[o] = change[o] BY OthersGoOn DEF KeptInv
<1>3. ASSUME NEW k \in Projects, change[m].at # "evict",
             UNCHANGED <<visit, config>>, raced \subseteq raced', Opening(k) \subseteq raced',
             \A j \in Projects \ {k} : directory'[j] = directory[j] /\ cache'[j] = cache[j],
             cache'[k] = Nowhere \/ cache'[k].overtaken \/ Leaving(k)'
      PROVE  KeptInv'
  <2> DEFINE keys == {k}
  <2>1. keys \in SUBSET Projects OBVIOUS
  <2>2. \A j \in Projects \ keys :
           /\ directory'[j] = directory[j]
           /\ j \in config' <=> j \in config
           /\ cache'[j] \in {cache[j], Nowhere}
           /\ change[m].key = j /\ change[m].at = "evict" => cache'[j] = Nowhere
    BY <1>3
  <2>3. \A j \in keys : Opening(j) \subseteq raced' BY <1>3
  <2>4. \A j \in keys : cache'[j] = Nowhere \/ cache'[j].overtaken \/ Leaving(j)'
    BY <1>3 DEF Leaving
  <2>5. raced \subseteq raced' /\ UNCHANGED visit BY <1>3
  <2> HIDE DEF keys
  <2> QED BY <1>1, <1>2, <2>1, <2>2, <2>3, <2>4, <2>5, ManagerKeepsKept
<1>4. None.at # "evict" BY DEF None
<1>5. ASSUME NEW k \in Projects, Rename(m, k) PROVE KeptInv'
  <2>1. Begin(m, "rename", k, "evict") /\ Retitle(k) /\ UNCHANGED cache BY <1>5 DEF Rename
  <2>2. /\ changes' \in 0..MaxChanges /\ change[m] = None
        /\ change'[m].at = "evict" /\ change'[m].key = k
    BY <2>1, BeginTyped DEF KeptInv, Ops, Stages
  <2>3. Leaving(k)' BY <2>2 DEF Leaving
  <2>4. \A j \in Projects \ {k} : directory'[j] = directory[j] BY <2>1, <2>2, RetitleTyped DEF KeptInv
  <2> QED BY <1>3, <1>4, <2>1, <2>2, <2>3, <2>4 DEF Retitle
<1>6. ASSUME NEW k \in Projects, RenameUnconfirmed(m, k) PROVE KeptInv'
  <2>1. /\ Retitle(k) /\ changes' \in 0..MaxChanges /\ change[m] = None /\ cache' = Overtaken({k})
    BY <1>6 DEF RenameUnconfirmed, KeptInv, ProjectsTyped
  <2>2. \A j \in Projects \ {k} : directory'[j] = directory[j] BY <2>1, RetitleTyped DEF KeptInv
  <2>3. /\ \A j \in Projects \ {k} : cache'[j] = cache[j]
        /\ cache'[k] = Nowhere \/ cache'[k].overtaken
    BY <2>1, OvertakenTyped DEF KeptInv
  <2> QED BY <1>3, <1>4, <2>1, <2>2, <2>3 DEF Retitle
<1>7. ASSUME NEW k \in Projects, Create(m, k) PROVE KeptInv'
  <2>1. /\ directory[k] = Nowhere /\ change[m] = None /\ UNCHANGED <<config, cache, visit, raced, change>>
        /\ directory' = [directory EXCEPT ![k] = [born |-> changes', title |-> changes']]
    BY <1>7 DEF Create, There
  <2>2. Opening(k) \subseteq raced'
    BY <2>1 DEF Opening, KeptInv, OpenedIsCurrent, There
  <2>3. cache[k] = Nowhere \/ cache[k].overtaken \/ Leaving(k)
    <3>1. cache[k] # Nowhere => cache[k].of # Nowhere
      BY ProjectsAssumption DEF KeptInv, ProjectsTyped, Runtimes
    <3> QED BY <2>1, <3>1 DEF KeptInv, CachedIsCurrent, Current
  <2>4. cache'[k] = Nowhere \/ cache'[k].overtaken \/ Leaving(k)' BY <2>1, <2>3 DEF Leaving
  <2>5. \A j \in Projects \ {k} : directory'[j] = directory[j] BY <2>1 DEF KeptInv, ProjectsTyped
  <2> QED BY <1>3, <1>4, <2>1, <2>2, <2>4, <2>5
<1>8. CASE RemoveDirectory(m)
  <2> DEFINE k == change[m].key
  <2>1. change[m].at = "directory" /\ change[m] \in Changing /\ k \in Projects
    BY <1>8, ChangeAt DEF RemoveDirectory, At, Stages, KeptInv, Changing
  <2>2. /\ UNCHANGED <<config, visit>> /\ directory' = [directory EXCEPT ![k] = Nowhere]
        /\ raced' = raced \union Opening(k) /\ cache' = Overtaken({k})
    BY <1>8 DEF RemoveDirectory
  <2>3. \A j \in Projects \ {k} : directory'[j] = directory[j] BY <2>2 DEF KeptInv, ProjectsTyped
  <2>4. /\ \A j \in Projects \ {k} : cache'[j] = cache[j]
        /\ cache'[k] = Nowhere \/ cache'[k].overtaken
    BY <2>1, <2>2, OvertakenTyped DEF KeptInv
  <2> QED BY <1>3, <2>1, <2>2, <2>3, <2>4
<1> QED BY <1>5, <1>6, <1>7, <1>8

LEMMA KeptStays == ASSUME KeptInv, [ProjectsNext]_projectVars PROVE KeptInv'
<1>1. ProjectsTyped' BY ProjectsStepsTyped DEF KeptInv
<1>2. CASE Restart
  <2>1. /\ \A v \in Visitors : visit'[v] = None
        /\ \A k \in Projects : cache'[k] = Nowhere
    BY <1>2 DEF Restart
  <2>2. None.at \notin {"opened", "built"} BY DEF None
  <2>3. OpenedIsCurrent' BY <2>1, <2>2 DEF OpenedIsCurrent
  <2>4. CachedIsCurrent' BY <2>1 DEF CachedIsCurrent, Current
  <2> QED BY <1>1, <2>3, <2>4 DEF KeptInv
<1>3. CASE UNCHANGED projectVars
  <2>1. OpenedIsCurrent' /\ CachedIsCurrent'
    BY <1>3 DEF projectVars, KeptInv, OpenedIsCurrent, CachedIsCurrent, Leaving, Current, There, IsArchived
  <2> QED BY <1>1, <2>1 DEF KeptInv
<1> QED BY <1>2, <1>3, VisitorsKeepKept, QuietKeepsKept, AdoptKeepsKept, DirectoryKeepsKept
        DEF ProjectsNext

\* However many projects, visitors and managers there are and whatever fails or
\* stops, what is kept of a project has its name and its archived flag once its
\* changes are done, but for what a change overtook where the code lets nothing
\* go after it (the four cases of KeptIsCurrent).
THEOREM KeptIsAlwaysCurrent == ProjectsSpec => []KeptIsCurrent
<1>1. ProjectsInit => KeptInv
  <2> SUFFICES ASSUME ProjectsInit PROVE KeptInv OBVIOUS
  <2>1. ProjectsTyped BY ProjectsInitTyped
  <2>2. /\ \A v \in Visitors : visit[v] = None
        /\ \A k \in Projects : cache[k] = Nowhere
    BY DEF ProjectsInit
  <2>3. None.at \notin {"opened", "built"} BY DEF None
  <2>4. OpenedIsCurrent /\ CachedIsCurrent BY <2>2, <2>3 DEF OpenedIsCurrent, CachedIsCurrent, Current
  <2> QED BY <2>1, <2>4 DEF KeptInv
<1>2. KeptInv /\ [ProjectsNext]_projectVars => KeptInv' BY KeptStays
<1>3. KeptInv => KeptIsCurrent
  BY DEF KeptInv, CachedIsCurrent, Leaving, Current, KeptIsCurrent, Settled
<1> QED BY <1>1, <1>2, <1>3, PTL DEF ProjectsSpec

=============================================================================
