---------------------------- MODULE SiteAccounts ----------------------------
(* The accounts of a site, their memberships in its projects and their API    *)
(* tokens: three kinds of document, each changed by a conditional write that  *)
(* is tried again on a conflict (`update` in src/src/site/accounts.rs,         *)
(* src/src/site/tokens.rs and src/src/project/members.rs), so one change is    *)
(* one step here (DocumentStore shows the store keeps that promise). A request *)
(* that changes several of them, or that looks before it changes, takes one    *)
(* step for each, and others run in between. Roles are ordered as numbers;     *)
(* download scopes and the read policy are not modelled.                      *)
EXTENDS Integers, Sequences, FiniteSets

CONSTANTS
    People,         \* account names
    Rooms,          \* the projects of the site
    Clerks,         \* the requests that may be in progress at once
    Nobody,         \* no account, no invite, no project
    MaxLinks,       \* bound: invite links issued
    MaxTokens,      \* bound: API tokens made
    MaxRemovals     \* bound: removals of accounts begun


NoRole == 0
Picker == 1
Admin == 2
Roles == {Picker, Admin}

VARIABLES
    accounts,       \* accounts.json: the account of each name
    members,        \* users.json of each project: the role of each name
    tokens,         \* tokens.json: the account and the project of each token
    links,          \* invite links issued so far
    removals,       \* removals of accounts begun so far
    request,        \* what each clerk is doing
    uses,           \* history: passwords set with each link
    void,           \* history: links used, replaced or whose account is gone
    met             \* history: names removed while they were given something

accountVars == <<accounts, members, tokens, links, removals, request, uses, void, met>>

(* An invite names its link, and the project and role it brings with it.      *)
Invites == [link : 1..MaxLinks, room : Rooms \union {Nobody}, role : Roles]
Accounts == [admin : BOOLEAN, password : BOOLEAN, invite : Invites \union {Nobody}]

ASSUME AccountsAssumption ==
    /\ Nobody \notin People \union Rooms \union Accounts
    /\ {MaxLinks, MaxTokens, MaxRemovals} \subseteq Nat

Kinds == {"add", "invite", "redeem", "remove", "token", "batch"}
Idle == [kind |-> "idle"]

AccountsTypeOK ==
    /\ accounts \in [People -> Accounts \union {Nobody}]
    /\ members \in [Rooms -> [People -> Roles \union {NoRole}]]
    /\ tokens \subseteq [id : 1..MaxTokens, name : People, room : Rooms]
    /\ links \in 0..MaxLinks
    /\ removals \in 0..MaxRemovals
    /\ \A c \in Clerks :
          request[c] # Idle =>
              /\ request[c].kind \in Kinds
              /\ request[c].name \in People
              /\ request[c].at \in {"looked", "accounts", "members", "tokens"}
    /\ uses \in [1..MaxLinks -> Nat]
    /\ void \subseteq 1..MaxLinks
    /\ met \subseteq People

(* A site is started by making its first account on the server itself.        *)
AccountsInit ==
    /\ \E first \in People :
          accounts = [n \in People |->
              IF n = first THEN [admin |-> TRUE, password |-> TRUE, invite |-> Nobody]
              ELSE Nobody]
    /\ members = [p \in Rooms |-> [n \in People |-> NoRole]]
    /\ tokens = {}
    /\ links = 0
    /\ removals = 0
    /\ request = [c \in Clerks |-> Idle]
    /\ uses = [l \in 1..MaxLinks |-> 0]
    /\ void = {}
    /\ met = {}

----------------------------------------------------------------------------
Exists(n) == accounts[n] # Nobody
Administrators == {n \in People : Exists(n) /\ accounts[n].admin}
HasAnotherAdmin(n) == Administrators \ {n} # {}

IsLastAdmin(p, n) == {m \in People : members[p][m] = Admin} = {n}
MemberNames == {n \in People : \E p \in Rooms : members[p][n] # NoRole}

Pending(n) == IF Exists(n) /\ accounts[n].invite # Nobody
              THEN {accounts[n].invite.link} ELSE {}

NewAccount(password, invite) ==
    [admin |-> FALSE, password |-> password, invite |-> invite]

(* The next link.                                                             *)
Mint(p, role) == [link |-> links + 1, room |-> p, role |-> role]

Upsert(p, n, role) == members' = [members EXCEPT ![p][n] = role]

Busy(c) == request[c] # Idle
Doing(c, kind, at) == Busy(c) /\ request[c].kind = kind /\ request[c].at = at
Goes(c, at) == request' = [request EXCEPT ![c].at = at]
Ends(c) == request' = [request EXCEPT ![c] = Idle]

(* A name is met when a removal of it and a gift to it are in progress at once. *)
Meeting(kind, n) ==
    \E c \in Clerks : /\ Busy(c) /\ request[c].name = n
                      /\ (request[c].kind = "remove") # (kind = "remove")

Begins(c, req) ==
    /\ ~Busy(c)
    /\ request' = [request EXCEPT ![c] = req]
    /\ met' = IF Meeting(req.kind, req.name) THEN met \union {req.name} ELSE met

Asks(kind, n, p, role, at) ==
    [kind |-> kind, name |-> n, room |-> p, role |-> role, link |-> 0, todo |-> {}, at |-> at]

----------------------------------------------------------------------------
(* Changes of one document, with their checks made on what is changed.        *)

(* A server administrator's new account, and its invite.                      *)
CreateAccount(n, p, role) ==
    /\ links < MaxLinks
    /\ ~Exists(n)
    /\ accounts' = [accounts EXCEPT ![n] = NewAccount(FALSE, Mint(p, role))]
    /\ links' = links + 1
    /\ UNCHANGED <<members, tokens, removals, request, uses, void, met>>

ReissueInvite(n) ==
    /\ links < MaxLinks
    /\ Exists(n)
    /\ accounts' = [accounts EXCEPT ![n].invite = Mint(Nobody, Picker)]
    /\ links' = links + 1
    /\ void' = void \union Pending(n)
    /\ UNCHANGED <<members, tokens, removals, request, uses, met>>

(* Server administration is not taken from the last administrator, nor given  *)
(* to someone who has yet to use an invite.                                   *)
MayBecome(n, admin) ==
    IF admin THEN accounts[n].password /\ accounts[n].invite = Nobody
    ELSE n \in Administrators => HasAnotherAdmin(n)

UpdateAccount(n, admin) ==
    /\ Exists(n)
    /\ MayBecome(n, admin)
    /\ accounts[n].admin # admin
    /\ accounts' = [accounts EXCEPT ![n].admin = admin]
    /\ UNCHANGED <<members, tokens, links, removals, request, uses, void, met>>

UpdateMember(p, n, role) ==
    /\ members[p][n] # NoRole
    /\ ~(role < Admin /\ IsLastAdmin(p, n))
    /\ Upsert(p, n, role)
    /\ UNCHANGED <<accounts, tokens, links, removals, request, uses, void, met>>

RemoveMember(p, n) ==
    /\ ~IsLastAdmin(p, n)
    /\ Upsert(p, n, NoRole)
    /\ UNCHANGED <<accounts, tokens, links, removals, request, uses, void, met>>

RevokeToken(t) ==
    /\ tokens' = tokens \ {t}
    /\ UNCHANGED <<accounts, members, links, removals, request, uses, void, met>>

----------------------------------------------------------------------------
(* A membership for an account that exists.                                   *)
AddMember(c, n, p, role) ==
    /\ Exists(n)
    /\ Begins(c, Asks("add", n, p, role, "members"))
    /\ UNCHANGED <<accounts, members, tokens, links, removals, uses, void>>

(* A new account for this project, of a name no project has a member of.      *)
InviteMember(c, n, p, role) ==
    /\ ~Exists(n)
    /\ n \notin MemberNames
    /\ Begins(c, Asks("invite", n, p, role, "accounts"))
    /\ UNCHANGED <<accounts, members, tokens, links, removals, uses, void>>

(* Passwords for new accounts of names nobody has, members from the start.     *)
PasswordBatch(c, n, p, role) ==
    /\ role < Admin
    /\ ~Exists(n)
    /\ n \notin MemberNames
    /\ Begins(c, Asks("batch", n, p, role, "accounts"))
    /\ UNCHANGED <<accounts, members, tokens, links, removals, uses, void>>

(* A link is looked for before the password is hashed.                        *)
LookForLink(c, n) ==
    /\ Exists(n)
    /\ accounts[n].invite # Nobody
    /\ Begins(c, [Asks("redeem", n, Nobody, Picker, "accounts")
                  EXCEPT !.link = accounts[n].invite.link])
    /\ UNCHANGED <<accounts, members, tokens, links, removals, uses, void>>

(* A token for a project its account is a member of, or for any project if it  *)
(* administers the site.                                                      *)
CheckGrants(c, n, p) ==
    /\ Exists(n)
    /\ accounts[n].admin \/ members[p][n] # NoRole
    /\ Begins(c, Asks("token", n, p, Picker, "tokens"))
    /\ UNCHANGED <<accounts, members, tokens, links, removals, uses, void>>

(* A removal goes from the projects to the tokens, and then to the account.    *)
(* Seeded fault: the account goes first.                                      *)
AccountFirst == <<"accounts", "members", "tokens">>

RemovalOrder == <<"members", "tokens", "accounts">>

GoesOn(c, req) ==
    \E i \in 1..3 :
       /\ RemovalOrder[i] = req.at
       /\ request' = [request EXCEPT ![c] =
                         IF i = 3 THEN Idle ELSE [req EXCEPT !.at = RemovalOrder[i + 1]]]

(* An account is not removed if it is the last administrator: looked at before *)
(* anything goes.                                                             *)
MayRemove(n) == Exists(n) /\ (n \in Administrators => HasAnotherAdmin(n))

LookBeforeRemoving(c, n) ==
    /\ removals < MaxRemovals
    /\ MayRemove(n)
    /\ Begins(c, [Asks("remove", n, Nobody, Picker, RemovalOrder[1]) EXCEPT !.todo = Rooms])
    /\ removals' = removals + 1
    /\ UNCHANGED <<accounts, members, tokens, links, uses, void>>

----------------------------------------------------------------------------
(* The writes to accounts.json.                                               *)
WriteInvited(c) ==
    LET r == request[c] IN
    /\ Doing(c, "invite", "accounts") /\ links < MaxLinks
    /\ IF Exists(r.name) THEN Ends(c) /\ UNCHANGED <<accounts, links>>
       ELSE /\ accounts' = [accounts EXCEPT ![r.name] = NewAccount(FALSE, Mint(r.room, r.role))]
            /\ links' = links + 1
            /\ Goes(c, "members")
    /\ UNCHANGED <<members, tokens, removals, uses, void, met>>

WriteBatch(c) ==
    LET r == request[c] IN
    /\ Doing(c, "batch", "accounts")
    /\ IF Exists(r.name) THEN Ends(c) /\ UNCHANGED accounts
       ELSE /\ accounts' = [accounts EXCEPT ![r.name] = NewAccount(TRUE, Nobody)]
            /\ IF r.room = Nobody THEN Ends(c) ELSE Goes(c, "members")
    /\ UNCHANGED <<members, tokens, links, removals, uses, void, met>>

(* The link is looked for again in what is changed.                           *)
(* Seeded fault: the link that was found before the hash is taken as found.   *)
LinkHeld(n, link) == Exists(n)

LinkHolds(n, link) == link \in Pending(n)

(* The account has its password, and then the membership its link brought.     *)
Redeem(c) ==
    LET r == request[c]
        invite == accounts[r.name].invite
    IN
    /\ Doing(c, "redeem", "accounts")
    /\ IF LinkHolds(r.name, r.link)
       THEN /\ accounts' = [accounts EXCEPT ![r.name].password = TRUE,
                                           ![r.name].invite = Nobody]
            /\ uses' = [uses EXCEPT ![r.link] = @ + 1]
            /\ void' = void \union {r.link}
            /\ IF invite = Nobody \/ invite.room = Nobody THEN Ends(c)
               ELSE request' = [request EXCEPT ![c].at = "members", ![c].room = invite.room,
                                               ![c].role = invite.role]
       ELSE Ends(c) /\ UNCHANGED <<accounts, uses, void>>
    /\ UNCHANGED <<members, tokens, links, removals, met>>

(* Seeded fault: the last administrator was looked for at the start.           *)
MayStillRemoveLooked(n) == Exists(n)

MayStillRemove(n) == MayRemove(n)

WriteRemoved(c) ==
    LET n == request[c].name IN
    /\ Doing(c, "remove", "accounts")
    /\ IF MayStillRemove(n)
       THEN /\ accounts' = [accounts EXCEPT ![n] = Nobody]
            /\ void' = void \union Pending(n)
            /\ GoesOn(c, request[c])
       ELSE Ends(c) /\ UNCHANGED <<accounts, void>>
    /\ UNCHANGED <<members, tokens, links, removals, uses, met>>

----------------------------------------------------------------------------
(* The writes to the projects' memberships and to the tokens.                  *)
WriteMember(c) ==
    LET r == request[c] IN
    /\ \E kind \in {"add", "invite", "redeem", "batch"} : Doing(c, kind, "members")
    /\ Upsert(r.room, r.name, r.role)
    /\ Ends(c)
    /\ UNCHANGED <<accounts, tokens, links, removals, uses, void, met>>

(* One project at a time, each once.                                          *)
RemoveFromRoom(c, p) ==
    LET r == request[c] IN
    /\ Doing(c, "remove", "members")
    /\ p \in r.todo
    /\ Upsert(p, r.name, NoRole)
    /\ IF r.todo = {p} THEN GoesOn(c, [r EXCEPT !.todo = {}])
       ELSE request' = [request EXCEPT ![c].todo = r.todo \ {p}]
    /\ UNCHANGED <<accounts, tokens, links, removals, uses, void, met>>

RemoveTokens(c) ==
    /\ Doing(c, "remove", "tokens")
    /\ tokens' = {t \in tokens : t.name # request[c].name}
    /\ GoesOn(c, request[c])
    /\ UNCHANGED <<accounts, members, links, removals, uses, void, met>>

WriteToken(c) ==
    LET r == request[c] IN
    /\ Doing(c, "token", "tokens")
    /\ \E id \in 1..MaxTokens :
          /\ \A t \in tokens : t.id # id
          /\ tokens' = tokens \union {[id |-> id, name |-> r.name, room |-> r.room]}
    /\ Ends(c)
    /\ UNCHANGED <<accounts, members, links, removals, uses, void, met>>

(* A write fails, of a conflict at the third try or of the disk, or the server *)
(* stops: what the request has written stays.                                 *)
GivesUp(c) ==
    /\ Busy(c)
    /\ Ends(c)
    /\ UNCHANGED <<accounts, members, tokens, links, removals, uses, void, met>>

----------------------------------------------------------------------------
AccountsNext ==
    \/ \E n \in People :
          \/ \E p \in Rooms \union {Nobody}, role \in Roles : CreateAccount(n, p, role)
          \/ ReissueInvite(n)
          \/ \E admin \in BOOLEAN : UpdateAccount(n, admin)
          \/ \E p \in Rooms, role \in Roles : UpdateMember(p, n, role)
          \/ \E p \in Rooms : RemoveMember(p, n)
    \/ \E t \in tokens : RevokeToken(t)
    \/ \E c \in Clerks, n \in People :
          \/ \E p \in Rooms, role \in Roles :
                AddMember(c, n, p, role) \/ InviteMember(c, n, p, role)
          \/ \E p \in Rooms \union {Nobody} : PasswordBatch(c, n, p, Picker)
          \/ LookForLink(c, n)
          \/ \E p \in Rooms : CheckGrants(c, n, p)
          \/ LookBeforeRemoving(c, n)
    \/ \E c \in Clerks :
          \/ WriteInvited(c) \/ WriteBatch(c) \/ Redeem(c) \/ WriteRemoved(c)
          \/ WriteMember(c) \/ WriteToken(c)
          \/ \E p \in Rooms : RemoveFromRoom(c, p)
          \/ RemoveTokens(c)
          \/ GivesUp(c)

AccountsSpec == AccountsInit /\ [][AccountsNext]_accountVars

----------------------------------------------------------------------------
(* A site always has an account that administers it: removals and demotions of *)
(* two administrators at once do not take both, though each looked when the    *)
(* other was there.                                                           *)
SiteKeepsAdmin == Administrators # {}

(* An invite link sets one password: not again, not after a newer link was     *)
(* issued, and not once its account is gone, though it was looked at before    *)
(* the password was hashed.                                                   *)
LinkWorksOnce == [][\A link \in void : uses'[link] = uses[link]]_accountVars

(* A name without an account has no membership and no token, so a later account *)
(* of that name starts with nothing: also when its removal stopped half way. A  *)
(* name that was given something while it was being removed is excepted.      *)
RemovedLeavesNothing ==
    \A n \in People \ met :
        ~Exists(n) => n \notin MemberNames /\ \A t \in tokens : t.name # n
=============================================================================
