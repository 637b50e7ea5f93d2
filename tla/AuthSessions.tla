---------------------------- MODULE AuthSessions ----------------------------
(***************************************************************************)
(* Accounts, one-time tokens and login sessions: rows of the tables users  *)
(* and organizations in PostgreSQL, and what the token service keeps in    *)
(* Redis (backend/services/auth_service.py, token_service.py,              *)
(* user_service.py, organization_service.py, backend/core/deps.py).        *)
(*                                                                         *)
(* A request runs in steps: every read of a committed row, every command   *)
(* to Redis, the flush, which locks rows, and the commit are steps of      *)
(* their own, so that requests overlap and crash between any two.  Redis   *)
(* knows nothing of the transaction.  A JWT is what its claims and its     *)
(* jti say; the notification service, which logs what it would mail, is    *)
(* taken to deliver the token.                                             *)
(***************************************************************************)
EXTENDS Integers, FiniteSets

CONSTANTS
  Emails,        \* addresses users register with and are invited by
  Ids,           \* bound: the uuids users get, in any order
  Tokens,        \* bound: the jtis tokens get, in any order
  Handlers,      \* sessions of requests
  InvitedRoles,  \* the roles invitations ask for
  MaxFailures,   \* bound: requests that crash
  Second,        \* moments in a second: the clock is finer than exp and TTLs
  Moments,       \* bound: when a request may read the clock or write a key
  ExpTimes,      \* bound: the claims exp of tokens, in seconds
  None           \* no row, no token

Role == {"Owner", "Admin", "Manager", "Employee"}

ASSUME AuthAssumption ==
  MaxFailures \in Nat /\ InvitedRoles \subseteq Role
ASSUME AuthTimesAssumption ==
  Second \in Nat \ {0} /\ Moments \subseteq Nat /\ ExpTimes \subseteq Nat
ASSUME AuthNoneAssumption == None \notin Ids /\ None \notin Tokens

VARIABLES
  users,          \* committed rows, by id
  organizations,  \* committed rows: an organization has the id of the user
                  \* who registered it
  taken,          \* ids given out
  tokens,         \* the claims of each token created so far
  redis,          \* refresh sessions and one-time tokens with a key in Redis
  blacklist,      \* access tokens with a key in Redis
  held,           \* tokens somebody was given, not expired
  access,         \* pairs whose access token was given out and has not expired
  sess,           \* what each request holds
  failures        \* crashes so far

vars == <<users, organizations, taken, tokens, redis, blacklist, held, access,
          sess, failures>>
database == <<users, organizations, taken>>
keys == <<redis, blacklist>>
clients == <<held, access>>

Status == {"active", "pending_verification", "invited"}

\* verified: whether email_verified_at is set.  password: the one-time token it
\* was last set with, None for the one chosen or made up when the row was created.
UserRow == [email : Emails, org : Ids, role : Role, status : Status,
            verified : BOOLEAN, password : Tokens \cup {None}]

\* A "session" is a pair of an access and a refresh token: two jtis that are
\* created together.  redis and held are about the refresh token of the pair.
TokenType == {"session", "password_reset", "email_verification", "invite"}
Token == [type : TokenType, sub : Ids, org : Ids, email : Emails]

ASSUME AuthRowAssumption == None \notin UserRow /\ None \notin Token

Creating == {"register", "invite_user"}
Consuming == {"reset_password", "verify_email", "accept_invite"}
Issuing == {"register", "login", "refresh", "forgot_password", "invite_user"}
Authorized == {"invite_user", "delete_workspace"}

\* who, row: the user row loaded or about to be inserted.  tok: the token
\* presented.  new: the token created.
Session ==
  [op : Creating \cup Consuming \cup Issuing \cup Authorized \cup {"logout", "none"},
   pc : {"idle", "got", "deleted", "unrevoked", "authorized", "loaded", "blacklisted",
         "read", "flushed", "ready", "issued", "committed"},
   who : Ids \cup {None}, row : UserRow \cup {None},
   tok : Tokens \cup {None}, new : Tokens \cup {None}]

Idle == [op |-> "none", pc |-> "idle", who |-> None, row |-> None,
         tok |-> None, new |-> None]

TypeOK ==
  /\ users \in [Ids -> UserRow \cup {None}]
  /\ organizations \subseteq Ids
  /\ taken \subseteq Ids
  /\ tokens \in [Tokens -> Token \cup {None}]
  /\ redis \subseteq Tokens /\ blacklist \subseteq Tokens
  /\ held \subseteq Tokens /\ access \subseteq Tokens
  /\ sess \in [Handlers -> Session]
  /\ failures \in 0..MaxFailures

Init ==
  /\ users = [i \in Ids |-> None] /\ organizations = {} /\ taken = {}
  /\ tokens = [t \in Tokens |-> None]
  /\ redis = {} /\ blacklist = {} /\ held = {} /\ access = {}
  /\ sess = [s \in Handlers |-> Idle]
  /\ failures = 0

-----------------------------------------------------------------------------
(* Roles, rows and tokens. *)

Rank == [r \in Role |-> CASE r = "Employee" -> 0 [] r = "Manager" -> 1
                          [] r = "Admin" -> 2 [] r = "Owner" -> 3]

is_role_allowed(role, required) == Rank[role] >= Rank[required]

\* What the routes ask for: require_min_role(Role.ADMIN) or require_min_role(Role.OWNER).
MinRole(op) == IF op = "delete_workspace" THEN "Owner" ELSE "Admin"

\* Of those the route lets in, Admins invite neither Admins nor Owners.
MayInvite(inviter, role) == inviter = "Admin" => role \notin {"Admin", "Owner"}

ByEmail(e) == {i \in Ids : users[i] # None /\ users[i].email = e}

NewOwner(e, i) ==
  [email |-> e, org |-> i, role |-> "Owner", status |-> "pending_verification",
   verified |-> FALSE, password |-> None]

\* Mutant: the organization is not set.
NewMemberUnbound(e, org, role) ==
  [email |-> e, org |-> None, role |-> role, status |-> "invited",
   verified |-> FALSE, password |-> None]

NewMember(e, org, role) ==
  [email |-> e, org |-> org, role |-> role, status |-> "invited",
   verified |-> FALSE, password |-> None]

\* Mutant: an accepted invitation does not count as a verified address.
AcceptedUnverified(row, t) == [row EXCEPT !.password = t, !.status = "active"]

\* activate_invited_user, and the verification the invitation stands for.
Accepted(row, t) == [row EXCEPT !.password = t, !.status = "active", !.verified = TRUE]

\* Mutant: the UPDATE writes every column as it was loaded.
UpdatedStale(row, x) ==
  CASE x.op = "reset_password" -> [x.row EXCEPT !.password = x.tok]
    [] x.op = "verify_email" -> [x.row EXCEPT !.status = "active", !.verified = TRUE]
    [] x.op = "accept_invite" -> Accepted(x.row, x.tok)

\* What an UPDATE leaves of the committed row: the columns the request changes.
Updated(row, x) ==
  CASE x.op = "reset_password" -> [row EXCEPT !.password = x.tok]
    [] x.op = "verify_email" -> [row EXCEPT !.status = "active", !.verified = TRUE]
    [] x.op = "accept_invite" -> Accepted(row, x.tok)

\* The type of token an operation hands out, and the type it takes.
TypeIssued(op) == CASE op = "register" -> "email_verification"
                    [] op = "forgot_password" -> "password_reset"
                    [] op = "invite_user" -> "invite"
                    [] op \in {"login", "refresh"} -> "session"
TypeTaken(op) == CASE op = "reset_password" -> "password_reset"
                   [] op = "verify_email" -> "email_verification"
                   [] op = "accept_invite" -> "invite"

Named(t) == tokens[t] # None
IsType(t, type) == Named(t) /\ tokens[t].type = type

\* Mutant: the user is looked up by the address in the claims.
LoadedByEmail(t) == ByEmail(tokens[t].email)

\* UserRepository.get_by_id with the claims sub and org_id: no row or one.
LoadedBy(t) ==
  {i \in Ids : i = tokens[t].sub /\ users[i] # None /\ users[i].org = tokens[t].org}

-----------------------------------------------------------------------------
(* Sessions. *)

Put(s, x) == sess' = [sess EXCEPT ![s] = x]
Step(s, pc) == sess' = [sess EXCEPT ![s].pc = pc]
Load(s, pc, i) ==
  sess' = [sess EXCEPT ![s].pc = pc, ![s].who = i, ![s].row = users[i]]

\* Between the flush, which locks, and the commit.  An invitation creates its token there.
InTransaction(x) ==
  x.pc = "flushed" \/ (x.op = "invite_user" /\ x.pc \in {"ready", "issued"})

\* The row locks of PostgreSQL: one row, one address of the unique index, and an
\* organization that one request deletes and another refers to.
Conflict(x, y) ==
  \/ x.row.email = y.row.email
  \/ /\ "delete_workspace" \in {x.op, y.op}
     /\ x.row.org = y.row.org
  \/ /\ y.op = "delete_workspace"
     /\ \E i \in ByEmail(x.row.email) : users[i].org = y.row.org

CanLock(s) ==
  \A h \in Handlers \ {s} : InTransaction(sess[h]) => ~Conflict(sess[s], sess[h])

\* Mutant: the foreign key is not checked.
FlushRaisesNoKey(x) ==
  \/ x.op \in Creating /\ ByEmail(x.row.email) # {}
  \/ x.op \in Consuming /\ users[x.who] = None

\* The unique index, the foreign key, and an UPDATE that finds no row.
FlushRaises(x) ==
  \/ x.op \in Creating /\ ByEmail(x.row.email) # {}
  \/ x.op = "invite_user" /\ x.row.org \notin organizations
  \/ x.op \in Consuming /\ users[x.who] = None

\* Bound: a request that will create a token begins while one is left, and stays
\* before Issue if others use up the last.
CanIssue == \E t \in Tokens : ~Named(t)

-----------------------------------------------------------------------------
(* Requests that create users, and their end. *)

\* The uuid is drawn here rather than at the flush.
RegisterRead(s) ==
  /\ sess[s] = Idle /\ CanIssue
  /\ \E e \in Emails, i \in Ids \ taken :
       /\ ByEmail(e) = {}
       /\ taken' = taken \cup {i}
       /\ Put(s, [Idle EXCEPT !.op = "register", !.pc = "read",
                              !.who = i, !.row = NewOwner(e, i)])
  /\ UNCHANGED <<users, organizations, tokens, keys, clients, failures>>

\* get_current_token_payload: the access token decodes and is not revoked.
Present(s) ==
  /\ sess[s] = Idle
  /\ \E op \in Authorized, a \in access \ blacklist :
       /\ op \in Issuing => CanIssue
       /\ Put(s, [Idle EXCEPT !.op = op, !.pc = "unrevoked", !.tok = a])
  /\ UNCHANGED <<database, tokens, keys, clients, failures>>

MayAct(x, i) ==
  users[i].status = "active" /\ is_role_allowed(users[i].role, MinRole(x.op))

\* get_current_user and require_min_role.
Authorize(s) ==
  /\ sess[s].pc = "unrevoked"
  /\ \E i \in LoadedBy(sess[s].tok) : MayAct(sess[s], i) /\ Load(s, "authorized", i)
  /\ UNCHANGED <<database, tokens, keys, clients, failures>>

InviteRead(s) ==
  LET x == sess[s]
  IN /\ x.op = "invite_user" /\ x.pc = "authorized"
     /\ \E e \in Emails, i \in Ids \ taken, role \in InvitedRoles :
          /\ ByEmail(e) = {}
          /\ MayInvite(x.row.role, role)
          /\ taken' = taken \cup {i}
          /\ Put(s, [x EXCEPT !.pc = "read", !.who = i,
                              !.row = NewMember(e, x.row.org, role)])
     /\ UNCHANGED <<users, organizations, tokens, keys, clients, failures>>

\* session.get of the organization, and session.delete, which loads its users.
DeleteRead(s) ==
  /\ sess[s].op = "delete_workspace" /\ sess[s].pc = "authorized"
  /\ sess[s].row.org \in organizations
  /\ Step(s, "read")
  /\ UNCHANGED <<database, tokens, keys, clients, failures>>

\* The moment at which a request has the last of its locks, whose order is the
\* subject of module RowLocks: nobody sees the rows it wrote before the commit.
Flush(s) ==
  LET x == sess[s]
  IN /\ x.pc = "read"
     /\ CanLock(s) /\ ~FlushRaises(x)
     /\ Step(s, IF x.op = "invite_user" THEN "ready" ELSE "flushed")
     /\ UNCHANGED <<database, tokens, keys, clients, failures>>

Commit(s) ==
  LET x == sess[s]
  IN /\ \/ x.pc = "flushed"
        \/ x.op = "invite_user" /\ x.pc = "issued"
     /\ users' = CASE x.op \in Creating -> [users EXCEPT ![x.who] = x.row]
                   [] x.op \in Consuming -> [users EXCEPT ![x.who] = Updated(@, x)]
                   [] x.op = "delete_workspace" ->
                        [i \in Ids |-> IF users[i] # None /\ users[i].org = x.row.org
                                       THEN None ELSE users[i]]
     /\ organizations' = CASE x.op = "register" -> organizations \cup {x.who}
                           [] x.op = "delete_workspace" -> organizations \ {x.row.org}
                           [] OTHER -> organizations
     /\ CASE x.op = "register" -> Step(s, "ready")
          [] x.op = "invite_user" -> Step(s, "committed")
          [] OTHER -> Put(s, Idle)
     /\ UNCHANGED <<taken, tokens, keys, clients, failures>>

-----------------------------------------------------------------------------
(* Requests about tokens. *)

\* The address is found, the password is right, the account is verified.
LoginRead(s) ==
  /\ sess[s] = Idle /\ CanIssue
  /\ \E i \in Ids :
       /\ users[i] # None /\ users[i].status = "active" /\ users[i].verified
       /\ Put(s, [Idle EXCEPT !.op = "login", !.pc = "loaded",
                              !.who = i, !.row = users[i]])
  /\ UNCHANGED <<database, tokens, keys, clients, failures>>

LoginOrganization(s) ==
  /\ sess[s].op = "login" /\ sess[s].pc = "loaded"
  /\ sess[s].row.org \in organizations
  /\ Step(s, "ready")
  /\ UNCHANGED <<database, tokens, keys, clients, failures>>

ForgotRead(s) ==
  /\ sess[s] = Idle /\ CanIssue
  /\ \E i \in Ids :
       /\ users[i] # None
       /\ Put(s, [Idle EXCEPT !.op = "forgot_password", !.pc = "ready",
                              !.who = i, !.row = users[i]])
  /\ UNCHANGED <<database, tokens, keys, clients, failures>>

\* get_refresh_session.
RefreshGet(s) ==
  /\ sess[s] = Idle /\ CanIssue
  /\ \E t \in held \cap redis :
       /\ IsType(t, "session")
       /\ Put(s, [Idle EXCEPT !.op = "refresh", !.pc = "got", !.tok = t])
  /\ UNCHANGED <<database, tokens, keys, clients, failures>>

RefreshLoad(s) ==
  /\ sess[s].op = "refresh" /\ sess[s].pc = "got"
  /\ \E i \in LoadedBy(sess[s].tok) : users[i].status = "active" /\ Load(s, "loaded", i)
  /\ UNCHANGED <<database, tokens, keys, clients, failures>>

\* revoke_refresh_token, which decodes the token once more.
RefreshDelete(s) ==
  /\ sess[s].op = "refresh" /\ sess[s].pc = "loaded"
  /\ sess[s].tok \in held
  /\ redis' = redis \ {sess[s].tok}
  /\ Step(s, "ready")
  /\ UNCHANGED <<database, tokens, blacklist, clients, failures>>

\* Mutant: a refresh extends the session presented instead of replacing it.
StoredExtended(x, n) == {n, x.tok} \ {None}

\* The key written with SETEX: that of the new token alone.
Stored(x, n) == {n}

\* create_token, and SETEX for the refresh token of a pair or the one-time token.
Issue(s) ==
  LET x == sess[s]
  IN /\ x.pc = "ready"
     /\ \E n \in Tokens :
          /\ ~Named(n)
          /\ tokens' = [tokens EXCEPT ![n] =
               [type |-> TypeIssued(x.op), sub |-> x.who,
                org |-> x.row.org, email |-> x.row.email]]
          /\ redis' = redis \cup Stored(x, n)
          /\ Put(s, [x EXCEPT !.pc = "issued", !.new = n])
     /\ UNCHANGED <<database, blacklist, clients, failures>>

\* The answer, or the mail, hands the token over.
Answer(s) ==
  LET x == sess[s]
  IN /\ IF x.op = "invite_user" THEN x.pc = "committed" ELSE x.pc = "issued"
     /\ held' = held \cup {x.new}
     /\ access' = IF tokens[x.new].type = "session" THEN access \cup {x.new} ELSE access
     /\ Put(s, Idle)
     /\ UNCHANGED <<database, tokens, keys, failures>>

\* logout revokes the access token that came along, if any decodes, and only then
\* decodes the refresh token, which may be of another pair, or none at all.
LogoutBlacklist(s) ==
  /\ sess[s] = Idle
  /\ \E t \in {t \in held : IsType(t, "session")} \cup {None}, a \in access \cup {None} :
       /\ blacklist' = blacklist \cup ({a} \ {None})
       /\ Put(s, [Idle EXCEPT !.op = "logout", !.pc = "blacklisted", !.tok = t])
  /\ UNCHANGED <<database, tokens, redis, clients, failures>>

LogoutDelete(s) ==
  /\ sess[s].op = "logout"
  /\ sess[s].tok \in held
  /\ redis' = redis \ {sess[s].tok}
  /\ Put(s, Idle)
  /\ UNCHANGED <<database, tokens, blacklist, clients, failures>>

\* consume_one_time_token looks the key up and then deletes it.
ConsumeGet(s) ==
  /\ sess[s] = Idle
  /\ \E op \in Consuming, t \in held \cap redis :
       /\ IsType(t, TypeTaken(op))
       /\ Put(s, [Idle EXCEPT !.op = op, !.pc = "got", !.tok = t])
  /\ UNCHANGED <<database, tokens, keys, clients, failures>>

ConsumeDelete(s) ==
  /\ sess[s].op \in Consuming /\ sess[s].pc = "got"
  /\ redis' = redis \ {sess[s].tok}
  /\ Step(s, "deleted")
  /\ UNCHANGED <<database, tokens, blacklist, clients, failures>>

\* Mutant: every one-time token is taken for an invitation.
MayConsumeInvited(x, i) == users[i].status = "invited"

MayConsume(x, i) == x.op = "accept_invite" => users[i].status = "invited"

ConsumeLoad(s) ==
  /\ sess[s].op \in Consuming /\ sess[s].pc = "deleted"
  /\ \E i \in LoadedBy(sess[s].tok) : MayConsume(sess[s], i) /\ Load(s, "read", i)
  /\ UNCHANGED <<database, tokens, keys, clients, failures>>

-----------------------------------------------------------------------------
(* Errors, crashes and time. *)

\* The next step of the request raises: an error answer, and the transaction is
\* rolled back.  What Redis was told stays.
Raises(s) ==
  LET x == sess[s]
  IN \/ x.pc = "unrevoked" /\ \A i \in LoadedBy(x.tok) : ~MayAct(x, i)
     \/ x.pc = "authorized" /\ (x.op = "delete_workspace" => x.row.org \notin organizations)
     \/ x.pc = "loaded" /\ IF x.op = "login" THEN x.row.org \notin organizations
                           ELSE x.tok \notin held
     \/ x.pc = "got" /\ x.op = "refresh"
          /\ \A i \in LoadedBy(x.tok) : users[i].status # "active"
     \/ x.pc = "blacklisted" /\ x.tok \notin held
     \/ x.pc = "deleted" /\ \A i \in LoadedBy(x.tok) : ~MayConsume(x, i)
     \/ x.pc = "read" /\ CanLock(s) /\ FlushRaises(x)

Fail(s) ==
  /\ sess[s] # Idle
  /\ Raises(s) \/ failures < MaxFailures
  /\ Put(s, Idle)
  /\ failures' = IF Raises(s) THEN failures ELSE failures + 1
  /\ UNCHANGED <<database, tokens, keys, clients>>

\* A refresh or one-time token runs out, and its key, which is of no use without it.
\* Tokens outlive the request that makes them.
Expire(t) ==
  /\ t \in held \cup redis
  /\ \A h \in Handlers : sess[h].new # t
  /\ held' = held \ {t}
  /\ redis' = redis \ {t}
  /\ UNCHANGED <<database, tokens, blacklist, access, sess, failures>>

AccessExpire(t) ==
  /\ t \in access
  /\ access' = access \ {t}
  /\ UNCHANGED <<database, tokens, keys, held, sess, failures>>

\* int(time.time())
Seconds(moment) == moment \div Second

\* Mutant: the time is rounded up.
TimeLeftRoundedUp(exp, moment) == exp - Seconds(moment + Second - 1)

TimeLeft(exp, moment) == exp - Seconds(moment)

\* Redis takes no time to live that is not positive.
_ttl_seconds(exp, moment) == IF TimeLeft(exp, moment) > 1 THEN TimeLeft(exp, moment) ELSE 1

\* A key may end while its token still decodes: its TTL is worked out at one moment
\* and counted from a later one, at which Redis is told.
KeyEndsFirst ==
  \E exp \in ExpTimes, read, written \in Moments :
    read <= written /\ written + _ttl_seconds(exp, read) * Second < exp * Second

BlacklistExpire(t) ==
  /\ t \in blacklist
  /\ t \in access => KeyEndsFirst
  /\ blacklist' = blacklist \ {t}
  /\ UNCHANGED <<database, tokens, redis, clients, sess, failures>>

Begin(s) == RegisterRead(s) \/ LoginRead(s) \/ ForgotRead(s) \/ RefreshGet(s)
              \/ LogoutBlacklist(s) \/ ConsumeGet(s) \/ Present(s)

Proceed(s) ==
  \/ Authorize(s) \/ InviteRead(s) \/ DeleteRead(s) \/ Flush(s) \/ Commit(s)
  \/ LoginOrganization(s) \/ RefreshLoad(s) \/ RefreshDelete(s)
  \/ Issue(s) \/ Answer(s) \/ LogoutDelete(s) \/ ConsumeDelete(s) \/ ConsumeLoad(s)

Handle(s) == Begin(s) \/ Proceed(s) \/ Fail(s)
Time == \E t \in Tokens : Expire(t) \/ AccessExpire(t) \/ BlacklistExpire(t)

Next == (\E s \in Handlers : Handle(s)) \/ Time
Spec == Init /\ [][Next]_vars

-----------------------------------------------------------------------------
(* Properties *)

\* The password of a user was set with a token that was made for this very user,
\* although workspaces are deleted and addresses registered again while the token
\* is under way.
PasswordByOwnToken ==
  \A i \in Ids :
    (users[i] # None /\ users[i].password # None)
      => tokens[users[i].password].sub = i

\* A workspace is deleted as a whole: whatever invitations and deletions overlap,
\* a user has an organization and an organization the user who registered it.
WorkspaceWhole ==
  /\ \A i \in Ids : users[i] # None => users[i].org \in organizations
  /\ \A o \in organizations : users[o] # None /\ users[o].role = "Owner"

\* Whichever way an account became active, its address is verified: else the
\* login refuses it for good.
ActiveIsVerified ==
  \A i \in Ids : users[i] # None => (users[i].status = "active" <=> users[i].verified)

\* As long as nothing crashes, whoever has registered or was invited holds, or is
\* about to get, a token that still works, or is just using it, until it runs out.
PendingCanProceed ==
  failures = 0 =>
    \A i \in Ids :
      (users[i] # None /\ users[i].status # "active") =>
        \/ \E s \in Handlers :
             \/ sess[s].who = i /\ sess[s].op \in Creating
             \/ /\ sess[s].op \in {"verify_email", "accept_invite"}
                /\ tokens[sess[s].tok].sub = i
        \/ \E t \in Tokens :
             /\ IsType(t, "email_verification") \/ IsType(t, "invite")
             /\ tokens[t].sub = i
             /\ t \in held => t \in redis

\* Requests about one account undo nothing of each other, although each writes a row
\* that it read some steps before: address, organization and role stay, a verified
\* address stays verified, and a password gives way only to one set with a token
\* that is used up by then.
AccountsMoveOn ==
  [][\A i \in Ids : (users[i] # None /\ users'[i] # None) =>
       LET old == users[i]
           new == users'[i]
       IN /\ <<new.email, new.org, new.role>> = <<old.email, old.org, old.role>>
          /\ old.verified => new.verified
          /\ new.password # old.password => new.password \in Tokens \ redis]_vars

\* A refresh token or one-time token that somebody holds and that was revoked,
\* used or rotated away never works again.
RevokedStaysRevoked ==
  [][\A t \in Tokens : (t \in held /\ t \notin redis) => t \notin redis']_vars

\* An access token that was revoked is not accepted again as long as it decodes: that
\* exp and TTLs are whole seconds, and that time passes between the clock and SETEX,
\* never ends its key first.
BlacklistOutlivesToken == [][\A t \in access \cap blacklist : t \in blacklist']_vars

(* A claim made about this code that it does not keep. *)

\* consume_one_time_token says a token "was already used": it lets nobody use it
\* while another request does.
OneTimeTokenUsedOnce ==
  \A s, h \in Handlers :
    (s # h /\ {sess[s].op, sess[h].op} \subseteq Consuming
       /\ {sess[s].pc, sess[h].pc} \subseteq {"deleted", "read", "flushed"})
      => sess[s].tok # sess[h].tok
=============================================================================
