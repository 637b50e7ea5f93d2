------------------------- MODULE AuthSessionsProofs -------------------------
(***************************************************************************)
(* Proofs of the safety properties of AuthSessions, for every number of    *)
(* addresses, ids, tokens and requests, and any number of crashes.         *)
(*                                                                         *)
(* The inductive invariant says of every request what it has found out so  *)
(* far and can still rely on, and of every two of them what the row locks  *)
(* and the fresh ids keep apart.                                           *)
(***************************************************************************)
EXTENDS AuthSessions, TLAPS

-----------------------------------------------------------------------------
(* The inductive invariant. *)

\* From the check that the address is free to the commit of the new row.
Uncommitted(x) ==
  /\ x.op \in Creating
  /\ x.pc \in {"read", "flushed"} \/ (x.op = "invite_user" /\ x.pc \in {"ready", "issued"})

\* From the load of the user to the commit of what the token is for.
Consumer(x) == x.op \in Consuming /\ x.pc \in {"read", "flushed"}

\* Which operations come to which step, and what they have loaded there.
Shape(x) ==
  /\ x.pc = "got" => x.op \in Consuming \cup {"refresh"}
  /\ x.pc = "deleted" => x.op \in Consuming
  /\ x.pc \in {"unrevoked", "authorized"} => x.op \in Authorized
  /\ x.pc = "loaded" => x.op \in {"login", "refresh"}
  /\ x.pc = "read" => x.op \in Creating \cup Consuming \cup {"delete_workspace"}
  /\ x.pc = "flushed" => x.op \in Consuming \cup {"register", "delete_workspace"}
  /\ x.pc \in {"ready", "issued"} => x.op \in Issuing
  /\ x.pc = "committed" => x.op = "invite_user"
  /\ x.pc \in {"authorized", "loaded", "read", "flushed", "ready", "issued", "committed"}
       => x.who \in Ids /\ x.row \in UserRow

\* What a request has to do with the tokens.
Holds(x) ==
  /\ x.op \in Consuming \cup {"refresh"} => x.tok \in Tokens /\ Named(x.tok)
  /\ x.pc \in {"issued", "committed"} => x.new \in Tokens /\ Named(x.new)
  /\ Consumer(x) => tokens[x.tok].sub = x.who

\* The row a request is about to insert.
Inserts(x) ==
  Uncommitted(x) =>
    /\ users[x.who] = None
    /\ x.row.status # "active" /\ ~x.row.verified /\ x.row.password = None
    /\ x.op = "register" => x.row.org = x.who /\ x.row.role = "Owner"

\* The row a request is about to update, and the organization it refers to: once it
\* has flushed, its locks keep them from being deleted.
Relies(x) ==
  /\ Consumer(x) => /\ users[x.who] # None => users[x.who].org = x.row.org
                    /\ x.pc = "flushed" => users[x.who] # None
  /\ x.op = "invite_user" /\ x.pc \in {"ready", "issued"} => x.row.org \in organizations

Fits(x) ==
  /\ Shape(x) /\ Holds(x) /\ Inserts(x) /\ Relies(x)
  /\ x.who \in taken \cup {None}

\* Of two requests: a new id is nobody else's, and the locks of a deletion keep out
\* whatever refers to the workspace.
Apart(x, y) ==
  /\ Uncommitted(x) => y.who # x.who
  /\ (InTransaction(x) /\ InTransaction(y) /\ x.op = "delete_workspace")
       => x.row.org # y.row.org

Rows ==
  \A i \in Ids : users[i] # None =>
    /\ i \in taken
    /\ users[i].org \in organizations
    /\ users[i].status = "active" <=> users[i].verified
    /\ users[i].password # None =>
         Named(users[i].password) /\ tokens[users[i].password].sub = i

Owners ==
  \A o \in organizations : users[o] # None /\ users[o].role = "Owner" /\ users[o].org = o

AuthInv ==
  /\ TypeOK
  /\ \A t \in held : Named(t)
  /\ \A s \in Handlers : Fits(sess[s])
  /\ \A s, h \in Handlers : s # h => Apart(sess[s], sess[h])
  /\ Rows
  /\ Owners

-----------------------------------------------------------------------------
(* Steps that leave the rows alone. *)

\* A step of one request that changes no row and keeps the claims of every token:
\* it is enough to look at what the request holds afterwards.
LEMMA SessionStep ==
  ASSUME AuthInv, NEW s \in Handlers, NEW y \in Session,
         sess' = [sess EXCEPT ![s] = y],
         UNCHANGED <<users, organizations>>,
         TypeOK', taken \subseteq taken',
         \A t \in Tokens : Named(t) => tokens'[t] = tokens[t],
         \A t \in held' : Named(t)',
         Fits(y)',
         \A h \in Handlers : h # s => Apart(y, sess[h]) /\ Apart(sess[h], y)
  PROVE  AuthInv'
<1>1. sess \in [Handlers -> Session] /\ users \in [Ids -> UserRow \cup {None}]
  BY DEF AuthInv, TypeOK
<1>2. sess'[s] = y /\ \A h \in Handlers : h # s => sess'[h] = sess[h]
  BY <1>1
<1>3. \A t \in Tokens : Named(t) => Named(t)'
  BY DEF Named
<1>4. ASSUME NEW h \in Handlers, h # s PROVE Fits(sess[h])'
  <2>1. Fits(sess[h]) /\ sess[h] \in Session
    BY <1>1 DEF AuthInv
  <2>2. Shape(sess'[h]) /\ sess'[h] = sess[h]
    BY <2>1, <1>2, <1>4 DEF Fits
  <2>3. Holds(sess[h])'
    BY <2>1, <2>2, <1>3 DEF Fits, Holds, Consumer, Session
  <2>4. Inserts(sess[h])' /\ Relies(sess[h])'
    BY <2>1, <2>2 DEF Fits, Inserts, Relies
  <2> QED BY <2>1, <2>2, <2>3, <2>4 DEF Fits
<1>5. \A h \in Handlers : Fits(sess[h])'
  BY <1>2, <1>4
<1>6. \A h, k \in Handlers : h # k => Apart(sess[h], sess[k])'
  <2> SUFFICES ASSUME NEW h \in Handlers, NEW k \in Handlers, h # k
               PROVE  Apart(sess'[h], sess'[k])
    BY DEF Apart
  <2> QED BY <1>2 DEF AuthInv
<1>7. Rows'
  BY <1>1, <1>3 DEF AuthInv, Rows, UserRow
<1>8. Owners'
  BY DEF AuthInv, Owners
<1> QED BY <1>5, <1>6, <1>7, <1>8 DEF AuthInv

\* What is known of a request before its step.
LEMMA Before ==
  ASSUME AuthInv, NEW s \in Handlers
  PROVE  /\ sess \in [Handlers -> Session] /\ sess[s] \in Session /\ Fits(sess[s])
         /\ users \in [Ids -> UserRow \cup {None}]
         /\ tokens \in [Tokens -> Token \cup {None}]
         /\ \A h \in Handlers : h # s => Apart(sess[s], sess[h]) /\ Apart(sess[h], sess[s])
         /\ None \notin Ids /\ None \notin Tokens /\ None \notin UserRow /\ None \notin Token
BY AuthNoneAssumption, AuthRowAssumption DEF AuthInv, TypeOK

LEMMA IdleFits ==
  /\ Idle \in Session /\ Idle.op = "none" /\ Idle.pc = "idle" /\ Idle.who = None
  /\ ~Uncommitted(Idle) /\ ~InTransaction(Idle) /\ Fits(Idle)
BY DEF Idle, Session, Uncommitted, InTransaction, Fits, Shape, Holds, Inserts, Relies,
       Consumer, Creating, Consuming, Issuing, Authorized

\* The end of a request, by an answer, an error or a crash.
LEMMA EndStep ==
  ASSUME AuthInv, NEW s \in Handlers,
         sess' = [sess EXCEPT ![s] = Idle],
         UNCHANGED <<users, organizations, taken, tokens>>,
         redis' \subseteq redis, UNCHANGED blacklist,
         held' \subseteq Tokens, \A t \in held' : Named(t),
         access' \subseteq Tokens, failures' \in 0..MaxFailures
  PROVE  AuthInv'
<1>1. PICK y : y = Idle
  OBVIOUS
<1>2. TypeOK'
  BY IdleFits DEF AuthInv, TypeOK
<1>3. Fits(y)'
  BY <1>1, IdleFits DEF Fits, Shape, Holds, Inserts, Relies, Consumer, Named
<1>4. \A h \in Handlers : h # s => Apart(y, sess[h]) /\ Apart(sess[h], y)
  <2> SUFFICES ASSUME NEW h \in Handlers, h # s
               PROVE  Apart(Idle, sess[h]) /\ Apart(sess[h], Idle)
    BY <1>1
  <2>1. Uncommitted(sess[h]) => sess[h].who \in Ids
    BY Before DEF Fits, Shape, Uncommitted, Creating
  <2>2. sess[h].who # None \/ ~Uncommitted(sess[h])
    BY <2>1, Before
  <2> QED BY <2>2, IdleFits DEF Apart
<1>5. \A t \in held' : Named(t)'
  BY DEF Named
<1> QED BY <1>1, <1>2, <1>3, <1>4, <1>5, SessionStep, IdleFits

\* The beginning of a request that has loaded what it presents.
LEMMA BeginStep ==
  ASSUME AuthInv, NEW s \in Handlers, NEW y \in Session,
         sess' = [sess EXCEPT ![s] = y],
         UNCHANGED <<users, organizations, taken, tokens, redis, held, access, failures>>,
         blacklist' \subseteq Tokens,
         ~Uncommitted(y), ~InTransaction(y), Fits(y),
         \A h \in Handlers : (h # s /\ Uncommitted(sess[h])) => y.who # sess[h].who
  PROVE  AuthInv'
<1>1. TypeOK'
  BY DEF AuthInv, TypeOK
<1>2. Fits(y)'
  BY DEF Fits, Shape, Holds, Inserts, Relies, Consumer, Named
<1>3. \A h \in Handlers : h # s => Apart(y, sess[h]) /\ Apart(sess[h], y)
  BY DEF Apart
<1>4. \A t \in held' : Named(t)'
  BY DEF AuthInv, Named
<1> QED BY <1>1, <1>2, <1>3, <1>4, SessionStep

\* A user that can be loaded has been committed, so that nobody is about to insert it.
LEMMA LoadedIsCommitted ==
  ASSUME AuthInv, NEW i \in Ids, users[i] # None
  PROVE  /\ i \in taken /\ users[i] \in UserRow
         /\ \A h \in Handlers : Uncommitted(sess[h]) => i # sess[h].who
BY DEF AuthInv, Rows, TypeOK, Fits, Inserts

LEMMA OpsDistinct ==
  /\ Creating = {"register", "invite_user"}
  /\ Consuming = {"reset_password", "verify_email", "accept_invite"}
  /\ Issuing = {"register", "login", "refresh", "forgot_password", "invite_user"}
  /\ Authorized = {"invite_user", "delete_workspace"}
BY DEF Creating, Consuming, Issuing, Authorized

-----------------------------------------------------------------------------
(* Requests begin. *)

LEMMA LoginReadStep ==
  ASSUME AuthInv, NEW s \in Handlers, LoginRead(s)
  PROVE  AuthInv'
<1>1. PICK i \in Ids :
        /\ users[i] # None
        /\ sess' = [sess EXCEPT ![s] = [Idle EXCEPT !.op = "login", !.pc = "loaded",
                                                    !.who = i, !.row = users[i]]]
  BY DEF LoginRead, Put
<1>2. PICK y : y = [Idle EXCEPT !.op = "login", !.pc = "loaded", !.who = i, !.row = users[i]]
  OBVIOUS
<1>3. y \in Session /\ ~Uncommitted(y) /\ ~InTransaction(y) /\ Fits(y)
  BY <1>1, <1>2, LoadedIsCommitted, OpsDistinct
     DEF Idle, Session, Uncommitted, InTransaction, Fits, Shape, Holds, Inserts, Relies, Consumer
<1>4. blacklist' \subseteq Tokens
  BY DEF LoginRead, keys, AuthInv, TypeOK
<1>5. \A h \in Handlers : (h # s /\ Uncommitted(sess[h])) => y.who # sess[h].who
  BY <1>1, <1>2, LoadedIsCommitted DEF Idle
<1>6. sess' = [sess EXCEPT ![s] = y]
  BY <1>1, <1>2
<1> QED BY <1>3, <1>4, <1>5, <1>6, BeginStep DEF LoginRead, database, keys, clients

LEMMA ForgotReadStep ==
  ASSUME AuthInv, NEW s \in Handlers, ForgotRead(s)
  PROVE  AuthInv'
<1>1. PICK i \in Ids :
        /\ users[i] # None
        /\ sess' = [sess EXCEPT ![s] = [Idle EXCEPT !.op = "forgot_password", !.pc = "ready",
                                                    !.who = i, !.row = users[i]]]
  BY DEF ForgotRead, Put
<1>2. PICK y : y = [Idle EXCEPT !.op = "forgot_password", !.pc = "ready",
                                !.who = i, !.row = users[i]]
  OBVIOUS
<1>3. y \in Session /\ ~Uncommitted(y) /\ ~InTransaction(y) /\ Fits(y)
  BY <1>1, <1>2, LoadedIsCommitted, OpsDistinct
     DEF Idle, Session, Uncommitted, InTransaction, Fits, Shape, Holds, Inserts, Relies, Consumer
<1>4. blacklist' \subseteq Tokens
  BY DEF ForgotRead, keys, AuthInv, TypeOK
<1>5. \A h \in Handlers : (h # s /\ Uncommitted(sess[h])) => y.who # sess[h].who
  BY <1>1, <1>2, LoadedIsCommitted DEF Idle
<1>6. sess' = [sess EXCEPT ![s] = y]
  BY <1>1, <1>2
<1> QED BY <1>3, <1>4, <1>5, <1>6, BeginStep DEF ForgotRead, database, keys, clients

\* A request that presents a token has loaded nothing yet.
LEMMA PresentedStep ==
  ASSUME AuthInv, NEW s \in Handlers, NEW y \in Session,
         sess' = [sess EXCEPT ![s] = y],
         y.who = None, y.pc \in {"got", "unrevoked", "blacklisted"},
         Shape(y), Holds(y),
         UNCHANGED <<users, organizations, taken, tokens, redis, held, access, failures>>,
         blacklist' \subseteq Tokens
  PROVE  AuthInv'
<1>1. ~Uncommitted(y) /\ ~InTransaction(y) /\ Fits(y)
  BY DEF Uncommitted, InTransaction, Fits, Inserts, Relies, Consumer
<1>2. \A h \in Handlers : Uncommitted(sess[h]) => y.who # sess[h].who
  <2> SUFFICES ASSUME NEW h \in Handlers, Uncommitted(sess[h]) PROVE sess[h].who # None
    OBVIOUS
  <2> QED BY Before DEF Fits, Shape, Uncommitted, Creating
<1> QED BY <1>1, <1>2, BeginStep

LEMMA PresentStep ==
  ASSUME AuthInv, NEW s \in Handlers, Present(s)
  PROVE  AuthInv'
<1>1. PICK op \in Authorized, a \in access :
        sess' = [sess EXCEPT ![s] = [Idle EXCEPT !.op = op, !.pc = "unrevoked", !.tok = a]]
  BY DEF Present, Put
<1>2. PICK y : y = [Idle EXCEPT !.op = op, !.pc = "unrevoked", !.tok = a]
  OBVIOUS
<1>3. y \in Session /\ Shape(y) /\ Holds(y)
  BY <1>2, OpsDistinct DEF Idle, Session, Shape, Holds, Consumer, AuthInv, TypeOK
<1>4. y.who = None /\ y.pc = "unrevoked" /\ blacklist' \subseteq Tokens
  BY <1>2 DEF Idle, Present, keys, AuthInv, TypeOK
<1> QED BY <1>1, <1>2, <1>3, <1>4, PresentedStep DEF Present, database, keys, clients

LEMMA RefreshGetStep ==
  ASSUME AuthInv, NEW s \in Handlers, RefreshGet(s)
  PROVE  AuthInv'
<1>1. PICK t \in held :
        sess' = [sess EXCEPT ![s] = [Idle EXCEPT !.op = "refresh", !.pc = "got", !.tok = t]]
  BY DEF RefreshGet, Put
<1>2. PICK y : y = [Idle EXCEPT !.op = "refresh", !.pc = "got", !.tok = t]
  OBVIOUS
<1>3. y \in Session /\ Shape(y) /\ Holds(y)
  BY <1>2, OpsDistinct DEF Idle, Session, Shape, Holds, Consumer, AuthInv, TypeOK
<1>4. y.who = None /\ y.pc = "got" /\ blacklist' \subseteq Tokens
  BY <1>2 DEF Idle, RefreshGet, keys, AuthInv, TypeOK
<1> QED BY <1>1, <1>2, <1>3, <1>4, PresentedStep DEF RefreshGet, database, keys, clients

LEMMA ConsumeGetStep ==
  ASSUME AuthInv, NEW s \in Handlers, ConsumeGet(s)
  PROVE  AuthInv'
<1>1. PICK op \in Consuming, t \in held :
        sess' = [sess EXCEPT ![s] = [Idle EXCEPT !.op = op, !.pc = "got", !.tok = t]]
  BY DEF ConsumeGet, Put
<1>2. PICK y : y = [Idle EXCEPT !.op = op, !.pc = "got", !.tok = t]
  OBVIOUS
<1>3. y \in Session /\ Shape(y) /\ Holds(y)
  BY <1>2, OpsDistinct DEF Idle, Session, Shape, Holds, Consumer, AuthInv, TypeOK
<1>4. y.who = None /\ y.pc = "got" /\ blacklist' \subseteq Tokens
  BY <1>2 DEF Idle, ConsumeGet, keys, AuthInv, TypeOK
<1> QED BY <1>1, <1>2, <1>3, <1>4, PresentedStep DEF ConsumeGet, database, keys, clients

LEMMA LogoutBlacklistStep ==
  ASSUME AuthInv, NEW s \in Handlers, LogoutBlacklist(s)
  PROVE  AuthInv'
<1>1. PICK t \in held \cup {None}, a \in access \cup {None} :
        /\ blacklist' = blacklist \cup ({a} \ {None})
        /\ sess' = [sess EXCEPT ![s] = [Idle EXCEPT !.op = "logout", !.pc = "blacklisted",
                                                    !.tok = t]]
  BY DEF LogoutBlacklist, Put
<1>2. PICK y : y = [Idle EXCEPT !.op = "logout", !.pc = "blacklisted", !.tok = t]
  OBVIOUS
<1>3. y \in Session /\ Shape(y) /\ Holds(y)
  BY <1>2, OpsDistinct DEF Idle, Session, Shape, Holds, Consumer, AuthInv, TypeOK
<1>4. y.who = None /\ y.pc = "blacklisted"
  BY <1>2 DEF Idle
<1>5. blacklist' \subseteq Tokens
  BY <1>1 DEF AuthInv, TypeOK
<1> QED BY <1>1, <1>2, <1>3, <1>4, <1>5, PresentedStep
       DEF LogoutBlacklist, database, clients

\* A fresh id is nobody's.
LEMMA RegisterReadStep ==
  ASSUME AuthInv, NEW s \in Handlers, RegisterRead(s)
  PROVE  AuthInv'
<1>1. PICK e \in Emails, i \in Ids \ taken :
        /\ taken' = taken \cup {i}
        /\ sess' = [sess EXCEPT ![s] = [Idle EXCEPT !.op = "register", !.pc = "read",
                                                    !.who = i, !.row = NewOwner(e, i)]]
  BY DEF RegisterRead, Put
<1>2. PICK y : y = [Idle EXCEPT !.op = "register", !.pc = "read",
                                !.who = i, !.row = NewOwner(e, i)]
  OBVIOUS
<1>3. NewOwner(e, i) \in UserRow
  BY DEF NewOwner, UserRow, Role, Status
<1>4. y \in Session
  BY <1>2, <1>3, OpsDistinct DEF Idle, Session
<1>5. users[i] = None
  BY DEF AuthInv, Rows
<1>6. /\ y.op = "register" /\ y.pc = "read" /\ y.who = i
      /\ y.row = NewOwner(e, i) /\ y.tok = None /\ y.new = None
  BY <1>2 DEF Idle
<1>7. Fits(y)'
  BY <1>1, <1>3, <1>5, <1>6, OpsDistinct
     DEF Fits, Shape, Holds, Inserts, Relies, Consumer, Uncommitted, NewOwner, RegisterRead
<1>8. \A h \in Handlers : h # s => Apart(y, sess[h]) /\ Apart(sess[h], y)
  <2> SUFFICES ASSUME NEW h \in Handlers, h # s
               PROVE  Apart(y, sess[h]) /\ Apart(sess[h], y)
    OBVIOUS
  <2>1. sess[h].who # i
    BY Before DEF AuthInv, Fits
  <2> QED BY <2>1, <1>6 DEF Apart, InTransaction
<1>9. TypeOK' /\ \A t \in held' : Named(t)'
  BY <1>1, <1>2, <1>4 DEF AuthInv, TypeOK, RegisterRead, keys, clients, Named
<1> QED BY <1>1, <1>2, <1>4, <1>7, <1>8, <1>9, SessionStep DEF RegisterRead

LEMMA InviteReadStep ==
  ASSUME AuthInv, NEW s \in Handlers, InviteRead(s)
  PROVE  AuthInv'
<1> DEFINE x == sess[s]
<1>1. PICK e \in Emails, i \in Ids \ taken, role \in InvitedRoles :
        /\ taken' = taken \cup {i}
        /\ sess' = [sess EXCEPT ![s] = [x EXCEPT !.pc = "read", !.who = i,
                                                 !.row = NewMember(e, x.row.org, role)]]
  BY DEF InviteRead, Put
<1>2. PICK y : y = [x EXCEPT !.pc = "read", !.who = i, !.row = NewMember(e, x.row.org, role)]
  OBVIOUS
<1>3. x.op = "invite_user" /\ x.row \in UserRow
  BY Before DEF InviteRead, Fits, Shape
<1>4. NewMember(e, x.row.org, role) \in UserRow
  BY <1>3, AuthAssumption DEF NewMember, UserRow, Role, Status
<1>5. y \in Session
  BY <1>2, <1>4, Before, ZenonT(60) DEF Session
<1>6. users[i] = None
  BY DEF AuthInv, Rows
<1>7. /\ y.op = "invite_user" /\ y.pc = "read" /\ y.who = i
      /\ y.row = NewMember(e, x.row.org, role)
  BY <1>2, <1>3, Before DEF Session
<1>8. Fits(y)'
  BY <1>1, <1>4, <1>6, <1>7, OpsDistinct
     DEF Fits, Shape, Holds, Inserts, Relies, Consumer, Uncommitted, NewMember, InviteRead
<1>9. \A h \in Handlers : h # s => Apart(y, sess[h]) /\ Apart(sess[h], y)
  <2> SUFFICES ASSUME NEW h \in Handlers, h # s
               PROVE  Apart(y, sess[h]) /\ Apart(sess[h], y)
    OBVIOUS
  <2>1. sess[h].who # i
    BY Before DEF AuthInv, Fits
  <2> QED BY <2>1, <1>7 DEF Apart, InTransaction
<1>10. TypeOK' /\ \A t \in held' : Named(t)'
  BY <1>1, <1>2, <1>5 DEF AuthInv, TypeOK, InviteRead, keys, clients, Named
<1> QED BY <1>1, <1>2, <1>5, <1>8, <1>9, <1>10, SessionStep DEF InviteRead

-----------------------------------------------------------------------------
(* Requests proceed. *)

\* A request that loads a committed user.
LEMMA LoadStep ==
  ASSUME AuthInv, NEW s \in Handlers, NEW pc \in {"authorized", "loaded", "read"},
         NEW i \in Ids, users[i] # None, Load(s, pc, i),
         Shape([sess[s] EXCEPT !.pc = pc, !.who = i, !.row = users[i]]),
         sess[s].op \notin Creating \/ pc = "authorized",
         sess[s].op \in Consuming => tokens[sess[s].tok].sub = i,
         UNCHANGED <<users, organizations, taken, tokens, redis, blacklist, held, access,
                     failures>>
  PROVE  AuthInv'
<1> DEFINE x == sess[s]
<1>1. PICK y : y = [x EXCEPT !.pc = pc, !.who = i, !.row = users[i]]
  OBVIOUS
<1>2. users[i] \in UserRow /\ i \in taken
  BY LoadedIsCommitted
<1>3. y \in Session
  BY <1>1, <1>2, Before, ZenonT(60) DEF Session
<1>4. /\ y.op = x.op /\ y.pc = pc /\ y.who = i /\ y.row = users[i]
      /\ y.tok = x.tok /\ y.new = x.new
  BY <1>1, Before DEF Session
<1>5. sess' = [sess EXCEPT ![s] = y]
  BY <1>1, Before DEF Load, Session
<1>6. ~Uncommitted(y) /\ ~InTransaction(y)
  BY <1>4, OpsDistinct DEF Uncommitted, InTransaction
<1>7. Fits(y)
  <2>1. Shape(y)
    BY <1>1
  <2>2. Holds(y)
    BY <1>4, Before DEF Holds, Fits, Consumer
  <2>3. Inserts(y) /\ Relies(y)
    BY <1>4, <1>6 DEF Inserts, Relies, Consumer
  <2> QED BY <2>1, <2>2, <2>3, <1>2, <1>4 DEF Fits
<1>8. \A h \in Handlers : (h # s /\ Uncommitted(sess[h])) => y.who # sess[h].who
  BY <1>4, LoadedIsCommitted
<1>9. blacklist' \subseteq Tokens
  BY DEF AuthInv, TypeOK
<1> QED BY <1>3, <1>5, <1>6, <1>7, <1>8, <1>9, BeginStep

LEMMA AuthorizeStep ==
  ASSUME AuthInv, NEW s \in Handlers, Authorize(s)
  PROVE  AuthInv'
<1>1. PICK i \in Ids : users[i] # None /\ Load(s, "authorized", i)
  BY DEF Authorize, LoadedBy
<1>2. sess[s].op \in Authorized
  BY Before DEF Authorize, Fits, Shape
<1>3. Shape([sess[s] EXCEPT !.pc = "authorized", !.who = i, !.row = users[i]])
  BY <1>1, <1>2, LoadedIsCommitted, Before DEF Shape, Session
<1> QED BY <1>1, <1>2, <1>3, LoadStep, OpsDistinct
       DEF Authorize, database, keys, clients

LEMMA RefreshLoadStep ==
  ASSUME AuthInv, NEW s \in Handlers, RefreshLoad(s)
  PROVE  AuthInv'
<1>1. PICK i \in Ids : users[i] # None /\ Load(s, "loaded", i)
  BY DEF RefreshLoad, LoadedBy
<1>2. sess[s].op = "refresh"
  BY DEF RefreshLoad
<1>3. Shape([sess[s] EXCEPT !.pc = "loaded", !.who = i, !.row = users[i]])
  BY <1>1, <1>2, LoadedIsCommitted, Before DEF Shape, Session
<1> QED BY <1>1, <1>2, <1>3, LoadStep, OpsDistinct
       DEF RefreshLoad, database, keys, clients

LEMMA ConsumeLoadStep ==
  ASSUME AuthInv, NEW s \in Handlers, ConsumeLoad(s)
  PROVE  AuthInv'
<1>1. PICK i \in Ids : users[i] # None /\ Load(s, "read", i) /\ i = tokens[sess[s].tok].sub
  BY DEF ConsumeLoad, LoadedBy
<1>2. sess[s].op \in Consuming
  BY DEF ConsumeLoad
<1>3. Shape([sess[s] EXCEPT !.pc = "read", !.who = i, !.row = users[i]])
  BY <1>1, <1>2, LoadedIsCommitted, Before DEF Shape, Session
<1> QED BY <1>1, <1>2, <1>3, LoadStep, OpsDistinct
       DEF ConsumeLoad, database, keys, clients

\* A request that goes on with what it has.
LEMMA MoveStep ==
  ASSUME AuthInv, NEW s \in Handlers, NEW y \in Session,
         sess' = [sess EXCEPT ![s] = y],
         y.op = sess[s].op /\ y.who = sess[s].who /\ y.row = sess[s].row,
         Fits(y),
         Uncommitted(y) => Uncommitted(sess[s]),
         ~InTransaction(y) \/ InTransaction(sess[s]) \/ CanLock(s),
         UNCHANGED <<users, organizations, taken, tokens, blacklist, held, access, failures>>,
         redis' \subseteq redis
  PROVE  AuthInv'
<1> DEFINE x == sess[s]
<1>1. Fits(y)'
  BY DEF Fits, Shape, Holds, Inserts, Relies, Consumer, Named
<1>2. \A h \in Handlers : h # s => Apart(y, sess[h]) /\ Apart(sess[h], y)
  <2> SUFFICES ASSUME NEW h \in Handlers, h # s
               PROVE  Apart(y, sess[h]) /\ Apart(sess[h], y)
    OBVIOUS
  <2>1. Apart(x, sess[h]) /\ Apart(sess[h], x)
    BY Before
  <2>2. CASE ~InTransaction(y) \/ InTransaction(x)
    BY <2>1, <2>2 DEF Apart
  <2>3. CASE CanLock(s)
    <3>1. InTransaction(sess[h]) => ~Conflict(x, sess[h])
      BY <2>3 DEF CanLock
    <3> QED BY <3>1, <2>1 DEF Apart, Conflict
  <2> QED BY <2>2, <2>3
<1>3. TypeOK' /\ \A t \in held' : Named(t)'
  BY DEF AuthInv, TypeOK, Named
<1> QED BY <1>1, <1>2, <1>3, SessionStep

LEMMA DeleteReadStep ==
  ASSUME AuthInv, NEW s \in Handlers, DeleteRead(s)
  PROVE  AuthInv'
<1> DEFINE x == sess[s]
<1>1. x.op = "delete_workspace" /\ x.pc = "authorized" /\ x \in Session /\ Fits(x)
  BY Before DEF DeleteRead
<1>2. PICK y : y = [x EXCEPT !.pc = "read"]
  OBVIOUS
<1>3. /\ y \in Session /\ y.op = x.op /\ y.pc = "read" /\ y.who = x.who
      /\ y.row = x.row /\ y.tok = x.tok /\ y.new = x.new
  BY <1>1, <1>2 DEF Session
<1>4. Fits(y) /\ ~Uncommitted(y) /\ ~InTransaction(y)
  BY <1>1, <1>3, OpsDistinct
     DEF Fits, Shape, Holds, Inserts, Relies, Consumer, Uncommitted, InTransaction
<1>5. sess' = [sess EXCEPT ![s] = y]
  BY <1>2 DEF DeleteRead, Step
<1> QED BY <1>3, <1>4, <1>5, MoveStep DEF DeleteRead, database, keys, clients

LEMMA LoginOrganizationStep ==
  ASSUME AuthInv, NEW s \in Handlers, LoginOrganization(s)
  PROVE  AuthInv'
<1> DEFINE x == sess[s]
<1>1. x.op = "login" /\ x.pc = "loaded" /\ x \in Session /\ Fits(x)
  BY Before DEF LoginOrganization
<1>2. PICK y : y = [x EXCEPT !.pc = "ready"]
  OBVIOUS
<1>3. /\ y \in Session /\ y.op = x.op /\ y.pc = "ready" /\ y.who = x.who
      /\ y.row = x.row /\ y.tok = x.tok /\ y.new = x.new
  BY <1>1, <1>2 DEF Session
<1>4. Fits(y) /\ ~Uncommitted(y) /\ ~InTransaction(y)
  BY <1>1, <1>3, OpsDistinct
     DEF Fits, Shape, Holds, Inserts, Relies, Consumer, Uncommitted, InTransaction
<1>5. sess' = [sess EXCEPT ![s] = y]
  BY <1>2 DEF LoginOrganization, Step
<1> QED BY <1>3, <1>4, <1>5, MoveStep DEF LoginOrganization, database, keys, clients

LEMMA RefreshDeleteStep ==
  ASSUME AuthInv, NEW s \in Handlers, RefreshDelete(s)
  PROVE  AuthInv'
<1> DEFINE x == sess[s]
<1>1. x.op = "refresh" /\ x.pc = "loaded" /\ x \in Session /\ Fits(x)
  BY Before DEF RefreshDelete
<1>2. PICK y : y = [x EXCEPT !.pc = "ready"]
  OBVIOUS
<1>3. /\ y \in Session /\ y.op = x.op /\ y.pc = "ready" /\ y.who = x.who
      /\ y.row = x.row /\ y.tok = x.tok /\ y.new = x.new
  BY <1>1, <1>2 DEF Session
<1>4. Fits(y) /\ ~Uncommitted(y) /\ ~InTransaction(y)
  BY <1>1, <1>3, OpsDistinct
     DEF Fits, Shape, Holds, Inserts, Relies, Consumer, Uncommitted, InTransaction
<1>5. redis' \subseteq redis
  BY DEF RefreshDelete
<1>6. sess' = [sess EXCEPT ![s] = y]
  BY <1>2 DEF RefreshDelete, Step
<1> QED BY <1>3, <1>4, <1>5, <1>6, MoveStep DEF RefreshDelete, database, clients

LEMMA ConsumeDeleteStep ==
  ASSUME AuthInv, NEW s \in Handlers, ConsumeDelete(s)
  PROVE  AuthInv'
<1> DEFINE x == sess[s]
<1>1. x.op \in Consuming /\ x.pc = "got" /\ x \in Session /\ Fits(x)
  BY Before DEF ConsumeDelete
<1>2. PICK y : y = [x EXCEPT !.pc = "deleted"]
  OBVIOUS
<1>3. /\ y \in Session /\ y.op = x.op /\ y.pc = "deleted" /\ y.who = x.who
      /\ y.row = x.row /\ y.tok = x.tok /\ y.new = x.new
  BY <1>1, <1>2 DEF Session
<1>4. Fits(y) /\ ~Uncommitted(y) /\ ~InTransaction(y)
  BY <1>1, <1>3, OpsDistinct
     DEF Fits, Shape, Holds, Inserts, Relies, Consumer, Uncommitted, InTransaction
<1>5. redis' \subseteq redis
  BY DEF ConsumeDelete
<1>6. sess' = [sess EXCEPT ![s] = y]
  BY <1>2 DEF ConsumeDelete, Step
<1> QED BY <1>3, <1>4, <1>5, <1>6, MoveStep DEF ConsumeDelete, database, clients

\* The flush takes the locks.
LEMMA FlushStep ==
  ASSUME AuthInv, NEW s \in Handlers, Flush(s)
  PROVE  AuthInv'
<1> DEFINE x == sess[s]
<1>1. x.pc = "read" /\ CanLock(s) /\ ~FlushRaises(x) /\ x \in Session /\ Fits(x)
  BY Before DEF Flush
<1>2. PICK pc \in {"ready", "flushed"} :
        Step(s, pc) /\ pc = IF x.op = "invite_user" THEN "ready" ELSE "flushed"
  BY DEF Flush
<1>3. PICK y : y = [x EXCEPT !.pc = pc]
  OBVIOUS
<1>4. /\ y \in Session /\ y.op = x.op /\ y.pc = pc /\ y.who = x.who
      /\ y.row = x.row /\ y.tok = x.tok /\ y.new = x.new
  BY <1>1, <1>2, <1>3 DEF Session
<1>5. Uncommitted(y) => Uncommitted(x)
  BY <1>1, <1>2, <1>4 DEF Uncommitted
<1>6. Fits(y)
  <2>1. Shape(y)
    BY <1>1, <1>2, <1>4, OpsDistinct DEF Fits, Shape
  <2>2. Holds(y)
    BY <1>1, <1>2, <1>4 DEF Fits, Holds, Consumer
  <2>3. Inserts(y)
    BY <1>1, <1>4, <1>5 DEF Fits, Inserts
  <2>4. Relies(y)
    BY <1>1, <1>2, <1>4, OpsDistinct DEF Fits, Relies, Consumer, FlushRaises
  <2> QED BY <1>1, <1>4, <2>1, <2>2, <2>3, <2>4 DEF Fits
<1>7. sess' = [sess EXCEPT ![s] = y]
  BY <1>2, <1>3 DEF Step
<1> QED BY <1>1, <1>5, <1>6, <1>7, <1>4, MoveStep DEF Flush, database, keys, clients

\* A token gets a jti that nothing has had.
LEMMA IssueStep ==
  ASSUME AuthInv, NEW s \in Handlers, Issue(s)
  PROVE  AuthInv'
<1> DEFINE x == sess[s]
           token == [type |-> TypeIssued(x.op), sub |-> x.who,
                     org |-> x.row.org, email |-> x.row.email]
<1>1. x.pc = "ready" /\ x \in Session /\ Fits(x)
  BY Before DEF Issue
<1>2. x.op \in Issuing /\ x.who \in Ids /\ x.row \in UserRow
  BY <1>1 DEF Fits, Shape
<1>3. PICK n \in Tokens :
        /\ ~Named(n)
        /\ tokens' = [tokens EXCEPT ![n] = token]
        /\ redis' = redis \cup Stored(x, n)
        /\ sess' = [sess EXCEPT ![s] = [x EXCEPT !.pc = "issued", !.new = n]]
  BY DEF Issue, Put
<1>4. PICK y : y = [x EXCEPT !.pc = "issued", !.new = n]
  OBVIOUS
<1>5. /\ y \in Session /\ y.op = x.op /\ y.pc = "issued" /\ y.who = x.who
      /\ y.row = x.row /\ y.tok = x.tok /\ y.new = n
  BY <1>1, <1>4 DEF Session
<1>6. token \in Token
  BY <1>2, OpsDistinct DEF Token, TokenType, TypeIssued, UserRow
<1>7. /\ \A t \in Tokens : Named(t) => tokens'[t] = tokens[t]
      /\ \A t \in Tokens : Named(t) => Named(t)'
      /\ Named(n)'
  BY <1>3, <1>6, Before DEF Named
<1>8. TypeOK' /\ \A t \in held' : Named(t)'
  BY <1>3, <1>4, <1>5, <1>6, <1>7 DEF AuthInv, TypeOK, Issue, Stored, database, clients
<1>9. Fits(y)'
  <2>1. Shape(y)' /\ Holds(y)'
    BY <1>1, <1>2, <1>5, <1>7, OpsDistinct DEF Fits, Shape, Holds, Consumer
  <2>2. Inserts(y)' /\ Relies(y)' /\ (y.who \in taken \cup {None})'
    BY <1>1, <1>2, <1>5, OpsDistinct
       DEF Fits, Inserts, Relies, Consumer, Uncommitted, Issue, database
  <2> QED BY <2>1, <2>2 DEF Fits
<1>10. \A h \in Handlers : h # s => Apart(y, sess[h]) /\ Apart(sess[h], y)
  BY <1>1, <1>5, Before, OpsDistinct DEF Apart, Uncommitted, InTransaction
<1> QED BY <1>3, <1>4, <1>5, <1>7, <1>8, <1>9, <1>10, SessionStep DEF Issue, database

LEMMA AnswerStep ==
  ASSUME AuthInv, NEW s \in Handlers, Answer(s)
  PROVE  AuthInv'
<1>1. sess[s].new \in Tokens /\ Named(sess[s].new)
  BY Before DEF Answer, Fits, Holds
<1> QED BY <1>1, EndStep DEF Answer, Put, database, keys, AuthInv, TypeOK

LEMMA LogoutDeleteStep ==
  ASSUME AuthInv, NEW s \in Handlers, LogoutDelete(s)
  PROVE  AuthInv'
BY EndStep DEF LogoutDelete, Put, database, clients, AuthInv, TypeOK

LEMMA FailStep ==
  ASSUME AuthInv, NEW s \in Handlers, Fail(s)
  PROVE  AuthInv'
<1>1. failures' \in 0..MaxFailures
  BY AuthAssumption DEF Fail, AuthInv, TypeOK
<1> QED BY <1>1, EndStep DEF Fail, Put, database, keys, clients, AuthInv, TypeOK

-----------------------------------------------------------------------------
(* Requests commit. *)

\* A commit: what the others hold must survive the change of the rows.
LEMMA RowStep ==
  ASSUME AuthInv, NEW s \in Handlers, NEW y \in Session,
         sess' = [sess EXCEPT ![s] = y],
         UNCHANGED <<taken, tokens, redis, blacklist, held, access, failures>>,
         users' \in [Ids -> UserRow \cup {None}], organizations' \subseteq Ids,
         Fits(y)',
         \A h \in Handlers : h # s => /\ Apart(y, sess[h]) /\ Apart(sess[h], y)
                                      /\ Inserts(sess[h])' /\ Relies(sess[h])',
         Rows', Owners'
  PROVE  AuthInv'
<1>1. TypeOK' /\ \A t \in held' : Named(t)'
  BY DEF AuthInv, TypeOK, Named
<1>2. sess'[s] = y /\ \A h \in Handlers : h # s => sess'[h] = sess[h]
  BY Before
<1>3. ASSUME NEW h \in Handlers, h # s PROVE Fits(sess[h])'
  <2>1. Fits(sess[h])
    BY DEF AuthInv
  <2> QED BY <2>1, <1>2, <1>3 DEF Fits, Shape, Holds, Consumer, Named
<1>4. \A h, k \in Handlers : h # k => Apart(sess[h], sess[k])'
  <2> SUFFICES ASSUME NEW h \in Handlers, NEW k \in Handlers, h # k
               PROVE  Apart(sess'[h], sess'[k])
    BY DEF Apart
  <2> QED BY <1>2 DEF AuthInv
<1> QED BY <1>1, <1>2, <1>3, <1>4 DEF AuthInv

LEMMA InsertStep ==
  ASSUME AuthInv, NEW s \in Handlers, Commit(s), sess[s].op \in Creating
  PROVE  AuthInv'
<1> DEFINE x == sess[s]
<1>1. x \in Session /\ Fits(x) /\ Uncommitted(x) /\ x.who \in Ids /\ x.row \in UserRow
  BY Before, OpsDistinct DEF Commit, Fits, Shape, Uncommitted
<1>2. users' = [users EXCEPT ![x.who] = x.row]
  BY OpsDistinct DEF Commit
<1>3. PICK pc \in {"ready", "committed"} :
        /\ Step(s, pc)
        /\ pc = IF x.op = "register" THEN "ready" ELSE "committed"
        /\ organizations' = IF x.op = "register" THEN organizations \cup {x.who}
                            ELSE organizations
  BY OpsDistinct DEF Commit
<1>4. PICK y : y = [x EXCEPT !.pc = pc]
  OBVIOUS
<1>5. /\ y \in Session /\ y.op = x.op /\ y.pc = pc /\ y.who = x.who
      /\ y.row = x.row /\ y.tok = x.tok /\ y.new = x.new
  BY <1>1, <1>3, <1>4 DEF Session
<1>6. sess' = [sess EXCEPT ![s] = y]
  BY <1>3, <1>4 DEF Step
<1>7. UNCHANGED <<taken, tokens, redis, blacklist, held, access, failures>>
  BY DEF Commit, keys, clients
<1>8. /\ users[x.who] = None /\ x.who \in taken
      /\ x.row.status # "active" /\ ~x.row.verified /\ x.row.password = None
      /\ x.op = "register" => x.row.org = x.who /\ x.row.role = "Owner"
      /\ x.op # "register" => x.row.org \in organizations /\ x.pc = "issued"
  <2>1. x.op # "register" => x.op = "invite_user" /\ x.pc = "issued"
    BY <1>1, OpsDistinct DEF Commit, Fits, Shape
  <2> QED BY <2>1, <1>1, Before DEF Fits, Inserts, Relies
<1>9. ~Uncommitted(y) /\ ~InTransaction(y) /\ Fits(y)'
  BY <1>1, <1>3, <1>5, <1>7, <1>8, OpsDistinct
     DEF Fits, Shape, Holds, Inserts, Relies, Consumer, Uncommitted, InTransaction, Named
<1>10. ASSUME NEW h \in Handlers, h # s
       PROVE  /\ Apart(y, sess[h]) /\ Apart(sess[h], y)
              /\ Inserts(sess[h])' /\ Relies(sess[h])'
  <2>1. Apart(x, sess[h]) /\ Apart(sess[h], x) /\ Fits(sess[h])
    BY <1>10, Before DEF AuthInv
  <2>2. sess[h].who # x.who
    BY <2>1, <1>1 DEF Apart
  <2>3. Apart(y, sess[h]) /\ Apart(sess[h], y)
    BY <2>1, <2>2, <1>5, <1>9 DEF Apart
  <2>4. sess'[h] = sess[h] /\ users'[sess[h].who] = users[sess[h].who]
    BY <2>2, <1>2, <1>6, <1>10, Before
  <2>5. Inserts(sess[h])'
    BY <2>1, <2>4 DEF Fits, Inserts
  <2>6. Relies(sess[h])'
    BY <2>1, <2>4, <1>3 DEF Fits, Relies
  <2> QED BY <2>3, <2>5, <2>6
<1>11. Rows'
  <2> SUFFICES ASSUME NEW i \in Ids, users'[i] # None
               PROVE  /\ i \in taken'
                      /\ users'[i].org \in organizations'
                      /\ users'[i].status = "active" <=> users'[i].verified
                      /\ users'[i].password # None =>
                           /\ Named(users[i].password)'
                           /\ tokens'[users'[i].password].sub = i
    BY DEF Rows, Named
  <2>1. CASE i = x.who
    <3>1. users'[i] = x.row
      BY <2>1, <1>1, <1>2, Before
    <3>2. x.row.org \in organizations'
      BY <1>3, <1>8
    <3>3. x.row.verified = FALSE
      BY <1>1, <1>8 DEF UserRow
    <3> QED BY <2>1, <3>1, <3>2, <3>3, <1>7, <1>8
  <2>2. CASE i # x.who
    <3>1. users'[i] = users[i]
      BY <2>2, <1>2, Before
    <3> QED BY <3>1, <1>3, <1>7 DEF AuthInv, Rows, Named
  <2> QED BY <2>1, <2>2
<1>12. Owners'
  <2> SUFFICES ASSUME NEW o \in organizations'
               PROVE  users'[o] # None /\ users'[o].role = "Owner" /\ users'[o].org = o
    BY DEF Owners
  <2>1. CASE o = x.who
    <3>1. users'[o] = x.row
      BY <2>1, <1>1, <1>2, Before
    <3>2. x.op = "register"
      BY <2>1, <1>3, <1>8 DEF AuthInv, Owners
    <3> QED BY <2>1, <3>1, <3>2, <1>1, <1>8, Before
  <2>2. CASE o # x.who
    <3>1. o \in organizations
      BY <2>2, <1>3
    <3>2. users'[o] = users[o]
      BY <2>2, <3>1, <1>2, Before DEF AuthInv, TypeOK
    <3> QED BY <3>1, <3>2 DEF AuthInv, Owners
  <2> QED BY <2>1, <2>2
<1>13. users' \in [Ids -> UserRow \cup {None}] /\ organizations' \subseteq Ids
  BY <1>1, <1>2, <1>3, Before DEF AuthInv, TypeOK
<1> QED BY <1>5, <1>6, <1>7, <1>9, <1>10, <1>11, <1>12, <1>13, RowStep

\* A reset, a verification or an accepted invitation updates its own user's row.
LEMMA UpdateStep ==
  ASSUME AuthInv, NEW s \in Handlers, Commit(s), sess[s].op \in Consuming
  PROVE  AuthInv'
<1> DEFINE x == sess[s]  old == users[x.who]  new == Updated(old, x)
<1>1. x \in Session /\ Fits(x) /\ x.pc = "flushed" /\ x.who \in Ids /\ x.row \in UserRow
  BY Before, OpsDistinct DEF Commit, Fits, Shape
<1>2. /\ users' = [users EXCEPT ![x.who] = new]
      /\ UNCHANGED <<organizations, taken, tokens, redis, blacklist, held, access, failures>>
      /\ sess' = [sess EXCEPT ![s] = Idle]
  BY OpsDistinct DEF Commit, keys, clients, Put
<1>3. /\ old # None /\ old \in UserRow
      /\ x.tok \in Tokens /\ Named(x.tok) /\ tokens[x.tok].sub = x.who
  BY <1>1, Before DEF Fits, Holds, Relies, Consumer
<1>4. /\ new \in UserRow /\ new # None /\ new.org = old.org /\ new.role = old.role
      /\ (old.status = "active" <=> old.verified) => (new.status = "active" <=> new.verified)
      /\ new.password \in {old.password, x.tok}
  <2>1. CASE x.op = "reset_password"
    BY <2>1, <1>3, Before DEF Updated, UserRow
  <2>2. CASE x.op = "verify_email"
    BY <2>2, <1>3, Before, ZenonT(60) DEF Updated, UserRow, Status
  <2>3. CASE x.op = "accept_invite"
    BY <2>3, <1>3, Before, ZenonT(60) DEF Updated, Accepted, UserRow, Status
  <2> QED BY <2>1, <2>2, <2>3, OpsDistinct
<1>5. PICK y : y = Idle
  OBVIOUS
<1>6. ASSUME NEW h \in Handlers, h # s
      PROVE  /\ Apart(y, sess[h]) /\ Apart(sess[h], y)
             /\ Inserts(sess[h])' /\ Relies(sess[h])'
  <2>1. Fits(sess[h]) /\ sess'[h] = sess[h]
    BY <1>2, <1>6, Before DEF AuthInv
  <2>2. Uncommitted(sess[h]) => sess[h].who \in Ids /\ sess[h].who # x.who
    BY <2>1, <1>3 DEF Fits, Shape, Inserts, Uncommitted
  <2>3. Apart(y, sess[h]) /\ Apart(sess[h], y)
    BY <2>2, <1>5, IdleFits, Before DEF Apart
  <2>4. Inserts(sess[h])'
    BY <2>1, <2>2, <1>2 DEF Fits, Inserts
  <2>5. Relies(sess[h])'
    <3>1. Consumer(sess[h]) => sess[h].who \in Ids
      BY <2>1 DEF Fits, Shape, Consumer
    <3>2. sess[h].who \in Ids =>
            /\ users'[sess[h].who] # None <=> users[sess[h].who] # None
            /\ users'[sess[h].who].org = users[sess[h].who].org
      BY <1>2, <1>3, <1>4, Before
    <3> QED BY <2>1, <3>1, <3>2, <1>2 DEF Fits, Relies
  <2> QED BY <2>3, <2>4, <2>5
<1>7. ASSUME NEW i \in Ids
      PROVE  users'[i] = IF i = x.who THEN new ELSE users[i]
  BY <1>2, Before
<1>8. Rows'
  <2> SUFFICES ASSUME NEW i \in Ids, users'[i] # None
               PROVE  /\ i \in taken'
                      /\ users'[i].org \in organizations'
                      /\ users'[i].status = "active" <=> users'[i].verified
                      /\ users'[i].password # None =>
                           /\ Named(users[i].password)'
                           /\ tokens'[users'[i].password].sub = i
    BY DEF Rows, Named
  <2>1. CASE i = x.who
    BY <2>1, <1>1, <1>2, <1>3, <1>4, <1>7 DEF AuthInv, Rows, Named
  <2>2. CASE i # x.who
    BY <2>2, <1>2, <1>7 DEF AuthInv, Rows, Named
  <2> QED BY <2>1, <2>2
<1>9. Owners'
  BY <1>1, <1>2, <1>3, <1>4, <1>7 DEF AuthInv, TypeOK, Owners
<1>10. Fits(y)' /\ y \in Session
  BY <1>5, IdleFits, OpsDistinct DEF Fits, Shape, Holds, Inserts, Relies, Consumer, Named
<1>11. users' \in [Ids -> UserRow \cup {None}] /\ organizations' \subseteq Ids
  BY <1>1, <1>2, <1>4, Before DEF AuthInv, TypeOK
<1> QED BY <1>2, <1>5, <1>6, <1>8, <1>9, <1>10, <1>11, RowStep

\* A deletion takes a workspace with all its users, and none that a transaction needs.
LEMMA WorkspaceStep ==
  ASSUME AuthInv, NEW s \in Handlers, Commit(s), sess[s].op = "delete_workspace"
  PROVE  AuthInv'
<1> DEFINE x == sess[s]
<1>1. x \in Session /\ Fits(x) /\ x.pc = "flushed" /\ InTransaction(x) /\ x.row \in UserRow
  BY Before DEF Commit, Fits, Shape, InTransaction
<1>2. /\ users' = [i \in Ids |-> IF users[i] # None /\ users[i].org = x.row.org
                                 THEN None ELSE users[i]]
      /\ organizations' = organizations \ {x.row.org}
      /\ UNCHANGED <<taken, tokens, redis, blacklist, held, access, failures>>
      /\ sess' = [sess EXCEPT ![s] = Idle]
  BY OpsDistinct DEF Commit, keys, clients, Put
<1>3. PICK y : y = Idle
  OBVIOUS
<1>4. ASSUME NEW i \in Ids
      PROVE  /\ users'[i] \in {users[i], None}
             /\ users'[i] # None => users[i].org # x.row.org
             /\ users[i] # None /\ users[i].org # x.row.org => users'[i] = users[i]
  BY <1>2
<1>5. ASSUME NEW h \in Handlers, h # s
      PROVE  /\ Apart(y, sess[h]) /\ Apart(sess[h], y)
             /\ Inserts(sess[h])' /\ Relies(sess[h])'
  <2>1. Fits(sess[h]) /\ sess'[h] = sess[h] /\ Apart(x, sess[h])
    BY <1>2, <1>5, Before DEF AuthInv
  <2>2. /\ Uncommitted(sess[h]) => sess[h].who \in Ids
        /\ Consumer(sess[h]) => sess[h].who \in Ids
    BY <2>1 DEF Fits, Shape, Uncommitted, Consumer
  <2>3. Apart(y, sess[h]) /\ Apart(sess[h], y)
    BY <2>2, <1>3, IdleFits, Before DEF Apart
  <2>4. Inserts(sess[h])'
    BY <2>1, <2>2, <1>4 DEF Fits, Inserts
  <2>5. InTransaction(sess[h]) => sess[h].row.org # x.row.org
    BY <2>1, <1>1 DEF Apart
  <2>6. Relies(sess[h])'
    BY <2>1, <2>2, <2>5, <1>2, <1>4 DEF Fits, Relies, Consumer, InTransaction
  <2> QED BY <2>3, <2>4, <2>6
<1>6. Rows'
  BY <1>2, <1>4 DEF AuthInv, Rows, Named
<1>7. Owners'
  BY <1>2, <1>4 DEF AuthInv, TypeOK, Owners
<1>8. Fits(y)' /\ y \in Session
  BY <1>3, IdleFits, OpsDistinct DEF Fits, Shape, Holds, Inserts, Relies, Consumer, Named
<1>9. users' \in [Ids -> UserRow \cup {None}] /\ organizations' \subseteq Ids
  BY <1>2, Before DEF AuthInv, TypeOK
<1> QED BY <1>2, <1>3, <1>5, <1>6, <1>7, <1>8, <1>9, RowStep

LEMMA CommitStep ==
  ASSUME AuthInv, NEW s \in Handlers, Commit(s)
  PROVE  AuthInv'
<1>1. sess[s].op \in Creating \cup Consuming \cup {"delete_workspace"}
  BY Before, OpsDistinct DEF Commit, Fits, Shape
<1> QED BY <1>1, InsertStep, UpdateStep, WorkspaceStep

-----------------------------------------------------------------------------
(* Time, and the invariant. *)

\* A step that only lets keys and tokens run out.
LEMMA LapseStep ==
  ASSUME AuthInv, UNCHANGED <<users, organizations, taken, tokens, sess, failures>>,
         redis' \subseteq redis, blacklist' \subseteq blacklist,
         held' \subseteq held, access' \subseteq access
  PROVE  AuthInv'
<1>1. TypeOK' /\ \A t \in held' : Named(t)'
  BY DEF AuthInv, TypeOK, Named
<1>2. \A s \in Handlers : Fits(sess[s])'
  BY DEF AuthInv, Fits, Shape, Holds, Inserts, Relies, Consumer, Named
<1>3. \A s, h \in Handlers : s # h => Apart(sess[s], sess[h])'
  BY DEF AuthInv, Apart
<1>4. Rows' /\ Owners'
  BY DEF AuthInv, Rows, Owners, Named
<1> QED BY <1>1, <1>2, <1>3, <1>4 DEF AuthInv

LEMMA TimeStep ==
  ASSUME AuthInv, NEW t \in Tokens, Expire(t) \/ AccessExpire(t) \/ BlacklistExpire(t)
  PROVE  AuthInv'
BY LapseStep DEF Expire, AccessExpire, BlacklistExpire, database, keys, clients

LEMMA InitInv == Init => AuthInv
<1> SUFFICES ASSUME Init PROVE AuthInv
  OBVIOUS
<1>1. TypeOK
  BY AuthAssumption, IdleFits DEF Init, TypeOK
<1>2. \A s \in Handlers : Fits(sess[s])
  BY IdleFits DEF Init
<1>3. \A s, h \in Handlers : s # h => Apart(sess[s], sess[h])
  BY IdleFits DEF Init, Apart
<1>4. Rows /\ Owners
  BY DEF Init, Rows, Owners
<1> QED BY <1>1, <1>2, <1>3, <1>4 DEF AuthInv, Init

LEMMA NextInv == AuthInv /\ [Next]_vars => AuthInv'
<1> SUFFICES ASSUME AuthInv, [Next]_vars PROVE AuthInv'
  OBVIOUS
<1>1. ASSUME NEW s \in Handlers, Begin(s) PROVE AuthInv'
  BY <1>1, RegisterReadStep, LoginReadStep, ForgotReadStep, RefreshGetStep,
     LogoutBlacklistStep, ConsumeGetStep, PresentStep DEF Begin
<1>2. ASSUME NEW s \in Handlers, Proceed(s) PROVE AuthInv'
  BY <1>2, AuthorizeStep, InviteReadStep, DeleteReadStep, FlushStep, CommitStep,
     LoginOrganizationStep, RefreshLoadStep, RefreshDeleteStep, IssueStep, AnswerStep,
     LogoutDeleteStep, ConsumeDeleteStep, ConsumeLoadStep DEF Proceed
<1>3. ASSUME NEW s \in Handlers, Fail(s) PROVE AuthInv'
  BY <1>3, FailStep
<1>4. ASSUME Time PROVE AuthInv'
  BY <1>4, TimeStep DEF Time
<1>5. CASE UNCHANGED vars
  BY <1>5, LapseStep DEF vars, database, keys, clients
<1> QED BY <1>1, <1>2, <1>3, <1>4, <1>5 DEF Next, Handle

LEMMA Invariance == Spec => []AuthInv
BY InitInv, NextInv, PTL DEF Spec

-----------------------------------------------------------------------------
(* Who has registered or was invited can go on. *)

\* From the creation of a token to its delivery.
Carries(x) == x.pc \in {"issued", "committed"}

\* The token presented is of the type the operation takes.
Presents(x) ==
  /\ x.op \in Consuming => IsType(x.tok, TypeTaken(x.op))
  /\ (x.op = "refresh" \/ (x.op = "logout" /\ x.tok # None))
       => x.tok \in Tokens /\ IsType(x.tok, "session")

\* The row a request inserts, and that no token was made for its id yet but the one
\* the request itself carries.
Prepares(x) ==
  /\ x.op = "register" =>
       /\ x.pc \in {"read", "flushed", "ready", "issued"}
       /\ x.row.status = "pending_verification" /\ x.row.org = x.who
       /\ users[x.who] # None => users[x.who].org = x.who
  /\ (x.op = "invite_user" /\ x.pc \in {"read", "ready", "issued", "committed"})
       => x.row.status = "invited"
  /\ Uncommitted(x) =>
       \A t \in Tokens : (Named(t) /\ tokens[t].sub = x.who) => Carries(x) /\ t = x.new

\* The token carried works, and nobody holds it yet.
Delivers(x) ==
  Carries(x) =>
    /\ x.new \in redis /\ x.new \notin held
    /\ x.op = "invite_user" =>
         /\ tokens[x.new].type = "invite"
         /\ tokens[x.new].sub = x.who /\ tokens[x.new].org = x.row.org

Tied(x) == Presents(x) /\ Prepares(x) /\ Delivers(x)

\* The token one request carries is not carried or presented by another.
OwnToken(x, y) ==
  Carries(x) => /\ Carries(y) => y.new # x.new
                /\ y.op \in Consuming => y.tok # x.new

\* Tokens are made for ids in use; the ones that open an account find its row, and
\* an invitation finds none that has registered by itself.
Claims ==
  \A t \in Tokens : Named(t) =>
    /\ tokens[t].sub \in taken
    /\ (tokens[t].type \in {"email_verification", "invite"} /\ users[tokens[t].sub] # None)
         => users[tokens[t].sub].org = tokens[t].org
    /\ (tokens[t].type = "invite" /\ users[tokens[t].sub] # None)
         => users[tokens[t].sub].status # "pending_verification"

\* A request that is about to give user i a token, or uses one of i's.
Covers(x, i) ==
  \/ x.op = "register" /\ x.pc = "ready" /\ x.who = i
  \/ /\ x.op \in {"verify_email", "accept_invite"}
     /\ x.pc \in {"got", "deleted", "read", "flushed"}
     /\ tokens[x.tok].sub = i

\* A token that user i is going to get, holds and can use, or held until it ran out.
Opens(t, i) ==
  /\ IsType(t, "email_verification") \/ IsType(t, "invite")
  /\ tokens[t].sub = i
  /\ t \in held => t \in redis

Covered(i) == (\E s \in Handlers : Covers(sess[s], i)) \/ (\E t \in Tokens : Opens(t, i))

Pending(i) == users[i] # None /\ users[i].status # "active"

PendInv ==
  /\ AuthInv
  /\ \A s \in Handlers : Tied(sess[s])
  /\ \A s, h \in Handlers : s # h => OwnToken(sess[s], sess[h])
  /\ Claims
  /\ failures = 0 => \A i \in Ids : Pending(i) => Covered(i)

-----------------------------------------------------------------------------
(* Steps that change neither rows nor claims. *)

LEMMA PendingFrame ==
  ASSUME PendInv, AuthInv', NEW s \in Handlers, NEW y \in Session,
         sess' = [sess EXCEPT ![s] = y],
         UNCHANGED <<users, tokens>>, taken \subseteq taken',
         Tied(y)',
         \A h \in Handlers : h # s =>
           /\ OwnToken(y, sess[h]) /\ OwnToken(sess[h], y)
           /\ Carries(sess[h]) => sess[h].new \in redis' /\ sess[h].new \notin held',
         failures' = 0 => failures = 0,
         failures' = 0 => \A i \in Ids : Pending(i) /\ Covered(i) => Covered(i)'
  PROVE  PendInv'
<1>1. sess'[s] = y /\ \A h \in Handlers : h # s => sess'[h] = sess[h]
  BY Before DEF PendInv
<1>2. ASSUME NEW h \in Handlers, h # s PROVE Tied(sess[h])'
  <2>1. Tied(sess[h]) /\ sess'[h] = sess[h]
    BY <1>1, <1>2 DEF PendInv
  <2>2. Presents(sess[h])'
    BY <2>1 DEF Tied, Presents, IsType, Named
  <2>3. Prepares(sess[h])'
    BY <2>1 DEF Tied, Prepares, Named
  <2>4. Delivers(sess[h])'
    BY <2>1, <1>2 DEF Tied, Delivers
  <2> QED BY <2>2, <2>3, <2>4 DEF Tied
<1>3. \A h \in Handlers : Tied(sess[h])'
  BY <1>1, <1>2
<1>4. \A h, k \in Handlers : h # k => OwnToken(sess[h], sess[k])'
  <2> SUFFICES ASSUME NEW h \in Handlers, NEW k \in Handlers, h # k
               PROVE  OwnToken(sess'[h], sess'[k])
    BY DEF OwnToken, Carries
  <2> QED BY <1>1 DEF PendInv
<1>5. Claims'
  BY DEF PendInv, Claims, Named
<1>6. failures' = 0 => \A i \in Ids : Pending(i)' => Covered(i)'
  BY DEF PendInv, Pending
<1> QED BY <1>3, <1>4, <1>5, <1>6 DEF PendInv

\* Whoever is covered stays so if the request of the step, or the token, stays good.
LEMMA CoveredOn ==
  ASSUME sess \in [Handlers -> Session], NEW s \in Handlers, NEW y \in Session,
         sess' = [sess EXCEPT ![s] = y], UNCHANGED tokens,
         NEW i \in Ids, Covered(i),
         Covers(sess[s], i) => Covers(y, i),
         \A t \in Tokens : Opens(t, i) => Opens(t, i)' \/ Covers(y, i)
  PROVE  Covered(i)'
<1>1. sess'[s] = y /\ \A h \in Handlers : h # s => sess'[h] = sess[h]
  OBVIOUS
<1>2. Covers(y, i) => Covers(sess[s], i)'
  BY <1>1 DEF Covers
<1>3. \A h \in Handlers : h # s /\ Covers(sess[h], i) => Covers(sess[h], i)'
  BY <1>1 DEF Covers
<1> QED BY <1>2, <1>3 DEF Covered

\* A request that begins has no token yet but the one it presents, which is held.
LEMMA PendingBegin ==
  ASSUME PendInv, AuthInv', NEW s \in Handlers, NEW y \in Session,
         sess[s] = Idle, sess' = [sess EXCEPT ![s] = y],
         UNCHANGED <<users, tokens, redis, held, failures>>, taken \subseteq taken',
         Presents(y), Prepares(y), ~Carries(y),
         y.op \in Consuming => y.tok \in held
  PROVE  PendInv'
<1>1. Tied(y)'
  BY DEF Tied, Presents, Prepares, Delivers, IsType, Named, Carries
<1>2. ASSUME NEW h \in Handlers, h # s
      PROVE  /\ OwnToken(y, sess[h]) /\ OwnToken(sess[h], y)
             /\ Carries(sess[h]) => sess[h].new \in redis' /\ sess[h].new \notin held'
  BY DEF OwnToken, PendInv, Tied, Delivers
<1>3. ASSUME NEW i \in Ids, Covered(i) PROVE Covered(i)'
  <2>1. ~Covers(sess[s], i)
    BY IdleFits DEF Covers
  <2>2. \A t \in Tokens : Opens(t, i) => Opens(t, i)'
    BY DEF Opens, IsType, Named
  <2> QED BY <2>1, <2>2, <1>3, CoveredOn, Before DEF PendInv
<1> QED BY <1>1, <1>2, <1>3, PendingFrame

\* A request that goes on, and may delete the key of the token it presents.
LEMMA PendingMove ==
  ASSUME PendInv, AuthInv', NEW s \in Handlers, NEW y \in Session,
         sess' = [sess EXCEPT ![s] = y],
         y.op = sess[s].op, y.tok = sess[s].tok,
         UNCHANGED <<users, tokens, held, failures>>, taken \subseteq taken',
         redis' = redis \/ /\ redis' = redis \ {y.tok}
                           /\ y.op \in Consuming \cup {"refresh"}
                           /\ y.op = "refresh" => y.tok \in held
                           /\ y.op \in Consuming => y.pc = "deleted",
         Prepares(y), ~Carries(y),
         \A i \in Ids : Covers(sess[s], i) => Covers(y, i)
  PROVE  PendInv'
<1> DEFINE x == sess[s]
<1>1. Presents(y) /\ Fits(x) /\ AuthInv
  BY Before DEF PendInv, Tied, Presents
<1>2. Tied(y)'
  BY <1>1 DEF Tied, Presents, Prepares, Delivers, IsType, Named, Carries
<1>3. ASSUME NEW h \in Handlers, h # s
      PROVE  /\ OwnToken(y, sess[h]) /\ OwnToken(sess[h], y)
             /\ Carries(sess[h]) => sess[h].new \in redis' /\ sess[h].new \notin held'
  <2>1. OwnToken(sess[h], x) /\ Delivers(sess[h])
    BY <1>3 DEF PendInv, Tied
  <2>2. OwnToken(y, sess[h]) /\ OwnToken(sess[h], y)
    BY <2>1 DEF OwnToken
  <2>3. CASE redis' = redis
    BY <2>1, <2>2, <2>3 DEF Delivers
  <2>4. CASE y.op \in Consuming /\ redis' = redis \ {y.tok}
    BY <2>1, <2>2, <2>4 DEF Delivers, OwnToken
  <2>5. CASE y.op = "refresh" /\ redis' = redis \ {y.tok} /\ y.tok \in held
    BY <2>1, <2>2, <2>5 DEF Delivers
  <2> QED BY <2>2, <2>3, <2>4, <2>5
<1>4. ASSUME NEW i \in Ids, Covered(i) PROVE Covered(i)'
  <2>1. ASSUME NEW t \in Tokens, Opens(t, i) PROVE Opens(t, i)' \/ Covers(y, i)
    <3>1. CASE t \in redis => t \in redis'
      BY <3>1, <2>1 DEF Opens, IsType, Named
    <3>2. CASE t = y.tok /\ redis' = redis \ {y.tok} /\ y.op \in Consuming /\ y.pc = "deleted"
      BY <3>2, <2>1, <1>1, OpsDistinct DEF Presents, TypeTaken, Opens, IsType, Covers
    <3>3. CASE t = y.tok /\ y.op = "refresh"
      BY <3>3, <2>1, <1>1 DEF Presents, Opens, IsType
    <3> QED BY <3>1, <3>2, <3>3
  <2> QED BY <2>1, <1>1, <1>4, CoveredOn, Before
<1> QED BY <1>2, <1>3, <1>4, PendingFrame

-----------------------------------------------------------------------------
(* Requests begin. *)

LEMMA RegisterReadPending ==
  ASSUME PendInv, AuthInv', NEW s \in Handlers, RegisterRead(s)
  PROVE  PendInv'
<1>1. PICK e \in Emails, i \in Ids \ taken :
        /\ taken' = taken \cup {i}
        /\ sess' = [sess EXCEPT ![s] = [Idle EXCEPT !.op = "register", !.pc = "read",
                                                    !.who = i, !.row = NewOwner(e, i)]]
  BY DEF RegisterRead, Put
<1>2. PICK y : y = [Idle EXCEPT !.op = "register", !.pc = "read",
                                !.who = i, !.row = NewOwner(e, i)]
  OBVIOUS
<1>3. /\ y.op = "register" /\ y.pc = "read" /\ y.who = i
      /\ y.row.status = "pending_verification" /\ y.row.org = i
  BY <1>2 DEF Idle, NewOwner
<1>4. y \in Session
  <2>1. sess' \in [Handlers -> Session] /\ sess \in [Handlers -> Session]
    BY DEF PendInv, AuthInv, TypeOK
  <2>2. sess'[s] = y
    BY <2>1, <1>1, <1>2
  <2> QED BY <2>1, <2>2
<1>5. users[i] = None
  BY DEF PendInv, AuthInv, Rows
<1>6. \A t \in Tokens : Named(t) => tokens[t].sub # i
  BY DEF PendInv, Claims
<1>7. Presents(y) /\ Prepares(y) /\ ~Carries(y) /\ y.op \notin Consuming
  BY <1>3, <1>5, <1>6, OpsDistinct DEF Presents, Prepares, Carries
<1> QED BY <1>1, <1>2, <1>4, <1>7, PendingBegin DEF RegisterRead, keys, clients

\* What a request other than a registration has when it begins.
LEMMA Beginning ==
  ASSUME PendInv, AuthInv', NEW s \in Handlers, NEW y,
         sess[s] = Idle, sess' = [sess EXCEPT ![s] = y],
         UNCHANGED <<users, tokens, redis, held, failures>>, taken \subseteq taken',
         y.op # "register", y.pc \in {"got", "unrevoked", "loaded", "ready", "blacklisted"},
         ~Uncommitted(y), y.op = "invite_user" => y.pc = "unrevoked",
         y.op \in Consuming \cup {"refresh"} => y.tok \in held,
         y.op \in Consuming => IsType(y.tok, TypeTaken(y.op)),
         y.op = "refresh" => IsType(y.tok, "session"),
         y.op = "logout" => y.tok = None \/ (y.tok \in held /\ IsType(y.tok, "session"))
  PROVE  PendInv'
<1>1. y \in Session
  <2>1. sess' \in [Handlers -> Session] /\ sess \in [Handlers -> Session]
    BY DEF PendInv, AuthInv, TypeOK
  <2>2. sess'[s] = y
    BY <2>1
  <2> QED BY <2>1, <2>2
<1>2. Presents(y)
  BY DEF Presents, PendInv, AuthInv, TypeOK
<1>3. Prepares(y) /\ ~Carries(y)
  BY DEF Prepares, Carries
<1> QED BY <1>1, <1>2, <1>3, PendingBegin

LEMMA BeginPending ==
  ASSUME PendInv, AuthInv', NEW s \in Handlers, Begin(s)
  PROVE  PendInv'
<1>1. CASE LoginRead(s)
  <2>1. PICK i \in Ids :
          sess' = [sess EXCEPT ![s] = [Idle EXCEPT !.op = "login", !.pc = "loaded",
                                                   !.who = i, !.row = users[i]]]
    BY <1>1 DEF LoginRead, Put
  <2>2. PICK y : y = [Idle EXCEPT !.op = "login", !.pc = "loaded", !.who = i, !.row = users[i]]
    OBVIOUS
  <2>3. y.op = "login" /\ y.pc = "loaded"
    BY <2>2 DEF Idle
  <2>4. sess[s] = Idle /\ UNCHANGED <<users, taken, tokens, redis, held, failures>>
    BY <1>1 DEF LoginRead, database, keys, clients
  <2>5. sess' = [sess EXCEPT ![s] = y] /\ ~Uncommitted(y)
    BY <2>1, <2>2, <2>3, OpsDistinct DEF Uncommitted
  <2> QED BY <2>1, <2>3, <2>4, <2>5, Beginning, OpsDistinct
<1>2. CASE ForgotRead(s)
  <2>1. PICK i \in Ids :
          sess' = [sess EXCEPT ![s] = [Idle EXCEPT !.op = "forgot_password", !.pc = "ready",
                                                   !.who = i, !.row = users[i]]]
    BY <1>2 DEF ForgotRead, Put
  <2>2. PICK y : y = [Idle EXCEPT !.op = "forgot_password", !.pc = "ready",
                                  !.who = i, !.row = users[i]]
    OBVIOUS
  <2>3. y.op = "forgot_password" /\ y.pc = "ready"
    BY <2>2 DEF Idle
  <2>4. sess[s] = Idle /\ UNCHANGED <<users, taken, tokens, redis, held, failures>>
    BY <1>2 DEF ForgotRead, database, keys, clients
  <2>5. sess' = [sess EXCEPT ![s] = y] /\ ~Uncommitted(y)
    BY <2>1, <2>2, <2>3, OpsDistinct DEF Uncommitted
  <2> QED BY <2>1, <2>3, <2>4, <2>5, Beginning, OpsDistinct
<1>3. CASE RefreshGet(s)
  <2>1. PICK t \in held :
          /\ IsType(t, "session")
          /\ sess' = [sess EXCEPT ![s] = [Idle EXCEPT !.op = "refresh", !.pc = "got", !.tok = t]]
    BY <1>3 DEF RefreshGet, Put
  <2>2. PICK y : y = [Idle EXCEPT !.op = "refresh", !.pc = "got", !.tok = t]
    OBVIOUS
  <2>3. y.op = "refresh" /\ y.pc = "got" /\ y.tok = t
    BY <2>2 DEF Idle
  <2>4. sess[s] = Idle /\ UNCHANGED <<users, taken, tokens, redis, held, failures>>
    BY <1>3 DEF RefreshGet, database, keys, clients
  <2>5. sess' = [sess EXCEPT ![s] = y] /\ ~Uncommitted(y)
    BY <2>1, <2>2, <2>3, OpsDistinct DEF Uncommitted
  <2> QED BY <2>1, <2>3, <2>4, <2>5, Beginning, OpsDistinct
<1>4. CASE LogoutBlacklist(s)
  <2>1. PICK t \in held \cup {None} :
          /\ t = None \/ IsType(t, "session")
          /\ sess' = [sess EXCEPT ![s] = [Idle EXCEPT !.op = "logout", !.pc = "blacklisted",
                                                      !.tok = t]]
    BY <1>4 DEF LogoutBlacklist, Put
  <2>2. PICK y : y = [Idle EXCEPT !.op = "logout", !.pc = "blacklisted", !.tok = t]
    OBVIOUS
  <2>3. y.op = "logout" /\ y.pc = "blacklisted" /\ y.tok = t
    BY <2>2 DEF Idle
  <2>4. sess[s] = Idle /\ UNCHANGED <<users, taken, tokens, redis, held, failures>>
    BY <1>4 DEF LogoutBlacklist, database, keys, clients
  <2>5. sess' = [sess EXCEPT ![s] = y] /\ ~Uncommitted(y)
    BY <2>1, <2>2, <2>3, OpsDistinct DEF Uncommitted
  <2>6. y.op \notin Consuming \cup {"refresh", "register", "invite_user"}
    BY <2>3, OpsDistinct
  <2>7. y.tok = None \/ (y.tok \in held /\ IsType(y.tok, "session"))
    BY <2>1, <2>3
  <2> QED BY <2>3, <2>4, <2>5, <2>6, <2>7, Beginning
<1>5. CASE ConsumeGet(s)
  <2>1. PICK op \in Consuming, t \in held :
          /\ IsType(t, TypeTaken(op))
          /\ sess' = [sess EXCEPT ![s] = [Idle EXCEPT !.op = op, !.pc = "got", !.tok = t]]
    BY <1>5 DEF ConsumeGet, Put
  <2>2. PICK y : y = [Idle EXCEPT !.op = op, !.pc = "got", !.tok = t]
    OBVIOUS
  <2>3. y.op = op /\ y.pc = "got" /\ y.tok = t
    BY <2>2 DEF Idle
  <2>4. sess[s] = Idle /\ UNCHANGED <<users, taken, tokens, redis, held, failures>>
    BY <1>5 DEF ConsumeGet, database, keys, clients
  <2>5. sess' = [sess EXCEPT ![s] = y] /\ ~Uncommitted(y)
    BY <2>1, <2>2, <2>3, OpsDistinct DEF Uncommitted
  <2> QED BY <2>1, <2>3, <2>4, <2>5, Beginning, OpsDistinct
<1>6. CASE Present(s)
  <2>1. PICK op \in Authorized, a \in access :
          sess' = [sess EXCEPT ![s] = [Idle EXCEPT !.op = op, !.pc = "unrevoked", !.tok = a]]
    BY <1>6 DEF Present, Put
  <2>2. PICK y : y = [Idle EXCEPT !.op = op, !.pc = "unrevoked", !.tok = a]
    OBVIOUS
  <2>3. y.op = op /\ y.pc = "unrevoked" /\ y.tok = a
    BY <2>2 DEF Idle
  <2>4. sess[s] = Idle /\ UNCHANGED <<users, taken, tokens, redis, held, failures>>
    BY <1>6 DEF Present, database, keys, clients
  <2>5. sess' = [sess EXCEPT ![s] = y] /\ ~Uncommitted(y)
    BY <2>1, <2>2, <2>3, OpsDistinct DEF Uncommitted
  <2> QED BY <2>1, <2>3, <2>4, <2>5, Beginning, OpsDistinct
<1> QED BY <1>1, <1>2, <1>3, <1>4, <1>5, <1>6, RegisterReadPending DEF Begin

-----------------------------------------------------------------------------
(* Requests proceed. *)

\* A request that creates no user goes on.
LEMMA Proceeding ==
  ASSUME PendInv, AuthInv', NEW s \in Handlers, NEW y,
         sess' = [sess EXCEPT ![s] = y],
         y.op = sess[s].op, y.tok = sess[s].tok,
         y.op \notin Creating \/ (y.op = "invite_user" /\ y.pc = "authorized"),
         y.pc \in {"deleted", "authorized", "loaded", "read", "flushed", "ready"},
         y.op \in Consuming => y.pc \in {"deleted", "read", "flushed"},
         UNCHANGED <<users, taken, tokens, held, failures>>,
         redis' = redis \/ /\ redis' = redis \ {y.tok}
                           /\ y.op \in Consuming \cup {"refresh"}
                           /\ y.op = "refresh" => y.tok \in held
                           /\ y.op \in Consuming => y.pc = "deleted"
  PROVE  PendInv'
<1>1. y \in Session
  <2>1. sess' \in [Handlers -> Session] /\ sess \in [Handlers -> Session]
    BY DEF PendInv, AuthInv, TypeOK
  <2>2. sess'[s] = y
    BY <2>1
  <2> QED BY <2>1, <2>2
<1>2. Prepares(y) /\ ~Carries(y)
  BY OpsDistinct DEF Prepares, Carries, Uncommitted
<1>3. \A i \in Ids : Covers(sess[s], i) => Covers(y, i)
  BY OpsDistinct DEF Covers
<1> QED BY <1>1, <1>2, <1>3, PendingMove

LEMMA AuthorizePending ==
  ASSUME PendInv, AuthInv', NEW s \in Handlers, Authorize(s)
  PROVE  PendInv'
<1> DEFINE x == sess[s]
<1>1. PICK i \in Ids : sess' = [sess EXCEPT ![s].pc = "authorized", ![s].who = i,
                                            ![s].row = users[i]]
  BY DEF Authorize, LoadedBy, Load
<1>2. x \in Session /\ x.op \in Authorized
  BY Before DEF PendInv, Authorize, Fits, Shape
<1>3. PICK y : y = [x EXCEPT !.pc = "authorized", !.who = i, !.row = users[i]]
  OBVIOUS
<1>4. y.op = x.op /\ y.tok = x.tok /\ y.pc = "authorized"
  BY <1>2, <1>3 DEF Session
<1>5. sess' = [sess EXCEPT ![s] = y]
  BY <1>1, <1>2, <1>3, Before DEF PendInv, Session
<1>6. UNCHANGED <<users, taken, tokens, redis, held, failures>>
  BY DEF Authorize, database, keys, clients
<1> QED BY <1>2, <1>4, <1>5, <1>6, Proceeding, OpsDistinct

LEMMA RefreshLoadPending ==
  ASSUME PendInv, AuthInv', NEW s \in Handlers, RefreshLoad(s)
  PROVE  PendInv'
<1> DEFINE x == sess[s]
<1>1. PICK i \in Ids : sess' = [sess EXCEPT ![s].pc = "loaded", ![s].who = i,
                                            ![s].row = users[i]]
  BY DEF RefreshLoad, LoadedBy, Load
<1>2. x \in Session /\ x.op = "refresh"
  BY Before DEF PendInv, RefreshLoad
<1>3. PICK y : y = [x EXCEPT !.pc = "loaded", !.who = i, !.row = users[i]]
  OBVIOUS
<1>4. y.op = x.op /\ y.tok = x.tok /\ y.pc = "loaded"
  BY <1>2, <1>3 DEF Session
<1>5. sess' = [sess EXCEPT ![s] = y]
  BY <1>1, <1>2, <1>3, Before DEF PendInv, Session
<1>6. UNCHANGED <<users, taken, tokens, redis, held, failures>>
  BY DEF RefreshLoad, database, keys, clients
<1> QED BY <1>2, <1>4, <1>5, <1>6, Proceeding, OpsDistinct

LEMMA ConsumeLoadPending ==
  ASSUME PendInv, AuthInv', NEW s \in Handlers, ConsumeLoad(s)
  PROVE  PendInv'
<1> DEFINE x == sess[s]
<1>1. PICK i \in Ids : sess' = [sess EXCEPT ![s].pc = "read", ![s].who = i,
                                            ![s].row = users[i]]
  BY DEF ConsumeLoad, LoadedBy, Load
<1>2. x \in Session /\ x.op \in Consuming
  BY Before DEF PendInv, ConsumeLoad
<1>3. PICK y : y = [x EXCEPT !.pc = "read", !.who = i, !.row = users[i]]
  OBVIOUS
<1>4. y.op = x.op /\ y.tok = x.tok /\ y.pc = "read"
  BY <1>2, <1>3 DEF Session
<1>5. sess' = [sess EXCEPT ![s] = y]
  BY <1>1, <1>2, <1>3, Before DEF PendInv, Session
<1>6. UNCHANGED <<users, taken, tokens, redis, held, failures>>
  BY DEF ConsumeLoad, database, keys, clients
<1> QED BY <1>2, <1>4, <1>5, <1>6, Proceeding, OpsDistinct

\* The steps that only move on.
LEMMA StepPending ==
  ASSUME PendInv, AuthInv', NEW s \in Handlers,
         DeleteRead(s) \/ LoginOrganization(s) \/ RefreshDelete(s) \/ ConsumeDelete(s)
  PROVE  PendInv'
<1> DEFINE x == sess[s]
<1>1. PICK pc \in {"read", "ready", "deleted"} :
        /\ Step(s, pc)
        /\ \/ x.op = "delete_workspace" /\ redis' = redis
           \/ x.op = "login" /\ redis' = redis
           \/ x.op = "refresh" /\ redis' = redis \ {x.tok} /\ x.tok \in held
           \/ x.op \in Consuming /\ pc = "deleted" /\ redis' = redis \ {x.tok}
  BY DEF DeleteRead, LoginOrganization, RefreshDelete, ConsumeDelete, keys
<1>2. x \in Session
  BY Before DEF PendInv
<1>3. PICK y : y = [x EXCEPT !.pc = pc]
  OBVIOUS
<1>4. y.op = x.op /\ y.tok = x.tok /\ y.pc = pc
  BY <1>2, <1>3 DEF Session
<1>5. sess' = [sess EXCEPT ![s] = y]
  BY <1>1, <1>3 DEF Step
<1>6. UNCHANGED <<users, taken, tokens, held, failures>>
  BY DEF DeleteRead, LoginOrganization, RefreshDelete, ConsumeDelete, database, clients
<1> QED BY <1>1, <1>4, <1>5, <1>6, Proceeding, OpsDistinct

LEMMA FlushPending ==
  ASSUME PendInv, AuthInv', NEW s \in Handlers, Flush(s)
  PROVE  PendInv'
<1> DEFINE x == sess[s]
<1>1. PICK pc \in {"ready", "flushed"} :
        Step(s, pc) /\ pc = IF x.op = "invite_user" THEN "ready" ELSE "flushed"
  BY DEF Flush
<1>2. x \in Session /\ x.pc = "read" /\ Prepares(x)
  BY Before DEF Flush, PendInv, Tied
<1>3. PICK y : y = [x EXCEPT !.pc = pc]
  OBVIOUS
<1>4. y \in Session /\ y.op = x.op /\ y.tok = x.tok /\ y.pc = pc /\ y.who = x.who /\ y.row = x.row
  BY <1>2, <1>3 DEF Session
<1>5. sess' = [sess EXCEPT ![s] = y]
  BY <1>1, <1>3 DEF Step
<1>6. UNCHANGED <<users, taken, tokens, redis, held, failures>>
  BY DEF Flush, database, keys, clients
<1>7. Prepares(y) /\ ~Carries(y)
  <2>1. ~Carries(y) /\ ~Carries(x) /\ (Uncommitted(y) => Uncommitted(x))
    BY <1>1, <1>2, <1>4 DEF Carries, Uncommitted
  <2> QED BY <2>1, <1>1, <1>2, <1>4 DEF Prepares
<1>8. \A i \in Ids : Covers(x, i) => Covers(y, i)
  BY <1>1, <1>2, <1>4 DEF Covers
<1> QED BY <1>4, <1>5, <1>6, <1>7, <1>8, PendingMove

LEMMA InviteReadPending ==
  ASSUME PendInv, AuthInv', NEW s \in Handlers, InviteRead(s)
  PROVE  PendInv'
<1> DEFINE x == sess[s]
<1>1. PICK e \in Emails, i \in Ids \ taken, role \in InvitedRoles :
        /\ taken' = taken \cup {i}
        /\ sess' = [sess EXCEPT ![s] = [x EXCEPT !.pc = "read", !.who = i,
                                                 !.row = NewMember(e, x.row.org, role)]]
  BY DEF InviteRead, Put
<1>2. PICK y : y = [x EXCEPT !.pc = "read", !.who = i, !.row = NewMember(e, x.row.org, role)]
  OBVIOUS
<1>3. x \in Session /\ x.op = "invite_user"
  BY Before DEF InviteRead, PendInv
<1>4. /\ y.op = x.op /\ y.tok = x.tok /\ y.pc = "read" /\ y.who = i
      /\ y.row.status = "invited"
  BY <1>2, <1>3 DEF Session, NewMember
<1>5. y \in Session
  <2>1. sess' \in [Handlers -> Session] /\ sess \in [Handlers -> Session]
    BY DEF PendInv, AuthInv, TypeOK
  <2>2. sess'[s] = y
    BY <2>1, <1>1, <1>2
  <2> QED BY <2>1, <2>2
<1>6. \A t \in Tokens : Named(t) => tokens[t].sub # i
  BY DEF PendInv, Claims
<1>7. Prepares(y) /\ ~Carries(y)
  BY <1>3, <1>4, <1>6 DEF Prepares, Carries
<1>8. \A j \in Ids : ~Covers(x, j)
  BY <1>3 DEF Covers
<1>9. UNCHANGED <<users, tokens, redis, held, failures>> /\ sess' = [sess EXCEPT ![s] = y]
  BY <1>1, <1>2 DEF InviteRead, keys, clients
<1>10. y.op \notin Consuming \cup {"refresh"}
  BY <1>3, <1>4, OpsDistinct
<1> QED BY <1>1, <1>4, <1>5, <1>7, <1>8, <1>9, <1>10, PendingMove

-----------------------------------------------------------------------------
(* Requests end. *)

LEMMA PendingEnd ==
  ASSUME PendInv, AuthInv', NEW s \in Handlers,
         sess' = [sess EXCEPT ![s] = Idle],
         UNCHANGED <<users, taken, tokens>>,
         \A h \in Handlers : h # s /\ Carries(sess[h])
           => sess[h].new \in redis' /\ sess[h].new \notin held',
         failures' = 0 => failures = 0,
         failures' = 0 => \A i \in Ids : Pending(i) => ~Covers(sess[s], i),
         \A t \in Tokens : IsType(t, "email_verification") \/ IsType(t, "invite")
           => (t \in held /\ t \in redis /\ t \in held' => t \in redis')
              /\ (t \notin held /\ t \in held' => t \in redis')
  PROVE  PendInv'
<1>1. PICK y : y = Idle
  OBVIOUS
<1>2. y \in Session /\ ~Carries(y) /\ y.op = "none"
  BY <1>1, IdleFits DEF Carries
<1>3. Tied(y)'
  BY <1>1, <1>2, IdleFits, OpsDistinct DEF Tied, Presents, Prepares, Delivers, Uncommitted, Carries
<1>4. \A h \in Handlers : h # s => OwnToken(y, sess[h]) /\ OwnToken(sess[h], y)
  BY <1>2, OpsDistinct DEF OwnToken
<1>5. ASSUME failures' = 0, NEW i \in Ids, Pending(i), Covered(i) PROVE Covered(i)'
  <2>1. \A t \in Tokens : Opens(t, i) => Opens(t, i)'
    BY DEF Opens, IsType, Named
  <2> QED BY <1>1, <1>2, <1>5, <2>1, CoveredOn, Before DEF PendInv
<1> QED BY <1>1, <1>2, <1>3, <1>4, <1>5, PendingFrame

LEMMA AnswerPending ==
  ASSUME PendInv, AuthInv', NEW s \in Handlers, Answer(s)
  PROVE  PendInv'
<1> DEFINE x == sess[s]
<1>1. Carries(x) /\ held' = held \cup {x.new} /\ redis' = redis
  BY DEF Answer, Carries, keys
<1>2. x.new \in redis /\ \A h \in Handlers : h # s => OwnToken(x, sess[h]) /\ Delivers(sess[h])
  BY <1>1 DEF PendInv, Tied, Delivers
<1>3. \A h \in Handlers : h # s /\ Carries(sess[h])
        => sess[h].new \in redis' /\ sess[h].new \notin held'
  BY <1>1, <1>2 DEF OwnToken, Delivers
<1>4. \A i \in Ids : ~Covers(x, i)
  BY <1>1 DEF Covers, Carries
<1>5. sess' = [sess EXCEPT ![s] = Idle] /\ UNCHANGED <<users, taken, tokens, failures>>
  BY DEF Answer, Put, database
<1> QED BY <1>1, <1>2, <1>3, <1>4, <1>5, PendingEnd

LEMMA LogoutDeletePending ==
  ASSUME PendInv, AuthInv', NEW s \in Handlers, LogoutDelete(s)
  PROVE  PendInv'
<1> DEFINE x == sess[s]
<1>1. /\ x.op = "logout" /\ x.tok \in held /\ held' = held /\ redis' = redis \ {x.tok}
      /\ IsType(x.tok, "session")
  BY AuthNoneAssumption
     DEF LogoutDelete, clients, PendInv, Tied, Presents, AuthInv, TypeOK
<1>2. \A h \in Handlers : h # s /\ Carries(sess[h])
        => sess[h].new \in redis' /\ sess[h].new \notin held'
  BY <1>1 DEF PendInv, Tied, Delivers
<1>3. \A i \in Ids : ~Covers(x, i)
  BY <1>1 DEF Covers
<1>4. \A t \in Tokens : IsType(t, "email_verification") \/ IsType(t, "invite") => t # x.tok
  BY <1>1 DEF IsType
<1>5. sess' = [sess EXCEPT ![s] = Idle] /\ UNCHANGED <<users, taken, tokens, failures>>
  BY DEF LogoutDelete, Put, database
<1> QED BY <1>1, <1>2, <1>3, <1>4, <1>5, PendingEnd

\* No request of a user who has yet to be verified or to accept comes to an error:
\* the token finds the row, an invitation one that is still invited.
LEMMA CoversOn ==
  ASSUME PendInv, NEW s \in Handlers, NEW i \in Ids, Pending(i), Covers(sess[s], i)
  PROVE  ~Raises(s)
<1> DEFINE x == sess[s]
<1>1. x \in Session /\ Fits(x) /\ Presents(x) /\ users[i] \in UserRow /\ users[i] # None
  BY Before DEF PendInv, Tied, Pending
<1>2. CASE x.op = "register" /\ x.pc = "ready"
  BY <1>2 DEF Raises
<1>3. CASE /\ x.op \in {"verify_email", "accept_invite"}
           /\ x.pc \in {"got", "deleted", "read", "flushed"}
           /\ tokens[x.tok].sub = i
  <2>1. x.op \in Consuming /\ x.op \notin Creating
    BY <1>3, OpsDistinct
  <2>2. x.tok \in Tokens /\ IsType(x.tok, TypeTaken(x.op)) /\ Named(x.tok)
    BY <1>1, <2>1 DEF Fits, Holds, Presents
  <2>3. /\ tokens[x.tok].type \in {"email_verification", "invite"}
        /\ x.op = "accept_invite" => tokens[x.tok].type = "invite"
    BY <1>3, <2>2 DEF TypeTaken, IsType
  <2>4. i \in LoadedBy(x.tok)
    BY <1>1, <1>3, <2>2, <2>3 DEF PendInv, Claims, LoadedBy
  <2>5. MayConsume(x, i)
    BY <1>1, <1>3, <2>2, <2>3 DEF PendInv, Claims, MayConsume, Pending, UserRow, Status
  <2>6. x.pc = "read" => ~FlushRaises(x)
    BY <1>1, <1>3, <2>1 DEF Fits, Holds, Consumer, FlushRaises
  <2> QED BY <1>3, <2>4, <2>5, <2>6 DEF Raises
<1> QED BY <1>2, <1>3 DEF Covers

LEMMA FailPending ==
  ASSUME PendInv, AuthInv', NEW s \in Handlers, Fail(s)
  PROVE  PendInv'
<1>1. /\ sess' = [sess EXCEPT ![s] = Idle]
      /\ UNCHANGED <<users, taken, tokens, redis, held>>
      /\ failures' = IF Raises(s) THEN failures ELSE failures + 1
  BY DEF Fail, Put, database, keys, clients
<1>2. failures \in Nat
  BY AuthAssumption DEF PendInv, AuthInv, TypeOK
<1>3. failures' = 0 => failures = 0 /\ Raises(s)
  BY <1>1, <1>2
<1>4. \A h \in Handlers : Carries(sess[h]) => sess[h].new \in redis' /\ sess[h].new \notin held'
  BY <1>1 DEF PendInv, Tied, Delivers
<1>5. failures' = 0 => \A i \in Ids : Pending(i) => ~Covers(sess[s], i)
  BY <1>3, CoversOn
<1> QED BY <1>1, <1>3, <1>4, <1>5, PendingEnd

\* A token runs out together with its key, and only after it was delivered.
LEMMA TimePending ==
  ASSUME PendInv, AuthInv', UNCHANGED <<users, taken, tokens, sess, failures>>,
         held' \subseteq held, \A t \in held' : t \in redis => t \in redis',
         \A h \in Handlers : sess[h].new \in redis => sess[h].new \in redis'
  PROVE  PendInv'
<1>1. \A h \in Handlers : Tied(sess[h])'
  BY DEF PendInv, Tied, Presents, Prepares, Delivers, Carries, IsType, Named
<1>2. \A h, k \in Handlers : h # k => OwnToken(sess[h], sess[k])'
  BY DEF PendInv, OwnToken, Carries
<1>3. Claims'
  BY DEF PendInv, Claims, Named
<1>4. ASSUME NEW i \in Ids, Covered(i) PROVE Covered(i)'
  <2>1. \A t \in Tokens : Opens(t, i) => Opens(t, i)'
    BY DEF Opens, IsType, Named
  <2>2. \A h \in Handlers : Covers(sess[h], i) => Covers(sess[h], i)'
    BY DEF Covers
  <2> QED BY <1>4, <2>1, <2>2 DEF Covered
<1>5. failures' = 0 => \A i \in Ids : Pending(i)' => Covered(i)'
  BY <1>4 DEF PendInv, Pending
<1> QED BY <1>1, <1>2, <1>3, <1>5 DEF PendInv

-----------------------------------------------------------------------------
(* A token is created. *)

LEMMA IssuePending ==
  ASSUME PendInv, AuthInv', NEW s \in Handlers, Issue(s)
  PROVE  PendInv'
<1> DEFINE x == sess[s]
           token == [type |-> TypeIssued(x.op), sub |-> x.who,
                     org |-> x.row.org, email |-> x.row.email]
<1>1. x.pc = "ready" /\ x \in Session /\ Fits(x) /\ Tied(x) /\ AuthInv
  BY Before DEF Issue, PendInv
<1>2. /\ x.op \in Issuing /\ x.who \in Ids /\ x.who \in taken
      /\ token \in Token
  <2>1. x.op \in Issuing /\ x.who \in Ids /\ x.row \in UserRow /\ x.who \in taken
    BY <1>1, Before DEF Fits, Shape
  <2> QED BY <2>1, OpsDistinct DEF Token, TokenType, TypeIssued, UserRow
<1>3. PICK n \in Tokens :
        /\ ~Named(n)
        /\ tokens' = [tokens EXCEPT ![n] = token]
        /\ redis' = redis \cup {n}
        /\ sess' = [sess EXCEPT ![s] = [x EXCEPT !.pc = "issued", !.new = n]]
  BY DEF Issue, Put, Stored
<1>4. PICK y : y = [x EXCEPT !.pc = "issued", !.new = n]
  OBVIOUS
<1>5. /\ y.op = x.op /\ y.pc = "issued" /\ y.who = x.who
      /\ y.row = x.row /\ y.tok = x.tok /\ y.new = n
  BY <1>1, <1>4 DEF Session
<1>6. sess'[s] = y /\ \A h \in Handlers : h # s => sess'[h] = sess[h]
  BY <1>1, <1>3, <1>4, Before
<1>7. UNCHANGED <<users, taken, held, failures>>
  BY DEF Issue, database, clients
<1>8. /\ tokens'[n] = token /\ \A t \in Tokens : t # n => tokens'[t] = tokens[t]
      /\ \A t \in Tokens : Named(t) => t # n /\ Named(t)'
      /\ \A t \in Tokens : Named(t)' => t = n \/ Named(t)
      /\ n \notin held
  BY <1>1, <1>3, Before DEF Named, AuthInv, TypeOK
<1>9. ASSUME NEW h \in Handlers, h # s
      PROVE  Tied(sess[h])' /\ OwnToken(y, sess[h]) /\ OwnToken(sess[h], y)
  <2>1. /\ sess'[h] = sess[h] /\ Tied(sess[h]) /\ Fits(sess[h])
        /\ Apart(sess[h], x)
    BY <1>1, <1>6, <1>9, Before DEF PendInv, AuthInv
  <2>2. /\ (\/ sess[h].op \in Consuming \cup {"refresh"}
            \/ (sess[h].op = "logout" /\ sess[h].tok # None))
             => sess[h].tok \in Tokens /\ Named(sess[h].tok)
        /\ Carries(sess[h]) => sess[h].new \in Tokens /\ Named(sess[h].new)
    BY <2>1 DEF Tied, Presents, IsType, Fits, Holds, Carries
  <2>3. Presents(sess[h])'
    BY <2>1, <2>2, <1>8 DEF Tied, Presents, IsType, Named
  <2>4. Prepares(sess[h])'
    <3>1. Uncommitted(sess[h]) => sess[h].who # x.who
      BY <2>1 DEF Apart
    <3>2. ASSUME Uncommitted(sess[h]), NEW t \in Tokens, Named(t)',
                 tokens'[t].sub = sess[h].who
          PROVE  Carries(sess[h]) /\ t = sess[h].new
      BY <3>1, <3>2, <2>1, <1>8 DEF Tied, Prepares
    <3> QED BY <2>1, <3>2, <1>7 DEF Tied, Prepares
  <2>5. Delivers(sess[h])'
    BY <2>1, <2>2, <1>3, <1>7, <1>8 DEF Tied, Delivers
  <2>6. OwnToken(y, sess[h]) /\ OwnToken(sess[h], y)
    BY <2>2, <1>2, <1>5, <1>8, OpsDistinct DEF OwnToken
  <2> QED BY <2>3, <2>4, <2>5, <2>6 DEF Tied
<1>10. Tied(y)'
  <2>1. Presents(y)'
    BY <1>1, <1>2, <1>5, <1>8, OpsDistinct DEF Tied, Presents, IsType, Named
  <2>2. Prepares(y)'
    <3>1. Uncommitted(y) => Uncommitted(x)
      BY <1>1, <1>5 DEF Uncommitted
    <3>2. ASSUME Uncommitted(y), NEW t \in Tokens, Named(t)', tokens'[t].sub = x.who
          PROVE  t = n
      BY <3>1, <3>2, <1>1, <1>8 DEF Tied, Prepares, Carries
    <3> QED BY <3>2, <1>1, <1>5, <1>7 DEF Tied, Prepares, Carries
  <2>3. Delivers(y)'
    BY <1>3, <1>5, <1>7, <1>8 DEF Delivers, TypeIssued
  <2> QED BY <2>1, <2>2, <2>3 DEF Tied
<1>11. \A h \in Handlers : Tied(sess[h])'
  <2>1. Tied(sess[s])'
    BY <1>6, <1>10 DEF Tied, Presents, Prepares, Delivers, Carries, Uncommitted
  <2> QED BY <2>1, <1>9
<1>12. \A h, k \in Handlers : h # k => OwnToken(sess[h], sess[k])'
  <2> SUFFICES ASSUME NEW h \in Handlers, NEW k \in Handlers, h # k
               PROVE  OwnToken(sess'[h], sess'[k])
    BY DEF OwnToken, Carries
  <2> QED BY <1>6, <1>9 DEF PendInv
<1>13. Claims'
  <2> SUFFICES ASSUME NEW t \in Tokens, Named(t)'
               PROVE  /\ tokens'[t].sub \in taken
                      /\ (/\ tokens'[t].type \in {"email_verification", "invite"}
                          /\ users[tokens'[t].sub] # None)
                           => users[tokens'[t].sub].org = tokens'[t].org
                      /\ (tokens'[t].type = "invite" /\ users[tokens'[t].sub] # None)
                           => users[tokens'[t].sub].status # "pending_verification"
    BY <1>7 DEF Claims
  <2>1. CASE t = n
    <3>1. CASE x.op = "register"
      BY <3>1, <2>1, <1>1, <1>2, <1>8 DEF Tied, Prepares, TypeIssued
    <3>2. CASE x.op = "invite_user"
      BY <3>2, <2>1, <1>1, <1>2, <1>8, OpsDistinct DEF Fits, Inserts, Uncommitted
    <3>3. CASE x.op \in {"login", "refresh", "forgot_password"}
      BY <3>3, <2>1, <1>2, <1>8 DEF TypeIssued
    <3> QED BY <3>1, <3>2, <3>3, <1>2, OpsDistinct
  <2>2. CASE t # n
    BY <2>2, <1>8 DEF PendInv, Claims
  <2> QED BY <2>1, <2>2
<1>14. ASSUME NEW i \in Ids, Covered(i) PROVE Covered(i)'
  <2>1. ASSUME NEW t \in Tokens, Opens(t, i) PROVE Opens(t, i)'
    BY <2>1, <1>3, <1>7, <1>8 DEF Opens, IsType, Named
  <2>2. ASSUME Covers(x, i) PROVE Opens(n, i)'
    <3>1. x.op = "register" /\ x.who = i
      BY <2>2, <1>1 DEF Covers
    <3>2. TypeIssued(x.op) = "email_verification"
      BY <3>1 DEF TypeIssued
    <3>3. tokens'[n] # None /\ tokens'[n].type = "email_verification" /\ tokens'[n].sub = i
      BY <3>1, <3>2, <1>1, <1>2, <1>8, Before
    <3> QED BY <3>3, <1>7, <1>8 DEF Opens, IsType, Named
  <2>3. ASSUME NEW h \in Handlers, h # s, Covers(sess[h], i) PROVE Covers(sess[h], i)'
    <3>1. sess[h].op \in Consuming => sess[h].tok \in Tokens /\ Named(sess[h].tok)
      BY <1>1 DEF AuthInv, Fits, Holds
    <3> QED BY <3>1, <2>3, <1>6, <1>8, OpsDistinct DEF Covers
  <2> QED BY <1>14, <2>1, <2>2, <2>3 DEF Covered
<1>15. failures' = 0 => \A i \in Ids : Pending(i)' => Covered(i)'
  BY <1>7, <1>14 DEF PendInv, Pending
<1> QED BY <1>11, <1>12, <1>13, <1>15 DEF PendInv

-----------------------------------------------------------------------------
(* Rows change. *)

LEMMA PendingRows ==
  ASSUME PendInv, AuthInv', NEW s \in Handlers, NEW y \in Session,
         sess' = [sess EXCEPT ![s] = y],
         UNCHANGED <<taken, tokens, redis, held, failures>>,
         Tied(y)',
         \A h \in Handlers : h # s =>
           /\ OwnToken(y, sess[h]) /\ OwnToken(sess[h], y)
           /\ (sess[h].op = "register" /\ users'[sess[h].who] # None)
                => users'[sess[h].who].org = sess[h].who,
         Claims',
         failures = 0 => \A i \in Ids : Pending(i)' => Covered(i)'
  PROVE  PendInv'
<1>1. sess'[s] = y /\ \A h \in Handlers : h # s => sess'[h] = sess[h]
  BY Before DEF PendInv
<1>2. ASSUME NEW h \in Handlers, h # s PROVE Tied(sess[h])'
  <2>1. Tied(sess[h]) /\ sess'[h] = sess[h]
    BY <1>1, <1>2 DEF PendInv
  <2>2. Presents(sess[h])'
    BY <2>1 DEF Tied, Presents, IsType, Named
  <2>3. Prepares(sess[h])'
    BY <2>1, <1>2 DEF Tied, Prepares, Named
  <2>4. Delivers(sess[h])'
    BY <2>1 DEF Tied, Delivers
  <2> QED BY <2>2, <2>3, <2>4 DEF Tied
<1>3. \A h \in Handlers : Tied(sess[h])'
  BY <1>1, <1>2
<1>4. \A h, k \in Handlers : h # k => OwnToken(sess[h], sess[k])'
  <2> SUFFICES ASSUME NEW h \in Handlers, NEW k \in Handlers, h # k
               PROVE  OwnToken(sess'[h], sess'[k])
    BY DEF OwnToken, Carries
  <2> QED BY <1>1 DEF PendInv
<1> QED BY <1>3, <1>4 DEF PendInv

\* A new user is covered by the request that is about to send the token, or by the
\* token of the invitation.
LEMMA InsertPending ==
  ASSUME PendInv, AuthInv', NEW s \in Handlers, Commit(s), sess[s].op \in Creating
  PROVE  PendInv'
<1> DEFINE x == sess[s]
<1>1. /\ x \in Session /\ Fits(x) /\ Tied(x) /\ Uncommitted(x) /\ x.who \in Ids
      /\ x.row \in UserRow /\ users[x.who] = None /\ AuthInv
      /\ x.op = "invite_user" => x.pc = "issued"
      /\ x.op = "register" => x.pc = "flushed"
  BY Before, OpsDistinct DEF Commit, Fits, Shape, Uncommitted, Inserts, PendInv
<1>2. /\ users' = [users EXCEPT ![x.who] = x.row]
      /\ UNCHANGED <<taken, tokens, redis, held, failures>>
  BY OpsDistinct DEF Commit, keys, clients
<1>3. PICK pc \in {"ready", "committed"} :
        Step(s, pc) /\ pc = IF x.op = "register" THEN "ready" ELSE "committed"
  BY OpsDistinct DEF Commit
<1>4. PICK y : y = [x EXCEPT !.pc = pc]
  OBVIOUS
<1>5. /\ y \in Session /\ y.op = x.op /\ y.pc = pc /\ y.who = x.who
      /\ y.row = x.row /\ y.tok = x.tok /\ y.new = x.new
  BY <1>1, <1>3, <1>4 DEF Session
<1>6. sess' = [sess EXCEPT ![s] = y]
  BY <1>3, <1>4 DEF Step
<1>7. users'[x.who] = x.row /\ \A i \in Ids : i # x.who => users'[i] = users[i]
  BY <1>1, <1>2, Before
<1>8. Carries(y) => Carries(x) /\ x.op = "invite_user"
  BY <1>1, <1>3, <1>5, OpsDistinct DEF Carries
<1>9. Tied(y)'
  <2>1. Presents(y)'
    BY <1>5, OpsDistinct DEF Presents
  <2>2. Prepares(y)'
    BY <1>1, <1>3, <1>5, <1>7 DEF Tied, Prepares, Uncommitted
  <2>3. Delivers(y)'
    BY <1>1, <1>2, <1>5, <1>8 DEF Tied, Delivers
  <2> QED BY <2>1, <2>2, <2>3 DEF Tied
<1>10. ASSUME NEW h \in Handlers, h # s
       PROVE  /\ OwnToken(y, sess[h]) /\ OwnToken(sess[h], y)
              /\ (sess[h].op = "register" /\ users'[sess[h].who] # None)
                   => users'[sess[h].who].org = sess[h].who
  <2>1. /\ OwnToken(x, sess[h]) /\ OwnToken(sess[h], x) /\ Apart(x, sess[h])
        /\ Tied(sess[h]) /\ Fits(sess[h])
    BY <1>1, <1>10, Before DEF PendInv, AuthInv
  <2>2. OwnToken(y, sess[h]) /\ OwnToken(sess[h], y)
    BY <2>1, <1>5, <1>8 DEF OwnToken
  <2>3. sess[h].who # x.who
    BY <2>1, <1>1 DEF Apart
  <2>4. sess[h].op = "register" => sess[h].who \in Ids
    BY <2>1 DEF Tied, Prepares, Fits, Shape
  <2> QED BY <2>1, <2>2, <2>3, <2>4, <1>7 DEF Tied, Prepares
<1>11. Claims'
  <2> SUFFICES ASSUME NEW t \in Tokens, Named(t)
               PROVE  /\ tokens[t].sub \in taken
                      /\ (/\ tokens[t].type \in {"email_verification", "invite"}
                          /\ users'[tokens[t].sub] # None)
                           => users'[tokens[t].sub].org = tokens[t].org
                      /\ (tokens[t].type = "invite" /\ users'[tokens[t].sub] # None)
                           => users'[tokens[t].sub].status # "pending_verification"
    BY <1>2 DEF Claims, Named
  <2>1. CASE tokens[t].sub = x.who
    <3>1. Carries(x) /\ t = x.new
      BY <2>1, <1>1 DEF Tied, Prepares
    <3>2. x.op = "invite_user" /\ x.pc = "issued"
      BY <3>1, <1>1, OpsDistinct DEF Carries
    <3> QED BY <2>1, <3>1, <3>2, <1>1, <1>7 DEF Tied, Prepares, Delivers, PendInv, Claims
  <2>2. CASE tokens[t].sub # x.who
    BY <2>2, <1>1, <1>7 DEF PendInv, Claims, AuthInv, TypeOK
  <2> QED BY <2>1, <2>2
<1>12. ASSUME failures = 0, NEW i \in Ids, Pending(i)' PROVE Covered(i)'
  <2>1. CASE i = x.who /\ x.op = "register"
    BY <2>1, <1>1, <1>3, <1>5, <1>6, Before DEF Covered, Covers
  <2>2. CASE i = x.who /\ x.op = "invite_user"
    <3>1. PICK n \in Tokens : n = x.new /\ Named(n) /\ Carries(x)
      BY <2>2, <1>1 DEF Fits, Holds, Carries
    <3>2. Opens(n, i)'
      BY <2>2, <3>1, <1>1, <1>2 DEF Tied, Delivers, Opens, IsType, Named
    <3> QED BY <3>1, <3>2 DEF Covered
  <2>3. CASE i # x.who
    <3>1. Covered(i)
      BY <2>3, <1>7, <1>12 DEF PendInv, Pending
    <3>2. ~Covers(x, i)
      BY <1>1, OpsDistinct DEF Covers
    <3>3. \A t \in Tokens : Opens(t, i) => Opens(t, i)'
      BY <1>2 DEF Opens, IsType, Named
    <3> QED BY <3>1, <3>2, <3>3, <1>2, <1>5, <1>6, CoveredOn, Before, <1>1
  <2> QED BY <2>1, <2>2, <2>3, OpsDistinct
<1> QED BY <1>2, <1>5, <1>6, <1>9, <1>10, <1>11, <1>12, PendingRows

\* Rows are updated or deleted: whoever is still pending was so before, and is not
\* the user whose token the request has used.
LEMMA UpdatePending ==
  ASSUME PendInv, AuthInv', NEW s \in Handlers, Commit(s), sess[s].op \notin Creating
  PROVE  PendInv'
<1> DEFINE x == sess[s]
<1>1. /\ x \in Session /\ Fits(x) /\ x.pc = "flushed"
      /\ x.op \in Consuming \cup {"delete_workspace"}
      /\ x.who \in Ids /\ x.row \in UserRow /\ AuthInv
  BY Before, OpsDistinct DEF Commit, Fits, Shape, PendInv
<1>2. /\ sess' = [sess EXCEPT ![s] = Idle]
      /\ UNCHANGED <<taken, tokens, redis, held, failures>>
  BY <1>1, OpsDistinct DEF Commit, keys, clients, Put
<1>3. ASSUME NEW i \in Ids, users'[i] # None
      PROVE  /\ users[i] # None /\ users'[i].org = users[i].org
             /\ users'[i].status \in {users[i].status, "active"}
             /\ (x.op \in {"verify_email", "accept_invite"} /\ i = x.who)
                  => users'[i].status = "active"
  <2>1. CASE x.op \in Consuming
    <3>1. users' = [users EXCEPT ![x.who] = Updated(users[x.who], x)]
      BY <2>1, OpsDistinct DEF Commit
    <3>2. users[x.who] # None /\ users[x.who] \in UserRow
      BY <2>1, <1>1, Before DEF Fits, Relies, Consumer
    <3>3. CASE i = x.who
      <4>1. users'[i] = Updated(users[i], x)
        BY <3>1, <3>3, <1>1, Before
      <4>2. CASE x.op = "reset_password"
        BY <4>1, <4>2, <3>2, <3>3 DEF Updated, UserRow
      <4>3. CASE x.op = "verify_email"
        BY <4>1, <4>3, <3>2, <3>3 DEF Updated, UserRow
      <4>4. CASE x.op = "accept_invite"
        BY <4>1, <4>4, <3>2, <3>3 DEF Updated, Accepted, UserRow
      <4> QED BY <2>1, <4>2, <4>3, <4>4, OpsDistinct
    <3>4. CASE i # x.who
      BY <3>1, <3>4, <1>1, <1>3, Before
    <3> QED BY <3>3, <3>4
  <2>2. CASE x.op = "delete_workspace"
    <3>1. users' = [j \in Ids |-> IF users[j] # None /\ users[j].org = x.row.org
                                  THEN None ELSE users[j]]
      BY <2>2, OpsDistinct DEF Commit
    <3> QED BY <3>1, <2>2, <1>3
  <2> QED BY <2>1, <2>2, <1>1
<1>4. PICK y : y = Idle
  OBVIOUS
<1>5. y \in Session /\ ~Carries(y) /\ y.op = "none"
  BY <1>4, IdleFits DEF Carries
<1>6. Tied(y)'
  BY <1>4, <1>5, IdleFits, OpsDistinct DEF Tied, Presents, Prepares, Delivers, Uncommitted, Carries
<1>7. ASSUME NEW h \in Handlers, h # s
      PROVE  /\ OwnToken(y, sess[h]) /\ OwnToken(sess[h], y)
             /\ (sess[h].op = "register" /\ users'[sess[h].who] # None)
                  => users'[sess[h].who].org = sess[h].who
  <2>1. Tied(sess[h]) /\ Fits(sess[h])
    BY <1>1 DEF PendInv, AuthInv
  <2>2. OwnToken(y, sess[h]) /\ OwnToken(sess[h], y)
    BY <1>5, OpsDistinct DEF OwnToken
  <2>3. sess[h].op = "register" => sess[h].who \in Ids
    BY <2>1 DEF Tied, Prepares, Fits, Shape
  <2> QED BY <2>1, <2>2, <2>3, <1>3 DEF Tied, Prepares
<1>8. Claims'
  <2> SUFFICES ASSUME NEW t \in Tokens, Named(t)
               PROVE  /\ tokens[t].sub \in taken
                      /\ (/\ tokens[t].type \in {"email_verification", "invite"}
                          /\ users'[tokens[t].sub] # None)
                           => users'[tokens[t].sub].org = tokens[t].org
                      /\ (tokens[t].type = "invite" /\ users'[tokens[t].sub] # None)
                           => users'[tokens[t].sub].status # "pending_verification"
    BY <1>2 DEF Claims, Named
  <2>1. tokens[t].sub \in taken /\ taken \subseteq Ids
    BY <1>1 DEF PendInv, Claims, AuthInv, TypeOK
  <2> QED BY <2>1, <1>3 DEF PendInv, Claims
<1>9. ASSUME failures = 0, NEW i \in Ids, Pending(i)' PROVE Covered(i)'
  <2>1. Pending(i) /\ Covered(i)
    BY <1>3, <1>9 DEF PendInv, Pending
  <2>2. ~Covers(x, i)
    <3> SUFFICES ASSUME Covers(x, i) PROVE FALSE
      OBVIOUS
    <3>1. x.op \in {"verify_email", "accept_invite"} /\ tokens[x.tok].sub = i
      BY <1>1 DEF Covers
    <3>2. i = x.who
      BY <3>1, <1>1, OpsDistinct DEF Fits, Holds, Consumer
    <3> QED BY <3>1, <3>2, <1>3, <1>9 DEF Pending
  <2>3. \A t \in Tokens : Opens(t, i) => Opens(t, i)'
    BY <1>2 DEF Opens, IsType, Named
  <2> QED BY <2>1, <2>2, <2>3, <1>1, <1>2, <1>4, <1>5, CoveredOn, Before
<1> QED BY <1>2, <1>4, <1>5, <1>6, <1>7, <1>8, <1>9, PendingRows

LEMMA PendingInit == Init => PendInv
<1> SUFFICES ASSUME Init PROVE PendInv
  OBVIOUS
<1>1. \A s \in Handlers : Tied(sess[s])
  BY IdleFits, OpsDistinct DEF Init, Tied, Presents, Prepares, Delivers, Uncommitted, Carries
<1>2. \A s, h \in Handlers : s # h => OwnToken(sess[s], sess[h])
  BY IdleFits DEF Init, OwnToken, Carries
<1>3. Claims
  BY DEF Init, Claims, Named
<1>4. \A i \in Ids : ~Pending(i)
  BY DEF Init, Pending
<1> QED BY <1>1, <1>2, <1>3, <1>4, InitInv DEF PendInv

LEMMA PendingNext == PendInv /\ [Next]_vars => PendInv'
<1> SUFFICES ASSUME PendInv, [Next]_vars PROVE PendInv'
  OBVIOUS
<1>1. AuthInv'
  BY NextInv DEF PendInv
<1>2. ASSUME NEW s \in Handlers, Begin(s) PROVE PendInv'
  BY <1>1, <1>2, BeginPending
<1>3. ASSUME NEW s \in Handlers, Commit(s) PROVE PendInv'
  BY <1>1, <1>3, InsertPending, UpdatePending
<1>4. ASSUME NEW s \in Handlers, Proceed(s) PROVE PendInv'
  BY <1>1, <1>3, <1>4, AuthorizePending, InviteReadPending, FlushPending, RefreshLoadPending,
     IssuePending, AnswerPending, LogoutDeletePending, ConsumeLoadPending, StepPending
     DEF Proceed
<1>5. ASSUME NEW s \in Handlers, Fail(s) PROVE PendInv'
  BY <1>1, <1>5, FailPending
<1>6. ASSUME NEW t \in Tokens, Expire(t) PROVE PendInv'
  BY <1>1, <1>6, TimePending DEF Expire, database
<1>7. ASSUME NEW t \in Tokens, AccessExpire(t) \/ BlacklistExpire(t) PROVE PendInv'
  BY <1>1, <1>7, TimePending DEF AccessExpire, BlacklistExpire, database, keys, clients
<1>8. CASE UNCHANGED vars
  BY <1>1, <1>8, TimePending DEF vars, database, keys, clients
<1> QED BY <1>2, <1>4, <1>5, <1>6, <1>7, <1>8 DEF Next, Handle, Time

-----------------------------------------------------------------------------
(* What is kept in Redis, and the tokens that are used up. *)

\* Only a token that nobody has yet gets a key.
LEMMA KeysAreNew ==
  ASSUME [Next]_vars, NEW t \in Tokens, Named(t), t \notin redis
  PROVE  t \notin redis'
<1>1. redis' \subseteq redis \/ \E s \in Handlers : Issue(s)
  BY DEF Next, Handle, Begin, Proceed, Time, RegisterRead, LoginRead, ForgotRead,
     RefreshGet, LogoutBlacklist, ConsumeGet, Present, Authorize, InviteRead, DeleteRead,
     Flush, Commit, LoginOrganization, RefreshLoad, RefreshDelete, Answer, LogoutDelete,
     ConsumeDelete, ConsumeLoad, Fail, Expire, AccessExpire, BlacklistExpire, vars, keys
<1>2. ASSUME NEW s \in Handlers, Issue(s) PROVE t \notin redis'
  <2>1. PICK n \in Tokens : ~Named(n) /\ redis' = redis \cup {n}
    BY <1>2 DEF Issue, Stored
  <2> QED BY <2>1
<1> QED BY <1>1, <1>2

\* From the deletion of the key to the commit of what the token is for.
Uses(x) == x.op \in Consuming /\ x.pc \in {"deleted", "read", "flushed"}

Spent == \A s \in Handlers : Uses(sess[s]) => sess[s].tok \notin redis

LEMMA UsesNothingAtFirst ==
  ASSUME AuthInv, NEW s \in Handlers, Begin(s)
  PROVE  ~Uses(sess'[s])
<1>1. DOMAIN sess = Handlers
  BY Before
<1>2. CASE RegisterRead(s)
  BY <1>1, <1>2, OpsDistinct DEF RegisterRead, Put, Idle, Uses
<1>3. CASE LoginRead(s)
  BY <1>1, <1>3, OpsDistinct DEF LoginRead, Put, Idle, Uses
<1>4. CASE ForgotRead(s)
  BY <1>1, <1>4, OpsDistinct DEF ForgotRead, Put, Idle, Uses
<1>5. CASE RefreshGet(s)
  BY <1>1, <1>5, OpsDistinct DEF RefreshGet, Put, Idle, Uses
<1>6. CASE LogoutBlacklist(s)
  BY <1>1, <1>6, OpsDistinct DEF LogoutBlacklist, Put, Idle, Uses
<1>7. CASE ConsumeGet(s)
  BY <1>1, <1>7, OpsDistinct DEF ConsumeGet, Put, Idle, Uses
<1>8. CASE Present(s)
  BY <1>1, <1>8, OpsDistinct DEF Present, Put, Idle, Uses
<1> QED BY <1>2, <1>3, <1>4, <1>5, <1>6, <1>7, <1>8 DEF Begin

\* A request comes to use a token by deleting its key.
LEMMA UsesWhatItDeleted ==
  ASSUME AuthInv, NEW s \in Handlers, Proceed(s), Uses(sess'[s])
  PROVE  /\ sess'[s].tok = sess[s].tok
         /\ Uses(sess[s]) \/ sess[s].tok \notin redis'
<1> DEFINE x == sess[s]  y == sess'[s]
<1>1. DOMAIN sess = Handlers /\ x \in Session /\ Fits(x)
  BY Before
<1>2. DOMAIN x = {"op", "pc", "who", "row", "tok", "new"}
  BY <1>1 DEF Session
<1>3. CASE Authorize(s) \/ InviteRead(s) \/ DeleteRead(s) \/ LoginOrganization(s)
             \/ RefreshLoad(s) \/ RefreshDelete(s)
  <2>1. x.op \notin Consuming /\ y.op = x.op
    BY <1>1, <1>2, <1>3, OpsDistinct, ZenonT(60)
       DEF Authorize, InviteRead, DeleteRead, LoginOrganization, RefreshLoad, RefreshDelete,
           Put, Step, Load, Fits, Shape
  <2> QED BY <2>1 DEF Uses
<1>4. CASE Flush(s)
  BY <1>1, <1>2, <1>4 DEF Flush, Step, Uses
<1>5. CASE Commit(s)
  BY <1>1, <1>2, <1>5, OpsDistinct, IdleFits DEF Commit, Step, Put, Uses
<1>6. CASE Issue(s)
  <2>1. PICK n \in Tokens : Put(s, [x EXCEPT !.pc = "issued", !.new = n])
    BY <1>6 DEF Issue
  <2>2. y.pc = "issued"
    BY <2>1, <1>1, <1>2 DEF Put
  <2> QED BY <2>2 DEF Uses
<1>7. CASE Answer(s) \/ LogoutDelete(s)
  BY <1>1, <1>7, IdleFits, OpsDistinct DEF Answer, LogoutDelete, Put, Uses
<1>8. CASE ConsumeDelete(s)
  BY <1>1, <1>2, <1>8 DEF ConsumeDelete, Step, Uses
<1>9. CASE ConsumeLoad(s)
  BY <1>1, <1>2, <1>9 DEF ConsumeLoad, Load, Uses
<1> QED BY <1>3, <1>4, <1>5, <1>6, <1>7, <1>8, <1>9 DEF Proceed

\* A step is of one request or of time.
LEMMA OneRequest ==
  ASSUME AuthInv, [Next]_vars, NEW s \in Handlers, sess'[s] # sess[s]
  PROVE  Handle(s)
<1>1. DOMAIN sess = Handlers
  BY Before
<1>2. ASSUME NEW h \in Handlers, Handle(h), h # s PROVE FALSE
  <2>1. \E y : sess' = [sess EXCEPT ![h] = y]
    BY <1>2, ZenonT(60) DEF Handle, Begin, Proceed, RegisterRead, LoginRead, ForgotRead, RefreshGet,
       LogoutBlacklist, ConsumeGet, Present, Authorize, InviteRead, DeleteRead, Flush,
       Commit, LoginOrganization, RefreshLoad, RefreshDelete, Issue, Answer, LogoutDelete,
       ConsumeDelete, ConsumeLoad, Fail, Put, Step, Load
  <2>2. sess'[s] = sess[s]
    BY <1>1, <1>2, <2>1
  <2> QED BY <2>2
<1>3. ~Time /\ ~UNCHANGED vars
  BY DEF Time, Expire, AccessExpire, BlacklistExpire, vars
<1> QED BY <1>2, <1>3 DEF Next

LEMMA SpentNext ==
  AuthInv /\ Spent /\ [Next]_vars => Spent'
<1> SUFFICES ASSUME AuthInv, Spent, [Next]_vars, NEW s \in Handlers, Uses(sess'[s])
             PROVE  sess'[s].tok \notin redis'
  BY DEF Spent, Uses
<1>1. sess'[s].tok = sess[s].tok /\ (Uses(sess[s]) \/ sess[s].tok \notin redis')
  <2>1. CASE sess'[s] = sess[s]
    BY <2>1
  <2>2. CASE sess'[s] # sess[s]
    <3>1. CASE Fail(s)
      <4>1. sess'[s] = Idle
        BY <3>1, Before DEF Fail, Put
      <4> QED BY <4>1, IdleFits DEF Uses
    <3> QED BY <2>2, <3>1, OneRequest, UsesNothingAtFirst, UsesWhatItDeleted DEF Handle
  <2> QED BY <2>1, <2>2
<1>2. CASE Uses(sess[s])
  <2>1. sess[s].tok \in Tokens /\ Named(sess[s].tok) /\ sess[s].tok \notin redis
    BY <1>2 DEF AuthInv, Fits, Holds, Uses, Spent
  <2> QED BY <1>1, <2>1, KeysAreNew
<1> QED BY <1>1, <1>2

LEMMA SpentAlways ==
  Spec => []Spent
<1>1. Init => Spent
  BY IdleFits DEF Init, Spent, Uses
<1> QED BY <1>1, SpentNext, Invariance, PTL DEF Spec

-----------------------------------------------------------------------------
(* The end of a key in the blacklist. *)

\* Whole seconds are rounded down.
LEMMA SecondsBelow ==
  ASSUME NEW moment \in Nat
  PROVE  Seconds(moment) \in Nat /\ Seconds(moment) * Second <= moment
BY AuthTimesAssumption, Z3 DEF Seconds

\* The TTL worked out at some moment reaches at least to the end of the token.
LEMMA TtlLongEnough ==
  ASSUME NEW exp \in Nat, NEW moment \in Nat
  PROVE  /\ _ttl_seconds(exp, moment) * Second \in Nat
         /\ exp * Second <= moment + _ttl_seconds(exp, moment) * Second
<1> DEFINE n == Seconds(moment)
           ttl == _ttl_seconds(exp, moment)
<1>1. n \in Nat /\ n * Second <= moment
  BY SecondsBelow
<1>2. ttl \in Nat /\ exp <= ttl + n
  BY <1>1 DEF _ttl_seconds, TimeLeft
<1> HIDE DEF ttl, n
<1>3. exp * Second <= (ttl + n) * Second
  BY <1>1, <1>2, AuthTimesAssumption, Z3
<1>4. (ttl + n) * Second = ttl * Second + n * Second
  BY <1>1, <1>2, AuthTimesAssumption, Z3
<1>5. ttl * Second \in Nat /\ n * Second \in Nat /\ exp * Second \in Nat
  BY <1>1, <1>2, AuthTimesAssumption, Z3
<1>6. exp * Second <= moment + ttl * Second
  BY <1>1, <1>3, <1>4, <1>5
<1> QED BY <1>5, <1>6 DEF ttl

\* No key in the blacklist ends before its token, whenever the second changes.
LEMMA KeysLast == ~KeyEndsFirst
<1> SUFFICES ASSUME NEW exp \in ExpTimes, NEW read \in Moments, NEW written \in Moments,
                    read <= written
             PROVE  ~(written + _ttl_seconds(exp, read) * Second < exp * Second)
  BY DEF KeyEndsFirst
<1> DEFINE left == _ttl_seconds(exp, read) * Second
           end == exp * Second
<1>1. read \in Nat /\ written \in Nat /\ exp \in Nat
  BY AuthTimesAssumption
<1>2. left \in Nat /\ end <= read + left
  BY <1>1, TtlLongEnough
<1>3. end \in Nat
  BY <1>1, AuthTimesAssumption
<1> HIDE DEF left, end
<1>4. ~(written + left < end)
  BY <1>1, <1>2, <1>3
<1> QED BY <1>4 DEF left, end

-----------------------------------------------------------------------------
(* Theorems *)

\* Every reachable state has the types of TypeOK: above all, an UPDATE that is
\* committed finds the row it was flushed for.
THEOREM AuthTypeCorrect == Spec => []TypeOK
<1>1. AuthInv => TypeOK
  BY DEF AuthInv
<1> QED BY <1>1, Invariance, PTL

\* However registrations, invitations and deletions overlap, no user is left
\* without an organization and no organization without its owner.
THEOREM WorkspacesWhole == Spec => []WorkspaceWhole
<1>1. AuthInv => WorkspaceWhole
  BY DEF AuthInv, Rows, Owners, TypeOK, WorkspaceWhole
<1> QED BY <1>1, Invariance, PTL

\* An account is active exactly if its address is verified.
THEOREM ActiveVerified == Spec => []ActiveIsVerified
<1>1. AuthInv => ActiveIsVerified
  BY DEF AuthInv, Rows, ActiveIsVerified
<1> QED BY <1>1, Invariance, PTL

\* A password is set with a token made for this very user, also when its address
\* has been registered anew.
THEOREM PasswordOwned == Spec => []PasswordByOwnToken
<1>1. AuthInv => PasswordByOwnToken
  BY DEF AuthInv, Rows, PasswordByOwnToken
<1> QED BY <1>1, Invariance, PTL

\* Requests that overlap on one account undo nothing of each other: an UPDATE leaves
\* the columns it does not set as they are by then, whatever they were when it was
\* loaded, and the token a password is set with is used up before.
THEOREM AccountsProgress == Spec => AccountsMoveOn
<1>1. ASSUME AuthInv, Spent, [Next]_vars,
             NEW i \in Ids, users[i] # None, users'[i] # None, users'[i] # users[i]
      PROVE  /\ users'[i].email = users[i].email /\ users'[i].org = users[i].org
             /\ users'[i].role = users[i].role
             /\ users[i].verified => users'[i].verified
             /\ users'[i].password # users[i].password => users'[i].password \in Tokens \ redis
  <2>1. PICK s \in Handlers : Commit(s)
    BY <1>1 DEF Next, Handle, Begin, Proceed, Time, RegisterRead, LoginRead, ForgotRead,
       RefreshGet, LogoutBlacklist, ConsumeGet, Present, Authorize, InviteRead, DeleteRead,
       Flush, LoginOrganization, RefreshLoad, RefreshDelete, Issue, Answer, LogoutDelete,
       ConsumeDelete, ConsumeLoad, Fail, Expire, AccessExpire, BlacklistExpire, vars, database
  <2> DEFINE x == sess[s]
  <2>2. x.op \in Creating \cup Consuming \cup {"delete_workspace"}
    BY <1>1, <2>1, Before, OpsDistinct DEF Commit, Fits, Shape
  <2>3. x.op \notin Creating
    <3>1. SUFFICES ASSUME x.op \in Creating PROVE FALSE
      OBVIOUS
    <3>2. users' = [users EXCEPT ![x.who] = x.row]
      BY <2>1, <3>1, OpsDistinct DEF Commit
    <3>3. Uncommitted(x) /\ users[x.who] = None
      BY <1>1, <2>1, <3>1, OpsDistinct DEF Commit, AuthInv, Fits, Shape, Inserts, Uncommitted
    <3> QED BY <1>1, <3>2, <3>3, Before
  <2>4. x.op # "delete_workspace"
    <3>1. SUFFICES ASSUME x.op = "delete_workspace" PROVE FALSE
      OBVIOUS
    <3>2. users' = [j \in Ids |-> IF users[j] # None /\ users[j].org = x.row.org
                                  THEN None ELSE users[j]]
      BY <2>1, <3>1, OpsDistinct DEF Commit
    <3> QED BY <1>1, <3>2
  <2>5. x.op \in Consuming /\ x.pc = "flushed"
    BY <2>1, <2>2, <2>3, <2>4, OpsDistinct DEF Commit
  <2>6. users' = [users EXCEPT ![x.who] = Updated(@, x)]
    BY <2>1, <2>5, OpsDistinct DEF Commit
  <2>7. i = x.who /\ users'[i] = Updated(users[i], x) /\ users[i] \in UserRow
    BY <1>1, <2>6, Before
  <2>8. x.tok \in Tokens \ redis
    BY <1>1, <2>5 DEF AuthInv, Fits, Holds, Spent, Uses
  <2>9. CASE x.op = "reset_password"
    BY <2>7, <2>8, <2>9 DEF Updated, UserRow
  <2>10. CASE x.op = "verify_email"
    BY <2>7, <2>8, <2>10 DEF Updated, UserRow
  <2>11. CASE x.op = "accept_invite"
    BY <2>7, <2>8, <2>11 DEF Updated, Accepted, UserRow
  <2> QED BY <2>5, <2>9, <2>10, <2>11, OpsDistinct
<1>2. AuthInv /\ Spent /\ [Next]_vars
        => [\A i \in Ids : (users[i] # None /\ users'[i] # None) =>
              LET old == users[i]
                  new == users'[i]
              IN /\ <<new.email, new.org, new.role>> = <<old.email, old.org, old.role>>
                 /\ old.verified => new.verified
                 /\ new.password # old.password => new.password \in Tokens \ redis]_vars
  BY <1>1
<1> QED BY <1>2, Invariance, SpentAlways, PTL DEF Spec, AccountsMoveOn

\* What was revoked, used or rotated away never works again: the jti of a token
\* that somebody holds is not given out a second time.
THEOREM RevocationLasts == Spec => RevokedStaysRevoked
<1>1. ASSUME AuthInv, [Next]_vars, NEW t \in Tokens, t \in held, t \notin redis
      PROVE  t \notin redis'
  BY <1>1, KeysAreNew DEF AuthInv
<1>2. AuthInv /\ [Next]_vars
        => [\A t \in Tokens : (t \in held /\ t \notin redis) => t \notin redis']_vars
  BY <1>1
<1> QED BY <1>2, Invariance, PTL DEF Spec, RevokedStaysRevoked

\* A revoked access token stays refused for as long as it decodes: whole seconds
\* never end its key before it.
THEOREM RevokedStaysRefused == Spec => BlacklistOutlivesToken
<1>1. ASSUME [Next]_vars, NEW t \in access \cap blacklist
      PROVE  t \in blacklist'
  <2>1. blacklist \subseteq blacklist' \/ \E u \in Tokens : BlacklistExpire(u)
    BY <1>1, ZenonT(60) DEF Next, Handle, Begin, Proceed, Time, RegisterRead, LoginRead, ForgotRead,
       RefreshGet, LogoutBlacklist, ConsumeGet, Present, Authorize, InviteRead, DeleteRead,
       Flush, Commit, LoginOrganization, RefreshLoad, RefreshDelete, Issue, Answer,
       LogoutDelete, ConsumeDelete, ConsumeLoad, Fail, Expire, AccessExpire, vars, keys
  <2>2. ASSUME NEW u \in Tokens, BlacklistExpire(u) PROVE t \in blacklist'
    BY <1>1, <2>2, KeysLast DEF BlacklistExpire
  <2> QED BY <2>1, <2>2
<1>2. [Next]_vars => [\A t \in access \cap blacklist : t \in blacklist']_vars
  BY <1>1
<1> QED BY <1>2, PTL DEF Spec, BlacklistOutlivesToken

\* Unless a request crashes, nobody who registered or was invited is left without a
\* token that works, or a request that uses or sends one, before the token runs out.
THEOREM PendingProceeds == Spec => []PendingCanProceed
<1>1. PendInv => PendingCanProceed
  <2> SUFFICES ASSUME PendInv, failures = 0, NEW i \in Ids, Pending(i)
               PROVE  \/ \E s \in Handlers :
                           \/ sess[s].who = i /\ sess[s].op \in Creating
                           \/ /\ sess[s].op \in {"verify_email", "accept_invite"}
                              /\ tokens[sess[s].tok].sub = i
                      \/ \E t \in Tokens :
                           /\ IsType(t, "email_verification") \/ IsType(t, "invite")
                           /\ tokens[t].sub = i
                           /\ t \in held => t \in redis
    BY DEF PendingCanProceed, Pending
  <2>1. CASE \E s \in Handlers : Covers(sess[s], i)
    BY <2>1, OpsDistinct DEF Covers
  <2>2. CASE \E t \in Tokens : Opens(t, i)
    BY <2>2 DEF Opens
  <2> QED BY <2>1, <2>2 DEF PendInv, Covered
<1> QED BY <1>1, PendingInit, PendingNext, PTL DEF Spec

=============================================================================
