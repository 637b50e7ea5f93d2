--------------------------- MODULE RowLocksProofs ---------------------------
(***************************************************************************)
(* Proof that the orders in which the requests of RowLocks take their      *)
(* locks agree, but for two deletions of one workspace and for changes of  *)
(* a domain, for every number of requests and rows.                        *)
(*                                                                         *)
(* The inductive invariant says which locks a transaction can hold while   *)
(* its next statement waits, and that two deletions that meet at a user    *)
(* are about the same workspace.                                           *)
(***************************************************************************)
EXTENDS RowLocks, TLAPS

-----------------------------------------------------------------------------
(* The inductive invariant. *)

Creates(x) == x.op \in {"register", "invite_user"}
Deletes(x) == x.op = "delete_workspace"

\* The rows and values a transaction is about.
Shape(x) ==
  /\ Creates(x) => x.id \in Ids /\ x.email \in Emails /\ x.todo = {}
  /\ ~Creates(x) => x.id = None
  /\ x.op \in {"register", "invite_user", "delete_workspace", "update_current"}
       => x.org \in Organizations
  /\ x.op = "none" => x = Idle
  /\ x.op = "update_user" =>
       (x.at = 1 => x.locks = {}) /\ \E i \in Ids : x.todo \subseteq {i}

\* What a transaction can have locked before its next statement.
Held(x) ==
  \A lock \in x.locks :
    /\ x.op = "register" => (lock.on = "domain" /\ x.at > 1) \/ (lock.on = "email" /\ x.at > 2)
    /\ x.op = "invite_user" =>
         (lock.on = "email" /\ x.at > 1) \/ (lock.on = "organization" /\ x.at > 2)
    /\ Deletes(x) /\ lock.on = "organization" => lock.of = x.org

\* The id of a user about to be inserted is nobody else's.
Drawn ==
  \A r \in Requests : Creates(req[r]) =>
    /\ users[req[r].id] = None
    /\ \A s \in Requests \ {r} : req[r].id \notin Knows(req[s])

\* The users a deletion knows are of its workspace, or gone.
Members ==
  \A r \in Requests : Deletes(req[r]) =>
    \A i \in Knows(req[r]) : users[i] # None => users[i].org = req[r].org

\* Deletions that know the same user are of one workspace.
Shared ==
  \A r, s \in Requests :
    (Deletes(req[r]) /\ Deletes(req[s]) /\ Knows(req[r]) \cap Knows(req[s]) # {})
      => req[r].org = req[s].org

LInv ==
  /\ TypeOK
  /\ \A r \in Requests : Shape(req[r]) /\ Held(req[r])
  /\ Drawn /\ Members /\ Shared

-----------------------------------------------------------------------------
(* Steps of one transaction. *)

LEMMA OrderOf ==
  /\ DOMAIN Order = {"register", "invite_user", "delete_workspace", "update_current",
                     "update_user", "none"}
  /\ Order["register"] = <<"domain", "email">> /\ Order["invite_user"] = <<"email", "organization">>
  /\ Order["delete_workspace"] = <<"user", "organization", "cascade">>
  /\ Order["update_current"] = <<"organization", "domain">>
  /\ Order["update_user"] = <<"user">> /\ Order["none"] = <<>>
BY DEF Order

LEMMA FirstIn ==
  ASSUME NEW ids \in SUBSET Ids, ids # {}
  PROVE  First(ids) \in ids
BY LocksAssumption DEF First

LEMMA IdleFits ==
  /\ Idle \in Request /\ Shape(Idle) /\ Held(Idle) /\ Knows(Idle) = {}
  /\ ~Creates(Idle) /\ ~Deletes(Idle)
BY OrderOf, LocksNoneAssumption
   DEF Idle, Request, Shape, Held, Knows, Creates, Deletes

\* A transaction changes, and fits in with the others.
LEMMA LocalStep ==
  ASSUME LInv, NEW r \in Requests, NEW y \in Request, req' = [req EXCEPT ![r] = y],
         UNCHANGED <<users, organizations>>,
         Shape(y), Held(y),
         Creates(y) => /\ users[y.id] = None
                       /\ \A s \in Requests \ {r} : y.id \notin Knows(req[s]),
         \A s \in Requests \ {r} : Creates(req[s]) => req[s].id \notin Knows(y),
         Deletes(y) =>
           /\ \A i \in Knows(y) : users[i] # None => users[i].org = y.org
           /\ \A s \in Requests \ {r} :
                (Deletes(req[s]) /\ Knows(y) \cap Knows(req[s]) # {}) => req[s].org = y.org
  PROVE  LInv'
<1>1. /\ req'[r] = y /\ \A s \in Requests : s # r => req'[s] = req[s]
      /\ users' = users
  BY DEF LInv, TypeOK
<1>2. TypeOK'
  BY DEF LInv, TypeOK
<1>3. \A s \in Requests : Shape(req[s])' /\ Held(req[s])'
  BY <1>1 DEF LInv, Shape, Held, Creates, Deletes
<1>4. \A s \in Requests : Knows(req[s])' = IF s = r THEN Knows(y) ELSE Knows(req[s])
  BY <1>1 DEF Knows
<1>5. Drawn'
  BY <1>1, <1>4 DEF LInv, Drawn, Creates
<1>6. Members'
  BY <1>1, <1>4 DEF LInv, Members, Deletes
<1>7. Shared'
  BY <1>1, <1>4 DEF LInv, Shared, Deletes
<1> QED BY <1>2, <1>3, <1>5, <1>6, <1>7 DEF LInv

\* A transaction goes on: a deletion may get to know more users of its workspace.
LEMMA GoesOn ==
  ASSUME LInv, NEW r \in Requests, NEW y \in Request, req' = [req EXCEPT ![r] = y],
         UNCHANGED <<users, organizations>>,
         Shape(y), Held(y),
         \A i \in Knows(y) : i \in Knows(req[r]) \/ (Deletes(y) /\ i \in MembersOf(y.org)),
         Creates(y) => Creates(req[r]) /\ y.id = req[r].id,
         Deletes(y) => Knows(req[r]) = {} \/ (Deletes(req[r]) /\ req[r].org = y.org)
  PROVE  LInv'
<1>1. Creates(y) => /\ users[y.id] = None
                    /\ \A s \in Requests \ {r} : y.id \notin Knows(req[s])
  BY DEF LInv, Drawn
<1>2. ASSUME NEW s \in Requests \ {r}, Creates(req[s]) PROVE req[s].id \notin Knows(y)
  BY <1>2 DEF LInv, Drawn, MembersOf
<1>3. ASSUME Deletes(y), NEW i \in Knows(y), users[i] # None PROVE users[i].org = y.org
  BY <1>3 DEF LInv, Members, MembersOf
<1>4. ASSUME Deletes(y), NEW s \in Requests \ {r}, Deletes(req[s]),
             NEW i \in Knows(y) \cap Knows(req[s])
      PROVE  req[s].org = y.org
  <2>1. CASE i \in MembersOf(y.org)
    BY <1>4, <2>1 DEF LInv, Members, MembersOf
  <2>2. CASE i \notin MembersOf(y.org)
    <3>1. i \in Knows(req[r]) /\ Deletes(req[r]) /\ req[r].org = y.org
      BY <1>4, <2>2
    <3>2. \A p, q \in Requests :
            (Deletes(req[p]) /\ Deletes(req[q]) /\ Knows(req[p]) \cap Knows(req[q]) # {})
              => req[p].org = req[q].org
      BY DEF LInv, Shared
    <3>3. Knows(req[r]) \cap Knows(req[s]) # {}
      BY <3>1
    <3>4. s \in Requests /\ Deletes(req[s])
      BY <1>4
    <3>5. req[r].org = req[s].org
      BY <3>1, <3>2, <3>3, <3>4
    <3> QED BY <3>1, <3>5
  <2> QED BY <2>1, <2>2
<1>5. Deletes(y) =>
        /\ \A i \in Knows(y) : users[i] # None => users[i].org = y.org
        /\ \A s \in Requests \ {r} :
             (Deletes(req[s]) /\ Knows(y) \cap Knows(req[s]) # {}) => req[s].org = y.org
  BY <1>3, <1>4
<1> QED BY <1>1, <1>2, <1>5, LocalStep

LEMMA EndStep ==
  ASSUME LInv, NEW r \in Requests, req' = [req EXCEPT ![r] = Idle],
         UNCHANGED <<users, organizations>>
  PROVE  LInv'
BY IdleFits, GoesOn

LEMMA OwnId ==
  ASSUME LInv, NEW s \in Requests, Creates(req[s])
  PROVE  req[s].id \in Knows(req[s])
BY DEF LInv, Shape, Knows

LEMMA BeginStep ==
  ASSUME LInv, NEW r \in Requests, Begin(r)
  PROVE  LInv'
<1>1. UNCHANGED <<users, organizations>> /\ Knows(req[r]) = {}
  BY IdleFits DEF Begin
<1>2. CASE register(r)
  <2>1. PICK e \in Emails, d \in Domains \cup {None}, i \in FreshIds, o \in FreshOrganizations :
          req' = [req EXCEPT ![r] = [Idle EXCEPT !.op = "register", !.id = i, !.email = e,
                                                 !.org = o, !.domain = d]]
    BY <1>2 DEF register, Put
  <2>2. PICK y : y = [Idle EXCEPT !.op = "register", !.id = i, !.email = e,
                                  !.org = o, !.domain = d]
    OBVIOUS
  <2>3. /\ y \in Request /\ y.op = "register" /\ y.id = i /\ y.email = e /\ y.org = o
        /\ y.todo = {} /\ y.locks = {}
    BY <2>2, IdleFits, OrderOf DEF Idle, Request, FreshIds, FreshOrganizations
  <2>4. Shape(y) /\ Held(y) /\ Creates(y) /\ ~Deletes(y) /\ Knows(y) = {i}
    BY <2>3 DEF Shape, Held, Creates, Deletes, Knows, FreshIds, FreshOrganizations
  <2>5. \A s \in Requests \ {r} : Creates(req[s]) => req[s].id \notin Knows(y)
    BY <2>4, OwnId DEF FreshIds
  <2>6. users[y.id] = None /\ \A s \in Requests \ {r} : y.id \notin Knows(req[s])
    BY <2>3 DEF FreshIds
  <2>7. req' = [req EXCEPT ![r] = y]
    BY <2>1, <2>2
  <2> QED BY <1>1, <2>3, <2>4, <2>5, <2>6, <2>7, LocalStep
<1>3. CASE invite_user(r)
  <2>1. PICK e \in Emails, i \in FreshIds, o \in Organizations :
          req' = [req EXCEPT ![r] = [Idle EXCEPT !.op = "invite_user", !.id = i, !.email = e,
                                                 !.org = o]]
    BY <1>3 DEF invite_user, Put
  <2>2. PICK y : y = [Idle EXCEPT !.op = "invite_user", !.id = i, !.email = e, !.org = o]
    OBVIOUS
  <2>3. /\ y \in Request /\ y.op = "invite_user" /\ y.id = i /\ y.email = e /\ y.org = o
        /\ y.todo = {} /\ y.locks = {}
    BY <2>2, IdleFits, OrderOf DEF Idle, Request, FreshIds
  <2>4. Shape(y) /\ Held(y) /\ Creates(y) /\ ~Deletes(y) /\ Knows(y) = {i}
    BY <2>3 DEF Shape, Held, Creates, Deletes, Knows, FreshIds
  <2>5. \A s \in Requests \ {r} : Creates(req[s]) => req[s].id \notin Knows(y)
    BY <2>4, OwnId DEF FreshIds
  <2>6. users[y.id] = None /\ \A s \in Requests \ {r} : y.id \notin Knows(req[s])
    BY <2>3 DEF FreshIds
  <2>7. req' = [req EXCEPT ![r] = y]
    BY <2>1, <2>2
  <2> QED BY <1>1, <2>3, <2>4, <2>5, <2>6, <2>7, LocalStep
<1>4. CASE delete_workspace(r)
  <2>1. PICK o \in Organizations :
          req' = [req EXCEPT ![r] = [Idle EXCEPT !.op = "delete_workspace", !.org = o,
                                                 !.todo = MembersOf(o)]]
    BY <1>4 DEF delete_workspace, Put
  <2>2. PICK y : y = [Idle EXCEPT !.op = "delete_workspace", !.org = o, !.todo = MembersOf(o)]
    OBVIOUS
  <2>3. /\ y \in Request /\ y.op = "delete_workspace" /\ y.id = None /\ y.org = o
        /\ y.todo = MembersOf(o) /\ y.locks = {}
    BY <2>2, IdleFits, OrderOf DEF Idle, Request, MembersOf
  <2>4. Shape(y) /\ Held(y) /\ ~Creates(y) /\ Knows(y) \subseteq MembersOf(o)
    BY <2>3, LocksNoneAssumption DEF Shape, Held, Creates, Deletes, Knows
  <2> QED BY <1>1, <2>1, <2>2, <2>3, <2>4, GoesOn DEF Deletes
<1>5. CASE update_current(r)
  <2>1. PICK o \in Organizations, d \in Domains \cup {None} :
          req' = [req EXCEPT ![r] = [Idle EXCEPT !.op = "update_current", !.org = o,
                                                 !.domain = d]]
    BY <1>5 DEF update_current, Put
  <2>2. PICK y : y = [Idle EXCEPT !.op = "update_current", !.org = o, !.domain = d]
    OBVIOUS
  <2>3. /\ y \in Request /\ y.op = "update_current" /\ y.id = None /\ y.org = o
        /\ y.todo = {} /\ y.locks = {}
    BY <2>2, IdleFits, OrderOf DEF Idle, Request
  <2>4. Shape(y) /\ Held(y) /\ ~Creates(y) /\ ~Deletes(y) /\ Knows(y) = {}
    BY <2>3, LocksNoneAssumption DEF Shape, Held, Creates, Deletes, Knows
  <2> QED BY <1>1, <2>1, <2>2, <2>3, <2>4, GoesOn
<1>6. CASE update_user(r)
  <2>1. PICK i \in Ids :
          /\ users[i] # None
          /\ req' = [req EXCEPT ![r] = [Idle EXCEPT !.op = "update_user", !.todo = {i}]]
    BY <1>6 DEF update_user, Put
  <2>2. PICK y : y = [Idle EXCEPT !.op = "update_user", !.todo = {i}]
    OBVIOUS
  <2>3. /\ y \in Request /\ y.op = "update_user" /\ y.id = None /\ y.todo = {i} /\ y.locks = {}
    BY <2>2, IdleFits, OrderOf DEF Idle, Request
  <2>4. Shape(y) /\ Held(y) /\ ~Creates(y) /\ ~Deletes(y) /\ Knows(y) = {i}
    BY <2>3, LocksNoneAssumption DEF Shape, Held, Creates, Deletes, Knows
  <2>5. \A s \in Requests \ {r} : Creates(req[s]) => req[s].id \notin Knows(y)
    BY <2>1, <2>4 DEF LInv, Drawn
  <2> QED BY <1>1, <2>1, <2>2, <2>3, <2>4, <2>5, LocalStep
<1> QED BY <1>2, <1>3, <1>4, <1>5, <1>6 DEF Begin
-----------------------------------------------------------------------------
(* A statement is through with its locks. *)

Kind(x) == Order[x.op][x.at]
Waits(x) == x.at \in DOMAIN Order[x.op]

LEMMA Kinds ==
  ASSUME NEW x \in Request, Waits(x)
  PROVE  /\ x.op = "register" =>
              (x.at = 1 /\ Kind(x) = "domain") \/ (x.at = 2 /\ Kind(x) = "email")
         /\ x.op = "invite_user" =>
              (x.at = 1 /\ Kind(x) = "email") \/ (x.at = 2 /\ Kind(x) = "organization")
         /\ Deletes(x) =>
              \/ (x.at = 1 /\ Kind(x) = "user") \/ (x.at = 2 /\ Kind(x) = "organization")
              \/ (x.at = 3 /\ Kind(x) = "cascade")
         /\ x.op = "update_current" =>
              (x.at = 1 /\ Kind(x) = "organization") \/ (x.at = 2 /\ Kind(x) = "domain")
         /\ x.op = "update_user" => (x.at = 1 /\ Kind(x) = "user")
         /\ x.op # "none"
<1>1. x.op \in DOMAIN Order /\ x.at \in 1..4
  BY DEF Request
<1>2. CASE x.op = "register"
  <2> PICK k : k = <<"domain", "email">>
    OBVIOUS
  <2>1. /\ DOMAIN k = 1..2
        /\ k[1] = "domain" /\ k[2] = "email"
    OBVIOUS
  <2>2. Order[x.op] = k
    BY <1>2, OrderOf
  <2>3. x.at \in 1..2 /\ Kind(x) = k[x.at]
    BY <2>1, <2>2 DEF Kind, Waits
  <2> QED BY <1>2, <2>1, <2>3 DEF Deletes
<1>3. CASE x.op = "invite_user"
  <2> PICK k : k = <<"email", "organization">>
    OBVIOUS
  <2>1. /\ DOMAIN k = 1..2
        /\ k[1] = "email" /\ k[2] = "organization"
    OBVIOUS
  <2>2. Order[x.op] = k
    BY <1>3, OrderOf
  <2>3. x.at \in 1..2 /\ Kind(x) = k[x.at]
    BY <2>1, <2>2 DEF Kind, Waits
  <2> QED BY <1>3, <2>1, <2>3 DEF Deletes
<1>4. CASE x.op = "delete_workspace"
  <2> PICK k : k = <<"user", "organization", "cascade">>
    OBVIOUS
  <2>1. /\ DOMAIN k = 1..3
        /\ k[1] = "user" /\ k[2] = "organization" /\ k[3] = "cascade"
    OBVIOUS
  <2>2. Order[x.op] = k
    BY <1>4, OrderOf
  <2>3. x.at \in 1..3 /\ Kind(x) = k[x.at]
    BY <2>1, <2>2 DEF Kind, Waits
  <2> QED BY <1>4, <2>1, <2>3 DEF Deletes
<1>5. CASE x.op = "update_current"
  <2> PICK k : k = <<"organization", "domain">>
    OBVIOUS
  <2>1. /\ DOMAIN k = 1..2
        /\ k[1] = "organization" /\ k[2] = "domain"
    OBVIOUS
  <2>2. Order[x.op] = k
    BY <1>5, OrderOf
  <2>3. x.at \in 1..2 /\ Kind(x) = k[x.at]
    BY <2>1, <2>2 DEF Kind, Waits
  <2> QED BY <1>5, <2>1, <2>3 DEF Deletes
<1>6. CASE x.op = "update_user"
  <2> PICK k : k = <<"user">>
    OBVIOUS
  <2>1. /\ DOMAIN k = 1..1
        /\ k[1] = "user"
    OBVIOUS
  <2>2. Order[x.op] = k
    BY <1>6, OrderOf
  <2>3. x.at \in 1..1 /\ Kind(x) = k[x.at]
    BY <2>1, <2>2 DEF Kind, Waits
  <2> QED BY <1>6, <2>1, <2>3 DEF Deletes
<1>7. CASE x.op = "none"
  <2>1. DOMAIN << >> = {}
    OBVIOUS
  <2> QED BY <1>7, <2>1, OrderOf DEF Waits
<1> QED BY <1>1, <1>2, <1>3, <1>4, <1>5, <1>6, <1>7, OrderOf

\* What a transaction waits for is of the kind of its next statement.
LEMMA WantsKind ==
  ASSUME NEW x \in Request, Shape(x), NEW lock \in Wants(x)
  PROVE  /\ Waits(x) /\ lock \in Lock
         /\ lock.on = IF Kind(x) = "cascade" THEN "user" ELSE Kind(x)
         /\ lock.on = "organization" => lock.of = x.org /\ lock.share = (x.op = "invite_user")
         /\ lock.on = "user" => lock.of \in x.todo /\ lock.of = First(x.todo)
<1>1. CASE Locking(x, {"domain"}) /\ x.domain # None
  <2>1. lock = Exclusive("domain", x.domain) /\ x.domain \in Domains
    BY <1>1 DEF Wants, Locking, Request
  <2> QED BY <1>1, <2>1 DEF Locking, Waits, Kind, Exclusive, Lock
<1>2. CASE Locking(x, {"email"})
  <2>1. Waits(x) /\ Kind(x) = "email"
    BY <1>2 DEF Locking, Waits, Kind
  <2>2. Creates(x)
    BY <2>1, Kinds, OrderOf DEF Creates, Deletes, Request
  <2>3. lock = Exclusive("email", x.email) /\ x.email \in Emails
    BY <1>2, <2>1, <2>2 DEF Wants, Locking, Kind, Shape
  <2> QED BY <2>1, <2>3 DEF Exclusive, Lock
<1>3. CASE Locking(x, {"user", "cascade"}) /\ x.todo # {}
  <2>1. Waits(x) /\ Kind(x) \in {"user", "cascade"}
    BY <1>3 DEF Locking, Waits, Kind
  <2>2. First(x.todo) \in x.todo /\ x.todo \subseteq Ids
    BY <1>3, FirstIn DEF Request
  <2>3. lock = Exclusive("user", First(x.todo))
    BY <1>3, <2>1 DEF Wants, Locking, Kind
  <2> QED BY <2>1, <2>2, <2>3 DEF Exclusive, Lock
<1>4. CASE Locking(x, {"organization"})
  <2>1. Waits(x) /\ Kind(x) = "organization"
    BY <1>4 DEF Locking, Waits, Kind
  <2>2. x.org \in Organizations
    BY <2>1, Kinds, OrderOf DEF Deletes, Request, Shape
  <2>3. lock = IF x.op = "invite_user" THEN KeyShare(x.org)
               ELSE Exclusive("organization", x.org)
    BY <1>4, <2>1 DEF Wants, Locking, Kind
  <2> QED BY <2>1, <2>2, <2>3 DEF Exclusive, KeyShare, Lock
<1> QED BY <1>1, <1>2, <1>3, <1>4 DEF Wants

LEMMA KeepsKind ==
  ASSUME TypeOK, NEW x \in Request, Shape(x), ~Gone(x), NEW lock \in Wants(x),
         NEW kept \in Keeps(lock)
  PROVE  /\ kept \in Lock
         /\ \/ lock.on = "user" /\ kept.on = "email"
            \/ lock.on = "organization" /\ kept.on = "domain" /\ x.op # "invite_user"
<1>1. /\ Waits(x) /\ lock \in Lock
      /\ lock.on = IF Kind(x) = "cascade" THEN "user" ELSE Kind(x)
      /\ lock.on = "organization" => lock.of = x.org /\ lock.share = (x.op = "invite_user")
      /\ lock.on = "user" => lock.of \in x.todo /\ lock.of = First(x.todo)
  BY WantsKind
<1>2. CASE lock.on = "user"
  <2>1. Kind(x) \in {"user", "cascade"} /\ x.todo # {} /\ x.todo \subseteq Ids
    BY <1>1, <1>2 DEF Request
  <2>2. users[lock.of] \in UserRow
    BY <1>1, <1>2, <2>1 DEF Gone, Locking, Kind, Waits, TypeOK
  <2>3. kept = Exclusive("email", users[lock.of].email) /\ users[lock.of].email \in Emails
    BY <1>2, <2>2 DEF Keeps, UserRow
  <2> QED BY <1>2, <2>3 DEF Exclusive, Lock
<1>3. CASE lock.on = "organization" /\ ~lock.share /\ organizations[lock.of].domain # None
  <2>1. organizations[lock.of] # None /\ x.op # "invite_user"
    BY <1>1, <1>3 DEF Gone, Locking, Kind, Waits
  <2>2. x.org \in Organizations
    BY <1>1, <1>3, Kinds, OrderOf DEF Deletes, Request, Shape
  <2>3. organizations[lock.of] \in OrganizationRow
    BY <1>1, <1>3, <2>1, <2>2 DEF TypeOK
  <2>4. /\ kept = Exclusive("domain", organizations[lock.of].domain)
        /\ organizations[lock.of].domain \in Domains
    BY <1>3, <2>3 DEF Keeps, OrganizationRow
  <2> QED BY <1>3, <2>1, <2>4 DEF Exclusive, Lock
<1> QED BY <1>2, <1>3 DEF Keeps

\* What a statement leaves to be locked.
LEMMA LeftKind ==
  ASSUME NEW x \in Request, Shape(x), Waits(x)
  PROVE  /\ Left(x) \subseteq Ids
         /\ Left(x) \subseteq x.todo \/ (Deletes(x) /\ Left(x) \subseteq MembersOf(x.org))
         /\ ~Deletes(x) => Left(x) = {}
<1>1. x.todo \subseteq Ids
  BY DEF Request
<1>2. CASE Locking(x, {"user", "cascade"}) /\ x.todo # {}
  <2>1. Left(x) = x.todo \ {First(x.todo)} /\ First(x.todo) \in x.todo
    BY <1>1, <1>2, FirstIn DEF Left, Locking
  <2>2. x.op \in {"delete_workspace", "update_user"}
    BY <1>2, Kinds, OrderOf DEF Locking, Kind, Waits, Request, Deletes
  <2>3. x.op = "update_user" => Left(x) = {}
    BY <2>1 DEF Shape
  <2> QED BY <1>1, <2>1, <2>2, <2>3 DEF Deletes
<1>3. CASE Locking(x, {"organization"}) /\ x.op = "delete_workspace"
  <2>1. ~Locking(x, {"user", "cascade"})
    BY <1>3 DEF Locking
  <2>2. Left(x) \subseteq MembersOf(x.org) /\ MembersOf(x.org) \subseteq Ids
    BY <1>3, <2>1 DEF Left, MembersOf
  <2> QED BY <1>3, <2>2 DEF Deletes
<1>4. CASE ~(Locking(x, {"user", "cascade"}) /\ x.todo # {}) /\
           ~(Locking(x, {"organization"}) /\ x.op = "delete_workspace")
  BY <1>4 DEF Left
<1> QED BY <1>2, <1>3, <1>4

LEMMA LocksStep ==
  ASSUME LInv, NEW r \in Requests, Locks(r)
  PROVE  LInv'
<1> DEFINE x == req[r]
           gets == IF Gone(x) THEN {} ELSE Wants(x) \cup UNION {Keeps(lock) : lock \in Wants(x)}
           next == IF Locking(x, {"user", "cascade"}) /\ Left(x) # {} THEN x.at ELSE x.at + 1
<1>1. x \in Request /\ Shape(x) /\ Held(x) /\ Waits(x)
  BY DEF LInv, TypeOK, Locks, Waits
<1>2. PICK y : y = [x EXCEPT !.locks = x.locks \cup gets, !.todo = Left(x), !.at = next]
  OBVIOUS
<1>3. req' = [req EXCEPT ![r] = y] /\ UNCHANGED <<users, organizations>>
  BY <1>2 DEF Locks, Put
<1>4. \A lock \in gets :
        /\ lock \in Lock
        /\ \/ lock \in Wants(x)
           \/ lock.on = "email" /\ Kind(x) \in {"user", "cascade"}
           \/ lock.on = "domain" /\ Kind(x) = "organization" /\ x.op # "invite_user"
  <2> SUFFICES ASSUME NEW lock \in gets PROVE
        /\ lock \in Lock
        /\ \/ lock \in Wants(x)
           \/ lock.on = "email" /\ Kind(x) \in {"user", "cascade"}
           \/ lock.on = "domain" /\ Kind(x) = "organization" /\ x.op # "invite_user"
    OBVIOUS
  <2>1. CASE lock \in Wants(x)
    BY <1>1, <2>1, WantsKind
  <2>2. CASE lock \notin Wants(x)
    <3>1. ~Gone(x) /\ \E l \in Wants(x) : lock \in Keeps(l)
      BY <2>2
    <3>2. PICK l \in Wants(x) : lock \in Keeps(l)
      BY <3>1
    <3>3. TypeOK
      BY DEF LInv
    <3> HIDE DEF x
    <3>4. l.on = IF Kind(x) = "cascade" THEN "user" ELSE Kind(x)
      BY <1>1, <3>2, WantsKind
    <3>5. /\ lock \in Lock
          /\ \/ l.on = "user" /\ lock.on = "email"
             \/ l.on = "organization" /\ lock.on = "domain" /\ x.op # "invite_user"
      BY <1>1, <3>1, <3>2, <3>3, KeepsKind
    <3> QED BY <3>4, <3>5
  <2> QED BY <2>1, <2>2
<1>5. x.at \in 1..3 /\ next \in 1..4 /\ next \in {x.at, x.at + 1}
  BY <1>1, Kinds, OrderOf DEF Request, Deletes
<1>6. /\ Left(x) \subseteq Ids
      /\ Left(x) \subseteq x.todo \/ (Deletes(x) /\ Left(x) \subseteq MembersOf(x.org))
      /\ x.op # "delete_workspace" => next = x.at + 1
      /\ Creates(x) => Left(x) = {}
  BY <1>1, LeftKind DEF Deletes, Creates
<1> HIDE DEF gets, next
<1>7. /\ y \in Request /\ y.op = x.op /\ y.id = x.id /\ y.email = x.email /\ y.org = x.org
      /\ y.todo = Left(x) /\ y.locks = x.locks \cup gets /\ y.at = next
  BY <1>1, <1>2, <1>4, <1>5, <1>6 DEF Request
<1> HIDE DEF x
<1>8. Shape(y)
  <2>1. x.op # "none"
    BY <1>1, Kinds
  <2>2. x.op = "update_user" => y.at # 1 /\ y.todo \subseteq x.todo
    BY <1>5, <1>6, <1>7 DEF Deletes
  <2>3. x.op = "update_user" => \E i \in Ids : y.todo \subseteq {i}
    BY <1>1, <2>2 DEF Shape
  <2> QED BY <1>1, <1>6, <1>7, <2>1, <2>2, <2>3 DEF Shape, Creates
<1>9. Held(y)
  <2> SUFFICES ASSUME NEW lock \in y.locks PROVE
        /\ y.op = "register" =>
             (lock.on = "domain" /\ y.at > 1) \/ (lock.on = "email" /\ y.at > 2)
        /\ y.op = "invite_user" =>
             (lock.on = "email" /\ y.at > 1) \/ (lock.on = "organization" /\ y.at > 2)
        /\ Deletes(y) /\ lock.on = "organization" => lock.of = y.org
    BY DEF Held
  <2>1. CASE lock \in x.locks
    BY <1>1, <1>5, <1>7, <2>1 DEF Held, Deletes
  <2>2. CASE lock \in Wants(x)
    <3>1. /\ lock.on = IF Kind(x) = "cascade" THEN "user" ELSE Kind(x)
          /\ lock.on = "organization" => lock.of = x.org
      BY <1>1, <2>2, WantsKind
    <3> QED BY <1>1, <1>5, <1>6, <1>7, <3>1, Kinds DEF Deletes
  <2>3. CASE lock \in gets \ Wants(x)
    <3>1. \/ lock.on = "email" /\ Kind(x) \in {"user", "cascade"}
          \/ lock.on = "domain" /\ Kind(x) = "organization" /\ x.op # "invite_user"
      BY <1>4, <2>3
    <3> QED BY <1>1, <1>7, <3>1, Kinds DEF Deletes
  <2> QED BY <1>7, <2>1, <2>2, <2>3
<1>10. \A i \in Knows(y) : i \in Knows(x) \/ (Deletes(y) /\ i \in MembersOf(y.org))
  <2> SUFFICES ASSUME NEW i \in Knows(y), i \notin Knows(x)
               PROVE  Deletes(y) /\ i \in MembersOf(y.org)
    OBVIOUS
  <2>1. i \in Ids /\ i # x.id /\ i \notin x.todo
    BY <1>7 DEF Knows
  <2>2. CASE i \in Left(x)
    BY <1>6, <1>7, <2>1, <2>2 DEF Deletes
  <2>3. CASE \E lock \in y.locks : lock.on = "user" /\ lock.of = i
    <3>1. PICK lock \in y.locks : lock.on = "user" /\ lock.of = i
      BY <2>3
    <3>2. lock \notin x.locks
      BY <2>1, <3>1 DEF Knows
    <3>3. lock \in Wants(x)
      BY <1>4, <1>7, <3>1, <3>2
    <3>4. lock.of \in x.todo
      BY <1>1, <3>1, <3>3, WantsKind
    <3> QED BY <2>1, <3>1, <3>4
  <2> QED BY <1>7, <2>1, <2>2, <2>3 DEF Knows
<1>11. /\ Creates(y) => Creates(req[r]) /\ y.id = req[r].id
       /\ Deletes(y) => Deletes(req[r]) /\ req[r].org = y.org
  BY <1>7 DEF Creates, Deletes, x
<1>12. \A i \in Knows(y) : i \in Knows(req[r]) \/ (Deletes(y) /\ i \in MembersOf(y.org))
  BY <1>10 DEF x
<1> QED BY <1>3, <1>7, <1>8, <1>9, <1>11, <1>12, GoesOn

-----------------------------------------------------------------------------
(* The end of a transaction. *)

LEMMA CommitTypes ==
  ASSUME LInv, NEW r \in Requests, Commit(r)
  PROVE  TypeOK'
<1> DEFINE x == req[r]
           inserted == [email |-> x.email, org |-> x.org]
<1>1. x \in Request /\ Shape(x) /\ x.op # "none"
  BY DEF LInv, TypeOK, Commit
<1>2. req' \in [Requests -> Request]
  BY IdleFits DEF LInv, TypeOK, Commit, Put
<1>3. users' \in [Ids -> UserRow \cup {None}]
  <2>1. CASE x.op \in {"register", "invite_user"}
    <3>1. x.id \in Ids /\ x.email \in Emails /\ x.org \in Organizations
      BY <1>1, <2>1 DEF Shape, Creates
    <3>2. inserted \in UserRow /\ users' = [users EXCEPT ![x.id] = inserted]
      BY <2>1, <3>1 DEF Commit, UserRow
    <3> QED BY <3>2 DEF LInv, TypeOK
  <2>2. CASE x.op = "delete_workspace"
    BY <2>2 DEF LInv, TypeOK, Commit
  <2>3. CASE x.op \notin {"register", "invite_user", "delete_workspace"}
    BY <2>3 DEF LInv, TypeOK, Commit
  <2> QED BY <2>1, <2>2, <2>3
<1>4. organizations' \in [Organizations -> OrganizationRow \cup {None}]
  <2>1. CASE x.op \in {"register", "update_current"}
    <3>1. [domain |-> x.domain] \in OrganizationRow
      BY <1>1 DEF Request, OrganizationRow
    <3>2. organizations' = [organizations EXCEPT ![x.org] = [domain |-> x.domain]]
      BY <2>1 DEF Commit
    <3> QED BY <3>1, <3>2 DEF LInv, TypeOK
  <2>2. CASE x.op = "delete_workspace"
    <3>1. organizations' = [organizations EXCEPT ![x.org] = None]
      BY <2>2 DEF Commit
    <3> QED BY <3>1 DEF LInv, TypeOK
  <2>3. CASE x.op \notin {"register", "update_current", "delete_workspace"}
    BY <2>3 DEF LInv, TypeOK, Commit
  <2> QED BY <2>1, <2>2, <2>3
<1> QED BY <1>2, <1>3, <1>4 DEF TypeOK

LEMMA CommitStep ==
  ASSUME LInv, NEW r \in Requests, Commit(r)
  PROVE  LInv'
<1>1. /\ req'[r] = Idle /\ \A s \in Requests : s # r => req'[s] = req[s]
  BY DEF LInv, TypeOK, Commit, Put
<1>2. \A s \in Requests : Shape(req[s])' /\ Held(req[s])'
  BY <1>1, IdleFits DEF LInv, Shape, Held, Creates, Deletes
<1>3. \A s \in Requests : Knows(req[s])' = IF s = r THEN {} ELSE Knows(req[s])
  BY <1>1, IdleFits DEF Knows
<1>4. \A i \in Ids : \/ users'[i] = users[i] \/ users'[i] = None
                     \/ Creates(req[r]) /\ i = req[r].id
  <2>1. CASE req[r].op \in {"register", "invite_user"}
    BY <2>1 DEF Commit, LInv, TypeOK, Creates
  <2>2. CASE req[r].op = "delete_workspace"
    BY <2>2 DEF Commit
  <2>3. CASE req[r].op \notin {"register", "invite_user", "delete_workspace"}
    BY <2>3 DEF Commit
  <2> QED BY <2>1, <2>2, <2>3
<1>5. /\ \A s \in Requests : Creates(req[s])' => s # r /\ Creates(req[s])
      /\ \A s \in Requests : Deletes(req[s])' => s # r /\ Deletes(req[s])
  BY <1>1, IdleFits DEF Creates, Deletes
<1>6. Drawn'
  <2> SUFFICES ASSUME NEW s \in Requests, Creates(req[s])'
               PROVE  /\ users'[req'[s].id] = None
                      /\ \A t \in Requests \ {s} : req'[s].id \notin Knows(req[t])'
    BY DEF Drawn
  <2>1. s # r /\ Creates(req[s]) /\ req'[s].id = req[s].id
    BY <1>1, <1>5
  <2>2. /\ users[req[s].id] = None /\ req[s].id \in Ids
        /\ \A t \in Requests \ {s} : req[s].id \notin Knows(req[t])
    BY <2>1 DEF LInv, Drawn, Shape
  <2>3. Creates(req[r]) => req[s].id # req[r].id
    BY <2>1, <2>2, OwnId
  <2> QED BY <1>3, <1>4, <2>1, <2>2, <2>3
<1>7. Members'
  <2> SUFFICES ASSUME NEW s \in Requests, Deletes(req[s])', NEW i \in Knows(req[s])',
                      users'[i] # None
               PROVE  users'[i].org = req'[s].org
    BY DEF Members
  <2>1. s # r /\ Deletes(req[s]) /\ req'[s] = req[s] /\ i \in Knows(req[s]) /\ i \in Ids
    BY <1>1, <1>3, <1>5 DEF Knows
  <2>2. Creates(req[r]) => i # req[r].id
    BY <2>1 DEF LInv, Drawn
  <2>3. users'[i] = users[i]
    BY <1>4, <2>1, <2>2
  <2> QED BY <2>1, <2>3 DEF LInv, Members
<1>8. Shared'
  BY <1>1, <1>3, <1>5 DEF LInv, Shared
<1> QED BY <1>2, <1>6, <1>7, <1>8, CommitTypes DEF LInv

LEMMA LInitial == Init => LInv
<1> SUFFICES ASSUME Init PROVE LInv
  OBVIOUS
<1>1. \A r \in Requests : req[r] = Idle
  BY DEF Init
<1>2. TypeOK
  BY IdleFits DEF Init, TypeOK
<1> QED BY <1>1, <1>2, IdleFits DEF LInv, Drawn, Members, Shared

LEMMA LStep == LInv /\ [Next]_vars => LInv'
<1> SUFFICES ASSUME LInv, [Next]_vars PROVE LInv'
  OBVIOUS
<1>1. ASSUME NEW r \in Requests, Begin(r) PROVE LInv'
  BY <1>1, BeginStep
<1>2. ASSUME NEW r \in Requests, Locks(r) PROVE LInv'
  BY <1>2, LocksStep
<1>3. ASSUME NEW r \in Requests, Commit(r) PROVE LInv'
  BY <1>3, CommitStep
<1>4. ASSUME NEW r \in Requests, Fail(r) PROVE LInv'
  BY <1>4, EndStep DEF Fail, Put
<1>5. ASSUME NEW r \in Requests, Victim(r) PROVE LInv'
  BY <1>5, EndStep DEF Victim, Put
<1>6. CASE UNCHANGED vars
  BY <1>6 DEF vars, LInv, TypeOK, Shape, Held, Drawn, Members, Shared, Knows, Creates, Deletes
<1> QED BY <1>1, <1>2, <1>3, <1>4, <1>5, <1>6 DEF Next

-----------------------------------------------------------------------------
(* Who waits for whom. *)

\* A transaction that waits for another one: what it wants, and what the other holds.
LEMMA Meet ==
  ASSUME LInv, NEW r \in Requests, NEW s \in Blockers(r)
  PROVE  /\ s \in Requests /\ s # r /\ Waits(req[r])
         /\ \E b \in req[s].locks :
              /\ b.on = IF Kind(req[r]) = "cascade" THEN "user" ELSE Kind(req[r])
              /\ b.on = "user" => b.of \in req[r].todo
              /\ b.on = "organization" =>
                   b.of = req[r].org /\ ~(b.share /\ req[r].op = "invite_user")
<1>1. s \in Requests /\ s # r
  BY DEF Blockers
<1>2. PICK a \in Wants(req[r]), b \in req[s].locks : Conflict(a, b)
  BY DEF Blockers
<1>3. req[r] \in Request /\ Shape(req[r])
  BY DEF LInv, TypeOK
<1>4. /\ Waits(req[r])
      /\ a.on = IF Kind(req[r]) = "cascade" THEN "user" ELSE Kind(req[r])
      /\ a.on = "organization" => a.of = req[r].org /\ a.share = (req[r].op = "invite_user")
      /\ a.on = "user" => a.of \in req[r].todo
  BY <1>3, WantsKind
<1>5. a.on = b.on /\ a.of = b.of /\ ~(a.share /\ b.share)
  BY <1>2 DEF Conflict
<1> QED BY <1>1, <1>4, <1>5

\* Transactions that all wait for one of themselves, and no exception among them.
LEMMA NoneIsStuck ==
  ASSUME LInv, NEW S \in SUBSET Requests, ~MayDeadlock(S),
         \A r \in S : Blockers(r) \cap S # {}
  PROVE  S = {}
<1>1. \A r \in S : /\ req[r] \in Request /\ Shape(req[r]) /\ Held(req[r])
                   /\ Waits(req[r]) /\ req[r].op # "update_current"
  <2> SUFFICES ASSUME NEW r \in S
               PROVE  /\ req[r] \in Request /\ Shape(req[r]) /\ Held(req[r])
                      /\ Waits(req[r]) /\ req[r].op # "update_current"
    OBVIOUS
  <2>1. Waits(req[r])
    BY Meet
  <2> QED BY <2>1 DEF LInv, TypeOK, MayDeadlock
\* An update of a user waits for its first lock.
<1>2. \A r \in S : req[r].op = "update_user" => req[r].locks = {}
  BY <1>1, Kinds DEF Shape
\* A deletion waits for deletions of the same workspace only.
<1>3. \A r \in S : ~Deletes(req[r])
  <2> SUFFICES ASSUME NEW r \in S, Deletes(req[r]) PROVE FALSE
    OBVIOUS
  <2>1. PICK s \in S : s \in Blockers(r)
    OBVIOUS
  <2>2. s # r /\ s \in Requests
    BY <2>1, Meet
  <2>3. PICK b \in req[s].locks :
          /\ b.on = IF Kind(req[r]) = "cascade" THEN "user" ELSE Kind(req[r])
          /\ b.on = "user" => b.of \in req[r].todo
          /\ b.on = "organization" => b.of = req[r].org
    BY <2>1, Meet
  <2>4. b.on \in {"user", "organization"}
    BY <1>1, <2>3, Kinds
  <2>5. Deletes(req[s])
    <3>1. req[s].op \in {"register", "invite_user", "delete_workspace", "update_current",
                         "update_user", "none"}
      BY <1>1, OrderOf DEF Request
    <3>2. req[s].op # "none" /\ req[s].op # "update_current" /\ req[s].op # "update_user"
      BY <1>1, <1>2, <2>3, Kinds
    <3>3. req[s].op # "register"
      BY <1>1, <2>3, <2>4 DEF Held
    <3>4. req[s].op # "invite_user"
      BY <1>1, <2>3, <2>4, Kinds DEF Held
    <3> QED BY <3>1, <3>2, <3>3, <3>4 DEF Deletes
  <2>6. req[s].org = req[r].org
    <3>1. CASE b.on = "organization"
      BY <1>1, <2>3, <2>5, <3>1 DEF Held
    <3>2. CASE b.on = "user"
      <4>1. b.of \in Ids
        BY <1>1, <2>3, <3>2 DEF Request
      <4>2. b.of \in Knows(req[r]) \cap Knows(req[s])
        BY <2>3, <3>2, <4>1 DEF Knows
      <4> QED BY <2>5, <4>2 DEF LInv, Shared
    <3> QED BY <2>4, <3>1, <3>2
  <2> QED BY <2>2, <2>5, <2>6 DEF MayDeadlock, Deletes
\* An invitation that waits for its organization waits for a deletion.
<1>4. \A r \in S : req[r].op = "invite_user" => req[r].at = 1
  <2> SUFFICES ASSUME NEW r \in S, req[r].op = "invite_user", req[r].at # 1 PROVE FALSE
    OBVIOUS
  <2>1. Kind(req[r]) = "organization"
    BY <1>1, Kinds
  <2>2. PICK s \in S : s \in Blockers(r)
    OBVIOUS
  <2>3. PICK b \in req[s].locks : b.on = "organization"
    BY <2>1, <2>2, Meet
  <2>4. req[s].op \in {"register", "invite_user", "delete_workspace", "update_current",
                       "update_user", "none"}
    BY <1>1, OrderOf DEF Request
  <2>5. req[s].op # "none" /\ req[s].op # "update_current" /\ req[s].op # "update_user"
    BY <1>1, <1>2, <2>3, Kinds
  <2>6. req[s].op # "register"
    BY <1>1, <2>3 DEF Held
  <2>7. req[s].op # "invite_user"
    BY <1>1, <2>3, Kinds DEF Held
  <2> QED BY <1>3, <2>4, <2>5, <2>6, <2>7 DEF Deletes
\* A registration that waits for its address waits for one that does not wait.
<1>5. \A r \in S : req[r].op = "register" => req[r].at = 1
  <2> SUFFICES ASSUME NEW r \in S, req[r].op = "register", req[r].at # 1 PROVE FALSE
    OBVIOUS
  <2>1. Kind(req[r]) = "email"
    BY <1>1, Kinds
  <2>2. PICK s \in S : s \in Blockers(r)
    OBVIOUS
  <2>3. PICK b \in req[s].locks : b.on = "email"
    BY <2>1, <2>2, Meet
  <2>4. req[s].op \in {"register", "invite_user", "delete_workspace", "update_current",
                       "update_user", "none"}
    BY <1>1, OrderOf DEF Request
  <2>5. req[s].op # "none" /\ req[s].op # "update_current" /\ req[s].op # "update_user"
    BY <1>1, <1>2, <2>3, Kinds
  <2>6. req[s].op # "register"
    BY <1>1, <2>3, Kinds DEF Held
  <2>7. req[s].op # "invite_user"
    BY <1>1, <1>4, <2>3 DEF Held
  <2> QED BY <1>3, <2>4, <2>5, <2>6, <2>7 DEF Deletes
\* So nobody among them holds anything.
<1>6. \A s \in S : req[s].locks = {}
  <2> SUFFICES ASSUME NEW s \in S PROVE req[s].locks = {}
    OBVIOUS
  <2>1. req[s].op \in {"register", "invite_user", "delete_workspace", "update_current",
                       "update_user", "none"}
    BY <1>1, OrderOf DEF Request
  <2>2. req[s].op # "none" /\ req[s].op # "update_current"
    BY <1>1, Kinds
  <2>3. req[s].op \in {"register", "invite_user"} => req[s].at = 1
    BY <1>4, <1>5
  <2> QED BY <1>1, <1>2, <1>3, <2>1, <2>2, <2>3 DEF Held, Deletes
<1>7. \A r \in S : \E s \in S : req[s].locks # {}
  BY Meet
<1> QED BY <1>6, <1>7

\* Whatever the requests and the rows, requests wait for each other in a circle only
\* if two of them delete one workspace or one changes a domain: otherwise the orders
\* of their statements (auth_service.py:55-82, user_service.py:36-64,
\* organization_service.py:38-43) agree.
THEOREM LocksAgree == Spec => []OrdersAgree
<1>1. LInv => OrdersAgree
  BY NoneIsStuck DEF OrdersAgree, Stuck
<1> QED BY <1>1, LInitial, LStep, PTL DEF Spec
=============================================================================
