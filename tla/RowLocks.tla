------------------------------ MODULE RowLocks ------------------------------
(***************************************************************************)
(* The order in which requests about accounts lock rows                    *)
(* (backend/services/auth_service.py, user_service.py,                     *)
(* organization_service.py, database/models/user.py, organization.py).     *)
(*                                                                         *)
(* A transaction takes its locks one by one, statement by statement, waits *)
(* while another one holds what it wants, and lets go of them when it      *)
(* ends.  What it locks is a row, or a value of a unique column: whoever   *)
(* inserts an address or a domain waits for the end of a transaction that  *)
(* inserts it too, or deletes or updates the row that has it.  An INSERT   *)
(* that refers to an organization locks its key, which others may lock     *)
(* likewise.  The locks, and who is rolled back when transactions wait in  *)
(* a circle, are PostgreSQL's.                                             *)
(***************************************************************************)
EXTENDS Integers

CONSTANTS
  Emails, Domains,
  Ids,            \* bound: primary keys of users
  Organizations,  \* bound: primary keys of organizations
  Requests,
  None            \* no row, no domain

\* Primary keys are ordered: some have a first.
ASSUME LocksAssumption ==
  \A ids \in SUBSET Ids : ids # {} => \E i \in ids : \A j \in ids : i <= j
ASSUME LocksNoneAssumption == None \notin Domains \cup Ids \cup Organizations

VARIABLES
  users,          \* committed rows, by id
  organizations,  \* committed rows: the domain of each organization
  req             \* the transaction of each request

vars == <<users, organizations, req>>

UserRow == [email : Emails, org : Organizations]
OrganizationRow == [domain : Domains \cup {None}]

ASSUME LocksRowAssumption == None \notin UserRow /\ None \notin OrganizationRow

\* share: a lock of the key of an organization, which one for the row excludes.
Lock == [on : {"domain", "email", "user", "organization"},
         of : Domains \cup Emails \cup Ids \cup Organizations, share : BOOLEAN]

\* Mutant: an invitation locks its organization first.
OrderOrganizationFirst ==
  [register |-> <<"domain", "email">>, invite_user |-> <<"organization", "email">>,
   delete_workspace |-> <<"user", "organization", "cascade">>,
   update_current |-> <<"organization", "domain">>, update_user |-> <<"user">>, none |-> <<>>]

\* What the statements of a transaction lock, in their order.  A deletion locks the
\* users it has loaded, the organization, and users that have come in meanwhile.
Order ==
  [register |-> <<"domain", "email">>, invite_user |-> <<"email", "organization">>,
   delete_workspace |-> <<"user", "organization", "cascade">>,
   update_current |-> <<"organization", "domain">>, update_user |-> <<"user">>, none |-> <<>>]

\* at: the statement that is next.  todo: ids of users still to be locked by it.
Request ==
  [op : DOMAIN Order, at : 1..4,
   id : Ids \cup {None}, email : Emails \cup {None}, org : Organizations \cup {None},
   domain : Domains \cup {None}, todo : SUBSET Ids, locks : SUBSET Lock]

Idle == [op |-> "none", at |-> 1, id |-> None, email |-> None, org |-> None,
         domain |-> None, todo |-> {}, locks |-> {}]

TypeOK ==
  /\ users \in [Ids -> UserRow \cup {None}]
  /\ organizations \in [Organizations -> OrganizationRow \cup {None}]
  /\ req \in [Requests -> Request]

MembersOf(o) == {i \in Ids : users[i] # None /\ users[i].org = o}
EmailTaken(e) == \E i \in Ids : users[i] # None /\ users[i].email = e
DomainTaken(d, by) ==
  \E o \in Organizations \ {by} : organizations[o] # None /\ organizations[o].domain = d

\* Any rows that keep the unique and foreign keys, and no organization without users.
Init ==
  /\ users \in [Ids -> UserRow \cup {None}]
  /\ organizations \in [Organizations -> OrganizationRow \cup {None}]
  /\ \A i \in Ids : users[i] # None =>
       /\ organizations[users[i].org] # None
       /\ \A j \in Ids \ {i} : users[j] # None => users[j].email # users[i].email
  /\ \A o \in Organizations : organizations[o] # None =>
       /\ MembersOf(o) # {}
       /\ organizations[o].domain # None => ~DomainTaken(organizations[o].domain, o)
  /\ req = [r \in Requests |-> Idle]

-----------------------------------------------------------------------------
(* Locks. *)

Exclusive(on, of) == [on |-> on, of |-> of, share |-> FALSE]
KeyShare(o) == [on |-> "organization", of |-> o, share |-> TRUE]

Conflict(a, b) == a.on = b.on /\ a.of = b.of /\ ~(a.share /\ b.share)

Locking(x, kinds) == x.at \in DOMAIN Order[x.op] /\ Order[x.op][x.at] \in kinds

\* Rows are deleted in the order of their primary keys.
First(ids) == CHOOSE i \in ids : \A j \in ids : i <= j

\* What the next statement of a transaction waits for.
Wants(x) ==
  CASE Locking(x, {"domain"}) /\ x.domain # None -> {Exclusive("domain", x.domain)}
    [] Locking(x, {"email"}) -> {Exclusive("email", x.email)}
    [] Locking(x, {"user", "cascade"}) /\ x.todo # {} -> {Exclusive("user", First(x.todo))}
    [] Locking(x, {"organization"}) ->
         {IF x.op = "invite_user" THEN KeyShare(x.org) ELSE Exclusive("organization", x.org)}
    [] OTHER -> {}

\* A row that is deleted or updated keeps the unique values it has from others.
Keeps(lock) ==
  CASE lock.on = "user" -> {Exclusive("email", users[lock.of].email)}
    [] lock.on = "organization" /\ ~lock.share /\ organizations[lock.of].domain # None ->
         {Exclusive("domain", organizations[lock.of].domain)}
    [] OTHER -> {}

Blockers(r) ==
  {s \in Requests \ {r} :
     \E a \in Wants(req[r]), b \in req[s].locks : Conflict(a, b)}

\* The row a statement is about is not there any more.
Gone(x) ==
  \/ Locking(x, {"user", "cascade"}) /\ x.todo # {} /\ users[First(x.todo)] = None
  \/ Locking(x, {"organization"}) /\ organizations[x.org] = None

\* A unique or foreign key, or an UPDATE that finds no row: a DELETE that finds none
\* only warns.
Raises(x) ==
  \/ Locking(x, {"domain"}) /\ x.domain # None /\ DomainTaken(x.domain, x.org)
  \/ Locking(x, {"email"}) /\ EmailTaken(x.email)
  \/ Gone(x) /\ x.op # "delete_workspace"

-----------------------------------------------------------------------------
(* Transactions. *)

Put(r, x) == req' = [req EXCEPT ![r] = x]

\* The users a transaction inserts, has loaded or has locked.
Knows(x) ==
  {i \in Ids : \/ i = x.id \/ i \in x.todo
               \/ \E lock \in x.locks : lock.on = "user" /\ lock.of = i}

\* A uuid is drawn once.
FreshIds == {i \in Ids : users[i] = None /\ \A s \in Requests : i \notin Knows(req[s])}
FreshOrganizations ==
  {o \in Organizations : organizations[o] = None /\ \A s \in Requests : req[s].org # o}

\* Neither the address nor the domain is found.
register(r) ==
  \E e \in Emails, d \in Domains \cup {None}, i \in FreshIds, o \in FreshOrganizations :
    /\ ~EmailTaken(e) /\ (d # None => ~DomainTaken(d, o))
    /\ Put(r, [Idle EXCEPT !.op = "register", !.id = i, !.email = e, !.org = o, !.domain = d])

invite_user(r) ==
  \E e \in Emails, i \in FreshIds, o \in Organizations :
    /\ organizations[o] # None /\ ~EmailTaken(e)
    /\ Put(r, [Idle EXCEPT !.op = "invite_user", !.id = i, !.email = e, !.org = o])

\* session.delete loads the users of the organization.
delete_workspace(r) ==
  \E o \in Organizations :
    /\ organizations[o] # None
    /\ Put(r, [Idle EXCEPT !.op = "delete_workspace", !.org = o, !.todo = MembersOf(o)])

\* An update of the domain, which is a key.  Other columns lock nothing that is
\* shared with another table.
update_current(r) ==
  \E o \in Organizations, d \in Domains \cup {None} :
    /\ organizations[o] # None /\ organizations[o].domain # d
    /\ d # None => ~DomainTaken(d, o)
    /\ Put(r, [Idle EXCEPT !.op = "update_current", !.org = o, !.domain = d])

\* reset_password, verify_email, accept_invite, and a user's change of name.
update_user(r) ==
  \E i \in Ids :
    /\ users[i] # None
    /\ Put(r, [Idle EXCEPT !.op = "update_user", !.todo = {i}])

Begin(r) ==
  /\ req[r] = Idle
  /\ register(r) \/ invite_user(r) \/ delete_workspace(r) \/ update_current(r) \/ update_user(r)
  /\ UNCHANGED <<users, organizations>>

\* The ids left to lock, once a statement has locked its row.
Left(x) ==
  CASE Locking(x, {"user", "cascade"}) /\ x.todo # {} -> x.todo \ {First(x.todo)}
    [] Locking(x, {"organization"}) /\ x.op = "delete_workspace" ->
         {i \in MembersOf(x.org) : Exclusive("user", i) \notin x.locks}
    [] OTHER -> {}

\* A statement is through with its locks.
Locks(r) ==
  LET x == req[r]
      gets == IF Gone(x) THEN {} ELSE Wants(x) \cup UNION {Keeps(lock) : lock \in Wants(x)}
  IN /\ x.at \in DOMAIN Order[x.op] /\ Blockers(r) = {} /\ ~Raises(x)
     /\ Put(r, [x EXCEPT !.locks = @ \cup gets, !.todo = Left(x),
                         !.at = IF Locking(x, {"user", "cascade"}) /\ Left(x) # {}
                                THEN @ ELSE @ + 1])
     /\ UNCHANGED <<users, organizations>>

Commit(r) ==
  LET x == req[r]
      inserted == [email |-> x.email, org |-> x.org]
  IN /\ x.op # "none" /\ x.at \notin DOMAIN Order[x.op]
     /\ users' = CASE x.op \in {"register", "invite_user"} -> [users EXCEPT ![x.id] = inserted]
                   [] x.op = "delete_workspace" ->
                        [i \in Ids |-> IF i \in MembersOf(x.org) THEN None ELSE users[i]]
                   [] OTHER -> users
     /\ organizations' =
          CASE x.op \in {"register", "update_current"} ->
                 [organizations EXCEPT ![x.org] = [domain |-> x.domain]]
            [] x.op = "delete_workspace" -> [organizations EXCEPT ![x.org] = None]
            [] OTHER -> organizations
     /\ Put(r, Idle)

\* A transaction whose statement raises is rolled back.
Fail(r) ==
  /\ Raises(req[r]) /\ Blockers(r) = {}
  /\ Put(r, Idle)
  /\ UNCHANGED <<users, organizations>>

\* The least sets of transactions that all wait for one of themselves.
Stuck(S) == S # {} /\ \A r \in S : Blockers(r) \cap S # {}
Circle(S) == Stuck(S) /\ \A T \in SUBSET S : Stuck(T) => T = S

\* PostgreSQL rolls one of them back.
Victim(r) ==
  /\ \E S \in SUBSET Requests : r \in S /\ Circle(S)
  /\ Put(r, Idle)
  /\ UNCHANGED <<users, organizations>>

Next == \E r \in Requests : Begin(r) \/ Locks(r) \/ Commit(r) \/ Fail(r) \/ Victim(r)

Spec == Init /\ [][Next]_vars

-----------------------------------------------------------------------------
(* Properties *)

\* Requests wait for each other in a circle only if two of them delete the same
\* workspace, or one changes the domain of an organization: registrations,
\* invitations, updates of users and the deletion of a workspace lock in orders
\* that go together.
MayDeadlock(S) ==
  \/ \E r \in S : req[r].op = "update_current"
  \/ \E r, s \in S : /\ r # s /\ req[r].op = "delete_workspace"
                     /\ req[s].op = "delete_workspace" /\ req[r].org = req[s].org

OrdersAgree == \A S \in SUBSET Requests : Stuck(S) => MayDeadlock(S)
=============================================================================
