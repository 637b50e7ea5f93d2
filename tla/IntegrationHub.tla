--------------------------- MODULE IntegrationHub ---------------------------
(***************************************************************************)
(* The integration hub of one organisation: a row of table integrations    *)
(* per provider, its OAuth tokens, the users permitted to use it, request  *)
(* handlers that connect, authorise, validate and disconnect, and workers  *)
(* that refresh tokens before they run out, under a lock in Redis          *)
(* (backend/services/integration_service.py,                               *)
(* backend/workers/integration_refresh.py).                                *)
(*                                                                         *)
(* Every request and every sweep of a worker has a session of its own: it  *)
(* reads committed rows, keeps them (expire_on_commit is off), flushes its *)
(* writes, which locks the rows, and commits.  The users are Owners and    *)
(* Admins, for whom _get_accessible_integration looks at no permission.    *)
(***************************************************************************)
EXTENDS Integers, FiniteSets, Orm

CONSTANTS
  Providers,    \* the providers, one integration of the organisation each
  Users,        \* users who connect integrations and may be permitted to use them
  Handlers,     \* sessions of requests
  Workers,      \* sessions of refresh workers
  MaxTokens,    \* bound: tokens issued before no more run out or are asked for
                \* by a request that begins
  MaxAttempts,  \* bound: failed refreshes of a token that are told apart
  MaxUnreadable, \* bound: tokens issued before the encryption key is last replaced
  MaxFailures,  \* bound: transactions that fail and processes that crash
  LocksOutlive, \* whether a lock outlives the sweeps it is to keep apart: 60 seconds
                \* do, unless a sweep takes longer
  None          \* no row

ASSUME HubBoundsAssumption ==
  /\ MaxTokens \in Nat /\ MaxAttempts \in Nat
  /\ MaxUnreadable \in Nat /\ MaxFailures \in Nat
ASSUME HubLocksAssumption == LocksOutlive \in BOOLEAN
ASSUME HubSessionsAssumption == Handlers \cap Workers = {}

VARIABLES
  integrations,             \* committed rows, by provider
  oauth_tokens,             \* committed rows, by provider of their integration
  integration_permissions,  \* what the committed rows grant each user
  refresh_lock,             \* providers whose refresh lock is set in Redis
  oauth_states,             \* providers with a state handed out, not expired
  due,                      \* providers whose access token is about to run out
  used,                     \* refresh tokens presented to a provider
  unreadable,               \* tokens encrypted with a key that is no longer set
  sess,                     \* what each session holds
  issued,                   \* tokens issued so far by the providers
  failures                  \* failures so far

vars == <<integrations, oauth_tokens, integration_permissions, refresh_lock,
          oauth_states, due, used, unreadable, sess, issued, failures>>
tables == <<integrations, oauth_tokens, integration_permissions>>
outside == <<refresh_lock, oauth_states, due, used, unreadable, issued, failures>>

Sessions == Handlers \cup Workers
Status == {"pending", "connected", "disconnected", "expired"}
Grant == {"none", "access", "configure"}

\* last_error and disconnected_at: whether they are set.
IntegrationRow == [status : Status, last_error : BOOLEAN, disconnected_at : BOOLEAN]
\* token: which pair of access and refresh token.  refresh_attempts stands for
\* last_refresh_error too: both are set and reset together.
TokenRow == [token : Nat, revoked_at : BOOLEAN, refresh_attempts : Nat]

ASSUME HubNoneAssumption == None \notin IntegrationRow /\ None \notin TokenRow

Session ==
  [op : {"none", "connect", "connect_code", "authenticate", "validate",
         "disconnect", "refresh"},
   pc : {"idle", "first", "loaded", "cleared", "listed", "locked", "flushed"},
   p : Providers \cup {None}, todo : SUBSET Providers,
   integration : [Providers -> IntegrationRow \cup {None}],   \* as loaded
   oauth_token : [Providers -> TokenRow \cup {None}],         \* as loaded
   grants : [Users -> Grant], late : BOOLEAN, token : Nat, ok : BOOLEAN]

NoRows == [p \in Providers |-> None]
NoGrants == [u \in Users |-> "none"]
Idle == [op |-> "none", pc |-> "idle", p |-> None, todo |-> {},
         integration |-> NoRows, oauth_token |-> NoRows,
         grants |-> NoGrants, late |-> FALSE, token |-> 0, ok |-> TRUE]

TypeOK ==
  /\ integrations \in [Providers -> IntegrationRow \cup {None}]
  /\ oauth_tokens \in [Providers -> TokenRow \cup {None}]
  /\ integration_permissions \in [Providers -> [Users -> Grant]]
  /\ refresh_lock \subseteq Providers
  /\ oauth_states \subseteq Providers
  /\ due \subseteq Providers
  /\ used \subseteq Nat /\ unreadable \subseteq Nat
  /\ sess \in [Sessions -> Session]
  /\ issued \in Nat
  /\ failures \in 0..MaxFailures

Init ==
  /\ integrations = NoRows
  /\ oauth_tokens = NoRows
  /\ integration_permissions = [p \in Providers |-> NoGrants]
  /\ refresh_lock = {} /\ oauth_states = {} /\ due = {} /\ used = {} /\ unreadable = {}
  /\ sess = [s \in Sessions |-> Idle]
  /\ issued = 0 /\ failures = 0

-----------------------------------------------------------------------------
(* What a session intends to write, from what it loaded. *)

\* Mutant: the two outcomes of a validation are exchanged.
ValidatedStatusInverted == "validation_failed"

\* The placeholder providers find every connection healthy.
ValidatedStatus == "connected"

NewIntegration(x) ==
  LET row == x.integration[x.p]
  IN CASE x.op = "connect" ->
            [status |-> "pending", last_error |-> FALSE, disconnected_at |-> FALSE]
       [] x.op = "connect_code" ->
            [status |-> "connected", last_error |-> FALSE, disconnected_at |-> FALSE]
       [] x.op = "authenticate" \/ (x.op = "refresh" /\ x.ok) ->
            [row EXCEPT !.status = "connected", !.last_error = FALSE]
       [] x.op = "validate" ->
            [row EXCEPT !.status = ValidatedStatus, !.last_error = FALSE]
       [] x.op = "disconnect" ->
            [status |-> "disconnected", last_error |-> FALSE, disconnected_at |-> TRUE]
       [] x.op = "refresh" /\ ~x.ok ->
            [row EXCEPT !.status = "expired", !.last_error = TRUE]

NewToken(x) ==
  LET row == x.oauth_token[x.p]
  IN CASE x.op \in {"authenticate", "connect_code"} ->
            [token |-> x.token, revoked_at |-> FALSE, refresh_attempts |-> 0]
       [] x.op = "refresh" /\ x.ok ->
            [row EXCEPT !.token = x.token, !.refresh_attempts = 0]
       [] x.op = "refresh" /\ ~x.ok ->
            [row EXCEPT !.refresh_attempts = IF @ < MaxAttempts THEN @ + 1 ELSE @]
       [] x.op = "disconnect" /\ row # None -> [row EXCEPT !.revoked_at = TRUE]
       [] OTHER -> None

\* Mutant: disconnect keeps a disconnected_at that is set already.
LoadedIntegrationKept(x) == x.integration[x.p]

\* The values a write is compared with: disconnect writes the time anew into
\* disconnected_at and revoked_at, also when they were set.
LoadedIntegration(x) ==
  IF x.op = "disconnect" THEN [x.integration[x.p] EXCEPT !.disconnected_at = FALSE]
  ELSE x.integration[x.p]
LoadedToken(x) ==
  IF x.op = "disconnect" /\ x.oauth_token[x.p] # None
  THEN [x.oauth_token[x.p] EXCEPT !.revoked_at = FALSE]
  ELSE x.oauth_token[x.p]

\* The rows a flush locks: every handler writes a time or metadata into the
\* integration row, a refresh only what changes.
LocksIntegration(x) == x.op = "refresh" => NewIntegration(x) # x.integration[x.p]
LocksToken(x) == NewToken(x) # None

CanLock(s, x) ==
  \A t \in Sessions \ {s} :
    (sess[t].pc = "flushed" /\ sess[t].p = x.p) =>
      /\ ~(LocksIntegration(x) /\ LocksIntegration(sess[t]))
      /\ ~(LocksToken(x) /\ LocksToken(sess[t]))

\* A row that was not found is inserted: the unique constraints refuse a second.
NoDuplicate(x) ==
  /\ x.integration[x.p] = None => integrations[x.p] = None
  /\ (x.oauth_token[x.p] = None /\ NewToken(x) # None) => oauth_tokens[x.p] = None

-----------------------------------------------------------------------------
(* The request handlers *)

Begin(s, op, p, grants) ==
  /\ s \in Handlers /\ sess[s].pc = "idle"
  /\ op \in {"connect_code", "authenticate"} => issued < MaxTokens
  /\ sess' = [sess EXCEPT ![s] = [Idle EXCEPT !.op = op, !.pc = "first", !.p = p,
                !.integration[p] = integrations[p], !.grants = grants]]
  /\ UNCHANGED <<tables, outside>>

\* connect, refused while the integration is anything but disconnected.  The
\* connecting user may configure, the others named may use it.
ConnectRead(s, p) ==
  /\ integrations[p] # None => integrations[p].status = "disconnected"
  /\ \E op \in {"connect", "connect_code"}, u \in Users, allowed \in SUBSET Users :
       Begin(s, op, p, [v \in Users |-> IF v = u THEN "configure"
                                        ELSE IF v \in allowed THEN "access"
                                        ELSE "none"])

\* The callback with a state that connect handed out: the state may be used
\* again and again until it expires, whatever became of the integration.
CallbackRead(s, p) ==
  /\ p \in oauth_states
  /\ Begin(s, "authenticate", p, NoGrants)

ValidateRead(s, p) == integrations[p] # None /\ Begin(s, "validate", p, NoGrants)
DisconnectRead(s, p) == integrations[p] # None /\ Begin(s, "disconnect", p, NoGrants)

\* Mutant: validate does not ask for credentials.
TokenReadUnchecked(s) ==
  LET x == sess[s]
  IN /\ s \in Handlers /\ x.pc = "first"
     /\ sess' = [sess EXCEPT ![s].pc = "loaded",
                             ![s].oauth_token[x.p] = oauth_tokens[x.p]]
     /\ UNCHANGED <<tables, outside>>

\* The token row is read by a query of its own.  validate requires one that is
\* not revoked (_require_token), else the request ends here.
TokenRead(s) ==
  LET x == sess[s]
      token == oauth_tokens[x.p]
      missing == IF token = None THEN TRUE ELSE token.revoked_at
  IN /\ s \in Handlers /\ x.pc = "first"
     /\ sess' = [sess EXCEPT ![s] =
          IF x.op = "validate" /\ missing THEN Idle
          ELSE [x EXCEPT !.pc = "loaded", !.oauth_token[x.p] = token]]
     /\ UNCHANGED <<tables, outside>>

\* _replace_permissions begins with a DELETE; it sees the rows committed when it
\* starts, and waits for a session that is replacing them.
PermissionsClear(s) ==
  /\ sess[s].op \in {"connect", "connect_code"} /\ sess[s].pc = "loaded"
  /\ sess' = [sess EXCEPT ![s].pc = "cleared"]
  /\ UNCHANGED <<tables, outside>>

\* Mutant: the permissions are granted before the old ones are deleted.
GrantsAfterCleared(x) ==
  [u \in Users |-> IF x.late THEN integration_permissions[x.p][u] ELSE "none"]

\* The permissions after a connect.  A DELETE that started before the commit of
\* another connect leaves the rows of that one.
GrantsAfter(x) ==
  [u \in Users |-> IF x.late /\ x.grants[u] = "none"
                   THEN integration_permissions[x.p][u]
                   ELSE x.grants[u]]
NoDuplicateGrant(x) ==
  x.late => \A u \in Users :
    x.grants[u] = "none" \/ integration_permissions[x.p][u] = "none"

\* upsert looks for the token row once more: a connect that found none before may
\* find one that a callback has committed since, and updates it.
Upserted(x) ==
  IF x.op = "connect_code" /\ x.oauth_token[x.p] = None
  THEN [x EXCEPT !.oauth_token[x.p] = oauth_tokens[x.p]]
  ELSE x

\* The flush of all rows a handler writes.  The provider has issued the tokens
\* of an authorisation code before.
HandlerFlush(s) ==
  LET code == sess[s].op \in {"authenticate", "connect_code"}
      x == [Upserted(sess[s]) EXCEPT !.pc = "flushed",
                                     !.token = IF code THEN issued + 1 ELSE 0]
  IN /\ s \in Handlers
     /\ sess[s].pc = IF x.op \in {"connect", "connect_code"} THEN "cleared"
                     ELSE "loaded"
     /\ NoDuplicate(x) /\ NoDuplicateGrant(x) /\ CanLock(s, x)
     /\ sess' = [sess EXCEPT ![s] = x]
     /\ issued' = IF code THEN issued + 1 ELSE issued
     /\ UNCHANGED <<tables, refresh_lock, oauth_states, due, used, unreadable, failures>>

-----------------------------------------------------------------------------
(* refresh_due_tokens *)

\* The tokens list_due_for_refresh returns.
Listed(p) ==
  /\ p \in due
  /\ oauth_tokens[p] # None /\ ~oauth_tokens[p].revoked_at
  /\ integrations[p].status \in {"connected", "expired"}

RefreshList(w) ==
  LET found == {p \in Providers : Listed(p)}
  IN /\ w \in Workers /\ sess[w].pc = "idle"
     /\ found # {}
     /\ sess' = [sess EXCEPT ![w] = [Idle EXCEPT !.op = "refresh", !.pc = "first",
          !.todo = found,
          !.oauth_token = [p \in Providers |-> IF p \in found THEN oauth_tokens[p]
                                               ELSE None]]]
     /\ UNCHANGED <<tables, outside>>

\* The integrations of the tokens are loaded by a second query.
RefreshLoad(w) ==
  LET x == sess[w]
  IN /\ x.op = "refresh" /\ x.pc = "first"
     /\ sess' = [sess EXCEPT ![w].pc = "listed",
          ![w].integration = [p \in Providers |-> IF p \in x.todo THEN integrations[p]
                                                  ELSE None]]
     /\ UNCHANGED <<tables, outside>>

\* The sweep goes on with the rows it has loaded, or is over.
Swept(x, p) ==
  IF x.todo = {p} THEN Idle
  ELSE [x EXCEPT !.pc = "listed", !.p = None, !.todo = @ \ {p}, !.token = 0, !.ok = TRUE]

\* Mutant: the lock is set whether or not it was (SET without NX).
RefreshLockAlways(w, p) ==
  LET x == sess[w]
  IN /\ x.pc = "listed" /\ p \in x.todo
     /\ refresh_lock' = refresh_lock \cup {p}
     /\ sess' = [sess EXCEPT ![w].pc = "locked", ![w].p = p]
     /\ UNCHANGED <<tables, oauth_states, due, used, unreadable, issued, failures>>

\* _acquire_refresh_lock: a token whose lock is set is left to whoever set it.
RefreshLock(w, p) ==
  LET x == sess[w]
  IN /\ x.pc = "listed" /\ p \in x.todo
     /\ refresh_lock' = refresh_lock \cup {p}
     /\ sess' = [sess EXCEPT ![w] = IF p \in refresh_lock THEN Swept(x, p)
                                    ELSE [x EXCEPT !.pc = "locked", !.p = p]]
     /\ UNCHANGED <<tables, oauth_states, due, used, unreadable, issued, failures>>

\* The refresh token is decrypted and presented to the provider, which issues a new
\* pair.  One that does not decrypt takes the except branch, at every attempt: the
\* placeholder providers raise nothing.  Then the rows are flushed.
RefreshFlush(w) ==
  LET loaded == sess[w].oauth_token[sess[w].p]
      ok == loaded.token \notin unreadable
      x == [sess[w] EXCEPT !.pc = "flushed", !.ok = ok,
                           !.token = IF ok THEN issued + 1 ELSE 0]
  IN /\ sess[w].pc = "locked"
     /\ CanLock(w, x)
     /\ sess' = [sess EXCEPT ![w] = x]
     /\ used' = IF ok THEN used \cup {loaded.token} ELSE used
     /\ issued' = IF ok THEN issued + 1 ELSE issued
     /\ UNCHANGED <<tables, refresh_lock, oauth_states, due, unreadable, failures>>

-----------------------------------------------------------------------------
(* The end of a transaction *)

NewTokens(x) == x.op \in {"authenticate", "connect_code"} \/ (x.op = "refresh" /\ x.ok)

Commit(s) ==
  LET x == sess[s]
      p == x.p
      connects == x.op \in {"connect", "connect_code"}
  IN /\ x.pc = "flushed"
     /\ integrations' = [integrations EXCEPT
          ![p] = Written(@, None, LoadedIntegration(x), NewIntegration(x))]
     /\ oauth_tokens' = [oauth_tokens EXCEPT
          ![p] = Written(@, None, LoadedToken(x), NewToken(x))]
     /\ integration_permissions' = [integration_permissions EXCEPT
          ![p] = IF connects THEN GrantsAfter(x) ELSE @]
     /\ oauth_states' = IF x.op = "connect" THEN oauth_states \cup {p} ELSE oauth_states
     /\ due' = IF NewTokens(x) THEN due \ {p} ELSE due
     /\ sess' = [t \in Sessions |->
          IF t = s THEN IF x.op = "refresh" THEN Swept(x, p) ELSE Idle
          ELSE IF connects /\ sess[t].pc = "cleared" /\ sess[t].p = p
               THEN [sess[t] EXCEPT !.late = TRUE]
          ELSE sess[t]]
     /\ UNCHANGED <<refresh_lock, used, unreadable, issued, failures>>

\* The flush of this session meets a unique constraint.
Raises(s) ==
  /\ sess[s].pc \in {"loaded", "cleared"}
  /\ ~(NoDuplicate(Upserted(sess[s])) /\ NoDuplicateGrant(sess[s]))

\* An exception the code does not catch, or a crash: rolled back, but the lock
\* stays set and a refresh token presented stays presented.
Fail(s) ==
  /\ sess[s].pc # "idle"
  /\ failures < MaxFailures \/ Raises(s)
  /\ sess' = [sess EXCEPT ![s] = Idle]
  /\ failures' = IF Raises(s) THEN failures ELSE failures + 1
  /\ UNCHANGED <<tables, refresh_lock, oauth_states, due, used, unreadable, issued>>

-----------------------------------------------------------------------------
(* The passing of time *)

\* integration_encryption_key is set to another value: what was encrypted before can
\* no longer be read.
KeyReplaced ==
  /\ issued <= MaxUnreadable /\ unreadable # 1..issued
  /\ unreadable' = 1..issued
  /\ UNCHANGED <<tables, refresh_lock, oauth_states, due, used, sess, issued, failures>>

\* The access token comes within integration_refresh_window_minutes of its end.
TokenDue(p) ==
  /\ oauth_tokens[p] # None /\ p \notin due
  /\ issued < MaxTokens
  /\ due' = due \cup {p}
  /\ UNCHANGED <<tables, refresh_lock, oauth_states, used, sess, unreadable, issued, failures>>

\* Mutant: the lock is set without a time to live.
LockExpireNever(p) == FALSE /\ p \in refresh_lock /\ UNCHANGED vars

\* The refresh the lock was set for is over, and so is every sweep that listed the
\* token before that refresh.
Outlived(p) ==
  \A w \in Workers :
    p \in sess[w].todo => sess[w].p # p /\ sess[w].oauth_token[p] = oauth_tokens[p]

\* integration_refresh_lock_seconds have passed.
LockExpire(p) ==
  /\ p \in refresh_lock
  /\ LocksOutlive => Outlived(p)
  /\ refresh_lock' = refresh_lock \ {p}
  /\ UNCHANGED <<tables, oauth_states, due, used, sess, unreadable, issued, failures>>

\* integration_oauth_state_expire_minutes have passed.
StateExpire(p) ==
  /\ p \in oauth_states
  /\ oauth_states' = oauth_states \ {p}
  /\ UNCHANGED <<tables, refresh_lock, due, used, sess, unreadable, issued, failures>>

-----------------------------------------------------------------------------
Handle(s) == \/ \E p \in Providers : \/ ConnectRead(s, p) \/ CallbackRead(s, p)
                                     \/ ValidateRead(s, p) \/ DisconnectRead(s, p)
             \/ TokenRead(s) \/ PermissionsClear(s) \/ HandlerFlush(s)
Refresh(w) == \/ RefreshList(w) \/ RefreshLoad(w)
              \/ (\E p \in Providers : RefreshLock(w, p)) \/ RefreshFlush(w)
Step(s) == Handle(s) \/ Refresh(s) \/ Commit(s)
Tick == \E p \in Providers : TokenDue(p) \/ StateExpire(p)

Next == (\E s \in Sessions : Step(s) \/ Fail(s)) \/ Tick \/ KeyReplaced
          \/ \E p \in Providers : LockExpire(p)

Spec == Init /\ [][Next]_vars

\* A request that has begun is run on, workers sweep again and again, Redis
\* expires locks, and row locks are granted in the order they are asked for.
Proceed(s) == \/ TokenRead(s) \/ PermissionsClear(s) \/ HandlerFlush(s)
              \/ (Raises(s) /\ Fail(s)) \/ Commit(s) \/ Refresh(s)
Fairness == /\ \A s \in Sessions : WF_vars(Proceed(s))
            /\ \A w \in Workers : SF_vars(RefreshFlush(w))
            /\ \A p \in Providers : WF_vars(LockExpire(p))

LiveSpec == Spec /\ Fairness

-----------------------------------------------------------------------------
(* Properties *)

\* An integration shown as connected or expired has a row of credentials to
\* refresh or to validate, whatever overlapped.
ConnectedHasToken ==
  \A p \in Providers :
    (integrations[p] # None /\ integrations[p].status \in {"connected", "expired"})
      => oauth_tokens[p] # None

\* A disconnected integration says since when, although connect and disconnect
\* each write status and disconnected_at by what they loaded.
DisconnectedDated ==
  \A p \in Providers :
    (integrations[p] # None /\ integrations[p].status = "disconnected")
      => integrations[p].disconnected_at

\* However connects overlap, the permissions they replace leave somebody who may
\* configure the integration.
SomeoneConfigures ==
  \A p \in Providers :
    integrations[p] # None => \E u \in Users : integration_permissions[p][u] = "configure"

\* With locks that outlive the sweeps, and until something crashes, a worker that is
\* about to refresh never presents a refresh token that was presented before.
RefreshTokenUsedOnce ==
  (LocksOutlive /\ failures = 0) =>
    \A w \in Workers :
      sess[w].pc = "locked" => sess[w].oauth_token[sess[w].p].token \notin used

\* Credentials that a disconnect has revoked become usable again only when a user
\* authorises anew, and then it is the new pair that is usable: a sweep that loaded
\* them before the disconnect and commits after it brings nothing back.
RevokedUntilAuthorized ==
  [][\A p \in Providers :
       (oauth_tokens[p] # None /\ oauth_tokens[p].revoked_at /\ ~oauth_tokens'[p].revoked_at)
         => \E s \in Handlers :
              /\ sess[s].pc = "flushed" /\ sess[s].p = p
              /\ sess[s].op \in {"connect_code", "authenticate"}
              /\ oauth_tokens'[p].token = sess[s].token]_vars

\* The credentials cannot be refreshed, and the integration shows it.
ShownExpired(p) == oauth_tokens[p].token \in unreadable /\ integrations[p].status = "expired"

\* A token that is due gets refreshed, unless its integration is disconnected first:
\* a crash that leaves the lock set only delays it.  One that no longer decrypts gets
\* its integration shown as expired.
DueIsRefreshed == \A p \in Providers : Listed(p) ~> (~Listed(p) \/ ShownExpired(p))

(* A claim made about this code that it does not keep. *)

\* The hub test asserts that a disconnect makes the integration DISCONNECTED;
\* only a connect or a callback that comes later should change that.
DisconnectedStays ==
  [][\A p \in Providers :
       (integrations[p] # None /\ integrations[p].status = "disconnected"
          /\ integrations'[p].status # "disconnected")
         => \E s \in Handlers : sess[s].pc = "flushed" /\ sess'[s].pc = "idle"]_vars
=============================================================================
