------------------------ MODULE IntegrationHubProofs ------------------------
(***************************************************************************)
(* Proof that IntegrationHub keeps its types, and that status, dates,      *)
(* credentials and permissions of an integration agree, for every set of   *)
(* providers, users and sessions and every bound.  Then proof that the     *)
(* refresh lock does its work: while locks outlive sweeps and nothing has  *)
(* crashed, no worker presents a refresh token that was presented before;  *)
(* and that credentials a disconnect has revoked come back only with a new *)
(* authorisation.                                                          *)
(***************************************************************************)
EXTENDS IntegrationHub, TLAPS

Connects(x) == x.op \in {"connect", "connect_code"}
Handles(x) == x.op \in {"connect", "connect_code", "authenticate", "validate", "disconnect"}

\* What an operation has filled in by the time it reaches a program counter.
ShapeOf(s, x) ==
  /\ x.op = "none" <=> x.pc = "idle"
  /\ Handles(x) =>
       /\ s \in Handlers /\ x.p \in Providers
       /\ x.pc \in {"first", "loaded", "cleared", "flushed"}
  /\ (Handles(x) /\ ~Connects(x)) => x.integration[x.p] # None
  /\ (x.op = "validate" /\ x.pc # "first") => x.oauth_token[x.p] # None
  /\ x.op = "refresh" =>
       /\ s \in Workers
       /\ x.pc \in {"first", "listed", "locked", "flushed"}
       /\ \A q \in x.todo : /\ x.oauth_token[q] # None
                            /\ x.pc # "first" => x.integration[q] # None
       /\ x.pc \in {"locked", "flushed"} => x.p \in x.todo

\* A connect starts from nothing or from a disconnected integration, and grants
\* its user the right to configure.
ConnectOf(x) ==
  Connects(x) =>
    /\ \E u \in Users : x.grants[u] = "configure"
    /\ x.integration[x.p] # None =>
         x.integration[x.p].status = "disconnected" /\ x.integration[x.p].disconnected_at

\* Rows are never removed.
LoadedOf(x) ==
  \A q \in Providers : /\ x.integration[q] # None => integrations[q] # None
                       /\ x.oauth_token[q] # None => oauth_tokens[q] # None

SessionInv(s, x) == ShapeOf(s, x) /\ ConnectOf(x) /\ LoadedOf(x)

TokenHasIntegration ==
  \A q \in Providers : oauth_tokens[q] # None => integrations[q] # None

\* A state is handed out after the commit that stored its integration.
StateHasIntegration == \A q \in oauth_states : integrations[q] # None

HInv == /\ TypeOK /\ TokenHasIntegration
        /\ StateHasIntegration
        /\ ConnectedHasToken /\ DisconnectedDated /\ SomeoneConfigures
        /\ \A s \in Sessions : SessionInv(s, sess[s])
-----------------------------------------------------------------------------
\* A step that only replaces what one session holds.
LEMMA LocalStep ==
  ASSUME HInv, NEW s \in Sessions, NEW y \in Session,
         UNCHANGED tables, sess' = [sess EXCEPT ![s] = y],
         refresh_lock' \subseteq Providers, due' \subseteq Providers,
         used' \subseteq Nat, unreadable' \subseteq Nat, issued' \in Nat,
         failures' \in 0..MaxFailures,
         SessionInv(s, y), oauth_states' \subseteq oauth_states
  PROVE  HInv'
<1>0. /\ integrations' = integrations /\ oauth_tokens' = oauth_tokens
      /\ integration_permissions' = integration_permissions
  BY DEF tables
<1>1. TypeOK'
  BY <1>0 DEF HInv, TypeOK
<1>2. (TokenHasIntegration /\ StateHasIntegration /\ ConnectedHasToken /\ DisconnectedDated
       /\ SomeoneConfigures)'
  BY <1>0 DEF HInv, TokenHasIntegration, StateHasIntegration, ConnectedHasToken,
              DisconnectedDated, SomeoneConfigures
<1>3. \A t \in Sessions : SessionInv(t, sess[t])'
  <2> SUFFICES ASSUME NEW t \in Sessions PROVE SessionInv(t, sess[t])'
    OBVIOUS
  <2>1. SessionInv(t, sess'[t])
    <3>1. CASE t = s
      BY <3>1 DEF HInv, TypeOK
    <3>2. CASE t # s
      BY <3>2 DEF HInv, TypeOK
    <3> QED
      BY <3>1, <3>2
  <2> QED
    BY <1>0, <2>1 DEF SessionInv, ShapeOf, ConnectOf, LoadedOf, Handles, Connects
<1> QED
  BY <1>1, <1>2, <1>3 DEF HInv

LEMMA IdleInv ==
  ASSUME NEW s \in Sessions
  PROVE  Idle \in Session /\ SessionInv(s, Idle)
BY DEF Idle, Session, NoRows, NoGrants, Grant, SessionInv, ShapeOf, ConnectOf, LoadedOf,
       Handles, Connects

LEMMA ReleaseStep ==
  ASSUME HInv, NEW s \in Sessions, UNCHANGED <<tables, refresh_lock, oauth_states, due,
         used, unreadable, issued>>, failures' \in 0..MaxFailures, sess' = [sess EXCEPT ![s] = Idle]
  PROVE  HInv'
<1>1. /\ refresh_lock' \subseteq Providers /\ oauth_states' \subseteq oauth_states
      /\ due' \subseteq Providers /\ used' \subseteq Nat /\ unreadable' \subseteq Nat
      /\ issued' \in Nat
  BY DEF HInv, TypeOK
<1> QED
  BY <1>1, IdleInv, LocalStep

LEMMA InitInv == Init => HInv
<1> SUFFICES ASSUME Init PROVE HInv
  OBVIOUS
<1>1. \A s \in Sessions : sess[s] = Idle
  BY DEF Init
<1>2. TypeOK
  BY IdleInv, HubBoundsAssumption DEF Init, TypeOK, NoRows, NoGrants, Grant
<1>3. TokenHasIntegration /\ StateHasIntegration /\ ConnectedHasToken /\ DisconnectedDated
      /\ SomeoneConfigures
  BY DEF Init, NoRows, TokenHasIntegration, StateHasIntegration, ConnectedHasToken,
         DisconnectedDated, SomeoneConfigures
<1> QED
  BY <1>1, <1>2, <1>3, IdleInv DEF HInv

LEMMA LoadStep ==
  ASSUME HInv, NEW s \in Sessions, NEW y \in Session,
         UNCHANGED <<tables, outside>>, sess' = [sess EXCEPT ![s] = y],
         SessionInv(s, y)
  PROVE  HInv'
<1>1. /\ UNCHANGED tables
      /\ refresh_lock' \subseteq Providers /\ oauth_states' \subseteq oauth_states
      /\ due' \subseteq Providers /\ used' \subseteq Nat /\ unreadable' \subseteq Nat
      /\ issued' \in Nat /\ failures' \in 0..MaxFailures
  BY DEF HInv, TypeOK, outside
<1> QED
  BY <1>1, LocalStep
-----------------------------------------------------------------------------
(* The request handlers *)

LEMMA BeginStep ==
  ASSUME HInv, NEW s \in Sessions, NEW p \in Providers,
         NEW op \in {"connect", "connect_code", "authenticate", "validate", "disconnect"},
         NEW grants \in [Users -> Grant], Begin(s, op, p, grants),
         IF op \in {"connect", "connect_code"}
         THEN /\ \E u \in Users : grants[u] = "configure"
              /\ integrations[p] # None => integrations[p].status = "disconnected"
         ELSE integrations[p] # None
  PROVE  HInv'
<1> PICK y : y = [Idle EXCEPT !.op = op, !.pc = "first", !.p = p,
                    !.integration[p] = integrations[p], !.grants = grants]
  OBVIOUS
<1>1. integrations[p] \in IntegrationRow \cup {None}
  BY DEF HInv, TypeOK
<1>2. y \in Session
  BY <1>1 DEF Idle, Session, NoRows, NoGrants
<1>3. /\ y.op = op /\ y.pc = "first" /\ y.p = p /\ y.grants = grants
      /\ y.integration[p] = integrations[p]
      /\ \A q \in Providers : /\ q # p => y.integration[q] = None
                              /\ y.oauth_token[q] = None
  BY DEF Idle, NoRows
<1>4. /\ s \in Handlers /\ UNCHANGED <<tables, outside>>
      /\ sess' = [sess EXCEPT ![s] = y]
  BY DEF Begin
<1>5. integrations[p] # None /\ integrations[p].status = "disconnected"
        => integrations[p].disconnected_at
  BY DEF HInv, DisconnectedDated
<1>6. ShapeOf(s, y)
  BY <1>3, <1>4 DEF ShapeOf, Handles, Connects
<1>7. ConnectOf(y) /\ LoadedOf(y)
  BY <1>3, <1>5 DEF ConnectOf, LoadedOf, Connects
<1> QED
  BY <1>2, <1>4, <1>6, <1>7, LoadStep DEF SessionInv

LEMMA ConnectReadStep ==
  ASSUME HInv, NEW s \in Sessions, NEW p \in Providers, ConnectRead(s, p)
  PROVE  HInv'
<1>1. PICK op \in {"connect", "connect_code"}, u \in Users, allowed \in SUBSET Users :
        Begin(s, op, p, [v \in Users |-> IF v = u THEN "configure"
                                         ELSE IF v \in allowed THEN "access"
                                         ELSE "none"])
  BY DEF ConnectRead
<1> PICK grants : grants = [v \in Users |-> IF v = u THEN "configure"
                                            ELSE IF v \in allowed THEN "access"
                                            ELSE "none"]
  OBVIOUS
<1>2. grants \in [Users -> Grant] /\ grants[u] = "configure"
  BY DEF Grant
<1>3. integrations[p] # None => integrations[p].status = "disconnected"
  BY DEF ConnectRead
<1> QED
  BY <1>1, <1>2, <1>3, BeginStep

LEMMA ExistingReadStep ==
  ASSUME HInv, NEW s \in Sessions, NEW p \in Providers,
         CallbackRead(s, p) \/ ValidateRead(s, p) \/ DisconnectRead(s, p)
  PROVE  HInv'
<1>1. NoGrants \in [Users -> Grant]
  BY DEF NoGrants, Grant
<1>2. CASE CallbackRead(s, p)
  <2>1. integrations[p] # None
    BY <1>2 DEF HInv, StateHasIntegration, CallbackRead
  <2> QED
    BY <1>1, <1>2, <2>1, BeginStep DEF CallbackRead
<1>3. CASE ValidateRead(s, p)
  BY <1>1, <1>3, BeginStep DEF ValidateRead
<1>4. CASE DisconnectRead(s, p)
  BY <1>1, <1>4, BeginStep DEF DisconnectRead
<1> QED
  BY <1>2, <1>3, <1>4

LEMMA TokenReadStep ==
  ASSUME HInv, NEW s \in Sessions, TokenRead(s)
  PROVE  HInv'
<1> PICK x : x = sess[s]
  OBVIOUS
<1>1. x \in Session /\ SessionInv(s, x) /\ s \in Handlers /\ x.pc = "first"
  BY DEF HInv, TypeOK, TokenRead
<1>2. Handles(x)
  BY <1>1, HubSessionsAssumption DEF SessionInv, ShapeOf, Session, Handles
<1> PICK p : p = x.p
  OBVIOUS
<1> PICK token : token = oauth_tokens[p]
  OBVIOUS
<1>3. p \in Providers /\ token \in TokenRow \cup {None}
  BY <1>1, <1>2 DEF SessionInv, ShapeOf, HInv, TypeOK
<1> PICK y : y = [x EXCEPT !.pc = "loaded", !.oauth_token[p] = token]
  OBVIOUS
<1>4. UNCHANGED <<tables, outside>>
  BY DEF TokenRead
<1>5. \/ sess' = [sess EXCEPT ![s] = Idle]
      \/ sess' = [sess EXCEPT ![s] = y] /\ (x.op = "validate" => token # None)
  BY DEF TokenRead
<1>6. y \in Session
  BY <1>1, <1>3 DEF Session
<1>7. /\ y.op = x.op /\ y.pc = "loaded" /\ y.p = p /\ y.grants = x.grants
      /\ y.integration = x.integration /\ y.oauth_token[p] = token
      /\ \A q \in Providers : q # p => y.oauth_token[q] = x.oauth_token[q]
  BY <1>1, <1>3 DEF Session
<1>8. (x.op = "validate" => token # None) => SessionInv(s, y)
  BY <1>1, <1>2, <1>3, <1>7 DEF SessionInv, ShapeOf, ConnectOf, LoadedOf, Handles, Connects
<1>9. CASE sess' = [sess EXCEPT ![s] = Idle]
  BY <1>4, <1>9, IdleInv, LoadStep
<1> QED
  BY <1>4, <1>5, <1>6, <1>8, <1>9, LoadStep

LEMMA PermissionsClearStep ==
  ASSUME HInv, NEW s \in Sessions, PermissionsClear(s)
  PROVE  HInv'
<1> PICK x : x = sess[s]
  OBVIOUS
<1>1. x \in Session /\ SessionInv(s, x) /\ Connects(x) /\ x.pc = "loaded"
  BY DEF HInv, TypeOK, PermissionsClear, Connects
<1> PICK y : y = [x EXCEPT !.pc = "cleared"]
  OBVIOUS
<1>2. /\ UNCHANGED <<tables, outside>> /\ sess' = [sess EXCEPT ![s] = y]
      /\ y \in Session
  BY <1>1 DEF PermissionsClear, Session
<1>3. SessionInv(s, y)
  BY <1>1 DEF Session, SessionInv, ShapeOf, ConnectOf, LoadedOf, Handles, Connects
<1> QED
  BY <1>2, <1>3, LoadStep

LEMMA HandlerFlushStep ==
  ASSUME HInv, NEW s \in Sessions, HandlerFlush(s)
  PROVE  HInv'
<1> PICK x : x = sess[s]
  OBVIOUS
<1>1. x \in Session /\ SessionInv(s, x) /\ s \in Handlers
  BY DEF HInv, TypeOK, HandlerFlush
<1>2. x.pc \in {"loaded", "cleared"}
  BY DEF HandlerFlush
<1>3. Handles(x) /\ x.p \in Providers
  BY <1>1, <1>2, HubSessionsAssumption DEF SessionInv, ShapeOf, Session, Handles
<1> PICK z : z = Upserted(x)
  OBVIOUS
<1>4. oauth_tokens[x.p] \in TokenRow \cup {None}
  BY <1>3 DEF HInv, TypeOK
<1>5. /\ z \in Session /\ z.op = x.op /\ z.p = x.p /\ z.grants = x.grants
      /\ z.integration = x.integration
      /\ \A q \in Providers : \/ z.oauth_token[q] = x.oauth_token[q]
                             \/ z.oauth_token[q] = oauth_tokens[q]
      /\ x.op = "validate" => z.oauth_token = x.oauth_token
  BY <1>1, <1>3, <1>4 DEF Upserted, Session
<1>6. issued \in Nat
  BY DEF HInv, TypeOK
<1> PICK n \in Nat :
       n = IF x.op \in {"authenticate", "connect_code"} THEN issued + 1 ELSE 0
  BY <1>6
<1> PICK y : y = [z EXCEPT !.pc = "flushed", !.token = n]
  OBVIOUS
<1>7. /\ y \in Session /\ y.op = x.op /\ y.p = x.p /\ y.grants = x.grants
      /\ y.integration = x.integration /\ y.oauth_token = z.oauth_token
      /\ y.pc = "flushed"
  BY <1>5 DEF Session
<1>8. /\ UNCHANGED <<tables, refresh_lock, oauth_states, due, used, unreadable, failures>>
      /\ sess' = [sess EXCEPT ![s] = y] /\ issued' \in Nat
  BY <1>6 DEF HandlerFlush
<1>9. SessionInv(s, y)
  BY <1>1, <1>2, <1>3, <1>5, <1>7
     DEF SessionInv, ShapeOf, ConnectOf, LoadedOf, Handles, Connects
<1>10. /\ refresh_lock' \subseteq Providers /\ oauth_states' \subseteq oauth_states
       /\ due' \subseteq Providers /\ used' \subseteq Nat /\ unreadable' \subseteq Nat
       /\ failures' \in 0..MaxFailures
  BY <1>8 DEF HInv, TypeOK
<1> QED
  BY <1>7, <1>8, <1>9, <1>10, LocalStep
-----------------------------------------------------------------------------
(* The sweep of a worker *)

LEMMA RefreshListStep ==
  ASSUME HInv, NEW w \in Sessions, RefreshList(w)
  PROVE  HInv'
<1> PICK found : found = {p \in Providers : Listed(p)}
  OBVIOUS
<1> PICK tokens : tokens = [p \in Providers |-> IF p \in found THEN oauth_tokens[p]
                                                ELSE None]
  OBVIOUS
<1>1. /\ found \in SUBSET Providers /\ \A q \in found : tokens[q] # None
      /\ tokens \in [Providers -> TokenRow \cup {None}]
      /\ \A q \in Providers : tokens[q] # None => oauth_tokens[q] # None
  BY DEF Listed, HInv, TypeOK
<1> PICK y : y = [Idle EXCEPT !.op = "refresh", !.pc = "first", !.todo = found,
                              !.oauth_token = tokens]
  OBVIOUS
<1>2. /\ y \in Session /\ y.op = "refresh" /\ y.pc = "first" /\ y.todo = found
      /\ y.oauth_token = tokens /\ y.integration = NoRows
  BY <1>1, IdleInv DEF Session, Idle
<1>3. /\ w \in Workers /\ UNCHANGED <<tables, outside>>
      /\ sess' = [sess EXCEPT ![w] = y]
  BY DEF RefreshList
<1>4. SessionInv(w, y)
  BY <1>1, <1>2, <1>3 DEF SessionInv, ShapeOf, ConnectOf, LoadedOf, Handles, Connects, NoRows
<1> QED
  BY <1>2, <1>3, <1>4, LoadStep

LEMMA RefreshLoadStep ==
  ASSUME HInv, NEW w \in Sessions, RefreshLoad(w)
  PROVE  HInv'
<1> PICK x : x = sess[w]
  OBVIOUS
<1>1. x \in Session /\ SessionInv(w, x) /\ x.op = "refresh" /\ x.pc = "first"
  BY DEF HInv, TypeOK, RefreshLoad
<1> PICK loaded : loaded = [p \in Providers |-> IF p \in x.todo THEN integrations[p]
                                                ELSE None]
  OBVIOUS
<1>2. loaded \in [Providers -> IntegrationRow \cup {None}]
  BY DEF HInv, TypeOK
<1>3. \A q \in x.todo : q \in Providers /\ loaded[q] # None
  BY <1>1 DEF HInv, TokenHasIntegration, SessionInv, ShapeOf, LoadedOf, Session
<1> PICK y : y = [x EXCEPT !.pc = "listed", !.integration = loaded]
  OBVIOUS
<1>4. /\ y \in Session /\ y.op = "refresh" /\ y.pc = "listed" /\ y.todo = x.todo
      /\ y.oauth_token = x.oauth_token /\ y.integration = loaded
  BY <1>1, <1>2 DEF Session
<1>5. UNCHANGED <<tables, outside>> /\ sess' = [sess EXCEPT ![w] = y]
  BY <1>1 DEF RefreshLoad
<1>6. SessionInv(w, y)
  BY <1>1, <1>3, <1>4 DEF SessionInv, ShapeOf, ConnectOf, LoadedOf, Handles, Connects
<1> QED
  BY <1>4, <1>5, <1>6, LoadStep

LEMMA SweptInv ==
  ASSUME NEW w \in Sessions, NEW x \in Session, SessionInv(w, x), x.op = "refresh",
         x.pc # "first", NEW p
  PROVE  Swept(x, p) \in Session /\ SessionInv(w, Swept(x, p))
<1>1. CASE x.todo = {p}
  BY <1>1, IdleInv DEF Swept
<1>2. CASE x.todo # {p}
  <2> PICK y : y = [x EXCEPT !.pc = "listed", !.p = None, !.todo = x.todo \ {p},
                             !.token = 0, !.ok = TRUE]
    OBVIOUS
  <2>1. /\ y \in Session /\ y.op = "refresh" /\ y.pc = "listed" /\ y.todo = x.todo \ {p}
        /\ y.oauth_token = x.oauth_token /\ y.integration = x.integration
    BY DEF Session
  <2>2. SessionInv(w, y)
    BY <2>1 DEF SessionInv, ShapeOf, ConnectOf, LoadedOf, Handles, Connects
  <2> QED
    BY <1>2, <2>1, <2>2 DEF Swept
<1> QED
  BY <1>1, <1>2

LEMMA RefreshLockStep ==
  ASSUME HInv, NEW w \in Sessions, NEW p \in Providers, RefreshLock(w, p)
  PROVE  HInv'
<1> PICK x : x = sess[w]
  OBVIOUS
<1>1. x \in Session /\ SessionInv(w, x) /\ x.pc = "listed" /\ p \in x.todo
  BY DEF HInv, TypeOK, RefreshLock
<1>2. x.op = "refresh"
  BY <1>1 DEF SessionInv, ShapeOf, Handles, Session
<1> PICK y : y = IF p \in refresh_lock THEN Swept(x, p)
                 ELSE [x EXCEPT !.pc = "locked", !.p = p]
  OBVIOUS
<1>3. y \in Session /\ SessionInv(w, y)
  <2>1. CASE p \in refresh_lock
    BY <1>1, <1>2, <2>1, SweptInv
  <2>2. CASE p \notin refresh_lock
    BY <1>1, <1>2, <2>2
       DEF Session, SessionInv, ShapeOf, ConnectOf, LoadedOf, Handles, Connects
  <2> QED
    BY <2>1, <2>2
<1>4. /\ sess' = [sess EXCEPT ![w] = y] /\ refresh_lock' = refresh_lock \cup {p}
      /\ UNCHANGED <<tables, oauth_states, due, used, unreadable, issued, failures>>
  BY DEF RefreshLock
<1>5. /\ refresh_lock' \subseteq Providers /\ oauth_states' \subseteq oauth_states
      /\ due' \subseteq Providers /\ used' \subseteq Nat /\ unreadable' \subseteq Nat
      /\ issued' \in Nat /\ failures' \in 0..MaxFailures
  BY <1>4 DEF HInv, TypeOK
<1> QED
  BY <1>3, <1>4, <1>5, LocalStep

LEMMA RefreshFlushStep ==
  ASSUME HInv, NEW w \in Sessions, RefreshFlush(w)
  PROVE  HInv'
<1> PICK x : x = sess[w]
  OBVIOUS
<1>1. x \in Session /\ SessionInv(w, x) /\ x.pc = "locked"
  BY DEF HInv, TypeOK, RefreshFlush
<1>2. x.op = "refresh" /\ x.p \in x.todo /\ x.p \in Providers
  BY <1>1 DEF SessionInv, ShapeOf, Handles, Session
<1>3. x.oauth_token[x.p] \in TokenRow
  BY <1>1, <1>2 DEF SessionInv, ShapeOf, Session
<1>4. issued \in Nat /\ used \subseteq Nat
  BY DEF HInv, TypeOK
<1> PICK ok \in BOOLEAN : ok = (x.oauth_token[x.p].token \notin unreadable)
  OBVIOUS
<1>5.   /\ sess' = [sess EXCEPT ![w] = [x EXCEPT !.pc = "flushed", !.ok = ok,
                                         !.token = IF ok THEN issued + 1 ELSE 0]]
        /\ used' = IF ok THEN used \cup {x.oauth_token[x.p].token} ELSE used
        /\ issued' = IF ok THEN issued + 1 ELSE issued
        /\ UNCHANGED <<tables, refresh_lock, oauth_states, due, unreadable, failures>>
  BY DEF RefreshFlush
<1> PICK n \in Nat : n = IF ok THEN issued + 1 ELSE 0
  BY <1>4
<1> PICK y : y = [x EXCEPT !.pc = "flushed", !.ok = ok, !.token = n]
  OBVIOUS
<1>6. /\ y \in Session /\ y.op = "refresh" /\ y.pc = "flushed" /\ y.todo = x.todo
      /\ y.p = x.p /\ y.oauth_token = x.oauth_token /\ y.integration = x.integration
  <2>1. CASE ok = TRUE
    BY <1>1, <1>2, <2>1 DEF Session
  <2>2. CASE ok = FALSE
    BY <1>1, <1>2, <2>2 DEF Session
  <2> QED
    BY <2>1, <2>2
<1>7. SessionInv(w, y)
  BY <1>1, <1>2, <1>6 DEF SessionInv, ShapeOf, ConnectOf, LoadedOf, Handles, Connects
<1>8. used' \subseteq Nat /\ issued' \in Nat
  BY <1>3, <1>4, <1>5 DEF TokenRow
<1>9. /\ refresh_lock' \subseteq Providers /\ oauth_states' \subseteq oauth_states
      /\ due' \subseteq Providers /\ unreadable' \subseteq Nat
      /\ failures' \in 0..MaxFailures
  BY <1>5 DEF HInv, TypeOK
<1> QED
  BY <1>5, <1>6, <1>7, <1>8, <1>9, LocalStep
-----------------------------------------------------------------------------
(* The commit of what a session has flushed *)

LEMMA WrittenIntegrationRow ==
  ASSUME NEW row \in IntegrationRow, NEW loaded \in IntegrationRow, NEW new \in IntegrationRow
  PROVE  LET written == Written(row, None, loaded, new)
         IN /\ written \in IntegrationRow
            /\ written.status = IF new.status = loaded.status THEN row.status ELSE new.status
            /\ written.disconnected_at = IF new.disconnected_at = loaded.disconnected_at
                                         THEN row.disconnected_at ELSE new.disconnected_at
<1>1. new # None /\ loaded # None
  BY HubNoneAssumption
<1>2. DOMAIN row = {"status", "last_error", "disconnected_at"}
  BY DEF IntegrationRow
<1> QED
  BY <1>1, <1>2 DEF Written, IntegrationRow

LEMMA RenewedTokenRow ==
  ASSUME NEW row \in TokenRow, NEW n \in Nat
  PROVE  [row EXCEPT !.token = n, !.refresh_attempts = 0] \in TokenRow
BY DEF TokenRow

LEMMA WrittenTokenRow ==
  ASSUME NEW row \in TokenRow, NEW loaded \in TokenRow, NEW new \in TokenRow
  PROVE  Written(row, None, loaded, new) \in TokenRow
<1>1. new # None /\ loaded # None
  BY HubNoneAssumption
<1>2. DOMAIN row = {"token", "revoked_at", "refresh_attempts"}
  BY DEF TokenRow
<1> QED
  BY <1>1, <1>2 DEF Written, TokenRow

\* What is known of a session whose writes are flushed.
LEMMA FlushedSession ==
  ASSUME HInv, NEW s \in Sessions, sess[s].pc = "flushed"
  PROVE  LET x == sess[s]
             row == x.integration[x.p]
             token == x.oauth_token[x.p]
         IN /\ x \in Session /\ SessionInv(s, x) /\ x.p \in Providers
            /\ x.op \in {"connect", "connect_code", "authenticate", "validate",
                         "disconnect", "refresh"}
            /\ row \in IntegrationRow \cup {None} /\ token \in TokenRow \cup {None}
            /\ row # None => integrations[x.p] \in IntegrationRow
            /\ token # None => oauth_tokens[x.p] \in TokenRow
            /\ ~Connects(x) => row # None
            /\ Connects(x) /\ row # None => row.status = "disconnected"
            /\ x.op \in {"validate", "refresh"} => token # None
<1> PICK x : x = sess[s]
  OBVIOUS
<1>1. x \in Session /\ SessionInv(s, x) /\ x.pc = "flushed"
  BY DEF HInv, TypeOK
<1>2. x.op \in {"connect", "connect_code", "authenticate", "validate", "disconnect", "refresh"}
  BY <1>1 DEF SessionInv, ShapeOf, Session
<1>3. x.p \in Providers
  BY <1>1, <1>2 DEF SessionInv, ShapeOf, Session, Handles
<1>4. /\ x.integration[x.p] \in IntegrationRow \cup {None}
      /\ x.oauth_token[x.p] \in TokenRow \cup {None}
  BY <1>1, <1>3 DEF Session
<1>5. /\ x.integration[x.p] # None => integrations[x.p] \in IntegrationRow
      /\ x.oauth_token[x.p] # None => oauth_tokens[x.p] \in TokenRow
  BY <1>1, <1>3 DEF SessionInv, LoadedOf, HInv, TypeOK
<1>6. /\ ~Connects(x) => x.integration[x.p] # None
      /\ x.op \in {"validate", "refresh"} => x.oauth_token[x.p] # None
  BY <1>1, <1>2 DEF SessionInv, ShapeOf, Handles, Connects
<1>7. Connects(x) /\ x.integration[x.p] # None => x.integration[x.p].status = "disconnected"
  BY <1>1 DEF SessionInv, ConnectOf
<1> QED
  BY <1>1, <1>2, <1>3, <1>4, <1>5, <1>6, <1>7

\* The integration row a commit leaves: dated when disconnected, and shown as
\* connected or expired only where there are credentials or new ones.
LEMMA CommittedIntegration ==
  ASSUME HInv, NEW s \in Sessions, sess[s].pc = "flushed"
  PROVE  LET x == sess[s]
             row == Written(integrations[x.p], None, LoadedIntegration(x), NewIntegration(x))
         IN /\ row \in IntegrationRow
            /\ row.status = "disconnected" => row.disconnected_at
            /\ row.status \in {"connected", "expired"} =>
                 \/ oauth_tokens[x.p] # None
                 \/ x.op \in {"authenticate", "connect_code"}
<1> PICK x : x = sess[s]
  OBVIOUS
<1> PICK old : old = integrations[x.p]
  OBVIOUS
<1> PICK loaded : loaded = x.integration[x.p]
  OBVIOUS
<1> PICK row : row = Written(old, None, LoadedIntegration(x), NewIntegration(x))
  OBVIOUS
<1>1. /\ x.p \in Providers
      /\ x.op \in {"connect", "connect_code", "authenticate", "validate", "disconnect", "refresh"}
      /\ x.ok \in BOOLEAN /\ loaded \in IntegrationRow \cup {None}
      /\ loaded # None => old \in IntegrationRow
      /\ ~Connects(x) => loaded # None
      /\ Connects(x) /\ loaded # None => loaded.status = "disconnected"
      /\ x.op \in {"validate", "refresh"} => oauth_tokens[x.p] # None
  BY FlushedSession, HubNoneAssumption DEF Session
<1>2. /\ old # None /\ old.status = "disconnected" => old.disconnected_at
      /\ old # None /\ old.status \in {"connected", "expired"} => oauth_tokens[x.p] # None
  BY <1>1 DEF HInv, DisconnectedDated, ConnectedHasToken
<1>3. CASE Connects(x)
  <2>1. /\ NewIntegration(x) \in IntegrationRow
        /\ NewIntegration(x).status = IF x.op = "connect" THEN "pending" ELSE "connected"
    BY <1>3 DEF NewIntegration, Connects, IntegrationRow, Status
  <2>2. LoadedIntegration(x) = loaded
    BY <1>3 DEF LoadedIntegration, Connects
  <2>3. row \in IntegrationRow /\ row.status = NewIntegration(x).status
    <3>1. CASE loaded = None
      BY <2>1, <2>2, <3>1, HubNoneAssumption DEF Written
    <3>2. CASE loaded # None
      BY <1>1, <1>3, <2>1, <2>2, <3>2, WrittenIntegrationRow
    <3> QED
      BY <3>1, <3>2
  <2> QED
    BY <1>3, <2>1, <2>3 DEF Connects
<1>4. CASE ~Connects(x)
  <2>1. old \in IntegrationRow /\ loaded \in IntegrationRow
    BY <1>1, <1>4
  <2>2. CASE x.op = "disconnect"
    <3>1. /\ NewIntegration(x) \in IntegrationRow /\ LoadedIntegration(x) \in IntegrationRow
          /\ NewIntegration(x).status = "disconnected" /\ NewIntegration(x).disconnected_at = TRUE
          /\ LoadedIntegration(x).disconnected_at = FALSE
      BY <2>1, <2>2 DEF NewIntegration, LoadedIntegration, IntegrationRow, Status
    <3>2. /\ row \in IntegrationRow /\ row.status \in {"disconnected", old.status}
          /\ row.disconnected_at = TRUE
      BY <2>1, <3>1, WrittenIntegrationRow
    <3> QED
      BY <1>2, <2>1, <3>2, HubNoneAssumption
  <2>3. CASE x.op # "disconnect"
    <3>1. LoadedIntegration(x) = loaded
      BY <2>3 DEF LoadedIntegration
    <3>2. /\ NewIntegration(x) \in IntegrationRow
          /\ NewIntegration(x).status \in {"connected", "expired"}
          /\ NewIntegration(x).disconnected_at = loaded.disconnected_at
          /\ x.op = "authenticate" => NewIntegration(x).status = "connected"
      BY <1>1, <1>4, <2>1, <2>3
         DEF NewIntegration, ValidatedStatus, Connects, IntegrationRow, Status
    <3>3. /\ row \in IntegrationRow /\ row.status \in {"connected", "expired", old.status}
          /\ row.disconnected_at = old.disconnected_at
          /\ row.status \in {"connected", "expired"} \/ row.status = old.status
      BY <2>1, <3>1, <3>2, WrittenIntegrationRow
    <3> QED
      BY <1>1, <1>2, <1>4, <2>1, <2>3, <3>3, HubNoneAssumption DEF Connects
  <2> QED
    BY <2>2, <2>3
<1> QED
  BY <1>3, <1>4

\* A commit removes no token row, and an authorisation leaves one.
LEMMA CommittedToken ==
  ASSUME HInv, NEW s \in Sessions, sess[s].pc = "flushed"
  PROVE  LET x == sess[s]
             token == Written(oauth_tokens[x.p], None, LoadedToken(x), NewToken(x))
         IN /\ token \in TokenRow \cup {None}
            /\ oauth_tokens[x.p] # None => token # None
            /\ x.op \in {"authenticate", "connect_code"} => token # None
<1> PICK x : x = sess[s]
  OBVIOUS
<1> PICK old : old = oauth_tokens[x.p]
  OBVIOUS
<1> PICK loaded : loaded = x.oauth_token[x.p]
  OBVIOUS
<1> PICK token : token = Written(old, None, LoadedToken(x), NewToken(x))
  OBVIOUS
<1>1. /\ x.p \in Providers
      /\ x.op \in {"connect", "connect_code", "authenticate", "validate", "disconnect", "refresh"}
      /\ x.ok \in BOOLEAN /\ x.token \in Nat /\ loaded \in TokenRow \cup {None}
      /\ loaded # None => old \in TokenRow
      /\ x.op = "refresh" => loaded # None
  BY FlushedSession DEF Session
<1>2. old \in TokenRow \cup {None}
  BY <1>1 DEF HInv, TypeOK
<1>3. LoadedToken(x) \in TokenRow \cup {None} /\ (LoadedToken(x) = None <=> loaded = None)
  <2>1. CASE x.op = "disconnect" /\ loaded # None
    BY <1>1, <2>1, HubNoneAssumption DEF LoadedToken, TokenRow
  <2>2. CASE ~(x.op = "disconnect" /\ loaded # None)
    BY <1>1, <2>2 DEF LoadedToken
  <2> QED
    BY <2>1, <2>2
<1>4. /\ NewToken(x) \in TokenRow \cup {None}
      /\ x.op \in {"authenticate", "connect_code"} => NewToken(x) \in TokenRow
  <2>1. CASE x.op \in {"authenticate", "connect_code"}
    BY <1>1, <2>1 DEF NewToken, TokenRow
  <2>2. CASE x.op = "refresh"
    <3>1. loaded \in TokenRow
      BY <1>1, <2>2
    <3>2. CASE x.ok
      <4>1. NewToken(x) = [loaded EXCEPT !.token = x.token, !.refresh_attempts = 0]
        BY <2>2, <3>2 DEF NewToken
      <4>2. x.token \in Nat
        BY <1>1
      <4>3. NewToken(x) \in TokenRow
        BY ONLY <3>1, <4>1, <4>2, RenewedTokenRow
      <4> QED
        BY <2>2, <4>3
    <3>3. CASE ~x.ok
      <4>1. PICK n : n = IF loaded.refresh_attempts < MaxAttempts
                         THEN loaded.refresh_attempts + 1 ELSE loaded.refresh_attempts
        OBVIOUS
      <4>2. NewToken(x) = [loaded EXCEPT !.refresh_attempts = n]
        BY <2>2, <3>3, <4>1 DEF NewToken
      <4>3. n \in Nat
        BY <3>1, <4>1 DEF TokenRow
      <4> QED
        BY <2>2, <3>1, <4>2, <4>3 DEF TokenRow
    <3> QED
      BY <3>2, <3>3
  <2>3. CASE x.op = "disconnect"
    BY <1>1, <2>3 DEF NewToken, TokenRow
  <2>4. CASE x.op \in {"connect", "validate"}
    BY <2>4 DEF NewToken
  <2> QED
    BY <1>1, <2>1, <2>2, <2>3, <2>4
<1>5. CASE NewToken(x) = None
  BY <1>2, <1>4, <1>5, HubNoneAssumption DEF Written
<1>6. CASE NewToken(x) # None /\ loaded = None
  BY <1>3, <1>4, <1>6, HubNoneAssumption DEF Written
<1>7. CASE NewToken(x) # None /\ loaded # None
  BY <1>1, <1>3, <1>4, <1>7, WrittenTokenRow, HubNoneAssumption
<1> QED
  BY <1>5, <1>6, <1>7

\* A session that another one's commit passes by.
LEMMA LateSession ==
  ASSUME NEW t \in Sessions, NEW x \in Session, SessionInv(t, x)
  PROVE  LET y == [x EXCEPT !.late = TRUE] IN y \in Session /\ SessionInv(t, y)
<1> PICK y : y = [x EXCEPT !.late = TRUE]
  OBVIOUS
<1>1. /\ y \in Session /\ y.op = x.op /\ y.pc = x.pc /\ y.p = x.p /\ y.todo = x.todo
      /\ y.integration = x.integration /\ y.oauth_token = x.oauth_token
      /\ y.grants = x.grants
  BY DEF Session
<1>2. SessionInv(t, y)
  BY <1>1 DEF SessionInv, ShapeOf, ConnectOf, LoadedOf, Handles, Connects
<1> QED
  BY <1>1, <1>2

LEMMA CommitStep ==
  ASSUME HInv, NEW s \in Sessions, Commit(s)
  PROVE  HInv'
<1> PICK x : x = sess[s]
  OBVIOUS
<1> PICK p : p = x.p
  OBVIOUS
<1> PICK row : row = Written(integrations[p], None, LoadedIntegration(x), NewIntegration(x))
  OBVIOUS
<1> PICK token : token = Written(oauth_tokens[p], None, LoadedToken(x), NewToken(x))
  OBVIOUS
<1>1. x.pc = "flushed"
  BY DEF Commit
<1>2. /\ x \in Session /\ SessionInv(s, x) /\ p \in Providers
      /\ ~Connects(x) => integrations[p] # None
  BY <1>1, FlushedSession, HubNoneAssumption
<1>3. /\ row \in IntegrationRow
      /\ row.status = "disconnected" => row.disconnected_at
      /\ row.status \in {"connected", "expired"} =>
           oauth_tokens[p] # None \/ x.op \in {"authenticate", "connect_code"}
  BY <1>1, CommittedIntegration
<1>4. /\ token \in TokenRow \cup {None}
      /\ oauth_tokens[p] # None => token # None
      /\ x.op \in {"authenticate", "connect_code"} => token # None
  BY <1>1, CommittedToken
<1>5. /\ integrations' = [integrations EXCEPT ![p] = row]
      /\ oauth_tokens' = [oauth_tokens EXCEPT ![p] = token]
      /\ oauth_states' = IF x.op = "connect" THEN oauth_states \cup {p} ELSE oauth_states
      /\ due' \subseteq due
      /\ UNCHANGED <<refresh_lock, used, unreadable, issued, failures>>
  BY DEF Commit
<1>6. integration_permissions' =
        [integration_permissions EXCEPT
           ![p] = IF Connects(x) THEN GrantsAfter(x) ELSE integration_permissions[p]]
  BY DEF Commit, Connects
<1>7. DOMAIN sess' = Sessions /\ \A t \in Sessions :
        \/ t = s /\ sess'[t] = IF x.op = "refresh" THEN Swept(x, p) ELSE Idle
        \/ sess'[t] = sess[t]
        \/ sess'[t] = [sess[t] EXCEPT !.late = TRUE]
  BY DEF Commit
<1>8. /\ integrations \in [Providers -> IntegrationRow \cup {None}]
      /\ oauth_tokens \in [Providers -> TokenRow \cup {None}]
      /\ integration_permissions \in [Providers -> [Users -> Grant]]
  BY DEF HInv, TypeOK
<1>9. /\ integrations' \in [Providers -> IntegrationRow \cup {None}]
      /\ oauth_tokens' \in [Providers -> TokenRow \cup {None}]
      /\ \A q \in Providers : /\ integrations[q] # None => integrations'[q] # None
                              /\ oauth_tokens[q] # None => oauth_tokens'[q] # None
  BY <1>2, <1>3, <1>4, <1>5, <1>8, HubNoneAssumption
<1>10. GrantsAfter(x) \in [Users -> Grant]
  BY <1>2, <1>8 DEF GrantsAfter, Session
<1>11. integration_permissions' \in [Providers -> [Users -> Grant]]
  BY <1>2, <1>6, <1>8, <1>10
<1>12. \A t \in Sessions : sess'[t] \in Session /\ SessionInv(t, sess'[t])
  <2> SUFFICES ASSUME NEW t \in Sessions PROVE sess'[t] \in Session /\ SessionInv(t, sess'[t])
    OBVIOUS
  <2>1. sess[t] \in Session /\ SessionInv(t, sess[t])
    BY DEF HInv, TypeOK
  <2>2. CASE t = s /\ sess'[t] = IF x.op = "refresh" THEN Swept(x, p) ELSE Idle
    BY <1>1, <1>2, <2>2, IdleInv, SweptInv
  <2>3. CASE sess'[t] = sess[t]
    BY <2>1, <2>3
  <2>4. CASE sess'[t] = [sess[t] EXCEPT !.late = TRUE]
    BY <2>1, <2>4, LateSession
  <2> QED
    BY <1>7, <2>2, <2>3, <2>4
<1>13. \A t \in Sessions : SessionInv(t, sess[t])'
  BY <1>9, <1>12 DEF SessionInv, ShapeOf, ConnectOf, LoadedOf, Handles, Connects
<1>14. sess' \in [Sessions -> Session]
  BY <1>7, <1>12 DEF Commit
<1>15. TypeOK'
  BY <1>2, <1>5, <1>9, <1>11, <1>14 DEF HInv, TypeOK
<1>16. (TokenHasIntegration /\ StateHasIntegration)'
  BY <1>2, <1>3, <1>5, <1>8, <1>9, HubNoneAssumption
     DEF HInv, TypeOK, TokenHasIntegration, StateHasIntegration
<1>17. ConnectedHasToken'
  BY <1>2, <1>3, <1>4, <1>5, <1>8, <1>9 DEF HInv, ConnectedHasToken
<1>18. DisconnectedDated'
  BY <1>2, <1>3, <1>5, <1>8 DEF HInv, DisconnectedDated
<1>19. SomeoneConfigures'
  <2> SUFFICES ASSUME NEW q \in Providers, integrations'[q] # None
               PROVE  \E u \in Users : integration_permissions'[q][u] = "configure"
    BY DEF SomeoneConfigures
  <2>1. CASE q = p /\ Connects(x)
    <3>1. PICK u \in Users : x.grants[u] = "configure"
      BY <1>2, <2>1 DEF SessionInv, ConnectOf
    <3>2. GrantsAfter(x)[u] = "configure"
      BY <3>1 DEF GrantsAfter
    <3> QED
      BY <1>2, <1>6, <1>8, <2>1, <3>2
  <2>2. CASE ~(q = p /\ Connects(x))
    <3>1. integrations[q] # None
      BY <1>2, <1>5, <1>8, <2>2
    <3>2. integration_permissions'[q] = integration_permissions[q]
      BY <1>2, <1>6, <1>8, <2>2
    <3> QED
      BY <3>1, <3>2 DEF HInv, SomeoneConfigures
  <2> QED
    BY <2>1, <2>2
<1> QED
  BY <1>13, <1>15, <1>16, <1>17, <1>18, <1>19 DEF HInv
-----------------------------------------------------------------------------
(* Time, and all steps together *)

LEMMA ClockStep ==
  ASSUME HInv, UNCHANGED <<tables, sess, used, issued, failures>>,
         unreadable' \subseteq Nat, refresh_lock' \subseteq Providers, due' \subseteq Providers,
         oauth_states' \subseteq oauth_states
  PROVE  HInv'
<1>1. /\ integrations' = integrations /\ oauth_tokens' = oauth_tokens
      /\ integration_permissions' = integration_permissions
  BY DEF tables
<1>2. TypeOK'
  BY <1>1 DEF HInv, TypeOK
<1>3. (TokenHasIntegration /\ StateHasIntegration /\ ConnectedHasToken /\ DisconnectedDated
       /\ SomeoneConfigures)'
  BY <1>1 DEF HInv, TokenHasIntegration, StateHasIntegration, ConnectedHasToken,
              DisconnectedDated, SomeoneConfigures
<1>4. \A t \in Sessions : SessionInv(t, sess[t])'
  BY <1>1 DEF HInv, SessionInv, ShapeOf, ConnectOf, LoadedOf, Handles, Connects
<1> QED
  BY <1>2, <1>3, <1>4 DEF HInv

LEMMA FailStep ==
  ASSUME HInv, NEW s \in Sessions, Fail(s)
  PROVE  HInv'
<1>1. failures' \in 0..MaxFailures
  BY HubBoundsAssumption DEF HInv, TypeOK, Fail
<1> QED
  BY <1>1, ReleaseStep DEF Fail

LEMMA NextInv == HInv /\ [Next]_vars => HInv'
<1> SUFFICES ASSUME HInv, [Next]_vars PROVE HInv'
  OBVIOUS
<1>1. CASE \E s \in Sessions : Handle(s)
  BY <1>1, ConnectReadStep, ExistingReadStep, TokenReadStep, PermissionsClearStep,
     HandlerFlushStep DEF Handle
<1>2. CASE \E s \in Sessions : Refresh(s)
  BY <1>2, RefreshListStep, RefreshLoadStep, RefreshLockStep, RefreshFlushStep DEF Refresh
<1>3. CASE \E s \in Sessions : Commit(s) \/ Fail(s)
  BY <1>3, CommitStep, FailStep
<1>4. CASE Tick
  <2>1. PICK p \in Providers : TokenDue(p) \/ StateExpire(p)
    BY <1>4 DEF Tick
  <2>2. /\ UNCHANGED <<tables, sess, used, issued, failures>>
        /\ unreadable' \subseteq Nat /\ refresh_lock' \subseteq Providers
        /\ due' \subseteq Providers /\ oauth_states' \subseteq oauth_states
    BY <2>1 DEF HInv, TypeOK, TokenDue, StateExpire
  <2> QED
    BY <2>2, ClockStep
<1>5. CASE \E p \in Providers : LockExpire(p)
  <2>1. /\ UNCHANGED <<tables, sess, used, issued, failures>>
        /\ unreadable' \subseteq Nat /\ refresh_lock' \subseteq Providers
        /\ due' \subseteq Providers /\ oauth_states' \subseteq oauth_states
    BY <1>5 DEF HInv, TypeOK, LockExpire
  <2> QED
    BY <2>1, ClockStep
<1>6. CASE UNCHANGED vars
  <2>1. /\ UNCHANGED <<tables, sess, used, issued, failures>>
        /\ unreadable' \subseteq Nat /\ refresh_lock' \subseteq Providers
        /\ due' \subseteq Providers /\ oauth_states' \subseteq oauth_states
    BY <1>6 DEF vars, tables, HInv, TypeOK
  <2> QED
    BY <2>1, ClockStep
<1>7. CASE KeyReplaced
  <2>1. issued \in Nat /\ refresh_lock \subseteq Providers /\ due \subseteq Providers
    BY DEF HInv, TypeOK
  <2>2. /\ UNCHANGED <<tables, sess, used, issued, failures>>
        /\ unreadable' \subseteq Nat /\ refresh_lock' \subseteq Providers
        /\ due' \subseteq Providers /\ oauth_states' \subseteq oauth_states
    BY <1>7, <2>1 DEF KeyReplaced
  <2> QED
    BY <2>2, ClockStep
<1> QED
  BY <1>1, <1>2, <1>3, <1>4, <1>5, <1>6, <1>7 DEF Next, Step

LEMMA SpecInv == Spec => []HInv
BY InitInv, NextInv, PTL DEF Spec
-----------------------------------------------------------------------------
(* Theorems *)

\* The rows, locks, states and sessions of integration_service.py and
\* integration_refresh.py keep their types, whatever overlaps, fails or expires.
THEOREM HubTypeCorrect == Spec => []TypeOK
<1>1. HInv => TypeOK
  BY DEF HInv
<1> QED
  BY <1>1, SpecInv, PTL

\* connect, callback, validate, disconnect and refresh, interleaved in any way,
\* leave no integration connected or expired without a row of credentials.
THEOREM CredentialsCorrect == Spec => []ConnectedHasToken
<1>1. HInv => ConnectedHasToken
  BY DEF HInv
<1> QED
  BY <1>1, SpecInv, PTL

\* status and disconnected_at agree for a disconnected integration, although each
\* commit writes only the columns that differ from what its session loaded.
THEOREM DatesCorrect == Spec => []DisconnectedDated
<1>1. HInv => DisconnectedDated
  BY DEF HInv
<1> QED
  BY <1>1, SpecInv, PTL

\* Every integration has a user with the right to configure it, however many
\* connects replace its permissions at a time.
THEOREM ConfigurerCorrect == Spec => []SomeoneConfigures
<1>1. HInv => SomeoneConfigures
  BY DEF HInv
<1> QED
  BY <1>1, SpecInv, PTL
-----------------------------------------------------------------------------
(* The refresh lock, and credentials that were revoked *)

Holds(row, n) == IF row = None THEN FALSE ELSE row.token = n

\* A committed row of the provider, or one that a session has loaded, holds n.
TokenOf(n, q) ==
  Holds(oauth_tokens[q], n) \/ \E t \in Sessions : Holds(sess[t].oauth_token[q], n)

\* A session that holds a new pair of tokens it has not committed yet.
Pending(x) == x.pc = "flushed" /\ NewTokens(x)

\* Every pair of tokens belongs to one provider, and a pair that is not committed
\* is known to one session alone.
Fresh ==
  /\ \A q \in Providers, n \in Nat : TokenOf(n, q) => n <= issued
  /\ \A q, r \in Providers, n \in Nat : (TokenOf(n, q) /\ TokenOf(n, r)) => q = r
  /\ \A n \in used : n <= issued
  /\ \A s \in Sessions : Pending(sess[s]) =>
       /\ sess[s].token <= issued /\ sess[s].token \notin used
       /\ \A q \in Providers : ~TokenOf(sess[s].token, q)
  /\ \A s, t \in Sessions :
       (Pending(sess[s]) /\ Pending(sess[t]) /\ sess[s].token = sess[t].token) => s = t

\* The session is refreshing the token of this provider.
At(x, p) == x.pc \in {"locked", "flushed"} /\ x.p = p

LockHeld == \A w \in Workers, p \in Providers : At(sess[w], p) => p \in refresh_lock
Alone ==
  \A v, w \in Workers, p \in Providers : (At(sess[v], p) /\ At(sess[w], p)) => v = w
LockedUnused ==
  \A w \in Workers :
    sess[w].pc = "locked" => sess[w].oauth_token[sess[w].p].token \notin used

\* A token that was presented since a sweep listed it still has its lock.
ListedUnused ==
  \A w \in Workers : \A p \in sess[w].todo :
    (/\ sess[w].pc # "idle" /\ ~At(sess[w], p)
     /\ sess[w].oauth_token[p].token \in used) => p \in refresh_lock

\* A committed token that was presented is about to be replaced.
CurrentUnused ==
  \A q \in Providers :
    (oauth_tokens[q] # None /\ oauth_tokens[q].token \in used) =>
      \E w \in Workers : At(sess[w], q) /\ sess[w].pc = "flushed" /\ sess[w].ok

Once ==
  (LocksOutlive /\ failures = 0) =>
    LockHeld /\ Alone /\ LockedUnused /\ ListedUnused /\ CurrentUnused

RInv == HInv /\ Fresh /\ Once
-----------------------------------------------------------------------------
(* The tokens are fresh. *)

\* A step of one session that only rereads rows, or draws a new pair of tokens for
\* a pair it has loaded.
LEMMA FreshLocal ==
  ASSUME HInv, Fresh, NEW s \in Sessions, NEW y \in Session,
         oauth_tokens' = oauth_tokens, sess' = [sess EXCEPT ![s] = y],
         \A q \in Providers : y.oauth_token[q] \in
                                {None, sess[s].oauth_token[q], oauth_tokens[q]},
         issued' \in Nat, issued <= issued',
         \A n \in used' : n \in used \/ \E q \in Providers : n \in Nat /\ TokenOf(n, q),
         Pending(y) => y.token = issued + 1 /\ issued' = issued + 1
  PROVE  Fresh'
<1>1. sess'[s] = y /\ \A t \in Sessions \ {s} : sess'[t] = sess[t]
  BY DEF HInv, TypeOK
<1>2. ASSUME NEW q \in Providers, NEW n \in Nat, TokenOf(n, q)' PROVE TokenOf(n, q)
  <2>1. CASE Holds(oauth_tokens[q], n)
    BY <2>1 DEF TokenOf
  <2>2. ASSUME NEW t \in Sessions, Holds(sess'[t].oauth_token[q], n) PROVE TokenOf(n, q)
    <3>1. CASE t = s
      BY <1>1, <2>2, <3>1 DEF TokenOf, Holds
    <3>2. CASE t # s
      BY <1>1, <2>2, <3>2 DEF TokenOf
    <3> QED BY <3>1, <3>2
  <2> QED BY <1>2, <2>1, <2>2 DEF TokenOf, Holds
<1>3. /\ issued \in Nat /\ used \subseteq Nat
      /\ \A t \in Sessions : sess[t].token \in Nat
  BY DEF HInv, TypeOK, Session
<1>4. \A n \in used' : n <= issued /\ n \in Nat
  BY <1>3 DEF Fresh
<1>5. \A q \in Providers, n \in Nat : TokenOf(n, q)' => n <= issued'
  BY <1>2, <1>3 DEF Fresh
<1>6. \A q, r \in Providers, n \in Nat : (TokenOf(n, q)' /\ TokenOf(n, r)') => q = r
  BY <1>2 DEF Fresh
<1>7. ASSUME NEW t \in Sessions, Pending(sess'[t])
      PROVE  /\ sess'[t].token <= issued' /\ sess'[t].token \notin used'
             /\ \A q \in Providers, n \in Nat : n = sess'[t].token => ~TokenOf(n, q)'
  <2>1. CASE t = s
    <3>1. sess'[t].token = issued + 1 /\ issued' = issued + 1 /\ issued + 1 \in Nat
      BY <1>1, <1>3, <1>7, <2>1
    <3>2. sess'[t].token \notin used'
      BY <1>3, <1>4, <3>1
    <3>3. \A q \in Providers, n \in Nat : n = sess'[t].token => ~TokenOf(n, q)'
      BY <1>2, <1>3, <3>1 DEF Fresh
    <3> QED BY <3>1, <3>2, <3>3
  <2>2. CASE t # s
    <3>1. sess'[t] = sess[t] /\ Pending(sess[t]) /\ sess[t].token \in Nat
      BY <1>1, <1>3, <1>7, <2>2
    <3>2. /\ sess[t].token <= issued /\ sess[t].token \notin used
          /\ \A q \in Providers : ~TokenOf(sess[t].token, q)
      BY <3>1 DEF Fresh
    <3> QED BY <1>2, <1>3, <3>1, <3>2
  <2> QED BY <2>1, <2>2
<1>8. ASSUME NEW t \in Sessions, NEW u \in Sessions, Pending(sess'[t]), Pending(sess'[u]),
             sess'[t].token = sess'[u].token
      PROVE  t = u
  <2>1. \A a \in Sessions \ {s} : Pending(sess'[a]) =>
          Pending(sess[a]) /\ sess'[a].token = sess[a].token /\ sess[a].token <= issued
    BY <1>1 DEF Fresh
  <2>2. Pending(sess'[s]) => sess'[s].token = issued + 1
    BY <1>1
  <2> QED BY <1>3, <1>8, <2>1, <2>2 DEF Fresh
<1>9. \A n \in used' : n <= issued'
  BY <1>3, <1>4
<1>10. \A t \in Sessions : (Pending(sess[t])' <=> Pending(sess'[t])) /\ sess'[t].token \in Nat
  BY <1>1, <1>3 DEF Pending, NewTokens, Session
<1>11. ASSUME NEW t \in Sessions, Pending(sess[t])'
       PROVE  (/\ sess[t].token <= issued /\ sess[t].token \notin used
               /\ \A q \in Providers : ~TokenOf(sess[t].token, q))'
  <2>1. PICK n \in Nat : n = sess'[t].token
    BY <1>10
  <2>2. n <= issued' /\ n \notin used' /\ \A q \in Providers : ~TokenOf(n, q)'
    BY <1>7, <1>10, <1>11, <2>1
  <2> QED BY <2>1, <2>2 DEF TokenOf
<1>12. \A t, u \in Sessions :
         (Pending(sess[t]) /\ Pending(sess[u]) /\ sess[t].token = sess[u].token)' => t = u
  BY <1>8, <1>10
<1> QED BY <1>5, <1>6, <1>9, <1>11, <1>12 DEF Fresh

\* What a step of a request handler does to tokens and locks: it may reread a row
\* or draw a new pair.
Rereads(s, y) ==
  /\ y \in Session
  /\ \A q \in Providers : y.oauth_token[q] \in
                            {None, sess[s].oauth_token[q], oauth_tokens[q]}

LEMMA IdleRereads ==
  ASSUME NEW s \in Sessions
  PROVE  Rereads(s, Idle) /\ ~Pending(Idle)
BY IdleInv DEF Rereads, Pending, Idle, NoRows

LEMMA BeginRereads ==
  ASSUME HInv, NEW s \in Sessions, NEW p \in Providers,
         NEW op \in {"connect", "connect_code", "authenticate", "validate", "disconnect"},
         NEW grants \in [Users -> Grant], Begin(s, op, p, grants)
  PROVE  \E y : Rereads(s, y) /\ ~Pending(y) /\ sess' = [sess EXCEPT ![s] = y]
<1> DEFINE y == [Idle EXCEPT !.op = op, !.pc = "first", !.p = p,
                   !.integration[p] = integrations[p], !.grants = grants]
<1>1. integrations[p] \in IntegrationRow \cup {None}
  BY DEF HInv, TypeOK
<1>2. y \in Session
  BY <1>1 DEF Idle, Session, NoRows, NoGrants
<1>3. y.pc = "first" /\ y.oauth_token = NoRows
  BY DEF Idle
<1>4. Rereads(s, y) /\ ~Pending(y)
  BY <1>2, <1>3 DEF Rereads, Pending, NoRows
<1> QED BY <1>4 DEF Begin

LEMMA HandleRereads ==
  ASSUME HInv, NEW s \in Sessions, Handle(s)
  PROVE  /\ s \in Handlers /\ UNCHANGED <<tables, refresh_lock, used, failures>>
         /\ \E y : /\ Rereads(s, y) /\ sess' = [sess EXCEPT ![s] = y]
                   /\ IF Pending(y) THEN y.token = issued + 1 /\ issued' = issued + 1
                      ELSE issued' \in {issued, issued + 1}
<1> DEFINE x == sess[s]
<1>0. x \in Session /\ SessionInv(s, x) /\ issued \in Nat
  BY DEF HInv, TypeOK
<1>1. ASSUME NEW p \in Providers,
             ConnectRead(s, p) \/ CallbackRead(s, p) \/ ValidateRead(s, p) \/ DisconnectRead(s, p)
      PROVE  \E op \in {"connect", "connect_code", "authenticate", "validate", "disconnect"},
                grants \in [Users -> Grant] : Begin(s, op, p, grants)
  <2>1. CASE ConnectRead(s, p)
    <3>1. PICK op \in {"connect", "connect_code"}, u \in Users, allowed \in SUBSET Users :
            Begin(s, op, p, [v \in Users |-> IF v = u THEN "configure"
                                             ELSE IF v \in allowed THEN "access"
                                             ELSE "none"])
      BY <2>1 DEF ConnectRead
    <3> DEFINE grants == [v \in Users |-> IF v = u THEN "configure"
                                          ELSE IF v \in allowed THEN "access"
                                          ELSE "none"]
    <3>2. grants \in [Users -> Grant]
      BY DEF Grant
    <3>3. Begin(s, op, p, grants)
      BY <3>1
    <3> HIDE DEF grants
    <3> QED BY <3>2, <3>3
  <2>2. NoGrants \in [Users -> Grant]
    BY DEF NoGrants, Grant
  <2> QED BY <1>1, <2>1, <2>2 DEF CallbackRead, ValidateRead, DisconnectRead
<1>2. ASSUME NEW p \in Providers,
             ConnectRead(s, p) \/ CallbackRead(s, p) \/ ValidateRead(s, p) \/ DisconnectRead(s, p)
      PROVE  /\ s \in Handlers /\ UNCHANGED <<tables, outside>>
             /\ \E y : Rereads(s, y) /\ ~Pending(y) /\ sess' = [sess EXCEPT ![s] = y]
  <2>1. PICK op \in {"connect", "connect_code", "authenticate", "validate", "disconnect"},
             grants \in [Users -> Grant] : Begin(s, op, p, grants)
    BY <1>1, <1>2
  <2>2. s \in Handlers /\ UNCHANGED <<tables, outside>>
    BY <2>1 DEF Begin
  <2>3. \E y : Rereads(s, y) /\ ~Pending(y) /\ sess' = [sess EXCEPT ![s] = y]
    BY <2>1, BeginRereads
  <2> QED BY <2>2, <2>3
<1>3. CASE TokenRead(s)
  <2> DEFINE token == oauth_tokens[x.p]
             y == [x EXCEPT !.pc = "loaded", !.oauth_token[x.p] = token]
  <2>1. x.p \in Providers /\ token \in TokenRow \cup {None}
    BY <1>0, <1>3, HubSessionsAssumption DEF TokenRead, SessionInv, ShapeOf, Session, Handles,
       HInv, TypeOK
  <2>2. /\ y \in Session /\ y.pc = "loaded"
        /\ \A q \in Providers : y.oauth_token[q] \in {x.oauth_token[q], oauth_tokens[q]}
    BY <1>0, <2>1 DEF Session
  <2>3. Rereads(s, y) /\ ~Pending(y)
    BY <2>2 DEF Rereads, Pending
  <2>4. sess' = [sess EXCEPT ![s] = y] \/ sess' = [sess EXCEPT ![s] = Idle]
    BY <1>3 DEF TokenRead
  <2>5. s \in Handlers /\ UNCHANGED <<tables, outside>>
    BY <1>3 DEF TokenRead
  <2> QED BY <2>3, <2>4, <2>5, IdleRereads DEF outside
<1>4. CASE PermissionsClear(s)
  <2> DEFINE y == [x EXCEPT !.pc = "cleared"]
  <2>1. y \in Session /\ y.pc = "cleared" /\ y.oauth_token = x.oauth_token
    BY <1>0 DEF Session
  <2>2. Rereads(s, y) /\ ~Pending(y)
    BY <2>1 DEF Rereads, Pending
  <2>3. s \in Handlers /\ UNCHANGED <<tables, outside>> /\ sess' = [sess EXCEPT ![s] = y]
    BY <1>0, <1>4 DEF PermissionsClear, SessionInv, ShapeOf, Handles, Session
  <2> QED BY <2>2, <2>3 DEF outside
<1>5. CASE HandlerFlush(s)
  <2> DEFINE code == x.op \in {"authenticate", "connect_code"}
             z == Upserted(x)
  <2> PICK n \in Nat : n = IF code THEN issued + 1 ELSE 0
    BY <1>0
  <2> DEFINE y == [z EXCEPT !.pc = "flushed", !.token = n]
  <2>1. s \in Handlers /\ x.pc \in {"loaded", "cleared"}
    BY <1>5 DEF HandlerFlush
  <2>2. x.p \in Providers /\ x.op # "refresh"
    BY <1>0, <2>1, HubSessionsAssumption DEF SessionInv, ShapeOf, Session, Handles
  <2>3. oauth_tokens[x.p] \in TokenRow \cup {None}
    BY <2>2 DEF HInv, TypeOK
  <2>4. /\ z \in Session /\ z.op = x.op
        /\ \A q \in Providers : z.oauth_token[q] \in {x.oauth_token[q], oauth_tokens[q]}
    BY <1>0, <2>2, <2>3 DEF Upserted, Session
  <2> HIDE DEF z
  <2>5. y \in Session /\ y.op = x.op /\ y.token = n /\ y.oauth_token = z.oauth_token
    BY <2>4 DEF Session
  <2>6. Rereads(s, y) /\ (Pending(y) => code)
    BY <2>2, <2>4, <2>5 DEF Rereads, Pending, NewTokens
  <2>7. /\ sess' = [sess EXCEPT ![s] = y] /\ issued' = IF code THEN issued + 1 ELSE issued
        /\ UNCHANGED <<tables, refresh_lock, used, failures>>
    BY <1>5 DEF HandlerFlush, z
  <2> QED BY <2>1, <2>5, <2>6, <2>7
<1> QED BY <1>2, <1>3, <1>4, <1>5 DEF Handle, outside

\* A step that changes no token and draws none.
LEMMA FreshKept ==
  ASSUME HInv, Fresh, UNCHANGED <<oauth_tokens, sess, used, issued>>
  PROVE  Fresh'
BY DEF Fresh, TokenOf, Holds, Pending, NewTokens

LEMMA FreshHandle ==
  ASSUME HInv, Fresh, NEW s \in Sessions, Handle(s)
  PROVE  Fresh'
<1>1. issued \in Nat /\ used' = used /\ oauth_tokens' = oauth_tokens
  BY HandleRereads DEF HInv, TypeOK, tables
<1>2. PICK y : /\ Rereads(s, y) /\ sess' = [sess EXCEPT ![s] = y]
               /\ IF Pending(y) THEN y.token = issued + 1 /\ issued' = issued + 1
                  ELSE issued' \in {issued, issued + 1}
  BY HandleRereads
<1>3. issued' \in Nat /\ issued <= issued'
  BY <1>1, <1>2
<1> QED BY <1>1, <1>2, <1>3, FreshLocal DEF Rereads
-----------------------------------------------------------------------------
(* The steps of a worker, and what a commit leaves in the token row. *)

\* What the sweep of a worker has loaded for the providers it still has to do.
LEMMA Sweeping ==
  ASSUME HInv, NEW w \in Workers, NEW x, x = sess[w]
  PROVE  /\ w \in Sessions /\ x \in Session /\ SessionInv(w, x)
         /\ x.op \in {"none", "refresh"}
         /\ x.pc \in {"idle", "first", "listed", "locked", "flushed"}
         /\ x.op = "none" <=> x.pc = "idle"
         /\ x.pc # "idle" =>
              \A q \in x.todo : /\ q \in Providers /\ x.oauth_token[q] \in TokenRow
                                /\ x.oauth_token[q] # None /\ oauth_tokens[q] # None
         /\ x.pc \in {"locked", "flushed"} => x.p \in x.todo
<1>1. w \in Sessions /\ x \in Session /\ SessionInv(w, x)
  BY DEF HInv, TypeOK, Sessions
<1>2. x.op \in {"none", "refresh"}
  BY <1>1, HubSessionsAssumption DEF SessionInv, ShapeOf, Session, Handles
<1>3. x.pc \in {"idle", "first", "listed", "locked", "flushed"} /\ (x.op = "none" <=> x.pc = "idle")
  BY <1>1, <1>2 DEF SessionInv, ShapeOf
<1> QED BY <1>1, <1>2, <1>3 DEF SessionInv, ShapeOf, LoadedOf, Session

\* What stays with a sweep that goes on, and with one that is over.
LEMMA SweptRows ==
  ASSUME NEW x \in Session, NEW p
  PROVE  LET y == Swept(x, p)
         IN /\ y.pc \in {"idle", "listed"} /\ ~Pending(y)
            /\ \A q \in Providers : y.oauth_token[q] \in {None, x.oauth_token[q]}
            /\ \A q \in y.todo : q \in x.todo /\ q # p /\ y.oauth_token[q] = x.oauth_token[q]
<1>1. CASE x.todo = {p}
  BY <1>1 DEF Swept, Idle, NoRows, Pending
<1>2. CASE x.todo # {p}
  <2> PICK y : y = [x EXCEPT !.pc = "listed", !.p = None, !.todo = x.todo \ {p},
                             !.token = 0, !.ok = TRUE]
    OBVIOUS
  <2>1. Swept(x, p) = y
    BY <1>2 DEF Swept
  <2>2. y.pc = "listed" /\ y.todo = x.todo \ {p} /\ y.oauth_token = x.oauth_token
    BY DEF Session
  <2> QED BY <2>1, <2>2 DEF Pending
<1> QED BY <1>1, <1>2

LEMMA RefreshRereads ==
  ASSUME HInv, NEW w \in Sessions,
         RefreshList(w) \/ RefreshLoad(w) \/ \E p \in Providers : RefreshLock(w, p)
  PROVE  /\ UNCHANGED <<tables, used, issued, failures>>
         /\ \E y : Rereads(w, y) /\ ~Pending(y) /\ sess' = [sess EXCEPT ![w] = y]
<1> DEFINE x == sess[w]
<1>0. x \in Session /\ SessionInv(w, x)
  BY DEF HInv, TypeOK
<1>1. CASE RefreshList(w)
  <2> DEFINE found == {p \in Providers : Listed(p)}
             tokens == [p \in Providers |-> IF p \in found THEN oauth_tokens[p] ELSE None]
             y == [Idle EXCEPT !.op = "refresh", !.pc = "first", !.todo = found,
                               !.oauth_token = tokens]
  <2>1. /\ found \in SUBSET Providers
        /\ tokens \in [Providers -> TokenRow \cup {None}]
        /\ \A q \in Providers : tokens[q] \in {None, oauth_tokens[q]}
    BY DEF HInv, TypeOK
  <2>2. sess' = [sess EXCEPT ![w] = y] /\ UNCHANGED <<tables, outside>>
    BY <1>1 DEF RefreshList
  <2> HIDE DEF found, tokens
  <2>3. y \in Session /\ y.pc = "first" /\ y.oauth_token = tokens
    BY <2>1, IdleInv DEF Session, Idle
  <2> QED BY <2>1, <2>2, <2>3 DEF Rereads, Pending, outside
<1>2. CASE RefreshLoad(w)
  <2> DEFINE loaded == [p \in Providers |-> IF p \in x.todo THEN integrations[p] ELSE None]
             y == [x EXCEPT !.pc = "listed", !.integration = loaded]
  <2>1. loaded \in [Providers -> IntegrationRow \cup {None}]
    BY DEF HInv, TypeOK
  <2>2. sess' = [sess EXCEPT ![w] = y] /\ UNCHANGED <<tables, outside>>
    BY <1>0, <1>2 DEF RefreshLoad, Session
  <2> HIDE DEF loaded
  <2>3. y \in Session /\ y.pc = "listed" /\ y.oauth_token = x.oauth_token
    BY <1>0, <2>1 DEF Session
  <2> QED BY <2>2, <2>3 DEF Rereads, Pending, outside
<1>3. ASSUME NEW p \in Providers, RefreshLock(w, p)
      PROVE  /\ UNCHANGED <<tables, used, issued, failures>>
             /\ \E y : Rereads(w, y) /\ ~Pending(y) /\ sess' = [sess EXCEPT ![w] = y]
  <2>1. /\ x.pc = "listed" /\ p \in x.todo /\ UNCHANGED <<tables, used, issued, failures>>
        /\ sess' = [sess EXCEPT ![w] = IF p \in refresh_lock THEN Swept(x, p)
                                       ELSE [x EXCEPT !.pc = "locked", !.p = p]]
    BY <1>3 DEF RefreshLock
  <2>2. CASE p \in refresh_lock
    <3>1. x.op = "refresh"
      BY <1>0, <2>1 DEF SessionInv, ShapeOf, Handles, Session
    <3>2. Swept(x, p) \in Session
      BY <1>0, <2>1, <3>1, SweptInv
    <3>3. Rereads(w, Swept(x, p)) /\ ~Pending(Swept(x, p))
      BY <1>0, <3>2, SweptRows DEF Rereads
    <3>4. sess' = [sess EXCEPT ![w] = Swept(x, p)]
      BY <2>1, <2>2
    <3> QED BY <2>1, <3>3, <3>4
  <2>3. CASE p \notin refresh_lock
    <3> DEFINE y == [x EXCEPT !.pc = "locked", !.p = p]
    <3>1. y \in Session /\ y.pc = "locked" /\ y.oauth_token = x.oauth_token
      BY <1>0 DEF Session
    <3> QED BY <2>1, <2>3, <3>1 DEF Rereads, Pending
  <2> QED BY <2>2, <2>3
<1> QED BY <1>1, <1>2, <1>3

\* The token that a flush presents to the provider, and what it leaves in the session.
LEMMA Presents ==
  ASSUME HInv, NEW w \in Sessions, RefreshFlush(w), NEW x, x = sess[w]
  PROVE  \E ok \in BOOLEAN, y \in Session :
           /\ w \in Workers /\ x.pc = "locked" /\ x.p \in Providers /\ x.p \in x.todo
           /\ x.oauth_token[x.p] \in TokenRow
           /\ sess' = [sess EXCEPT ![w] = y]
           /\ y.pc = "flushed" /\ y.p = x.p /\ y.todo = x.todo /\ y.ok = ok
           /\ y.op = "refresh" /\ y.oauth_token = x.oauth_token
           /\ used' = IF ok THEN used \cup {x.oauth_token[x.p].token} ELSE used
           /\ issued' = IF ok THEN issued + 1 ELSE issued
           /\ ok => y.token = issued + 1
           /\ UNCHANGED <<tables, refresh_lock, failures>>
<1>1. x \in Session /\ SessionInv(w, x) /\ x.pc = "locked" /\ issued \in Nat
  BY DEF HInv, TypeOK, RefreshFlush
<1>2. w \in Workers /\ x.op = "refresh" /\ x.p \in x.todo /\ x.p \in Providers
  BY <1>1 DEF SessionInv, ShapeOf, Handles, Session
<1>3. x.oauth_token[x.p] \in TokenRow
  BY <1>1, <1>2 DEF SessionInv, ShapeOf, Session
<1>4. PICK ok \in BOOLEAN :
        /\ sess' = [sess EXCEPT ![w] = [x EXCEPT !.pc = "flushed", !.ok = ok,
                                         !.token = IF ok THEN issued + 1 ELSE 0]]
        /\ used' = IF ok THEN used \cup {x.oauth_token[x.p].token} ELSE used
        /\ issued' = IF ok THEN issued + 1 ELSE issued
        /\ UNCHANGED <<tables, refresh_lock, failures>>
  BY DEF RefreshFlush
<1> PICK n \in Nat : n = IF ok THEN issued + 1 ELSE 0
  BY <1>1
<1> DEFINE y == [x EXCEPT !.pc = "flushed", !.ok = ok, !.token = n]
<1>5. /\ y \in Session /\ y.pc = "flushed" /\ y.p = x.p /\ y.todo = x.todo /\ y.ok = ok
      /\ y.op = "refresh" /\ y.oauth_token = x.oauth_token /\ y.token = n
  BY <1>1, <1>2 DEF Session
<1> QED BY <1>1, <1>2, <1>3, <1>4, <1>5

LEMMA FreshRefresh ==
  ASSUME HInv, Fresh, NEW w \in Sessions, Refresh(w)
  PROVE  Fresh'
<1>0. issued \in Nat
  BY DEF HInv, TypeOK
<1>1. CASE RefreshList(w) \/ RefreshLoad(w) \/ \E p \in Providers : RefreshLock(w, p)
  <2>1. UNCHANGED <<oauth_tokens, used, issued>>
    BY <1>1, RefreshRereads DEF tables
  <2> QED BY <1>0, <1>1, <2>1, RefreshRereads, FreshLocal DEF Rereads
<1>2. CASE RefreshFlush(w)
  <2> DEFINE x == sess[w]
  <2>1. PICK ok \in BOOLEAN, y \in Session :
           /\ x.p \in Providers /\ x.oauth_token[x.p] \in TokenRow
           /\ sess' = [sess EXCEPT ![w] = y]
           /\ y.ok = ok /\ y.op = "refresh" /\ y.oauth_token = x.oauth_token
           /\ used' = IF ok THEN used \cup {x.oauth_token[x.p].token} ELSE used
           /\ issued' = IF ok THEN issued + 1 ELSE issued
           /\ ok => y.token = issued + 1
           /\ oauth_tokens' = oauth_tokens
    BY <1>2, Presents DEF tables
  <2>2. Pending(y) => ok
    BY <2>1 DEF Pending, NewTokens
  <2>3. x.oauth_token[x.p].token \in Nat /\ TokenOf(x.oauth_token[x.p].token, x.p)
    BY <2>1, HubNoneAssumption DEF TokenRow, TokenOf, Holds
  <2>4. \A n \in used' : n \in used \/ \E q \in Providers : n \in Nat /\ TokenOf(n, q)
    BY <2>1, <2>3
  <2>5. issued' \in Nat /\ issued <= issued'
    BY <1>0, <2>1
  <2> QED BY <1>0, <2>1, <2>2, <2>4, <2>5, FreshLocal
<1> QED BY <1>1, <1>2 DEF Refresh

\* A commit writes a new pair, or leaves the pair that is committed.
LEMMA CommitPair ==
  ASSUME HInv, Fresh, NEW s \in Sessions, sess[s].pc = "flushed", NEW x, x = sess[s],
         NEW token, token = Written(oauth_tokens[x.p], None, LoadedToken(x), NewToken(x))
  PROVE  /\ NewTokens(x) => token # None /\ token.token = x.token
         /\ ~NewTokens(x) /\ token # None =>
              oauth_tokens[x.p] # None /\ token.token = oauth_tokens[x.p].token
<1> DEFINE old == oauth_tokens[x.p]
           loaded == x.oauth_token[x.p]
           new == NewToken(x)
<1>1. /\ x \in Session /\ x.p \in Providers
      /\ x.op \in {"connect", "connect_code", "authenticate", "validate", "disconnect", "refresh"}
      /\ x.ok \in BOOLEAN /\ x.token \in Nat /\ loaded \in TokenRow \cup {None}
      /\ loaded # None => old \in TokenRow
      /\ x.op = "refresh" => loaded # None
  BY FlushedSession DEF Session
<1>2. old \in TokenRow \cup {None}
  BY <1>1 DEF HInv, TypeOK
<1>3. DOMAIN old = {"token", "revoked_at", "refresh_attempts"} \/ old = None
  BY <1>2 DEF TokenRow
<1>4. CASE x.op \in {"authenticate", "connect_code"} \/ (x.op = "refresh" /\ x.ok)
  <2>1. Pending(x) /\ NewTokens(x)
    BY <1>4 DEF Pending, NewTokens
  <2>2. LoadedToken(x) = loaded
    BY <1>4 DEF LoadedToken
  <2>3. loaded # None => loaded.token # x.token
    BY <1>1, <2>1 DEF Fresh, TokenOf, Holds
  <2>4. new \in TokenRow /\ new.token = x.token
    <3>1. CASE x.op \in {"authenticate", "connect_code"}
      BY <1>1, <3>1 DEF NewToken, TokenRow
    <3>2. CASE x.op = "refresh" /\ x.ok
      <4>1. new = [loaded EXCEPT !.token = x.token, !.refresh_attempts = 0]
        BY <3>2 DEF NewToken
      <4>2. loaded \in TokenRow
        BY <1>1, <3>2
      <4> HIDE DEF new, loaded
      <4> QED BY <1>1, <4>1, <4>2, RenewedTokenRow DEF TokenRow
    <3> QED BY <1>4, <3>1, <3>2
  <2>5. CASE loaded = None
    BY <2>1, <2>2, <2>4, <2>5, HubNoneAssumption DEF Written
  <2>6. CASE loaded # None
    <3>1. old \in TokenRow /\ loaded \in TokenRow
      BY <1>1, <2>6
    <3>2. token \in TokenRow
      BY <2>2, <2>4, <3>1, WrittenTokenRow
    <3>3. token = [f \in DOMAIN old |-> IF new[f] = loaded[f] THEN old[f] ELSE new[f]]
      BY <2>2, <2>4, <2>6, HubNoneAssumption DEF Written
    <3>4. "token" \in DOMAIN old
      BY <3>1 DEF TokenRow
    <3> QED BY <2>1, <2>3, <2>4, <2>6, <3>2, <3>3, <3>4, HubNoneAssumption
  <2> QED BY <2>5, <2>6
<1>5. CASE ~(x.op \in {"authenticate", "connect_code"} \/ (x.op = "refresh" /\ x.ok))
  <2>1. ~NewTokens(x)
    BY <1>5 DEF NewTokens
  <2>2. CASE new = None
    BY <2>1, <2>2 DEF Written
  <2>3. CASE new # None
    <3>1. loaded # None
      BY <1>1, <1>5, <2>3 DEF NewToken
    <3>2. loaded \in TokenRow /\ old \in TokenRow
      BY <1>1, <3>1
    <3>3. CASE x.op = "disconnect"
      <4>1. /\ new = [loaded EXCEPT !.revoked_at = TRUE]
            /\ LoadedToken(x) = [loaded EXCEPT !.revoked_at = FALSE]
        BY <3>1, <3>3 DEF NewToken, LoadedToken
      <4>2. /\ new \in TokenRow /\ LoadedToken(x) \in TokenRow
            /\ new.token = LoadedToken(x).token
        BY <3>2, <4>1 DEF TokenRow
      <4> QED
        BY <2>1, <2>3, <3>2, <4>2, HubNoneAssumption DEF Written, TokenRow
    <3>4. CASE x.op = "refresh"
      <4> PICK n : n = IF loaded.refresh_attempts < MaxAttempts
                       THEN loaded.refresh_attempts + 1 ELSE loaded.refresh_attempts
        OBVIOUS
      <4>1. /\ new = [loaded EXCEPT !.refresh_attempts = n]
            /\ LoadedToken(x) = loaded
        BY <1>5, <3>4 DEF NewToken, LoadedToken
      <4>2. new \in TokenRow /\ new.token = loaded.token
        BY <3>2, <4>1 DEF TokenRow
      <4> QED
        BY <2>1, <2>3, <3>2, <4>1, <4>2, HubNoneAssumption DEF Written, TokenRow
    <3> QED BY <1>1, <1>5, <2>3, <3>3, <3>4 DEF NewToken
  <2> QED BY <2>2, <2>3
<1> QED BY <1>4, <1>5

\* What a commit does to the sessions and the tokens.
LEMMA Commits ==
  ASSUME HInv, Fresh, NEW s \in Sessions, Commit(s), NEW x, x = sess[s]
  PROVE  /\ x \in Session /\ SessionInv(s, x) /\ x.pc = "flushed" /\ x.p \in Providers
         /\ \A q \in Providers : q # x.p => oauth_tokens'[q] = oauth_tokens[q]
         /\ NewTokens(x) => oauth_tokens'[x.p] # None /\ oauth_tokens'[x.p].token = x.token
         /\ (~NewTokens(x) /\ oauth_tokens'[x.p] # None) =>
              /\ oauth_tokens[x.p] # None
              /\ oauth_tokens'[x.p].token = oauth_tokens[x.p].token
         /\ oauth_tokens[x.p] # None => oauth_tokens'[x.p] # None
         /\ sess'[s] = IF x.op = "refresh" THEN Swept(x, x.p) ELSE Idle
         /\ \A t \in Sessions \ {s} :
              \/ sess'[t] = sess[t]
              \/ sess[t].pc = "cleared" /\ sess'[t] = [sess[t] EXCEPT !.late = TRUE]
         /\ UNCHANGED <<refresh_lock, used, issued, failures>>
<1>1. x.pc = "flushed"
  BY DEF Commit
<1>2. x \in Session /\ SessionInv(s, x) /\ x.p \in Providers
  BY <1>1, FlushedSession
<1> PICK token : token = Written(oauth_tokens[x.p], None, LoadedToken(x), NewToken(x))
  OBVIOUS
<1>3. /\ NewTokens(x) => token # None /\ token.token = x.token
      /\ (~NewTokens(x) /\ token # None) =>
           oauth_tokens[x.p] # None /\ token.token = oauth_tokens[x.p].token
  BY <1>1, CommitPair
<1>4. oauth_tokens[x.p] # None => token # None
  BY <1>1, CommittedToken
<1>5. /\ oauth_tokens' = [oauth_tokens EXCEPT ![x.p] = token]
      /\ UNCHANGED <<refresh_lock, used, issued, failures>>
  BY DEF Commit
<1>6. /\ oauth_tokens'[x.p] = token
      /\ \A q \in Providers : q # x.p => oauth_tokens'[q] = oauth_tokens[q]
  BY <1>2, <1>5 DEF HInv, TypeOK
<1>7. /\ sess'[s] = IF x.op = "refresh" THEN Swept(x, x.p) ELSE Idle
      /\ \A t \in Sessions \ {s} :
           \/ sess'[t] = sess[t]
           \/ sess[t].pc = "cleared" /\ sess'[t] = [sess[t] EXCEPT !.late = TRUE]
  BY DEF Commit
<1> QED BY <1>1, <1>2, <1>3, <1>4, <1>5, <1>6, <1>7

LEMMA FreshCommit ==
  ASSUME HInv, Fresh, NEW s \in Sessions, Commit(s)
  PROVE  Fresh'
<1> DEFINE x == sess[s]
<1>1. /\ x \in Session /\ SessionInv(s, x) /\ x.pc = "flushed" /\ x.p \in Providers
      /\ \A q \in Providers : q # x.p => oauth_tokens'[q] = oauth_tokens[q]
      /\ NewTokens(x) => oauth_tokens'[x.p] # None /\ oauth_tokens'[x.p].token = x.token
      /\ (~NewTokens(x) /\ oauth_tokens'[x.p] # None) =>
           /\ oauth_tokens[x.p] # None
           /\ oauth_tokens'[x.p].token = oauth_tokens[x.p].token
      /\ sess'[s] = IF x.op = "refresh" THEN Swept(x, x.p) ELSE Idle
      /\ \A t \in Sessions \ {s} :
           \/ sess'[t] = sess[t]
           \/ sess[t].pc = "cleared" /\ sess'[t] = [sess[t] EXCEPT !.late = TRUE]
      /\ UNCHANGED <<refresh_lock, used, issued, failures>>
  BY Commits
<1>2. /\ issued \in Nat /\ used \subseteq Nat
      /\ \A t \in Sessions : sess[t] \in Session /\ sess[t].token \in Nat
  BY DEF HInv, TypeOK, Session
<1>3. /\ \A q \in Providers : sess'[s].oauth_token[q] \in {None, x.oauth_token[q]}
      /\ ~Pending(sess'[s])
  <2>1. CASE x.op = "refresh"
    BY <1>1, <2>1, SweptRows
  <2>2. CASE x.op # "refresh"
    <3>1. sess'[s] = Idle
      BY <1>1, <2>2
    <3> QED BY <3>1 DEF Idle, NoRows, Pending
  <2> QED BY <2>1, <2>2
<1>4. \A t \in Sessions \ {s} :
        /\ sess'[t].oauth_token = sess[t].oauth_token /\ sess'[t].token = sess[t].token
        /\ Pending(sess'[t]) <=> Pending(sess[t])
  <2> SUFFICES ASSUME NEW t \in Sessions \ {s}, sess[t].pc = "cleared",
                      sess'[t] = [sess[t] EXCEPT !.late = TRUE]
               PROVE  /\ sess'[t].oauth_token = sess[t].oauth_token
                      /\ sess'[t].token = sess[t].token
                      /\ Pending(sess'[t]) <=> Pending(sess[t])
    BY <1>1
  <2>1. sess[t] \in Session
    BY <1>2
  <2>2. /\ sess'[t].oauth_token = sess[t].oauth_token /\ sess'[t].token = sess[t].token
        /\ sess'[t].pc = sess[t].pc
    BY <2>1 DEF Session
  <2> QED BY <2>2 DEF Pending
<1>5. ASSUME NEW q \in Providers, NEW n \in Nat, TokenOf(n, q)'
      PROVE  TokenOf(n, q) \/ (Pending(x) /\ n = x.token /\ q = x.p)
  <2>1. CASE Holds(oauth_tokens'[q], n)
    BY <1>1, <2>1 DEF TokenOf, Holds, Pending
  <2>2. ASSUME NEW t \in Sessions, Holds(sess'[t].oauth_token[q], n) PROVE TokenOf(n, q)
    <3>1. CASE t = s
      BY <1>3, <2>2, <3>1 DEF TokenOf, Holds
    <3>2. CASE t # s
      BY <1>4, <2>2, <3>2 DEF TokenOf
    <3> QED BY <3>1, <3>2
  <2> QED BY <1>5, <2>1, <2>2 DEF TokenOf, Holds
<1>6. Pending(x) => /\ x.token <= issued /\ x.token \notin used
                    /\ \A q \in Providers : ~TokenOf(x.token, q)
  BY DEF Fresh
<1>7. \A q \in Providers, n \in Nat : TokenOf(n, q)' => n <= issued'
  BY <1>1, <1>5, <1>6 DEF Fresh
<1>8. \A q, r \in Providers, n \in Nat : (TokenOf(n, q) /\ TokenOf(n, r))' => q = r
  BY <1>5, <1>6 DEF Fresh
<1>9. \A n \in used' : n <= issued'
  BY <1>1 DEF Fresh
<1>10. \A t \in Sessions : Pending(sess[t])' =>
         t # s /\ Pending(sess[t]) /\ sess'[t].token = sess[t].token
  BY <1>3, <1>4 DEF Pending, NewTokens
<1>11. ASSUME NEW t \in Sessions, Pending(sess[t])'
       PROVE  (/\ sess[t].token <= issued /\ sess[t].token \notin used
               /\ \A q \in Providers : ~TokenOf(sess[t].token, q))'
  <2>1. PICK n \in Nat : n = sess[t].token /\ n = sess'[t].token
    BY <1>2, <1>10, <1>11
  <2>2. n <= issued /\ n \notin used /\ \A q \in Providers : ~TokenOf(n, q)
    BY <1>10, <1>11, <2>1 DEF Fresh
  <2>3. ~(Pending(x) /\ n = x.token)
    BY <1>10, <1>11, <2>1 DEF Fresh
  <2>4. \A q \in Providers : ~TokenOf(n, q)'
    BY <1>5, <2>2, <2>3
  <2> QED BY <1>1, <2>1, <2>2, <2>4 DEF TokenOf
<1>12. \A t, u \in Sessions :
         (Pending(sess[t]) /\ Pending(sess[u]) /\ sess[t].token = sess[u].token)' => t = u
  BY <1>10 DEF Fresh
<1> QED BY <1>7, <1>8, <1>9, <1>11, <1>12 DEF Fresh

LEMMA FreshNext == HInv /\ Fresh /\ [Next]_vars => Fresh'
<1> SUFFICES ASSUME HInv, Fresh, [Next]_vars PROVE Fresh'
  OBVIOUS
<1>1. ASSUME NEW s \in Sessions, Fail(s) PROVE Fresh'
  <2>1. /\ sess' = [sess EXCEPT ![s] = Idle] /\ UNCHANGED <<oauth_tokens, used, issued>>
        /\ issued \in Nat
    BY <1>1 DEF Fail, tables, HInv, TypeOK
  <2>2. Rereads(s, Idle) /\ ~Pending(Idle) /\ issued' \in Nat /\ issued <= issued'
    BY <2>1, IdleRereads
  <2> QED BY <2>1, <2>2, FreshLocal DEF Rereads
<1>2. CASE Tick \/ KeyReplaced \/ (\E p \in Providers : LockExpire(p)) \/ UNCHANGED vars
  <2>1. UNCHANGED <<oauth_tokens, sess, used, issued>>
    BY <1>2 DEF Tick, KeyReplaced, TokenDue, StateExpire, LockExpire, vars, tables
  <2> QED BY <2>1, FreshKept
<1> QED BY <1>1, <1>2, FreshHandle, FreshRefresh, FreshCommit DEF Next, Step
-----------------------------------------------------------------------------
(* The lock keeps sweeps of one token apart. *)

Apart == LockHeld /\ Alone /\ LockedUnused /\ ListedUnused /\ CurrentUnused

\* A step of no worker, which makes no token current that was presented.
LEMMA OnceOthers ==
  ASSUME Once, \A w \in Workers : sess'[w] = sess[w],
         UNCHANGED <<used, refresh_lock>>, failures' = 0 => failures = 0,
         \A q \in Providers : (oauth_tokens'[q] # None /\ oauth_tokens'[q].token \in used) =>
           oauth_tokens[q] # None /\ oauth_tokens[q].token \in used
  PROVE  Once'
<1> SUFFICES ASSUME LocksOutlive, failures' = 0 PROVE Apart'
  BY DEF Once, Apart
<1>1. LockHeld /\ Alone /\ LockedUnused /\ ListedUnused /\ CurrentUnused
  BY DEF Once
<1>2. LockHeld' /\ Alone' /\ LockedUnused' /\ ListedUnused'
  BY <1>1 DEF LockHeld, Alone, LockedUnused, ListedUnused, At
<1>3. CurrentUnused'
  BY <1>1 DEF CurrentUnused, At
<1> QED BY <1>2, <1>3 DEF Apart

\* A step of a worker that has no refresh under way and does not flush one: it may
\* take a lock that nobody holds, for a token that was not presented.
LEMMA OnceWorker ==
  ASSUME HInv, Once, LocksOutlive, failures = 0, NEW w \in Workers, NEW y \in Session,
         UNCHANGED <<oauth_tokens, used>>, sess' = [sess EXCEPT ![w] = y],
         refresh_lock \subseteq refresh_lock',
         sess[w].pc \notin {"locked", "flushed"}, y.pc # "flushed",
         y.pc = "locked" =>
           /\ y.p \in refresh_lock' \ refresh_lock
           /\ y.oauth_token[y.p].token \notin used,
         \A q \in y.todo : (~At(y, q) /\ y.oauth_token[q].token \in used) =>
           q \in refresh_lock'
  PROVE  Apart'
<1>1. sess'[w] = y /\ \A v \in Workers \ {w} : sess'[v] = sess[v]
  BY DEF HInv, TypeOK, Sessions
<1>2. LockHeld /\ Alone /\ LockedUnused /\ ListedUnused /\ CurrentUnused
  BY DEF Once
<1>3. LockHeld'
  BY <1>1, <1>2 DEF LockHeld, At
<1>4. Alone'
  <2> SUFFICES ASSUME NEW u \in Workers, NEW v \in Workers, NEW q \in Providers,
                      At(sess'[u], q), At(sess'[v], q)
               PROVE  u = v
    BY DEF Alone, At
  <2>1. \A t \in Workers \ {w} : At(sess'[t], q) => q \in refresh_lock
    BY <1>1, <1>2 DEF LockHeld
  <2>2. At(sess'[w], q) => q \notin refresh_lock
    BY <1>1 DEF At
  <2> QED BY <1>1, <1>2, <2>1, <2>2 DEF Alone
<1>5. LockedUnused'
  BY <1>1, <1>2 DEF LockedUnused
<1>6. ListedUnused'
  BY <1>1, <1>2 DEF ListedUnused, At
<1>7. CurrentUnused'
  BY <1>1, <1>2 DEF CurrentUnused, At
<1> QED BY <1>3, <1>4, <1>5, <1>6, <1>7 DEF Apart

LEMMA OnceRefreshList ==
  ASSUME RInv, LocksOutlive, failures = 0, NEW w \in Workers, RefreshList(w)
  PROVE  Apart'
<1> DEFINE found == {p \in Providers : Listed(p)}
           tokens == [p \in Providers |-> IF p \in found THEN oauth_tokens[p] ELSE None]
           y == [Idle EXCEPT !.op = "refresh", !.pc = "first", !.todo = found,
                             !.oauth_token = tokens]
<1>1. /\ found \in SUBSET Providers
      /\ tokens \in [Providers -> TokenRow \cup {None}]
      /\ \A q \in found : tokens[q] = oauth_tokens[q] /\ oauth_tokens[q] # None
  BY DEF RInv, HInv, TypeOK, Listed
<1>2. /\ sess' = [sess EXCEPT ![w] = y] /\ UNCHANGED <<tables, outside>>
      /\ sess[w].pc = "idle"
  BY DEF RefreshList
<1> HIDE DEF found, tokens
<1>3. y \in Session /\ y.pc = "first" /\ y.oauth_token = tokens /\ y.todo = found
  BY <1>1, IdleInv DEF Session, Idle, Sessions
<1>4. ASSUME NEW q \in y.todo, y.oauth_token[q].token \in used PROVE q \in refresh_lock
  <2>1. q \in Providers /\ oauth_tokens[q] # None /\ oauth_tokens[q].token \in used
    BY <1>1, <1>3, <1>4
  <2> QED BY <2>1 DEF RInv, Once, CurrentUnused, LockHeld
<1>5. UNCHANGED <<oauth_tokens, used, refresh_lock>>
  BY <1>2 DEF tables, outside
<1> QED BY <1>2, <1>3, <1>4, <1>5, OnceWorker DEF RInv

LEMMA OnceRefreshLoad ==
  ASSUME RInv, LocksOutlive, failures = 0, NEW w \in Workers, RefreshLoad(w)
  PROVE  Apart'
<1> DEFINE x == sess[w]
           loaded == [p \in Providers |-> IF p \in x.todo THEN integrations[p] ELSE None]
           y == [x EXCEPT !.pc = "listed", !.integration = loaded]
<1>0. x \in Session /\ x.pc = "first"
  BY Sweeping DEF RInv, RefreshLoad
<1>1. loaded \in [Providers -> IntegrationRow \cup {None}]
  BY DEF RInv, HInv, TypeOK
<1>2. sess' = [sess EXCEPT ![w] = y] /\ UNCHANGED <<tables, outside>>
  BY <1>0 DEF RefreshLoad, Session
<1> HIDE DEF loaded
<1>3. y \in Session /\ y.pc = "listed" /\ y.oauth_token = x.oauth_token /\ y.todo = x.todo
  BY <1>0, <1>1 DEF Session
<1>4. \A q \in y.todo : y.oauth_token[q].token \in used => q \in refresh_lock
  BY <1>0, <1>3 DEF RInv, Once, ListedUnused, At
<1>5. UNCHANGED <<oauth_tokens, used, refresh_lock>>
  BY <1>2 DEF tables, outside
<1> QED BY <1>0, <1>2, <1>3, <1>4, <1>5, OnceWorker DEF RInv

LEMMA OnceRefreshLock ==
  ASSUME RInv, LocksOutlive, failures = 0, NEW w \in Workers, NEW p \in Providers,
         RefreshLock(w, p)
  PROVE  Apart'
<1> DEFINE x == sess[w]
<1>1. /\ x.pc = "listed" /\ p \in x.todo /\ UNCHANGED <<oauth_tokens, used>>
      /\ refresh_lock' = refresh_lock \cup {p}
      /\ sess' = [sess EXCEPT ![w] = IF p \in refresh_lock THEN Swept(x, p)
                                     ELSE [x EXCEPT !.pc = "locked", !.p = p]]
  BY DEF RefreshLock, tables
<1>2. x \in Session /\ SessionInv(w, x) /\ w \in Sessions /\ x.op = "refresh"
  BY <1>1, Sweeping DEF RInv
<1>3. \A q \in x.todo : x.oauth_token[q].token \in used => q \in refresh_lock
  BY <1>1 DEF RInv, Once, ListedUnused, At
<1>4. CASE p \in refresh_lock
  <2> PICK y : y = Swept(x, p)
    OBVIOUS
  <2>1. y \in Session
    BY <1>1, <1>2, SweptInv
  <2>2. /\ y.pc \in {"idle", "listed"}
        /\ \A q \in y.todo : q \in x.todo /\ y.oauth_token[q] = x.oauth_token[q]
    BY <1>2, SweptRows
  <2>3. sess' = [sess EXCEPT ![w] = y]
    BY <1>1, <1>4
  <2> QED BY <1>1, <1>3, <2>1, <2>2, <2>3, OnceWorker DEF RInv
<1>5. CASE p \notin refresh_lock
  <2> DEFINE y == [x EXCEPT !.pc = "locked", !.p = p]
  <2>1. /\ y \in Session /\ y.pc = "locked" /\ y.p = p /\ y.oauth_token = x.oauth_token
        /\ y.todo = x.todo
    BY <1>2, ZenonT(60) DEF Session
  <2>2. sess' = [sess EXCEPT ![w] = y]
    BY <1>1, <1>5
  <2>3. p \in refresh_lock' \ refresh_lock /\ x.oauth_token[p].token \notin used
    BY <1>1, <1>3, <1>5
  <2> QED BY <1>1, <1>3, <2>1, <2>2, <2>3, OnceWorker, ZenonT(60) DEF RInv
<1> QED BY <1>4, <1>5

\* The token presented was not presented before, and until the commit whoever listed
\* it earlier finds its lock set.
LEMMA OnceRefreshFlush ==
  ASSUME RInv, LocksOutlive, failures = 0, NEW w \in Workers, RefreshFlush(w)
  PROVE  Apart'
<1> DEFINE x == sess[w]
           p == x.p
           n == x.oauth_token[p].token
<1>0. w \in Sessions /\ HInv /\ Fresh
  BY DEF RInv, Sessions
<1>1. PICK ok \in BOOLEAN, y \in Session :
         /\ x.pc = "locked" /\ p \in Providers /\ p \in x.todo /\ x.oauth_token[p] \in TokenRow
         /\ sess' = [sess EXCEPT ![w] = y]
         /\ y.pc = "flushed" /\ y.p = p /\ y.todo = x.todo /\ y.ok = ok
         /\ y.op = "refresh" /\ y.oauth_token = x.oauth_token
         /\ used' = IF ok THEN used \cup {n} ELSE used
         /\ UNCHANGED <<tables, refresh_lock, failures>>
  BY <1>0, Presents
<1>2. sess'[w] = y /\ \A v \in Workers \ {w} : sess'[v] = sess[v]
  BY <1>0, <1>1 DEF HInv, TypeOK, Sessions
<1>3. oauth_tokens' = oauth_tokens /\ refresh_lock' = refresh_lock
  BY <1>1 DEF tables
<1>4. LockHeld /\ Alone /\ LockedUnused /\ ListedUnused /\ CurrentUnused
  BY DEF RInv, Once
<1>5. \A v \in Workers, q \in Providers : At(sess'[v], q) <=> At(sess[v], q)
  BY <1>1, <1>2 DEF At
<1>6. n \in Nat /\ TokenOf(n, p) /\ At(x, p) /\ p \in refresh_lock
  BY <1>0, <1>1, <1>4, HubNoneAssumption DEF TokenRow, TokenOf, Holds, At, LockHeld
\* A token that any session has loaded for another provider is another token.
<1>7. ASSUME NEW v \in Workers, NEW q \in sess[v].todo, sess[v].pc # "idle", q # p
      PROVE  sess[v].oauth_token[q].token # n
  <2>1. v \in Sessions /\ q \in Providers /\ sess[v].oauth_token[q] # None
    BY <1>0, <1>7, Sweeping
  <2>2. sess[v].oauth_token[q].token = n => TokenOf(n, q)
    BY <2>1 DEF TokenOf, Holds
  <2> QED BY <1>0, <1>1, <1>6, <1>7, <2>1, <2>2 DEF Fresh
<1>8. LockHeld' /\ Alone'
  BY <1>3, <1>4, <1>5 DEF LockHeld, Alone, At
<1>9. LockedUnused'
  <2> SUFFICES ASSUME NEW v \in Workers, sess'[v].pc = "locked"
               PROVE  sess'[v].oauth_token[sess'[v].p].token \notin used'
    BY DEF LockedUnused
  <2>1. v # w /\ sess'[v] = sess[v] /\ sess[v].pc = "locked"
    BY <1>1, <1>2
  <2>2. sess[v].p \in sess[v].todo /\ sess[v].p \in Providers
    BY <1>0, <2>1, Sweeping
  <2>3. sess[v].p # p
    BY <1>1, <1>4, <1>6, <2>1, <2>2 DEF Alone, At
  <2> QED BY <1>1, <1>4, <1>7, <2>1, <2>2, <2>3 DEF LockedUnused
<1>10. ListedUnused'
  <2> SUFFICES ASSUME NEW v \in Workers, NEW q \in sess'[v].todo, ~At(sess'[v], q),
                      sess'[v].pc # "idle",
                      sess'[v].oauth_token[q].token \in used'
               PROVE  q \in refresh_lock
    BY <1>3 DEF ListedUnused, At
  <2>1. /\ q \in sess[v].todo /\ ~At(sess[v], q) /\ sess[v].pc # "idle"
        /\ sess'[v].oauth_token[q].token = sess[v].oauth_token[q].token
    BY <1>1, <1>2 DEF At
  <2>2. CASE q = p
    BY <1>6, <2>2
  <2>3. CASE sess[v].oauth_token[q].token \in used
    BY <1>4, <2>1, <2>3 DEF ListedUnused
  <2>4. CASE q # p /\ sess[v].oauth_token[q].token = n
    BY <1>7, <2>1, <2>4
  <2> QED BY <1>1, <2>1, <2>2, <2>3, <2>4
<1>11. CurrentUnused'
  <2> SUFFICES ASSUME NEW q \in Providers, oauth_tokens[q] # None, oauth_tokens[q].token \in used'
               PROVE  \E v \in Workers : At(sess'[v], q) /\ sess'[v].pc = "flushed" /\ sess'[v].ok
    BY <1>3 DEF CurrentUnused, At
  <2>1. CASE oauth_tokens[q].token \in used
    <3>1. PICK v \in Workers : At(sess[v], q) /\ sess[v].pc = "flushed" /\ sess[v].ok
      BY <1>4, <2>1 DEF CurrentUnused
    <3>2. v # w
      BY <1>1, <3>1
    <3> QED BY <1>2, <3>1, <3>2
  <2>2. CASE ok /\ oauth_tokens[q].token = n
    <3>1. TokenOf(n, q)
      BY <2>2 DEF TokenOf, Holds
    <3>2. q = p
      BY <1>0, <1>1, <1>6, <3>1 DEF Fresh
    <3> QED BY <1>1, <1>2, <2>2, <3>2 DEF At
  <2> QED BY <1>1, <2>1, <2>2
<1> QED BY <1>8, <1>9, <1>10, <1>11 DEF Apart

\* The commit of a refresh makes a new token current, which nobody has presented.
LEMMA OnceRefreshCommit ==
  ASSUME RInv, LocksOutlive, failures = 0, NEW w \in Workers, Commit(w)
  PROVE  Apart'
<1> DEFINE x == sess[w]
           p == x.p
<1>0. w \in Sessions /\ HInv /\ Fresh
  BY DEF RInv, Sessions
<1>1. /\ x.pc = "flushed" /\ p \in Providers
      /\ \A q \in Providers : q # p => oauth_tokens'[q] = oauth_tokens[q]
      /\ NewTokens(x) => oauth_tokens'[p] # None /\ oauth_tokens'[p].token = x.token
      /\ (~NewTokens(x) /\ oauth_tokens'[p] # None) =>
           /\ oauth_tokens[p] # None
           /\ oauth_tokens'[p].token = oauth_tokens[p].token
      /\ sess'[w] = IF x.op = "refresh" THEN Swept(x, p) ELSE Idle
      /\ \A t \in Sessions \ {w} :
           \/ sess'[t] = sess[t]
           \/ sess[t].pc = "cleared" /\ sess'[t] = [sess[t] EXCEPT !.late = TRUE]
      /\ UNCHANGED <<refresh_lock, used, issued, failures>>
  BY <1>0, Commits
<1>2. x.op = "refresh" /\ x \in Session
  BY <1>0, <1>1, Sweeping
<1>3. /\ sess'[w].pc \in {"idle", "listed"}
      /\ \A q \in sess'[w].todo : /\ q \in x.todo /\ q # p
                                  /\ sess'[w].oauth_token[q] = x.oauth_token[q]
  BY <1>1, <1>2, SweptRows
<1>4. \A v \in Workers \ {w} : sess'[v] = sess[v]
  BY <1>0, <1>1, Sweeping DEF Sessions
<1>5. LockHeld /\ Alone /\ LockedUnused /\ ListedUnused /\ CurrentUnused
  BY DEF RInv, Once
<1>6. LockHeld' /\ Alone' /\ LockedUnused'
  BY <1>1, <1>3, <1>4, <1>5 DEF LockHeld, Alone, LockedUnused, At
<1>7. ListedUnused'
  <2> SUFFICES ASSUME NEW v \in Workers, NEW q \in sess'[v].todo, ~At(sess'[v], q),
                      sess'[v].pc # "idle",
                      sess'[v].oauth_token[q].token \in used
               PROVE  q \in refresh_lock
    BY <1>1 DEF ListedUnused, At
  <2>1. CASE v = w
    <3>1. q \in x.todo /\ q # p /\ x.oauth_token[q].token \in used
      BY <1>3, <2>1
    <3>2. ~At(x, q) /\ x.pc # "idle"
      BY <1>1, <3>1 DEF At
    <3> QED BY <1>5, <3>1, <3>2 DEF ListedUnused
  <2>2. CASE v # w
    BY <1>4, <1>5, <2>2 DEF ListedUnused
  <2> QED BY <2>1, <2>2
<1>8. CurrentUnused'
  <2> SUFFICES ASSUME NEW q \in Providers, oauth_tokens'[q] # None, oauth_tokens'[q].token \in used
               PROVE  \E v \in Workers : At(sess'[v], q) /\ sess'[v].pc = "flushed" /\ sess'[v].ok
    BY <1>1 DEF CurrentUnused, At
  <2>1. ~(q = p /\ NewTokens(x))
    BY <1>0, <1>1 DEF Fresh, Pending
  <2>2. oauth_tokens[q] # None /\ oauth_tokens[q].token \in used
    BY <1>1, <2>1
  <2>3. PICK v \in Workers : At(sess[v], q) /\ sess[v].pc = "flushed" /\ sess[v].ok
    BY <1>5, <2>2 DEF CurrentUnused
  <2>4. v # w
    BY <1>1, <1>2, <2>1, <2>3 DEF At, NewTokens
  <2> QED BY <1>4, <2>3, <2>4
<1> QED BY <1>6, <1>7, <1>8 DEF Apart

\* So does the commit of a callback or a connect; other commits leave the token.
LEMMA OnceHandlerCommit ==
  ASSUME RInv, NEW s \in Sessions, s \notin Workers, Commit(s)
  PROVE  Once'
<1> DEFINE x == sess[s]
           p == x.p
<1>1. /\ x.pc = "flushed" /\ p \in Providers
      /\ \A q \in Providers : q # p => oauth_tokens'[q] = oauth_tokens[q]
      /\ NewTokens(x) => oauth_tokens'[p] # None /\ oauth_tokens'[p].token = x.token
      /\ (~NewTokens(x) /\ oauth_tokens'[p] # None) =>
           /\ oauth_tokens[p] # None
           /\ oauth_tokens'[p].token = oauth_tokens[p].token
      /\ \A t \in Sessions \ {s} :
           \/ sess'[t] = sess[t]
           \/ sess[t].pc = "cleared" /\ sess'[t] = [sess[t] EXCEPT !.late = TRUE]
      /\ UNCHANGED <<refresh_lock, used, issued, failures>>
  BY Commits DEF RInv
<1>2. \A v \in Workers : sess'[v] = sess[v]
  BY <1>1, Sweeping DEF RInv, Sessions
<1>3. NewTokens(x) => x.token \notin used
  BY <1>1 DEF RInv, Fresh, Pending
<1>4. \A q \in Providers : (oauth_tokens'[q] # None /\ oauth_tokens'[q].token \in used) =>
        oauth_tokens[q] # None /\ oauth_tokens[q].token \in used
  BY <1>1, <1>3
<1> QED BY <1>1, <1>2, <1>4, OnceOthers DEF RInv

\* A lock that outlives the sweeps expires when no stale token is left in any.
LEMMA OnceLockExpire ==
  ASSUME RInv, LocksOutlive, failures = 0, NEW p \in Providers, LockExpire(p)
  PROVE  Apart'
<1>1. /\ Outlived(p) /\ refresh_lock' = refresh_lock \ {p}
      /\ UNCHANGED <<oauth_tokens, used, sess>>
  BY DEF LockExpire, tables
<1>2. LockHeld /\ Alone /\ LockedUnused /\ ListedUnused /\ CurrentUnused
  BY DEF RInv, Once
<1>3. \A w \in Workers : ~At(sess[w], p)
  BY <1>1, Sweeping DEF RInv, Outlived, At
<1>4. LockHeld'
  BY <1>1, <1>2, <1>3 DEF LockHeld, At
<1>5. Alone' /\ LockedUnused' /\ CurrentUnused'
  BY <1>1, <1>2 DEF Alone, LockedUnused, CurrentUnused, At
<1>6. ListedUnused'
  <2> SUFFICES ASSUME NEW w \in Workers, NEW q \in sess[w].todo, ~At(sess[w], q),
                      sess[w].pc # "idle",
                      sess[w].oauth_token[q].token \in used
               PROVE  q \in refresh_lock'
    BY <1>1 DEF ListedUnused, At
  <2>1. q \in refresh_lock
    BY <1>2 DEF ListedUnused
  <2>2. q # p
    <3> SUFFICES ASSUME q = p PROVE FALSE
      OBVIOUS
    <3>1. sess[w].oauth_token[p] = oauth_tokens[p]
      BY <1>1 DEF Outlived
    <3>2. oauth_tokens[p] # None
      BY Sweeping DEF RInv
    <3> QED BY <1>2, <1>3, <3>1, <3>2 DEF CurrentUnused
  <2> QED BY <1>1, <2>1, <2>2
<1> QED BY <1>4, <1>5, <1>6 DEF Apart

\* A failure of a worker is counted; one that is not counted is of a request.
LEMMA OnceFail ==
  ASSUME RInv, NEW s \in Sessions, Fail(s)
  PROVE  Once'
<1>1. /\ sess[s].pc # "idle" /\ sess' = [sess EXCEPT ![s] = Idle]
      /\ failures' = IF Raises(s) THEN failures ELSE failures + 1
      /\ UNCHANGED <<oauth_tokens, used, refresh_lock>>
      /\ failures \in Nat
  BY HubBoundsAssumption DEF Fail, tables, RInv, HInv, TypeOK
<1>2. CASE s \in Workers
  <2>1. ~Raises(s)
    BY <1>2, Sweeping DEF RInv, Raises
  <2>2. failures' # 0
    BY <1>1, <2>1
  <2> QED BY <2>2 DEF Once
<1>3. CASE s \notin Workers
  <2>1. \A w \in Workers : sess'[w] = sess[w]
    BY <1>1, <1>3 DEF RInv, HInv, TypeOK, Sessions
  <2>2. failures' = 0 => failures = 0
    BY <1>1
  <2> QED BY <1>1, <2>1, <2>2, OnceOthers DEF RInv
<1> QED BY <1>2, <1>3

LEMMA OnceHandle ==
  ASSUME RInv, NEW s \in Sessions, Handle(s)
  PROVE  Once'
<1>1. /\ s \in Handlers /\ UNCHANGED <<oauth_tokens, refresh_lock, used, failures>>
      /\ \E y : sess' = [sess EXCEPT ![s] = y]
  BY HandleRereads DEF RInv, tables
<1>2. \A w \in Workers : sess'[w] = sess[w]
  BY <1>1, HubSessionsAssumption DEF RInv, HInv, TypeOK, Sessions
<1> QED BY <1>1, <1>2, OnceOthers DEF RInv

\* A sweep is a worker's.
LEMMA RefreshOfWorker ==
  ASSUME RInv, NEW s \in Sessions, Refresh(s)
  PROVE  s \in Workers /\ failures' = failures
<1>1. SessionInv(s, sess[s]) /\ sess[s] \in Session
  BY DEF RInv, HInv, TypeOK
<1>2. sess[s].pc \in {"listed", "locked"} => s \in Workers
  BY <1>1 DEF SessionInv, ShapeOf, Handles, Session
<1>3. sess[s].op = "refresh" => s \in Workers
  BY <1>1 DEF SessionInv, ShapeOf
<1> QED
  BY <1>2, <1>3 DEF Refresh, RefreshList, RefreshLoad, RefreshLock, RefreshFlush, outside

LEMMA OnceNext == RInv /\ [Next]_vars => Once'
<1> SUFFICES ASSUME RInv, [Next]_vars PROVE Once'
  OBVIOUS
<1>1. ASSUME NEW s \in Sessions, Refresh(s) PROVE Once'
  <2>1. s \in Workers /\ failures' = failures
    BY <1>1, RefreshOfWorker
  <2> SUFFICES ASSUME LocksOutlive, failures = 0 PROVE Apart'
    BY <2>1 DEF Once, Apart
  <2> QED
    BY <1>1, <2>1, OnceRefreshList, OnceRefreshLoad, OnceRefreshLock, OnceRefreshFlush
       DEF Refresh
<1>2. ASSUME NEW s \in Sessions, Commit(s) PROVE Once'
  <2>1. CASE s \in Workers
    <3>1. failures' = failures
      BY <1>2 DEF Commit
    <3> SUFFICES ASSUME LocksOutlive, failures = 0 PROVE Apart'
      BY <3>1 DEF Once, Apart
    <3> QED BY <1>2, <2>1, OnceRefreshCommit
  <2> QED BY <1>2, <2>1, OnceHandlerCommit
<1>3. CASE \E p \in Providers : LockExpire(p)
  <2>1. failures' = failures
    BY <1>3 DEF LockExpire
  <2> SUFFICES ASSUME LocksOutlive, failures = 0 PROVE Apart'
    BY <2>1 DEF Once, Apart
  <2> QED BY <1>3, OnceLockExpire
<1>4. CASE Tick \/ KeyReplaced \/ UNCHANGED vars
  <2>1. UNCHANGED <<oauth_tokens, sess, used, refresh_lock, failures>>
    BY <1>4 DEF Tick, KeyReplaced, TokenDue, StateExpire, vars, tables
  <2> QED BY <2>1, OnceOthers DEF RInv
<1> QED BY <1>1, <1>2, <1>3, <1>4, OnceFail, OnceHandle DEF Next, Step

LEMMA InitRInv == Init => RInv
<1> SUFFICES ASSUME Init PROVE RInv
  OBVIOUS
<1>1. /\ \A q \in Providers : oauth_tokens[q] = None
      /\ \A s \in Sessions : sess[s] = Idle
      /\ used = {}
  BY DEF Init, NoRows
<1>2. \A q \in Providers, n \in Nat : ~TokenOf(n, q)
  BY <1>1 DEF TokenOf, Holds, Idle, NoRows
<1>3. \A s \in Sessions : ~Pending(sess[s]) /\ sess[s].pc = "idle"
  BY <1>1 DEF Pending, Idle
<1>4. Fresh
  BY <1>1, <1>2, <1>3 DEF Fresh
<1>5. Once
  BY <1>1, <1>3 DEF Once, LockHeld, Alone, LockedUnused, ListedUnused, CurrentUnused, At, Sessions
<1> QED BY <1>4, <1>5, InitInv DEF RInv

LEMMA SpecRInv == Spec => []RInv
<1>1. RInv /\ [Next]_vars => RInv'
  BY NextInv, FreshNext, OnceNext DEF RInv
<1> QED BY <1>1, InitRInv, PTL DEF Spec
-----------------------------------------------------------------------------
\* No worker presents a refresh token that was presented before, as long as the lock
\* of _acquire_refresh_lock outlives the sweeps and nothing has crashed: whatever
\* sweeps overlap, and whatever callbacks, connects and disconnects replace or revoke
\* the token between the reads of refresh_due_tokens and its commit.
THEOREM TokenUsedOnce == Spec => []RefreshTokenUsedOnce
<1>1. RInv => RefreshTokenUsedOnce
  BY DEF RInv, Once, LockedUnused, RefreshTokenUsedOnce
<1> QED BY <1>1, SpecRInv, PTL
-----------------------------------------------------------------------------
(* Revoked credentials. *)

\* A commit that finds a revoked row leaves it revoked, unless it is of a session
\* that has exchanged an authorisation code: the others do not write revoked_at, or
\* write it TRUE.
LEMMA RevokedRow ==
  ASSUME HInv, NEW s \in Sessions, sess[s].pc = "flushed", NEW x, x = sess[s],
         x.op \notin {"authenticate", "connect_code"},
         oauth_tokens[x.p] # None, oauth_tokens[x.p].revoked_at,
         NEW token, token = Written(oauth_tokens[x.p], None, LoadedToken(x), NewToken(x))
  PROVE  token.revoked_at
<1> DEFINE old == oauth_tokens[x.p]
           loaded == x.oauth_token[x.p]
           new == NewToken(x)
<1>1. /\ x \in Session /\ x.p \in Providers
      /\ x.op \in {"connect", "connect_code", "authenticate", "validate", "disconnect", "refresh"}
      /\ x.ok \in BOOLEAN /\ x.token \in Nat /\ loaded \in TokenRow \cup {None}
      /\ x.op = "refresh" => loaded # None
  BY FlushedSession DEF Session
<1>2. old \in TokenRow /\ DOMAIN old = {"token", "revoked_at", "refresh_attempts"}
  BY <1>1 DEF HInv, TypeOK, TokenRow
<1>3. CASE new = None
  BY <1>3 DEF Written
<1>4. CASE new # None
  <2>1. loaded \in TokenRow /\ loaded # None
    BY <1>1, <1>4 DEF NewToken
  <2>2. CASE x.op = "disconnect"
    <3>1. /\ new = [loaded EXCEPT !.revoked_at = TRUE]
          /\ LoadedToken(x) = [loaded EXCEPT !.revoked_at = FALSE]
      BY <2>1, <2>2 DEF NewToken, LoadedToken
    <3>2. LoadedToken(x) \in TokenRow /\ new.revoked_at = TRUE
      BY <2>1, <3>1 DEF TokenRow
    <3>3. token = [f \in DOMAIN old |-> IF new[f] = LoadedToken(x)[f] THEN old[f] ELSE new[f]]
      BY <1>4, <3>2, HubNoneAssumption DEF Written
    <3>4. token.revoked_at = old.revoked_at \/ token.revoked_at = new.revoked_at
      BY <1>2, <3>3
    <3> QED BY <3>2, <3>4
  <2>3. CASE x.op = "refresh"
    <3>1. LoadedToken(x) = loaded
      BY <2>3 DEF LoadedToken
    <3>2. new.revoked_at = loaded.revoked_at
      BY <1>1, <2>1, <2>3 DEF NewToken, TokenRow
    <3>3. token = [f \in DOMAIN old |-> IF new[f] = loaded[f] THEN old[f] ELSE new[f]]
      BY <1>4, <2>1, <3>1 DEF Written
    <3>4. token.revoked_at = old.revoked_at
      BY <1>2, <3>2, <3>3
    <3> QED BY <3>4
  <2> QED BY <1>1, <1>4, <2>2, <2>3 DEF NewToken
<1> QED BY <1>3, <1>4

\* The rows of credentials change by commits only.
LEMMA TokensCommitted ==
  ASSUME HInv, [Next]_vars, oauth_tokens' # oauth_tokens
  PROVE  \E s \in Sessions : Commit(s)
<1>1. \A s \in Sessions : Handle(s) => oauth_tokens' = oauth_tokens
  BY HandleRereads DEF tables
<1>2. \A s \in Sessions : Refresh(s) => oauth_tokens' = oauth_tokens
  BY DEF Refresh, RefreshList, RefreshLoad, RefreshLock, RefreshFlush, tables
<1>3. \A s \in Sessions : Fail(s) => oauth_tokens' = oauth_tokens
  BY DEF Fail, tables
<1>4. (Tick \/ KeyReplaced \/ (\E p \in Providers : LockExpire(p)) \/ UNCHANGED vars)
        => oauth_tokens' = oauth_tokens
  BY DEF Tick, KeyReplaced, TokenDue, StateExpire, LockExpire, tables, vars
<1> QED BY <1>1, <1>2, <1>3, <1>4 DEF Next, Step

\* Credentials that a disconnect has revoked stay unusable until a user authorises
\* anew, whatever sweep or validation loaded them before the disconnect and commits
\* after it; and what the authorisation makes usable is its own new pair of tokens,
\* never the revoked pair, because no row holds that new pair before.
THEOREM RevokedCredentials == Spec => RevokedUntilAuthorized
<1>1. ASSUME RInv, [Next]_vars, NEW p \in Providers, oauth_tokens[p] # None,
             oauth_tokens[p].revoked_at, ~oauth_tokens'[p].revoked_at
      PROVE  \E s \in Handlers :
               /\ sess[s].pc = "flushed" /\ sess[s].p = p
               /\ sess[s].op \in {"connect_code", "authenticate"}
               /\ oauth_tokens'[p].token = sess[s].token
  <2>1. HInv /\ Fresh
    BY <1>1 DEF RInv
  <2>2. PICK s \in Sessions : Commit(s)
    BY <1>1, <2>1, TokensCommitted
  <2> PICK x : x = sess[s]
    OBVIOUS
  <2>3. /\ x \in Session /\ SessionInv(s, x) /\ x.pc = "flushed" /\ x.p \in Providers
        /\ \A q \in Providers : q # x.p => oauth_tokens'[q] = oauth_tokens[q]
        /\ NewTokens(x) => oauth_tokens'[x.p] # None /\ oauth_tokens'[x.p].token = x.token
    BY <2>1, <2>2, Commits
  <2>4. x.p = p
    BY <1>1, <2>3
  <2>5. x.op \in {"authenticate", "connect_code"}
    <3> SUFFICES ASSUME x.op \notin {"authenticate", "connect_code"} PROVE FALSE
      OBVIOUS
    <3> PICK token : token = Written(oauth_tokens[p], None, LoadedToken(x), NewToken(x))
      OBVIOUS
    <3>1. token.revoked_at
      BY <1>1, <2>1, <2>3, <2>4, RevokedRow
    <3>2. oauth_tokens' = [oauth_tokens EXCEPT ![p] = token]
      BY <2>2, <2>4 DEF Commit
    <3>3. oauth_tokens'[p] = token
      BY <2>1, <3>2 DEF HInv, TypeOK
    <3> QED BY <1>1, <3>1, <3>3
  <2>6. s \in Handlers
    BY <2>3, <2>5 DEF SessionInv, ShapeOf, Handles
  <2>7. oauth_tokens'[p].token = x.token
    BY <2>3, <2>4, <2>5 DEF NewTokens
  <2> QED BY <2>3, <2>4, <2>5, <2>6, <2>7
<1>2. RInv /\ [Next]_vars =>
        [\A p \in Providers :
           (oauth_tokens[p] # None /\ oauth_tokens[p].revoked_at
              /\ ~oauth_tokens'[p].revoked_at)
             => \E s \in Handlers :
                  /\ sess[s].pc = "flushed" /\ sess[s].p = p
                  /\ sess[s].op \in {"connect_code", "authenticate"}
                  /\ oauth_tokens'[p].token = sess[s].token]_vars
  BY <1>1
<1> QED BY <1>2, SpecRInv, PTL DEF Spec, RevokedUntilAuthorized
=============================================================================
