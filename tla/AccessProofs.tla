------------------------------ MODULE AccessProofs ------------------------------
(***************************************************************************)
(* Proofs about Access: who is let in, for any number of accounts, tokens  *)
(* and requests at once, and any time to live.                             *)
(***************************************************************************)
EXTENDS Access, TLAPS

\* A token lives for a positive number of hours, whatever the setting.
LEMMA TTLPositive == TTL \in Nat \ {0}
BY TTLSettingAssumption DEF TTL

\* Addresses in their normal spelling are what is stored.
LEMMA StoredNormal == \A e \in Spellings : Stored(e) \in Emails
BY DEF Stored, Emails

LEMMA InitInvariant == Init => IInv
<1>1. SUFFICES ASSUME Init PROVE IInv
    OBVIOUS
<1>2. TypeOK
    BY <1>1, NoRowAssumption
    DEF Init, TypeOK, Accounts, Work, NoWork, Role, AdminRow
<1>3. ActiveNow
    BY <1>1 DEF Init, ActiveNow
<1>4. TokensOK /\ SessionsOK
    BY <1>1 DEF Init, TokensOK, SessionsOK
<1>5. QED
    BY <1>2, <1>3, <1>4 DEF IInv

-----------------------------------------------------------------------------
\* A step that leaves the accounts, the tokens and the time alone keeps what
\* is known of them; so its session is all there is to look at.
LEMMA SessionStep ==
    ASSUME IInv, NEW s \in Sessions,
           UNCHANGED <<customer, admin, token, clock, lastActive>>,
           NEW label \in Route \cup {"idle", "sign", "update"}, NEW w \in Work,
           pc' = [pc EXCEPT ![s] = label], work' = [work EXCEPT ![s] = w],
           label # "idle" =>
              /\ w.user \in Accounts
              /\ Registered(w.user)
              /\ w.role = RoleOf(w.user)
              /\ label = "sign" => w.late \/ Active(w.user)
              /\ label \in Route => w.role \in allowedRoles[label]
              /\ label = "update" => w.role = "CUSTOMER"
    PROVE  IInv'
<1>1. TypeOK'
    BY DEF IInv, TypeOK
<1>2. \A u : Registered(u)' = Registered(u) /\ Active(u)' = Active(u)
    BY DEF Registered, Active, Row
<1>3. ActiveNow' /\ TokensOK'
    BY <1>2 DEF IInv, ActiveNow, TokensOK
<1>4. SessionsOK'
    <2>1. SUFFICES ASSUME NEW t \in Sessions, pc'[t] # "idle"
                   PROVE  /\ work'[t].user \in Accounts
                          /\ Registered(work'[t].user)
                          /\ work'[t].role = RoleOf(work'[t].user)
                          /\ pc'[t] = "sign" => work'[t].late \/ Active(work'[t].user)
                          /\ pc'[t] \in Route => work'[t].role \in allowedRoles[pc'[t]]
                          /\ pc'[t] = "update" => work'[t].role = "CUSTOMER"
        BY <1>2 DEF SessionsOK
    <2>2. CASE t = s
        BY <2>1, <2>2 DEF IInv, TypeOK
    <2>3. CASE t # s
        BY <2>1, <2>3 DEF IInv, TypeOK, SessionsOK
    <2>4. QED
        BY <2>2, <2>3
<1>5. QED
    BY <1>1, <1>3, <1>4 DEF IInv

LEMMA NoWorkType == NoWork \in Work
BY DEF NoWork, Work, Role

\* A session that ends has nothing left to do.
LEMMA EndStep ==
    ASSUME IInv, NEW s \in Sessions, End(s),
           UNCHANGED <<customer, admin, token, clock, lastActive>>
    PROVE  IInv'
BY SessionStep, NoWorkType DEF End, Route

LEMMA FindAccountStep ==
    ASSUME IInv, NEW s \in Sessions, NEW u \in Accounts, NEW e \in Spellings,
           FindAccount(s, u, RoleOf(u), e)
    PROVE  IInv'
<1> DEFINE w == [user |-> u, role |-> RoleOf(u), late |-> FALSE, read |-> NoRow]
<1>1. w \in Work /\ RoleOf(u) \in Role
    BY DEF Work, RoleOf, Role
<1>2. /\ pc' = [pc EXCEPT ![s] = "sign"] /\ work' = [work EXCEPT ![s] = w]
      /\ UNCHANGED <<customer, admin, token, clock, lastActive>>
      /\ Registered(u) /\ Active(u)
    BY DEF FindAccount, Begin, MayLogIn
<1>3. w.user = u /\ w.role = RoleOf(u) /\ "sign" \notin Route
    BY DEF Route
<1> HIDE DEF w
<1>4. QED
    BY <1>1, <1>2, <1>3, SessionStep

LEMMA AdmitStep ==
    ASSUME IInv, NEW s \in Sessions, NEW t \in token, NEW route \in Route, Admit(s, t, route)
    PROVE  IInv'
<1> DEFINE w == [user |-> t.user, role |-> t.role, late |-> FALSE, read |-> NoRow]
<1>1. t \in Token
    BY DEF IInv, TypeOK
<1>2. w \in Work
    BY <1>1 DEF Work, Token
<1>3. /\ pc' = [pc EXCEPT ![s] = route] /\ work' = [work EXCEPT ![s] = w]
      /\ UNCHANGED <<customer, admin, token, clock, lastActive>>
      /\ t.role \in allowedRoles[route]
    BY DEF Admit, Begin, RoleAllowed
<1>4. /\ w.user = t.user /\ w.role = t.role /\ t.user \in Accounts
      /\ Registered(t.user) /\ t.role = RoleOf(t.user)
      /\ route # "sign" /\ route # "update"
    BY <1>1 DEF IInv, TokensOK, Token, Route
<1> HIDE DEF w
<1>5. QED
    BY <1>2, <1>3, <1>4, SessionStep

LEMMA GetCustomerByIDStep ==
    ASSUME IInv, NEW s \in Sessions, GetCustomerByID(s)
    PROVE  IInv'
<1> DEFINE w == [work[s] EXCEPT !.read = customer[work[s].user]]
<1>1. /\ work[s] \in Work /\ pc[s] = "profile" /\ pc \in [Sessions -> Route \cup {"idle", "sign", "update"}]
    BY DEF IInv, TypeOK, GetCustomerByID
<1>2. /\ work[s].user \in Accounts /\ Registered(work[s].user)
      /\ work[s].role = RoleOf(work[s].user) /\ work[s].role = "CUSTOMER"
    BY <1>1 DEF IInv, SessionsOK, Route, allowedRoles
<1>3. work[s].user \in Customers
    BY <1>2 DEF Accounts, RoleOf
<1>4. w \in Work /\ w.user = work[s].user /\ w.role = work[s].role
    BY <1>1, <1>3 DEF Work, IInv, TypeOK
<1>5. /\ pc' = [pc EXCEPT ![s] = "update"] /\ work' = [work EXCEPT ![s] = w]
      /\ UNCHANGED <<customer, admin, token, clock, lastActive>>
    BY DEF GetCustomerByID
<1> HIDE DEF w
<1>6. QED
    BY <1>2, <1>4, <1>5, SessionStep DEF Route

-----------------------------------------------------------------------------
\* Signing takes the session's word for the account.
LEMMA SignStep ==
    ASSUME IInv, NEW s \in Sessions, SignWithTTL(s)
    PROVE  IInv'
<1>1. /\ work[s] \in Work /\ clock \in Nat
      /\ work[s].user \in Accounts /\ Registered(work[s].user)
      /\ work[s].role = RoleOf(work[s].user)
      /\ work[s].late \/ Active(work[s].user)
      /\ work[s].late \/ lastActive[work[s].user] = clock
    BY DEF SignWithTTL, IInv, TypeOK, SessionsOK, ActiveNow
<1>2. PICK new \in Token :
          new = [user |-> work[s].user, role |-> work[s].role,
                 exp |-> clock + TTL, late |-> work[s].late]
    <2>1. clock + TTL \in Nat
        BY <1>1, TTLPositive
    <2>2. /\ work[s].user \in Accounts /\ work[s].role \in Role /\ work[s].late \in BOOLEAN
        BY <1>1 DEF Work
    <2>3. QED
        BY <2>1, <2>2 DEF Token
<1>3. /\ token' = token \cup {new} /\ End(s)
      /\ UNCHANGED <<customer, admin, clock, lastActive>>
    BY <1>2 DEF SignWithTTL
<1>4. /\ new.user = work[s].user /\ new.role = work[s].role
      /\ new.exp = clock + TTL /\ new.late = work[s].late
    BY <1>2
<1>5. \A u : Registered(u)' = Registered(u) /\ Active(u)' = Active(u)
    BY <1>3 DEF Registered, Active, Row
<1>6. TypeOK'
    <2>1. /\ pc' \in [Sessions -> Route \cup {"idle", "sign", "update"}]
          /\ work' \in [Sessions -> Work]
        BY <1>3, NoWorkType DEF End, IInv, TypeOK
    <2>2. QED
        BY <1>2, <1>3, <2>1 DEF IInv, TypeOK
<1>7. ActiveNow'
    BY <1>3, <1>5 DEF IInv, ActiveNow
<1>8. TokensOK'
    <2>1. \A t \in token :
              /\ Registered(t.user)' /\ t.role = RoleOf(t.user)
              /\ t.late \/ t.exp <= lastActive'[t.user] + TTL
        BY <1>3, <1>5 DEF IInv, TokensOK
    <2>2. /\ Registered(new.user)' /\ new.role = RoleOf(new.user)
          /\ new.late \/ new.exp <= lastActive'[new.user] + TTL
        BY <1>1, <1>3, <1>4, <1>5, TTLPositive
    <2>3. QED
        BY <1>3, <2>1, <2>2 DEF TokensOK
<1>9. SessionsOK'
    BY <1>3, <1>5 DEF IInv, SessionsOK, TypeOK, End, NoWork
<1>10. QED
    BY <1>6, <1>7, <1>8, <1>9 DEF IInv

\* A customer who registers has no token and no request yet.
LEMMA RegisterStep ==
    ASSUME IInv, NEW c \in Customers, NEW e \in Spellings, NEW contact \in Contacts,
           RegisterCustomer(c, e, contact)
    PROVE  IInv'
<1> DEFINE row == [email |-> Stored(e), active |-> TRUE, contact |-> contact]
<1>1. row \in CustomerRow /\ row.active /\ row # NoRow
    <2>1. row \in CustomerRow /\ row.active
        BY StoredNormal DEF CustomerRow
    <2>2. QED
        BY <2>1, NoRowAssumption
<1>2. /\ customer[c] = NoRow
      /\ customer' = [customer EXCEPT ![c] = row]
      /\ lastActive' = [lastActive EXCEPT ![c] = clock]
      /\ UNCHANGED <<admin, token, clock, pc, work>>
    BY DEF RegisterCustomer
<1> HIDE DEF row
<1>3. c \notin Admins /\ c \in Accounts /\ ~Registered(c)
    BY <1>2, AccountsAssumption DEF Accounts, Registered, Row
<1>4. \A u \in Accounts \ {c} :
          /\ Registered(u)' = Registered(u) /\ Active(u)' = Active(u)
          /\ lastActive'[u] = lastActive[u]
    BY <1>2 DEF IInv, TypeOK, Registered, Active, Row, Accounts
<1>5. lastActive'[c] = clock
    BY <1>2, <1>3 DEF IInv, TypeOK
<1>6. TypeOK'
    BY <1>1, <1>2 DEF IInv, TypeOK
<1>7. ActiveNow'
    BY <1>2, <1>4, <1>5 DEF IInv, ActiveNow, TypeOK
<1>8. TokensOK'
    <2>1. \A t \in token : t.user \in Accounts \ {c}
        BY <1>3 DEF IInv, TypeOK, TokensOK, Token
    <2>2. QED
        BY <1>2, <1>4, <2>1 DEF IInv, TokensOK
<1>9. SessionsOK'
    BY <1>2, <1>3, <1>4 DEF IInv, SessionsOK
<1>10. QED
    BY <1>6, <1>7, <1>8, <1>9 DEF IInv

\* A profile is written to the row it belongs to, without is_active.
LEMMA UpdateCustomerStep ==
    ASSUME IInv, NEW s \in Sessions, NEW contact \in Contacts, UpdateCustomer(s, contact)
    PROVE  /\ IInv'
           /\ \A u \in Accounts : Active(u)' = Active(u)
<1> DEFINE c == work[s].user
<1>1. c \in Customers /\ c \notin Admins /\ customer[c] \in CustomerRow
    <2>1. c \in Accounts /\ Registered(c) /\ RoleOf(c) = "CUSTOMER"
        BY DEF UpdateCustomer, IInv, SessionsOK
    <2>2. QED
        BY <2>1 DEF RoleOf, Accounts, Registered, Row, IInv, TypeOK
<1>2. /\ customer' = [customer EXCEPT ![c] = [customer[c] EXCEPT !.contact = contact]]
      /\ End(s) /\ UNCHANGED <<admin, token, clock, lastActive>>
    BY <1>1 DEF UpdateCustomer, NameAndPhone, IInv, TypeOK
<1> HIDE DEF c
<1>3. [customer[c] EXCEPT !.contact = contact] \in CustomerRow
    BY <1>1 DEF CustomerRow
<1>4. [customer[c] EXCEPT !.contact = contact].active = customer[c].active
    BY <1>1 DEF CustomerRow
<1>5. \A u \in Accounts : Registered(u)' = Registered(u) /\ Active(u)' = Active(u)
    <2>1. SUFFICES ASSUME NEW u \in Accounts
                   PROVE  Registered(u)' = Registered(u) /\ Active(u)' = Active(u)
        OBVIOUS
    <2>2. CASE u = c
        BY <1>1, <1>2, <1>3, <1>4, <2>2, NoRowAssumption DEF Registered, Active, Row, IInv, TypeOK
    <2>3. CASE u # c
        BY <1>2, <2>3 DEF Registered, Active, Row, IInv, TypeOK, Accounts
    <2>4. QED
        BY <2>2, <2>3
<1>6. TypeOK'
    <2>1. /\ pc' \in [Sessions -> Route \cup {"idle", "sign", "update"}]
          /\ work' \in [Sessions -> Work]
        BY <1>2, NoWorkType DEF End, IInv, TypeOK
    <2>2. customer' \in [Customers -> CustomerRow \cup {NoRow}]
        BY <1>2, <1>3 DEF IInv, TypeOK
    <2>3. QED
        BY <1>2, <2>1, <2>2 DEF IInv, TypeOK
<1>7. ActiveNow'
    BY <1>2, <1>5 DEF IInv, ActiveNow
<1>8. TokensOK'
    BY <1>2, <1>5 DEF IInv, TokensOK, TypeOK, Token
<1>9. SessionsOK'
    BY <1>2, <1>5 DEF IInv, SessionsOK, TypeOK, End, NoWork
<1>10. QED
    BY <1>5, <1>6, <1>7, <1>8, <1>9 DEF IInv

-----------------------------------------------------------------------------
LEMMA TickStep ==
    ASSUME IInv, Tick
    PROVE  IInv'
<1>1. \A u : Registered(u)' = Registered(u) /\ Active(u)' = Active(u)
    BY DEF Tick, Registered, Active, Row
<1>2. /\ clock \in Nat /\ clock' = clock + 1 /\ UNCHANGED <<customer, admin, token, pc, work>>
      /\ \A u \in Accounts : lastActive'[u] = IF Active(u) THEN clock + 1 ELSE lastActive[u]
      /\ lastActive' \in [Accounts -> Nat] /\ lastActive \in [Accounts -> Nat]
    BY DEF Tick, IInv, TypeOK
<1>3. TypeOK'
    BY <1>2 DEF IInv, TypeOK
<1>4. ActiveNow' /\ \A u \in Accounts : lastActive[u] <= lastActive'[u]
    BY <1>1, <1>2 DEF IInv, ActiveNow
<1>5. TokensOK'
    <2>1. SUFFICES ASSUME NEW t \in token
                   PROVE  /\ Registered(t.user)' /\ t.role = RoleOf(t.user)
                          /\ t.late \/ t.exp <= lastActive'[t.user] + TTL
        BY <1>2 DEF TokensOK
    <2>2. t.user \in Accounts /\ t.exp \in Nat
        BY DEF IInv, TypeOK, Token
    <2>3. /\ Registered(t.user) /\ t.role = RoleOf(t.user)
          /\ t.late \/ t.exp <= lastActive[t.user] + TTL
        BY DEF IInv, TokensOK
    <2>4. QED
        BY <1>1, <1>2, <1>4, <2>2, <2>3, TTLPositive
<1>6. SessionsOK'
    BY <1>1, <1>2 DEF IInv, SessionsOK
<1>7. QED
    BY <1>3, <1>4, <1>5, <1>6 DEF IInv

\* The account that is locked is not active any more, and the logins that
\* found it so are late.
LEMMA LockStep ==
    ASSUME IInv, NEW v \in Accounts, Lock(v)
    PROVE  /\ IInv'
           /\ \A u \in Accounts : Active(u)' => Active(u)
<1>1. TypeOK' /\ UNCHANGED <<token, clock, pc, lastActive>>
    <2>1. customer' \in [Customers -> CustomerRow \cup {NoRow}]
        <3>1. CASE v \in Admins
            BY <3>1 DEF Lock, IInv, TypeOK
        <3>2. CASE v \notin Admins
            <4>1. v \in Customers /\ customer[v] \in CustomerRow
                BY <3>2 DEF Lock, Active, Registered, Row, Accounts, IInv, TypeOK
            <4>2. [customer[v] EXCEPT !.active = FALSE] \in CustomerRow
                BY <4>1 DEF CustomerRow
            <4>3. QED
                BY <3>2, <4>1, <4>2 DEF Lock, IInv, TypeOK
        <3>3. QED
            BY <3>1, <3>2
    <2>2. admin' \in [Admins -> AdminRow]
        BY DEF Lock, IInv, TypeOK, AdminRow
    <2>3. work' \in [Sessions -> Work]
        BY DEF Lock, IInv, TypeOK, Work
    <2>4. QED
        BY <2>1, <2>2, <2>3 DEF Lock, IInv, TypeOK
<1>2. \A u \in Accounts : Registered(u)' = Registered(u)
                          /\ (u # v => Active(u)' = Active(u)) /\ (u = v => ~Active(u)')
    <2>1. SUFFICES ASSUME NEW u \in Accounts
                   PROVE  Row(u)' = IF u = v THEN [Row(u) EXCEPT !.active = FALSE] ELSE Row(u)
        <3>1. Row(v) \in CustomerRow \cup AdminRow
            BY DEF Lock, Active, Registered, Row, Accounts, IInv, TypeOK
        <3>2. [Row(v) EXCEPT !.active = FALSE] \in CustomerRow \cup AdminRow
            BY <3>1 DEF CustomerRow, AdminRow
        <3>3. [Row(v) EXCEPT !.active = FALSE].active = FALSE
            BY <3>1 DEF CustomerRow, AdminRow
        <3>4. [Row(v) EXCEPT !.active = FALSE] # NoRow
            BY <3>2, NoRowAssumption
        <3>5. QED
            BY <3>1, <3>3, <3>4, NoRowAssumption DEF Registered, Active
    <2>2. QED
        BY DEF Lock, Row, Accounts, IInv, TypeOK
<1>3. ActiveNow'
    BY <1>1, <1>2 DEF IInv, ActiveNow
<1>4. TokensOK'
    BY <1>1, <1>2 DEF IInv, TokensOK, TypeOK, Token
<1>5. SessionsOK'
    <2>1. SUFFICES ASSUME NEW s \in Sessions, pc[s] # "idle"
                   PROVE  (/\ work[s].user \in Accounts
                           /\ Registered(work[s].user)
                           /\ work[s].role = RoleOf(work[s].user)
                           /\ pc[s] = "sign" => work[s].late \/ Active(work[s].user)
                           /\ pc[s] \in Route => work[s].role \in allowedRoles[pc[s]]
                           /\ pc[s] = "update" => work[s].role = "CUSTOMER")'
        BY <1>1 DEF SessionsOK
    <2>2. PICK u \in Accounts, role \in Role :
              /\ work[s].user = u /\ work'[s].user = u
              /\ work[s].role = role /\ work'[s].role = role
        BY <2>1 DEF Lock, IInv, TypeOK, SessionsOK, Work
    <2>3. work'[s].late = (work[s].late \/ (pc[s] = "sign" /\ work[s].user = v))
        BY DEF Lock, IInv, TypeOK, Work
    <2>4. /\ Registered(u) /\ role = RoleOf(u)
          /\ pc[s] = "sign" => work[s].late \/ Active(u)
          /\ pc[s] \in Route => role \in allowedRoles[pc[s]]
          /\ pc[s] = "update" => role = "CUSTOMER"
        BY <2>1, <2>2 DEF IInv, SessionsOK
    <2>5. Registered(u)' /\ (pc[s] = "sign" => work'[s].late \/ Active(u)')
        BY <1>2, <2>2, <2>3, <2>4
    <2>6. QED
        BY <1>1, <2>2, <2>4, <2>5 DEF RoleOf, Registered, Active, Row
<1>6. QED
    BY <1>1, <1>2, <1>3, <1>4, <1>5 DEF IInv

-----------------------------------------------------------------------------
LEMMA NextInvariant == IInv /\ [Next]_vars => IInv'
<1>1. SUFFICES ASSUME IInv, [Next]_vars PROVE IInv'
    OBVIOUS
<1>2. CASE UNCHANGED vars
    <2>1. \A u : Registered(u)' = Registered(u) /\ Active(u)' = Active(u)
        BY <1>2 DEF vars, Registered, Active, Row
    <2>2. QED
        BY <1>1, <1>2, <2>1 DEF vars, IInv, TypeOK, ActiveNow, TokensOK, SessionsOK
<1>3. CASE \E c \in Customers, e \in Spellings, contact \in Contacts :
               RegisterCustomer(c, e, contact)
    BY <1>1, <1>3, RegisterStep
<1>4. ASSUME NEW s \in Sessions, NEW c \in Customers, NEW e \in Spellings, LoginCustomer(s, c, e)
      PROVE  IInv'
    <2>1. c \in Accounts /\ RoleOf(c) = "CUSTOMER"
        BY AccountsAssumption DEF Accounts, RoleOf
    <2>2. QED
        BY <1>1, <1>4, <2>1, FindAccountStep DEF LoginCustomer
<1>5. ASSUME NEW s \in Sessions, NEW a \in Admins, NEW e \in Spellings, LoginAdmin(s, a, e)
      PROVE  IInv'
    <2>1. a \in Accounts /\ RoleOf(a) = "ADMIN"
        BY DEF Accounts, RoleOf
    <2>2. QED
        BY <1>1, <1>5, <2>1, FindAccountStep DEF LoginAdmin
<1>6. ASSUME NEW s \in Sessions, SignWithTTL(s) PROVE IInv'
    BY <1>1, <1>6, SignStep
<1>7. ASSUME NEW s \in Sessions, NEW t \in token, NEW route \in Route, Admit(s, t, route)
      PROVE  IInv'
    BY <1>1, <1>7, AdmitStep
<1>8. ASSUME NEW s \in Sessions, Serve(s) \/ Fail(s) PROVE IInv'
    BY <1>1, <1>8, EndStep DEF Serve, Fail
<1>9. ASSUME NEW s \in Sessions, GetCustomerByID(s) PROVE IInv'
    BY <1>1, <1>9, GetCustomerByIDStep
<1>10. ASSUME NEW s \in Sessions, NEW contact \in Contacts, UpdateCustomer(s, contact)
       PROVE  IInv'
    BY <1>1, <1>10, UpdateCustomerStep
<1>11. CASE Tick
    BY <1>1, <1>11, TickStep
<1>12. CASE \E u \in Accounts : Lock(u)
    BY <1>1, <1>12, LockStep
<1>13. QED
    BY <1>1, <1>2, <1>3, <1>4, <1>5, <1>6, <1>7, <1>8, <1>9, <1>10, <1>11, <1>12 DEF Next

\* What the middleware relies on of tokens, accounts and requests always holds.
THEOREM AccessInvariance == Spec => []IInv
BY InitInvariant, NextInvariant, PTL DEF Spec

\* The tables, the tokens and the requests keep their types.
THEOREM AccessTypeCorrect == Spec => []TypeOK
<1>1. IInv => TypeOK
    BY DEF IInv
<1>2. QED
    BY <1>1, AccessInvariance, PTL

\* Customers and administrators are never served each other's routes.
THEOREM RolesAreKeptApart == Spec => []RolesKeptApart
<1>1. IInv => RolesKeptApart
    <2>1. SUFFICES ASSUME IInv, NEW s \in Sessions
                   PROVE  /\ pc[s] = "admin" => work[s].user \in Admins
                          /\ pc[s] \in {"customer", "profile", "update"} =>
                                /\ work[s].user \in Customers
                                /\ customer[work[s].user] # NoRow
        BY DEF RolesKeptApart
    <2>2. CASE pc[s] = "admin"
        BY <2>1, <2>2 DEF IInv, SessionsOK, Route, allowedRoles, RoleOf
    <2>3. CASE pc[s] \in {"customer", "profile", "update"}
        <3>1. /\ work[s].user \in Accounts /\ Registered(work[s].user)
              /\ RoleOf(work[s].user) = "CUSTOMER"
            BY <2>1, <2>3 DEF IInv, SessionsOK, Route, allowedRoles
        <3>2. QED
            BY <2>3, <3>1 DEF RoleOf, Accounts, Registered, Row
    <2>4. QED
        BY <2>2, <2>3
<1>2. QED
    BY <1>1, AccessInvariance, PTL

-----------------------------------------------------------------------------
\* No token lets a request in more than one TTL after its account was locked,
\* except one that a login signed for which the lock came too late.
THEOREM LockTakesEffectWithinTTL == Spec => LockedOutWithinTTL
<1>1. IInv /\ [Next]_vars =>
          [\A s \in Sessions :
              pc[s] = "idle" /\ pc'[s] \in Route =>
                  \/ clock < lastActive[work'[s].user] + TTL
                  \/ \E t \in token : t.user = work'[s].user /\ t.late /\ clock < t.exp]_vars
    <2>1. SUFFICES ASSUME IInv, Next, NEW s \in Sessions, pc[s] = "idle", pc'[s] \in Route
                   PROVE  \/ clock < lastActive[work'[s].user] + TTL
                          \/ \E t \in token : t.user = work'[s].user /\ t.late /\ clock < t.exp
        OBVIOUS
    <2>2. PICK t \in token, route \in Route : Admit(s, t, route)
        <3>1. /\ "idle" \notin Route /\ "sign" \notin Route /\ "update" \notin Route
              /\ pc \in [Sessions -> Route \cup {"idle", "sign", "update"}]
            BY <2>1 DEF Route, IInv, TypeOK
        <3>2. ASSUME NEW x \in Sessions,
                     \/ SignWithTTL(x) \/ Serve(x) \/ GetCustomerByID(x) \/ Fail(x)
                     \/ \E contact \in Contacts : UpdateCustomer(x, contact)
                     \/ \E u \in Accounts, role \in Role, e \in Spellings : FindAccount(x, u, role, e)
              PROVE  FALSE
            BY <2>1, <3>1, <3>2
            DEF SignWithTTL, Serve, GetCustomerByID, Fail, UpdateCustomer, FindAccount, Begin, End
        <3>3. ASSUME NEW x \in Sessions, NEW t \in token, NEW route \in Route, Admit(x, t, route)
              PROVE  x = s
            BY <2>1, <3>1, <3>3 DEF Admit, Begin
        <3>4. ASSUME pc' = pc PROVE FALSE
            BY <2>1, <3>1, <3>4
        <3>5. /\ \A c \in Customers, e \in Spellings, contact \in Contacts :
                    RegisterCustomer(c, e, contact) => pc' = pc
              /\ Tick => pc' = pc
              /\ \A u \in Accounts : Lock(u) => pc' = pc
            BY DEF RegisterCustomer, Tick, Lock
        <3>6. /\ \A x \in Sessions, c \in Customers, e \in Spellings : LoginCustomer(x, c, e) =>
                    c \in Accounts /\ "CUSTOMER" \in Role /\ FindAccount(x, c, "CUSTOMER", e)
              /\ \A x \in Sessions, a \in Admins, e \in Spellings : LoginAdmin(x, a, e) =>
                    a \in Accounts /\ "ADMIN" \in Role /\ FindAccount(x, a, "ADMIN", e)
            BY DEF LoginCustomer, LoginAdmin, Accounts, Role
        <3>7. QED
            BY <2>1, <3>2, <3>3, <3>4, <3>5, <3>6 DEF Next
    <2>3. /\ t \in Token /\ clock < t.exp /\ work'[s].user = t.user /\ clock \in Nat
          /\ t.late \/ t.exp <= lastActive[t.user] + TTL
        BY <2>1, <2>2 DEF Admit, Valid, Begin, IInv, TypeOK, TokensOK
    <2>4. t.exp \in Nat /\ lastActive[t.user] \in Nat /\ TTL \in Nat
        BY <2>1, <2>3, TTLPositive DEF Token, IInv, TypeOK
    <2>5. QED
        BY <2>3, <2>4
<1>2. QED
    BY <1>1, AccessInvariance, PTL DEF Spec, LockedOutWithinTTL

\* No request unlocks an account, in whatever order its statements and the
\* lock come.
THEOREM LocksStay == Spec => LockStays
<1>1. IInv /\ [Next]_vars =>
          [\A u \in Accounts : Registered(u) /\ ~Active(u) => ~Active(u)']_vars
    <2>1. SUFFICES ASSUME IInv, Next, NEW u \in Accounts, Registered(u), Active(u)'
                   PROVE  Active(u)
        OBVIOUS
    <2>2. CASE UNCHANGED <<customer, admin>>
        BY <2>1, <2>2 DEF Active, Registered, Row
    <2>3. ASSUME NEW c \in Customers, NEW e \in Spellings, NEW contact \in Contacts,
                 RegisterCustomer(c, e, contact)
          PROVE  Active(u)
        <3>1. u # c
            BY <2>1, <2>3, AccountsAssumption DEF RegisterCustomer, Registered, Row
        <3>2. QED
            BY <2>1, <2>3, <3>1 DEF RegisterCustomer, Active, Registered, Row, IInv, TypeOK, Accounts
    <2>4. ASSUME NEW s \in Sessions, NEW contact \in Contacts, UpdateCustomer(s, contact)
          PROVE  Active(u)
        BY <2>1, <2>4, UpdateCustomerStep
    <2>5. ASSUME NEW v \in Accounts, Lock(v) PROVE Active(u)
        BY <2>1, <2>5, LockStep
    <2>6. ASSUME NEW s \in Sessions,
                 \/ SignWithTTL(s) \/ Serve(s) \/ GetCustomerByID(s) \/ Fail(s)
                 \/ \E t \in token, route \in Route : Admit(s, t, route)
                 \/ \E c \in Customers, e \in Spellings : LoginCustomer(s, c, e)
                 \/ \E a \in Admins, e \in Spellings : LoginAdmin(s, a, e)
          PROVE  UNCHANGED <<customer, admin>>
        BY <2>6 DEF SignWithTTL, Serve, GetCustomerByID, Fail, Admit, LoginCustomer, LoginAdmin,
                    FindAccount
    <2>7. Tick => UNCHANGED <<customer, admin>>
        BY DEF Tick
    <2>8. QED
        BY <2>1, <2>2, <2>3, <2>4, <2>5, <2>6, <2>7 DEF Next
<1>2. QED
    BY <1>1, AccessInvariance, PTL DEF Spec, LockStays

-----------------------------------------------------------------------------
\* Only registration touches the addresses of customers.
LEMMA EmailsKept ==
    ASSUME IInv, Next,
           ~ \E c \in Customers, e \in Spellings, contact \in Contacts : RegisterCustomer(c, e, contact)
    PROVE  \A c \in Customers : customer'[c] # NoRow =>
               customer[c] # NoRow /\ customer'[c].email = customer[c].email
<1>1. CASE UNCHANGED customer
    BY <1>1
<1>2. ASSUME NEW s \in Sessions, NEW contact \in Contacts, UpdateCustomer(s, contact),
             NEW c \in Customers, customer'[c] # NoRow
      PROVE  customer[c] # NoRow /\ customer'[c].email = customer[c].email
    <2>1. /\ work[s].user \in Customers /\ customer[work[s].user] \in CustomerRow
          /\ customer[work[s].user] # NoRow
        BY <1>2 DEF UpdateCustomer, IInv, SessionsOK, TypeOK, RoleOf, Accounts, Registered, Row
    <2>2. QED
        BY <1>2, <2>1 DEF UpdateCustomer, NameAndPhone, CustomerRow, IInv, TypeOK
<1>3. ASSUME NEW u \in Accounts, Lock(u), NEW c \in Customers, customer'[c] # NoRow
      PROVE  customer[c] # NoRow /\ customer'[c].email = customer[c].email
    <2>1. CASE u \in Admins
        BY <1>3, <2>1 DEF Lock
    <2>2. CASE u \notin Admins
        <3>1. u \in Customers /\ customer[u] \in CustomerRow /\ customer[u] # NoRow
            BY <1>3, <2>2 DEF Lock, Active, Registered, Row, Accounts, IInv, TypeOK
        <3>2. QED
            BY <1>3, <2>2, <3>1 DEF Lock, CustomerRow, IInv, TypeOK
    <2>3. QED
        BY <2>1, <2>2
<1>4. ASSUME NEW s \in Sessions,
             \/ SignWithTTL(s) \/ Serve(s) \/ GetCustomerByID(s) \/ Fail(s)
             \/ \E t \in token, route \in Route : Admit(s, t, route)
             \/ \E c \in Customers, e \in Spellings : LoginCustomer(s, c, e)
             \/ \E a \in Admins, e \in Spellings : LoginAdmin(s, a, e)
      PROVE  UNCHANGED customer
    BY <1>4 DEF SignWithTTL, Serve, GetCustomerByID, Fail, Admit, LoginCustomer, LoginAdmin,
                FindAccount
<1>5. Tick => UNCHANGED customer
    BY DEF Tick
<1>6. QED
    BY <1>1, <1>2, <1>3, <1>4, <1>5 DEF Next

\* What is stored is spelt as it will be looked up.
LEMMA StoredIsNormal == \A e \in Emails : Normal[e] = e
BY NormalAssumption DEF Emails

\* An address belongs to one customer, however it was spelt.
THEOREM AddressesBelongToOne == Spec => []OneAccountPerAddress
<1>1. Init => OneAccountPerAddress
    BY DEF Init, OneAccountPerAddress
<1>2. IInv /\ OneAccountPerAddress /\ [Next]_vars => OneAccountPerAddress'
    <2>1. SUFFICES ASSUME IInv, OneAccountPerAddress, [Next]_vars,
                          NEW c \in Customers, NEW d \in Customers,
                          customer'[c] # NoRow, customer'[d] # NoRow,
                          Normal[customer'[c].email] = Normal[customer'[d].email]
                   PROVE  c = d
        BY DEF OneAccountPerAddress
    <2>2. CASE UNCHANGED vars
        BY <2>1, <2>2 DEF vars, OneAccountPerAddress
    <2>3. ASSUME NEW b \in Customers, NEW e \in Spellings, NEW contact \in Contacts,
                 RegisterCustomer(b, e, contact)
          PROVE  c = d
        <3>1. /\ customer'[b].email = Stored(e)
              /\ \A k \in Customers \ {b} : customer'[k] = customer[k]
              /\ \A k \in Customers : customer[k] # NoRow => customer[k].email # Stored(e)
            BY <2>1, <2>3 DEF RegisterCustomer, EmailTaken, IInv, TypeOK, CustomerRow
        <3>2. \A k \in Customers : customer[k] # NoRow =>
                  Normal[customer[k].email] # Normal[Stored(e)]
            <4>1. Stored(e) \in Emails
                BY StoredNormal
            <4>2. \A k \in Customers : customer[k] # NoRow => customer[k].email \in Emails
                BY <2>1 DEF IInv, TypeOK, CustomerRow
            <4>3. QED
                BY <3>1, <4>1, <4>2, StoredIsNormal
        <3>3. QED
            BY <2>1, <3>1, <3>2 DEF OneAccountPerAddress
    <2>4. CASE Next /\ ~ \E k \in Customers, e \in Spellings, contact \in Contacts :
                            RegisterCustomer(k, e, contact)
        BY <2>1, <2>4, EmailsKept DEF OneAccountPerAddress
    <2>5. QED
        BY <2>1, <2>2, <2>3, <2>4
<1>3. QED
    BY <1>1, <1>2, AccessInvariance, PTL DEF Spec
=============================================================================
