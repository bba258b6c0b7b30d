--------------------------------- MODULE Access ---------------------------------
(***************************************************************************)
(* Who is answered: registration, login, the tokens login issues and the   *)
(* checks of AuthJWT and RequireRoles in front of every other request.     *)
(*                                                                         *)
(* A token is believed until it expires; is_active is looked at by login   *)
(* only.  Login reads the account, compares the password and then signs,   *)
(* so the account can be locked and time can pass in between; a request    *)
(* is checked when it arrives and does its work later.  Locking an account *)
(* is left to the operator of the database: no request does it.            *)
(* Hashes and signatures are those of the libraries: a login is by one who *)
(* knows the password, and a token that parses has been issued here.       *)
(***************************************************************************)
EXTENDS Integers, FiniteSets

CONSTANTS
    Customers,   \* identifiers a row of customers may get
    Admins,      \* the rows of admin_users
    Spellings,   \* the ways requests write e-mail addresses
    Normal,      \* ToLower and TrimSpace of a spelling
    Contacts,    \* the name and phone number of a customer
    Sessions,    \* goroutines that serve requests
    TTLSetting,  \* the number JWT_TTL_HOURS is read as, 0 for none
    NoRow

Accounts == Customers \cup Admins
Emails == {Normal[e] : e \in Spellings}

ASSUME NormalAssumption ==
    /\ Normal \in [Spellings -> Spellings]
    /\ \A e \in Spellings : Normal[Normal[e]] = Normal[e]
ASSUME AccountsAssumption == Customers \cap Admins = {}
ASSUME TTLSettingAssumption == TTLSetting \in Int

\* NewService: a setting that is no positive number counts as 24 hours.
TTL == IF TTLSetting > 0 THEN TTLSetting ELSE 24

CustomerRow == [email : Emails, active : BOOLEAN, contact : Contacts]
AdminRow == [email : Emails, active : BOOLEAN]

ASSUME NoRowAssumption == NoRow \notin CustomerRow \cup AdminRow \cup Accounts

Role == {"CUSTOMER", "ADMIN"}

\* late only observes: the account was locked while the login was running.
Token == [user : Accounts, role : Role, exp : Nat, late : BOOLEAN]

\* The groups of routes; profile is the one of them that changes an account.
Route == {"me", "customer", "profile", "admin"}
allowedRoles ==
    [me |-> {"CUSTOMER", "ADMIN"}, customer |-> {"CUSTOMER"},
     profile |-> {"CUSTOMER"}, admin |-> {"ADMIN"}]

VARIABLES
    customer,    \* the customers table
    admin,       \* the admin_users table
    token,       \* the tokens issued
    clock,       \* the time of day
    pc,          \* what a session does next: sign, write a profile, or answer
    work,        \* the account and role it does it for
    lastActive   \* observer: when an account was last not locked

vars == <<customer, admin, token, clock, pc, work, lastActive>>

\* read: the customer's row as UpdateProfile has read it.
Work == [user : Accounts \cup {NoRow}, role : Role, late : BOOLEAN,
         read : CustomerRow \cup {NoRow}]
NoWork == [user |-> NoRow, role |-> "CUSTOMER", late |-> FALSE, read |-> NoRow]

-----------------------------------------------------------------------------
Row(u) == IF u \in Admins THEN admin[u] ELSE customer[u]
Registered(u) == Row(u) # NoRow
Active(u) == Registered(u) /\ Row(u).active

\* Mutant: the address is stored as it was typed.
AsTyped(e) == e

Stored(e) == Normal[e]

\* Mutant: the column has no unique index.
EmailNeverTaken(e) == FALSE

EmailTaken(e) == \E c \in Customers : customer[c] # NoRow /\ customer[c].email = e

Begin(s, label, u, role, read) ==
    /\ pc[s] = "idle"
    /\ pc' = [pc EXCEPT ![s] = label]
    /\ work' = [work EXCEPT ![s] = [user |-> u, role |-> role, late |-> FALSE, read |-> read]]

End(s) ==
    /\ pc' = [pc EXCEPT ![s] = "idle"]
    /\ work' = [work EXCEPT ![s] = NoWork]

-----------------------------------------------------------------------------
(***************************************************************************)
(* Registration and login.                                                 *)
(***************************************************************************)

\* One INSERT; the unique index refuses the second of two at once.
RegisterCustomer(c, e, contact) ==
    /\ customer[c] = NoRow
    /\ ~EmailTaken(Stored(e))
    /\ customer' = [customer EXCEPT ![c] =
           [email |-> Stored(e), active |-> TRUE, contact |-> contact]]
    /\ lastActive' = [lastActive EXCEPT ![c] = clock]
    /\ UNCHANGED <<admin, token, clock, pc, work>>

\* Mutant: a locked account may log in.
MayLogInLocked(u) == Registered(u)

MayLogIn(u) == Active(u)

\* The row is read, and the account is not locked.
FindAccount(s, u, role, e) ==
    /\ Registered(u)
    /\ MayLogIn(u)
    /\ Row(u).email = Normal[e]
    /\ Begin(s, "sign", u, role, NoRow)
    /\ UNCHANGED <<customer, admin, token, clock, lastActive>>

LoginCustomer(s, c, e) == FindAccount(s, c, "CUSTOMER", e)

\* The role is the same for all rows: the column role is only displayed.
LoginAdmin(s, a, e) == FindAccount(s, a, "ADMIN", e)

SignWithTTL(s) ==
    /\ pc[s] = "sign"
    /\ token' = token \cup {[user |-> work[s].user, role |-> work[s].role,
                             exp |-> clock + TTL, late |-> work[s].late]}
    /\ End(s)
    /\ UNCHANGED <<customer, admin, clock, lastActive>>

-----------------------------------------------------------------------------
(***************************************************************************)
(* Requests with a token.                                                  *)
(***************************************************************************)

\* Mutant: exp is not looked at.
NeverExpired(t) == TRUE

\* Parse accepts the token.
Valid(t) == clock < t.exp

\* Mutant: every role is let in.
AnyRole(t, route) == TRUE

RoleAllowed(t, route) == t.role \in allowedRoles[route]

\* AuthJWT and RequireRoles let the request in.
Admit(s, t, route) ==
    /\ Valid(t)
    /\ RoleAllowed(t, route)
    /\ Begin(s, route, t.user, t.role, NoRow)
    /\ UNCHANGED <<customer, admin, token, clock, lastActive>>

\* The handler does its work, in other modules, and answers.
Serve(s) ==
    /\ pc[s] \in {"me", "customer", "admin"}
    /\ End(s)
    /\ UNCHANGED <<customer, admin, token, clock, lastActive>>

\* UpdateProfile reads the row of the token's user.
GetCustomerByID(s) ==
    /\ pc[s] = "profile"
    /\ pc' = [pc EXCEPT ![s] = "update"]
    /\ work' = [work EXCEPT ![s].read = customer[work[s].user]]
    /\ UNCHANGED <<customer, admin, token, clock, lastActive>>

\* Mutant: the whole row that was read is written back.
WholeRow(row, read, contact) == [read EXCEPT !.contact = contact]

\* Of the row that was read only name and phone are written.
NameAndPhone(row, read, contact) == [row EXCEPT !.contact = contact]

UpdateCustomer(s, contact) ==
    LET c == work[s].user IN
    /\ pc[s] = "update"
    /\ customer' = [customer EXCEPT ![c] = NameAndPhone(@, work[s].read, contact)]
    /\ End(s)
    /\ UNCHANGED <<admin, token, clock, lastActive>>

\* A request fails, or the server stops; tokens are kept by their holders.
Fail(s) ==
    /\ pc[s] # "idle"
    /\ End(s)
    /\ UNCHANGED <<customer, admin, token, clock, lastActive>>

-----------------------------------------------------------------------------
(***************************************************************************)
(* Time, and the operator of the database.                                 *)
(***************************************************************************)

Tick ==
    /\ clock' = clock + 1
    /\ lastActive' = [u \in Accounts |-> IF Active(u) THEN clock + 1 ELSE lastActive[u]]
    /\ UNCHANGED <<customer, admin, token, pc, work>>

\* is_active is set to false by hand.
Lock(u) ==
    /\ Active(u)
    /\ customer' = IF u \in Admins THEN customer ELSE [customer EXCEPT ![u].active = FALSE]
    /\ admin' = IF u \in Admins THEN [admin EXCEPT ![u].active = FALSE] ELSE admin
    /\ work' = [s \in Sessions |->
                   [work[s] EXCEPT !.late = @ \/ (pc[s] = "sign" /\ work[s].user = u)]]
    /\ UNCHANGED <<token, clock, pc, lastActive>>

-----------------------------------------------------------------------------
\* Administrators come from the migrations.
Init ==
    /\ customer = [c \in Customers |-> NoRow]
    /\ admin \in [Admins -> AdminRow]
    /\ \A a, b \in Admins : a # b => admin[a].email # admin[b].email
    /\ \A a \in Admins : admin[a].active
    /\ token = {}
    /\ clock = 0
    /\ pc = [s \in Sessions |-> "idle"]
    /\ work = [s \in Sessions |-> NoWork]
    /\ lastActive = [u \in Accounts |-> 0]

Next ==
    \/ \E c \in Customers, e \in Spellings, contact \in Contacts : RegisterCustomer(c, e, contact)
    \/ \E s \in Sessions :
          \/ \E c \in Customers, e \in Spellings : LoginCustomer(s, c, e)
          \/ \E a \in Admins, e \in Spellings : LoginAdmin(s, a, e)
          \/ SignWithTTL(s)
          \/ \E t \in token, route \in Route : Admit(s, t, route)
          \/ Serve(s)
          \/ GetCustomerByID(s)
          \/ \E contact \in Contacts : UpdateCustomer(s, contact)
          \/ Fail(s)
    \/ Tick
    \/ \E u \in Accounts : Lock(u)

Spec == Init /\ [][Next]_vars

-----------------------------------------------------------------------------
(***************************************************************************)
(* Properties.                                                             *)
(***************************************************************************)

\* Rows hold addresses in their normal spelling, the one login looks for.
TypeOK ==
    /\ customer \in [Customers -> CustomerRow \cup {NoRow}]
    /\ admin \in [Admins -> AdminRow]
    /\ token \in SUBSET Token
    /\ clock \in Nat
    /\ pc \in [Sessions -> Route \cup {"idle", "sign", "update"}]
    /\ work \in [Sessions -> Work]
    /\ lastActive \in [Accounts -> Nat]

\* However registrations overlap and whatever way they spell it, an address
\* belongs to one customer (internal/auth/service.go:71-76).
OneAccountPerAddress ==
    \A c, d \in Customers :
        (/\ customer[c] # NoRow /\ customer[d] # NoRow
         /\ Normal[customer[c].email] = Normal[customer[d].email]) => c = d

\* A request is let in for an account at most one TTL after it was locked,
\* unless the token was signed by a login that was running at that moment:
\* no token outlives the account by more, although the middleware never looks
\* at the account again (internal/middleware/auth.go:12-30).
LockedOutWithinTTL ==
    [][\A s \in Sessions :
          pc[s] = "idle" /\ pc'[s] \in Route =>
              \/ clock < lastActive[work'[s].user] + TTL
              \/ \E t \in token : t.user = work'[s].user /\ t.late /\ clock < t.exp]_vars

\* The routes of administrators are served to rows of admin_users only, those
\* of customers to registered customers only, and so it stays while a request
\* is served, whatever is registered, locked or signed meanwhile.
RolesKeptApart ==
    \A s \in Sessions :
        /\ pc[s] = "admin" => work[s].user \in Admins
        /\ pc[s] \in {"customer", "profile", "update"} =>
              /\ work[s].user \in Customers
              /\ customer[work[s].user] # NoRow

\* A locked account stays locked: a profile request that read the row before
\* does not write is_active back (internal/customer/repository.go:21-23).
LockStays ==
    [][\A u \in Accounts : Registered(u) /\ ~Active(u) => ~Active(u)']_vars

-----------------------------------------------------------------------------
(***************************************************************************)
(* The inductive invariant that LockedOutWithinTTL and RolesKeptApart      *)
(* follow from.                                                            *)
(***************************************************************************)

RoleOf(u) == IF u \in Admins THEN "ADMIN" ELSE "CUSTOMER"

ActiveNow ==
    \A u \in Accounts : lastActive[u] <= clock /\ (Active(u) => lastActive[u] = clock)

\* What a token says is so, and its life began when its account was active.
TokensOK ==
    \A t \in token :
        /\ Registered(t.user)
        /\ t.role = RoleOf(t.user)
        /\ t.late \/ t.exp <= lastActive[t.user] + TTL

\* The same of the token a session is about to sign, and of the requests let in.
SessionsOK ==
    \A s \in Sessions :
        pc[s] # "idle" =>
            /\ work[s].user \in Accounts
            /\ Registered(work[s].user)
            /\ work[s].role = RoleOf(work[s].user)
            /\ pc[s] = "sign" => work[s].late \/ Active(work[s].user)
            /\ pc[s] \in Route => work[s].role \in allowedRoles[pc[s]]
            /\ pc[s] = "update" => work[s].role = "CUSTOMER"

IInv ==
    /\ TypeOK
    /\ ActiveNow
    /\ TokensOK
    /\ SessionsOK
=============================================================================
