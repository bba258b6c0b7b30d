------------------------------- MODULE Addresses -------------------------------
(***************************************************************************)
(* The address book of the customers.  CreateAddress, UpdateAddress and    *)
(* DeleteAddress are sequences of statements that commit one by one: no    *)
(* transaction holds them together, so requests of one customer interleave *)
(* between their statements, and one that fails keeps what it has done.    *)
(*                                                                         *)
(* Of an address only its owner and is_default matter; validateAddress and *)
(* the texts it looks at are left out.  A statement is atomic.             *)
(***************************************************************************)
CONSTANTS
    Customers, AddressIds,
    Sessions,   \* database connections that serve requests
    NoRow       \* no row, no request

VARIABLES
    address,   \* the customer_addresses table
    pc,        \* the statement a session executes next
    request,   \* the request a session serves
    outdated,  \* observer: the sessions since whose UnsetDefaults another
               \* request of their customer has written a default
    doubled    \* observer: the customers whose last default was written by
               \* such a session

vars == <<address, pc, request, outdated, doubled>>

CustomerAddress == [customer : Customers, isDefault : BOOLEAN]

UpsertRequest == [kind : {"create"}, customer : Customers, isDefault : BOOLEAN]
    \cup [kind : {"update"}, customer : Customers, id : AddressIds, isDefault : BOOLEAN]
Request ==
    UpsertRequest \cup [kind : {"delete"}, customer : Customers, id : AddressIds]

ASSUME NoRowAssumption == NoRow \notin CustomerAddress /\ NoRow \notin Request

OwnedBy(a, c) == address[a] # NoRow /\ address[a].customer = c

\* Session s has found the row its request names.
HasFound(s) == pc[s] \in {"unset", "write"} /\ request[s].kind # "create"

\* Beside the types: the row a session has found, and is going to write or to
\* delete, is still its customer's, unless it has been deleted, and no other
\* customer's session has found it.
TypeOK ==
    /\ address \in [AddressIds -> CustomerAddress \cup {NoRow}]
    /\ pc \in [Sessions -> {"idle", "find", "unset", "write"}]
    /\ request \in [Sessions -> Request \cup {NoRow}]
    /\ \A s \in Sessions : pc[s] = "idle" <=> request[s] = NoRow
    /\ outdated \in SUBSET {s \in Sessions : pc[s] = "write"}
    /\ doubled \in SUBSET Customers
    /\ \A s \in Sessions : HasFound(s) =>
           /\ address[request[s].id] = NoRow \/ OwnedBy(request[s].id, request[s].customer)
           /\ \A t \in Sessions : (HasFound(t) /\ request[t].id = request[s].id)
                                  => request[t].customer = request[s].customer

DefaultsOf(c) == {a \in AddressIds : OwnedBy(a, c) /\ address[a].isDefault}

-----------------------------------------------------------------------------
\* Mutant: UpdateAddress does not unset the other defaults.
AfterFindOnlyCreatesUnset(r) == IF r.kind = "create" /\ r.isDefault THEN "unset" ELSE "write"

\* The next statement of a request after the row it names, if any, was found.
AfterFind(r) == IF r.kind # "delete" /\ r.isDefault THEN "unset" ELSE "write"

Goto(s, label) == pc' = [pc EXCEPT ![s] = label] /\ UNCHANGED <<request, doubled>>

End(s) ==
    /\ pc' = [pc EXCEPT ![s] = "idle"]
    /\ request' = [request EXCEPT ![s] = NoRow]

Begin(s, r) ==
    /\ pc[s] = "idle"
    /\ pc' = [pc EXCEPT ![s] = IF r.kind = "create" THEN AfterFind(r) ELSE "find"]
    /\ request' = [request EXCEPT ![s] = r]
    /\ UNCHANGED <<address, outdated, doubled>>

\* Mutant: the row is looked up by its identifier alone.
FoundForAnyone(a, c) == address[a] # NoRow

\* The row GetAddressByID returns.
Found(a, c) == OwnedBy(a, c)

GetAddressByID(s) ==
    /\ pc[s] = "find"
    /\ IF Found(request[s].id, request[s].customer)
       THEN Goto(s, AfterFind(request[s]))
       ELSE End(s) /\ UNCHANGED doubled
    /\ UNCHANGED <<address, outdated>>

\* Mutant: the defaults of all customers are unset.
UnsetOfAll(c) ==
    [a \in AddressIds |-> IF address[a] # NoRow
                          THEN [address[a] EXCEPT !.isDefault = FALSE]
                          ELSE NoRow]

Unset(c) ==
    [a \in AddressIds |-> IF OwnedBy(a, c)
                          THEN [address[a] EXCEPT !.isDefault = FALSE]
                          ELSE address[a]]

UnsetDefaultAddresses(s) ==
    /\ pc[s] = "unset"
    /\ address' = Unset(request[s].customer)
    /\ Goto(s, "write")
    /\ UNCHANGED outdated

\* What the observers note when the request of s writes row a.
Observe(s) ==
    LET r == request[s] IN
    IF r.isDefault
    THEN /\ outdated' = (outdated \cup
             {t \in Sessions : /\ pc[t] = "write"
                               /\ request[t].customer = r.customer}) \ {s}
         /\ doubled' = IF s \in outdated THEN doubled \cup {r.customer}
                                         ELSE doubled \ {r.customer}
    ELSE outdated' = outdated \ {s} /\ UNCHANGED doubled

\* The new row gets an identifier that no request has named before.
CreateAddress(s, a) ==
    /\ pc[s] = "write"
    /\ request[s].kind = "create"
    /\ address[a] = NoRow
    /\ \A t \in Sessions : (pc[t] # "idle" /\ request[t].kind # "create") => request[t].id # a
    /\ address' = [address EXCEPT ![a] =
           [customer |-> request[s].customer, isDefault |-> request[s].isDefault]]
    /\ Observe(s)
    /\ End(s)

\* Save writes the whole row that was found, its owner included, and inserts it
\* again if it has been deleted since.
UpdateAddress(s) ==
    LET a == request[s].id IN
    /\ pc[s] = "write"
    /\ request[s].kind = "update"
    /\ address' = [address EXCEPT ![a] =
           [customer |-> request[s].customer, isDefault |-> request[s].isDefault]]
    /\ Observe(s)
    /\ End(s)

DeleteAddress(s) ==
    LET a == request[s].id IN
    /\ pc[s] = "write"
    /\ request[s].kind = "delete"
    /\ address' = IF OwnedBy(a, request[s].customer) THEN [address EXCEPT ![a] = NoRow]
                                                     ELSE address
    /\ End(s)
    /\ outdated' = outdated \ {s}
    /\ UNCHANGED doubled

\* A statement fails, the connection breaks or the server stops: what was
\* written stays.
Fail(s) ==
    /\ pc[s] # "idle"
    /\ End(s)
    /\ outdated' = outdated \ {s}
    /\ UNCHANGED <<address, doubled>>

Init ==
    /\ address = [a \in AddressIds |-> NoRow]
    /\ pc = [s \in Sessions |-> "idle"]
    /\ request = [s \in Sessions |-> NoRow]
    /\ outdated = {}
    /\ doubled = {}

Next ==
    \E s \in Sessions :
        \/ \E r \in Request : Begin(s, r)
        \/ GetAddressByID(s)
        \/ UnsetDefaultAddresses(s)
        \/ \E a \in AddressIds : CreateAddress(s, a)
        \/ UpdateAddress(s)
        \/ DeleteAddress(s)
        \/ Fail(s)

Spec == Init /\ [][Next]_vars

-----------------------------------------------------------------------------
(***************************************************************************)
(* Properties.                                                             *)
(***************************************************************************)

\* A customer has several default addresses only if two requests that set
\* the default overlapped, each unsetting before the other wrote; whatever
\* fails or is deleted in between, requests that follow one another leave at
\* most one, and the next undisturbed one repairs what an overlap left.
OneDefaultUnlessOverlapped ==
    \A c \in Customers \ doubled : \A a, b \in DefaultsOf(c) : a = b

\* A customer's requests change nobody else's addresses, and no address
\* changes hands, even if it is deleted and saved again meanwhile.
OwnAddressesOnly ==
    [][\A a \in AddressIds : address'[a] # address[a] =>
          \E s \in Sessions :
              /\ pc[s] # "idle" /\ pc'[s] # pc[s]
              /\ \A row \in {address[a], address'[a]} \ {NoRow} :
                     row.customer = request[s].customer]_vars

-----------------------------------------------------------------------------
\* A request about to write a default that no other has overtaken has left
\* its customer without one.
UnsetBeforeWrite ==
    \A s \in Sessions \ outdated :
        (pc[s] = "write" /\ request[s].kind # "delete" /\ request[s].isDefault)
        => DefaultsOf(request[s].customer) = {}

\* The inductive invariant that OneDefaultUnlessOverlapped follows from.
IInv == TypeOK /\ UnsetBeforeWrite /\ OneDefaultUnlessOverlapped
=============================================================================
