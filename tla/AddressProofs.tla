----------------------------- MODULE AddressProofs -----------------------------
(***************************************************************************)
(* Theorems about Addresses, for any customers, addresses and sessions.    *)
(***************************************************************************)
EXTENDS Addresses, TLAPS

\* The fields of the requests, by their kind.
LEMMA RequestFields ==
  ASSUME NEW r \in Request
  PROVE  /\ r.kind \in {"create", "update", "delete"}
         /\ r.customer \in Customers
         /\ r.kind # "create" => r.id \in AddressIds
         /\ r.kind # "delete" => r.isDefault \in BOOLEAN
         /\ r # NoRow
BY NoRowAssumption DEF Request, UpsertRequest

\* A running session serves a request.
LEMMA RunningServes ==
  ASSUME TypeOK, NEW s \in Sessions, pc[s] # "idle"
  PROVE  request[s] \in Request
BY DEF TypeOK

\* What unsetting the defaults of a customer does to one row.
LEMMA UnsetRow ==
  ASSUME TypeOK, NEW a \in AddressIds, NEW c \in Customers
  PROVE  /\ Unset(c)[a] \in CustomerAddress \cup {NoRow}
         /\ Unset(c)[a] = NoRow <=> address[a] = NoRow
         /\ address[a] # NoRow => Unset(c)[a].customer = address[a].customer
         /\ Unset(c)[a] # address[a] => OwnedBy(a, c)
         /\ OwnedBy(a, c) => Unset(c)[a].isDefault = FALSE
<1>1. CASE OwnedBy(a, c)
  <2>1. address[a] \in CustomerAddress
    BY <1>1 DEF TypeOK, OwnedBy
  <2>2. Unset(c)[a] = [address[a] EXCEPT !.isDefault = FALSE]
    BY <1>1 DEF Unset
  <2>3. Unset(c)[a] \in CustomerAddress
    BY <2>1, <2>2 DEF CustomerAddress
  <2> QED
    BY <1>1, <2>1, <2>2, <2>3, NoRowAssumption DEF CustomerAddress, OwnedBy
<1>2. CASE ~OwnedBy(a, c)
  BY <1>2 DEF Unset, TypeOK
<1> QED
  BY <1>1, <1>2

\* Every step preserves the invariant about rows and sessions.
LEMMA TypeInvariance == TypeOK /\ [Next]_vars => TypeOK'
<1> SUFFICES ASSUME TypeOK, [Next]_vars PROVE TypeOK'
  OBVIOUS
<1>1. ASSUME NEW s \in Sessions, NEW r \in Request, Begin(s, r)
      PROVE  TypeOK'
  <2>1. pc'[s] = "find" \/ r.kind = "create"
    BY <1>1 DEF Begin, TypeOK
  <2> QED
    BY <1>1, <2>1, RequestFields DEF Begin, AfterFind, TypeOK, HasFound, OwnedBy
<1>2. ASSUME NEW s \in Sessions, GetAddressByID(s)
      PROVE  TypeOK'
  <2>1. request[s] \in Request
    BY <1>2, RunningServes DEF GetAddressByID
  <2>2. CASE Found(request[s].id, request[s].customer)
    BY <1>2, <2>1, <2>2, RequestFields
       DEF GetAddressByID, Found, Goto, AfterFind, TypeOK, HasFound, OwnedBy
  <2>3. CASE ~Found(request[s].id, request[s].customer)
    BY <1>2, <2>3 DEF GetAddressByID, End, TypeOK, HasFound, OwnedBy
  <2> QED
    BY <2>2, <2>3
<1>3. ASSUME NEW s \in Sessions, UnsetDefaultAddresses(s)
      PROVE  TypeOK'
  <2>1. request[s] \in Request /\ request[s].customer \in Customers
    BY <1>3, RunningServes, RequestFields DEF UnsetDefaultAddresses
  <2>2. address' \in [AddressIds -> CustomerAddress \cup {NoRow}]
    BY <1>3, <2>1, UnsetRow DEF UnsetDefaultAddresses, Unset
  <2>3. ASSUME NEW t \in Sessions, HasFound(t)
        PROVE  address'[request[t].id] = NoRow
               \/ OwnedBy(request[t].id, request[t].customer)'
    <3>1. request[t].id \in AddressIds
      BY <2>3, RunningServes, RequestFields DEF HasFound
    <3> QED
      BY <1>3, <2>1, <2>3, <3>1, UnsetRow
         DEF UnsetDefaultAddresses, Goto, TypeOK, OwnedBy
  <2>4. \A t \in Sessions : HasFound(t)' <=> HasFound(t)
    BY <1>3 DEF UnsetDefaultAddresses, Goto, TypeOK, HasFound
  <2> QED
    BY <1>3, <2>2, <2>3, <2>4 DEF UnsetDefaultAddresses, Goto, TypeOK, OwnedBy
<1>4. ASSUME NEW s \in Sessions, NEW a \in AddressIds, CreateAddress(s, a)
      PROVE  TypeOK'
  <2>1. request[s] \in Request /\ request[s].customer \in Customers
        /\ request[s].isDefault \in BOOLEAN
    BY <1>4, RunningServes, RequestFields DEF CreateAddress
  <2>2. \A t \in Sessions : HasFound(t) => request[t].id # a
    BY <1>4 DEF CreateAddress, HasFound
  <2>3. \A t \in Sessions : HasFound(t)' => HasFound(t) /\ t # s
    BY <1>4 DEF CreateAddress, End, TypeOK, HasFound
  <2> QED
    BY <1>4, <2>1, <2>2, <2>3
       DEF CreateAddress, Observe, End, TypeOK, OwnedBy, CustomerAddress
<1>5. ASSUME NEW s \in Sessions, UpdateAddress(s)
      PROVE  TypeOK'
  <2>1. request[s] \in Request /\ request[s].customer \in Customers
        /\ request[s].isDefault \in BOOLEAN /\ request[s].id \in AddressIds
    BY <1>5, RunningServes, RequestFields DEF UpdateAddress
  <2>2. address'[request[s].id].customer = request[s].customer
    BY <1>5, <2>1 DEF UpdateAddress, TypeOK
  <2>3. address' \in [AddressIds -> CustomerAddress \cup {NoRow}]
    BY <1>5, <2>1 DEF UpdateAddress, TypeOK, CustomerAddress
  <2>4. \A t \in Sessions : HasFound(t)' => HasFound(t) /\ t # s /\ request'[t] = request[t]
    BY <1>5 DEF UpdateAddress, End, TypeOK, HasFound
  <2>5. HasFound(s)
    BY <1>5 DEF UpdateAddress, HasFound
  <2>6. ASSUME NEW t \in Sessions, HasFound(t)'
        PROVE  address'[request'[t].id] = NoRow
               \/ OwnedBy(request[t].id, request[t].customer)'
    <3>1. CASE request[t].id = request[s].id
      BY <1>5, <2>1, <2>2, <2>4, <2>5, <2>6, <3>1 DEF TypeOK, OwnedBy
    <3>2. CASE request[t].id # request[s].id
      <4>1. request[t].id \in AddressIds
        BY <2>4, <2>6, RunningServes, RequestFields DEF HasFound
      <4> QED
        BY <1>5, <2>4, <2>6, <3>2, <4>1 DEF UpdateAddress, TypeOK, OwnedBy
    <3> QED
      BY <3>1, <3>2
  <2> QED
    BY <1>5, <2>1, <2>3, <2>4, <2>6 DEF UpdateAddress, Observe, End, TypeOK
<1>6. ASSUME NEW s \in Sessions, DeleteAddress(s)
      PROVE  TypeOK'
  <2>1. request[s] \in Request /\ request[s].id \in AddressIds
    BY <1>6, RunningServes, RequestFields DEF DeleteAddress
  <2>2. \A t \in Sessions : HasFound(t)' => HasFound(t) /\ t # s /\ request'[t] = request[t]
    BY <1>6 DEF DeleteAddress, End, TypeOK, HasFound
  <2>3. \A b \in AddressIds : address'[b] = address[b] \/ address'[b] = NoRow
    BY <1>6, <2>1 DEF DeleteAddress, TypeOK
  <2>4. \A t \in Sessions : HasFound(t) => request[t].id \in AddressIds
    BY RunningServes, RequestFields DEF HasFound
  <2> QED
    BY <1>6, <2>1, <2>2, <2>3, <2>4 DEF DeleteAddress, End, TypeOK, OwnedBy
<1>7. ASSUME NEW s \in Sessions, Fail(s)
      PROVE  TypeOK'
  BY <1>7 DEF Fail, End, TypeOK, HasFound, OwnedBy
<1>8. CASE UNCHANGED vars
  BY <1>8 DEF vars, TypeOK, HasFound, OwnedBy
<1> QED
  BY <1>1, <1>2, <1>3, <1>4, <1>5, <1>6, <1>7, <1>8 DEF Next

\* Addresses and sessions are always well-typed, and a session writes or
\* deletes only a row that is its own customer's.
THEOREM TypeCorrect == Spec => []TypeOK
<1>1. Init => TypeOK
  BY DEF Init, TypeOK, HasFound
<1> QED
  BY <1>1, TypeInvariance, PTL DEF Spec

-----------------------------------------------------------------------------
\* A customer's requests change only the customer's own addresses.
THEOREM AddressesStayOwn == Spec => OwnAddressesOnly
<1> DEFINE Own == \A a \in AddressIds : address'[a] # address[a] =>
                     \E s \in Sessions :
                         /\ pc[s] # "idle" /\ pc'[s] # pc[s]
                         /\ \A row \in {address[a], address'[a]} \ {NoRow} :
                                row.customer = request[s].customer
<1>1. ASSUME TypeOK, [Next]_vars PROVE Own \/ UNCHANGED vars
  <2>1. ASSUME NEW s \in Sessions, UnsetDefaultAddresses(s)
        PROVE  Own
    <3>1. request[s].customer \in Customers
      BY <2>1, <1>1, RunningServes, RequestFields DEF UnsetDefaultAddresses
    <3> SUFFICES ASSUME NEW a \in AddressIds, address'[a] # address[a]
                 PROVE  /\ pc[s] # "idle" /\ pc'[s] # pc[s]
                        /\ \A row \in {address[a], address'[a]} \ {NoRow} :
                               row.customer = request[s].customer
      OBVIOUS
    <3>2. address'[a] = Unset(request[s].customer)[a]
      BY <2>1 DEF UnsetDefaultAddresses
    <3>3. OwnedBy(a, request[s].customer)
      BY <1>1, <3>1, <3>2, UnsetRow
    <3>4. address'[a].customer = address[a].customer
      BY <1>1, <3>1, <3>2, <3>3, UnsetRow DEF OwnedBy
    <3>5. pc[s] # "idle" /\ pc'[s] # pc[s]
      BY <1>1, <2>1 DEF UnsetDefaultAddresses, Goto, TypeOK
    <3> QED
      BY <3>3, <3>4, <3>5 DEF OwnedBy
  <2>2. ASSUME NEW s \in Sessions, NEW a \in AddressIds, CreateAddress(s, a)
        PROVE  Own
    BY <1>1, <2>2 DEF CreateAddress, End, TypeOK
  <2>3. ASSUME NEW s \in Sessions, UpdateAddress(s)
        PROVE  Own
    <3>1. HasFound(s)
      BY <2>3 DEF UpdateAddress, HasFound
    <3> QED
      BY <1>1, <2>3, <3>1 DEF UpdateAddress, End, TypeOK, OwnedBy
  <2>4. ASSUME NEW s \in Sessions, DeleteAddress(s)
        PROVE  Own
    BY <1>1, <2>4 DEF DeleteAddress, End, TypeOK, OwnedBy
  <2>5. ASSUME UNCHANGED address
        PROVE  Own
    BY <2>5
  <2> QED
    BY <1>1, <2>1, <2>2, <2>3, <2>4, <2>5 DEF Next, Begin, GetAddressByID, Fail
<1>2. TypeOK /\ [Next]_vars => [Own]_vars
  BY <1>1
<1> QED
  BY <1>2, TypeCorrect, PTL DEF Spec, OwnAddressesOnly

-----------------------------------------------------------------------------
\* What a statement that saves one row does to the defaults of a customer.
LEMMA SaveDefaults ==
  ASSUME TypeOK, NEW a \in AddressIds, NEW k \in Customers, NEW d \in BOOLEAN,
         address[a] = NoRow \/ OwnedBy(a, k),
         address' = [address EXCEPT ![a] = [customer |-> k, isDefault |-> d]]
  PROVE  /\ \A c \in Customers \ {k} : DefaultsOf(c)' = DefaultsOf(c)
         /\ DefaultsOf(k)' \subseteq DefaultsOf(k) \cup {a}
         /\ ~d => DefaultsOf(k)' \subseteq DefaultsOf(k)
<1>1. address'[a] = [customer |-> k, isDefault |-> d] /\ address'[a] # NoRow
  BY NoRowAssumption DEF TypeOK, CustomerAddress
<1>2. \A b \in AddressIds \ {a} : address'[b] = address[b]
  BY DEF TypeOK
<1> QED
  BY <1>1, <1>2 DEF DefaultsOf, OwnedBy

\* Unsetting and deleting leave no new default.
LEMMA UnsetDefaults ==
  ASSUME TypeOK, NEW k \in Customers, address' = Unset(k)
  PROVE  /\ DefaultsOf(k)' = {}
         /\ \A c \in Customers : DefaultsOf(c)' \subseteq DefaultsOf(c)
<1>1. \A b \in AddressIds : address'[b] = Unset(k)[b]
  OBVIOUS
<1> QED
  BY <1>1, UnsetRow DEF DefaultsOf, OwnedBy, Unset

LEMMA DeleteDefaults ==
  ASSUME TypeOK, NEW s \in Sessions, DeleteAddress(s), NEW c \in Customers
  PROVE  DefaultsOf(c)' \subseteq DefaultsOf(c)
BY DEF DeleteAddress, TypeOK, DefaultsOf, OwnedBy

\* The request of s saves row a: what the observers and the default writes of
\* others rely on survives.
LEMMA SavePreserves ==
  ASSUME IInv, NEW s \in Sessions, NEW a \in AddressIds,
         NEW k \in Customers, NEW d \in BOOLEAN,
         request[s].customer = k, request[s].isDefault = d,
         pc[s] = "write", request[s].kind # "delete",
         address[a] = NoRow \/ OwnedBy(a, k),
         address' = [address EXCEPT ![a] = [customer |-> k, isDefault |-> d]],
         Observe(s), End(s)
  PROVE  UnsetBeforeWrite' /\ OneDefaultUnlessOverlapped'
<1>2. /\ \A c \in Customers \ {k} : DefaultsOf(c)' = DefaultsOf(c)
      /\ DefaultsOf(k)' \subseteq DefaultsOf(k) \cup {a}
      /\ ~d => DefaultsOf(k)' \subseteq DefaultsOf(k)
  BY SaveDefaults DEF IInv
<1>3. UnsetBeforeWrite'
  <2> SUFFICES ASSUME NEW t \in Sessions, t \notin outdated', pc'[t] = "write",
                      request'[t].kind # "delete", request'[t].isDefault,
                      NEW c, c = request'[t].customer
               PROVE  DefaultsOf(c)' = {}
    BY DEF UnsetBeforeWrite
  <2>1. t # s /\ pc[t] = "write" /\ request'[t] = request[t]
    BY DEF End, IInv, TypeOK
  <2>2. c \in Customers
    BY <2>1, RunningServes, RequestFields DEF IInv
  <2>3. t \notin outdated
    BY <2>1 DEF Observe
  <2>4. DefaultsOf(c) = {}
    BY <2>1, <2>3 DEF IInv, UnsetBeforeWrite
  <2>5. d => c # k
    BY <2>1 DEF Observe
  <2> QED
    BY <1>2, <2>2, <2>4, <2>5
<1>4. OneDefaultUnlessOverlapped'
  <2> SUFFICES ASSUME NEW c \in Customers, c \notin doubled',
                      NEW x \in DefaultsOf(c)', NEW y \in DefaultsOf(c)'
               PROVE  x = y
    BY DEF OneDefaultUnlessOverlapped
  <2>1. CASE d /\ c = k
    <3>1. s \notin outdated
      BY <2>1 DEF Observe
    <3>2. DefaultsOf(k) = {}
      BY <2>1, <3>1 DEF IInv, UnsetBeforeWrite
    <3> QED
      BY <1>2, <2>1, <3>2
  <2>2. CASE ~(d /\ c = k)
    <3>1. c \notin doubled
      BY <2>2 DEF Observe
    <3>2. x \in DefaultsOf(c) /\ y \in DefaultsOf(c)
      BY <1>2, <2>2
    <3> QED
      BY <3>1, <3>2 DEF IInv, OneDefaultUnlessOverlapped
  <2> QED
    BY <2>1, <2>2
<1> QED
  BY <1>3, <1>4

\* A step of s that adds no default, and leaves the customer of s without one
\* if s writes the default next, preserves what the others rely on.
LEMMA OtherStepsPreserve ==
  ASSUME IInv, TypeOK', NEW s \in Sessions,
         \A c \in Customers : DefaultsOf(c)' \subseteq DefaultsOf(c),
         \A t \in Sessions \ {s} : pc'[t] = pc[t] /\ request'[t] = request[t],
         outdated \ {s} \subseteq outdated',
         doubled' = doubled,
         \A c \in Customers :
             (/\ pc'[s] = "write" /\ request'[s].kind # "delete"
              /\ request'[s].isDefault /\ request'[s].customer = c)
             => DefaultsOf(c)' = {}
  PROVE  UnsetBeforeWrite' /\ OneDefaultUnlessOverlapped'
<1>1. UnsetBeforeWrite'
  <2> SUFFICES ASSUME NEW t \in Sessions, t \notin outdated', pc'[t] = "write",
                      request'[t].kind # "delete", request'[t].isDefault,
                      NEW c, c = request'[t].customer
               PROVE  DefaultsOf(c)' = {}
    BY DEF UnsetBeforeWrite
  <2>1. request'[t] \in Request
    BY DEF TypeOK
  <2>2. c \in Customers
    BY <2>1, RequestFields
  <2>3. CASE t = s
    BY <2>2, <2>3
  <2>4. CASE t # s
    BY <2>2, <2>4 DEF IInv, UnsetBeforeWrite
  <2> QED
    BY <2>3, <2>4
<1> QED
  BY <1>1 DEF IInv, OneDefaultUnlessOverlapped

\* Every step preserves the inductive invariant.
LEMMA Invariance == IInv /\ [Next]_vars => IInv'
<1> SUFFICES ASSUME IInv, [Next]_vars PROVE UnsetBeforeWrite' /\ OneDefaultUnlessOverlapped'
  BY TypeInvariance DEF IInv
<1>0. TypeOK /\ TypeOK'
  BY TypeInvariance DEF IInv
<1>1. address' = address => \A c \in Customers : DefaultsOf(c)' = DefaultsOf(c)
  BY DEF DefaultsOf, OwnedBy
<1>2. ASSUME NEW s \in Sessions, NEW r \in Request, Begin(s, r)
      PROVE  UnsetBeforeWrite' /\ OneDefaultUnlessOverlapped'
  <2>1. ~(pc'[s] = "write" /\ request'[s].kind # "delete" /\ request'[s].isDefault)
    BY <1>0, <1>2 DEF Begin, AfterFind, TypeOK
  <2>2. \A t \in Sessions \ {s} : pc'[t] = pc[t] /\ request'[t] = request[t]
    BY <1>0, <1>2 DEF Begin, TypeOK
  <2> QED
    BY <1>0, <1>1, <1>2, <2>1, <2>2, OtherStepsPreserve DEF Begin
<1>3. ASSUME NEW s \in Sessions, GetAddressByID(s)
      PROVE  UnsetBeforeWrite' /\ OneDefaultUnlessOverlapped'
  <2>1. ~(pc'[s] = "write" /\ request'[s].kind # "delete" /\ request'[s].isDefault)
    BY <1>0, <1>3 DEF GetAddressByID, Goto, End, AfterFind, TypeOK
  <2>2. \A t \in Sessions \ {s} : pc'[t] = pc[t] /\ request'[t] = request[t]
    BY <1>0, <1>3 DEF GetAddressByID, Goto, End, TypeOK
  <2>3. address' = address /\ outdated' = outdated /\ doubled' = doubled
    BY <1>3 DEF GetAddressByID, Goto
  <2> QED
    BY <1>0, <1>1, <2>1, <2>2, <2>3, OtherStepsPreserve
<1>4. ASSUME NEW s \in Sessions, UnsetDefaultAddresses(s)
      PROVE  UnsetBeforeWrite' /\ OneDefaultUnlessOverlapped'
  <2>1. request[s] \in Request
    BY <1>0, <1>4, RunningServes DEF UnsetDefaultAddresses
  <2>2. PICK k \in Customers : k = request[s].customer
    BY <2>1, RequestFields
  <2>3. address' = Unset(k)
    BY <1>4, <2>2 DEF UnsetDefaultAddresses
  <2>4. /\ DefaultsOf(k)' = {}
        /\ \A c \in Customers : DefaultsOf(c)' \subseteq DefaultsOf(c)
    BY <1>0, <2>3, UnsetDefaults
  <2>5. /\ request' = request /\ outdated' = outdated /\ doubled' = doubled
        /\ \A t \in Sessions \ {s} : pc'[t] = pc[t]
    BY <1>0, <1>4 DEF UnsetDefaultAddresses, Goto, TypeOK
  <2> QED
    BY <1>0, <2>2, <2>4, <2>5, OtherStepsPreserve
<1>5. ASSUME NEW s \in Sessions, NEW a \in AddressIds, CreateAddress(s, a)
      PROVE  UnsetBeforeWrite' /\ OneDefaultUnlessOverlapped'
  <2>1. /\ request[s] \in Request /\ pc[s] = "write" /\ request[s].kind = "create"
        /\ address[a] = NoRow /\ Observe(s) /\ End(s)
    BY <1>0, <1>5, RunningServes DEF CreateAddress
  <2>2. PICK k \in Customers, d \in BOOLEAN : k = request[s].customer /\ d = request[s].isDefault
    BY <2>1, RequestFields
  <2>3. address' = [address EXCEPT ![a] = [customer |-> k, isDefault |-> d]]
    BY <1>5, <2>2 DEF CreateAddress
  <2> QED
    BY <2>1, <2>2, <2>3, SavePreserves
<1>6. ASSUME NEW s \in Sessions, UpdateAddress(s)
      PROVE  UnsetBeforeWrite' /\ OneDefaultUnlessOverlapped'
  <2>1. /\ request[s] \in Request /\ pc[s] = "write" /\ request[s].kind = "update"
        /\ Observe(s) /\ End(s)
    BY <1>0, <1>6, RunningServes DEF UpdateAddress
  <2>2. PICK k \in Customers, d \in BOOLEAN, a \in AddressIds :
            k = request[s].customer /\ d = request[s].isDefault /\ a = request[s].id
    BY <2>1, RequestFields
  <2>3. address' = [address EXCEPT ![a] = [customer |-> k, isDefault |-> d]]
    BY <1>6, <2>2 DEF UpdateAddress
  <2>4. address[a] = NoRow \/ OwnedBy(a, k)
    BY <1>0, <2>1, <2>2 DEF TypeOK, HasFound
  <2> QED
    BY <2>1, <2>2, <2>3, <2>4, SavePreserves
<1>7. ASSUME NEW s \in Sessions, DeleteAddress(s)
      PROVE  UnsetBeforeWrite' /\ OneDefaultUnlessOverlapped'
  <2>1. \A c \in Customers : DefaultsOf(c)' \subseteq DefaultsOf(c)
    BY <1>0, <1>7, DeleteDefaults
  <2>2. /\ outdated \ {s} \subseteq outdated' /\ doubled' = doubled /\ pc'[s] = "idle"
        /\ \A t \in Sessions \ {s} : pc'[t] = pc[t] /\ request'[t] = request[t]
    BY <1>0, <1>7 DEF DeleteAddress, End, TypeOK
  <2> QED
    BY <1>0, <2>1, <2>2, OtherStepsPreserve
<1>8. ASSUME NEW s \in Sessions, Fail(s)
      PROVE  UnsetBeforeWrite' /\ OneDefaultUnlessOverlapped'
  <2>1. /\ outdated \ {s} \subseteq outdated' /\ doubled' = doubled /\ pc'[s] = "idle"
        /\ \A t \in Sessions \ {s} : pc'[t] = pc[t] /\ request'[t] = request[t]
    BY <1>0, <1>8 DEF Fail, End, TypeOK
  <2> QED
    BY <1>0, <1>1, <1>8, <2>1, OtherStepsPreserve DEF Fail
<1>9. CASE UNCHANGED vars
  BY <1>9 DEF vars, IInv, UnsetBeforeWrite, OneDefaultUnlessOverlapped, DefaultsOf, OwnedBy
<1> QED
  BY <1>2, <1>3, <1>4, <1>5, <1>6, <1>7, <1>8, <1>9 DEF Next

\* Only requests that overlap leave a customer with two default addresses.
THEOREM DefaultIsUnique == Spec => []OneDefaultUnlessOverlapped
<1>1. Init => IInv
  BY DEF Init, IInv, TypeOK, HasFound, UnsetBeforeWrite, OneDefaultUnlessOverlapped,
         DefaultsOf, OwnedBy
<1>2. IInv => OneDefaultUnlessOverlapped
  BY DEF IInv
<1> QED
  BY <1>1, <1>2, Invariance, PTL DEF Spec
=============================================================================
