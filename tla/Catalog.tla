------------------------------ MODULE Catalog ------------------------------
(***************************************************************************)
(* Tenants, the products sold, their prices per tenant, and the services   *)
(* a hard deletion takes along.                                            *)
(*                                                                         *)
(* Each request loads the rows it is about, decides, and commits when it   *)
(* ends; the commit writes the columns that differ from what was loaded.   *)
(* Nothing in the program creates users' tenants, products or services:    *)
(* Sell, Attach and Detach stand for what the rest of the system does.     *)
(***************************************************************************)
EXTENDS Naturals, FiniteSets

CONSTANTS
    Requests, \* sessions of the admin and billing endpoints
    Tenants, Products, Users, Services,
    Prices,
    MaxRows,  \* bound: rows 1..MaxRows of tenant_product_pricing
    MaxBulk,  \* bound on the tenants of one bulk request
    Unused,   \* a row that is yet to be inserted
    Nil       \* no value; for a row, one that was deleted

VARIABLES
    tenant,   \* the rows of tenants: whether each is active
    product,  \* the rows of products: whether each is active
    home,     \* the tenant of each user
    service,  \* the rows of services
    attached, \* services with rows that do not follow them in a deletion
    pricing,  \* the rows of tenant_product_pricing
    priced,   \* pricing rows inserted so far
    job       \* what each request is doing

vars == <<tenant, product, home, service, attached, pricing, priced, job>>

Rows == 1..MaxRows
Price == [tenant: Tenants, product: Products, price: Prices]
Service == [owner: Users, tenant: Tenants, product: Products]

\* A user without a tenant has Nil; one deleted with a tenant is "gone".
Homes == Tenants \union {Nil, "gone"}

Job == [op: {"none", "create", "update", "hard tenant", "hard product",
             "retire", "set", "unset"},
        tenants: SUBSET Tenants, \* the tenants written, deleted or priced
        product: Products \union {Nil},
        active: BOOLEAN \union {Nil}, \* the flag they get
        price: Prices \union {Nil}, \* the price to be written
        row: Rows \union {Nil},  \* the pricing row that was found
        seen: SUBSET Services,   \* the services there were when the request loaded
        held: SUBSET Services]   \* those of them with something attached

Idle == [op |-> "none", tenants |-> {}, product |-> Nil, active |-> Nil,
         price |-> Nil, row |-> Nil, seen |-> {}, held |-> {}]

TypeOK ==
    /\ tenant \in [Tenants -> BOOLEAN \union {Unused, Nil}]
    /\ product \in [Products -> BOOLEAN \union {Nil}]
    /\ home \in [Users -> Homes]
    /\ service \in [Services -> Service \union {Unused, Nil}]
    /\ attached \subseteq Services
    /\ pricing \in [Rows -> Price \union {Nil}]
    /\ priced \in 0..MaxRows
    /\ job \in [Requests -> Job]

Init ==
    /\ tenant \in [Tenants -> {TRUE, Unused}]
    /\ product = [p \in Products |-> TRUE]
    /\ home \in [Users -> {x \in Tenants : tenant[x] # Unused} \union {Nil}]
    /\ service = [s \in Services |-> Unused]
    /\ attached = {}
    /\ pricing = [i \in Rows |-> Nil] /\ priced = 0
    /\ job = [r \in Requests |-> Idle]

Exists(x) == tenant[x] \notin {Unused, Nil}
Sold == {s \in Services : service[s] \notin {Unused, Nil}}
Members(x) == {u \in Users : home[u] = x}
PricesOf(x, p) ==
    {i \in Rows : pricing[i] # Nil /\ pricing[i].tenant = x /\ pricing[i].product = p}

Does(r, op) == job[r].op = op
Ends(r) == job' = [job EXCEPT ![r] = Idle]
store == <<tenant, product, home, service, attached, pricing, priced>>

Loads(r, j) ==
    /\ Does(r, "none")
    /\ job' = [job EXCEPT ![r] = j]
    /\ UNCHANGED store

-----------------------------------------------------------------------------
(* Tenants *)

\* A domain that another tenant has is refused, here by the lookup and at the
\* commit by the unique columns.
CreateTenant(r) ==
    \E x \in Tenants, a \in BOOLEAN :
        /\ tenant[x] = Unused
        /\ Loads(r, [Idle EXCEPT !.op = "create", !.tenants = {x}, !.active = a])

CommitCreate(r) ==
    /\ Does(r, "create")
    /\ \A x \in job[r].tenants : tenant[x] = Unused
    /\ tenant' = [x \in Tenants |-> IF x \in job[r].tenants THEN job[r].active ELSE tenant[x]]
    /\ Ends(r)
    /\ UNCHANGED <<product, home, service, attached, pricing, priced>>

\* Only a flag other than the one loaded is written.
Change(x, flag) == IF tenant[x] = flag THEN Nil ELSE flag

\* update_tenant changes names, domains and the flag, and looks nothing up.
UpdateTenant(r) ==
    \E x \in Tenants, a \in BOOLEAN :
        /\ Exists(x)
        /\ Loads(r, [Idle EXCEPT !.op = "update", !.tenants = {x}, !.active = Change(x, a)])

\* delete_tenant only deactivates.
DeleteTenant(r) ==
    \E x \in Tenants :
        /\ Exists(x)
        /\ Loads(r, [Idle EXCEPT !.op = "update", !.tenants = {x},
                       !.active = Change(x, FALSE)])

\* A bulk request loads the tenants whose flag differs from the one it sets.
Bulk(r, flag) ==
    \E xs \in SUBSET {x \in Tenants : Exists(x)} :
        /\ Cardinality(xs) <= MaxBulk
        /\ Loads(r, [Idle EXCEPT !.op = "update",
                       !.tenants = {x \in xs : tenant[x] # flag},
                       !.active = flag])

BulkActivateTenants(r) == Bulk(r, TRUE)
BulkDeactivateTenants(r) == Bulk(r, FALSE)

\* A row that has gone, or a domain another tenant has, fails the whole commit.
CommitTenants(r) ==
    /\ Does(r, "update")
    /\ \A x \in job[r].tenants : Exists(x)
    /\ tenant' = [x \in Tenants |-> IF x \in job[r].tenants /\ job[r].active # Nil
                                      THEN job[r].active ELSE tenant[x]]
    /\ Ends(r)
    /\ UNCHANGED <<product, home, service, attached, pricing, priced>>

-----------------------------------------------------------------------------
(* Prices of a product for a tenant *)

\* The index lets no second row of a tenant and product in.
Found(x, p) == IF PricesOf(x, p) = {} THEN Nil ELSE CHOOSE i \in PricesOf(x, p) : TRUE

\* A row that was found has its price written only if it is another one.
NewPrice(i, c) == IF i # Nil /\ pricing[i].price = c THEN Nil ELSE c

\* The product must exist; the tenant is not looked at.
SetTenantPricing(r) ==
    \E x \in Tenants, p \in Products, c \in Prices :
        /\ product[p] # Nil
        /\ Loads(r, [Idle EXCEPT !.op = "set", !.tenants = {x}, !.product = p,
                                 !.row = Found(x, p), !.price = NewPrice(Found(x, p), c)])

\* Mutated form: no index.
InsertAnyPrice(r) ==
    /\ Does(r, "set") /\ job[r].row = Nil
    /\ priced < MaxRows
    /\ \A x \in job[r].tenants :
         /\ Exists(x) /\ product[job[r].product] # Nil
         /\ pricing' = [pricing EXCEPT ![priced + 1] =
                          [tenant |-> x, product |-> job[r].product, price |-> job[r].price]]
    /\ priced' = priced + 1
    /\ Ends(r)
    /\ UNCHANGED <<tenant, product, home, service, attached>>

\* No row was found: one is inserted, which the unique index refuses if there is one
\* by now, and the foreign keys unless its tenant and product exist.
InsertPrice(r) ==
    /\ Does(r, "set") /\ job[r].row = Nil
    /\ priced < MaxRows
    /\ \A x \in job[r].tenants :
         /\ Exists(x) /\ product[job[r].product] # Nil
         /\ PricesOf(x, job[r].product) = {}
         /\ pricing' = [pricing EXCEPT ![priced + 1] =
                          [tenant |-> x, product |-> job[r].product, price |-> job[r].price]]
    /\ priced' = priced + 1
    /\ Ends(r)
    /\ UNCHANGED <<tenant, product, home, service, attached>>

\* The row that was found takes the price; one that has gone fails the request.
ChangePrice(r) ==
    /\ Does(r, "set") /\ job[r].row # Nil
    /\ pricing[job[r].row] # Nil
    /\ pricing' = IF job[r].price = Nil THEN pricing
                  ELSE [pricing EXCEPT ![job[r].row].price = job[r].price]
    /\ Ends(r)
    /\ UNCHANGED <<tenant, product, home, service, attached, priced>>

DeleteTenantPricing(r) ==
    \E x \in Tenants, p \in Products :
        /\ PricesOf(x, p) # {}
        /\ Loads(r, [Idle EXCEPT !.op = "unset", !.tenants = {x}, !.product = p,
                                 !.row = Found(x, p)])

\* Deleting a row that has gone is only a warning.
CommitUnset(r) ==
    /\ Does(r, "unset")
    /\ pricing' = [pricing EXCEPT ![job[r].row] = Nil]
    /\ Ends(r)
    /\ UNCHANGED <<tenant, product, home, service, attached, priced>>

-----------------------------------------------------------------------------
(* Products, and hard deletions *)

\* The billing endpoint's delete_product: active = FALSE.
DeleteProduct(r) ==
    \E p \in Products :
        product[p] # Nil /\ Loads(r, [Idle EXCEPT !.op = "retire", !.product = p])

CommitRetire(r) ==
    /\ Does(r, "retire") /\ product[job[r].product] # Nil
    /\ product' = [product EXCEPT ![job[r].product] = FALSE]
    /\ Ends(r)
    /\ UNCHANGED <<tenant, home, service, attached, pricing, priced>>

\* The unit of work deletes the tenant's users and their services, and sets the
\* references of the other rows it loaded to NULL, which those columns refuse:
\* the tenant's services bought by other users, and what is attached to a
\* service that goes.
Follow(x) == {s \in Sold : home[service[s].owner] = x}
Stay(x) == {s \in Sold : service[s].tenant = x} \ Follow(x)

\* Mutated form: the tenant's services follow it, and what is attached follows them.
HardDeleteTenantCascades(r) ==
    \E x \in Tenants :
        /\ Exists(x)
        /\ Loads(r, [Idle EXCEPT !.op = "hard tenant", !.tenants = {x},
                                 !.seen = Sold, !.held = attached])

HardDeleteTenant(r) ==
    \E x \in Tenants :
        /\ Exists(x)
        /\ Stay(x) = {} /\ Follow(x) \cap attached = {}
        /\ Loads(r, [Idle EXCEPT !.op = "hard tenant", !.tenants = {x},
                                 !.seen = Sold, !.held = attached])

\* A product that was sold is refused the same way.
HardDeleteProduct(r) ==
    \E p \in Products :
        /\ product[p] # Nil
        /\ \A s \in Sold : service[s].product # p
        /\ Loads(r, [Idle EXCEPT !.op = "hard product", !.product = p,
                                 !.seen = Sold, !.held = attached])

\* What was not loaded goes by the ON DELETE CASCADE of its foreign key.
RemoveServices(gone) ==
    /\ service' = [s \in Services |-> IF s \in gone THEN Nil ELSE service[s]]
    /\ attached' = attached \ gone

CommitHardTenant(r) ==
    /\ Does(r, "hard tenant")
    /\ \A x \in job[r].tenants :
         /\ tenant' = [tenant EXCEPT ![x] = Nil]
         /\ home' = [u \in Users |-> IF u \in Members(x) THEN "gone" ELSE home[u]]
         /\ RemoveServices({s \in Sold : \/ service[s].tenant = x
                                         \/ home[service[s].owner] = x})
         /\ pricing' = [i \in Rows |-> IF pricing[i] # Nil /\ pricing[i].tenant = x
                                         THEN Nil ELSE pricing[i]]
    /\ Ends(r)
    /\ UNCHANGED <<product, priced>>

CommitHardProduct(r) ==
    /\ Does(r, "hard product")
    /\ product' = [product EXCEPT ![job[r].product] = Nil]
    /\ RemoveServices({s \in Sold : service[s].product = job[r].product})
    /\ pricing' = [i \in Rows |-> IF pricing[i] # Nil /\ pricing[i].product = job[r].product
                                    THEN Nil ELSE pricing[i]]
    /\ Ends(r)
    /\ UNCHANGED <<tenant, home, priced>>

\* A request that is refused, fails, or dies with its worker.
RollBack(r) == ~Does(r, "none") /\ Ends(r) /\ UNCHANGED store

-----------------------------------------------------------------------------
(* The rest of the system *)

\* A service is sold to a user; its foreign keys want all three rows.
Sell(s) ==
    \E u \in Users, x \in Tenants, p \in Products :
        /\ service[s] = Unused
        /\ home[u] # "gone" /\ Exists(x) /\ product[p] # Nil
        /\ service' = [service EXCEPT ![s] = [owner |-> u, tenant |-> x, product |-> p]]
        /\ UNCHANGED <<tenant, product, home, attached, pricing, priced, job>>

\* A VPS, a VPN account, a profile or a commission comes to refer to a service.
Attach(s) ==
    /\ s \in Sold \ attached
    /\ attached' = attached \union {s}
    /\ UNCHANGED <<tenant, product, home, service, pricing, priced, job>>

Detach(s) ==
    /\ s \in attached
    /\ attached' = attached \ {s}
    /\ UNCHANGED <<tenant, product, home, service, pricing, priced, job>>

Next ==
    \/ \E r \in Requests :
         \/ CreateTenant(r) \/ UpdateTenant(r) \/ DeleteTenant(r)
         \/ BulkActivateTenants(r) \/ BulkDeactivateTenants(r)
         \/ CommitCreate(r) \/ CommitTenants(r)
         \/ SetTenantPricing(r) \/ InsertPrice(r) \/ ChangePrice(r)
         \/ DeleteTenantPricing(r) \/ CommitUnset(r)
         \/ DeleteProduct(r) \/ CommitRetire(r)
         \/ HardDeleteTenant(r) \/ CommitHardTenant(r)
         \/ HardDeleteProduct(r) \/ CommitHardProduct(r)
         \/ RollBack(r)
    \/ \E s \in Services : Sell(s) \/ Attach(s) \/ Detach(s)

Spec == Init /\ [][Next]_vars

-----------------------------------------------------------------------------
(* Properties *)

\* However requests that set, unset and delete overlap, a tenant has one price of a
\* product at most, and of a product and a tenant that both exist.
PricesSound ==
    \A i \in Rows : pricing[i] # Nil =>
        /\ Exists(pricing[i].tenant) /\ product[pricing[i].product] # Nil
        /\ PricesOf(pricing[i].tenant, pricing[i].product) = {i}

\* Whatever is sold, attached or deleted meanwhile, a hard deletion never takes a
\* service it saw unless the buyer goes with the deleted tenant, and never one it
\* saw with a machine, an account, a profile or a commission attached.
HardDeleteSpares ==
    [][\A s \in Services :
         s \in Sold /\ service'[s] = Nil =>
           \E r \in Requests :
             /\ job'[r] = Idle
             /\ Does(r, "hard tenant") \/ Does(r, "hard product")
             /\ s \in job[r].seen => home[service[s].owner] \in job[r].tenants
             /\ s \notin job[r].held]_vars

-----------------------------------------------------------------------------
(* The inductive invariant *)

\* A request has set the fields its commit reads.
Formed(j) ==
    /\ j.op \in {"set", "unset", "hard tenant"} => \E x \in Tenants : j.tenants = {x}
    /\ j.op \in {"set", "unset", "retire", "hard product"} => j.product # Nil
    /\ j.op = "set" /\ j.row = Nil => j.price # Nil
    /\ j.op = "unset" => j.row # Nil

\* What is attached belongs to a service sold, and that to a user who is there.
ServicesOwned ==
    /\ attached \subseteq Sold
    /\ \A s \in Sold : home[service[s].owner] # "gone"

\* Of what a hard deletion saw, only unattached services of the tenant's own users
\* will go with the tenant, and none with the product.
Sparing(j) ==
    /\ \A s \in j.seen : service[s] # Unused
    /\ j.op \in {"hard tenant", "hard product"} => j.held \subseteq j.seen
    /\ \A s \in Sold \cap j.seen :
         /\ j.op = "hard product" => service[s].product # j.product
         /\ j.op = "hard tenant" =>
              /\ service[s].tenant \in j.tenants => home[service[s].owner] \in j.tenants
              /\ s \in j.held => home[service[s].owner] \notin j.tenants

\* A pricing row is never reused: the one that was found is still a price of the
\* product for the tenant, or has gone.
RowsFresh == \A i \in Rows : i > priced => pricing[i] = Nil

FoundRow(j) ==
    j.op \in {"set", "unset"} /\ j.row # Nil =>
        /\ j.row <= priced
        /\ pricing[j.row] # Nil => /\ pricing[j.row].tenant \in j.tenants
                                   /\ pricing[j.row].product = j.product

IInv ==
    /\ TypeOK /\ ServicesOwned /\ RowsFresh
    /\ \A r \in Requests : Formed(job[r]) /\ Sparing(job[r]) /\ FoundRow(job[r])
=============================================================================
