------------------------------ MODULE MCAccess ------------------------------
(***************************************************************************)
(* Small instances for TLC of what administrators work on: Access and,     *)
(* beside it, Catalog.                                                     *)
(*                                                                         *)
(* The two share no state, so what holds of each alone holds of the whole: *)
(* "part" names the one that moves, while the other keeps an initial       *)
(* state.                                                                  *)
(***************************************************************************)
EXTENDS Access, TLC

CONSTANTS
    Customers, Tenants, Products, Services, Prices, Unused,
    MaxRows,  \* bound: price rows
    MaxPick   \* bound: tenants of one bulk request

VARIABLES
    part,
    tenant, product, home, service, attached, pricing, priced, request

Cat == INSTANCE Catalog
    WITH Requests <- Workers, Users <- Customers, MaxBulk <- MaxPick, job <- request

ASSUME CatalogAssumption ==
    /\ MaxRows \in Nat
    /\ Unused # Nil /\ "gone" \notin Tenants
    /\ \A x \in {Unused, Nil} :
         /\ x \notin BOOLEAN /\ x \notin Tenants /\ x \notin Products /\ x \notin 1..MaxRows
         /\ x \notin Prices /\ x \notin Cat!Price /\ x \notin Cat!Service

catalogVars == <<tenant, product, home, service, attached, pricing, priced, request>>

\* Users are not interchangeable: Staff sets some apart.
Symmetric == Permutations(Workers) \union Permutations(Tenants) \union Permutations(Prices)

MCInit ==
    /\ part \in {"access", "catalog"}
    /\ Init /\ Cat!Init
    /\ part = "access" =>
         /\ \A x \in Tenants : tenant[x] = Unused
         /\ home = [u \in Customers |-> Nil]

MCNext ==
    \/ part = "access" /\ Next /\ UNCHANGED <<part, catalogVars>>
    \/ part = "catalog" /\ Cat!Next /\ UNCHANGED <<part, vars>>

MCSpec == MCInit /\ [][MCNext]_<<part, vars, catalogVars>>

\* The bound of the run: no logouts of a superadmin overlap, or meet a failing Redis
\* or an eviction; those of other users may.
StaffUndisturbed == shaky \intersect Staff = {}

\* One price of a product at most for a tenant, and both exist.
PricesSound == Cat!PricesSound

\* A hard deletion takes no service it saw that does not go with its tenant, and
\* none it saw with something attached.
HardDeleteSpares == Cat!HardDeleteSpares
=============================================================================
