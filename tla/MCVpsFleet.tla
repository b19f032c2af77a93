----------------------------- MODULE MCVpsFleet -----------------------------
(***************************************************************************)
(* Small instances for TLC of VpsFleet and, beside it, of the size of one  *)
(* machine (VpsSpecs).                                                     *)
(*                                                                         *)
(* The two share no state, so what holds of each alone holds of the whole: *)
(* "part" names the one that moves, while the other keeps an initial       *)
(* state.                                                                  *)
(***************************************************************************)
EXTENDS VpsFleet, TLC

CONSTANTS Resizes, Syncs, Sizes, Fields

VARIABLES
    part,
    specs, config, memory, growing, resize, sync, drift

Specs == INSTANCE VpsSpecs
    WITH Requests <- Resizes,
         row <- specs, vm <- config, live <- memory, job <- resize

ASSUME SpecsAssumption ==
    /\ {"memory", "disk"} \subseteq Fields /\ Fields \subseteq {"memory", "cores", "disk"}
    /\ Nil \notin Sizes \union Specs!Job \union Specs!Sync

specVars == <<specs, config, memory, growing, resize, sync, drift>>

\* Ids are interchangeable; VMIDs are ordered and are not.  Resizes and Sizes are
\* given the model values of Requests and Services.
Symmetric ==
    Permutations(Services) \union Permutations(Instances)
        \union Permutations(Nodes) \union Permutations(Requests)

MCInit ==
    /\ part \in {"fleet", "specs"}
    /\ Init /\ Specs!Init

MCNext ==
    \/ part = "fleet" /\ Next /\ UNCHANGED <<part, specVars>>
    \/ part = "specs" /\ Specs!Next /\ UNCHANGED <<part, vars>>

MCSpec == MCInit /\ [][MCNext]_<<part, vars, specVars>>

\* The bounds of the run: what follows from one accident at a time, a service
\* gone, a row moved to a node its VM is not on, a VMID that is being destroyed or
\* one that a decommission has marred.
Moved == {i \in Instances : /\ rows[i] # NoRow
                            /\ vm[rows[i].vmid] # NoVm
                            /\ vm[rows[i].vmid].node # rows[i].node}

OneAccident ==
    Cardinality(Services \ live) + Cardinality(Moved) + Cardinality(marred \union dying) <= 1

\* Two at a time: a resize or a status sync beside another one.
TwoAtOnce ==
    Cardinality({r \in Resizes : resize[r] # Nil}) + Cardinality({q \in Syncs : sync[q] # Nil}) <= 2

\* Row and machine agree on a size, unless it was drift that touched it last.
SpecsAgree == Specs!SpecsAgree
=============================================================================
