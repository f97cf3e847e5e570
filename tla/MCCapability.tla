---------------------------- MODULE MCCapability ----------------------------
(***************************************************************************)
(* Instances of Capability.  A root with two actions is narrowed to mid,   *)
(* mid to leaf and, with a disjoint scope, to none.  The root expires      *)
(* first on the wall clock and last by its monotonic time.  Graft: a       *)
(* capability issued, not attenuated, with a parent it shares no action    *)
(* with.                                                                   *)
(***************************************************************************)
EXTENDS Capability

CONSTANTS a1, read, write, v1, root, mid, leaf, none, graft, rv, onLeaf, onNone, onGraft

Ask(actions, bound, caveats, parent, wall, mono) ==
    [subject |-> a1, scope |-> [actions |-> actions, bound |-> bound], caveats |-> caveats,
     parent |-> parent, until |-> [wall |-> wall, mono |-> mono]]

ChainRequest ==
    [c \in Mints |->
       CASE c = root -> Ask({read, write}, <<2>>, {}, << >>, 1, 2)
         [] c = mid  -> Ask({read}, << >>, {v1}, <<root>>, 2, 1)
         [] c = leaf -> Ask({}, <<1>>, {}, <<mid>>, 2, 0)
         [] c = none -> Ask({write}, << >>, {}, <<mid>>, 2, 1)]

GraftRequest ==
    [c \in Mints |-> CASE c = root  -> Ask({read}, << >>, {}, << >>, 1, 2)
                       [] c = graft -> Ask({write}, << >>, {}, <<root>>, 1, 2)]

MCRevoked == [c \in Revokes |-> root]

MCPresented ==
    [c \in Checks |->
       CASE c = onLeaf  -> [cap |-> leaf,  action |-> read,  amount |-> 1, meets |-> {v1}]
         [] c = onNone  -> [cap |-> none,  action |-> read,  amount |-> 1, meets |-> {v1}]
         [] c = onGraft -> [cap |-> graft, action |-> write, amount |-> 1, meets |-> {v1}]]
=============================================================================
