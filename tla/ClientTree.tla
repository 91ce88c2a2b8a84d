---------------------------- MODULE ClientTree ----------------------------
(***************************************************************************)
(* The branching message tree the web client keeps for one conversation    *)
(* (useSessionStream.ts, TreeData): every message is a node, an edit or a  *)
(* regeneration is a sibling of what it replaces, and the visible          *)
(* conversation is the path that follows the active child of each node.    *)
(*                                                                         *)
(* A tree is a record of four partial functions, one per field of TreeData.*)
(* Node keys are integers: Root is the sentinel parent "", a negative key  *)
(* is a local id ("local-u-3") the client made up, a positive key is the   *)
(* id of a database row.                                                   *)
(***************************************************************************)
EXTENDS Integers, FiniteSets, Sequences, SequencesExt, Functions

Root == 0
None == 0   \* "no node": null, or a key that is absent

Nothing == [x \in {} |-> x]

EmptyTree == [role |-> Nothing, parent |-> Nothing,
              children |-> Nothing, active |-> Nothing]

(* The entry of partial function f at k, or d where it has none.           *)
Lookup(f, k, d) == IF k \in DOMAIN f THEN f[k] ELSE d

Put(f, k, v) == [x \in DOMAIN f \union {k} |-> IF x = k THEN v ELSE f[x]]

Drop(f, S) == Restrict(f, DOMAIN f \ S)

Nodes(t) == DOMAIN t.role

ChildrenOf(t, k) == Lookup(t.children, k, << >>)

ActiveOf(t, k) == Lookup(t.active, k, None)

(* addNode: the new node goes last among its siblings and becomes the      *)
(* active one. The parent need not be a node of the tree.                  *)
AddNode(t, id, p, r) ==
    [role     |-> Put(t.role, id, r),
     parent   |-> Put(t.parent, id, p),
     children |-> Put(t.children, p, Append(ChildrenOf(t, p), id)),
     active   |-> Put(t.active, p, id)]

(* getTipId, the memoised messages: the active path below k. The walk is   *)
(* bounded by the number of keys that have an active child.                *)
PathFrom(t, k) ==
    LET size == Cardinality(DOMAIN t.active)
        walk[n \in 0 .. size] ==
            IF n = 0 THEN << >>
            ELSE LET path == walk[n - 1]
                     next == ActiveOf(t, IF path = << >> THEN k ELSE Last(path))
                 IN IF next \in Nodes(t) THEN Append(path, next) ELSE path
    IN walk[size]

Path(t) == PathFrom(t, Root)

Tip(t) == IF Path(t) = << >> THEN None ELSE Last(Path(t))

(* deleteMessage's ancestorChain and regenerate's cursor: the node and its *)
(* ancestors, root first. A parent pointer is followed even to an id that  *)
(* is no longer in the tree; the chain stops there.                        *)
Chain(t, id) ==
    LET size == Cardinality(DOMAIN t.parent) + 1
        up[n \in 0 .. size] ==
            IF n = 0 THEN << >>
            ELSE LET chain == up[n - 1]
                     next == IF chain = << >> THEN id ELSE Lookup(t.parent, Head(chain), None)
                 IN IF next = None THEN chain ELSE <<next>> \o chain
    IN up[size]

(* deleteMessage's toRemove: the node and everything under it.             *)
Subtree(t, id) ==
    LET size == Cardinality(DOMAIN t.children)
        below[n \in 0 .. size] ==
            IF n = 0 THEN {id}
            ELSE LET above == below[n - 1]
                 IN above \union UNION {ToSet(ChildrenOf(t, x)) : x \in above}
    IN below[size]

(* The position of x in s, which holds it.                                 *)
Position(s, x) == CHOOSE i \in DOMAIN s : s[i] = x /\ \A j \in 1 .. i - 1 : s[j] # x

(* The sibling that becomes active when id, at index i, is removed: the    *)
(* one before it, else the one after it.                                   *)
Neighbour(siblings, i) ==
    LET rest == RemoveAt(siblings, i)
    IN  IF rest = << >> THEN None ELSE rest[IF i > 1 THEN i - 1 ELSE 1]

(* Mutant of Prune: the siblings are not mended.                           *)
PruneOnly(t, id) ==
    LET gone == Subtree(t, id)
        rest == Remove(ChildrenOf(t, t.parent[id]), id)
    IN [role     |-> Drop(t.role, gone),
        parent   |-> Drop(t.parent, gone),
        children |-> Put(Drop(t.children, gone), t.parent[id], rest),
        active   |-> Drop(t.active, gone)]

(* The local half of deleteMessage.                                        *)
Prune(t, id) ==
    LET gone == Subtree(t, id)
        p == t.parent[id]
        siblings == ChildrenOf(t, p)
        i == Position(siblings, id)
        rest == RemoveAt(siblings, i)
        next == Neighbour(siblings, i)
        pruned == [role     |-> Drop(t.role, gone),
                   parent   |-> Drop(t.parent, gone),
                   children |-> Drop(t.children, gone),
                   active   |-> Drop(t.active, gone)]
    IN [pruned EXCEPT
          !.children = IF rest = << >> THEN Drop(@, {p}) ELSE Put(@, p, rest),
          !.active = IF ActiveOf(pruned, p) # id THEN @
                     ELSE IF next = None THEN Drop(@, {p}) ELSE Put(@, p, next)]

(* switchBranch: d is -1 for "prev", 1 for "next".                         *)
CanSwitch(t, id, d) ==
    /\ id \in Nodes(t)
    /\ Contains(ChildrenOf(t, t.parent[id]), id)
    /\ Position(ChildrenOf(t, t.parent[id]), id) + d \in DOMAIN ChildrenOf(t, t.parent[id])

Switch(t, id, d) ==
    LET siblings == ChildrenOf(t, t.parent[id])
    IN [t EXCEPT !.active[t.parent[id]] = siblings[Position(siblings, id) + d]]

(* regenerate: the nearest prompt above an answer, None if there is none.  *)
PromptAbove(t, id) ==
    LET chain == Chain(t, Lookup(t.parent, id, None))
        prompts == {i \in DOMAIN chain : chain[i] \in Nodes(t) /\ t.role[chain[i]] = "user"}
    IN IF prompts = {} THEN None ELSE chain[Max(prompts)]

---------------------------------------------------------------------------
(* What the four fields must agree on. Keys of removed nodes may survive   *)
(* as `children`/`active` entries only where a live child still hangs.     *)
Mutual(t) == \A id \in Nodes(t) : Contains(ChildrenOf(t, t.parent[id]), id)

ChildrenAreNodes(t) ==
    \A k \in DOMAIN t.children :
        /\ t.children[k] # << >>
        /\ IsInjective(t.children[k])
        /\ \A x \in ToSet(t.children[k]) : x \in Nodes(t) /\ t.parent[x] = k

ActiveIsChild(t) ==
    /\ DOMAIN t.active = DOMAIN t.children
    /\ \A k \in DOMAIN t.active : Contains(ChildrenOf(t, k), t.active[k])

SameKeys(t) == DOMAIN t.parent = Nodes(t) /\ Root \notin Nodes(t)

Consistent(t) ==
    SameKeys(t) /\ Mutual(t) /\ ChildrenAreNodes(t) /\ ActiveIsChild(t)
===========================================================================
