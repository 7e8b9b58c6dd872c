------------------------------- MODULE Traversals -------------------------------
(***************************************************************************)
(* The two traversals of the flat list as CategoriesService computes them: *)
(* the loop of getDescendantIds, turn by turn, and the recursion of        *)
(* buildTree, call depth by call depth.  Categories says what they are to  *)
(* find: Descendants.                                                      *)
(***************************************************************************)
EXTENDS Categories, SequencesExt

OneChild(list, p) ==                                      \* mutant of Children
    LET children == {d \in Categories : list[d] = p}
    IN  IF children = {} THEN {} ELSE {CHOOSE d \in children : TRUE}

(* childrenByParent.get(p), and the filter of buildTree. *)
Children(list, p) == {d \in Categories : list[d] = p}

(* One turn of the loop: pop, mark, push the children not marked.          *)
Turn(list, s) ==
    LET current == Last(s.stack)
        marked  == s.visited \union {current}
    IN  IF s.stack = <<>> THEN s
        ELSE IF current \in s.visited
        THEN [visited |-> s.visited, stack |-> Front(s.stack)]
        ELSE [visited |-> marked,
              stack |-> Front(s.stack) \o SetToSeq(Children(list, current) \ marked)]

(* Walk(list, c)[n]: what is marked and on the stack after n turns.        *)
Walk(list, c) ==
    LET walk[n \in Nat] ==
            IF n = 0 THEN [visited |-> {}, stack |-> <<c>>] ELSE Turn(list, walk[n-1])
    IN  walk

(* The loop takes a turn for every push, and pushes nothing twice.         *)
Turns == Cardinality(Categories) + 1

GetDescendantIds(list, c) == Walk(list, c)[Turns].visited \ {c}

(* Depth(list)[n]: the parents that the calls of buildTree n levels below  *)
(* the first one are made for, one call for each category in a level.      *)
Depth(list) ==
    LET level[n \in Nat] ==
            IF n = 0 THEN {Root} ELSE UNION {Children(list, p) : p \in level[n-1]}
    IN  level

(* The ids in the tree that getTree answers with. *)
BuildTree(list) == UNION {Depth(list)[n] : n \in 1..Cardinality(Categories)}

(* Both end, and find what is below: the loop has an empty stack, and no   *)
(* call is left to make. *)
MeetsAll(list) ==
    /\ \A c \in Categories :
           /\ Walk(list, c)[Turns].stack = <<>>
           /\ GetDescendantIds(list, c) = Descendants(list, c)
    /\ Depth(list)[Turns] = {}
    /\ BuildTree(list) = Descendants(list, Root)

(* Lists that a reader may have: the table, and the table but for one row, *)
(* as a stale cache or two moves that raced may leave it, cycles included. *)
ListsAround == {[Rows EXCEPT ![c] = p] : c \in Categories, p \in Categories \union {Root}}

(* The visited set of getDescendantIds, and the recursion of buildTree     *)
(* that has none: on every list a reader may have, the loop empties its    *)
(* stack and has marked what is below the category and nothing else, and   *)
(* buildTree ends and shows what is below the root.                        *)
TraversalsMeetAll == \A list \in ListsAround : MeetsAll(list)
===============================================================================
