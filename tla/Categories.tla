------------------------------ MODULE Categories ------------------------------
(***************************************************************************)
(* CategoriesService: a tree of categories kept in the parentId column,    *)
(* and the flat list of them cached in Redis.  Every change of the tree is *)
(* a database write followed by a DEL of the cache; every reader fills the *)
(* cache with what it has read.  RedisService swallows its errors: a lost  *)
(* GET is a miss, a lost SET or DEL changes nothing.                       *)
(***************************************************************************)
EXTENDS Integers, FiniteSets

CONSTANTS
    Categories, Workers,
    Root,           \* parentId null
    Absent,         \* an id not issued yet, or not in a list
    Gone,           \* a deleted row; ids are never issued again
    Miss,           \* no value in Redis
    MaxFailures     \* bound on lost Redis calls and crashed requests

ASSUME Distinct ==
    /\ Root \notin {Absent, Gone}
    /\ Absent # Gone
    /\ {Root, Absent, Gone, Miss} \cap Categories = {}

VARIABLES
    parent,         \* categories.parent_id
    cache,          \* category:tree:flat
    job,            \* the request each worker serves
    failures

vars == <<parent, cache, job, failures>>

Exists(c) == parent[c] \notin {Absent, Gone}

(* The rows as findMany returns them. *)
Rows == [c \in Categories |-> IF Exists(c) THEN parent[c] ELSE Absent]

(* getDescendantIds visits c and everything below it: the least set that   *)
(* has c and, with a category, its children.                               *)
Closed(list, S) == \A d \in Categories : list[d] \in S => d \in S

Visited(list, c) ==
    {d \in Categories \union {c} :
        \A S \in SUBSET (Categories \union {c}) : c \in S /\ Closed(list, S) => d \in S}

DescendantsOnly(list, c) == {d \in Categories : list[d] = c} \* mutant of Descendants

Descendants(list, c) == Visited(list, c) \ {c}

NoJob == [step |-> "idle", op |-> "browse", id |-> Root, to |-> Root, list |-> Miss]

Init ==
    /\ parent = [c \in Categories |-> Absent]
    /\ cache = Miss
    /\ job = [w \in Workers |-> NoJob]
    /\ failures = 0

At(w, s) == job[w].step = s

Become(w, j) == job' = [job EXCEPT ![w] = j]

GoTo(w, s) == Become(w, [job[w] EXCEPT !.step = s])

Finish(w) == Become(w, NoJob)

Begin(w, s, op, c, d) ==
    /\ At(w, "idle")
    /\ Become(w, [NoJob EXCEPT !.step = s, !.op = op, !.id = c, !.to = d])
    /\ UNCHANGED <<parent, cache, failures>>

-------------------------------------------------------------------------------
(* The requests.  The id of a new category is picked with the request.     *)

CreateCategory(w, c, d) ==
    /\ parent[c] = Absent
    /\ \A v \in Workers : job[v].id # c
    /\ Begin(w, IF d = Root THEN "insert" ELSE "parent", "create", c, d)

(* An update that names a parent, null included; one that does not.        *)
UpdateCategory(w, c, d) ==
    parent[c] # Absent /\ Begin(w, "find", "update", c, d)

RenameCategory(w, c) ==
    parent[c] # Absent /\ Begin(w, "find", "rename", c, Root)

RemoveCategory(w, c) ==
    parent[c] # Absent /\ Begin(w, "find", "remove", c, Root)

(* getTree, and the descendants of getRelatedProducts. *)
Browse(w) == Begin(w, "lookup", "browse", Root, Root)

-------------------------------------------------------------------------------
FindParent(w) ==
    /\ At(w, "parent")
    /\ IF Exists(job[w].to) THEN GoTo(w, "insert") ELSE Finish(w)
    /\ UNCHANGED <<parent, cache, failures>>

(* findOneOrThrow; a category cannot be its own parent; only a new parent  *)
(* that is not null needs the cycle check.                                 *)
FindCategory(w) ==
    LET j == job[w] IN
    /\ At(w, "find")
    /\ IF ~ Exists(j.id) \/ j.to = j.id THEN Finish(w)
       ELSE GoTo(w, IF j.op = "update" /\ j.to # Root THEN "lookup" ELSE "write")
    /\ UNCHANGED <<parent, cache, failures>>

(* With the flat list in hand: a browser answers, an update is refused if  *)
(* the new parent is below the category.                                   *)
UseList(w, list) ==
    IF job[w].op = "browse" \/ job[w].to \in Descendants(list, job[w].id)
    THEN Finish(w)
    ELSE Become(w, [job[w] EXCEPT !.step = "write", !.list = Miss])

Lookup(w) ==
    /\ At(w, "lookup")
    /\ IF cache = Miss THEN GoTo(w, "load") ELSE UseList(w, cache)
    /\ UNCHANGED <<parent, cache, failures>>

LoadDeleted(w) ==                                        \* mutant of Load
    /\ At(w, "load")
    /\ Become(w, [job[w] EXCEPT !.step = "fill", !.list = parent])
    /\ UNCHANGED <<parent, cache, failures>>

Load(w) ==
    /\ At(w, "load")
    /\ Become(w, [job[w] EXCEPT !.step = "fill", !.list = Rows])
    /\ UNCHANGED <<parent, cache, failures>>

Fill(w) ==
    /\ At(w, "fill")
    /\ cache' = job[w].list
    /\ UseList(w, job[w].list)
    /\ UNCHANGED <<parent, failures>>

(* The foreign key wants the parent to exist when the row is written.      *)
ParentHolds(w) == job[w].to # Root => Exists(job[w].to)

(* A write may be refused for its slug, too, which is not kept here.       *)
Refused(w) == UNCHANGED parent /\ Finish(w)

Attached(w) ==
    /\ ParentHolds(w)
    /\ parent' = [parent EXCEPT ![job[w].id] = job[w].to]
    /\ GoTo(w, "forget")

Insert(w) ==
    /\ At(w, "insert")
    /\ Attached(w) \/ Refused(w)
    /\ UNCHANGED <<cache, failures>>

Move(w) ==
    /\ At(w, "write") /\ job[w].op = "update"
    /\ (Exists(job[w].id) /\ Attached(w)) \/ Refused(w)
    /\ UNCHANGED <<cache, failures>>

(* The list has names in it, so it is dropped after a renaming as well.    *)
Rename(w) ==
    /\ At(w, "write") /\ job[w].op = "rename"
    /\ (Exists(job[w].id) /\ UNCHANGED parent /\ GoTo(w, "forget")) \/ Refused(w)
    /\ UNCHANGED <<cache, failures>>

LeaveChildren(w) ==                                      \* mutant of Delete
    /\ At(w, "write") /\ job[w].op = "remove"
    /\ IF Exists(job[w].id)
       THEN parent' = [parent EXCEPT ![job[w].id] = Gone] /\ GoTo(w, "forget")
       ELSE Refused(w)
    /\ UNCHANGED <<cache, failures>>

(* The row goes, and the foreign key sets its children's parentId to null. *)
Delete(w) ==
    /\ At(w, "write") /\ job[w].op = "remove"
    /\ IF Exists(job[w].id)
       THEN /\ parent' = [c \in Categories |->
                             IF c = job[w].id THEN Gone
                             ELSE IF parent[c] = job[w].id THEN Root
                             ELSE parent[c]]
            /\ GoTo(w, "forget")
       ELSE Refused(w)
    /\ UNCHANGED <<cache, failures>>

ForgetNothing(w) ==                                      \* mutant of Forget
    At(w, "forget") /\ Finish(w) /\ UNCHANGED <<parent, cache, failures>>

Forget(w) ==
    /\ At(w, "forget")
    /\ cache' = Miss
    /\ Finish(w)
    /\ UNCHANGED <<parent, failures>>

-------------------------------------------------------------------------------
(* The time to live of the cached list runs out. *)
KeepForever == FALSE /\ UNCHANGED vars                   \* mutant of Expire

Expire == cache # Miss /\ cache' = Miss /\ UNCHANGED <<parent, job, failures>>

(* A Redis call is lost, and the request goes on without it.               *)
RedisLost(w) ==
    /\ failures < MaxFailures /\ failures' = failures + 1
    /\ \/ At(w, "lookup") /\ GoTo(w, "load")
       \/ At(w, "fill") /\ UseList(w, job[w].list)
       \/ At(w, "forget") /\ Finish(w)
    /\ UNCHANGED <<parent, cache>>

(* The request dies: a database error, a crash.                            *)
Crash(w) ==
    /\ ~ At(w, "idle")
    /\ failures < MaxFailures /\ failures' = failures + 1
    /\ Finish(w)
    /\ UNCHANGED <<parent, cache>>

Handle(w) ==
    \/ FindParent(w) \/ FindCategory(w)
    \/ Lookup(w) \/ Load(w) \/ Fill(w)
    \/ Insert(w) \/ Move(w) \/ Rename(w) \/ Delete(w) \/ Forget(w)

Request(w) ==
    \/ \E c \in Categories :
           \/ \E d \in Categories \union {Root} :
                  CreateCategory(w, c, d) \/ UpdateCategory(w, c, d)
           \/ RenameCategory(w, c) \/ RemoveCategory(w, c)
    \/ Browse(w)

Next ==
    \/ \E w \in Workers : Request(w) \/ Handle(w) \/ RedisLost(w) \/ Crash(w)
    \/ Expire

Spec == Init /\ [][Next]_vars

(* Handlers go on and the time to live runs out; nobody has to send        *)
(* requests.                                                               *)
FairSpec == Spec /\ WF_vars(Expire) /\ \A w \in Workers : WF_vars(Handle(w))

-------------------------------------------------------------------------------
Lists == [Categories -> Categories \union {Root, Absent}]

JobSet ==
    [step : {"idle", "parent", "find", "lookup", "load", "fill", "insert", "write",
             "forget"},
     op : {"create", "update", "rename", "remove", "browse"},
     id : Categories \union {Root}, to : Categories \union {Root},
     list : Lists \union {Miss}]

(* The shape of every variable. *)
TypeOK ==
    /\ parent \in [Categories -> Categories \union {Root, Absent, Gone}]
    /\ cache \in Lists \union {Miss}
    /\ job \in [Workers -> JobSet]
    /\ failures \in Nat

(* buildTree from the root reaches every category: no category is its own  *)
(* ancestor ("Prevent creating a cycle", categories.service.ts).           *)
TreeIsWhole == Visited(Rows, Root) = {Root} \union {c \in Categories : Exists(c)}

(* However creations, moves and removals interleave, the parent of a       *)
(* category exists: the checks that ran before the write may be outdated,  *)
(* the foreign key is not.                                                 *)
NoDanglingParent == \A c \in Categories : Exists(c) => parent[c] = Root \/ Exists(parent[c])

CacheIsCurrent == cache \in {Miss, Rows}

(* One request at a time and a Redis that answers: between requests the    *)
(* cache is empty or equal to the table.                                   *)
CurrentBetweenRequests == (\A w \in Workers : At(w, "idle")) => CacheIsCurrent

Writing(w) == ~ At(w, "idle") /\ job[w].op # "browse"

(* A stale list, left by a read that raced a write or by a lost DEL, does  *)
(* not outlive its time to live: once writes stop, readers see the table.  *)
StaleListHeals ==
    <>[](\A w \in Workers : ~ Writing(w)) => <>[]CacheIsCurrent
===============================================================================
