---------------------------- MODULE CategoriesProofs ----------------------------
(***************************************************************************)
(* The category table keeps its references, for every set of categories,   *)
(* any number of requests at once and any number of lost Redis calls.      *)
(* With one request at a time it stays a tree.  The traversals find what   *)
(* they are to find on every list.                                         *)
(***************************************************************************)
EXTENDS Traversals, SetLemmas

Inductive == TypeOK /\ NoDanglingParent

-------------------------------------------------------------------------------
(* What the small steps do to the job of a worker.                         *)

(* findMany returns a list of the categories there are. *)
LEMMA RowsAreAList == TypeOK => Rows \in Lists
BY DEF TypeOK, Rows, Lists, Exists

LEMMA JobBecomes ==
    ASSUME TypeOK, NEW w \in Workers, NEW j \in JobSet, Become(w, j)
    PROVE  job' \in [Workers -> JobSet]
BY DEF TypeOK, Become

LEMMA JobFinishes ==
    ASSUME TypeOK, NEW w \in Workers, Finish(w)
    PROVE  job' \in [Workers -> JobSet]
<1>1. NoJob \in JobSet
  BY DEF NoJob, JobSet
<1>. QED
  BY <1>1, JobBecomes DEF Finish

LEMMA JobGoesTo ==
    ASSUME TypeOK, NEW w \in Workers,
           NEW s \in {"find", "lookup", "load", "insert", "write", "forget"},
           GoTo(w, s)
    PROVE  job' \in [Workers -> JobSet]
<1>1. [job[w] EXCEPT !.step = s] \in JobSet
  BY DEF TypeOK, JobSet
<1>. QED
  BY <1>1, JobBecomes DEF GoTo

LEMMA JobUsesList ==
    ASSUME TypeOK, NEW w \in Workers, NEW list, UseList(w, list)
    PROVE  job' \in [Workers -> JobSet]
<1>1. [job[w] EXCEPT !.step = "write", !.list = Miss] \in JobSet
  BY DEF TypeOK, JobSet
<1>. QED
  BY <1>1, JobBecomes, JobFinishes DEF UseList

LEMMA JobBegins ==
    ASSUME TypeOK, NEW w \in Workers,
           NEW s \in {"insert", "parent", "find", "lookup"},
           NEW op \in {"create", "update", "rename", "remove", "browse"},
           NEW c \in Categories \union {Root}, NEW d \in Categories \union {Root},
           Begin(w, s, op, c, d)
    PROVE  TypeOK'
<1>1. [NoJob EXCEPT !.step = s, !.op = op, !.id = c, !.to = d] \in JobSet
  BY DEF NoJob, JobSet
<1>. QED
  BY <1>1, JobBecomes DEF Begin, TypeOK

-------------------------------------------------------------------------------
(* What the writes do to the table.                                        *)

LEMMA TableUnchanged ==
    ASSUME NoDanglingParent, UNCHANGED parent
    PROVE  NoDanglingParent'
BY DEF NoDanglingParent, Exists

(* insert and update: the row gets a parent that exists at that moment. *)
LEMMA Attach ==
    ASSUME Inductive, NEW c, NEW d \in Categories \union {Root},
           d = Root \/ Exists(d),
           parent' = [parent EXCEPT ![c] = d]
    PROVE  /\ parent' \in [Categories -> Categories \union {Root, Absent, Gone}]
           /\ NoDanglingParent'
BY Distinct DEF Inductive, TypeOK, NoDanglingParent, Exists

(* remove: the children of the row become roots. *)
LEMMA Detach ==
    ASSUME Inductive, NEW r,
           parent' = [c \in Categories |-> IF c = r THEN Gone
                                           ELSE IF parent[c] = r THEN Root
                                           ELSE parent[c]]
    PROVE  /\ parent' \in [Categories -> Categories \union {Root, Absent, Gone}]
           /\ NoDanglingParent'
<1>1. parent' \in [Categories -> Categories \union {Root, Absent, Gone}]
  BY DEF Inductive, TypeOK
<1>2. ASSUME NEW c \in Categories, Exists(c)', parent'[c] # Root
      PROVE  parent'[parent'[c]] \notin {Absent, Gone}
  <2>1. c # r /\ parent[c] # r /\ parent'[c] = parent[c]
    BY <1>2 DEF Exists
  <2>2. Exists(parent[c]) /\ parent[c] \in Categories
    BY <1>2, <2>1 DEF Inductive, TypeOK, NoDanglingParent, Exists
  <2>3. parent'[parent[c]] \in {Root, parent[parent[c]]}
    BY <2>1, <2>2
  <2>. QED
    BY <2>1, <2>2, <2>3, Distinct DEF Exists
<1>. QED
  BY <1>1, <1>2 DEF NoDanglingParent, Exists

-------------------------------------------------------------------------------
(* Every step of a worker keeps the invariant. *)
LEMMA WorkerStep ==
    ASSUME Inductive, NEW w \in Workers,
           Request(w) \/ Handle(w) \/ RedisLost(w) \/ Crash(w)
    PROVE  Inductive'
<1>. USE DEF Inductive
<1>0. job[w] \in JobSet
  BY DEF TypeOK
<1>1. CASE Request(w)
  <2>1. PICK s \in {"insert", "parent", "find", "lookup"},
             op \in {"create", "update", "rename", "remove", "browse"},
             c \in Categories \union {Root}, d \in Categories \union {Root} :
             Begin(w, s, op, c, d)
    BY <1>1, Zenon DEF Request, CreateCategory, UpdateCategory, RenameCategory,
       RemoveCategory, Browse
  <2>2. TypeOK'
    BY <2>1, JobBegins
  <2>. QED
    BY <2>1, <2>2, TableUnchanged DEF Begin
<1>2. CASE FindParent(w)
  BY <1>2, JobGoesTo, JobFinishes, TableUnchanged DEF FindParent, TypeOK
<1>3. CASE FindCategory(w)
  BY <1>3, JobGoesTo, JobFinishes, TableUnchanged DEF FindCategory, TypeOK
<1>4. CASE Lookup(w)
  BY <1>4, JobGoesTo, JobUsesList, TableUnchanged DEF Lookup, TypeOK
<1>5. CASE Load(w)
  <2>1. [job[w] EXCEPT !.step = "fill", !.list = Rows] \in JobSet
    BY <1>0, RowsAreAList DEF JobSet
  <2>. QED
    BY <1>5, <2>1, JobBecomes, TableUnchanged DEF Load, TypeOK
<1>6. CASE Fill(w)
  BY <1>0, <1>6, JobUsesList, TableUnchanged DEF Fill, TypeOK, JobSet
<1>7. CASE Insert(w)
  BY <1>0, <1>7, JobGoesTo, JobFinishes, TableUnchanged, Attach
  DEF Insert, Attached, Refused, ParentHolds, TypeOK, JobSet
<1>8. CASE Move(w)
  <2>1. CASE Attached(w)
    BY <1>0, <1>8, <2>1, JobGoesTo, Attach DEF Move, Attached, ParentHolds, TypeOK, JobSet
  <2>2. CASE Refused(w)
    BY <1>8, <2>2, JobFinishes, TableUnchanged DEF Move, Refused, TypeOK
  <2>. QED
    BY <1>8, <2>1, <2>2 DEF Move
<1>13. CASE Rename(w)
  BY <1>13, JobGoesTo, JobFinishes, TableUnchanged DEF Rename, Refused, TypeOK
<1>9. CASE Delete(w)
  BY <1>9, JobGoesTo, JobFinishes, TableUnchanged, Detach DEF Delete, Refused, TypeOK
<1>10. CASE Forget(w)
  BY <1>10, JobFinishes, TableUnchanged DEF Forget, TypeOK
<1>11. CASE RedisLost(w)
  BY <1>11, JobGoesTo, JobUsesList, JobFinishes, TableUnchanged DEF RedisLost, TypeOK
<1>12. CASE Crash(w)
  BY <1>12, JobFinishes, TableUnchanged DEF Crash, TypeOK
<1>. QED
  BY <1>1, <1>2, <1>3, <1>4, <1>5, <1>6, <1>7, <1>8, <1>9, <1>10, <1>11, <1>12, <1>13
  DEF Handle

LEMMA Starts == Init => Inductive
BY DEF Init, NoJob, JobSet, Inductive, TypeOK, NoDanglingParent, Exists

LEMMA Goes == Inductive /\ [Next]_vars => Inductive'
<1>. SUFFICES ASSUME Inductive, [Next]_vars PROVE Inductive'
  OBVIOUS
<1>1. CASE Expire
  BY <1>1, TableUnchanged DEF Expire, Inductive, TypeOK
<1>2. CASE UNCHANGED vars
  BY <1>2, TableUnchanged DEF vars, Inductive, TypeOK
<1>. QED
  BY <1>1, <1>2, WorkerStep DEF Next

LEMMA Invariance == Spec => []Inductive
BY Starts, Goes, PTL DEF Spec

(* CategoriesService: table, cache and requests keep their shape; no list  *)
(* that is read or cached names a deleted category.                        *)
THEOREM TypeCorrect == Spec => []TypeOK
BY Invariance, PTL DEF Inductive

(* CategoriesService: whatever the checks of a request have read, and      *)
(* however old it is when the row is written, no write and no removal      *)
(* leaves a category whose parent is missing.                              *)
THEOREM References == Spec => []NoDanglingParent
BY Invariance, PTL DEF Inductive

-------------------------------------------------------------------------------
(* One request at a time, and a Redis that answers.                        *)

Alone == MaxFailures = 0 /\ \A v, w \in Workers : v = w

(* Categories that hang on each other and not on the root. *)
Adrift(X, table) ==
    X # {} /\ X \subseteq Categories /\ \A d \in X : table[d] \in X

(* A tree is a table without such a set: this is what the steps preserve.  *)
Whole(table) == \A X \in SUBSET Categories : ~ Adrift(X, table)

LEMMA WholeIsTree == ASSUME Inductive PROVE TreeIsWhole <=> Whole(parent)
<1>. DEFINE There == {c \in Categories : Exists(c)}
<1>1. \A d \in Categories : Rows[d] \in Categories \union {Root} => Exists(d) /\ Rows[d] = parent[d]
  BY Distinct DEF Rows, Exists
<1>2. ASSUME TreeIsWhole, NEW X \in SUBSET Categories, Adrift(X, parent) PROVE FALSE
  <2>. DEFINE S == (Categories \union {Root}) \ X
  <2>1. Root \in S /\ S \in SUBSET (Categories \union {Root})
    BY <1>2, Distinct
  <2>2. Closed(Rows, S)
    <3>. SUFFICES ASSUME NEW d \in Categories, Rows[d] \in S PROVE d \in S
      BY DEF Closed
    <3>. QED
      BY <1>1, <1>2 DEF Adrift
  <2>3. PICK d \in X : TRUE
    BY <1>2 DEF Adrift
  <2>4. d \in There
    BY <1>2, Distinct DEF Adrift, Exists
  <2>5. d \in Visited(Rows, Root)
    BY <1>2, <2>4 DEF TreeIsWhole
  <2>. QED
    BY <2>1, <2>2, <2>3, <2>5 DEF Visited
<1>3. ASSUME Whole(parent) PROVE TreeIsWhole
  <2>1. Closed(Rows, {Root} \union There)
    BY <1>1 DEF Closed
  <2>2. Visited(Rows, Root) \subseteq {Root} \union There
    BY <2>1 DEF Visited
  <2>3. ASSUME NEW d \in There, NEW S \in SUBSET (Categories \union {Root}),
               Root \in S, Closed(Rows, S), d \notin S
        PROVE  FALSE
    <3>. DEFINE X == There \ S
    <3>1. ASSUME NEW c \in X PROVE parent[c] \in X
      <4>1. Rows[c] = parent[c] /\ parent[c] \notin S
        BY <2>3, <3>1 DEF Rows, Closed
      <4>. QED
        BY <2>3, <3>1, <4>1 DEF Inductive, TypeOK, NoDanglingParent, Exists
    <3>. QED
      BY <1>3, <2>3, <3>1 DEF Whole, Adrift
  <2>. QED
    BY <2>2, <2>3 DEF TreeIsWhole, Visited
<1>. QED
  BY <1>2, <1>3 DEF Whole

(* A new category has nothing below it. *)
LEMMA InsertKeepsTree ==
    ASSUME Inductive, Whole(parent), NEW c \in Categories, ~ Exists(c), NEW d,
           d = Root \/ Exists(d), parent' = [parent EXCEPT ![c] = d]
    PROVE  Whole(parent')
<1>. SUFFICES ASSUME NEW X \in SUBSET Categories, Adrift(X, parent') PROVE FALSE
  BY DEF Whole
<1>1. ASSUME NEW e \in X \ {c} PROVE parent[e] \in X \ {c}
  BY <1>1, Distinct DEF Adrift, Inductive, TypeOK, NoDanglingParent, Exists
<1>2. X \ {c} # {}
  BY Distinct DEF Adrift, Inductive, TypeOK, Exists
<1>. QED
  BY <1>1, <1>2 DEF Whole, Adrift

(* The cycle check does what it is for: what moves to a place that is not  *)
(* below it, in the table as it is, makes no cycle.  What would be adrift  *)
(* after the move is adrift before it without what is below the category.  *)
LEMMA MoveKeepsTree ==
    ASSUME Inductive, Whole(parent), NEW c \in Categories, NEW d,
           d = Root \/ d \notin Visited(Rows, c),
           parent' = [parent EXCEPT ![c] = d]
    PROVE  Whole(parent')
<1>. DEFINE Below == Visited(Rows, c)
<1>. SUFFICES ASSUME NEW X \in SUBSET Categories, Adrift(X, parent') PROVE FALSE
  BY DEF Whole
<1>1. c \in Below /\ Closed(Rows, Below)
  BY DEF Visited, Closed
<1>2. CASE c \notin X
  BY <1>2 DEF Whole, Adrift, Inductive, TypeOK
<1>3. CASE c \in X
  <2>1. d \in X /\ d \notin Below
    BY <1>3, Distinct DEF Adrift, Inductive, TypeOK
  <2>2. ASSUME NEW e \in X \ Below PROVE parent[e] \in X \ Below
    <3>1. e # c /\ parent[e] \in X
      BY <1>1, <2>2 DEF Adrift, Inductive, TypeOK
    <3>2. Rows[e] = parent[e]
      BY <3>1, Distinct DEF Rows, Exists
    <3>. QED
      BY <1>1, <2>2, <3>1, <3>2 DEF Closed
  <2>. QED
    BY <2>1, <2>2 DEF Whole, Adrift
<1>. QED
  BY <1>2, <1>3

(* The children of a removed category hang on the root.                    *)
LEMMA DeleteKeepsTree ==
    ASSUME Inductive, Whole(parent), NEW r,
           parent' = [c \in Categories |-> IF c = r THEN Gone
                                           ELSE IF parent[c] = r THEN Root
                                           ELSE parent[c]]
    PROVE  Whole(parent')
<1>. SUFFICES ASSUME NEW X \in SUBSET Categories, Adrift(X, parent') PROVE FALSE
  BY DEF Whole
<1>1. ASSUME NEW e \in X PROVE parent[e] \in X
  BY <1>1, Distinct DEF Adrift
<1>. QED
  BY <1>1 DEF Whole, Adrift

(* What the only request knows is true: its list is the table, the cache   *)
(* is unless it has just written, what it inserts is not there, and what   *)
(* it moves goes to a place that is not below it.                          *)
JobKnows(w) ==
    LET j == job[w] IN
    /\ ~ At(w, "forget") => CacheIsCurrent
    /\ At(w, "fill") => j.list = Rows
    /\ j.step \in {"parent", "insert"} => j.id \in Categories /\ ~ Exists(j.id)
    /\ At(w, "find") => j.op \in {"update", "rename", "remove"}
    /\ j.step \in {"find", "lookup", "load", "fill", "write"} /\ j.op # "browse" =>
           j.id \in Categories
    /\ j.step \in {"lookup", "load", "fill"} /\ j.op # "browse" =>
           j.op = "update" /\ j.to # j.id
    /\ At(w, "write") /\ j.op = "update" /\ j.to # Root =>
           j.to \notin Visited(Rows, j.id)

SerialInv ==
    /\ Inductive /\ failures = 0
    /\ Whole(parent)
    /\ \A w \in Workers : JobKnows(w)
    /\ Workers = {} => CacheIsCurrent

LEMMA SameTable ==
    ASSUME UNCHANGED parent
    PROVE  Rows' = Rows /\ Whole(parent)' = Whole(parent)
BY DEF Rows, Exists

(* Steps that leave the table and the cache alone. *)
LEMMA SerialQuiet ==
    ASSUME SerialInv, NEW w \in Workers, Workers = {w}, Inductive', UNCHANGED <<parent, cache, failures>>,
           NEW j \in JobSet, Become(w, j), ~ At(w, "forget"),
           j.step = "fill" => j.list = Rows,
           j.step \in {"parent", "insert"} => j.id \in Categories /\ ~ Exists(j.id),
           j.step = "find" => j.op \in {"update", "rename", "remove"},
           j.step \in {"find", "lookup", "load", "fill", "write"} /\ j.op # "browse" =>
               j.id \in Categories,
           j.step \in {"lookup", "load", "fill"} /\ j.op # "browse" =>
               j.op = "update" /\ j.to # j.id,
           j.step = "write" /\ j.op = "update" /\ j.to # Root =>
               j.to \notin Visited(Rows, j.id)
    PROVE  SerialInv'
<1>1. job'[w] = j
  BY DEF SerialInv, Inductive, TypeOK, Become
<1>2. Rows' = Rows /\ Whole(parent)' /\ \A c \in Categories : Exists(c)' = Exists(c)
  BY SameTable DEF SerialInv, Exists
<1>3. CacheIsCurrent'
  BY <1>2 DEF SerialInv, JobKnows, CacheIsCurrent
<1>4. JobKnows(w)'
  BY <1>1, <1>2, <1>3 DEF JobKnows, At
<1>. QED
  BY <1>2, <1>3, <1>4 DEF SerialInv

(* The list is the table: the request answers, or goes on to the write     *)
(* knowing that it moves to a place that is not below the category.        *)
LEMMA SerialUse ==
    ASSUME SerialInv, NEW w \in Workers, Workers = {w}, Inductive', UseList(w, Rows),
           job[w].step \in {"lookup", "fill"}, UNCHANGED <<parent, failures>>,
           cache' \in {cache, Rows}
    PROVE  SerialInv'
<1>1. Rows' = Rows /\ Whole(parent)'
  BY SameTable DEF SerialInv
<1>2. CacheIsCurrent'
  BY <1>1 DEF SerialInv, JobKnows, At, CacheIsCurrent
<1>3. JobKnows(w)'
  <2>1. CASE Finish(w)
    BY <1>2, <2>1 DEF Finish, Become, NoJob, JobKnows, At, SerialInv, Inductive, TypeOK
  <2>2. CASE ~ (job[w].op = "browse" \/ job[w].to \in Descendants(Rows, job[w].id))
    <3>1. job' = [job EXCEPT ![w] = [job[w] EXCEPT !.step = "write", !.list = Miss]]
      BY <2>2 DEF UseList, Become
    <3>2. job[w] \in JobSet
      BY DEF SerialInv, Inductive, TypeOK
    <3>3. /\ job'[w].step = "write" /\ job'[w].op = job[w].op
          /\ job'[w].to = job[w].to /\ job'[w].id = job[w].id
      BY <3>1, <3>2 DEF SerialInv, Inductive, TypeOK, JobSet
    <3>4. job[w].id \in Categories /\ job[w].to # job[w].id
      BY <2>2 DEF SerialInv, JobKnows
    <3>5. job[w].to \notin Visited(Rows, job[w].id)
      BY <2>2, <3>4 DEF Descendants
    <3>. QED
      BY <1>1, <1>2, <3>3, <3>4, <3>5 DEF JobKnows, At
  <2>. QED
    BY <2>1, <2>2 DEF UseList
<1>. QED
  BY <1>1, <1>2, <1>3 DEF SerialInv

(* A write is followed by the DEL, a write that fails by nothing.          *)
LEMMA SerialWrite ==
    ASSUME SerialInv, NEW w \in Workers, Workers = {w}, Inductive', Whole(parent)',
           UNCHANGED <<cache, failures>>, ~ At(w, "forget"),
           \/ GoTo(w, "forget")
           \/ UNCHANGED parent /\ Finish(w)
    PROVE  SerialInv'
<1>1. CASE GoTo(w, "forget")
  <2>1. job'[w].step = "forget"
    BY <1>1 DEF GoTo, Become, SerialInv, Inductive, TypeOK, JobSet
  <2>. QED
    BY <2>1 DEF SerialInv, JobKnows, At
<1>2. CASE UNCHANGED parent /\ Finish(w)
  <2>1. NoJob \in JobSet
    BY DEF NoJob, JobSet
  <2>. QED
    BY <1>2, <2>1, SerialQuiet DEF Finish, NoJob
<1>. QED
  BY <1>1, <1>2

LEMMA SerialStep ==
    ASSUME Alone, SerialInv, NEW w \in Workers,
           Request(w) \/ Handle(w) \/ RedisLost(w) \/ Crash(w)
    PROVE  SerialInv'
<1>1. Workers = {w} /\ MaxFailures = 0 /\ failures = 0
  BY DEF Alone, SerialInv
<1>2. Inductive /\ Inductive' /\ Whole(parent) /\ JobKnows(w)
  BY WorkerStep DEF SerialInv
<1>3. job[w] \in JobSet /\ NoJob \in JobSet /\ job \in [Workers -> JobSet]
  BY <1>2 DEF NoJob, JobSet, Inductive, TypeOK
<1>4. CASE Request(w)
  <2>1. PICK s \in {"insert", "parent", "find", "lookup"},
             op \in {"create", "update", "rename", "remove", "browse"},
             c \in Categories \union {Root}, d \in Categories \union {Root} :
             /\ Begin(w, s, op, c, d)
             /\ s \in {"parent", "insert"} => c \in Categories /\ parent[c] = Absent
             /\ s = "find" => c \in Categories /\ op \in {"update", "rename", "remove"}
             /\ s = "lookup" => op = "browse"
    <3>1. CASE \E c \in Categories : \E d \in Categories \union {Root} : CreateCategory(w, c, d)
      BY <3>1 DEF CreateCategory
    <3>2. CASE \E c \in Categories : \E d \in Categories \union {Root} : UpdateCategory(w, c, d)
      BY <3>2 DEF UpdateCategory
    <3>3. CASE \E c \in Categories : RemoveCategory(w, c)
      BY <3>3 DEF RemoveCategory
    <3>4. CASE \E c \in Categories : RenameCategory(w, c)
      BY <3>4 DEF RenameCategory
    <3>5. CASE Browse(w)
      BY <3>5 DEF Browse
    <3>. QED
      BY <1>4, <3>1, <3>2, <3>3, <3>4, <3>5 DEF Request
  <2>. DEFINE j == [NoJob EXCEPT !.step = s, !.op = op, !.id = c, !.to = d]
  <2>2. j \in JobSet /\ j.step = s /\ j.op = op /\ j.id = c
    BY DEF NoJob, JobSet
  <2>3. s \in {"parent", "insert"} => ~ Exists(c)
    BY <2>1 DEF Exists
  <2>4. /\ Become(w, j) /\ ~ At(w, "forget") /\ UNCHANGED <<parent, cache, failures>>
    BY <2>1 DEF Begin, At
  <2>. HIDE DEF j
  <2>. QED
    BY <1>1, <1>2, <2>1, <2>2, <2>3, <2>4, SerialQuiet DEF SerialInv
<1>5. CASE FindParent(w)
  <2>. DEFINE j == [job[w] EXCEPT !.step = "insert"]
  <2>1. j \in JobSet /\ j.step = "insert" /\ j.id = job[w].id
    BY <1>3 DEF JobSet
  <2>2. Become(w, j) \/ Become(w, NoJob)
    BY <1>5 DEF FindParent, GoTo, Finish
  <2>. HIDE DEF j
  <2>. QED
    BY <1>1, <1>2, <1>3, <1>5, <2>1, <2>2, SerialQuiet
    DEF FindParent, JobKnows, At, NoJob, SerialInv
<1>6. CASE FindCategory(w)
  <2>1. CASE Finish(w)
    BY <1>1, <1>2, <1>3, <1>6, <2>1, SerialQuiet DEF FindCategory, Finish, At, NoJob, SerialInv
  <2>2. ASSUME NEW s \in {"write", "lookup"}, GoTo(w, s),
               s = "write" => job[w].op # "update" \/ job[w].to = Root,
               s = "lookup" => job[w].op = "update" /\ job[w].to # job[w].id
        PROVE  SerialInv'
    <3>. DEFINE j == [job[w] EXCEPT !.step = s]
    <3>1. /\ j \in JobSet /\ j.step = s
          /\ j.op = job[w].op /\ j.id = job[w].id /\ j.to = job[w].to
      BY <1>3 DEF JobSet
    <3>2. Become(w, j) /\ ~ At(w, "forget") /\ UNCHANGED <<parent, cache, failures>>
      BY <1>6, <2>2 DEF FindCategory, GoTo, At
    <3>3. job[w].id \in Categories /\ job[w].op \in {"update", "rename", "remove"}
      BY <1>2, <1>6 DEF FindCategory, JobKnows, At
    <3>. HIDE DEF j
    <3>. QED
      BY <1>1, <1>2, <2>2, <3>1, <3>2, <3>3, SerialQuiet
  <2>. QED
    BY <1>6, <2>1, <2>2 DEF FindCategory
<1>7. CASE Lookup(w)
  <2>1. CASE cache = Miss
    <3>. DEFINE j == [job[w] EXCEPT !.step = "load"]
    <3>1. /\ j \in JobSet /\ j.step = "load"
          /\ j.op = job[w].op /\ j.id = job[w].id /\ j.to = job[w].to
      BY <1>3 DEF JobSet
    <3>2. Become(w, j)
      BY <1>7, <2>1 DEF Lookup, GoTo
    <3>. HIDE DEF j
    <3>. QED
      BY <1>1, <1>2, <1>7, <3>1, <3>2, SerialQuiet DEF Lookup, JobKnows, At
  <2>2. CASE cache # Miss
    <3>1. cache = Rows
      BY <1>2, <1>7, <2>2 DEF Lookup, JobKnows, At, CacheIsCurrent
    <3>. QED
      BY <1>1, <1>2, <1>7, <2>2, <3>1, SerialUse DEF Lookup, At
  <2>. QED
    BY <2>1, <2>2
<1>8. CASE Load(w)
  <2>. DEFINE j == [job[w] EXCEPT !.step = "fill", !.list = Rows]
  <2>1. /\ j \in JobSet /\ j.step = "fill" /\ j.list = Rows
        /\ j.op = job[w].op /\ j.id = job[w].id /\ j.to = job[w].to
    BY <1>2, <1>3, RowsAreAList DEF JobSet, Inductive
  <2>2. Become(w, j)
    BY <1>8 DEF Load
  <2>. HIDE DEF j
  <2>. QED
    BY <1>1, <1>2, <1>8, <2>1, <2>2, SerialQuiet DEF Load, JobKnows, At
<1>9. CASE Fill(w)
  <2>1. job[w].list = Rows
    BY <1>2, <1>9 DEF Fill, JobKnows
  <2>. QED
    BY <1>1, <1>2, <1>9, <2>1, SerialUse DEF Fill, At
<1>10. CASE Insert(w)
  <2>1. CASE Attached(w)
    <3>1. Whole(parent')
      BY <1>2, <1>10, <2>1, InsertKeepsTree DEF Insert, Attached, ParentHolds, JobKnows, At
    <3>. QED
      BY <1>1, <1>2, <1>10, <2>1, <3>1, SerialWrite DEF Insert, Attached, At
  <2>2. CASE Refused(w)
    BY <1>1, <1>2, <1>10, <2>2, SameTable, SerialWrite DEF Insert, Refused, At
  <2>. QED
    BY <1>10, <2>1, <2>2 DEF Insert
<1>11. CASE Move(w)
  <2>1. CASE Attached(w)
    <3>1. Whole(parent')
      BY <1>2, <1>11, <2>1, MoveKeepsTree DEF Move, Attached, JobKnows, At
    <3>. QED
      BY <1>1, <1>2, <1>11, <2>1, <3>1, SerialWrite DEF Move, Attached, At
  <2>2. CASE Refused(w)
    BY <1>1, <1>2, <1>11, <2>2, SameTable, SerialWrite DEF Move, Refused, At
  <2>. QED
    BY <1>11, <2>1, <2>2 DEF Move
<1>15. CASE Rename(w)
  BY <1>1, <1>2, <1>15, SameTable, SerialWrite DEF Rename, Refused, At
<1>12. CASE Delete(w)
  <2>1. CASE Exists(job[w].id)
    <3>1. Whole(parent')
      BY <1>2, <1>12, <2>1, DeleteKeepsTree DEF Delete
    <3>. QED
      BY <1>1, <1>2, <1>12, <2>1, <3>1, SerialWrite DEF Delete, At
  <2>2. CASE ~ Exists(job[w].id)
    BY <1>1, <1>2, <1>12, <2>2, SameTable, SerialWrite DEF Delete, Refused, At
  <2>. QED
    BY <2>1, <2>2
<1>13. CASE Forget(w)
  <2>1. Rows' = Rows /\ Whole(parent)' /\ CacheIsCurrent'
    BY <1>2, <1>13, SameTable DEF Forget, CacheIsCurrent
  <2>2. job'[w] = NoJob
    BY <1>3, <1>13 DEF Forget, Finish, Become
  <2>. QED
    BY <1>1, <1>2, <1>13, <2>1, <2>2 DEF Forget, SerialInv, JobKnows, At, NoJob
<1>14. ~ RedisLost(w) /\ ~ Crash(w)
  BY <1>1 DEF RedisLost, Crash
<1>. QED
  BY <1>4, <1>5, <1>6, <1>7, <1>8, <1>9, <1>10, <1>11, <1>12, <1>13, <1>14,
     <1>15 DEF Handle

LEMMA SerialInvariance == Alone => (Spec => []SerialInv)
<1>. SUFFICES ASSUME Alone PROVE Spec => []SerialInv
  OBVIOUS
<1>1. Init => SerialInv
  <2>. SUFFICES ASSUME Init PROVE SerialInv
    OBVIOUS
  <2>1. Whole(parent)
    BY Distinct DEF Init, Whole, Adrift
  <2>2. \A w \in Workers : JobKnows(w)
    BY DEF Init, JobKnows, At, NoJob, CacheIsCurrent
  <2>. QED
    BY <2>1, <2>2, Starts DEF SerialInv, Init, CacheIsCurrent
<1>2. SerialInv /\ [Next]_vars => SerialInv'
  <2>. SUFFICES ASSUME SerialInv, [Next]_vars PROVE SerialInv'
    OBVIOUS
  <2>1. Inductive'
    BY Goes DEF SerialInv
  <2>2. CASE Expire \/ UNCHANGED vars
    <3>1. /\ Rows' = Rows /\ Whole(parent)' = Whole(parent)
          /\ job' = job /\ failures' = failures
          /\ (CacheIsCurrent => CacheIsCurrent')
          /\ \A c \in Categories : Exists(c)' = Exists(c)
      BY <2>2, SameTable DEF Expire, vars, CacheIsCurrent, Exists
    <3>2. ASSUME NEW w \in Workers PROVE JobKnows(w)'
      BY <3>1 DEF SerialInv, JobKnows, At
    <3>. QED
      BY <2>1, <3>1, <3>2 DEF SerialInv
  <2>. QED
    BY <2>2, SerialStep DEF Next
<1>. QED
  BY <1>1, <1>2, PTL DEF Spec

(* "Prevent creating a cycle": while requests come one at a time and Redis *)
(* answers, no sequence of creations, moves and removals detaches a        *)
(* category from the root, whatever the number of categories.              *)
THEOREM TreeStaysWhole == Alone => (Spec => []TreeIsWhole)
<1>1. SerialInv => TreeIsWhole
  BY WholeIsTree DEF SerialInv
<1>. QED
  BY <1>1, SerialInvariance, PTL

(* Under the same conditions every write is followed by its DEL before the *)
(* next request reads the cache.                                           *)
THEOREM CacheStaysCurrent == Alone => (Spec => []CurrentBetweenRequests)
<1>1. SerialInv => CurrentBetweenRequests
  BY DEF SerialInv, JobKnows, At, CurrentBetweenRequests
<1>. QED
  BY <1>1, SerialInvariance, PTL

-------------------------------------------------------------------------------
(* The traversals of the list.                                             *)

(* Places a walk may come to, and what it may have in hand. *)
Places == Categories \union {Root}

WalkStates == [visited : SUBSET Places, stack : Seq(Places)]

Listed(q) == {q[i] : i \in 1..Len(q)}

LEMMA LastAndFront ==
    ASSUME NEW D, NEW q \in Seq(D), q # <<>>
    PROVE  /\ Last(q) \in D /\ Front(q) \in Seq(D) /\ Len(Front(q)) = Len(q) - 1
           /\ Listed(q) = Listed(Front(q)) \union {Last(q)}
<1>1. Len(q) \in Nat \ {0} /\ \A i \in 1..Len(q) : q[i] \in D
  OBVIOUS
<1>2. Front(q) \in Seq(D) /\ Len(Front(q)) = Len(q) - 1
  <2>1. Len(q) - 1 \in Nat /\ Front(q) = [i \in 1..Len(q) - 1 |-> q[i]]
    BY <1>1 DEF Front
  <2>2. Front(q) \in [1..Len(q) - 1 -> D]
    BY <1>1, <2>1
  <2>. QED
    BY <2>1, <2>2
<1>3. \A i \in 1..Len(q) - 1 : Front(q)[i] = q[i]
  BY <1>1 DEF Front
<1>4. Listed(q) = Listed(Front(q)) \union {Last(q)}
  BY <1>1, <1>2, <1>3 DEF Listed, Last
<1>. QED
  BY <1>1, <1>2, <1>4 DEF Last

LEMMA ListedBoth ==
    ASSUME NEW D, NEW q \in Seq(D), NEW r \in Seq(D)
    PROVE  /\ q \o r \in Seq(D) /\ Len(q \o r) = Len(q) + Len(r)
           /\ Listed(q \o r) = Listed(q) \union Listed(r)
<1>1. q \o r \in Seq(D) /\ Len(q \o r) = Len(q) + Len(r) /\ Len(q) \in Nat /\ Len(r) \in Nat
  OBVIOUS
<1>2. /\ \A i \in 1..Len(q) : (q \o r)[i] = q[i]
      /\ \A i \in 1..Len(r) : (q \o r)[Len(q) + i] = r[i]
      /\ \A i \in 1..Len(q) + Len(r) : i > Len(q) => (q \o r)[i] = r[i - Len(q)]
  BY <1>1
<1>3. Listed(q \o r) \subseteq Listed(q) \union Listed(r)
  BY <1>1, <1>2 DEF Listed
<1>4. Listed(q) \subseteq Listed(q \o r)
  BY <1>1, <1>2 DEF Listed
<1>5. Listed(r) \subseteq Listed(q \o r)
  <2>1. ASSUME NEW i \in 1..Len(r) PROVE r[i] \in Listed(q \o r)
    <3>1. Len(q) + i \in 1..Len(q \o r)
      BY <1>1
    <3>. QED
      BY <1>2, <3>1 DEF Listed
  <2>. QED
    BY <2>1 DEF Listed
<1>. QED
  BY <1>1, <1>3, <1>4, <1>5

(* One turn: a category that was marked is dropped; another one is marked, *)
(* and its children that are not marked are put in its place. *)
LEMMA TurnDoes ==
    ASSUME IsFiniteSet(Categories), NEW list, NEW s \in WalkStates, s.stack # <<>>
    PROVE  LET current == Last(s.stack)
               t       == Turn(list, s)
           IN  /\ t \in WalkStates /\ current \in Places
               /\ Listed(s.stack) = Listed(Front(s.stack)) \union {current}
               /\ current \in s.visited =>
                      /\ t.visited = s.visited
                      /\ Listed(t.stack) = Listed(Front(s.stack))
                      /\ Len(t.stack) = Len(s.stack) - 1
               /\ current \notin s.visited =>
                      /\ t.visited = s.visited \union {current}
                      /\ Listed(t.stack) = Listed(Front(s.stack)) \union
                                           (Children(list, current) \ t.visited)
                      /\ Len(t.stack) <= Len(s.stack) - 1 + Cardinality(Children(list, current))
<1>. DEFINE current == Last(s.stack)
            front   == Front(s.stack)
            marked  == s.visited \union {current}
            S       == Children(list, current) \ marked
            new     == SetToSeq(S)
<1>1. s.visited \in SUBSET Places /\ s.stack \in Seq(Places)
  BY DEF WalkStates
<1>2. /\ current \in Places /\ front \in Seq(Places) /\ Len(front) = Len(s.stack) - 1
      /\ Listed(s.stack) = Listed(front) \union {current}
  BY <1>1, LastAndFront
<1>3. IsFiniteSet(Children(list, current)) /\ IsFiniteSet(S)
      /\ Cardinality(S) <= Cardinality(Children(list, current))
      /\ Cardinality(S) \in Nat /\ Cardinality(Children(list, current)) \in Nat
  <2>1. Children(list, current) \in SUBSET Categories /\ S \in SUBSET Children(list, current)
    BY DEF Children
  <2>2. IsFiniteSet(Children(list, current))
    BY <2>1, FS_Subset
  <2>3. IsFiniteSet(S) /\ Cardinality(S) <= Cardinality(Children(list, current))
    BY <2>1, <2>2, FS_Subset
  <2>. QED
    BY <2>2, <2>3, FS_CardinalityType
<1>4. new \in Seq(S) /\ Len(new) = Cardinality(S) /\ Listed(new) = S
  <2>1. /\ new \in Seq(S) /\ Len(new) = Cardinality(S)
        /\ \A x \in S : \E i \in 1..Len(new) : new[i] = x
    BY <1>3, SetToSeqLists
  <2>. HIDE DEF new, S
  <2>. QED
    BY <2>1 DEF Listed
<1>5. new \in Seq(Places)
  <2>1. S \subseteq Places
    BY DEF Children, Places
  <2>. HIDE DEF new, S
  <2>. QED
    BY <1>4, <2>1
<1>. HIDE DEF new, front
<1>6. /\ front \o new \in Seq(Places) /\ Len(front \o new) = Len(front) + Len(new)
      /\ Listed(front \o new) = Listed(front) \union Listed(new)
  BY <1>2, <1>5, ListedBoth
<1>7. CASE current \in s.visited
  <2>1. Turn(list, s) = [visited |-> s.visited, stack |-> front]
    BY <1>7 DEF Turn, front
  <2>. QED
    BY <1>1, <1>2, <1>7, <2>1 DEF WalkStates, front
<1>8. CASE current \notin s.visited
  <2>1. Turn(list, s) = [visited |-> marked, stack |-> front \o new]
    BY <1>8 DEF Turn, front, new
  <2>2. Len(front \o new) <= Len(s.stack) - 1 + Cardinality(Children(list, current))
    <3>1. Len(s.stack) \in Nat
      BY <1>1
    <3>. HIDE DEF current, S
    <3>. QED
      BY <1>2, <1>3, <1>4, <1>6, <3>1
  <2>. QED
    BY <1>1, <1>2, <1>4, <1>6, <1>8, <2>1, <2>2 DEF WalkStates, front
<1>. QED
  BY <1>7, <1>8
(* Visited is the least closed set that has c in it. *)
LEMMA VisitedIsLeast ==
    ASSUME NEW list, NEW c
    PROVE  /\ c \in Visited(list, c) /\ Visited(list, c) \subseteq Categories \union {c}
           /\ Closed(list, Visited(list, c))
           /\ \A S : c \in S /\ Closed(list, S) => Visited(list, c) \subseteq S
<1>1. c \in Visited(list, c) /\ Visited(list, c) \subseteq Categories \union {c}
  BY DEF Visited
<1>2. Closed(list, Visited(list, c))
  <2>. SUFFICES ASSUME NEW d \in Categories, list[d] \in Visited(list, c),
                       NEW S \in SUBSET (Categories \union {c}), c \in S, Closed(list, S)
                PROVE  d \in S
    BY DEF Closed, Visited
  <2>1. list[d] \in S
    BY DEF Visited
  <2>. QED
    BY <2>1 DEF Closed
<1>3. ASSUME NEW S, c \in S, Closed(list, S) PROVE Visited(list, c) \subseteq S
  <2>. DEFINE T == S \intersect (Categories \union {c})
  <2>1. T \in SUBSET (Categories \union {c}) /\ c \in T /\ Closed(list, T)
    BY <1>3 DEF Closed
  <2>. QED
    BY <2>1 DEF Visited
<1>. QED
  BY <1>1, <1>2, <1>3

-------------------------------------------------------------------------------
(* getDescendantIds.                                                       *)

(* The walk is what its equation says. *)
LEMMA WalkTurns ==
    ASSUME IsFiniteSet(Categories), NEW list, NEW c \in Places
    PROVE  /\ Walk(list, c)[0] = [visited |-> {}, stack |-> <<c>>]
           /\ \A n \in Nat : Walk(list, c)[n+1] = Turn(list, Walk(list, c)[n])
<1>. DEFINE start == [visited |-> {}, stack |-> <<c>>]
            g == [s \in WalkStates |-> Turn(list, s)]
<1>1. start \in WalkStates
  BY DEF WalkStates
<1>2. g \in [WalkStates -> WalkStates]
  <2>1. ASSUME NEW s \in WalkStates PROVE Turn(list, s) \in WalkStates
    <3>1. CASE s.stack = <<>>
      BY <3>1 DEF Turn
    <3>2. CASE s.stack # <<>>
      BY <3>2, TurnDoes
    <3>. QED
      BY <3>1, <3>2
  <2>. QED
    BY <2>1
<1>. HIDE DEF start
<1>3. PICK f \in [Nat -> WalkStates] :
          f[0] = start /\ \A n \in Nat \ {0} : f[n] = g[f[n-1]]
  <2>. HIDE DEF g
  <2>. QED
    BY <1>1, <1>2, Iteration
<1>4. ASSUME NEW n \in Nat, n # 0 PROVE g[f[n-1]] = Turn(list, f[n-1])
  BY <1>4
<1>5. f = [n \in Nat |-> IF n = 0 THEN start ELSE Turn(list, f[n-1])]
  <2>1. \A n \in Nat : f[n] = IF n = 0 THEN start ELSE g[f[n-1]]
    <3>. HIDE DEF g, start
    <3>. QED
      BY <1>3
  <2>. HIDE DEF g
  <2>. QED
    BY <1>4, <2>1
<1>. DEFINE W == Walk(list, c)
<1>6. W = [n \in Nat |-> IF n = 0 THEN start ELSE Turn(list, W[n-1])]
  BY <1>5 DEF Walk, start
<1>. HIDE DEF W
<1>7. \A n \in Nat : W[n] = IF n = 0 THEN start ELSE Turn(list, W[n-1])
  BY <1>6
<1>8. W[0] = start
  BY <1>7
<1>9. ASSUME NEW n \in Nat PROVE W[n+1] = Turn(list, W[n])
  <2>1. n + 1 \in Nat /\ n + 1 # 0 /\ (n + 1) - 1 = n
    OBVIOUS
  <2>. QED
    BY <1>7, <2>1
<1>. QED
  BY <1>8, <1>9 DEF W, start

Below(list, V) == {d \in Categories : list[d] \in V}

(* After n turns: nothing but what is to be found is in hand, c is, and so *)
(* is every child of what is marked; and while the stack is not empty, all *)
(* the turns and all that is on the stack are pushes that were made, one   *)
(* for c and one for each child of what is marked. *)
Walks(list, c, n, s) ==
    /\ s \in WalkStates
    /\ s.visited \union Listed(s.stack) \subseteq Visited(list, c)
    /\ c \in s.visited \union Listed(s.stack)
    /\ Below(list, s.visited) \subseteq s.visited \union Listed(s.stack)
    /\ s.stack # <<>> => n + Len(s.stack) <= 1 + Cardinality(Below(list, s.visited))

LEMMA WalkStarts ==
    ASSUME IsFiniteSet(Categories), NEW list, NEW c \in Categories
    PROVE  Walks(list, c, 0, [visited |-> {}, stack |-> <<c>>])
<1>. DEFINE s == [visited |-> {}, stack |-> <<c>>]
<1>1. s \in WalkStates /\ Listed(s.stack) = {c} /\ Len(s.stack) = 1 /\ s.visited = {}
  BY DEF WalkStates, Places, Listed
<1>2. Below(list, {}) = {} /\ Cardinality(Below(list, {})) = 0
  <2>1. Below(list, {}) = {}
    BY DEF Below
  <2>. QED
    BY <2>1, FS_EmptySet
<1>3. c \in Visited(list, c)
  BY VisitedIsLeast
<1>. HIDE DEF s
<1>4. Walks(list, c, 0, s)
  BY <1>1, <1>2, <1>3 DEF Walks
<1>. QED
  BY <1>4 DEF s

LEMMA WalkGoesOn ==
    ASSUME IsFiniteSet(Categories), NEW list, NEW c \in Categories, NEW n \in Nat,
           NEW s, Walks(list, c, n, s)
    PROVE  Walks(list, c, n + 1, Turn(list, s))
<1>1. CASE s.stack = <<>>
  BY <1>1 DEF Walks, Turn
<1>2. CASE s.stack # <<>>
  <2>. DEFINE current == Last(s.stack)
              t == Turn(list, s)
              found == Visited(list, c)
  <2>1. s \in WalkStates
    BY DEF Walks
  <2>2. /\ t \in WalkStates /\ current \in Places
        /\ Listed(s.stack) = Listed(Front(s.stack)) \union {current}
        /\ current \in s.visited =>
               /\ t.visited = s.visited
               /\ Listed(t.stack) = Listed(Front(s.stack))
               /\ Len(t.stack) = Len(s.stack) - 1
        /\ current \notin s.visited =>
               /\ t.visited = s.visited \union {current}
               /\ Listed(t.stack) = Listed(Front(s.stack)) \union
                                    (Children(list, current) \ t.visited)
               /\ Len(t.stack) <= Len(s.stack) - 1 + Cardinality(Children(list, current))
    BY <1>2, <2>1, TurnDoes
  <2>3. Len(s.stack) \in Nat /\ Len(t.stack) \in Nat
    <3>. HIDE DEF t
    <3>. QED
      BY <2>1, <2>2 DEF WalkStates
  <2>. HIDE DEF current, t
  <2>4. current \in found
    BY <2>2 DEF Walks
  <2>5. Children(list, current) \subseteq found
    BY <2>4, VisitedIsLeast DEF Closed, Children
  <2>6. /\ IsFiniteSet(Below(list, s.visited)) /\ IsFiniteSet(Children(list, current))
        /\ Cardinality(Below(list, s.visited)) \in Nat
        /\ Cardinality(Children(list, current)) \in Nat
    <3>1. Below(list, s.visited) \in SUBSET Categories /\ Children(list, current) \in SUBSET Categories
      BY DEF Below, Children
    <3>. QED
      BY <3>1, FS_Subset, FS_CardinalityType
  <2>6a. /\ Cardinality(Below(list, s.visited)) \in Nat
         /\ Cardinality(Children(list, current)) \in Nat
    BY <2>6
  <2>7. ASSUME current \in s.visited PROVE Walks(list, c, n + 1, t)
    <3>1. t.visited = s.visited /\ Listed(t.stack) = Listed(Front(s.stack))
      BY <2>2, <2>7
    <3>2. t.visited \union Listed(t.stack) = s.visited \union Listed(s.stack)
      BY <2>2, <2>7, <3>1
    <3>3. n + 1 + Len(t.stack) <= 1 + Cardinality(Below(list, t.visited))
      <4>1. n + Len(s.stack) <= 1 + Cardinality(Below(list, s.visited))
        BY <1>2 DEF Walks
      <4>2. Len(t.stack) = Len(s.stack) - 1
        BY <2>2, <2>7
      <4>. QED
        BY <2>3, <2>6, <3>1, <4>1, <4>2
    <3>4. Below(list, t.visited) \subseteq t.visited \union Listed(t.stack)
      BY <3>1, <3>2 DEF Walks
    <3>5. /\ t.visited \union Listed(t.stack) \subseteq found
          /\ c \in t.visited \union Listed(t.stack)
      BY <3>2 DEF Walks
    <3>6. t \in WalkStates
      BY <2>2
    <3>. QED
      BY <3>3, <3>4, <3>5, <3>6 DEF Walks
  <2>8. ASSUME current \notin s.visited PROVE Walks(list, c, n + 1, t)
    <3>1. Below(list, t.visited) = Below(list, s.visited) \union Children(list, current)
      BY <2>2, <2>8 DEF Below, Children
    <3>2. Below(list, s.visited) \intersect Children(list, current) = {}
      BY <2>8 DEF Below, Children
    <3>3. Cardinality(Below(list, t.visited)) =
              Cardinality(Below(list, s.visited)) + Cardinality(Children(list, current))
      <4>1. Cardinality(Below(list, s.visited) \union Children(list, current)) =
                Cardinality(Below(list, s.visited)) + Cardinality(Children(list, current))
                - Cardinality(Below(list, s.visited) \intersect Children(list, current))
        BY <2>6, FS_Union
      <4>. QED
        <5>1. Cardinality(Below(list, s.visited) \intersect Children(list, current)) = 0
          BY <3>2, FS_EmptySet
        <5>. QED
          BY <2>6, <3>1, <4>1, <5>1
    <3>4. n + 1 + Len(t.stack) <= 1 + Cardinality(Below(list, t.visited))
      <4>1. n + Len(s.stack) <= 1 + Cardinality(Below(list, s.visited))
        BY <1>2 DEF Walks
      <4>. QED
        <5>1. Len(t.stack) <= Len(s.stack) - 1 + Cardinality(Children(list, current))
          BY <2>2, <2>8
        <5>. DEFINE a == Len(s.stack)
                    b == Len(t.stack)
                    p == Cardinality(Below(list, s.visited))
                    q == Cardinality(Children(list, current))
                    r == Cardinality(Below(list, t.visited))
        <5>2. a \in Nat /\ b \in Nat /\ p \in Nat /\ q \in Nat
          BY <2>3, <2>6a
        <5>3. n + a <= 1 + p /\ b <= a - 1 + q /\ r = p + q
          BY <3>3, <4>1, <5>1
        <5>. HIDE DEF a, b, p, q, r
        <5>4. n + 1 + b <= 1 + r
          BY <5>2, <5>3
        <5>. QED
          BY <5>4 DEF b, r
    <3>5. t.visited \union Listed(t.stack) \subseteq found
      BY <2>2, <2>4, <2>5, <2>8 DEF Walks
    <3>6. s.visited \union Listed(s.stack) \subseteq t.visited \union Listed(t.stack)
      BY <2>2, <2>8
    <3>7. Children(list, current) \subseteq t.visited \union Listed(t.stack)
      BY <2>2, <2>8
    <3>. QED
      <4>1. c \in t.visited \union Listed(t.stack)
        BY <3>6 DEF Walks
      <4>2. Below(list, t.visited) \subseteq t.visited \union Listed(t.stack)
        BY <3>1, <3>6, <3>7 DEF Walks
      <4>3. t \in WalkStates
        BY <2>2
      <4>. QED
        BY <3>4, <3>5, <4>1, <4>2, <4>3 DEF Walks
  <2>. QED
    BY <2>7, <2>8 DEF t
<1>. QED
  BY <1>1, <1>2

LEMMA WalkInvariance ==
    ASSUME IsFiniteSet(Categories), NEW list, NEW c \in Categories
    PROVE  \A n \in Nat : Walks(list, c, n, Walk(list, c)[n])
<1>. DEFINE S == {n \in Nat : Walks(list, c, n, Walk(list, c)[n])}
<1>1. c \in Places
  BY DEF Places
<1>2. 0 \in S
  BY <1>1, WalkTurns, WalkStarts
<1>3. ASSUME NEW n \in S PROVE n + 1 \in S
  <2>1. Walks(list, c, n, Walk(list, c)[n])
    OBVIOUS
  <2>2. Walk(list, c)[n+1] = Turn(list, Walk(list, c)[n])
    BY <1>1, WalkTurns
  <2>3. Walks(list, c, n + 1, Turn(list, Walk(list, c)[n]))
    BY <2>1, WalkGoesOn
  <2>. QED
    BY <2>2, <2>3
<1>4. S = Nat
  <2>. HIDE DEF S
  <2>1. S \in SUBSET Nat
    BY DEF S
  <2>. QED
    BY <1>2, <1>3, <2>1, SetInduction
<1>. QED
  BY <1>4

(* getDescendantIds, on any list: the loop ends within one turn for every  *)
(* push, and has marked what is below the category and nothing else.       *)
LEMMA WalkFinds ==
    ASSUME IsFiniteSet(Categories), NEW list, NEW c \in Categories
    PROVE  /\ Walk(list, c)[Turns].stack = <<>>
           /\ GetDescendantIds(list, c) = Descendants(list, c)
<1>. DEFINE s == Walk(list, c)[Turns]
<1>1. Turns \in Nat /\ Cardinality(Categories) \in Nat
  BY FS_CardinalityType DEF Turns
<1>2. Walks(list, c, Turns, s)
  BY <1>1, WalkInvariance
<1>. HIDE DEF s
<1>3. /\ Cardinality(Below(list, s.visited)) \in Nat
      /\ Cardinality(Below(list, s.visited)) <= Cardinality(Categories)
  <2>1. Below(list, s.visited) \in SUBSET Categories
    BY DEF Below
  <2>. QED
    BY <2>1, FS_Subset, FS_CardinalityType
<1>4. s.stack = <<>>
  <2>. SUFFICES ASSUME s.stack # <<>> PROVE FALSE
    OBVIOUS
  <2>1. Turns + Len(s.stack) <= 1 + Cardinality(Below(list, s.visited))
    BY <1>2 DEF Walks
  <2>2. Len(s.stack) \in Nat /\ Len(s.stack) # 0
    BY <1>2 DEF Walks, WalkStates
  <2>. QED
    BY <1>1, <1>3, <2>1, <2>2 DEF Turns
<1>5. Listed(s.stack) = {}
  BY <1>4 DEF Listed
<1>6. c \in s.visited /\ Closed(list, s.visited) /\ s.visited \subseteq Visited(list, c)
  BY <1>2, <1>5 DEF Walks, Closed, Below
<1>7. s.visited = Visited(list, c)
  BY <1>6, VisitedIsLeast
<1>. QED
  BY <1>4, <1>7 DEF GetDescendantIds, Descendants, s
-------------------------------------------------------------------------------
(* buildTree.                                                              *)

LEMMA DepthLevels ==
    ASSUME NEW list
    PROVE  /\ Depth(list)[0] = {Root}
           /\ \A n \in Nat : Depth(list)[n+1] = Below(list, Depth(list)[n])
<1>. DEFINE Levels == SUBSET Places
            g == [S \in Levels |-> UNION {Children(list, p) : p \in S}]
<1>1. g \in [Levels -> Levels]
  BY DEF Children, Places
<1>. DEFINE start == {Root}
<1>2. start \in Levels
  BY DEF Places
<1>3. PICK f \in [Nat -> Levels] :
          f[0] = start /\ \A n \in Nat \ {0} : f[n] = g[f[n-1]]
  <2>. HIDE DEF Levels, g, start
  <2>. QED
    BY <1>1, <1>2, Iteration
<1>4. ASSUME NEW n \in Nat, n # 0
      PROVE  g[f[n-1]] = UNION {Children(list, p) : p \in f[n-1]}
  BY <1>4
<1>5. f = [n \in Nat |-> IF n = 0 THEN start
                          ELSE UNION {Children(list, p) : p \in f[n-1]}]
  <2>1. \A n \in Nat : f[n] = IF n = 0 THEN start ELSE g[f[n-1]]
    <3>. HIDE DEF g, start
    <3>. QED
      BY <1>3
  <2>. HIDE DEF g
  <2>. QED
    BY <1>4, <2>1
<1>. DEFINE L == Depth(list)
<1>6. L = [n \in Nat |-> IF n = 0 THEN start
                          ELSE UNION {Children(list, p) : p \in L[n-1]}]
  BY <1>5 DEF Depth
<1>. HIDE DEF L
<1>7. \A n \in Nat : L[n] = IF n = 0 THEN start
                              ELSE UNION {Children(list, p) : p \in L[n-1]}
  BY <1>6
<1>8. L[0] = {Root}
  BY <1>7
<1>9. ASSUME NEW n \in Nat PROVE L[n+1] = Below(list, L[n])
  <2>1. n + 1 \in Nat /\ n + 1 # 0 /\ (n + 1) - 1 = n
    OBVIOUS
  <2>2. L[n+1] = UNION {Children(list, p) : p \in L[n]}
    BY <1>7, <2>1
  <2>. QED
    BY <2>2 DEF Children, Below
<1>. QED
  BY <1>8, <1>9 DEF L

(* A category in two levels would have its parent in two levels, and the   *)
(* root would be a category in the end.                                    *)
LEMMA LevelsApart ==
    ASSUME NEW list
    PROVE  \A m, n \in Nat : m < n => Depth(list)[m] \intersect Depth(list)[n] = {}
<1>. DEFINE L == Depth(list)
            S == {m \in Nat : \A n \in Nat : m < n => L[m] \intersect L[n] = {}}
<1>1. L[0] = {Root} /\ \A n \in Nat : L[n+1] = Below(list, L[n])
  BY DepthLevels
<1>. HIDE DEF L
<1>2. ASSUME NEW n \in Nat, n # 0 PROVE n - 1 \in Nat /\ L[n] = Below(list, L[n-1])
  <2>1. n - 1 \in Nat /\ (n - 1) + 1 = n
    BY <1>2
  <2>. QED
    BY <1>1, <2>1
<1>3. 0 \in S
  <2>1. ASSUME NEW n \in Nat, 0 < n PROVE L[0] \intersect L[n] = {}
    <3>1. L[n] \subseteq Categories
      BY <1>2, <2>1 DEF Below
    <3>. QED
      BY <1>1, <3>1, Distinct
  <2>. QED
    BY <2>1
<1>4. ASSUME NEW m \in S PROVE m + 1 \in S
  <2>1. ASSUME NEW n \in Nat, m + 1 < n PROVE L[m+1] \intersect L[n] = {}
    <3>1. n # 0 /\ n - 1 \in Nat /\ m < n - 1
      BY <2>1
    <3>2. L[m] \intersect L[n-1] = {}
      BY <3>1
    <3>3. L[m+1] = Below(list, L[m]) /\ L[n] = Below(list, L[n-1])
      BY <1>1, <1>2, <3>1
    <3>. QED
      BY <3>2, <3>3 DEF Below
  <2>. QED
    BY <2>1
<1>5. S = Nat
  <2>. HIDE DEF S
  <2>1. S \in SUBSET Nat
    BY DEF S
  <2>. QED
    BY <1>3, <1>4, <2>1, SetInduction
<1>. QED
  BY <1>5 DEF L

(* The categories in the first n levels below the root. *)
Upper(list, n) == {d \in Categories : \E i \in 1..n : d \in Depth(list)[i]}

(* A level that is not empty has all those above it, and each has its own  *)
(* categories: there are no more levels than categories.                   *)
LEMMA LevelsFill ==
    ASSUME IsFiniteSet(Categories), NEW list
    PROVE  \A n \in Nat : Depth(list)[n] # {} => n <= Cardinality(Upper(list, n))
<1>. DEFINE L == Depth(list)
            U(n) == Upper(list, n)
            S == {n \in Nat : L[n] # {} => n <= Cardinality(U(n))}
<1>1. L[0] = {Root} /\ \A n \in Nat : L[n+1] = Below(list, L[n])
  BY DepthLevels
<1>2. ASSUME NEW n \in Nat PROVE IsFiniteSet(U(n)) /\ Cardinality(U(n)) \in Nat
  <2>1. U(n) \in SUBSET Categories
    BY DEF Upper
  <2>. QED
    BY <2>1, FS_Subset, FS_CardinalityType
<1>3. 0 \in S
  BY <1>2
<1>4. ASSUME NEW n \in S PROVE n + 1 \in S
  <2>1. n \in Nat /\ n + 1 \in Nat
    OBVIOUS
  <2>2. SUFFICES ASSUME L[n+1] # {} PROVE n + 1 <= Cardinality(U(n+1))
    BY <2>1
  <2>3. PICK d : d \in L[n+1]
    BY <2>2
  <2>4. d \in Categories /\ list[d] \in L[n]
    BY <1>1, <2>1, <2>3 DEF Below
  <2>5. n <= Cardinality(U(n))
    BY <2>4
  <2>6. d \notin U(n)
    <3>1. ASSUME NEW i \in 1..n PROVE d \notin L[i]
      <4>1. i \in Nat /\ i < n + 1
        BY <2>1
      <4>2. L[i] \intersect L[n+1] = {}
        BY <2>1, <4>1, LevelsApart
      <4>. QED
        BY <2>3, <4>2
    <3>. QED
      BY <3>1 DEF Upper
  <2>7. U(n) \union {d} \subseteq U(n+1)
    <3>1. 1..n \subseteq 1..n+1 /\ n + 1 \in 1..n+1
      BY <2>1
    <3>. QED
      BY <2>3, <2>4, <3>1 DEF Upper
  <2>8. Cardinality(U(n) \union {d}) = Cardinality(U(n)) + 1
    BY <1>2, <2>1, <2>6, FS_AddElement
  <2>9. Cardinality(U(n) \union {d}) <= Cardinality(U(n+1))
    BY <1>2, <2>1, <2>7, FS_Subset
  <2>. HIDE DEF U
  <2>. QED
    BY <1>2, <2>1, <2>5, <2>8, <2>9
<1>5. S = Nat
  <2>. HIDE DEF S
  <2>1. S \in SUBSET Nat
    BY DEF S
  <2>. QED
    BY <1>3, <1>4, <2>1, SetInduction
<1>. QED
  BY <1>5

LEMMA LevelsFound ==
    ASSUME NEW list
    PROVE  \A n \in Nat : Depth(list)[n] \subseteq Visited(list, Root)
<1>. DEFINE L == Depth(list)
            S == {n \in Nat : L[n] \subseteq Visited(list, Root)}
<1>1. L[0] = {Root} /\ \A n \in Nat : L[n+1] = Below(list, L[n])
  BY DepthLevels
<1>2. Root \in Visited(list, Root) /\ Closed(list, Visited(list, Root))
  BY VisitedIsLeast
<1>. HIDE DEF L
<1>3. 0 \in S
  BY <1>1, <1>2
<1>4. ASSUME NEW n \in S PROVE n + 1 \in S
  <2>1. n \in Nat /\ n + 1 \in Nat /\ L[n] \subseteq Visited(list, Root)
    OBVIOUS
  <2>2. Below(list, L[n]) \subseteq Visited(list, Root)
    BY <1>2, <2>1 DEF Below, Closed
  <2>. QED
    BY <1>1, <2>1, <2>2
<1>5. S = Nat
  <2>. HIDE DEF S
  <2>1. S \in SUBSET Nat
    BY DEF S
  <2>. QED
    BY <1>3, <1>4, <2>1, SetInduction
<1>. QED
  BY <1>5 DEF L

(* buildTree, on any list: the recursion, which marks nothing, ends, since *)
(* no cycle hangs on the root, and its tree is what is below the root.     *)
LEMMA TreeFinds ==
    ASSUME IsFiniteSet(Categories), NEW list
    PROVE  /\ Depth(list)[Turns] = {}
           /\ BuildTree(list) = Descendants(list, Root)
<1>. DEFINE L == Depth(list)
            k == Cardinality(Categories)
<1>1. k \in Nat /\ Turns = k + 1 /\ Turns \in Nat
  BY FS_CardinalityType DEF Turns
<1>2. L[0] = {Root} /\ \A n \in Nat : L[n+1] = Below(list, L[n])
  BY DepthLevels
<1>3. L[Turns] = {}
  <2>1. Upper(list, Turns) \in SUBSET Categories
    BY DEF Upper
  <2>2. Cardinality(Upper(list, Turns)) \in Nat /\ Cardinality(Upper(list, Turns)) <= k
    BY <2>1, FS_Subset, FS_CardinalityType
  <2>3. L[Turns] # {} => Turns <= Cardinality(Upper(list, Turns))
    BY <1>1, LevelsFill
  <2>. HIDE DEF L, k
  <2>. QED
    BY <1>1, <2>2, <2>3
<1>4. BuildTree(list) = UNION {L[n] : n \in 1..k}
  BY DEF BuildTree
<1>5. BuildTree(list) \subseteq Categories
  <2>1. ASSUME NEW n \in 1..k PROVE L[n] \subseteq Categories
    <3>1. n - 1 \in Nat /\ (n - 1) + 1 = n
      BY <1>1
    <3>2. L[n] = Below(list, L[n-1])
      BY <1>2, <3>1
    <3>. QED
      BY <3>2 DEF Below
  <2>. HIDE DEF L, k
  <2>. QED
    BY <1>4, <2>1
<1>6. BuildTree(list) \subseteq Visited(list, Root)
  <2>1. ASSUME NEW n \in 1..k PROVE L[n] \subseteq Visited(list, Root)
    BY <1>1, LevelsFound
  <2>. HIDE DEF L, k
  <2>. QED
    BY <1>4, <2>1
<1>7. Closed(list, BuildTree(list) \union {Root})
  <2>1. ASSUME NEW d \in Categories, NEW n \in 0..k, list[d] \in L[n]
        PROVE  d \in BuildTree(list)
    <3>1. n \in Nat /\ n + 1 \in 1..Turns
      BY <1>1
    <3>2. d \in L[n+1]
      BY <1>2, <2>1, <3>1 DEF Below
    <3>3. n + 1 \in 1..k
      <4>1. n + 1 # Turns
        BY <1>3, <3>2
      <4>. HIDE DEF L, k
      <4>. QED
        BY <1>1, <3>1, <4>1
    <3>. HIDE DEF L, k
    <3>. QED
      BY <1>4, <3>2, <3>3
  <2>2. 1..k \subseteq 0..k /\ 0 \in 0..k
    BY <1>1
  <2>. HIDE DEF L, k
  <2>. QED
    BY <1>2, <1>4, <2>1, <2>2 DEF Closed
<1>8. Visited(list, Root) = BuildTree(list) \union {Root}
  <2>1. Visited(list, Root) \subseteq BuildTree(list) \union {Root}
    BY <1>7, VisitedIsLeast
  <2>. QED
    BY <1>6, <2>1, VisitedIsLeast
<1>9. Root \notin BuildTree(list)
  BY <1>5, Distinct
<1>. QED
  BY <1>3, <1>8, <1>9 DEF Descendants

-------------------------------------------------------------------------------
(* Both traversals end on every list whatsoever, stale or with cycles in   *)
(* it, and find what Categories takes them to find.                        *)
THEOREM Meet == IsFiniteSet(Categories) => \A list \in Lists : MeetsAll(list)
BY WalkFinds, TreeFinds DEF MeetsAll

(* So do they on the lists around the table, whatever requests run: what   *)
(* the cycle check and getTree take from Descendants is what the loop and  *)
(* the recursion compute. *)
THEOREM Traversed == IsFiniteSet(Categories) => (Spec => []TraversalsMeetAll)
<1>. SUFFICES ASSUME IsFiniteSet(Categories) PROVE Spec => []TraversalsMeetAll
  OBVIOUS
<1>1. ASSUME TypeOK PROVE TraversalsMeetAll
  <2>1. ListsAround \subseteq Lists
    BY <1>1, RowsAreAList DEF ListsAround, Lists
  <2>. QED
    BY <1>1, <2>1, Meet DEF TraversalsMeetAll
<1>2. TypeOK => TraversalsMeetAll
  BY <1>1
<1>. QED
  BY <1>2, TypeCorrect, PTL
===============================================================================
