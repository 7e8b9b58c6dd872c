-------------------------------- MODULE Accounts --------------------------------
(***************************************************************************)
(* AuthService and the users table, with the seed script that writes to it *)
(* as well.  Registration looks an e-mail up and creates the user later;   *)
(* login compares with the row it has read; a token carries the role it    *)
(* was signed with, and JwtStrategy and RolesGuard go by the token alone.  *)
(***************************************************************************)
EXTENDS Integers, Sequences

CONSTANTS
    Users, Emails, Passwords, Workers,
    Absent,         \* an id not issued yet
    SeedUsers,      \* what the seed script upserts: a sequence of accounts
    MaxFailures     \* bound on requests and seed runs that die

Roles == {"USER", "ADMIN"}

Account == [email : Emails, password : Passwords, role : Roles]

(* The script names each e-mail once. *)
ASSUME SeedAssumption ==
    /\ SeedUsers \in Seq(Account)
    /\ \A m, n \in 1..Len(SeedUsers) : SeedUsers[m].email = SeedUsers[n].email => m = n

ASSUME AbsentAssumption == Absent \notin Account

VARIABLES
    users,          \* the rows, by id
    job,            \* the request, or seed run, each worker serves
    welcomed,       \* history: accounts registered and answered with a 201, per id
    tokens,         \* tokens issued: [sub, email, role], and the password given
    seeded,         \* history: a seed run has ended well
    failures

vars == <<users, job, welcomed, tokens, seeded, failures>>

NoJob == [step |-> "idle"]

Init ==
    /\ users = [u \in Users |-> Absent]
    /\ job = [w \in Workers |-> NoJob]
    /\ welcomed = [u \in Users |-> Absent]
    /\ tokens = {}
    /\ seeded = FALSE
    /\ failures = 0

At(w, s) == job[w].step = s

Become(w, j) == job' = [job EXCEPT ![w] = j]

Finish(w) == Become(w, NoJob)

Exists(u) == users[u] # Absent

Owners(e) == {u \in Users : Exists(u) /\ users[u].email = e}

Begin(w, j) ==
    At(w, "idle") /\ Become(w, j) /\ UNCHANGED <<users, welcomed, tokens, seeded, failures>>

-------------------------------------------------------------------------------
(* POST /auth/register.  The role of a new user is the column's default.   *)

Register(w, e, pw) == Begin(w, [step |-> "find", email |-> e, password |-> pw])

(* findUnique, then bcrypt.hash, which touches nothing. *)
FindEmail(w) ==
    /\ At(w, "find")
    /\ IF Owners(job[w].email) # {} THEN Finish(w)
       ELSE Become(w, [job[w] EXCEPT !.step = "insert"])
    /\ UNCHANGED <<users, welcomed, tokens, seeded, failures>>

Insert(u, account) == users' = [users EXCEPT ![u] = account]

Applicant(w) == [email |-> job[w].email, password |-> job[w].password, role |-> "USER"]

Welcome(u, account) == Insert(u, account) /\ welcomed' = [welcomed EXCEPT ![u] = account]

InsertUnchecked(w) ==                                     \* mutant of CreateUser
    /\ At(w, "insert")
    /\ \E u \in Users : ~ Exists(u) /\ Welcome(u, Applicant(w))
    /\ Finish(w)
    /\ UNCHANGED <<tokens, seeded, failures>>

InsertOrUpdate(w) ==                                      \* mutant of CreateUser
    /\ At(w, "insert")
    /\ IF Owners(job[w].email) = {}
       THEN \E u \in Users : ~ Exists(u) /\ Welcome(u, Applicant(w))
       ELSE \E u \in Owners(job[w].email) : Insert(u, Applicant(w)) /\ UNCHANGED welcomed
    /\ Finish(w)
    /\ UNCHANGED <<tokens, seeded, failures>>

(* The unique key on the e-mail decides.  The id is the database's choice. *)
CreateUser(w) ==
    /\ At(w, "insert")
    /\ IF Owners(job[w].email) = {}
       THEN \E u \in Users : ~ Exists(u) /\ Welcome(u, Applicant(w))
       ELSE UNCHANGED <<users, welcomed>>
    /\ Finish(w)
    /\ UNCHANGED <<tokens, seeded, failures>>

-------------------------------------------------------------------------------
(* POST /auth/login. *)

Login(w, e, pw) == Begin(w, [step |-> "login", email |-> e, password |-> pw])

FindUser(w) ==
    /\ At(w, "login")
    /\ \/ Owners(job[w].email) = {} /\ Finish(w)
       \/ \E u \in Owners(job[w].email) :
              Become(w, [step |-> "compare", password |-> job[w].password,
                         sub |-> u, row |-> users[u]])
    /\ UNCHANGED <<users, welcomed, tokens, seeded, failures>>

Sign(w) == [sub |-> job[w].sub, email |-> job[w].row.email, role |-> job[w].row.role,
            given |-> job[w].password]

ComparePassword(w) ==
    /\ At(w, "compare")
    /\ tokens' = IF job[w].password = job[w].row.password
                 THEN tokens \union {Sign(w)} ELSE tokens
    /\ Finish(w)
    /\ UNCHANGED <<users, welcomed, seeded, failures>>

-------------------------------------------------------------------------------
(* prisma/seed.ts, which may be run again, and beside the server.          *)

StartSeed(w) == Begin(w, [step |-> "seed", next |-> 1])

SeedOverwrites(w) ==                                      \* mutant of Upsert
    LET n == job[w].next IN
    /\ At(w, "seed") /\ n <= Len(SeedUsers)
    /\ \E u \in Users :
           /\ IF Owners(SeedUsers[n].email) = {} THEN ~ Exists(u)
              ELSE u \in Owners(SeedUsers[n].email)
           /\ Insert(u, SeedUsers[n])
    /\ Become(w, [job[w] EXCEPT !.next = n + 1])
    /\ UNCHANGED <<welcomed, tokens, seeded, failures>>

(* upsert with an empty update: what is there stays as it is. *)
Upsert(w) ==
    LET n == job[w].next IN
    /\ At(w, "seed") /\ n <= Len(SeedUsers)
    /\ \/ Owners(SeedUsers[n].email) # {} /\ UNCHANGED users
       \/ /\ Owners(SeedUsers[n].email) = {}
          /\ \E u \in Users : ~ Exists(u) /\ Insert(u, SeedUsers[n])
    /\ Become(w, [job[w] EXCEPT !.next = n + 1])
    /\ UNCHANGED <<welcomed, tokens, seeded, failures>>

EndEarly(w) ==                                            \* mutant of EndSeed
    /\ At(w, "seed") /\ job[w].next >= Len(SeedUsers)
    /\ seeded' = TRUE
    /\ Finish(w)
    /\ UNCHANGED <<users, welcomed, tokens, failures>>

EndSeed(w) ==
    /\ At(w, "seed") /\ job[w].next > Len(SeedUsers)
    /\ seeded' = TRUE
    /\ Finish(w)
    /\ UNCHANGED <<users, welcomed, tokens, failures>>

(* A request or a seed run dies: a database error, a crash. *)
Die(w) ==
    /\ ~ At(w, "idle")
    /\ failures < MaxFailures /\ failures' = failures + 1
    /\ Finish(w)
    /\ UNCHANGED <<users, welcomed, tokens, seeded>>

Next ==
    \E w \in Workers :
        \/ \E e \in Emails, pw \in Passwords : Register(w, e, pw) \/ Login(w, e, pw)
        \/ FindEmail(w) \/ CreateUser(w)
        \/ FindUser(w) \/ ComparePassword(w)
        \/ StartSeed(w) \/ Upsert(w) \/ EndSeed(w)
        \/ Die(w)

Spec == Init /\ [][Next]_vars

-------------------------------------------------------------------------------
(* JwtStrategy.validate and RolesGuard: the guard reads no row.            *)
Admits(token, roles) == token.role \in roles

Requests == [step : {"find", "insert", "login"}, email : Emails, password : Passwords]

JobSet ==
    {NoJob} \union Requests
    \union [step : {"compare"}, password : Passwords, sub : Users, row : Account]
    \union [step : {"seed"}, next : 1..Len(SeedUsers) + 1]

Tokens == [sub : Users, email : Emails, role : Roles, given : Passwords]

(* The shape of every variable. *)
TypeOK ==
    /\ users \in [Users -> Account \union {Absent}]
    /\ job \in [Workers -> JobSet]
    /\ welcomed \in [Users -> Account \union {Absent}]
    /\ tokens \subseteq Tokens
    /\ seeded \in BOOLEAN /\ failures \in Nat

(* However registrations and seed runs overlap, an e-mail has one account. *)
UniqueEmail ==
    \A u, v \in Users : Exists(u) /\ Exists(v) /\ users[u].email = users[v].email => u = v

(* Who was told that they are registered owns the account, with the        *)
(* password they chose: no later registration and no seed run takes it     *)
(* over, and of two that raced for an e-mail only one was told so.         *)
WelcomedOwns == \A u \in Users : welcomed[u] # Absent => users[u] = welcomed[u]

(* RolesGuard trusts a token's role.  It may: whoever holds a token the    *)
(* guard admits gave the password of a row that still has that role.       *)
GuardIsRight ==
    \A k \in tokens, r \in Roles : Admits(k, {r}) =>
        /\ users[k.sub] = [email |-> k.email, password |-> k.given, role |-> r]
        /\ Exists(k.sub)

(* seed.ts prints the logins it has made, and README.md promises them:     *)
(* when it has run, whatever died half-way or ran beside it, each e-mail   *)
(* it names has the account it names, role and password included.  Unless, *)
(* and here the code keeps less than it prints, a customer registered the  *)
(* e-mail: then the account is theirs, with the role USER.                 *)
SeededUnlessTaken ==
    seeded => \A n \in 1..Len(SeedUsers) :
        \E u \in Owners(SeedUsers[n].email) : users[u] \in {SeedUsers[n], welcomed[u]}

(* The rows of the accounts up to the nth are there, whoever made them.    *)
PassedTo(n) == \A m \in 1..n : Owners(SeedUsers[m].email) # {}

(* Rows come from a registration or from the script, and stay as they came.*)
Provenance ==
    \A u \in Users : Exists(u) =>
        \/ users[u] = welcomed[u]
        \/ \E n \in 1..Len(SeedUsers) : users[u] = SeedUsers[n]

(* The inductive invariant: a row that a login has read is still there as  *)
(* it was, and a seed run has seen to the accounts it has passed.          *)
IInv ==
    /\ TypeOK /\ UniqueEmail /\ WelcomedOwns /\ GuardIsRight /\ Provenance
    /\ seeded => PassedTo(Len(SeedUsers))
    /\ \A w \in Workers :
           /\ At(w, "compare") => users[job[w].sub] = job[w].row
           /\ At(w, "seed") => PassedTo(job[w].next - 1)
===============================================================================
