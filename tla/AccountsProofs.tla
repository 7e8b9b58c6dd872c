----------------------------- MODULE AccountsProofs -----------------------------
(***************************************************************************)
(* E-mails, accounts and tokens, for every set of users, any number of     *)
(* requests and seed runs at once, and any accounts the seed script names. *)
(***************************************************************************)
EXTENDS Accounts, TLAPS

(* What a job in flight knows about the table. *)
JobOK(j) ==
    /\ j.step = "compare" => users[j.sub] = j.row
    /\ j.step = "seed" => PassedTo(j.next - 1)

AllSeeded == seeded => PassedTo(Len(SeedUsers))

LEMMA IInvByJobs ==
    IInv <=> /\ TypeOK /\ UniqueEmail /\ WelcomedOwns /\ GuardIsRight /\ Provenance
             /\ AllSeeded
             /\ \A w \in Workers : JobOK(job[w])
BY DEF IInv, JobOK, AllSeeded, At

-------------------------------------------------------------------------------
(* Steps that change no row, and give a worker a sound job.                *)

LEMMA NoJobIsSound == NoJob \in JobSet /\ JobOK(NoJob)
BY DEF NoJob, JobSet, JobOK

LEMMA SeedRows ==
    ASSUME NEW n \in 1..Len(SeedUsers)
    PROVE  SeedUsers[n] \in Account
BY SeedAssumption

LEMMA QuietStep ==
    ASSUME IInv, NEW w \in Workers, NEW j \in JobSet, JobOK(j),
           Become(w, j), UNCHANGED <<users, welcomed, tokens, seeded>>, failures' \in Nat
    PROVE  IInv'
<1>1. TypeOK'
  BY DEF IInv, TypeOK, Become
<1>2. UniqueEmail' /\ WelcomedOwns' /\ GuardIsRight' /\ Provenance' /\ AllSeeded'
  BY DEF IInv, UniqueEmail, WelcomedOwns, GuardIsRight, Provenance, AllSeeded, PassedTo,
         Exists, Owners
<1>3. ASSUME NEW v \in Workers PROVE JobOK(job[v])'
  <2>1. job'[v] = j \/ job'[v] = job[v]
    BY DEF Become, IInv, TypeOK
  <2>. QED
    BY <2>1, IInvByJobs DEF JobOK, PassedTo, Owners, Exists
<1>. QED
  BY <1>1, <1>2, <1>3 DEF IInv, JobOK, AllSeeded, At

LEMMA QuietFinish ==
    ASSUME IInv, NEW w \in Workers, Finish(w),
           UNCHANGED <<users, welcomed, tokens, seeded>>, failures' \in Nat
    PROVE  IInv'
BY NoJobIsSound, QuietStep DEF Finish

LEMMA BeginStep ==
    ASSUME IInv, NEW w \in Workers, NEW j \in JobSet, JobOK(j), Begin(w, j)
    PROVE  IInv'
BY QuietStep DEF Begin, IInv, TypeOK

-------------------------------------------------------------------------------
(* A row for an e-mail nobody has.                                         *)

LEMMA InsertStep ==
    ASSUME IInv, NEW w \in Workers, NEW j \in JobSet, Become(w, j),
           NEW u \in Users, ~ Exists(u), NEW account \in Account,
           Owners(account.email) = {}, Insert(u, account),
           \/ welcomed' = [welcomed EXCEPT ![u] = account]
           \/ UNCHANGED welcomed /\ \E n \in 1..Len(SeedUsers) : account = SeedUsers[n],
           UNCHANGED <<tokens, seeded, failures>>,
           JobOK(j)'
    PROVE  IInv'
<1>1. users \in [Users -> Account \union {Absent}] /\ users' = [users EXCEPT ![u] = account]
  BY DEF IInv, TypeOK, Insert
<1>2. users' \in [Users -> Account \union {Absent}] /\ users[u] = Absent /\ account # Absent
  BY <1>1, AbsentAssumption DEF Exists
<1>3. TypeOK'
  BY <1>2 DEF IInv, TypeOK, Become
<1>4. UniqueEmail'
  BY <1>1, <1>2 DEF IInv, UniqueEmail, Exists, Owners
<1>5. WelcomedOwns'
  BY <1>1, <1>2 DEF IInv, WelcomedOwns, TypeOK
<1>6. GuardIsRight'
  BY <1>1, <1>2 DEF IInv, GuardIsRight, Exists, TypeOK, Tokens, Admits
<1>7. ASSUME NEW e, Owners(e) # {} PROVE Owners(e)' # {}
  BY <1>1, <1>2, <1>7 DEF Owners, Exists
<1>8. AllSeeded' /\ \A n : PassedTo(n) => PassedTo(n)'
  BY <1>7 DEF IInv, AllSeeded, PassedTo
<1>10. Provenance'
  BY <1>1, <1>2 DEF IInv, Provenance, Exists, TypeOK
<1>9. ASSUME NEW v \in Workers PROVE JobOK(job[v])'
  <2>1. CASE job'[v] = j
    BY <2>1
  <2>2. CASE job'[v] = job[v]
    <3>1. JobOK(job[v]) /\ job[v] \in JobSet
      BY IInvByJobs DEF TypeOK
    <3>2. ASSUME job[v].step = "compare" PROVE users'[job[v].sub] = job[v].row
      <4>1. job[v].sub \in Users /\ job[v].row \in Account
        BY <3>1, <3>2 DEF JobSet, Requests, NoJob
      <4>. QED
        BY <1>1, <1>2, <3>1, <3>2, <4>1, AbsentAssumption DEF JobOK
    <3>. QED
      BY <2>2, <3>1, <3>2, <1>8 DEF JobOK
  <2>. QED
    BY <2>1, <2>2 DEF Become, IInv, TypeOK
<1>. QED
  BY <1>3, <1>4, <1>5, <1>6, <1>8, <1>9, <1>10 DEF IInv, JobOK, AllSeeded, At

-------------------------------------------------------------------------------
(* Registration.                                                           *)

LEMMA FindEmailStep ==
    ASSUME IInv, NEW w \in Workers, FindEmail(w)
    PROVE  IInv'
<1>1. failures' \in Nat /\ job[w] \in JobSet /\ job[w].step = "find"
  BY DEF IInv, TypeOK, FindEmail, At
<1>2. CASE Finish(w)
  BY <1>1, <1>2, QuietFinish DEF FindEmail
<1>3. CASE Become(w, [job[w] EXCEPT !.step = "insert"])
  <2>1. /\ [job[w] EXCEPT !.step = "insert"] \in JobSet
        /\ [job[w] EXCEPT !.step = "insert"].step = "insert"
    BY <1>1 DEF JobSet, Requests, NoJob
  <2>. QED
    BY <1>1, <1>3, <2>1, QuietStep DEF FindEmail, JobOK
<1>. QED
  BY <1>2, <1>3 DEF FindEmail

LEMMA CreateUserStep ==
    ASSUME IInv, NEW w \in Workers, CreateUser(w)
    PROVE  IInv'
<1>1. failures' \in Nat /\ job[w] \in JobSet /\ job[w].step = "insert"
  BY DEF IInv, TypeOK, CreateUser, At
<1>2. CASE Owners(job[w].email) = {}
  <2>1. Applicant(w) \in Account /\ Applicant(w).email = job[w].email
    BY <1>1 DEF JobSet, Requests, NoJob, Applicant, Account, Roles
  <2>2. PICK u \in Users : ~ Exists(u) /\ Welcome(u, Applicant(w))
    BY <1>2 DEF CreateUser
  <2>3. JobOK(NoJob)'
    BY DEF JobOK, NoJob
  <2>. QED
    BY <1>2, <2>1, <2>2, <2>3, NoJobIsSound, InsertStep DEF CreateUser, Welcome, Finish
<1>3. CASE Owners(job[w].email) # {}
  BY <1>1, <1>3, QuietFinish DEF CreateUser
<1>. QED
  BY <1>2, <1>3

-------------------------------------------------------------------------------
(* Login.                                                                  *)

LEMMA FindUserStep ==
    ASSUME IInv, NEW w \in Workers, FindUser(w)
    PROVE  IInv'
<1>1. failures' \in Nat /\ job[w] \in JobSet /\ job[w].step = "login"
  BY DEF IInv, TypeOK, FindUser, At
<1>2. CASE Finish(w)
  BY <1>1, <1>2, QuietFinish DEF FindUser
<1>3. ASSUME NEW u \in Owners(job[w].email),
             Become(w, [step |-> "compare", password |-> job[w].password,
                        sub |-> u, row |-> users[u]])
      PROVE  IInv'
  <2>1. u \in Users /\ users[u] \in Account /\ job[w].password \in Passwords
    BY <1>1 DEF Owners, Exists, IInv, TypeOK, JobSet, Requests, NoJob
  <2>. DEFINE j == [step |-> "compare", password |-> job[w].password,
                    sub |-> u, row |-> users[u]]
  <2>2. j \in JobSet /\ JobOK(j)
    BY <2>1 DEF JobSet, JobOK
  <2>. QED
    BY <1>1, <1>3, <2>2, QuietStep DEF FindUser
<1>. QED
  BY <1>2, <1>3 DEF FindUser

(* The row that was read is still the row, so its role may be signed. *)
LEMMA ComparePasswordStep ==
    ASSUME IInv, NEW w \in Workers, ComparePassword(w)
    PROVE  IInv'
<1>1. failures' \in Nat /\ job[w] \in JobSet /\ job[w].step = "compare" /\ JobOK(job[w])
  BY IInvByJobs DEF IInv, TypeOK, ComparePassword, At
<1>2. CASE tokens' = tokens
  BY <1>1, <1>2, QuietFinish DEF ComparePassword
<1>3. CASE job[w].password = job[w].row.password /\ tokens' = tokens \union {Sign(w)}
  <2>1. /\ job[w].sub \in Users /\ job[w].row \in Account
        /\ users[job[w].sub] = job[w].row
    BY <1>1 DEF JobSet, Requests, NoJob, JobOK
  <2>2. Sign(w) \in Tokens
    BY <1>1, <2>1 DEF Sign, Tokens, JobSet, Requests, NoJob, Account
  <2>3. job' = [job EXCEPT ![w] = NoJob] /\ UNCHANGED <<users, welcomed, seeded, failures>>
    BY DEF ComparePassword, Finish, Become
  <2>4. TypeOK'
    BY <1>3, <2>2, <2>3, NoJobIsSound DEF IInv, TypeOK
  <2>5. job[w].row = [email |-> job[w].row.email, password |-> job[w].row.password,
                      role |-> job[w].row.role]
    BY <2>1 DEF Account
  <2>6. GuardIsRight'
    BY <1>3, <2>1, <2>3, <2>5, AbsentAssumption
    DEF IInv, GuardIsRight, Admits, Sign, Exists
  <2>7. UniqueEmail' /\ WelcomedOwns' /\ Provenance' /\ AllSeeded'
    BY <2>3 DEF IInv, UniqueEmail, WelcomedOwns, Provenance, AllSeeded, PassedTo,
                Exists, Owners
  <2>8. ASSUME NEW v \in Workers PROVE JobOK(job[v])'
    <3>1. job'[v] = NoJob \/ job'[v] = job[v]
      BY <2>3 DEF IInv, TypeOK
    <3>. QED
      BY <2>3, <3>1, IInvByJobs DEF JobOK, PassedTo, Owners, Exists, NoJob
  <2>. QED
    BY <2>4, <2>6, <2>7, <2>8 DEF IInv, JobOK, AllSeeded, At
<1>. QED
  BY <1>2, <1>3 DEF ComparePassword

-------------------------------------------------------------------------------
(* The seed script.                                                        *)

LEMMA UpsertStep ==
    ASSUME IInv, NEW w \in Workers, Upsert(w)
    PROVE  IInv'
<1>1. /\ failures' \in Nat /\ job[w] \in JobSet /\ JobOK(job[w])
      /\ job[w].step = "seed" /\ job[w].next <= Len(SeedUsers)
  BY IInvByJobs DEF IInv, TypeOK, Upsert, At
<1>2. PICK k \in 1..Len(SeedUsers) : k = job[w].next
  BY <1>1, SeedAssumption DEF JobSet, Requests, NoJob
<1>3. /\ SeedUsers[k] \in Account /\ Len(SeedUsers) \in Nat
      /\ \A i \in 1..k-1 : Owners(SeedUsers[i].email) # {}
  BY <1>1, <1>2, SeedAssumption DEF JobOK, PassedTo
<1>4. PICK j \in JobSet : j = [job[w] EXCEPT !.next = k + 1]
  <2>1. job[w] \in [step : {"seed"}, next : 1..Len(SeedUsers) + 1]
    BY <1>1 DEF JobSet, Requests, NoJob
  <2>2. k + 1 \in 1..Len(SeedUsers) + 1
    BY <1>3
  <2>3. [job[w] EXCEPT !.next = k + 1] \in [step : {"seed"}, next : 1..Len(SeedUsers) + 1]
    BY <2>1, <2>2
  <2>. QED
    BY <2>3 DEF JobSet
<1>5. j.step = "seed" /\ j.next = k + 1 /\ Become(w, j)
  BY <1>1, <1>2, <1>4 DEF JobSet, Requests, NoJob, Upsert
<1>6. CASE Owners(SeedUsers[k].email) # {} /\ UNCHANGED users
  <2>1. ASSUME NEW i \in 1..j.next - 1 PROVE Owners(SeedUsers[i].email) # {}
    <3>1. i \in 1..k-1 \/ i = k
      BY <1>5
    <3>. QED
      BY <1>3, <1>6, <3>1
  <2>2. JobOK(j)
    BY <1>5, <2>1 DEF JobOK, PassedTo
  <2>. QED
    BY <1>1, <1>5, <1>6, <2>2, QuietStep DEF Upsert
<1>7. CASE /\ Owners(SeedUsers[k].email) = {}
           /\ \E u \in Users : ~ Exists(u) /\ Insert(u, SeedUsers[k])
  <2>1. PICK u \in Users : ~ Exists(u) /\ Insert(u, SeedUsers[k])
    BY <1>7
  <2>2. users' = [users EXCEPT ![u] = SeedUsers[k]] /\ users \in [Users -> Account \union {Absent}]
    BY <2>1 DEF Insert, IInv, TypeOK
  <2>3. u \in Owners(SeedUsers[k].email)'
    BY <1>3, <2>2, AbsentAssumption DEF Owners, Exists
  <2>4. ASSUME NEW e, Owners(e) # {} PROVE Owners(e)' # {}
    BY <2>1, <2>2, <2>4 DEF Owners, Exists
  <2>5. JobOK(j)'
    <3>1. ASSUME NEW i \in 1..j.next - 1 PROVE Owners(SeedUsers[i].email)' # {}
      <4>1. i \in 1..k-1 \/ i = k
        BY <1>5
      <4>. QED
        BY <1>3, <2>3, <2>4, <4>1
    <3>. QED
      BY <1>5, <3>1 DEF JobOK, PassedTo
  <2>. QED
    BY <1>3, <1>5, <1>7, <2>1, <2>5, InsertStep DEF Upsert
<1>. QED
  BY <1>2, <1>6, <1>7 DEF Upsert

(* A run that ends has seen to every account. *)
LEMMA EndSeedStep ==
    ASSUME IInv, NEW w \in Workers, EndSeed(w)
    PROVE  IInv'
<1>1. /\ job[w] \in JobSet /\ JobOK(job[w])
      /\ job[w].step = "seed" /\ job[w].next > Len(SeedUsers)
  BY IInvByJobs DEF TypeOK, EndSeed, At
<1>2. /\ job' = [job EXCEPT ![w] = NoJob] /\ seeded' = TRUE
      /\ UNCHANGED <<users, welcomed, tokens, failures>>
  BY DEF EndSeed, Finish, Become
<1>3. TypeOK'
  BY <1>2, NoJobIsSound DEF IInv, TypeOK
<1>4. 1..Len(SeedUsers) \subseteq 1..job[w].next - 1
  BY <1>1, SeedAssumption DEF JobSet, Requests, NoJob
<1>5. AllSeeded'
  BY <1>1, <1>2, <1>4 DEF JobOK, AllSeeded, PassedTo, Owners, Exists
<1>6. UniqueEmail' /\ WelcomedOwns' /\ GuardIsRight' /\ Provenance'
  BY <1>2 DEF IInv, UniqueEmail, WelcomedOwns, GuardIsRight, Provenance, Exists
<1>7. ASSUME NEW v \in Workers PROVE JobOK(job[v])'
  <2>1. job'[v] = NoJob \/ job'[v] = job[v]
    BY <1>2 DEF IInv, TypeOK
  <2>. QED
    BY <1>2, <2>1, IInvByJobs DEF JobOK, PassedTo, Owners, Exists, NoJob
<1>. QED
  BY <1>3, <1>5, <1>6, <1>7 DEF IInv, JobOK, AllSeeded, At

-------------------------------------------------------------------------------
LEMMA Initially == Init => IInv
<1>. SUFFICES ASSUME Init PROVE IInv
  OBVIOUS
<1>1. TypeOK
  BY NoJobIsSound DEF Init, TypeOK
<1>2. UniqueEmail /\ WelcomedOwns /\ GuardIsRight /\ Provenance
  BY DEF Init, UniqueEmail, WelcomedOwns, GuardIsRight, Provenance, Exists
<1>. QED
  BY <1>1, <1>2 DEF Init, IInv, At, NoJob

LEMMA Preserved == IInv /\ [Next]_vars => IInv'
<1>. SUFFICES ASSUME IInv, [Next]_vars PROVE IInv'
  OBVIOUS
<1>1. ASSUME NEW w \in Workers, NEW e \in Emails, NEW pw \in Passwords,
             Register(w, e, pw) \/ Login(w, e, pw)
      PROVE  IInv'
  <2>1. ASSUME NEW s \in {"find", "login"},
               Begin(w, [step |-> s, email |-> e, password |-> pw])
        PROVE  IInv'
    <3>1. /\ [step |-> s, email |-> e, password |-> pw] \in JobSet
          /\ JobOK([step |-> s, email |-> e, password |-> pw])
      BY DEF JobSet, Requests, JobOK
    <3>. QED
      BY <2>1, <3>1, BeginStep
  <2>. QED
    BY <1>1, <2>1 DEF Register, Login
<1>2. ASSUME NEW w \in Workers, StartSeed(w) PROVE IInv'
  <2>1. [step |-> "seed", next |-> 1] \in JobSet /\ JobOK([step |-> "seed", next |-> 1])
    BY SeedAssumption DEF JobSet, JobOK, PassedTo
  <2>. QED
    BY <1>2, <2>1, BeginStep DEF StartSeed
<1>3. ASSUME NEW w \in Workers, Die(w) PROVE IInv'
  BY <1>3, QuietFinish DEF Die, IInv, TypeOK
<1>4. CASE UNCHANGED vars
  <2>1. /\ TypeOK' /\ UniqueEmail' /\ WelcomedOwns' /\ GuardIsRight' /\ Provenance'
        /\ AllSeeded'
    BY <1>4 DEF vars, IInv, TypeOK, UniqueEmail, WelcomedOwns, GuardIsRight,
                Provenance, AllSeeded, PassedTo, Exists, Owners
  <2>2. \A w \in Workers : JobOK(job[w])'
    BY <1>4, IInvByJobs DEF vars, JobOK, PassedTo, Owners, Exists
  <2>. QED
    BY <2>1, <2>2 DEF IInv, JobOK, AllSeeded, At
<1>. QED
  BY <1>1, <1>2, <1>3, <1>4, FindEmailStep, CreateUserStep, FindUserStep,
     ComparePasswordStep, UpsertStep, EndSeedStep DEF Next

(* The inductive invariant of Accounts: what a login has read stays true   *)
(* (auth.service.ts, login), and a seed run leaves what it has passed.     *)
THEOREM AccountsInvariance == Spec => []IInv
BY Initially, Preserved, PTL DEF Spec

(* auth.service.ts, register: two registrations and a seed run may all     *)
(* find an e-mail free; the unique key leaves it with one account.         *)
THEOREM OneAccountPerEmail == Spec => []UniqueEmail
<1>1. IInv => UniqueEmail
  BY DEF IInv
<1>. QED
  BY <1>1, AccountsInvariance, PTL

(* auth.service.ts, register: whoever was told that they are registered    *)
(* keeps the account and the password.                                     *)
THEOREM RegisteredOwns == Spec => []WelcomedOwns
<1>1. IInv => WelcomedOwns
  BY DEF IInv
<1>. QED
  BY <1>1, AccountsInvariance, PTL

(* roles.guard.ts: the role in a token is the role of the account whose    *)
(* password was given for it.                                              *)
THEOREM TokensTellTheRole == Spec => []GuardIsRight
<1>1. IInv => GuardIsRight
  BY DEF IInv
<1>. QED
  BY <1>1, AccountsInvariance, PTL

(* seed.ts: once a run has ended well, each e-mail the script names has the *)
(* role and the password the script gives it, unless a customer registered  *)
(* that e-mail.                                                             *)
THEOREM SeedCompletes == Spec => []SeededUnlessTaken
<1>1. IInv => SeededUnlessTaken
  <2>. SUFFICES ASSUME IInv, seeded, NEW n \in 1..Len(SeedUsers)
                PROVE  \E u \in Owners(SeedUsers[n].email) :
                           users[u] \in {SeedUsers[n], welcomed[u]}
    BY DEF SeededUnlessTaken
  <2>1. PICK u \in Owners(SeedUsers[n].email) : TRUE
    BY DEF IInv, PassedTo
  <2>2. u \in Users /\ Exists(u) /\ users[u].email = SeedUsers[n].email
    BY DEF Owners
  <2>3. CASE users[u] = welcomed[u]
    BY <2>3
  <2>4. ASSUME NEW m \in 1..Len(SeedUsers), users[u] = SeedUsers[m]
        PROVE  users[u] = SeedUsers[n]
    BY <2>2, <2>4, SeedAssumption
  <2>. QED
    BY <2>2, <2>3, <2>4 DEF IInv, Provenance
<1>. QED
  BY <1>1, AccountsInvariance, PTL
===============================================================================
