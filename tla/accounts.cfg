SPECIFICATION Spec
CONSTANTS
    admin = admin
    ann = ann
    pw1 = pw1
    pw2 = pw2
    Absent = Absent
    Users = {u1, u2}
    Emails = {admin, ann}
    Passwords = {pw1, pw2}
    Workers = {w1, w2}
    SeedUsers <- AdminAndAnn
    MaxFailures = 1
INVARIANTS
    IInv
    UniqueEmail
    WelcomedOwns
    GuardIsRight
    SeededUnlessTaken
