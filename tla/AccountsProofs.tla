---------------------------- MODULE AccountsProofs ----------------------------
(***************************************************************************)
(* Theorems about Accounts and Reading, for any number of accounts,        *)
(* subjects, threads, devices and books, however their requests interleave *)
(* between the reading and the commit.                                     *)
(***************************************************************************)
EXTENDS MCAccounts, TLAPS

\* What a thread may be serving.  A role change was authorised: it is not the
\* caller who demotes himself.
Served ==
  {Idle}
    \cup [kind : {"bootstrap"}, name : Names]
    \cup [kind : {"sso"}, subject : Subjects, name : Names]
    \cup {q \in [kind : {"role"}, caller : Names, name : Names, to : {"admin", "user"},
                 was : {"admin", "user"}] :
            q.caller = q.name => q.to = "admin"}

AccountInv ==
  /\ AccountTypeOK
  /\ serving \in [Requests -> Served]
  /\ cookie \in [Subjects -> Names \cup {None}]
  /\ \A n \in Names : sub[n] # None => role[n] # None

\* What a device may have asked for.  A position row, once there, stays.
Asked ==
  {Free}
    \cup [kind : {"send"}, body : Bodies]
    \cup [kind : {"put"}, body : Bodies, loaded : Bodies \cup {NoRow}]
    \cup [kind : {"add", "remove", "delete"}, books : SUBSET Books, loaded : SUBSET Books]

ReadingInv ==
  /\ row \in Bodies \cup {NoRow}
  /\ shelf = NoRow \/ shelf \subseteq Books
  /\ request \in [Devices -> Asked]
  /\ \A d \in Devices : request[d].kind = "put" /\ request[d].loaded # NoRow => row # NoRow

IInv == AccountInv /\ ReadingInv

-----------------------------------------------------------------------------
\* A request of an account handler, begun or committed, keeps the invariant.
LEMMA BeginAccount ==
  ASSUME AccountInv, NEW r \in Requests,
         \/ \E n \in Names : BeginBootstrap(r, n)
         \/ \E s \in Subjects : SignIn(r, s)
         \/ \E caller, n \in Names, to \in {"admin", "user"} : BeginSetRole(r, caller, n, to)
  PROVE  AccountInv'
<1> USE AccountsAssumption DEF AccountInv, AccountTypeOK, Accounts
<1>1. ASSUME NEW n \in Names, BeginBootstrap(r, n) PROVE AccountInv'
  <2>1. serving' \in [Requests -> Served]
    BY <1>1 DEF BeginBootstrap, Served
  <2>2. QED
    BY <1>1, <2>1 DEF BeginBootstrap, Served, Idle
<1>2. ASSUME NEW s \in Subjects, SignIn(r, s) PROVE AccountInv'
  <2>1. serving' \in [Requests -> Served]
    BY <1>2 DEF SignIn, Served
  <2>2. \A q \in Requests : serving'[q].kind \in {"idle", "bootstrap", "sso", "role"}
    BY <2>1 DEF Served, Idle
  <2>3. cookie' \in [Subjects -> Names \cup {None}]
    BY <1>2 DEF SignIn, Found
  <2>4. \A t \in Subjects : cookie'[t] \in Accounts \cup {None}
    BY <1>2 DEF SignIn, Found
  <2>5. QED
    BY <1>2, <2>1, <2>2, <2>3, <2>4 DEF SignIn
<1>3. ASSUME NEW caller \in Names, NEW n \in Names, NEW to \in {"admin", "user"},
             BeginSetRole(r, caller, n, to)
      PROVE  AccountInv'
  <2>1. role[n] \in {"admin", "user"}
    BY <1>3 DEF BeginSetRole
  <2>2. serving' \in [Requests -> Served]
    BY <1>3, <2>1 DEF BeginSetRole, MayGive, Served
  <2>3. \A q \in Requests : serving'[q].kind \in {"idle", "bootstrap", "sso", "role"}
    BY <2>2 DEF Served, Idle
  <2>4. QED
    BY <1>3, <2>2, <2>3 DEF BeginSetRole
<1>4. QED
  BY <1>1, <1>2, <1>3

LEMMA CommitAccount == ASSUME AccountInv, NEW r \in Requests, Commit(r) PROVE AccountInv'
<1> USE AccountsAssumption DEF AccountInv, AccountTypeOK, Accounts
<1>1. Frees(r)
  BY DEF Commit, CommitBootstrap, CommitSignIn, CommitSetRole
<1>2. serving' \in [Requests -> Served]
  BY <1>1 DEF Frees, Served
<1>3. \A q \in Requests : serving'[q].kind \in {"idle", "bootstrap", "sso", "role"}
  BY <1>2 DEF Served, Idle
<1>4. CASE CommitBootstrap(r)
  <2>1. serving[r].name \in Names
    BY <1>4 DEF CommitBootstrap, Served, Idle
  <2>2. role' = role \/ role' = [role EXCEPT ![serving[r].name] = "admin"]
    BY <1>4 DEF CommitBootstrap
  <2>3. role' \in [Names -> {None, "admin", "user"}] /\ \A n \in Names : role[n] # None => role'[n] # None
    BY <2>1, <2>2
  <2>4. QED
    BY <1>2, <1>3, <1>4, <2>3 DEF CommitBootstrap
<1>5. CASE CommitSignIn(r)
  <2> DEFINE s == serving[r].subject
             n == serving[r].name
  <2>1. s \in Subjects /\ n \in Names
    BY <1>5 DEF CommitSignIn, Served, Idle
  <2>2. CASE Insertable(s, n)
    <3>1. /\ role' = [role EXCEPT ![n] = "user"]
          /\ sub' = [sub EXCEPT ![n] = s]
          /\ cookie' = [cookie EXCEPT ![s] = n]
      BY <1>5, <2>2 DEF CommitSignIn
    <3>2. role' \in [Names -> {None, "admin", "user"}] /\ \A m \in Names : role[m] # None \/ m = n => role'[m] # None
      BY <2>1, <3>1
    <3>3. sub' \in [Names -> Subjects \cup {None}] /\ \A m \in Names : sub'[m] # None => sub[m] # None \/ m = n
      BY <2>1, <3>1
    <3>4. cookie' \in [Subjects -> Names \cup {None}] /\ \A t \in Subjects : cookie'[t] = cookie[t] \/ cookie'[t] = n
      BY <2>1, <3>1
    <3>5. UNCHANGED <<email, renames>>
      BY <1>5 DEF CommitSignIn
    <3>6. \A t \in Subjects : (cookie[t] \in Accounts \cup {None})'
      BY <2>1, <3>2, <3>4
    <3>7. QED
      BY <1>2, <1>3, <3>2, <3>3, <3>4, <3>5, <3>6
  <2>3. CASE ~Insertable(s, n)
    BY <1>2, <1>3, <1>5, <2>3 DEF CommitSignIn
  <2>4. QED
    BY <2>2, <2>3
<1>6. CASE CommitSetRole(r)
  <2>1. serving[r].name \in Names /\ serving[r].to \in {"admin", "user"}
    BY <1>6 DEF CommitSetRole, Served, Idle
  <2>2. role' = role \/ role' = [role EXCEPT ![serving[r].name] = serving[r].to]
    BY <1>6 DEF CommitSetRole
  <2>3. role' \in [Names -> {None, "admin", "user"}] /\ \A n \in Names : role[n] # None => role'[n] # None
    BY <2>1, <2>2
  <2>4. QED
    BY <1>2, <1>3, <1>6, <2>3 DEF CommitSetRole
<1>7. QED
  BY <1>4, <1>5, <1>6 DEF Commit

LEMMA AccountStep == ASSUME AccountInv, AccountNext PROVE AccountInv'
<1> USE AccountsAssumption DEF AccountInv, AccountTypeOK, Accounts
<1>1. ASSUME NEW s \in Subjects, Logout(s) PROVE AccountInv'
  BY <1>1 DEF Logout
<1>2. ASSUME NEW s \in Subjects, NEW n \in Names, Rename(s, n) PROVE AccountInv'
  BY <1>2 DEF Rename
<1>3. QED
  BY <1>1, <1>2, BeginAccount, CommitAccount DEF AccountNext

-----------------------------------------------------------------------------
\* A position report keeps the invariant.
LEMMA ReportStep ==
  ASSUME ReadingInv, NEW d \in Devices,
         Look(d) \/ Put(d) \/ \E body \in Bodies : Report(d, body)
  PROVE  ReadingInv'
<1> USE DEF ReadingInv
<1>1. ASSUME NEW body \in Bodies, Report(d, body) PROVE ReadingInv'
  BY <1>1 DEF Report, Loads, Asked
<1>2. CASE Look(d)
  <2>1. request[d].body \in Bodies
    BY <1>2 DEF Look, Asked, Free
  <2>2. QED
    BY <1>2, <2>1 DEF Look, Loads, Asked, Stored
<1>3. CASE Put(d)
  <2>1. /\ request[d].body \in Bodies
        /\ request[d].loaded \in Bodies \cup {NoRow}
    BY <1>3 DEF Put, Asked, Free
  <2>2. request' \in [Devices -> Asked]
    BY <1>3, <2>1 DEF Put, Ends, Loads, Asked
  <2>3. \A e \in Devices : request'[e].kind = "put" => request'[e] = request[e]
    BY <1>3 DEF Put, Ends, Loads, Free
  <2>4. row' \in Bodies \cup {NoRow} /\ (row # NoRow => row' # NoRow)
    BY <1>3, <2>1, ReadingAssumption DEF Put, Saved, Bodies
  <2>5. UNCHANGED shelf
    BY <1>3 DEF Put
  <2>6. QED
    BY <2>2, <2>3, <2>4, <2>5
<1>4. QED
  BY <1>1, <1>2, <1>3

\* So do the edits of the shelf.
LEMMA ShelfStep ==
  ASSUME ReadingInv, NEW d \in Devices,
         \/ Shelve(d)
         \/ \E kind \in {"add", "remove"}, books \in SUBSET Books : Open(d, kind, books)
         \/ Open(d, "delete", {})
  PROVE  ReadingInv'
<1> USE DEF ReadingInv
<1>1. ASSUME NEW kind \in {"add", "remove", "delete"}, NEW books \in SUBSET Books, Open(d, kind, books)
      PROVE  ReadingInv'
  BY <1>1 DEF Open, Loads, Asked
<1>2. CASE Shelve(d)
  <2>1. request[d].kind \in {"add", "remove", "delete"} /\ request[d].books \in SUBSET Books
    BY <1>2 DEF Shelve, Asked, Free
  <2>2. shelf' = NoRow \/ shelf' \subseteq Books
    BY <1>2, <2>1 DEF Shelve, Contents, Added, Removed
  <2>3. request' \in [Devices -> Asked] /\ \A e \in Devices : request'[e].kind = "put" => request'[e] = request[e]
    BY <1>2 DEF Shelve, Ends, Asked, Free
  <2>4. QED
    BY <1>2, <2>2, <2>3 DEF Shelve
<1>3. QED
  BY <1>1, <1>2

LEMMA ReadingStep == ASSUME ReadingInv, ReadingNext PROVE ReadingInv'
<1>1. CASE CreateShelf
  BY <1>1 DEF CreateShelf, ReadingInv
<1>2. QED
  BY <1>1, ReportStep, ShelfStep DEF ReadingNext

-----------------------------------------------------------------------------
\* The inductive invariant holds in every reachable state.
THEOREM Invariance == Spec => []IInv
<1>1. Init => IInv
  <2> SUFFICES ASSUME Init PROVE IInv
    OBVIOUS
  <2>1. AccountInv
    BY AccountsAssumption DEF Init, AccountInit, AccountInv, AccountTypeOK, Accounts, Served, Idle
  <2>2. ReadingInv
    BY DEF Init, ReadingInit, ReadingInv, Asked, Free
  <2>3. QED
    BY <2>1, <2>2 DEF IInv
<1>2. IInv /\ [Next]_vars => IInv'
  <2> SUFFICES ASSUME IInv, [Next]_vars PROVE IInv'
    OBVIOUS
  <2>1. UNCHANGED accountVars \/ AccountNext
    BY DEF Next, vars
  <2>2. UNCHANGED readingVars \/ ReadingNext
    BY DEF Next, vars
  <2>3. AccountInv'
    <3>1. CASE UNCHANGED accountVars
      BY <3>1 DEF accountVars, IInv, AccountInv, AccountTypeOK, Accounts
    <3>2. QED
      BY <2>1, <3>1, AccountStep DEF IInv
  <2>4. ReadingInv'
    <3>1. CASE UNCHANGED readingVars
      BY <3>1 DEF readingVars, IInv, ReadingInv
    <3>2. QED
      BY <2>2, <3>1, ReadingStep DEF IInv
  <2>5. QED
    BY <2>3, <2>4 DEF IInv
<1>3. QED
  BY <1>1, <1>2, PTL DEF Spec

\* Type correctness of both parts; with it every session cookie names an
\* account that exists.
THEOREM TypeCorrect == Spec => []TypeOK
<1>1. IInv => TypeOK
  BY DEF IInv, AccountInv, ReadingInv, TypeOK, ReadingTypeOK, Asked, Free
<1>2. QED
  BY <1>1, Invariance, PTL

\* The last admin goes only by a request whose caller was demoted after the
\* request was authorised: require_admin with the refusal to demote oneself
\* is enough for everything else.
THEOREM LastAdminIsKept == Spec => LastAdminKept
<1>1. ASSUME IInv, [Next]_vars, UNCHANGED accountVars \/ AccountNext,
             Admins # {}, Admins' = {}
      PROVE  \E r \in Requests : /\ serving[r].kind = "role" /\ serving'[r] = Idle
                                 /\ role[serving[r].caller] # "admin"
  <2> USE <1>1 DEF IInv, AccountInv, AccountTypeOK, Admins
  <2>1. ASSUME UNCHANGED role PROVE FALSE
    BY <2>1
  <2>2. PICK r \in Requests : Commit(r)
    BY <1>1, <2>1 DEF AccountNext, accountVars, BeginBootstrap, SignIn, BeginSetRole, Logout, Rename
  <2>3. CASE CommitBootstrap(r)
    <3>1. serving[r].name \in Names
      BY <2>3 DEF CommitBootstrap, Served, Idle
    <3>2. role' = [role EXCEPT ![serving[r].name] = "admin"]
      BY <2>1, <2>3 DEF CommitBootstrap
    <3>3. QED
      BY <3>1, <3>2
  <2>4. CASE CommitSignIn(r)
    <3>1. serving[r].name \in Names /\ role[serving[r].name] = None
      BY <2>1, <2>4 DEF CommitSignIn, Served, Idle, Insertable
    <3>2. role' = [role EXCEPT ![serving[r].name] = "user"]
      BY <2>1, <2>4 DEF CommitSignIn
    <3>3. PICK n \in Names : role[n] = "admin"
      OBVIOUS
    <3>4. role'[n] = "admin"
      BY <3>1, <3>2, <3>3, AccountsAssumption
    <3>5. QED
      BY <3>4
  <2>5. CASE CommitSetRole(r)
    <3> DEFINE q == serving[r]
    <3>1. /\ q.kind = "role" /\ q.caller \in Names /\ q.name \in Names
          /\ q.to \in {"admin", "user"} /\ (q.caller = q.name => q.to = "admin")
      BY <2>5 DEF CommitSetRole, Served, Idle
    <3>2. role' = [role EXCEPT ![q.name] = q.to]
      BY <2>1, <2>5 DEF CommitSetRole
    <3>3. serving'[r] = Idle
      BY <2>5 DEF CommitSetRole, Frees
    <3>4. role[q.caller] # "admin"
      BY <3>1, <3>2
    <3>5. QED
      BY <3>1, <3>3, <3>4
  <2>6. QED
    BY <2>2, <2>3, <2>4, <2>5 DEF Commit
<1>2. IInv /\ [Next]_vars =>
        [Admins # {} /\ Admins' = {} =>
           \E r \in Requests : /\ serving[r].kind = "role" /\ serving'[r] = Idle
                               /\ role[serving[r].caller] # "admin"]_accountVars
  BY <1>1 DEF Next, vars
<1>3. QED
  BY <1>2, Invariance, PTL DEF Spec, LastAdminKept

\* Once an account holds a subject, the subject signs in to no other, whatever
\* e-mail addresses the provider reports meanwhile.
THEOREM SubjectIsKept == Spec => SubjectKeepsAccount
<1>1. ASSUME IInv, AccountNext, NEW s \in Subjects,
             cookie'[s] # cookie[s], cookie'[s] # None, \E n \in Names : sub[n] = s
      PROVE  sub[cookie'[s]] = s
  <2> USE <1>1 DEF IInv, AccountInv, AccountTypeOK, Accounts
  <2>1. CASE \E r \in Requests, t \in Subjects : SignIn(r, t)
    <3>1. PICK t \in Subjects : \E n \in Found(t) : cookie' = [cookie EXCEPT ![t] = n]
      BY <2>1 DEF SignIn
    <3>2. t = s /\ cookie'[s] \in Found(s)
      BY <3>1
    <3>3. \E n \in Accounts : sub[n] = s
      BY AccountsAssumption
    <3>4. QED
      BY <3>2, <3>3 DEF Found
  <2>2. CASE \E r \in Requests : CommitSignIn(r)
    BY <2>2 DEF CommitSignIn, Insertable
  <2>3. CASE \E t \in Subjects : Logout(t)
    BY <2>3 DEF Logout
  <2>4. QED
    BY <2>1, <2>2, <2>3 DEF AccountNext, Commit, CommitBootstrap, CommitSetRole,
       BeginBootstrap, BeginSetRole, Rename
<1>2. IInv /\ [Next]_vars =>
        [\A s \in Subjects :
           cookie'[s] # cookie[s] /\ cookie'[s] # None /\ (\E n \in Names : sub[n] = s)
             => sub[cookie'[s]] = s]_accountVars
  BY <1>1 DEF Next, vars
<1>3. QED
  BY <1>2, Invariance, PTL DEF Spec, SubjectKeepsAccount

\* Two devices that edit a shelf at once do not undo each other: a commit adds
\* and removes only books its request named.
THEOREM ShelfEditsCompose == Spec => EditsCompose
<1>1. ASSUME IInv, ReadingNext, shelf # NoRow, shelf' # NoRow, NEW b \in Books,
             (b \in shelf) # (b \in shelf')
      PROVE  \E d \in Devices : /\ request[d].kind \in {"add", "remove"}
                                /\ request'[d] = Free
                                /\ b \in request[d].books
  <2> USE <1>1 DEF IInv, ReadingInv
  <2>1. PICK d \in Devices : Shelve(d)
    BY DEF ReadingNext, CreateShelf, Look, Put, Report, Open
  <2>2. request'[d] = Free
    BY <2>1 DEF Shelve, Ends
  <2>3. request[d].kind # "delete"
    BY <2>1 DEF Shelve, Contents
  <2>4. shelf' = (shelf \cup Added(request[d])) \ Removed(request[d])
    BY <2>1, <2>3 DEF Shelve, Contents
  <2>5. b \in request[d].books
    BY <2>1, <2>3, <2>4 DEF Shelve, Added, Removed
  <2>6. QED
    BY <2>1, <2>2, <2>3, <2>5 DEF Shelve
<1>2. IInv /\ [Next]_vars =>
        [shelf # NoRow /\ shelf' # NoRow =>
           \A b \in Books : (b \in shelf) # (b \in shelf') =>
             \E d \in Devices : /\ request[d].kind \in {"add", "remove"}
                                /\ request'[d] = Free
                                /\ b \in request[d].books]_readingVars
  BY <1>1 DEF Next, vars
<1>3. QED
  BY <1>2, Invariance, PTL DEF Spec, EditsCompose
=============================================================================
