------------------------------ MODULE Accounts ------------------------------
(***************************************************************************)
(* api/auth.py and the user routes of api/routes.py: how accounts come to  *)
(* exist, by the first-run bootstrap or by a first OIDC sign-in, and how   *)
(* their roles change.                                                     *)
(*                                                                         *)
(* The handlers are plain functions served by a thread pool, each with a   *)
(* Session of its own: a request reads, and commits later what it decided  *)
(* from that reading.  An account is known by its username, which nothing  *)
(* changes; no route removes an account.  A definition named Slip... is a  *)
(* plausible mistake in the definition that follows it.                    *)
(***************************************************************************)
EXTENDS Naturals, FiniteSets

CONSTANTS
  Names,       \* usernames; an e-mail address is one of them
  Subjects,    \* people the identity provider knows, by their `sub`
  Requests,    \* threads serving requests
  MaxRenames,  \* bound on changes of an e-mail address at the provider
  None

ASSUME AccountsAssumption ==
  /\ None \notin Names \cup Subjects \cup {"admin", "user"}
  /\ MaxRenames \in Nat

VARIABLES
  role,     \* users.role by username, None where there is no such account
  sub,      \* users.oidc_sub by username
  email,    \* the provider's e-mail claim for each subject
  renames,  \* changes of it so far
  cookie,   \* the account the session cookie of a subject's browser names
  serving   \* what each thread has read and not committed yet

accountVars == <<role, sub, email, renames, cookie, serving>>

Idle == [kind |-> "idle"]
Accounts == {n \in Names : role[n] # None}
Admins == {n \in Names : role[n] = "admin"}

AccountInit ==
  /\ role = [n \in Names |-> None]
  /\ sub = [n \in Names |-> None]
  /\ email \in [Subjects -> Names]
  /\ renames = 0
  /\ cookie = [s \in Subjects |-> None]
  /\ serving = [r \in Requests |-> Idle]

Frees(r) == serving' = [serving EXCEPT ![r] = Idle]

\* bootstrap: refused unless the table is empty when it is counted.
BeginBootstrap(r, n) ==
  /\ serving[r] = Idle
  /\ Accounts = {}
  /\ serving' = [serving EXCEPT ![r] = [kind |-> "bootstrap", name |-> n]]
  /\ UNCHANGED <<role, sub, email, renames, cookie>>

\* The username is unique: the insert of a taken one fails the request.
CommitBootstrap(r) ==
  /\ serving[r].kind = "bootstrap"
  /\ Frees(r)
  /\ LET n == serving[r].name
     IN role' = IF role[n] = None THEN [role EXCEPT ![n] = "admin"] ELSE role
  /\ UNCHANGED <<sub, email, renames, cookie>>

SlipFound(s) == {n \in Accounts : sub[n] = s}
SlipFoundByName(s) ==
  LET named == {n \in Accounts : n = email[s]}
  IN IF named # {} THEN named ELSE {n \in Accounts : sub[n] = s}
\* oidc_callback: the account that holds the subject, else the one whose
\* username is the e-mail address.  The latter is not given the subject.
Found(s) ==
  LET bound == {n \in Accounts : sub[n] = s}
  IN IF bound # {} THEN bound ELSE {n \in Accounts : n = email[s]}

SignIn(r, s) ==
  /\ serving[r] = Idle
  /\ cookie[s] = None
  /\ \/ /\ \E n \in Found(s) : cookie' = [cookie EXCEPT ![s] = n]
        /\ UNCHANGED serving
     \/ /\ Found(s) = {}
        /\ serving' = [serving EXCEPT ![r] =
             [kind |-> "sso", subject |-> s, name |-> email[s]]]
        /\ UNCHANGED cookie
  /\ UNCHANGED <<role, sub, email, renames>>

\* username and oidc_sub are unique.
Insertable(s, n) == role[n] = None /\ \A m \in Names : sub[m] # s

SlipCommitSignIn(r) ==     \* the cookie is set before the insert is known to hold
  /\ serving[r].kind = "sso"
  /\ Frees(r)
  /\ LET s == serving[r].subject
         n == serving[r].name
     IN /\ cookie' = [cookie EXCEPT ![s] = n]
        /\ role' = IF Insertable(s, n) THEN [role EXCEPT ![n] = "user"] ELSE role
        /\ sub' = IF Insertable(s, n) THEN [sub EXCEPT ![n] = s] ELSE sub
  /\ UNCHANGED <<email, renames>>
CommitSignIn(r) ==
  /\ serving[r].kind = "sso"
  /\ Frees(r)
  /\ LET s == serving[r].subject
         n == serving[r].name
     IN \/ /\ Insertable(s, n)
           /\ role' = [role EXCEPT ![n] = "user"]
           /\ sub' = [sub EXCEPT ![n] = s]
           /\ cookie' = [cookie EXCEPT ![s] = n]
        \/ /\ ~Insertable(s, n)
           /\ UNCHANGED <<role, sub, cookie>>
  /\ UNCHANGED <<email, renames>>

SlipMayGive(caller, n, to) == role[caller] = "admin"
\* require_admin, and "Cannot demote yourself".
MayGive(caller, n, to) == role[caller] = "admin" /\ ~(caller = n /\ to # "admin")

BeginSetRole(r, caller, n, to) ==
  /\ serving[r] = Idle
  /\ n \in Accounts
  /\ MayGive(caller, n, to)
  /\ serving' = [serving EXCEPT ![r] =
       [kind |-> "role", caller |-> caller, name |-> n, to |-> to, was |-> role[n]]]
  /\ UNCHANGED <<role, sub, email, renames, cookie>>

\* An attribute set to the value it was loaded with is not written.
CommitSetRole(r) ==
  /\ serving[r].kind = "role"
  /\ Frees(r)
  /\ LET q == serving[r]
     IN role' = IF q.to = q.was THEN role ELSE [role EXCEPT ![q.name] = q.to]
  /\ UNCHANGED <<sub, email, renames, cookie>>

\* logout deletes the cookie; a session token also expires after its TTL.
Logout(s) ==
  /\ cookie[s] # None
  /\ cookie' = [cookie EXCEPT ![s] = None]
  /\ UNCHANGED <<role, sub, email, renames, serving>>

\* The provider's side: somebody's e-mail address changes.
Rename(s, n) ==
  /\ renames < MaxRenames
  /\ n # email[s]
  /\ email' = [email EXCEPT ![s] = n]
  /\ renames' = renames + 1
  /\ UNCHANGED <<role, sub, cookie, serving>>

Commit(r) == CommitBootstrap(r) \/ CommitSignIn(r) \/ CommitSetRole(r)

AccountNext ==
  \/ \E r \in Requests :
       \/ Commit(r)
       \/ \E n \in Names : BeginBootstrap(r, n)
       \/ \E s \in Subjects : SignIn(r, s)
       \/ \E caller, n \in Names, to \in {"admin", "user"} : BeginSetRole(r, caller, n, to)
  \/ \E s \in Subjects : Logout(s) \/ \E n \in Names : Rename(s, n)

\* A request that was begun ends, and one that waits for a thread gets one:
\* the pool's queue is first in, first out.
AccountFairness ==
  /\ \A r \in Requests : WF_accountVars(Commit(r))
  /\ \A s \in Subjects : SF_accountVars(\E r \in Requests : SignIn(r, s))

-----------------------------------------------------------------------------
AccountTypeOK ==
  /\ role \in [Names -> {None, "admin", "user"}]
  /\ sub \in [Names -> Subjects \cup {None}]
  /\ email \in [Subjects -> Names]
  /\ renames \in 0 .. MaxRenames
  /\ \A s \in Subjects : cookie[s] \in Accounts \cup {None}
  /\ \A r \in Requests : serving[r].kind \in {"idle", "bootstrap", "sso", "role"}

\* The installation loses its last admin (and with it, since bootstrap needs
\* an empty table, every way to have one) only to a request whose caller was
\* demoted after the request was authorised: routes.py set_user_role.
LastAdminKept ==
  [][ Admins # {} /\ Admins' = {} =>
        \E r \in Requests : /\ serving[r].kind = "role" /\ serving'[r] = Idle
                            /\ role[serving[r].caller] # "admin" ]_accountVars

\* Once an account holds a subject, the subject signs in to no other one,
\* whatever becomes of its e-mail address: auth.py oidc_callback.
SubjectKeepsAccount ==
  [][ \A s \in Subjects :
        cookie'[s] # cookie[s] /\ cookie'[s] # None /\ (\E n \in Names : sub[n] = s)
          => sub[cookie'[s]] = s ]_accountVars

\* Somebody who keeps signing in is let in in the end, whatever other
\* requests insert under the same name or subject meanwhile.
SignInSettles == \A s \in Subjects : cookie[s] = None ~> cookie[s] # None
=============================================================================
