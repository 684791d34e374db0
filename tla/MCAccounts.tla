----------------------------- MODULE MCAccounts -----------------------------
(* Accounts and Reading share no row and no Session, so a behaviour busies *)
(* one of the two; `busy` says which.                                      *)
EXTENDS Accounts, Reading

VARIABLE busy

vars == <<accountVars, readingVars, busy>>

Init == AccountInit /\ ReadingInit /\ busy \in {"accounts", "reading"}

Next ==
  \/ busy = "accounts" /\ AccountNext /\ UNCHANGED <<readingVars, busy>>
  \/ busy = "reading" /\ ReadingNext /\ UNCHANGED <<accountVars, busy>>

Spec == Init /\ [][Next]_vars

FairSpec ==
  /\ Spec
  /\ busy = "accounts" => AccountFairness
  /\ busy = "reading" => ReadingFairness

\* Every variable holds values of its kind.
TypeOK == AccountTypeOK /\ ReadingTypeOK

\* SignInSettles of the behaviours in which anybody signs in.
EveryoneGetsIn == busy = "accounts" => SignInSettles
=============================================================================
