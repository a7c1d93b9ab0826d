----------------------------- MODULE MCAccounts -----------------------------
(***************************************************************************)
(* Instances of Accounts for TLC: an address in two spellings, all of one  *)
(* base, so that their slugs collide.                                      *)
(***************************************************************************)
EXTENDS Accounts, TLC

CONSTANTS Upper, lower, other, base

\* "Ann@x", "ann@x"
TwoSpellings == {Upper, lower}

ThreeAddresses == {Upper, lower, other}

Lowered == [e \in Emails |-> IF e = Upper THEN lower ELSE e]

\* DEMO_EMAIL is set, or not.
DemoAddress == {other}

NoDemo == {}

OneBase == {base}

BaseOfAll == [e \in Emails |-> base]

Symmetry == Permutations(Requests) \cup Permutations(Passwords)
=============================================================================
