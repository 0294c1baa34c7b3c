---------------------------- MODULE MCInsurerSession ----------------------------
(***************************************************************************)
(* InsurerSession for TLC: two tabs and two logins, so that one tab may    *)
(* end or replace the login of the other.                                  *)
(***************************************************************************)
EXTENDS InsurerSession, TLC

CONSTANTS tab1, tab2, login1, login2

MCTab == {tab1, tab2}
MCLogin == {login1, login2}

\* No temporal property is checked but an action property.
Symmetry == Permutations(MCTab) \cup Permutations(MCLogin)
=================================================================================
