----------------------------- MODULE MCProfiles -----------------------------
(***************************************************************************)
(* The instance of Profiles that TLC checks. The forms of a name differ in   *)
(* nothing, so they are symmetric.                                           *)
(***************************************************************************)
EXTENDS Profiles, TLC

CONSTANTS lower, upper

TypedForms == Permutations({lower, upper})

\* Bound on what crashes tear: no saved game, which holds nothing that is read back; the
\* details of one player at a time; and the roster only while there is still a person to
\* come, who is given the id of one that is forgotten.
FewTorn ==
  /\ \A id \in Ids : saved[id] # Torn
  /\ Cardinality({id \in Ids : details[id] = Torn}) <= 1
  /\ rosterTorn => persons < MaxPersons
=============================================================================
