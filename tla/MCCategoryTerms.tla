--------------------------- MODULE MCCategoryTerms ---------------------------
(* CategoryTerms with the history its properties need.                     *)
EXTENDS CategoryTerms

VARIABLES
  phase,   (* "computing" while a run with --force is the only one at      *)
           (* work, "computed" once it has ended, "served" once the server *)
           (* has been started after it                                    *)
  met      (* two runs of precompute have been at one category at once     *)

hvars == <<vars, phase, met>>

MCInit == Init /\ phase = "none" /\ met = FALSE

Working == {r \in Runs : runs[r].script # "none"}

Phase ==
  IF Working = {} /\ \E r \in Runs : precomputeRun(r, TRUE)
    THEN IF Working' = {} THEN "computed" ELSE "computing"
  ELSE IF Working' \ Working # {} \/ \E r \in Runs : die(r) THEN "none"
  ELSE IF phase = "computing" /\ Working' = {} THEN "computed"
  ELSE IF phase = "computed" /\ reloadTermCache THEN "served"
  ELSE phase

Meet == \E r, s \in Runs : r # s /\ runs[r].at # null /\ runs[r].at = runs[s].at

MCNext == Next /\ phase' = Phase /\ met' = (met \/ Meet')

-----------------------------------------------------------------------------
(* "After this the terms MUST be computed with --force", and the server    *)
(* started again: whatever died or overlapped before, from then on and     *)
(* until another script runs the search knows every category by all the    *)
(* terms of its name and its description.                                  *)
ForceRepairs ==
  \A c \in Categories : Exists(c) =>
    /\ phase \in {"computed", "served"} => terms[c] = AllOf(description[c])
    /\ phase = "served" => termCache[c] = AllOf(description[c])

(* Before that, too, the terms of a category are cut from one description, *)
(* though it may be generated anew or wiped while they are computed, and a *)
(* run may die among them; but only as long as no two runs of precompute   *)
(* have been at the category at once, which nothing prevents.              *)
TermsOfOneText == ~met => OneDescription
=============================================================================
