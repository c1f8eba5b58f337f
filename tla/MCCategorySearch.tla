--------------------------- MODULE MCCategorySearch ---------------------------
(* CategorySearch with a reference for its distance of two strings.        *)
EXTENDS CategorySearch

CONSTANTS
  a, b,   (* the letters                                                   *)
  Order   (* the categories, in a sequence                                 *)

(* The categories are named in the order they come in the cache.           *)
MCInit ==
  /\ Init
  /\ \A i \in DOMAIN termCache : termCache[i].category \in {Order[j] : j \in 1..i}

-----------------------------------------------------------------------------
(* The reference: how many letters must be inserted, deleted or replaced.  *)

Strings == UNION {[1..n -> {a, b, space}] : n \in 0..3}

(* The strings one edit away.                                              *)
Edits(s) ==
  {t \in Strings :
     \/ /\ Len(t) = Len(s)
        /\ \E i \in 1..Len(s) : \A k \in 1..Len(s) : k # i => t[k] = s[k]
     \/ Len(t) = Len(s) + 1 /\ \E i \in 1..Len(t) : RemoveAt(t, i) = s
     \/ Len(s) = Len(t) + 1 /\ \E i \in 1..Len(s) : RemoveAt(s, i) = t}

EditsOf == [s \in Strings |-> Edits(s)]

Farther(w) == [s \in Strings |-> w[s] \cup UNION {EditsOf[t] : t \in w[s]}]

(* The strings at most two edits away; no two differ by more than three.   *)
TwoOf == Farther(EditsOf)

EditDistance ==
  [p \in Strings \X Strings |->
     IF p[1] = p[2] THEN 0 ELSE IF p[2] \in EditsOf[p[1]] THEN 1
     ELSE IF p[2] \in TwoOf[p[1]] THEN 2 ELSE 3]

(* levenshtein returns the least number of edits, for a query against      *)
(* every word of the cached terms (here they are all among the strings).   *)
LevenshteinIsLeast ==
  query \in Strings =>
    \A item \in ToSet(termCache) : \A w \in WordsOf(item.term) \cap Strings :
      levenshtein(query, w) = EditDistance[<<query, w>>]
=============================================================================
