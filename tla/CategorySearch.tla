---------------------------- MODULE CategorySearch ----------------------------
(* The search for a category by what somebody types when placing an ad     *)
(* (CategoriesService.searchBySemantic): every term the server has cached  *)
(* is scored against the query, by the likeness of their vectors and by    *)
(* that of their letters, and each category counts by its best term.       *)
(*                                                                         *)
(* A string is a sequence of letters, lower case.  A score is a whole      *)
(* number of hundredths of a Unit: what a float rounds away is left out.   *)
(*                                                                         *)
(* A definition op_variant before op is op with a mistake in it; nothing   *)
(* here uses it.  Putting it in op's place breaks one of the properties.   *)
(***************************************************************************)
EXTENDS Integers, Sequences, FiniteSetsExt, SequencesExt

CONSTANTS
  Categories,
  Terms,      (* strings that are terms of categories                      *)
  Queries,    (* strings people type, trimmed                              *)
  space,
  Likeness,   (* what two vectors' product may be, in hundredths           *)
  CacheSize,  (* bounds the cached terms                                   *)
  Unit,       (* a multiple of the length of every word and query          *)
  Limit,      (* results shown: 5                                          *)
  null

Letters == UNION {ToSet(s) : s \in Terms \cup Queries}

CategorySearchAssumption ==
  /\ Terms \cup Queries \subseteq Seq(Letters)
  /\ Likeness \subseteq Int
  /\ CacheSize \in Nat /\ Limit \in Nat /\ Unit \in Nat \ {0}
  /\ null \notin Queries /\ null \notin [term : Terms, score : Int]

VARIABLES
  termCache,  (* [term, category], in the order the query returned         *)
  query,      (* the query being answered, null before it is asked         *)
  semantic,   (* how like its vector is to the vector of each term         *)
  next,       (* the cached term whose turn it is                          *)
  best,       (* bestByCategory: [term, score], null if nothing scored yet *)
  answer      (* the categories shown, null before that                    *)

vars == <<termCache, query, semantic, next, best, answer>>

-----------------------------------------------------------------------------
(* The distance of two strings.                                            *)

Row(a, b) == (0..Len(a)) \X (0..Len(b))

levenshtein(a, b) ==
  LET dp[p \in Row(a, b)] ==
        LET i == p[1]
            j == p[2]
        IN IF i = 0 \/ j = 0 THEN i + j
           ELSE IF a[i] = b[j] THEN dp[<<i - 1, j - 1>>]
           ELSE 1 + Min({dp[<<i - 1, j - 1>>], dp[<<i - 1, j>>], dp[<<i, j - 1>>]})
  IN dp[<<Len(a), Len(b)>>]

includes(t, q) ==
  \E i \in 0..(Len(t) - Len(q)) : SubSeq(t, i + 1, i + Len(q)) = q

WordsOf(t) ==
  {SubSeq(t, p[1], p[2]) : p \in
     {p \in (1..Len(t)) \X (1..Len(t)) :
        /\ p[1] <= p[2]
        /\ \A k \in p[1]..p[2] : t[k] # space
        /\ p[1] = 1 \/ t[p[1] - 1] = space
        /\ p[2] = Len(t) \/ t[p[2] + 1] = space}}

similarity(q, w) ==
  LET longer == Max({Len(q), Len(w)})
  IN Unit - (Unit * levenshtein(q, w)) \div longer

(* From 0 to Unit: literal inclusion, or the most similar word.            *)
lexicalSimilarity(q, t) ==
  IF includes(t, q) \/ includes(q, t) THEN Unit
  ELSE Max({0} \cup {similarity(q, w) : w \in WordsOf(t)})

LexicalBoostWeight == 6
MinScore == 85

Score(t) == semantic[t] * Unit + LexicalBoostWeight * lexicalSimilarity(query, t)

-----------------------------------------------------------------------------

TypeOK ==
  /\ termCache \in BoundedSeq([term : Terms, category : Categories], CacheSize)
  /\ query \in Queries \cup {null}
  /\ semantic \in [Terms -> Likeness]
  /\ next \in 1..(CacheSize + 1)
  /\ \A c \in Categories :
       best[c] # null => best[c].term \in Terms /\ best[c].score \in Int
  /\ answer # null => /\ answer \in BoundedSeq(Categories, Limit)
                      /\ IsInjective(answer)

NothingYet == [c \in Categories |-> null]

(* The cache is read when the server starts.                               *)
Init ==
  /\ termCache \in BoundedSeq([term : Terms, category : Categories], CacheSize)
  /\ query = null
  /\ semantic \in [Terms -> Likeness]
  /\ next = 1
  /\ best = NothingYet
  /\ answer = null

(* A query of less than two letters is answered with nothing.              *)
searchBySemantic ==
  /\ query = null
  /\ query' \in Queries
  /\ answer' = IF Len(query') < 2 THEN <<>> ELSE null
  /\ UNCHANGED <<termCache, semantic, next, best>>

(* The last term of a category counts.                                     *)
scoreTerm_last ==
  /\ query # null /\ answer = null
  /\ next <= Len(termCache)
  /\ LET item == termCache[next]
     IN best' = [best EXCEPT ![item.category] =
                   [term |-> item.term, score |-> Score(item.term)]]
  /\ next' = next + 1
  /\ UNCHANGED <<termCache, query, semantic, answer>>

scoreTerm ==
  /\ query # null /\ answer = null
  /\ next <= Len(termCache)
  /\ LET item == termCache[next]
         current == best[item.category]
     IN best' = IF current = null \/ Score(item.term) > current.score
                THEN [best EXCEPT ![item.category] =
                        [term |-> item.term, score |-> Score(item.term)]]
                ELSE best
  /\ next' = next + 1
  /\ UNCHANGED <<termCache, query, semantic, answer>>

(* A Map keeps its keys in the order they came in, and sort is stable.     *)
FirstOf(c) == Min({i \in 1..Len(termCache) : termCache[i].category = c})

Before(c, d) ==
  \/ best[c].score > best[d].score
  \/ best[c].score = best[d].score /\ FirstOf(c) < FirstOf(d)

Sorted(S) ==
  {s \in [1..Cardinality(S) -> S] :
     ToSet(s) = S /\ \A i, j \in DOMAIN s : i < j => Before(s[i], s[j])}

Good == {c \in Categories : best[c] # null /\ best[c].score >= MinScore * Unit}

respond ==
  /\ query # null /\ answer = null
  /\ next > Len(termCache)
  /\ \E found \in Sorted(Good) :
       answer' = SubSeq(found, 1, Min({Limit, Len(found)}))
  /\ UNCHANGED <<termCache, query, semantic, next, best>>

Next == searchBySemantic \/ scoreTerm \/ respond

Spec == Init /\ [][Next]_vars

-----------------------------------------------------------------------------
(* Properties.                                                             *)

Answered == answer # null /\ query # null /\ Len(query) > 1

TermsOf(c) == {item.term : item \in {i \in ToSet(termCache) : i.category = c}}

(* What a category is worth: its best term.                                *)
Worth(c) == Max({Score(t) : t \in TermsOf(c)})

Known == {c \in Categories : TermsOf(c) # {}}

Shown == ToSet(answer)

(* The answer is the top: nothing shown is worth less than what is left    *)
(* out, unless that is too little to show, and the better stands first -   *)
(* with every category counted by the best of all its terms, wherever it   *)
(* came among the cached ones.                                             *)
AnswerIsTheTop ==
  Answered =>
    /\ \A i, j \in 1..Len(answer) : i < j => Worth(answer[i]) >= Worth(answer[j])
    /\ \A c \in Known \ Shown :
         \/ Worth(c) < MinScore * Unit
         \/ /\ Len(answer) = Limit
            /\ \A d \in Shown : Worth(d) >= Worth(c)

(* The comment at LEXICAL_BOOST_WEIGHT: the letters outweigh small         *)
(* differences of the vectors and never large ones.  A category with a     *)
(* term whose vector is nearer than all those of another category by more  *)
(* than the boost is not shown behind it, nor left out in its favour.      *)
LettersDoNotOutweigh ==
  Answered =>
    \A c, d \in Known :
      /\ d \in Shown
      /\ \E t \in TermsOf(c) : \A o \in TermsOf(d) :
           semantic[t] > semantic[o] + LexicalBoostWeight
      =>
        /\ c \in Shown
        /\ \E i, j \in 1..Len(answer) : i < j /\ answer[i] = c /\ answer[j] = d
=============================================================================
