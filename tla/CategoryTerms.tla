---------------------------- MODULE CategoryTerms ----------------------------
(* What the search for categories knows.  The seed writes the categories,  *)
(* enrich-category-descriptions.ts lets GigaChat describe them,            *)
(* precompute-category-embeddings.ts cuts the descriptions into terms and  *)
(* stores a vector for each, and the server reads the terms when it        *)
(* starts.  The scripts are run by hand, may die anywhere, and nothing     *)
(* keeps two of them from running at once.                                 *)
(*                                                                         *)
(* A definition op_variant before op is op with a mistake in it; nothing   *)
(* here uses it.  Putting it in op's place breaks one of the properties.   *)
(***************************************************************************)
EXTENDS Naturals

CONSTANTS
  Categories,  (* leaves of the tree                                       *)
  MaxTexts,    (* bounds the descriptions generated for a category         *)
  Chunks,      (* a description's terms, with the name, fill so many       *)
               (* chunks of CHUNK_SIZE                                     *)
  Runs,        (* slots for scripts that run at the same time              *)
  null

CategoryTermsAssumption ==
  MaxTexts \in Nat /\ Chunks \in Nat \ {0} /\ null \notin Nat /\ null \notin Categories

VARIABLES
  description, (* of each category: a number, 0 if there is none; null if  *)
               (* there is no row                                          *)
  terms,       (* category_terms: the chunks stored for each category; one *)
               (* stored twice is searched like one                        *)
  termCache,   (* the server's                                             *)
  generated,   (* how many descriptions GigaChat has given for each        *)
  runs         (* the script that runs in each slot                        *)

vars == <<description, terms, termCache, generated, runs>>

-----------------------------------------------------------------------------

Texts == 0..MaxTexts

(* A category without a description has its name as only term.             *)
ChunksOf(text) == IF text = 0 THEN 1 ELSE Chunks

Chunk == [of : Texts, no : 1..Chunks]

AllOf(text) == {[of |-> text, no |-> n] : n \in 1..ChunksOf(text)}

Exists(c) == description[c] # null

(* todo: the categories the seed or enrich has still to write; text: the   *)
(* descriptions precompute has read, null of what it is not to do; next:   *)
(* the next chunk of the category it is at, 0 before its deleteMany.       *)
Run == [script : {"none", "seed", "enrich", "precompute"},
        todo : SUBSET Categories, text : [Categories -> Texts \cup {null}],
        at : Categories \cup {null}, next : 0..Chunks]

Nothing == [script |-> "none", todo |-> {}, text |-> [c \in Categories |-> null],
            at |-> null, next |-> 0]

TypeOK ==
  /\ description \in [Categories -> Texts \cup {null}]
  /\ terms \in [Categories -> SUBSET Chunk]
  /\ termCache \in [Categories -> SUBSET Chunk]
  /\ generated \in [Categories -> Texts]
  /\ runs \in [Runs -> Run]

Init ==
  /\ description = [c \in Categories |-> null]
  /\ terms = [c \in Categories |-> {}]
  /\ termCache = [c \in Categories |-> {}]
  /\ generated = [c \in Categories |-> 0]
  /\ runs = [r \in Runs |-> Nothing]

Ended(q) == q.todo = {} /\ \A c \in Categories : q.text[c] = null

(* A script that has nothing (more) to do ends.                            *)
Become(r, q) == runs' = [runs EXCEPT ![r] = IF Ended(q) THEN Nothing ELSE q]

-----------------------------------------------------------------------------
(* prisma/seed.ts.                                                         *)

(* A release brings new categories and keeps the old ones.                 *)
seedMain(r) ==
  /\ runs[r].script = "none"
  /\ \E some \in SUBSET Categories :
       /\ {c \in Categories : Exists(c)} \subseteq some
       /\ Become(r, [Nothing EXCEPT !.script = "seed", !.todo = some])
  /\ UNCHANGED <<description, terms, termCache, generated>>

(* The data has no descriptions: data.description ?? null.                 *)
upsertCategory(r, c) ==
  /\ runs[r].script = "seed" /\ c \in runs[r].todo
  /\ description' = [description EXCEPT ![c] = 0]
  /\ Become(r, [runs[r] EXCEPT !.todo = @ \ {c}])
  /\ UNCHANGED <<terms, termCache, generated>>

-----------------------------------------------------------------------------
(* scripts/enrich-category-descriptions.ts.                                *)

(* findMany: all, or those that have no description.                       *)
enrichRun(r, force) ==
  /\ runs[r].script = "none"
  /\ Become(r, [Nothing EXCEPT !.script = "enrich",
                   !.todo = {c \in Categories : IF force THEN Exists(c)
                                                ELSE description[c] = 0}])
  /\ UNCHANGED <<description, terms, termCache, generated>>

generateText(r, c) ==
  /\ runs[r].script = "enrich" /\ c \in runs[r].todo
  /\ generated[c] < MaxTexts
  /\ generated' = [generated EXCEPT ![c] = @ + 1]
  /\ description' = [description EXCEPT ![c] = generated[c] + 1]
  /\ Become(r, [runs[r] EXCEPT !.todo = @ \ {c}])
  /\ UNCHANGED <<terms, termCache>>

(* GigaChat fails: the error is logged, and the next category's turn.      *)
generateFails(r, c) ==
  /\ runs[r].script = "enrich" /\ c \in runs[r].todo
  /\ Become(r, [runs[r] EXCEPT !.todo = @ \ {c}])
  /\ UNCHANGED <<description, terms, termCache, generated>>

-----------------------------------------------------------------------------
(* scripts/precompute-category-embeddings.ts.                              *)

(* findMany: all, or those that have no term.                              *)
precomputeRun(r, force) ==
  /\ runs[r].script = "none"
  /\ Become(r, [Nothing EXCEPT !.script = "precompute", !.text =
       [c \in Categories |-> IF force \/ terms[c] = {} THEN description[c]
                                                       ELSE null]])
  /\ UNCHANGED <<description, terms, termCache, generated>>

nextCategory(r, c) ==
  /\ runs[r].at = null /\ runs[r].text[c] # null
  /\ Become(r, [runs[r] EXCEPT !.at = c])
  /\ UNCHANGED <<description, terms, termCache, generated>>

deleteMany(r) ==
  /\ runs[r].at # null /\ runs[r].next = 0
  /\ terms' = [terms EXCEPT ![runs[r].at] = {}]
  /\ Become(r, [runs[r] EXCEPT !.next = 1])
  /\ UNCHANGED <<description, termCache, generated>>

(* The next chunk, or the category is done.                                *)
Stored(q) ==
  IF q.next = ChunksOf(q.text[q.at])
    THEN [q EXCEPT !.text[q.at] = null, !.at = null, !.next = 0]
    ELSE [q EXCEPT !.next = @ + 1]

(* The last chunk is only written when it is full.                         *)
createMany_fullOnly(r) ==
  LET q == runs[r] IN
  /\ q.at # null /\ q.next > 0
  /\ terms' = [terms EXCEPT ![q.at] = IF q.next = Chunks THEN @
                 ELSE @ \cup {[of |-> q.text[q.at], no |-> q.next]}]
  /\ Become(r, Stored(q))
  /\ UNCHANGED <<description, termCache, generated>>

(* The vectors of a chunk are computed, and its rows inserted.             *)
createMany(r) ==
  LET q == runs[r] IN
  /\ q.at # null /\ q.next > 0
  /\ terms' = [terms EXCEPT ![q.at] =
                 @ \cup {[of |-> q.text[q.at], no |-> q.next]}]
  /\ Become(r, Stored(q))
  /\ UNCHANGED <<description, termCache, generated>>

-----------------------------------------------------------------------------
(* A script dies (an error ends it, too); the server is started again.     *)

die(r) ==
  /\ runs[r].script # "none"
  /\ runs' = [runs EXCEPT ![r] = Nothing]
  /\ UNCHANGED <<description, terms, termCache, generated>>

reloadTermCache ==
  /\ termCache' = terms
  /\ UNCHANGED <<description, terms, generated, runs>>

-----------------------------------------------------------------------------

SeedStep(r) == seedMain(r) \/ \E c \in Categories : upsertCategory(r, c)

EnrichStep(r) ==
  \/ \E force \in BOOLEAN : enrichRun(r, force)
  \/ \E c \in Categories : generateText(r, c) \/ generateFails(r, c)

PrecomputeStep(r) ==
  \/ \E force \in BOOLEAN : precomputeRun(r, force)
  \/ \E c \in Categories : nextCategory(r, c)
  \/ deleteMany(r)
  \/ createMany(r)

Next ==
  \/ \E r \in Runs : SeedStep(r) \/ EnrichStep(r) \/ PrecomputeStep(r) \/ die(r)
  \/ reloadTermCache

Spec == Init /\ [][Next]_vars

-----------------------------------------------------------------------------
(* Properties.                                                             *)

(* The terms stored for a category, and those the server searches, are cut *)
(* from one description.                                                   *)
OneDescription ==
  \A c \in Categories : /\ \A s, t \in terms[c] : s.of = t.of
                        /\ \A s, t \in termCache[c] : s.of = t.of
=============================================================================
