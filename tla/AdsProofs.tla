------------------------------ MODULE AdsProofs ------------------------------
(* What holds, whatever the constants, of the parts of MCAds: the token of *)
(* GigaChat (TokenCache), the descriptions and terms of categories         *)
(* (CategoryTerms), the paths of ads and categories (AdCategory) and the   *)
(* search among categories (CategorySearch).                               *)
EXTENDS MCAds, AdLifecycleProofs, Integers, SequenceTheorems, WellFoundedInduction, FiniteSetTheorems, TLAPS

-----------------------------------------------------------------------------
(* The inductive invariant: where the times of a token can be.             *)

(* The cached token has come Delay after its issue at the latest.          *)
CacheSound == cachedToken.expiresAt <= cachedToken.issued + Delay + Assumed

(* An exchange is not older than Delay, nor is a token on its way.         *)
ExchangeSound(c) ==
  exchange[c].step # "none" => exchange[c].since <= now /\ now <= exchange[c].since + Delay

(* A call has left while its token had more than Delay to live.            *)
CallSound(c) ==
  call[c].step = "sent" =>
    /\ now <= call[c].since + Delay
    /\ call[c].since + Delay < call[c].issued + TokenLifetime

TokenSound ==
  /\ GigaChat!TypeOK
  /\ GigaChat!OneExchange
  /\ CacheSound
  /\ \A c \in Calls : ExchangeSound(c) /\ CallSound(c)

-----------------------------------------------------------------------------

LEMMA InitToken ==
  ASSUME GigaChat!TokenCacheAssumption, GigaChat!Init
  PROVE  TokenSound
<1> USE DEF GigaChat!Init, GigaChat!TokenCacheAssumption
<1>1. GigaChat!TypeOK
  BY DEF GigaChat!TypeOK, GigaChat!Token, GigaChat!NoToken, GigaChat!Exchange, GigaChat!NoExchange, GigaChat!Call, GigaChat!Idle
<1>2. GigaChat!OneExchange
  BY DEF GigaChat!OneExchange, GigaChat!NoExchange, GigaChat!Idle
<1>3. CacheSound
  BY DEF CacheSound, GigaChat!NoToken
<1>4. ASSUME NEW c \in Calls
      PROVE  ExchangeSound(c) /\ CallSound(c)
  BY DEF ExchangeSound, CallSound, GigaChat!NoExchange, GigaChat!Idle
<1> QED
  BY <1>1, <1>2, <1>3, <1>4 DEF TokenSound

(* A call leaves with a token whose way here has taken Delay at most, or   *)
(* that is cached and not taken for stale.                                 *)
LEMMA SendSound ==
  ASSUME GigaChat!TokenCacheAssumption, TokenSound, NEW issued \in Int, now + Delay < issued + TokenLifetime
  PROVE  /\ GigaChat!Sent(issued) \in GigaChat!Call
         /\ GigaChat!Sent(issued).step = "sent"
         /\ now <= GigaChat!Sent(issued).since + Delay
         /\ GigaChat!Sent(issued).since + Delay < GigaChat!Sent(issued).issued + TokenLifetime
BY DEF TokenSound, GigaChat!TypeOK, GigaChat!Sent, GigaChat!Call, GigaChat!TokenCacheAssumption

LEMMA UseCachedKeeps ==
  ASSUME GigaChat!TokenCacheAssumption, TokenSound, NEW c \in Calls, GigaChat!useCached(c)
  PROVE  TokenSound'
<1> USE DEF GigaChat!useCached
<1>1. cachedToken.issued \in Int /\ cachedToken.expiresAt \in Int /\ now \in Nat
  BY DEF TokenSound, GigaChat!TypeOK, GigaChat!Token
<1>2. now + Delay < cachedToken.issued + TokenLifetime
  BY <1>1 DEF TokenSound, CacheSound, GigaChat!Fresh, GigaChat!TokenCacheAssumption
<1>3. /\ GigaChat!Sent(cachedToken.issued) \in GigaChat!Call
      /\ GigaChat!Sent(cachedToken.issued).step = "sent"
      /\ now <= GigaChat!Sent(cachedToken.issued).since + Delay
      /\ GigaChat!Sent(cachedToken.issued).since + Delay < GigaChat!Sent(cachedToken.issued).issued + TokenLifetime
  BY <1>1, <1>2, SendSound
<1> HIDE DEF GigaChat!Sent
<1>4. GigaChat!TypeOK'
  BY <1>3 DEF TokenSound, GigaChat!TypeOK
<1>5. GigaChat!OneExchange'
  BY <1>3 DEF TokenSound, GigaChat!TypeOK, GigaChat!OneExchange
<1>6. ASSUME NEW d \in Calls
      PROVE  ExchangeSound(d)' /\ CallSound(d)'
  BY <1>3 DEF TokenSound, GigaChat!TypeOK, ExchangeSound, CallSound
<1> QED
  BY <1>4, <1>5, <1>6 DEF TokenSound, CacheSound

LEMMA RequestNewTokenKeeps ==
  ASSUME GigaChat!TokenCacheAssumption, TokenSound, NEW c \in Calls, GigaChat!requestNewToken(c)
  PROVE  TokenSound'
<1> USE DEF GigaChat!requestNewToken
<1> DEFINE w == GigaChat!Waiting(c)
<1>1. w \in GigaChat!Call /\ w.step = "waiting" /\ w.on = c
  BY DEF GigaChat!Call, GigaChat!Waiting
<1>2. call' = [call EXCEPT ![c] = w]
  OBVIOUS
<1> HIDE DEF w
<1>3. GigaChat!TypeOK'
  BY <1>1, <1>2 DEF TokenSound, GigaChat!TypeOK, GigaChat!Exchange
<1>4. GigaChat!OneExchange'
  <2>1. ASSUME NEW d \in Calls
        PROVE  exchange'[d].step # "none" <=> tokenRefreshPromise' = d
    BY DEF TokenSound, GigaChat!TypeOK, GigaChat!OneExchange, GigaChat!TokenCacheAssumption
  <2>2. ASSUME NEW d \in Calls
        PROVE  call'[d].step = "waiting" =>
                 call'[d].on # null /\ call'[d].on = tokenRefreshPromise'
    <3>1. CASE d = c
      BY <1>1, <1>2, <3>1 DEF TokenSound, GigaChat!TypeOK, GigaChat!TokenCacheAssumption
    <3>2. CASE d # c
      <4>1. call[d].step # "waiting"
        BY DEF TokenSound, GigaChat!TypeOK, GigaChat!OneExchange, GigaChat!Call, GigaChat!TokenCacheAssumption
      <4> QED
        BY <1>2, <3>2, <4>1 DEF TokenSound, GigaChat!TypeOK
    <3> QED
      BY <3>1, <3>2
  <2> QED
    BY <2>1, <2>2 DEF GigaChat!OneExchange
<1>5. ASSUME NEW d \in Calls
      PROVE  ExchangeSound(d)' /\ CallSound(d)'
  BY <1>1, <1>2 DEF TokenSound, GigaChat!TypeOK, ExchangeSound, CallSound, GigaChat!TokenCacheAssumption
<1> QED
  BY <1>3, <1>4, <1>5 DEF TokenSound, CacheSound

LEMMA JoinsKeeps ==
  ASSUME GigaChat!TokenCacheAssumption, TokenSound, NEW c \in Calls, GigaChat!joins(c)
  PROVE  TokenSound'
<1> USE DEF GigaChat!joins
<1> DEFINE w == GigaChat!Waiting(tokenRefreshPromise)
<1>1. w \in GigaChat!Call /\ w.step = "waiting" /\ w.on = tokenRefreshPromise
  BY DEF TokenSound, GigaChat!TypeOK, GigaChat!Call, GigaChat!Waiting
<1>2. call' = [call EXCEPT ![c] = w]
  OBVIOUS
<1> HIDE DEF w
<1>3. GigaChat!TypeOK'
  BY <1>1, <1>2 DEF TokenSound, GigaChat!TypeOK
<1>4. GigaChat!OneExchange'
  BY <1>1, <1>2 DEF TokenSound, GigaChat!TypeOK, GigaChat!OneExchange
<1>5. ASSUME NEW d \in Calls
      PROVE  ExchangeSound(d)' /\ CallSound(d)'
  BY <1>1, <1>2 DEF TokenSound, GigaChat!TypeOK, ExchangeSound, CallSound
<1> QED
  BY <1>3, <1>4, <1>5 DEF TokenSound, CacheSound

LEMMA IssuesKeeps ==
  ASSUME GigaChat!TokenCacheAssumption, TokenSound, NEW c \in Calls, GigaChat!issues(c)
  PROVE  TokenSound'
<1> USE DEF GigaChat!issues
<1>1. GigaChat!TypeOK'
  BY DEF TokenSound, GigaChat!TypeOK, GigaChat!Exchange
<1>2. GigaChat!OneExchange'
  BY DEF TokenSound, GigaChat!TypeOK, GigaChat!OneExchange
<1>3. ASSUME NEW d \in Calls
      PROVE  ExchangeSound(d)' /\ CallSound(d)'
  BY DEF TokenSound, GigaChat!TypeOK, ExchangeSound, CallSound, GigaChat!TokenCacheAssumption
<1> QED
  BY <1>1, <1>2, <1>3 DEF TokenSound, CacheSound

(* When an exchange is over, nobody waits any more: all have waited for it,*)
(* as there is no other.                                                   *)
LEMMA ResumeKeeps ==
  ASSUME GigaChat!TokenCacheAssumption, TokenSound, NEW c \in Calls, exchange[c].step # "none",
         NEW new \in GigaChat!Call, new.step # "waiting", GigaChat!Resume(c, new)
  PROVE  /\ call' \in [Calls -> GigaChat!Call]
         /\ \A d \in Calls : call'[d] = new \/ call'[d] = call[d]
         /\ \A d \in Calls : call'[d].step # "waiting"
<1>1. tokenRefreshPromise = c
  BY DEF TokenSound, GigaChat!OneExchange
<1> QED
  BY <1>1 DEF TokenSound, GigaChat!TypeOK, GigaChat!OneExchange, GigaChat!Resume

(* Only the promise's exchange was under way; now none is.                 *)
LEMMA ClearedKeeps ==
  ASSUME GigaChat!TokenCacheAssumption, TokenSound, NEW c \in Calls, exchange[c].step # "none",
         tokenRefreshPromise' = null,
         exchange' = [exchange EXCEPT ![c] = GigaChat!NoExchange]
  PROVE  /\ tokenRefreshPromise' \in Calls \cup {null}
         /\ exchange' \in [Calls -> GigaChat!Exchange]
         /\ \A d \in Calls : exchange'[d].step = "none"
BY DEF TokenSound, GigaChat!TypeOK, GigaChat!OneExchange, GigaChat!NoExchange, GigaChat!Exchange

LEMMA AnsweredKeeps ==
  ASSUME GigaChat!TokenCacheAssumption, TokenSound, NEW c \in Calls, GigaChat!answered(c)
  PROVE  TokenSound'
<1> USE DEF GigaChat!answered
<1> DEFINE issued == exchange[c].since
<1>1. issued \in Int /\ now \in Nat /\ exchange[c].step # "none"
  BY DEF TokenSound, GigaChat!TypeOK, GigaChat!Exchange
<1>2. issued <= now /\ now <= issued + Delay
  BY <1>1 DEF TokenSound, ExchangeSound
<1> HIDE DEF issued
<1>3. now + Delay < issued + TokenLifetime
  BY <1>1, <1>2 DEF GigaChat!TokenCacheAssumption
<1>4. /\ GigaChat!Sent(issued) \in GigaChat!Call
      /\ GigaChat!Sent(issued).step = "sent"
      /\ now <= GigaChat!Sent(issued).since + Delay
      /\ GigaChat!Sent(issued).since + Delay < GigaChat!Sent(issued).issued + TokenLifetime
  BY <1>1, <1>3, SendSound
<1> HIDE DEF GigaChat!Sent
<1>5. GigaChat!Resume(c, GigaChat!Sent(issued))
  BY DEF issued
<1>6. /\ call' \in [Calls -> GigaChat!Call]
      /\ \A d \in Calls : call'[d] = GigaChat!Sent(issued) \/ call'[d] = call[d]
      /\ \A d \in Calls : call'[d].step # "waiting"
  BY <1>1, <1>4, <1>5, ResumeKeeps
<1>7. /\ tokenRefreshPromise' \in Calls \cup {null}
      /\ exchange' \in [Calls -> GigaChat!Exchange]
      /\ \A d \in Calls : exchange'[d].step = "none"
  BY <1>1, ClearedKeeps
<1>8. cachedToken' = [issued |-> issued, expiresAt |-> now + Assumed]
  BY DEF issued
<1>9. GigaChat!TypeOK'
  BY <1>1, <1>6, <1>7, <1>8 DEF TokenSound, GigaChat!TypeOK, GigaChat!Token, GigaChat!TokenCacheAssumption
<1>10. GigaChat!OneExchange'
  BY <1>6, <1>7 DEF GigaChat!OneExchange, GigaChat!TokenCacheAssumption
<1>11. CacheSound'
  BY <1>1, <1>2, <1>8 DEF CacheSound, GigaChat!TokenCacheAssumption
<1>12. ASSUME NEW d \in Calls
       PROVE  ExchangeSound(d)' /\ CallSound(d)'
  BY <1>4, <1>6, <1>7 DEF TokenSound, ExchangeSound, CallSound
<1> QED
  BY <1>9, <1>10, <1>11, <1>12 DEF TokenSound

LEMMA FailsKeeps ==
  ASSUME GigaChat!TokenCacheAssumption, TokenSound, NEW c \in Calls, GigaChat!fails(c)
  PROVE  TokenSound'
<1> USE DEF GigaChat!fails
<1>1. GigaChat!Idle \in GigaChat!Call /\ GigaChat!Idle.step = "idle"
  BY DEF GigaChat!Idle, GigaChat!Call
<1>2. /\ call' \in [Calls -> GigaChat!Call]
      /\ \A d \in Calls : call'[d] = GigaChat!Idle \/ call'[d] = call[d]
      /\ \A d \in Calls : call'[d].step # "waiting"
  BY <1>1, ResumeKeeps
<1>3. /\ tokenRefreshPromise' \in Calls \cup {null}
      /\ exchange' \in [Calls -> GigaChat!Exchange]
      /\ \A d \in Calls : exchange'[d].step = "none"
  BY ClearedKeeps
<1>4. GigaChat!TypeOK'
  BY <1>2, <1>3 DEF TokenSound, GigaChat!TypeOK
<1>5. GigaChat!OneExchange'
  BY <1>2, <1>3 DEF GigaChat!OneExchange, GigaChat!TokenCacheAssumption
<1>6. ASSUME NEW d \in Calls
      PROVE  ExchangeSound(d)' /\ CallSound(d)'
  BY <1>1, <1>2, <1>3 DEF TokenSound, ExchangeSound, CallSound
<1> QED
  BY <1>4, <1>5, <1>6 DEF TokenSound, CacheSound

LEMMA ReachesKeeps ==
  ASSUME GigaChat!TokenCacheAssumption, TokenSound, NEW c \in Calls, GigaChat!reaches(c)
  PROVE  TokenSound'
<1> USE DEF GigaChat!reaches
<1>1. GigaChat!TypeOK'
  BY DEF TokenSound, GigaChat!TypeOK, GigaChat!Idle, GigaChat!Call
<1>2. GigaChat!OneExchange'
  BY DEF TokenSound, GigaChat!TypeOK, GigaChat!OneExchange, GigaChat!Idle
<1>3. ASSUME NEW d \in Calls
      PROVE  ExchangeSound(d)' /\ CallSound(d)'
  BY DEF TokenSound, GigaChat!TypeOK, ExchangeSound, CallSound, GigaChat!Idle
<1> QED
  BY <1>1, <1>2, <1>3 DEF TokenSound, CacheSound

(* Time passes only while nothing has been on its way for Delay.           *)
LEMMA TickKeeps ==
  ASSUME GigaChat!TokenCacheAssumption, TokenSound, GigaChat!Tick
  PROVE  TokenSound'
<1> USE DEF GigaChat!Tick
<1>1. GigaChat!TypeOK'
  BY DEF TokenSound, GigaChat!TypeOK
<1>2. GigaChat!OneExchange'
  BY DEF TokenSound, GigaChat!OneExchange
<1>3. ASSUME NEW d \in Calls
      PROVE  ExchangeSound(d)' /\ CallSound(d)'
  <2>1. /\ now \in Nat /\ now' = now + 1
        /\ exchange[d].since \in Int /\ call[d].since \in Int
    BY DEF TokenSound, GigaChat!TypeOK, GigaChat!Exchange, GigaChat!Call
  <2> QED
    BY <2>1 DEF TokenSound, ExchangeSound, CallSound, GigaChat!TokenCacheAssumption
<1> QED
  BY <1>1, <1>2, <1>3 DEF TokenSound, CacheSound

-----------------------------------------------------------------------------
LEMMA TokenStep ==
  ASSUME GigaChat!TokenCacheAssumption, TokenSound, [GigaChat!Next]_(GigaChat!vars)
  PROVE  TokenSound'
<1>1. CASE \E c \in Calls :
             \/ GigaChat!useCached(c) \/ GigaChat!requestNewToken(c) \/ GigaChat!joins(c)
             \/ GigaChat!issues(c) \/ GigaChat!answered(c) \/ GigaChat!fails(c) \/ GigaChat!reaches(c)
  BY <1>1, UseCachedKeeps, RequestNewTokenKeeps, JoinsKeeps, IssuesKeeps,
     AnsweredKeeps, FailsKeeps, ReachesKeeps
<1>2. CASE GigaChat!Tick
  BY <1>2, TickKeeps
<1>3. CASE UNCHANGED GigaChat!vars
  BY <1>3
  DEF GigaChat!vars, TokenSound, GigaChat!TypeOK, GigaChat!OneExchange, CacheSound,
      ExchangeSound, CallSound
<1> QED
  BY <1>1, <1>2, <1>3 DEF GigaChat!Next

(* The strengthening TokenSound holds in every reachable state, however    *)
(* often the parts beside it step.                                         *)
THEOREM TokenInvariant ==
  ASSUME GigaChat!TokenCacheAssumption
  PROVE  GigaChat!Spec => []TokenSound
<1>1. GigaChat!Init => TokenSound
  BY InitToken
<1>2. TokenSound /\ [GigaChat!Next]_(GigaChat!vars) => TokenSound'
  BY TokenStep
<1> QED
  BY <1>1, <1>2, PTL DEF GigaChat!Spec

(* The state of the cache is well typed for any calls and times.           *)
THEOREM TokenTypes ==
  ASSUME GigaChat!TokenCacheAssumption
  PROVE  GigaChat!Spec => []GigaChat!TypeOK
BY TokenInvariant, PTL DEF TokenSound

LEMMA TokenAlive ==
  ASSUME GigaChat!TokenCacheAssumption, TokenSound
  PROVE  GigaChat!NeverTooLate
<1> SUFFICES ASSUME NEW c \in Calls, call[c].step = "sent"
             PROVE  now < call[c].issued + TokenLifetime
  BY DEF GigaChat!NeverTooLate
<1>1. now \in Nat /\ call[c].since \in Int /\ call[c].issued \in Int
  BY DEF TokenSound, GigaChat!TypeOK, GigaChat!Call
<1> QED
  BY <1>1 DEF TokenSound, CallSound, GigaChat!TokenCacheAssumption

(* For any number of calls, and any times of which a token's life exceeds  *)
(* the assumed one by two ways of the network, no call arrives too late    *)
(* (ASSUMED_TOKEN_LIFETIME_MS).                                            *)
THEOREM TokensArriveAlive ==
  ASSUME GigaChat!TokenCacheAssumption
  PROVE  GigaChat!Spec => []GigaChat!NeverTooLate
BY TokenAlive, TokenInvariant, PTL

(* However many calls find the token stale, one exchange is under way, and *)
(* it is the one they wait for (tokenRefreshPromise).                      *)
THEOREM ExchangesAreShared ==
  ASSUME GigaChat!TokenCacheAssumption
  PROVE  GigaChat!Spec => []GigaChat!OneExchange
BY TokenInvariant, PTL DEF TokenSound

-----------------------------------------------------------------------------
OneText(some) == \A s, t \in some : s.of = t.of

(* The first n chunks of a text.                                           *)
Upto(text, n) == {[of |-> text, no |-> k] : k \in 1..n}

(* A script as it may be found in a slot: precompute is at a category it   *)
(* has to do.                                                              *)
Tidy(q) ==
  /\ q.script = "none" => q = Embeddings!Nothing
  /\ q.script # "precompute" => q.at = null /\ \A c \in Leaves : q.text[c] = null
  /\ q.script = "precompute" => q.todo = {}
  /\ q.at = null => q.next = 0
  /\ q.at # null => /\ q.text[q.at] # null
                    /\ q.next <= Embeddings!ChunksOf(q.text[q.at])

(* Nobody else is at its category, ...                                     *)
Undisturbed == ~met \/ phase = "computing"

(* ... where it has stored the chunks before the next.                     *)
Stocked(r) ==
  Undisturbed /\ runs[r].at # null /\ runs[r].next > 0 =>
    terms[runs[r].at] = Upto(runs[r].text[runs[r].at], runs[r].next - 1)

(* What the phase of a run with --force says of a category.                *)
PhaseSound(c) ==
  /\ phase = "computing" =>
       \A r \in Embeddings!Working :
         IF runs[r].text[c] # null THEN runs[r].text[c] = description[c]
         ELSE Embeddings!Exists(c) => terms[c] = Embeddings!AllOf(description[c])
  /\ phase \in {"computed", "served"} /\ Embeddings!Exists(c) =>
       terms[c] = Embeddings!AllOf(description[c])
  /\ phase = "served" /\ Embeddings!Exists(c) => termCache[c] = Embeddings!AllOf(description[c])

(* Who is at work in a phase.                                              *)
Alone ==
  /\ phase = "computing" =>
       /\ Embeddings!Working # {}
       /\ \A r, s \in Embeddings!Working : r = s
       /\ \A r \in Embeddings!Working : runs[r].script = "precompute"
  /\ phase \in {"computed", "served"} => Embeddings!Working = {}

InOrder ==
  /\ Embeddings!TypeOK
  /\ \A r \in Runs : Tidy(runs[r]) /\ Stocked(r)
  /\ ~met => \A c \in Leaves : OneText(terms[c]) /\ OneText(termCache[c])

TermsSound ==
  /\ InOrder
  /\ met \in BOOLEAN /\ (~met => ~Embeddings!Meet)
  /\ phase \in {"none", "computing", "computed", "served"}
  /\ Alone
  /\ \A c \in Leaves : PhaseSound(c)

-----------------------------------------------------------------------------

LEMMA NothingFact ==
  ASSUME Embeddings!CategoryTermsAssumption
  PROVE  /\ Embeddings!Nothing \in Embeddings!Run /\ Tidy(Embeddings!Nothing)
         /\ Embeddings!Nothing.script = "none" /\ Embeddings!Nothing.at = null
         /\ Embeddings!Nothing.next = 0 /\ Embeddings!Nothing.todo = {}
         /\ \A c \in Leaves : Embeddings!Nothing.text[c] = null
BY DEF Embeddings!Nothing, Embeddings!Run, Embeddings!CategoryTermsAssumption, Tidy

LEMMA InitTerms ==
  ASSUME Embeddings!CategoryTermsAssumption, Embeddings!MCInit
  PROVE  TermsSound
<1> USE DEF Embeddings!MCInit, Embeddings!Init, Embeddings!CategoryTermsAssumption
<1>1. \A r \in Runs : runs[r] = Embeddings!Nothing
  OBVIOUS
<1>2. Embeddings!TypeOK
  BY NothingFact DEF Embeddings!TypeOK, Embeddings!Texts
<1>3. \A r \in Runs : Tidy(runs[r]) /\ Stocked(r)
  BY <1>1, NothingFact DEF Stocked
<1>4. ~Embeddings!Meet
  BY <1>1, NothingFact DEF Embeddings!Meet
<1> QED
  BY <1>2, <1>3, <1>4 DEF TermsSound, InOrder, OneText, PhaseSound, Alone

(* The number of a chunk to be stored, and what is stored then.            *)
LEMMA ChunkFact ==
  ASSUME Embeddings!CategoryTermsAssumption, NEW text \in Embeddings!Texts, NEW n \in Nat, n > 0, n <= Embeddings!ChunksOf(text)
  PROVE  /\ [of |-> text, no |-> n] \in Embeddings!Chunk
         /\ Upto(text, n - 1) \cup {[of |-> text, no |-> n]} = Upto(text, n)
<1>1. Embeddings!ChunksOf(text) \in Nat /\ Embeddings!ChunksOf(text) <= Chunks /\ Chunks \in Nat
  BY DEF Embeddings!ChunksOf, Embeddings!CategoryTermsAssumption
<1>2. 1..n = 1..(n - 1) \cup {n}
  OBVIOUS
<1>3. Upto(text, n - 1) \cup {[of |-> text, no |-> n]} = Upto(text, n)
  BY <1>2 DEF Upto
<1> QED
  BY <1>1, <1>3 DEF Embeddings!Chunk

(* What a slot holds.                                                      *)
LEMMA RunFact ==
  ASSUME Embeddings!CategoryTermsAssumption, TermsSound, NEW r \in Runs
  PROVE  LET q == runs[r] IN
         /\ null \notin Nat /\ null \notin Leaves /\ Chunks \in Nat \ {0}
         /\ q \in Embeddings!Run /\ Tidy(q)
         /\ q.todo \in SUBSET Leaves
         /\ q.text \in [Leaves -> Embeddings!Texts \cup {null}]
         /\ q.at \in Leaves \cup {null}
         /\ q.next \in Nat /\ q.next <= Chunks
BY DEF TermsSound, InOrder, Embeddings!TypeOK, Embeddings!Run, Embeddings!CategoryTermsAssumption

LEMMA TextFact ==
  ASSUME Embeddings!CategoryTermsAssumption, TermsSound, NEW r \in Runs, runs[r].at # null
  PROVE  LET q == runs[r] IN
         /\ q.script = "precompute" /\ q.at \in Leaves
         /\ q.text[q.at] \in Embeddings!Texts /\ q.text[q.at] # null
         /\ q.next <= Embeddings!ChunksOf(q.text[q.at])
BY RunFact DEF Tidy

(* A slot gets another state, and ends if nothing is left to do.           *)
LEMMA BecomeRun ==
  ASSUME Embeddings!CategoryTermsAssumption, TermsSound, NEW r \in Runs,
         NEW q \in Embeddings!Run, Tidy(q), Embeddings!Become(r, q)
  PROVE  /\ runs' \in [Runs -> Embeddings!Run]
         /\ runs'[r] = IF Embeddings!Ended(q) THEN Embeddings!Nothing ELSE q
         /\ Tidy(runs'[r])
         /\ \A s \in Runs : s # r => runs'[s] = runs[s]
<1> DEFINE left == IF Embeddings!Ended(q) THEN Embeddings!Nothing ELSE q
<1>1. runs \in [Runs -> Embeddings!Run] /\ runs' = [runs EXCEPT ![r] = left]
  BY DEF TermsSound, InOrder, Embeddings!TypeOK, Embeddings!Become
<1>2. left \in Embeddings!Run /\ Tidy(left)
  BY NothingFact
<1> HIDE DEF left
<1>3. runs' \in [Runs -> Embeddings!Run] /\ runs'[r] = left /\ \A s \in Runs : s # r => runs'[s] = runs[s]
  BY <1>1, <1>2
<1> QED
  BY <1>2, <1>3 DEF left

(* When a run has nothing to do, nothing happens.                          *)
LEMMA EndedAtOnce ==
  ASSUME Embeddings!CategoryTermsAssumption, TermsSound, NEW r \in Runs,
         runs[r].script = "none", runs'[r].script = "none", Tidy(runs'[r]),
         runs' \in [Runs -> Embeddings!Run], \A s \in Runs : s # r => runs'[s] = runs[s]
  PROVE  runs' = runs
<1>1. runs'[r] = Embeddings!Nothing /\ runs[r] = Embeddings!Nothing
  BY RunFact DEF Tidy
<1>2. \A s \in Runs : runs'[s] = runs[s]
  BY <1>1
<1>3. runs \in [Runs -> Embeddings!Run]
  BY DEF TermsSound, InOrder, Embeddings!TypeOK
<1> QED
  BY <1>2, <1>3

-----------------------------------------------------------------------------
(* What a step does to the run that takes it.                              *)

Begins(r, q) ==
  /\ runs[r].script = "none" /\ q.script # "none" /\ q.at = null
  /\ Embeddings!Become(r, q)
  /\ UNCHANGED <<description, terms, termCache>>

GoesOn(r, q) ==
  /\ runs[r].script \in {"seed", "enrich"} /\ q.at = null
  /\ Embeddings!Become(r, q)
  /\ UNCHANGED <<terms, termCache>>

(* A run of the seed or of enrich with what it is to write.                *)
Writing(name, some) ==
  [script |-> name, todo |-> some, text |-> [c \in Leaves |-> null], at |-> null, next |-> 0]

LEMMA NothingBecomes ==
  ASSUME NEW name, NEW some, NEW text
  PROVE  /\ [Embeddings!Nothing EXCEPT !.script = name, !.todo = some] = Writing(name, some)
         /\ [Embeddings!Nothing EXCEPT !.script = name, !.text = text] =
              [script |-> name, todo |-> {}, text |-> text, at |-> null, next |-> 0]
<1> DEFINE none == [c \in Leaves |-> null]
           p == [Embeddings!Nothing EXCEPT !.script = name, !.todo = some]
           q == [Embeddings!Nothing EXCEPT !.script = name, !.text = text]
<1>1. /\ Embeddings!Nothing = [script |-> "none", todo |-> {}, text |-> none, at |-> null, next |-> 0]
      /\ Writing(name, some) = [script |-> name, todo |-> some, text |-> none, at |-> null, next |-> 0]
  BY DEF Embeddings!Nothing, Writing
<1>2. /\ p = [Embeddings!Nothing EXCEPT !.script = name, !.todo = some]
      /\ q = [Embeddings!Nothing EXCEPT !.script = name, !.text = text]
  OBVIOUS
<1> HIDE DEF none, p, q
<1>3. p = [script |-> name, todo |-> some, text |-> none, at |-> null, next |-> 0]
  BY <1>1, <1>2
<1>4. q = [script |-> name, todo |-> {}, text |-> text, at |-> null, next |-> 0]
  BY <1>1, <1>2
<1> QED
  BY <1>1, <1>3, <1>4 DEF p, q

LEMMA WritingFact ==
  ASSUME Embeddings!CategoryTermsAssumption, NEW name \in {"seed", "enrich"}, NEW some \in SUBSET Leaves
  PROVE  LET q == Writing(name, some)
         IN  q \in Embeddings!Run /\ Tidy(q) /\ q.script = name /\ q.at = null
<1> DEFINE text == [c \in Leaves |-> null]
<1>1. text \in [Leaves -> Embeddings!Texts \cup {null}] /\ \A c \in Leaves : text[c] = null
  OBVIOUS
<1> HIDE DEF text
<1> QED
  BY <1>1 DEF Writing, Embeddings!Run, Embeddings!CategoryTermsAssumption, Tidy, text

LEMMA SeedRun ==
  ASSUME Embeddings!CategoryTermsAssumption, TermsSound, NEW r \in Runs, Embeddings!SeedStep(r)
  PROVE  \E q \in Embeddings!Run :
           Tidy(q) /\ (Begins(r, q) \/ GoesOn(r, q))
<1>1. CASE Embeddings!seedMain(r)
  <2>1. PICK some \in SUBSET Leaves :
          Embeddings!Become(r, [Embeddings!Nothing EXCEPT !.script = "seed", !.todo = some])
    BY <1>1 DEF Embeddings!seedMain
  <2> DEFINE q == [Embeddings!Nothing EXCEPT !.script = "seed", !.todo = some]
  <2>2. q \in Embeddings!Run /\ Tidy(q) /\ q.script = "seed" /\ q.at = null
    <3>1. q = Writing("seed", some)
      BY NothingBecomes
    <3> QED
      BY <2>1, <3>1, WritingFact
  <2>3. Begins(r, q)
    BY <1>1, <2>1, <2>2 DEF Embeddings!seedMain, Begins
  <2> HIDE DEF q
  <2> QED
    BY <2>2, <2>3
<1>2. ASSUME NEW c \in Leaves, Embeddings!upsertCategory(r, c)
      PROVE  \E q \in Embeddings!Run : Tidy(q) /\ GoesOn(r, q)
  <2> DEFINE q == [runs[r] EXCEPT !.todo = @ \ {c}]
  <2>1. runs[r] \in Embeddings!Run /\ Tidy(runs[r]) /\ runs[r].script = "seed"
    BY <1>2, RunFact DEF Embeddings!upsertCategory
  <2>2. q \in Embeddings!Run /\ Tidy(q) /\ q.at = null
    BY <2>1 DEF Embeddings!Run, Tidy
  <2>3. GoesOn(r, q)
    BY <1>2, <2>1, <2>2 DEF Embeddings!upsertCategory, GoesOn
  <2> HIDE DEF q
  <2> QED
    BY <2>2, <2>3
<1> QED
  BY <1>1, <1>2 DEF Embeddings!SeedStep

LEMMA EnrichRun ==
  ASSUME Embeddings!CategoryTermsAssumption, TermsSound, NEW r \in Runs, Embeddings!EnrichStep(r)
  PROVE  \E q \in Embeddings!Run :
           Tidy(q) /\ (Begins(r, q) \/ GoesOn(r, q))
<1>1. ASSUME NEW force \in BOOLEAN, Embeddings!enrichRun(r, force)
      PROVE  \E q \in Embeddings!Run : Tidy(q) /\ Begins(r, q)
  <2> DEFINE some == {c \in Leaves : IF force THEN Embeddings!Exists(c) ELSE description[c] = 0}
             q == [Embeddings!Nothing EXCEPT !.script = "enrich", !.todo = some]
  <2>1. some \in SUBSET Leaves /\ Embeddings!Become(r, q) /\ runs[r].script = "none"
        /\ UNCHANGED <<description, terms, termCache>>
    BY <1>1 DEF Embeddings!enrichRun
  <2> HIDE DEF some
  <2>2. q \in Embeddings!Run /\ Tidy(q) /\ q.script = "enrich" /\ q.at = null
    <3>1. q = Writing("enrich", some)
      BY NothingBecomes
    <3> QED
      BY <2>1, <3>1, WritingFact
  <2> HIDE DEF q
  <2>3. Begins(r, q)
    BY <2>1, <2>2 DEF Begins
  <2> QED
    BY <2>2, <2>3
<1>2. ASSUME NEW c \in Leaves, Embeddings!generateText(r, c) \/ Embeddings!generateFails(r, c)
      PROVE  \E q \in Embeddings!Run : Tidy(q) /\ GoesOn(r, q)
  <2> DEFINE q == [runs[r] EXCEPT !.todo = @ \ {c}]
  <2>1. runs[r] \in Embeddings!Run /\ Tidy(runs[r]) /\ runs[r].script = "enrich"
    BY <1>2, RunFact DEF Embeddings!generateText, Embeddings!generateFails
  <2>2. q \in Embeddings!Run /\ Tidy(q) /\ q.at = null
    BY <2>1 DEF Embeddings!Run, Tidy
  <2>3. GoesOn(r, q)
    BY <1>2, <2>1, <2>2 DEF Embeddings!generateText, Embeddings!generateFails, GoesOn
  <2> HIDE DEF q
  <2> QED
    BY <2>2, <2>3
<1> QED
  BY <1>1, <1>2 DEF Embeddings!EnrichStep

(* A run of precompute with what it has read.                              *)
Reading(text) ==
  [script |-> "precompute", todo |-> {}, text |-> text, at |-> null, next |-> 0]

LEMMA PrecomputeBegins ==
  ASSUME Embeddings!CategoryTermsAssumption, TermsSound, NEW r \in Runs, NEW force \in BOOLEAN,
         Embeddings!precomputeRun(r, force)
  PROVE  \E text \in [Leaves -> Embeddings!Texts \cup {null}] :
           /\ Reading(text) \in Embeddings!Run /\ Tidy(Reading(text)) /\ Begins(r, Reading(text))
           /\ force => \A c \in Leaves : text[c] = description[c]
<1> DEFINE text == [c \in Leaves |-> IF force \/ terms[c] = {} THEN description[c] ELSE null]
<1>1. text \in [Leaves -> Embeddings!Texts \cup {null}]
  BY DEF TermsSound, InOrder, Embeddings!TypeOK
<1>2. force => \A c \in Leaves : text[c] = description[c]
  OBVIOUS
<1>3. /\ Embeddings!Become(r, [Embeddings!Nothing EXCEPT !.script = "precompute", !.text = text])
      /\ runs[r].script = "none" /\ UNCHANGED <<description, terms, termCache>>
  BY DEF Embeddings!precomputeRun
<1> HIDE DEF text
<1>6. [Embeddings!Nothing EXCEPT !.script = "precompute", !.text = text] = Reading(text)
  BY NothingBecomes DEF Reading
<1>4. Reading(text) \in Embeddings!Run /\ Tidy(Reading(text))
  BY <1>1 DEF Embeddings!CategoryTermsAssumption, Embeddings!Run, Reading, Tidy
<1>5. Begins(r, Reading(text))
  BY <1>3, <1>6 DEF Begins, Reading
<1> QED
  BY <1>1, <1>2, <1>4, <1>5

LEMMA NextRun ==
  ASSUME Embeddings!CategoryTermsAssumption, TermsSound, NEW r \in Runs, NEW c \in Leaves,
         Embeddings!nextCategory(r, c)
  PROVE  \E q \in Embeddings!Run :
           /\ Tidy(q) /\ q.next = 0 /\ q.text = runs[r].text /\ q.script = runs[r].script
           /\ runs[r].script = "precompute" /\ Embeddings!Become(r, q)
           /\ ~Embeddings!Ended(q)
<1> DEFINE q == [runs[r] EXCEPT !.at = c]
<1>1. /\ runs[r] \in Embeddings!Run /\ Tidy(runs[r]) /\ runs[r].next = 0
      /\ runs[r].text[c] # null /\ runs[r].text[c] \in Embeddings!Texts
      /\ runs[r].script = "precompute" /\ null \notin Leaves
  BY RunFact DEF Embeddings!nextCategory, Tidy
<1>2. Embeddings!ChunksOf(runs[r].text[c]) >= 0
  BY RunFact DEF Embeddings!ChunksOf
<1>3. q \in Embeddings!Run /\ q.text = runs[r].text /\ q.next = 0 /\ q.at = c
      /\ q.script = "precompute" /\ q.todo = runs[r].todo
  BY <1>1 DEF Embeddings!Run
<1>4. Embeddings!Become(r, q)
  BY DEF Embeddings!nextCategory
<1> HIDE DEF q
<1>5. Tidy(q) /\ ~Embeddings!Ended(q)
  BY <1>1, <1>2, <1>3 DEF Tidy, Embeddings!Ended
<1> QED
  BY <1>1, <1>3, <1>4, <1>5

LEMMA DeleteRun ==
  ASSUME Embeddings!CategoryTermsAssumption, TermsSound, NEW r \in Runs, Embeddings!deleteMany(r)
  PROVE  \E q \in Embeddings!Run :
           /\ Tidy(q) /\ q.next = 1 /\ q.at = runs[r].at /\ q.text = runs[r].text
           /\ q.script = runs[r].script /\ Embeddings!Become(r, q) /\ ~Embeddings!Ended(q)
<1> DEFINE q == [runs[r] EXCEPT !.next = 1]
<1>1. /\ runs[r] \in Embeddings!Run /\ Tidy(runs[r]) /\ runs[r].at \in Leaves
      /\ runs[r].at # null /\ runs[r].script = "precompute" /\ Chunks \in Nat \ {0}
      /\ runs[r].text[runs[r].at] # null
      /\ runs[r].text[runs[r].at] \in Embeddings!Texts
  BY RunFact, TextFact DEF Embeddings!deleteMany
<1>2. Embeddings!ChunksOf(runs[r].text[runs[r].at]) >= 1
  BY <1>1 DEF Embeddings!ChunksOf
<1>3. q \in Embeddings!Run /\ q.text = runs[r].text /\ q.next = 1 /\ q.at = runs[r].at
      /\ q.script = "precompute" /\ q.todo = runs[r].todo
  BY <1>1 DEF Embeddings!Run
<1>4. Embeddings!Become(r, q)
  BY DEF Embeddings!deleteMany
<1> HIDE DEF q
<1>5. Tidy(q) /\ ~Embeddings!Ended(q)
  BY <1>1, <1>2, <1>3 DEF Tidy, Embeddings!Ended
<1> QED
  BY <1>1, <1>3, <1>4, <1>5

LEMMA CreateRun ==
  ASSUME Embeddings!CategoryTermsAssumption, TermsSound, NEW r \in Runs, Embeddings!createMany(r)
  PROVE  LET p == runs[r]
             text == p.text[p.at]
         IN  \E q \in Embeddings!Run :
               /\ Tidy(q) /\ Embeddings!Become(r, q) /\ q.script = "precompute"
               /\ IF p.next = Embeddings!ChunksOf(text)
                    THEN q.at = null /\ q.text = [p.text EXCEPT ![p.at] = null]
                    ELSE /\ q.at = p.at /\ q.text = p.text /\ q.next = p.next + 1
                         /\ ~Embeddings!Ended(q)
<1> DEFINE p == runs[r]
           text == p.text[p.at]
           q == Embeddings!Stored(p)
<1>1. /\ p \in Embeddings!Run /\ Tidy(p) /\ p.at \in Leaves /\ p.at # null
      /\ p.script = "precompute" /\ Chunks \in Nat \ {0} /\ p.next \in Nat
      /\ text # null /\ text \in Embeddings!Texts /\ p.next <= Embeddings!ChunksOf(text)
  BY RunFact, TextFact DEF Embeddings!createMany
<1>2. Embeddings!ChunksOf(text) \in Nat /\ Embeddings!ChunksOf(text) <= Chunks
  BY <1>1 DEF Embeddings!ChunksOf
<1>3. Embeddings!Become(r, q)
  BY DEF Embeddings!createMany
<1> HIDE DEF p
<1>4. CASE p.next = Embeddings!ChunksOf(text)
  <2> DEFINE rest == [p.text EXCEPT ![p.at] = null]
  <2>3. q = [p EXCEPT !.text = rest, !.at = null, !.next = 0]
    BY <1>1, <1>4 DEF Embeddings!Stored, Embeddings!Run
  <2>4. rest \in [Leaves -> Embeddings!Texts \cup {null}]
    BY <1>1 DEF Embeddings!Run
  <2>1. /\ q \in Embeddings!Run /\ q.at = null /\ q.text = [p.text EXCEPT ![p.at] = null]
        /\ q.next = 0 /\ q.script = "precompute" /\ q.todo = p.todo
    <3> HIDE DEF rest, q
    <3>1. q \in Embeddings!Run /\ q.at = null /\ q.text = rest
          /\ q.next = 0 /\ q.script = "precompute" /\ q.todo = p.todo
      <4>1. q = [script |-> p.script, todo |-> p.todo, text |-> rest, at |-> null, next |-> 0]
        BY <1>1, <2>3 DEF Embeddings!Run
      <4>2. p.todo \in SUBSET Leaves /\ 0 \in 0..Chunks
        BY <1>1 DEF Embeddings!Run
      <4> QED
        BY <1>1, <2>4, <4>1, <4>2 DEF Embeddings!Run
    <3> QED
      BY <3>1 DEF rest
  <2> HIDE DEF q
  <2>2. Tidy(q)
    BY <1>1, <2>1 DEF Tidy
  <2> QED
    BY <1>3, <1>4, <2>1, <2>2 DEF p
<1>5. CASE p.next # Embeddings!ChunksOf(text)
  <2>1. /\ q \in Embeddings!Run /\ q.at = p.at /\ q.text = p.text
        /\ q.next = p.next + 1 /\ q.script = "precompute" /\ q.todo = p.todo
    BY <1>1, <1>2, <1>5 DEF Embeddings!Stored, Embeddings!Run
  <2> HIDE DEF q
  <2>2. Tidy(q) /\ ~Embeddings!Ended(q)
    BY <1>1, <1>2, <1>5, <2>1 DEF Tidy, Embeddings!Ended
  <2> QED
    BY <1>3, <1>5, <2>1, <2>2 DEF p
<1> QED
  BY <1>4, <1>5

-----------------------------------------------------------------------------
(* Scripts, chunks and texts after a step.                                 *)

(* Where Stocked speaks of a run after a step, it did so before, and no    *)
(* other run was at its category.                                          *)
LEMMA Before ==
  ASSUME Embeddings!CategoryTermsAssumption, TermsSound, Embeddings!MCNext,
         NEW s \in Runs, runs[s].at # null, Undisturbed'
  PROVE  Undisturbed /\ \A t \in Runs : t # s => runs[t].at # runs[s].at
<1>1. s \in Embeddings!Working /\ \A t \in Runs : runs[t].at # null => t \in Embeddings!Working
  BY RunFact, TextFact DEF Embeddings!Working
<1>2. CASE ~met'
  BY <1>2 DEF Embeddings!MCNext, TermsSound, Embeddings!Meet, Undisturbed
<1>3. CASE phase' = "computing"
  <2>1. phase = "computing"
    BY <1>1, <1>3 DEF Embeddings!MCNext, Embeddings!Phase
  <2> QED
    BY <1>1, <2>1 DEF TermsSound, Alone, Undisturbed
<1> QED
  BY <1>2, <1>3 DEF Undisturbed

(* A step of one run leaves the others as they were.                       *)
LEMMA OthersStocked ==
  ASSUME Embeddings!CategoryTermsAssumption, TermsSound, Embeddings!MCNext,
         NEW r \in Runs, NEW s \in Runs, s # r, runs'[s] = runs[s],
         \A c \in Leaves : c # runs[r].at => terms'[c] = terms[c]
  PROVE  Stocked(s)'
<1> SUFFICES ASSUME Undisturbed', runs[s].at # null, runs[s].next > 0
             PROVE  terms'[runs[s].at] = Upto(runs[s].text[runs[s].at], runs[s].next - 1)
  BY DEF Stocked
<1>1. Undisturbed /\ runs[r].at # runs[s].at
  BY Before
<1>2. Stocked(s) /\ runs[s].at \in Leaves
  BY TextFact DEF TermsSound, InOrder
<1> QED
  BY <1>1, <1>2 DEF Stocked

LEMMA StepTypes ==
  ASSUME Embeddings!CategoryTermsAssumption, TermsSound, Embeddings!Next
  PROVE  /\ description' \in [Leaves -> Embeddings!Texts \cup {null}]
         /\ generated' \in [Leaves -> Embeddings!Texts]
<1> USE DEF TermsSound, InOrder, Embeddings!TypeOK
<1>1. ASSUME NEW r \in Runs, Embeddings!SeedStep(r)
      PROVE  /\ description' \in [Leaves -> Embeddings!Texts \cup {null}]
             /\ generated' \in [Leaves -> Embeddings!Texts]
  <2>1. 0 \in Embeddings!Texts
    BY DEF Embeddings!Texts, Embeddings!CategoryTermsAssumption
  <2>2. /\ generated' = generated
        /\ \/ description' = description
           \/ \E c \in Leaves : description' = [description EXCEPT ![c] = 0]
    BY <1>1 DEF Embeddings!SeedStep, Embeddings!seedMain, Embeddings!upsertCategory
  <2> QED
    BY <2>1, <2>2
<1>2. ASSUME NEW r \in Runs, Embeddings!EnrichStep(r)
      PROVE  /\ description' \in [Leaves -> Embeddings!Texts \cup {null}]
             /\ generated' \in [Leaves -> Embeddings!Texts]
  <2>1. ASSUME NEW c \in Leaves, Embeddings!generateText(r, c)
        PROVE  /\ description' \in [Leaves -> Embeddings!Texts \cup {null}]
               /\ generated' \in [Leaves -> Embeddings!Texts]
    <3>1. generated[c] + 1 \in Embeddings!Texts
      BY <2>1 DEF Embeddings!generateText, Embeddings!Texts, Embeddings!CategoryTermsAssumption
    <3> QED
      BY <2>1, <3>1 DEF Embeddings!generateText
  <2>2. CASE UNCHANGED <<description, generated>>
    BY <2>2
  <2> QED
    BY <1>2, <2>1, <2>2 DEF Embeddings!EnrichStep, Embeddings!enrichRun, Embeddings!generateFails
<1>3. ASSUME NEW r \in Runs, Embeddings!PrecomputeStep(r) \/ Embeddings!die(r)
      PROVE  description' = description /\ generated' = generated
  BY <1>3 DEF Embeddings!PrecomputeStep, Embeddings!precomputeRun, Embeddings!nextCategory, Embeddings!deleteMany, Embeddings!createMany, Embeddings!die
<1> QED
  BY <1>1, <1>2, <1>3 DEF Embeddings!Next, Embeddings!reloadTermCache

(* What is left after a step of one run that stores no term.               *)
LEMMA QuietStep ==
  ASSUME Embeddings!CategoryTermsAssumption, TermsSound, Embeddings!MCNext,
         NEW r \in Runs, UNCHANGED <<terms, termCache>>,
         runs' \in [Runs -> Embeddings!Run], Tidy(runs'[r]),
         runs'[r].at = null \/ runs'[r].next = 0,
         \A s \in Runs : s # r => runs'[s] = runs[s]
  PROVE  InOrder'
<1>1. \A s \in Runs : Tidy(runs'[s])
  BY DEF TermsSound, InOrder
<1>2. Stocked(r)'
  BY DEF Stocked
<1>3. \A s \in Runs : s # r => Stocked(s)'
  BY OthersStocked
<1>4. Embeddings!TypeOK'
  BY StepTypes DEF TermsSound, InOrder, Embeddings!TypeOK, Embeddings!MCNext
<1>5. ~met' => \A c \in Leaves : OneText(terms[c]) /\ OneText(termCache[c])
  BY DEF TermsSound, InOrder, Embeddings!MCNext
<1> QED
  BY <1>1, <1>2, <1>3, <1>4, <1>5 DEF InOrder, Tidy, OneText

(* ... and after one that stores some.                                     *)
LEMMA StoringStep ==
  ASSUME Embeddings!CategoryTermsAssumption, TermsSound, Embeddings!MCNext,
         NEW r \in Runs, runs[r].at # null, termCache' = termCache,
         NEW some \in SUBSET Embeddings!Chunk, terms' = [terms EXCEPT ![runs[r].at] = some],
         runs' \in [Runs -> Embeddings!Run], Tidy(runs'[r]),
         runs'[r].at # null /\ Undisturbed =>
           /\ runs'[r].at = runs[r].at
           /\ some = Upto(runs'[r].text[runs'[r].at], runs'[r].next - 1),
         Undisturbed => OneText(some),
         \A s \in Runs : s # r => runs'[s] = runs[s]
  PROVE  InOrder'
<1>0. runs[r].at \in Leaves /\ terms \in [Leaves -> SUBSET Embeddings!Chunk]
  BY TextFact DEF TermsSound, InOrder, Embeddings!TypeOK
<1>1. \A s \in Runs : Tidy(runs'[s])
  BY DEF TermsSound, InOrder
<1>2. Stocked(r)'
  <2>1. Undisturbed' => Undisturbed
    BY Before
  <2>2. terms'[runs[r].at] = some
    BY <1>0
  <2> QED
    BY <2>1, <2>2 DEF Stocked
<1>3. \A s \in Runs : s # r => Stocked(s)'
  BY <1>0, OthersStocked
<1>4. Embeddings!TypeOK'
  BY <1>0, StepTypes DEF TermsSound, InOrder, Embeddings!TypeOK, Embeddings!MCNext
<1>5. ~met' => \A c \in Leaves : OneText(terms'[c]) /\ OneText(termCache[c])
  BY <1>0 DEF TermsSound, InOrder, Embeddings!MCNext, Undisturbed
<1> QED
  BY <1>1, <1>2, <1>3, <1>4, <1>5 DEF InOrder, Tidy, OneText

(* The chunks of a category after one more has been stored.                *)
LEMMA StoredFact ==
  ASSUME Embeddings!CategoryTermsAssumption, TermsSound, NEW r \in Runs, Embeddings!createMany(r)
  PROVE  LET at == runs[r].at
             text == runs[r].text[at]
             number == runs[r].next
         IN  \E some \in SUBSET Embeddings!Chunk :
               /\ terms' = [terms EXCEPT ![at] = some]
               /\ Undisturbed => some = Upto(text, number) /\ OneText(some)
<1> DEFINE at == runs[r].at
           text == runs[r].text[at]
           number == runs[r].next
           some == terms[at] \cup {[of |-> text, no |-> number]}
<1>1. /\ at \in Leaves /\ at # null /\ text \in Embeddings!Texts
      /\ number \in Nat /\ number > 0 /\ number <= Embeddings!ChunksOf(text)
  BY RunFact, TextFact DEF Embeddings!createMany
<1>2. terms' = [terms EXCEPT ![at] = some]
  BY DEF Embeddings!createMany, TermsSound, InOrder, Embeddings!TypeOK
<1>3. some \in SUBSET Embeddings!Chunk
  BY <1>1, ChunkFact DEF TermsSound, InOrder, Embeddings!TypeOK
<1>4. Undisturbed => terms[at] = Upto(text, number - 1)
  BY <1>1 DEF TermsSound, InOrder, Stocked
<1>5. Undisturbed => some = Upto(text, number)
  BY <1>1, <1>4, ChunkFact
<1>6. OneText(Upto(text, number))
  BY DEF OneText, Upto
<1> HIDE DEF some
<1> QED
  BY <1>2, <1>3, <1>5, <1>6

LEMMA StepInOrder ==
  ASSUME Embeddings!CategoryTermsAssumption, TermsSound, Embeddings!MCNext
  PROVE  InOrder'
<1>1. ASSUME NEW r \in Runs, NEW q \in Embeddings!Run, Tidy(q), q.at = null \/ q.next = 0,
             Embeddings!Become(r, q), UNCHANGED <<terms, termCache>>
      PROVE  InOrder'
  BY <1>1, BecomeRun, NothingFact, QuietStep
<1>2. ASSUME NEW r \in Runs, Embeddings!SeedStep(r) \/ Embeddings!EnrichStep(r)
      PROVE  InOrder'
  BY <1>1, <1>2, SeedRun, EnrichRun DEF Begins, GoesOn
<1>3. ASSUME NEW r \in Runs, NEW force \in BOOLEAN, Embeddings!precomputeRun(r, force)
      PROVE  InOrder'
  <2>1. PICK text : /\ Reading(text) \in Embeddings!Run /\ Tidy(Reading(text))
                    /\ Begins(r, Reading(text))
    BY <1>3, PrecomputeBegins
  <2> QED
    BY <1>1, <2>1 DEF Begins
<1>4. ASSUME NEW r \in Runs, NEW c \in Leaves, Embeddings!nextCategory(r, c)
      PROVE  InOrder'
  BY <1>1, <1>4, NextRun DEF Embeddings!nextCategory
<1>5. ASSUME NEW r \in Runs, Embeddings!deleteMany(r)
      PROVE  InOrder'
  <2>1. PICK q \in Embeddings!Run :
          /\ Tidy(q) /\ q.next = 1 /\ q.at = runs[r].at /\ q.text = runs[r].text
          /\ q.script = runs[r].script /\ Embeddings!Become(r, q) /\ ~Embeddings!Ended(q)
    BY <1>5, DeleteRun
  <2>2. /\ runs' \in [Runs -> Embeddings!Run] /\ runs'[r] = q
        /\ \A s \in Runs : s # r => runs'[s] = runs[s]
    BY <2>1, BecomeRun
  <2>3. /\ runs[r].at # null /\ termCache' = termCache
        /\ terms' = [terms EXCEPT ![runs[r].at] = {}]
    BY <1>5 DEF Embeddings!deleteMany
  <2>4. Upto(q.text[q.at], q.next - 1) = {}
    BY <2>1 DEF Upto
  <2> QED
    BY <2>1, <2>2, <2>3, <2>4, StoringStep DEF OneText
<1>6. ASSUME NEW r \in Runs, Embeddings!createMany(r)
      PROVE  InOrder'
  <2> DEFINE p == runs[r]
             text == p.text[p.at]
  <2>1. PICK q \in Embeddings!Run :
          /\ Tidy(q) /\ Embeddings!Become(r, q) /\ q.script = "precompute"
          /\ IF p.next = Embeddings!ChunksOf(text)
               THEN q.at = null /\ q.text = [p.text EXCEPT ![p.at] = null]
               ELSE /\ q.at = p.at /\ q.text = p.text /\ q.next = p.next + 1
                    /\ ~Embeddings!Ended(q)
    BY <1>6, CreateRun
  <2>2. PICK some \in SUBSET Embeddings!Chunk :
          /\ terms' = [terms EXCEPT ![p.at] = some]
          /\ Undisturbed => some = Upto(text, p.next) /\ OneText(some)
    BY <1>6, StoredFact
  <2>3. /\ runs' \in [Runs -> Embeddings!Run] /\ Tidy(runs'[r])
        /\ runs'[r] = IF Embeddings!Ended(q) THEN Embeddings!Nothing ELSE q
        /\ \A s \in Runs : s # r => runs'[s] = runs[s]
    BY <2>1, BecomeRun
  <2>4. p.at # null /\ termCache' = termCache /\ p.next \in Nat
    BY <1>6, RunFact DEF Embeddings!createMany
  <2>5. runs'[r].at # null =>
          /\ runs'[r].at = p.at /\ runs'[r].text = p.text /\ runs'[r].next = p.next + 1
    BY <2>1, <2>3, NothingFact
  <2>6. p.next + 1 - 1 = p.next
    BY <2>4
  <2>7. runs'[r].at # null /\ Undisturbed =>
          /\ runs'[r].at = p.at
          /\ some = Upto(runs'[r].text[runs'[r].at], runs'[r].next - 1)
    <3> SUFFICES ASSUME runs'[r].at # null, Undisturbed
                 PROVE  /\ runs'[r].at = p.at
                        /\ some = Upto(runs'[r].text[runs'[r].at], runs'[r].next - 1)
      OBVIOUS
    <3>1. runs'[r].at = p.at /\ runs'[r].text[runs'[r].at] = text /\ runs'[r].next - 1 = p.next
      <4>1. /\ runs'[r].at = p.at /\ runs'[r].text = p.text
            /\ runs'[r].next = p.next + 1
        BY <2>5
      <4> QED
        BY <2>4, <4>1
    <3>2. some = Upto(text, p.next)
      BY <2>2
    <3> QED
      BY <3>1, <3>2
  <2> QED
    BY <2>2, <2>3, <2>4, <2>7, StoringStep
<1>7. ASSUME NEW r \in Runs, Embeddings!die(r)
      PROVE  InOrder'
  <2>1. runs' = [runs EXCEPT ![r] = Embeddings!Nothing] /\ UNCHANGED <<terms, termCache>>
    BY <1>7 DEF Embeddings!die
  <2>2. /\ runs' \in [Runs -> Embeddings!Run] /\ runs'[r] = Embeddings!Nothing
        /\ \A s \in Runs : s # r => runs'[s] = runs[s]
    BY <2>1, NothingFact DEF TermsSound, InOrder, Embeddings!TypeOK
  <2> QED
    BY <2>1, <2>2, NothingFact, QuietStep
<1>8. ASSUME Embeddings!reloadTermCache
      PROVE  InOrder'
  <2>1. termCache' = terms /\ UNCHANGED <<terms, runs>>
    BY <1>8 DEF Embeddings!reloadTermCache
  <2>2. Embeddings!TypeOK'
    BY <2>1, StepTypes DEF TermsSound, InOrder, Embeddings!TypeOK, Embeddings!MCNext
  <2>3. \A s \in Runs : Stocked(s)'
    BY <2>1, Before DEF Stocked, TermsSound, InOrder
  <2>4. ~met' => \A c \in Leaves : OneText(terms[c])
    BY DEF TermsSound, InOrder, Embeddings!MCNext
  <2> QED
    BY <2>1, <2>2, <2>3, <2>4 DEF TermsSound, InOrder, Tidy, OneText
<1> QED
  BY <1>2, <1>3, <1>4, <1>5, <1>6, <1>7, <1>8
  DEF Embeddings!MCNext, Embeddings!Next, Embeddings!PrecomputeStep

-----------------------------------------------------------------------------
(* What each step does to the phase.                                       *)

PhaseGood == Alone /\ \A c \in Leaves : PhaseSound(c)

(* A run with --force begins, and is the only one at work.                 *)
LEMMA ForceBegins ==
  ASSUME Embeddings!CategoryTermsAssumption, TermsSound, NEW r \in Runs,
         Embeddings!Working = {}, Embeddings!precomputeRun(r, TRUE),
         phase' = IF Embeddings!Working' = {} THEN "computed" ELSE "computing"
  PROVE  PhaseGood'
<1>1. PICK text \in [Leaves -> Embeddings!Texts \cup {null}] :
        /\ Reading(text) \in Embeddings!Run /\ Tidy(Reading(text)) /\ Begins(r, Reading(text))
        /\ \A c \in Leaves : text[c] = description[c]
  BY PrecomputeBegins
<1>2. /\ runs'[r] = IF Embeddings!Ended(Reading(text)) THEN Embeddings!Nothing ELSE Reading(text)
      /\ \A s \in Runs : s # r => runs'[s] = runs[s] /\ runs[s].script = "none"
      /\ UNCHANGED <<description, terms, termCache>>
  BY <1>1, BecomeRun DEF Begins, Embeddings!Working
<1>3. CASE Embeddings!Ended(Reading(text))
  <2>1. Embeddings!Working' = {} /\ \A c \in Leaves : description[c] = null
    BY <1>1, <1>2, <1>3, NothingFact DEF Embeddings!Working, Embeddings!Ended, Reading
  <2> QED
    BY <1>2, <2>1 DEF PhaseGood, Alone, PhaseSound, Embeddings!Exists
<1>4. CASE ~Embeddings!Ended(Reading(text))
  <2>1. runs'[r] = Reading(text)
    BY <1>2, <1>4
  <2>2. Embeddings!Working' = {r}
    BY <1>2, <2>1 DEF Embeddings!Working, Reading
  <2> QED
    BY <1>1, <1>2, <2>1, <2>2 DEF PhaseGood, Alone, PhaseSound, Embeddings!Exists, Reading
<1> QED
  BY <1>3, <1>4

(* It goes on.                                                             *)
LEMMA ForceRuns ==
  ASSUME Embeddings!CategoryTermsAssumption, TermsSound, NEW r \in Runs, phase = "computing",
         runs[r].script = "precompute",
         NEW q \in Embeddings!Run, Tidy(q), q.script = "precompute", Embeddings!Become(r, q),
         UNCHANGED <<description, termCache>>,
         \A c \in Leaves :
           IF q.text[c] # null THEN q.text[c] = description[c]
           ELSE Embeddings!Exists(c) => terms'[c] = Embeddings!AllOf(description[c]),
         phase' = IF Embeddings!Working' = {} THEN "computed" ELSE "computing"
  PROVE  PhaseGood'
<1>1. Embeddings!Working = {r}
  BY DEF TermsSound, Alone, Embeddings!Working
<1>2. /\ runs'[r] = IF Embeddings!Ended(q) THEN Embeddings!Nothing ELSE q
      /\ \A s \in Runs : s # r => runs'[s] = runs[s] /\ runs[s].script = "none"
  BY <1>1, BecomeRun DEF Embeddings!Working
<1>3. CASE Embeddings!Ended(q)
  <2>1. Embeddings!Working' = {} /\ \A c \in Leaves : q.text[c] = null
    BY <1>2, <1>3, NothingFact DEF Embeddings!Working, Embeddings!Ended
  <2> QED
    BY <2>1 DEF PhaseGood, Alone, PhaseSound, Embeddings!Exists
<1>4. CASE ~Embeddings!Ended(q)
  <2>1. runs'[r] = q
    BY <1>2, <1>4
  <2>2. Embeddings!Working' = {r}
    BY <1>2, <2>1 DEF Embeddings!Working
  <2> QED
    BY <2>1, <2>2 DEF PhaseGood, Alone, PhaseSound, Embeddings!Exists
<1> QED
  BY <1>3, <1>4

(* What it knows of the categories before a step.                          *)
LEMMA ForceFact ==
  ASSUME TermsSound, NEW r \in Runs, phase = "computing", runs[r].script = "precompute",
         NEW c \in Leaves
  PROVE  IF runs[r].text[c] # null THEN runs[r].text[c] = description[c]
         ELSE Embeddings!Exists(c) => terms[c] = Embeddings!AllOf(description[c])
BY DEF TermsSound, PhaseSound, Embeddings!Working

LEMMA ForceGoesOn ==
  ASSUME Embeddings!CategoryTermsAssumption, TermsSound, NEW r \in Runs, phase = "computing",
         \/ \E d \in Leaves : Embeddings!nextCategory(r, d)
         \/ Embeddings!deleteMany(r) \/ Embeddings!createMany(r),
         phase' = IF Embeddings!Working' = {} THEN "computed" ELSE "computing"
  PROVE  PhaseGood'
<1>0. terms \in [Leaves -> SUBSET Embeddings!Chunk]
  BY DEF TermsSound, InOrder, Embeddings!TypeOK
<1>1. ASSUME NEW d \in Leaves, Embeddings!nextCategory(r, d)
      PROVE  PhaseGood'
  <2>1. PICK q \in Embeddings!Run :
          /\ Tidy(q) /\ q.next = 0 /\ q.text = runs[r].text /\ q.script = runs[r].script
          /\ runs[r].script = "precompute" /\ Embeddings!Become(r, q) /\ ~Embeddings!Ended(q)
    BY <1>1, NextRun
  <2>2. UNCHANGED <<description, terms, termCache>>
    BY <1>1 DEF Embeddings!nextCategory
  <2> QED
    BY <2>1, <2>2, ForceFact, ForceRuns
<1>2. CASE Embeddings!deleteMany(r)
  <2>1. PICK q \in Embeddings!Run :
          /\ Tidy(q) /\ q.next = 1 /\ q.at = runs[r].at /\ q.text = runs[r].text
          /\ q.script = runs[r].script /\ Embeddings!Become(r, q) /\ ~Embeddings!Ended(q)
    BY <1>2, DeleteRun
  <2>2. /\ runs[r].script = "precompute" /\ runs[r].text[runs[r].at] # null
        /\ terms' = [terms EXCEPT ![runs[r].at] = {}]
        /\ UNCHANGED <<description, termCache>>
    BY <1>2, TextFact DEF Embeddings!deleteMany
  <2>3. ASSUME NEW c \in Leaves
        PROVE  IF q.text[c] # null THEN q.text[c] = description[c]
               ELSE Embeddings!Exists(c) => terms'[c] = Embeddings!AllOf(description[c])
    BY <1>0, <2>1, <2>2, ForceFact
  <2> QED
    BY <2>1, <2>2, <2>3, ForceRuns
<1>3. CASE Embeddings!createMany(r)
  <2> DEFINE p == runs[r]
             text == p.text[p.at]
  <2>1. PICK q \in Embeddings!Run :
          /\ Tidy(q) /\ Embeddings!Become(r, q) /\ q.script = "precompute"
          /\ IF p.next = Embeddings!ChunksOf(text)
               THEN q.at = null /\ q.text = [p.text EXCEPT ![p.at] = null]
               ELSE /\ q.at = p.at /\ q.text = p.text /\ q.next = p.next + 1
                    /\ ~Embeddings!Ended(q)
    BY <1>3, CreateRun
  <2>2. PICK some \in SUBSET Embeddings!Chunk :
          /\ terms' = [terms EXCEPT ![p.at] = some]
          /\ Undisturbed => some = Upto(text, p.next) /\ OneText(some)
    BY <1>3, StoredFact
  <2>3. /\ p.script = "precompute" /\ p.at \in Leaves /\ text # null
        /\ UNCHANGED <<description, termCache>> /\ Undisturbed
    BY <1>3, TextFact DEF Embeddings!createMany, Undisturbed
  <2>4. p.text \in [Leaves -> Embeddings!Texts \cup {null}]
    BY RunFact
  <2>5. Upto(text, Embeddings!ChunksOf(text)) = Embeddings!AllOf(text)
    BY DEF Upto, Embeddings!AllOf
  <2>6. text = description[p.at]
    BY <2>3, ForceFact
  <2>7. ASSUME NEW c \in Leaves
        PROVE  IF q.text[c] # null THEN q.text[c] = description[c]
               ELSE Embeddings!Exists(c) => terms'[c] = Embeddings!AllOf(description[c])
    <3>1. IF p.text[c] # null THEN p.text[c] = description[c]
          ELSE Embeddings!Exists(c) => terms[c] = Embeddings!AllOf(description[c])
      BY <2>3, ForceFact
    <3>2. CASE c = p.at
      BY <1>0, <2>1, <2>2, <2>3, <2>4, <2>5, <2>6, <3>2
    <3>3. CASE c # p.at
      <4>1. terms'[c] = terms[c] /\ q.text[c] = p.text[c]
        BY <1>0, <2>1, <2>2, <2>4, <3>3
      <4> QED
        BY <3>1, <4>1
    <3> QED
      BY <3>2, <3>3
  <2> QED
    BY <2>1, <2>3, <2>7, ForceRuns
<1> QED
  BY <1>1, <1>2, <1>3

(* Without another script at work only the run with --force takes a step,  *)
(* and the server.                                                         *)
LEMMA StepsOfPhase ==
  ASSUME Embeddings!CategoryTermsAssumption, TermsSound, Embeddings!MCNext, phase # "none",
         ~(Embeddings!Working' \ Embeddings!Working # {} \/ \E r \in Runs : Embeddings!die(r))
  PROVE  \/ UNCHANGED <<description, terms, termCache, runs>>
         \/ /\ phase = "computing"
            /\ \E r \in Runs : \/ \E d \in Leaves : Embeddings!nextCategory(r, d)
                               \/ Embeddings!deleteMany(r) \/ Embeddings!createMany(r)
         \/ Embeddings!reloadTermCache
<1>1. ASSUME NEW r \in Runs, NEW q \in Embeddings!Run, Tidy(q), Begins(r, q)
      PROVE  UNCHANGED <<description, terms, termCache, runs>>
  <2>1. /\ runs' \in [Runs -> Embeddings!Run] /\ Tidy(runs'[r])
        /\ \A s \in Runs : s # r => runs'[s] = runs[s]
    BY <1>1, BecomeRun DEF Begins
  <2>2. runs[r].script = "none" /\ runs'[r].script = "none"
    BY <1>1 DEF Begins, Embeddings!Working
  <2> QED
    BY <1>1, <2>1, <2>2, EndedAtOnce DEF Begins
<1>2. ASSUME NEW r \in Runs
      PROVE  /\ runs[r].script \notin {"seed", "enrich"}
             /\ runs[r].script = "precompute" => phase = "computing"
  BY DEF TermsSound, Alone, Embeddings!Working
<1>3. ASSUME NEW r \in Runs, Embeddings!SeedStep(r) \/ Embeddings!EnrichStep(r)
      PROVE  UNCHANGED <<description, terms, termCache, runs>>
  BY <1>1, <1>2, <1>3, SeedRun, EnrichRun DEF GoesOn
<1>4. ASSUME NEW r \in Runs, NEW force \in BOOLEAN, Embeddings!precomputeRun(r, force)
      PROVE  UNCHANGED <<description, terms, termCache, runs>>
  <2>1. PICK text : /\ Reading(text) \in Embeddings!Run /\ Tidy(Reading(text))
                    /\ Begins(r, Reading(text))
    BY <1>4, PrecomputeBegins
  <2> QED
    BY <1>1, <2>1
<1>5. ASSUME NEW r \in Runs, NEW d \in Leaves, Embeddings!nextCategory(r, d)
      PROVE  phase = "computing"
  BY <1>2, <1>5, NextRun
<1>6. ASSUME NEW r \in Runs, Embeddings!deleteMany(r) \/ Embeddings!createMany(r)
      PROVE  phase = "computing"
  BY <1>2, <1>6, TextFact DEF Embeddings!deleteMany, Embeddings!createMany
<1> QED
  BY <1>3, <1>4, <1>5, <1>6
  DEF Embeddings!MCNext, Embeddings!Next, Embeddings!PrecomputeStep

LEMMA StepPhase ==
  ASSUME Embeddings!CategoryTermsAssumption, TermsSound, Embeddings!MCNext
  PROVE  PhaseGood'
<1>0. phase' = Embeddings!Phase
  BY DEF Embeddings!MCNext
<1>1. CASE Embeddings!Working = {} /\ \E r \in Runs : Embeddings!precomputeRun(r, TRUE)
  BY <1>0, <1>1, ForceBegins DEF Embeddings!Phase
<1>2. CASE phase' = "none"
  BY <1>2 DEF PhaseGood, Alone, PhaseSound
<1>3. CASE /\ ~(Embeddings!Working = {} /\ \E r \in Runs : Embeddings!precomputeRun(r, TRUE))
           /\ phase' # "none"
  <2>1. /\ ~(Embeddings!Working' \ Embeddings!Working # {} \/ \E r \in Runs : Embeddings!die(r))
        /\ phase' = IF phase = "computing" /\ Embeddings!Working' = {} THEN "computed"
                    ELSE IF phase = "computed" /\ Embeddings!reloadTermCache THEN "served"
                    ELSE phase
        /\ phase # "none"
    BY <1>0, <1>3 DEF Embeddings!Phase
  <2>2. CASE UNCHANGED <<description, terms, termCache, runs>>
    <3>1. Embeddings!Working' = Embeddings!Working
      BY <2>2 DEF Embeddings!Working
    <3>2. phase' = phase \/ (phase = "computed" /\ phase' = "served" /\ termCache' = terms)
      BY <2>1, <3>1 DEF TermsSound, Alone, Embeddings!reloadTermCache
    <3>3. Alone'
      BY <2>2, <3>1, <3>2 DEF TermsSound, Alone
    <3>4. ASSUME NEW c \in Leaves
          PROVE  PhaseSound(c)'
      BY <2>2, <3>1, <3>2 DEF TermsSound, PhaseSound, Embeddings!Exists
    <3> QED
      BY <3>3, <3>4 DEF PhaseGood
  <2>3. CASE phase = "computing" /\ \E r \in Runs :
               \/ \E d \in Leaves : Embeddings!nextCategory(r, d)
               \/ Embeddings!deleteMany(r) \/ Embeddings!createMany(r)
    BY <2>1, <2>3, ForceGoesOn
  <2>4. CASE Embeddings!reloadTermCache
    <3>1. termCache' = terms /\ UNCHANGED <<description, terms, runs>>
      BY <2>4 DEF Embeddings!reloadTermCache
    <3>2. Embeddings!Working' = Embeddings!Working
      BY <3>1 DEF Embeddings!Working
    <3>3. phase' = phase \/ (phase = "computed" /\ phase' = "served")
      BY <2>1, <3>2 DEF TermsSound, Alone
    <3>4. Alone'
      BY <3>1, <3>2, <3>3 DEF TermsSound, Alone
    <3>5. ASSUME NEW c \in Leaves
          PROVE  PhaseSound(c)'
      BY <3>1, <3>2, <3>3 DEF TermsSound, PhaseSound, Embeddings!Exists
    <3> QED
      BY <3>4, <3>5 DEF PhaseGood
  <2> QED
    BY <2>1, <2>2, <2>3, <2>4, StepsOfPhase
<1> QED
  BY <1>1, <1>2, <1>3

LEMMA StepTerms ==
  ASSUME Embeddings!CategoryTermsAssumption, TermsSound, Embeddings!MCNext
  PROVE  TermsSound'
<1>1. phase' \in {"none", "computing", "computed", "served"}
  BY DEF Embeddings!MCNext, Embeddings!Phase, TermsSound
<1>2. met' \in BOOLEAN /\ (~met' => ~Embeddings!Meet')
  BY DEF Embeddings!MCNext, TermsSound, Embeddings!Meet
<1> QED
  BY <1>1, <1>2, StepInOrder, StepPhase DEF TermsSound, PhaseGood

LEMMA TermsRepaired ==
  ASSUME TermsSound
  PROVE  Embeddings!ForceRepairs /\ Embeddings!TermsOfOneText
<1>1. Embeddings!ForceRepairs
  BY DEF TermsSound, PhaseSound, Embeddings!ForceRepairs
<1>2. Embeddings!TermsOfOneText
  BY DEF TermsSound, InOrder, Embeddings!TermsOfOneText, Embeddings!OneDescription, OneText
<1> QED
  BY <1>1, <1>2

-----------------------------------------------------------------------------
(* Types, with paths of any length.                                        *)

AnyAd == [cat : Categories, path : Seq(Slugs), seo : Seq(Slugs)]

AnyRequest ==
  [step : {"idle", "walk", "check", "create", "insert", "save"},
   next : {"check", "insert", "save"}, ad : Ads \cup {null},
   cat : Categories \cup {null}, at : Categories \cup {null}, path : Seq(Slugs)]

AnyScript ==
  [name : {"none", "ad-paths", "category-path"}, found : [Ads -> Categories \cup {null}],
   has : SUBSET {"ads", "categories"}, paths : [Categories -> Seq(Slugs)], todo : SUBSET Ads]

Shaped ==
  /\ cats \in [Categories -> [slug : Slugs, path : Seq(Slugs)]]
  /\ ads \in [Ads -> AnyAd \cup {null}]
  /\ edits \in [Editors -> AnyRequest]
  /\ scripts \in [Scripts -> AnyScript]
  /\ calm \in BOOLEAN /\ halved \in BOOLEAN /\ alone \in BOOLEAN

(* A walk is at a row, and goes up from a category; what is to be written  *)
(* has an ad.                                                              *)
Bound(q) ==
  /\ q.step # "idle" => q.ad # null
  /\ q.step \in {"walk", "check", "create", "insert"} => q.cat # null
  /\ q.step = "walk" => q.at # null

(* A script knows the categories of the ads it is to write.                *)
KnowsAds(q) ==
  /\ \A x \in q.todo : q.found[x] # null
  /\ q.name = "none" => q.has = {}

InTree(ad) == ad.path = Paths!PathOf[ad.cat] /\ ad.seo = ad.path

(* What a script that nothing disturbs knows.                              *)
Undiverted(q) ==
  /\ q.name = "ad-paths" /\ "categories" \in q.has =>
       \A c \in Categories : q.paths[c] = Paths!PathOf[c]
  /\ "ads" \in q.has =>
       \A x \in Ads : ads[x] # null =>
         /\ q.found[x] = ads[x].cat
         /\ q.name = "ad-paths" => x \in q.todo \/ InTree(ads[x])

AloneSound ==
  alone =>
    /\ \A c \in Categories : cats[c].path = Paths!PathOf[c]
    /\ \A k, l \in Scripts : scripts[k].name # "none" /\ scripts[l].name # "none" => k = l
    /\ \A k \in Scripts : Undiverted(scripts[k])

(* What a request knows when it is the only one.                           *)
WalkInformed(q) ==
  /\ q.step = "walk" => Paths!PathOf[q.cat] = Paths!PathOf[q.at] \o q.path
  /\ q.step \in {"check", "create", "insert"} => q.path = Paths!PathOf[q.cat]
  /\ q.step = "save" =>
       IF q.cat # null THEN q.path = Paths!PathOf[q.cat]
       ELSE ads[q.ad] # null => q.path = Paths!PathOf[ads[q.ad].cat]

(* ... and a script, while requests and scripts come one by one.           *)
ScriptInformed(q) ==
  /\ "categories" \in q.has => \A c \in Categories : q.paths[c] = Paths!PathOf[c]
  /\ "ads" \in q.has => \A x \in Ads : ads[x] # null => q.found[x] = ads[x].cat

InCalm ==
  /\ \A c \in Categories : cats[c].path = Paths!PathOf[c]
  /\ \A x \in Ads : ads[x] # null => InTree(ads[x])
  /\ \A r, s \in Editors : edits[r].step # "idle" /\ edits[s].step # "idle" => r = s
  /\ \A r \in Editors :
       /\ WalkInformed(edits[r])
       /\ edits[r].step # "idle" => \A k \in Scripts : scripts[k].name = "none"
  /\ \A k \in Scripts : ScriptInformed(scripts[k])

CalmSound == calm => InCalm

PathsSound ==
  /\ Shaped
  /\ \A r \in Editors : Bound(edits[r])
  /\ \A k \in Scripts : KnowsAds(scripts[k])
  /\ Paths!SeoFollowsPath
  /\ AloneSound
  /\ CalmSound

-----------------------------------------------------------------------------
(* The recursion of PathOf has a solution, since the tree has three levels, *)
(* and only one.                                                           *)

Chain(slug, g) ==
  g = [c \in Categories |-> (IF Parent[c] = null THEN <<>> ELSE g[Parent[c]]) \o <<slug[c]>>]

Explicit(slug) ==
  [c \in Categories |->
     IF Parent[c] = null THEN <<slug[c]>>
     ELSE IF Parent[Parent[c]] = null THEN <<slug[Parent[c]], slug[c]>>
     ELSE <<slug[Parent[Parent[c]]], slug[Parent[c]], slug[c]>>]

LEMMA Joined ==
  ASSUME NEW x \in Slugs, NEW y \in Slugs, NEW z \in Slugs
  PROVE  /\ <<>> \o <<x>> = <<x>>
         /\ <<x>> \o <<y>> = <<x, y>>
         /\ <<x, y>> \o <<z>> = <<x, y, z>>
<1>1. /\ <<x>> \in Seq(Slugs) /\ <<y>> \in Seq(Slugs) /\ <<z>> \in Seq(Slugs)
      /\ <<x, y>> \in Seq(Slugs) /\ <<x, y, z>> \in Seq(Slugs)
  OBVIOUS
<1>2. <<>> \o <<x>> = <<x>>
  BY <1>1, ConcatEmptySeq
<1>3. <<x>> \o <<y>> = <<x, y>>
  <2> DEFINE s == <<x>> \o <<y>>
  <2>1. s \in Seq(Slugs) /\ Len(s) = 2 /\ s[1] = x /\ s[2] = y
    BY <1>1, ConcatProperties
  <2> HIDE DEF s
  <2>2. \A i \in 1..2 : s[i] = <<x, y>>[i]
    BY <2>1
  <2> QED
    BY <1>1, <2>1, <2>2, SeqEqual DEF s
<1>4. <<x, y>> \o <<z>> = <<x, y, z>>
  <2> DEFINE s == <<x, y>> \o <<z>>
  <2>1. s \in Seq(Slugs) /\ Len(s) = 3 /\ s[1] = x /\ s[2] = y /\ s[3] = z
    BY <1>1, ConcatProperties
  <2> HIDE DEF s
  <2>2. \A i \in 1..3 : s[i] = <<x, y, z>>[i]
    BY <2>1
  <2> QED
    BY <1>1, <2>1, <2>2, SeqEqual DEF s
<1> QED
  BY <1>2, <1>3, <1>4

LEMMA ChainFact ==
  ASSUME Paths!AdCategoryAssumption, NEW slug \in [Categories -> Slugs], NEW g
  PROVE  Chain(slug, g) <=> g = Explicit(slug)
<1> USE DEF Paths!AdCategoryAssumption
<1> DEFINE F(h) == [c \in Categories |->
             (IF Parent[c] = null THEN <<>> ELSE h[Parent[c]]) \o <<slug[c]>>]
           e == Explicit(slug)
<1>1. \A c \in Categories : Parent[c] = null => e[c] = <<slug[c]>> /\ F(e)[c] = <<slug[c]>>
  BY DEF Explicit
<1>2. ASSUME NEW c \in Categories, Parent[c] # null, Parent[Parent[c]] = null
      PROVE  e[c] = F(e)[c]
  <2>1. Parent[c] \in Categories
    BY <1>2
  <2>2. e[Parent[c]] = <<slug[Parent[c]]>>
    BY <1>1, <1>2, <2>1
  <2>3. F(e)[c] = <<slug[Parent[c]]>> \o <<slug[c]>>
    BY <1>2, <2>2
  <2> QED
    BY <1>2, <2>1, <2>3, Joined DEF Explicit
<1>3. ASSUME NEW c \in Categories, Parent[c] # null, Parent[Parent[c]] # null
      PROVE  e[c] = F(e)[c]
  <2>1. /\ Parent[c] \in Categories /\ Parent[Parent[c]] \in Categories
        /\ Parent[Parent[Parent[c]]] = null
    BY <1>3
  <2>2. e[Parent[c]] = <<slug[Parent[Parent[c]]], slug[Parent[c]]>>
    BY <1>3, <2>1 DEF Explicit
  <2>3. F(e)[c] = <<slug[Parent[Parent[c]]], slug[Parent[c]]>> \o <<slug[c]>>
    BY <1>3, <2>2
  <2> QED
    BY <1>3, <2>1, <2>3, Joined DEF Explicit
<1>4. e = F(e)
  <2>1. \A c \in Categories : e[c] = F(e)[c]
    BY <1>1, <1>2, <1>3
  <2> QED
    BY <2>1 DEF Explicit
<1>5. ASSUME g = F(g)
      PROVE  g = e
  <2>1. g = [c \in Categories |-> g[c]] /\ \A c \in Categories : g[c] = F(g)[c]
    BY <1>5
  <2>2. \A c \in Categories : Parent[c] = null => g[c] = e[c]
    BY <1>1, <2>1, Joined
  <2>3. \A c \in Categories :
          Parent[c] # null /\ Parent[Parent[c]] = null => g[c] = e[c]
    BY <1>2, <2>1, <2>2
  <2>4. \A c \in Categories :
          Parent[c] # null /\ Parent[Parent[c]] # null => g[c] = e[c]
    BY <1>3, <2>1, <2>3
  <2>5. \A c \in Categories : g[c] = e[c]
    BY <2>2, <2>3, <2>4
  <2> QED
    BY <2>1, <2>5 DEF Explicit
<1> QED
  BY <1>4, <1>5 DEF Chain

Slugged == [c \in Categories |-> cats[c].slug]

LEMMA PathFact ==
  ASSUME Paths!AdCategoryAssumption, Shaped
  PROVE  /\ Paths!PathOf = Explicit(Slugged)
         /\ Paths!PathOf \in [Categories -> Seq(Slugs)]
         /\ \A c \in Categories :
              Paths!PathOf[c] = (IF Parent[c] = null THEN <<>> ELSE Paths!PathOf[Parent[c]]) \o <<cats[c].slug>>
<1>0. Slugged \in [Categories -> Slugs]
  BY DEF Shaped, Slugged
<1> DEFINE G(g) == g = [c \in Categories |->
             (IF Parent[c] = null THEN <<>> ELSE g[Parent[c]]) \o <<cats[c].slug>>]
<1>1. \A g : G(g) <=> Chain(Slugged, g)
  BY DEF Chain, Slugged
<1>2. Paths!PathOf = CHOOSE g : G(g)
  BY DEF Paths!PathOf
<1>3. G(Explicit(Slugged))
  BY <1>0, <1>1, ChainFact
<1>4. G(Paths!PathOf)
  BY <1>2, <1>3
<1>5. Paths!PathOf = Explicit(Slugged)
  BY <1>0, <1>1, <1>4, ChainFact
<1>6. Paths!PathOf \in [Categories -> Seq(Slugs)]
  BY <1>0, <1>5 DEF Explicit, Paths!AdCategoryAssumption
<1> QED
  BY <1>4, <1>5, <1>6

(* Slugs that stay leave the paths as they are.                            *)
LEMMA PathsStay ==
  ASSUME cats' = cats
  PROVE  Paths!PathOf' = Paths!PathOf
BY DEF Paths!PathOf

-----------------------------------------------------------------------------

(* What holds in any overlap.                                              *)
Basic ==
  /\ Shaped
  /\ \A r \in Editors : Bound(edits[r])
  /\ \A k \in Scripts : KnowsAds(scripts[k])

LEMMA RestFact ==
  ASSUME Paths!AdCategoryAssumption
  PROVE  /\ Paths!Idle \in AnyRequest /\ Paths!Idle.step = "idle" /\ Bound(Paths!Idle)
         /\ Paths!NoScript.name = "none" /\ Paths!NoScript.has = {} /\ Paths!NoScript.todo = {}
         /\ Paths!NoScript.found \in [Ads -> Categories \cup {null}]
         /\ Paths!NoScript.paths \in [Categories -> Seq(Slugs)]
         /\ Paths!NoScript \in AnyScript /\ KnowsAds(Paths!NoScript)
BY DEF Paths!Idle, Paths!NoScript, AnyRequest, AnyScript, Bound, KnowsAds

LEMMA InitPaths ==
  ASSUME Paths!AdCategoryAssumption, Paths!MCInit
  PROVE  PathsSound
<1> USE DEF Paths!MCInit
<1>0. PICK slug \in [Categories -> Slugs] :
        LET path[c \in Categories] ==
              (IF c \in Paths!Rooted THEN <<>> ELSE path[Parent[c]]) \o <<slug[c]>>
        IN cats = [c \in Categories |-> [slug |-> slug[c], path |-> path[c]]]
  BY DEF Paths!Init
<1> DEFINE F(h) == h = [c \in Categories |->
             (IF c \in Paths!Rooted THEN <<>> ELSE h[Parent[c]]) \o <<slug[c]>>]
           path == CHOOSE h : F(h)
<1>1. cats = [c \in Categories |-> [slug |-> slug[c], path |-> path[c]]]
  BY <1>0
<1>2. \A h : F(h) <=> Chain(slug, h)
  BY DEF Chain, Paths!Rooted
<1>3. F(Explicit(slug))
  BY <1>2, ChainFact
<1>4. F(path)
  BY <1>3
<1>5. path = Explicit(slug)
  BY <1>2, <1>4, ChainFact
<1> HIDE DEF path
<1>6. Explicit(slug) \in [Categories -> Seq(Slugs)]
  BY DEF Explicit, Paths!AdCategoryAssumption
<1>7. cats \in [Categories -> [slug : Slugs, path : Seq(Slugs)]]
  BY <1>1, <1>5, <1>6
<1>8. Shaped
  BY <1>7, RestFact DEF Paths!Init, Shaped
<1>9. Slugged = slug
  BY <1>1 DEF Slugged
<1>10. \A c \in Categories : cats[c].path = Paths!PathOf[c]
  BY <1>1, <1>5, <1>8, <1>9, PathFact
<1>11. /\ \A r \in Editors : edits[r] = Paths!Idle
       /\ \A x \in Ads : ads[x] = null
       /\ \A k \in Scripts : scripts[k] = Paths!NoScript
       /\ calm /\ ~alone
  BY DEF Paths!Init
<1>12. CalmSound
  BY <1>10, <1>11, RestFact DEF CalmSound, InCalm, WalkInformed, ScriptInformed
<1>13. AloneSound /\ Paths!SeoFollowsPath
  BY <1>11 DEF AloneSound, Paths!SeoFollowsPath
<1> QED
  BY <1>8, <1>11, <1>12, <1>13, RestFact DEF PathsSound

(* A request goes on.                                                      *)
LEMMA GoesFact ==
  ASSUME PathsSound, NEW r \in Editors, NEW new \in AnyRequest, Bound(new), Paths!Goes(r, new)
  PROVE  /\ edits' \in [Editors -> AnyRequest]
         /\ edits'[r] = new
         /\ \A s \in Editors \ {r} : edits'[s] = edits[s]
         /\ \A s \in Editors : Bound(edits'[s])
         /\ cats' = cats /\ scripts' = scripts
BY DEF PathsSound, Shaped, Paths!Goes

(* A handler begins.                                                       *)
Begun(r, new) ==
  /\ edits[r].step = "idle" /\ new.step # "idle"
  /\ new \in AnyRequest /\ Bound(new)
  /\ \/ new.step = "walk" /\ new.at = new.cat /\ new.path = <<>>
     \/ /\ new.step = "save" /\ new.cat = null
        /\ ads[new.ad] # null /\ new.path = ads[new.ad].path
  /\ Paths!Goes(r, new) /\ ads' = ads

LEMMA WalkShape ==
  ASSUME Paths!AdCategoryAssumption, NEW step \in {"check", "insert", "save"}, NEW x \in Ads,
         NEW c \in Categories
  PROVE  LET q == Paths!Walk(step, x, c) IN
         /\ q \in AnyRequest /\ Bound(q)
         /\ q.step = "walk" /\ q.at = c /\ q.cat = c /\ q.path = <<>>
<1>1. x # null /\ c # null
  BY DEF Paths!AdCategoryAssumption
<1>2. <<>> \in Seq(Slugs)
  OBVIOUS
<1> QED
  BY <1>1, <1>2 DEF Paths!Walk, AnyRequest, Bound

LEMMA KeptShape ==
  ASSUME Paths!AdCategoryAssumption, NEW x \in Ads, NEW path \in Seq(Slugs)
  PROVE  LET q == [Paths!Walk("save", x, null) EXCEPT !.step = "save", !.path = path] IN
         /\ q \in AnyRequest /\ Bound(q)
         /\ q.step = "save" /\ q.cat = null /\ q.ad = x /\ q.path = path
<1>1. x # null
  BY DEF Paths!AdCategoryAssumption
<1> QED
  BY <1>1 DEF Paths!Walk, AnyRequest, Bound

LEMMA EditorBegins ==
  ASSUME Paths!AdCategoryAssumption, PathsSound, NEW r \in Editors, NEW x \in Ads,
         \/ \E c \in Categories : Paths!create(r, x, c) \/ Paths!saveNewDraft(r, x, c)
         \/ \E c \in Categories \cup {null} : Paths!saveDraft(r, x, c)
  PROVE  \E new : Begun(r, new)
<1> USE DEF Paths!AdCategoryAssumption
<1>1. ASSUME NEW c \in Categories, Paths!create(r, x, c) \/ Paths!saveNewDraft(r, x, c)
      PROVE  \E new : Begun(r, new)
  BY <1>1, WalkShape DEF Paths!create, Paths!saveNewDraft, Begun
<1>2. ASSUME NEW c \in Categories, Paths!saveDraft(r, x, c)
      PROVE  \E new : Begun(r, new)
  BY <1>2, WalkShape DEF Paths!saveDraft, Begun
<1>3. CASE Paths!saveDraft(r, x, null)
  <2> DEFINE path == ads[x].path
             new == [Paths!Walk("save", x, null) EXCEPT !.step = "save", !.path = path]
  <2>1. ads[x] # null /\ ads[x].path \in Seq(Slugs)
    BY <1>3 DEF Paths!saveDraft, PathsSound, Shaped, AnyAd
  <2>2. /\ new \in AnyRequest /\ Bound(new)
        /\ new.step = "save" /\ new.cat = null /\ new.ad = x /\ new.path = path
    <3>1. path \in Seq(Slugs)
      BY <2>1
    <3> HIDE DEF path
    <3> QED
      BY <3>1, KeptShape
  <2>3. edits[r].step = "idle" /\ Paths!Goes(r, new) /\ ads' = ads
    BY <1>3 DEF Paths!saveDraft
  <2> QED
    BY <2>1, <2>2, <2>3 DEF Begun
<1> QED
  BY <1>1, <1>2, <1>3

(* The request that a step of a handler makes of it.                       *)
Walked(q) ==
  [q EXCEPT !.path = <<cats[q.at].slug>> \o @, !.at = Parent[q.at],
            !.step = IF Parent[q.at] # null THEN "walk" ELSE q.next]

LEMMA WalkFact ==
  ASSUME Paths!AdCategoryAssumption, PathsSound, NEW r \in Editors, Paths!getCategoryPath(r)
  PROVE  LET q == edits[r]  new == Walked(q) IN
         /\ q \in AnyRequest /\ q.step = "walk"
         /\ q.at \in Categories /\ q.cat \in Categories
         /\ new \in AnyRequest /\ Bound(new)
         /\ new.step = IF Parent[q.at] # null THEN "walk" ELSE q.next
         /\ new.at = Parent[q.at] /\ new.cat = q.cat
         /\ new.path = <<cats[q.at].slug>> \o q.path
         /\ Paths!Goes(r, new) /\ ads' = ads
<1> USE DEF Paths!AdCategoryAssumption
<1> DEFINE q == edits[r]
           new == Walked(q)
<1>1. /\ q \in AnyRequest /\ q.step = "walk" /\ Bound(q)
      /\ Paths!Goes(r, new) /\ ads' = ads
  BY DEF Paths!getCategoryPath, PathsSound, Shaped, Walked
<1>2. q.at \in Categories /\ q.cat \in Categories /\ q.path \in Seq(Slugs)
  BY <1>1 DEF AnyRequest, Bound
<1>3. Parent[q.at] \in Categories \cup {null} /\ cats[q.at].slug \in Slugs
  BY <1>2 DEF PathsSound, Shaped
<1>4. <<cats[q.at].slug>> \o q.path \in Seq(Slugs)
  BY <1>2, <1>3
<1> HIDE DEF q
<1>5. /\ new \in AnyRequest /\ new.path = <<cats[q.at].slug>> \o q.path
      /\ new.at = Parent[q.at] /\ new.cat = q.cat /\ new.ad = q.ad
      /\ new.step = IF Parent[q.at] # null THEN "walk" ELSE q.next
  BY <1>1, <1>3, <1>4 DEF Walked, AnyRequest
<1> HIDE DEF new
<1>6. Bound(new)
  BY <1>1, <1>2, <1>5 DEF Bound, AnyRequest
<1> QED
  BY <1>1, <1>2, <1>5, <1>6 DEF q, new

LEMMA CheckFact ==
  ASSUME Paths!AdCategoryAssumption, PathsSound, NEW r \in Editors, Paths!checkUnit(r)
  PROVE  \E new \in AnyRequest :
           /\ Bound(new) /\ Paths!Goes(r, new) /\ ads' = ads
           /\ edits[r].step = "check"
           /\ \/ new = Paths!Idle
              \/ new.step = "create" /\ new.path = edits[r].path /\ new.cat = edits[r].cat
<1>1. PICK new \in {Paths!Idle, [edits[r] EXCEPT !.step = "create"]} : Paths!Goes(r, new)
  BY DEF Paths!checkUnit
<1>2. edits[r] \in AnyRequest /\ Bound(edits[r]) /\ edits[r].step = "check" /\ ads' = ads
  BY DEF PathsSound, Shaped, Paths!checkUnit
<1>3. CASE new = Paths!Idle
  BY <1>1, <1>2, <1>3, RestFact
<1>4. CASE new = [edits[r] EXCEPT !.step = "create"]
  <2>1. /\ new \in AnyRequest /\ new.step = "create" /\ new.path = edits[r].path
        /\ new.cat = edits[r].cat /\ new.ad = edits[r].ad
    BY <1>2, <1>4 DEF AnyRequest
  <2>2. Bound(new)
    BY <1>2, <2>1 DEF Bound
  <2> QED
    BY <1>1, <1>2, <2>1, <2>2
<1> QED
  BY <1>1, <1>3, <1>4

LEMMA WriteFact ==
  ASSUME Paths!AdCategoryAssumption, PathsSound, NEW r \in Editors, Paths!insert(r) \/ Paths!save(r)
  PROVE  LET q == edits[r] IN
         /\ Paths!Goes(r, Paths!Idle) /\ q.step \in {"create", "insert", "save"}
         /\ q \in AnyRequest /\ q.ad \in Ads /\ q.path \in Seq(Slugs)
         /\ \/ ads' = ads
            \/ \E c \in Categories :
                 /\ ads' = [ads EXCEPT ![q.ad] = [cat |-> c, path |-> q.path, seo |-> q.path]]
                 /\ IF q.cat # null THEN c = q.cat
                    ELSE /\ q.step = "save" /\ ads[q.ad] # null
                         /\ c = ads[q.ad].cat
<1>1. /\ edits[r] \in AnyRequest /\ Bound(edits[r]) /\ Paths!Goes(r, Paths!Idle)
      /\ edits[r].step \in {"create", "insert", "save"}
  BY DEF PathsSound, Shaped, Paths!insert, Paths!save
<1>2. edits[r].ad \in Ads /\ edits[r].path \in Seq(Slugs) /\ edits[r].cat \in Categories \cup {null}
  BY <1>1 DEF AnyRequest, Bound
<1>3. CASE Paths!insert(r)
  <2>1. edits[r].cat \in Categories /\ edits[r].cat # null
    BY <1>1, <1>2, <1>3, Paths!AdCategoryAssumption DEF Paths!insert, Bound
  <2> QED
    BY <1>1, <1>2, <1>3, <2>1 DEF Paths!insert
<1>4. CASE Paths!save(r) /\ ads[edits[r].ad] # null
  <2> DEFINE x == edits[r].ad
             c == Paths!Given(edits[r].cat, ads[x].cat)
  <2>1. ads[x] \in AnyAd
    BY <1>2, <1>4 DEF PathsSound, Shaped
  <2>2. c \in Categories /\ IF edits[r].cat # null THEN c = edits[r].cat ELSE c = ads[x].cat
    BY <1>2, <2>1 DEF Paths!Given, AnyAd
  <2>3. ads' = [ads EXCEPT ![x] = [cat |-> c, path |-> edits[r].path, seo |-> edits[r].path]]
    BY <1>4, <2>1 DEF Paths!save, Paths!Saved
  <2>4. edits[r].step = "save"
    BY <1>4 DEF Paths!save
  <2> QED
    BY <1>1, <1>2, <1>4, <2>2, <2>3, <2>4
<1>5. CASE Paths!save(r) /\ ads[edits[r].ad] = null
  BY <1>1, <1>2, <1>5 DEF Paths!save
<1> QED
  BY <1>3, <1>4, <1>5

-----------------------------------------------------------------------------
(* What every step preserves.                                              *)

EditorStep(r) ==
  \/ \E new : Begun(r, new)
  \/ Paths!getCategoryPath(r) \/ Paths!checkUnit(r) \/ Paths!insert(r) \/ Paths!save(r)

(* A step of a script that writes no ad.                                   *)
Prepares(k) ==
  \/ \E name \in {"ad-paths", "category-path"} : Paths!backfill(k, name)
  \/ Paths!findAds(k) \/ Paths!categoryMap(k) \/ Paths!backfillEnds(k)

LEMMA StepCases ==
  ASSUME Paths!AdCategoryAssumption, PathsSound, Paths!Next
  PROVE  \/ \E r \in Editors : EditorStep(r)
         \/ \E x \in Ads, c \in Categories : Paths!update(x, c)
         \/ \E x \in Ads : Paths!remove(x)
         \/ \E s \in Slugs : Paths!upsertCategory(s)
         \/ Paths!seedDies
         \/ \E k \in Scripts : Prepares(k) \/ \E x \in Ads : Paths!backfillAd(k, x)
<1>1. ASSUME NEW r \in Editors, NEW x \in Ads,
             \/ \E c \in Categories : Paths!create(r, x, c) \/ Paths!saveNewDraft(r, x, c)
             \/ \E c \in Categories \cup {null} : Paths!saveDraft(r, x, c)
      PROVE  EditorStep(r)
  BY <1>1, EditorBegins DEF EditorStep
<1> QED
  BY <1>1 DEF Paths!Next, EditorStep, Paths!ScriptStep, Prepares

(* A step of a handler changes one request and at most its ad, of which    *)
(* path and address then go together.                                      *)
LEMMA EditorFact ==
  ASSUME Paths!AdCategoryAssumption, PathsSound, NEW r \in Editors, EditorStep(r)
  PROVE  /\ edits' \in [Editors -> AnyRequest]
         /\ \A s \in Editors : Bound(edits'[s])
         /\ cats' = cats /\ scripts' = scripts
         /\ ads' \in [Ads -> AnyAd \cup {null}]
         /\ \A x \in Ads : ads'[x] = ads[x] \/ ads'[x].seo = ads'[x].path
<1>0. ads \in [Ads -> AnyAd \cup {null}]
  BY DEF PathsSound, Shaped
<1>1. ASSUME NEW new, Begun(r, new)
      PROVE  new \in AnyRequest /\ Bound(new) /\ Paths!Goes(r, new) /\ ads' = ads
  BY <1>1 DEF Begun
<1>2. CASE Paths!getCategoryPath(r)
  <2>1. Walked(edits[r]) \in AnyRequest /\ Bound(Walked(edits[r])) /\ Paths!Goes(r, Walked(edits[r])) /\ ads' = ads
    BY <1>2, WalkFact
  <2> HIDE DEF Walked
  <2> QED
    BY <1>0, <2>1, GoesFact
<1>3. CASE Paths!checkUnit(r)
  BY <1>0, <1>3, CheckFact, GoesFact
<1>4. CASE Paths!insert(r) \/ Paths!save(r)
  <2>1. /\ Paths!Goes(r, Paths!Idle) /\ edits[r].ad \in Ads /\ edits[r].path \in Seq(Slugs)
        /\ \/ ads' = ads
           \/ \E c \in Categories :
                ads' = [ads EXCEPT ![edits[r].ad] =
                          [cat |-> c, path |-> edits[r].path, seo |-> edits[r].path]]
    BY <1>4, WriteFact
  <2>2. Paths!Idle \in AnyRequest /\ Bound(Paths!Idle)
    BY RestFact
  <2>3. /\ ads' \in [Ads -> AnyAd \cup {null}]
        /\ \A x \in Ads : ads'[x] = ads[x] \/ ads'[x].seo = ads'[x].path
    <3>1. CASE ads' = ads
      BY <1>0, <3>1
    <3>2. ASSUME NEW c \in Categories, NEW path \in Seq(Slugs), path = edits[r].path,
                 ads' = [ads EXCEPT ![edits[r].ad] = [cat |-> c, path |-> path, seo |-> path]]
          PROVE  /\ ads' \in [Ads -> AnyAd \cup {null}]
                 /\ \A x \in Ads : ads'[x] = ads[x] \/ ads'[x].seo = ads'[x].path
      <4> DEFINE new == [cat |-> c, path |-> path, seo |-> path]
      <4>1. new \in AnyAd /\ new.seo = new.path
        BY DEF AnyAd
      <4> HIDE DEF new
      <4>2. ads' = [ads EXCEPT ![edits[r].ad] = new]
        BY <3>2 DEF new
      <4> QED
        BY <1>0, <4>1, <4>2
    <3> QED
      BY <2>1, <3>1, <3>2
  <2> QED
    BY <2>1, <2>2, <2>3, GoesFact
<1> QED
  BY <1>0, <1>1, <1>2, <1>3, <1>4, GoesFact DEF EditorStep

LEMMA SlotFact ==
  ASSUME PathsSound, NEW k \in Scripts, NEW new \in AnyScript, KnowsAds(new), Paths!RunsOn(k, new)
  PROVE  /\ scripts' \in [Scripts -> AnyScript]
         /\ scripts'[k] = new
         /\ \A l \in Scripts \ {k} : scripts'[l] = scripts[l]
         /\ \A l \in Scripts : KnowsAds(scripts'[l])
         /\ cats' = cats /\ edits' = edits /\ upserts' = upserts
BY DEF PathsSound, Shaped, Paths!RunsOn

(* What a script has become that writes no ad.                             *)
LEMMA Prepared ==
  ASSUME Paths!AdCategoryAssumption, PathsSound, NEW k \in Scripts, Prepares(k)
  PROVE  \E new \in AnyScript : KnowsAds(new) /\ Paths!RunsOn(k, new) /\ ads' = ads
<1> DEFINE q == scripts[k]
<1>0. /\ q \in AnyScript /\ KnowsAds(q)
      /\ ads \in [Ads -> AnyAd \cup {null}]
  BY DEF PathsSound, Shaped
<1>1. ASSUME NEW name \in {"ad-paths", "category-path"}, Paths!backfill(k, name)
      PROVE  \E new \in AnyScript : KnowsAds(new) /\ Paths!RunsOn(k, new) /\ ads' = ads
  <2> DEFINE new == [Paths!NoScript EXCEPT !.name = name]
  <2>1. Paths!RunsOn(k, new) /\ ads' = ads
    BY <1>1 DEF Paths!backfill
  <2>2. new \in AnyScript /\ new.todo = {} /\ new.has = {}
    BY RestFact DEF AnyScript
  <2> HIDE DEF new
  <2> QED
    BY <2>1, <2>2 DEF KnowsAds
<1>2. CASE Paths!findAds(k)
  <2> DEFINE found == [x \in Ads |-> IF ads[x] = null THEN null ELSE ads[x].cat]
             todo == {x \in Ads : ads[x] # null}
             new == [q EXCEPT !.has = @ \cup {"ads"}, !.found = found, !.todo = todo]
  <2>1. Paths!RunsOn(k, new) /\ q.name # "none" /\ ads' = ads
    BY <1>2 DEF Paths!findAds
  <2>2. /\ found \in [Ads -> Categories \cup {null}] /\ todo \in SUBSET Ads
        /\ \A x \in todo : found[x] # null
    BY <1>0 DEF AnyAd, Paths!AdCategoryAssumption
  <2> HIDE DEF found, todo, q
  <2>3. new \in AnyScript /\ new.todo = todo /\ new.found = found /\ new.name = q.name
    BY <1>0, <2>2 DEF AnyScript
  <2> HIDE DEF new
  <2> QED
    BY <2>1, <2>2, <2>3 DEF KnowsAds
<1>3. CASE Paths!categoryMap(k)
  <2> DEFINE columns == IF q.name = "ad-paths" THEN [c \in Categories |-> cats[c].path] ELSE Paths!PathOf
             new == [q EXCEPT !.has = @ \cup {"categories"}, !.paths = columns]
  <2>1. Paths!RunsOn(k, new) /\ q.name # "none" /\ ads' = ads
    BY <1>3 DEF Paths!categoryMap
  <2>2. columns \in [Categories -> Seq(Slugs)]
    BY PathFact DEF PathsSound, Shaped
  <2> HIDE DEF columns, q
  <2>3. new \in AnyScript /\ new.todo = q.todo /\ new.found = q.found /\ new.name = q.name
    BY <1>0, <2>2 DEF AnyScript
  <2> HIDE DEF new
  <2> QED
    BY <1>0, <2>1, <2>3 DEF KnowsAds
<1>4. CASE Paths!backfillEnds(k)
  BY <1>4, RestFact DEF Paths!backfillEnds
<1> QED
  BY <1>1, <1>2, <1>3, <1>4 DEF Prepares

LEMMA ScriptFact ==
  ASSUME Paths!AdCategoryAssumption, PathsSound, NEW k \in Scripts, Prepares(k)
  PROVE  /\ scripts' \in [Scripts -> AnyScript]
         /\ \A l \in Scripts \ {k} : scripts'[l] = scripts[l]
         /\ \A l \in Scripts : KnowsAds(scripts'[l])
         /\ cats' = cats /\ edits' = edits /\ ads' = ads
BY Prepared, SlotFact

LEMMA BackfilledFact ==
  ASSUME NEW ad \in AnyAd, NEW name, NEW path \in Seq(Slugs)
  PROVE  LET new == Paths!Backfilled(ad, name, path) IN
         /\ new \in AnyAd /\ new.cat = ad.cat /\ new.path = path
         /\ new.seo = IF name = "ad-paths" THEN path ELSE ad.seo
BY DEF Paths!Backfilled, AnyAd

(* A script writes an ad, or ends at one that is gone.                     *)
LEMMA BackfillFact ==
  ASSUME Paths!AdCategoryAssumption, PathsSound, NEW k \in Scripts, NEW x \in Ads,
         Paths!backfillAd(k, x)
  PROVE  LET q == scripts[k] IN
         /\ cats' = cats /\ edits' = edits /\ upserts' = upserts
         /\ scripts' \in [Scripts -> AnyScript] /\ \A l \in Scripts : KnowsAds(scripts'[l])
         /\ \A l \in Scripts \ {k} : scripts'[l] = scripts[l]
         /\ q \in AnyScript /\ q.name # "none"
         /\ q.has = {"ads", "categories"} /\ x \in q.todo
         /\ \/ ads[x] = null /\ ads' = ads /\ scripts'[k] = Paths!NoScript
            \/ /\ ads[x] \in AnyAd /\ ads[x] # null
               /\ q.found[x] \in Categories
               /\ \E new \in AnyAd :
                    /\ new.cat = ads[x].cat
                    /\ new.path = q.paths[q.found[x]]
                    /\ new.seo = IF q.name = "ad-paths" THEN new.path ELSE ads[x].seo
                    /\ ads' = [ads EXCEPT ![x] = new]
               /\ scripts'[k].name = q.name /\ scripts'[k].has = q.has
               /\ scripts'[k].found = q.found /\ scripts'[k].paths = q.paths
               /\ scripts'[k].todo = q.todo \ {x}
<1> DEFINE q == scripts[k]
<1>1. /\ q.has = {"ads", "categories"} /\ x \in q.todo
      /\ q \in AnyScript /\ KnowsAds(q) /\ ads[x] \in AnyAd \cup {null}
      /\ IF ads[x] = null
           THEN ads' = ads /\ Paths!RunsOn(k, Paths!NoScript)
           ELSE /\ ads' = [ads EXCEPT ![x] = Paths!Backfilled(ads[x], q.name, q.paths[q.found[x]])]
                /\ Paths!RunsOn(k, [q EXCEPT !.todo = @ \ {x}])
  BY DEF Paths!backfillAd, PathsSound, Shaped
<1> HIDE DEF q
<1>2. q.found[x] \in Categories /\ q.name # "none"
  BY <1>1 DEF AnyScript, KnowsAds
<1>3. q.paths[q.found[x]] \in Seq(Slugs)
  BY <1>1, <1>2 DEF AnyScript
<1>4. CASE ads[x] = null
  <2>1. Paths!RunsOn(k, Paths!NoScript) /\ ads' = ads
    BY <1>1, <1>4
  <2>2. Paths!NoScript \in AnyScript /\ KnowsAds(Paths!NoScript)
    BY RestFact
  <2> QED
    BY <1>1, <1>2, <1>4, <2>1, <2>2, SlotFact DEF q
<1>5. CASE ads[x] # null
  <2> DEFINE path == q.paths[q.found[x]]
             new == Paths!Backfilled(ads[x], q.name, path)
             left == [q EXCEPT !.todo = @ \ {x}]
  <2>1. ads[x] \in AnyAd
    BY <1>1, <1>5
  <2>2. /\ new \in AnyAd /\ new.cat = ads[x].cat /\ new.path = path
        /\ new.seo = IF q.name = "ad-paths" THEN path ELSE ads[x].seo
    BY <1>3, <2>1, BackfilledFact
  <2>3. ads' = [ads EXCEPT ![x] = new] /\ Paths!RunsOn(k, left)
    BY <1>1, <1>5
  <2>4. /\ left \in AnyScript /\ left.name = q.name /\ left.has = q.has
        /\ left.found = q.found /\ left.paths = q.paths /\ left.todo = q.todo \ {x}
    BY <1>1 DEF AnyScript
  <2> HIDE DEF new, left
  <2>5. KnowsAds(left)
    BY <1>1, <2>4 DEF KnowsAds
  <2>6. /\ scripts' \in [Scripts -> AnyScript] /\ \A l \in Scripts : KnowsAds(scripts'[l])
        /\ \A l \in Scripts \ {k} : scripts'[l] = scripts[l]
        /\ scripts'[k] = left
        /\ cats' = cats /\ edits' = edits /\ upserts' = upserts
    BY <2>3, <2>4, <2>5, SlotFact
  <2>7. \E ad \in AnyAd : /\ ad.cat = ads[x].cat /\ ad.path = q.paths[q.found[x]]
                          /\ ad.seo = IF q.name = "ad-paths" THEN ad.path ELSE ads[x].seo
                          /\ ads' = [ads EXCEPT ![x] = ad]
    BY <2>2, <2>3
  <2> QED
    BY <1>1, <1>2, <1>5, <2>1, <2>4, <2>6, <2>7 DEF q
<1> QED
  BY <1>4, <1>5

LEMMA UpsertFact ==
  ASSUME Paths!AdCategoryAssumption, PathsSound, NEW s \in Slugs, Paths!upsertCategory(s)
  PROVE  /\ cats' \in [Categories -> [slug : Slugs, path : Seq(Slugs)]]
         /\ ads' = ads /\ edits' = edits /\ scripts' = scripts
<1> DEFINE c == Preorder[upserts + 1]
           path == (IF c \in Paths!Rooted THEN <<>> ELSE cats[Parent[c]].path) \o <<s>>
<1>1. /\ cats \in [Categories -> [slug : Slugs, path : Seq(Slugs)]]
      /\ cats' = [cats EXCEPT ![c] = [slug |-> s, path |-> path]]
      /\ ads' = ads /\ edits' = edits /\ scripts' = scripts
  BY DEF Paths!upsertCategory, PathsSound, Shaped
<1>2. CASE c \in Categories
  <2>1. path \in Seq(Slugs)
    BY <1>1, <1>2 DEF Paths!Rooted, Paths!AdCategoryAssumption
  <2> HIDE DEF path
  <2> QED
    BY <1>1, <2>1
<1>3. CASE c \notin Categories
  <2> HIDE DEF path, c
  <2> QED
    BY <1>1, <1>3
<1> QED
  BY <1>2, <1>3

LEMMA ChangedFact ==
  ASSUME Paths!AdCategoryAssumption, PathsSound, NEW x \in Ads, NEW c \in Categories,
         Paths!update(x, c) \/ Paths!remove(x)
  PROVE  /\ cats' = cats /\ edits' = edits /\ scripts' = scripts /\ ads[x] \in AnyAd /\ ads[x] # null
         /\ \/ ads' = [ads EXCEPT ![x] = null]
            \/ ads' = [ads EXCEPT ![x] = [cat |-> c, path |-> ads[x].path, seo |-> ads[x].seo]]
<1>1. /\ cats' = cats /\ edits' = edits /\ scripts' = scripts /\ ads[x] \in AnyAd /\ ads[x] # null
  BY DEF Paths!update, Paths!remove, Paths!Changed, PathsSound, Shaped
<1>2. [ads[x] EXCEPT !.cat = c] = [cat |-> c, path |-> ads[x].path, seo |-> ads[x].seo]
  BY <1>1 DEF AnyAd
<1> QED
  BY <1>1, <1>2 DEF Paths!update, Paths!remove, Paths!Changed

LEMMA StepBasic ==
  ASSUME Paths!AdCategoryAssumption, PathsSound, Paths!MCNext
  PROVE  Basic'
<1>0. /\ Paths!Next /\ calm' \in BOOLEAN /\ halved' \in BOOLEAN /\ alone' \in BOOLEAN
      /\ Shaped /\ \A r \in Editors : Bound(edits[r])
      /\ \A k \in Scripts : KnowsAds(scripts[k])
  <2>1. /\ Shaped /\ \A r \in Editors : Bound(edits[r])
        /\ \A k \in Scripts : KnowsAds(scripts[k])
    BY DEF PathsSound
  <2>2. Paths!Next /\ calm' \in BOOLEAN
    BY DEF Paths!MCNext
  <2>3. halved' \in BOOLEAN
    BY <2>1 DEF Paths!MCNext, Shaped
  <2>4. alone' \in BOOLEAN
    BY <2>1 DEF Paths!MCNext, Shaped, Paths!Quiet, Paths!InOrder
  <2> QED
    BY <2>1, <2>2, <2>3, <2>4
<1> USE DEF Basic, Shaped
<1>1. ASSUME NEW r \in Editors, EditorStep(r)
      PROVE  Basic'
  BY <1>0, <1>1, EditorFact
<1>2. ASSUME NEW x \in Ads, NEW c \in Categories, Paths!update(x, c) \/ Paths!remove(x)
      PROVE  Basic'
  <2>1. ads' \in [Ads -> AnyAd \cup {null}]
    <3> DEFINE new == [cat |-> c, path |-> ads[x].path, seo |-> ads[x].seo]
    <3>1. new \in AnyAd
      BY <1>2, ChangedFact DEF AnyAd
    <3>2. ads' = [ads EXCEPT ![x] = null] \/ ads' = [ads EXCEPT ![x] = new]
      BY <1>2, ChangedFact
    <3> HIDE DEF new
    <3> QED
      BY <1>0, <3>1, <3>2
  <2> QED
    BY <1>0, <1>2, <2>1, ChangedFact
<1>3. ASSUME NEW k \in Scripts, NEW x \in Ads, Paths!backfillAd(k, x)
      PROVE  Basic'
  <2>1. /\ cats' = cats /\ edits' = edits
        /\ scripts' \in [Scripts -> AnyScript] /\ \A l \in Scripts : KnowsAds(scripts'[l])
    BY <1>3, BackfillFact
  <2>2. ads' = ads \/ \E new \in AnyAd : ads' = [ads EXCEPT ![x] = new]
    BY <1>3, BackfillFact
  <2>3. ads' \in [Ads -> AnyAd \cup {null}]
    BY <1>0, <2>2
  <2> QED
    BY <1>0, <2>1, <2>3
<1>4. ASSUME NEW s \in Slugs, Paths!upsertCategory(s)
      PROVE  Basic'
  BY <1>0, <1>4, UpsertFact
<1>5. CASE Paths!seedDies
  BY <1>0, <1>5 DEF Paths!seedDies
<1>6. ASSUME NEW k \in Scripts, Prepares(k)
      PROVE  Basic'
  BY <1>0, <1>6, ScriptFact
<1>7. Categories # {} \/ \A x \in Ads : ads[x] = null
  BY <1>0 DEF AnyAd
<1>8. ASSUME NEW x \in Ads, Paths!remove(x)
      PROVE  Basic'
  BY <1>2, <1>7, <1>8 DEF Paths!remove
<1> QED
  BY <1>0, <1>1, <1>2, <1>3, <1>4, <1>5, <1>6, <1>8, StepCases

(* Only backfill-category-path writes the path without the address.        *)
LEMMA StepSeo ==
  ASSUME Paths!AdCategoryAssumption, PathsSound, Paths!MCNext
  PROVE  Paths!SeoFollowsPath'
<1> SUFFICES ASSUME ~halved', NEW x \in Ads, ads'[x] # null
             PROVE  ads'[x].seo = ads'[x].path
  BY DEF Paths!SeoFollowsPath
<1>0. /\ Paths!Next /\ ~halved /\ ads \in [Ads -> AnyAd \cup {null}]
      /\ ads[x] # null => ads[x].seo = ads[x].path
      /\ \A k \in Scripts :
           scripts[k].name = "category-path" /\ scripts'[k] # scripts[k] => ads' = ads
  BY DEF Paths!MCNext, PathsSound, Paths!SeoFollowsPath, Shaped, Paths!Running
<1>1. ASSUME NEW r \in Editors, EditorStep(r)
      PROVE  ads'[x].seo = ads'[x].path
  BY <1>0, <1>1, EditorFact
<1>2. ASSUME NEW y \in Ads, NEW c \in Categories, Paths!update(y, c)
      PROVE  ads'[x].seo = ads'[x].path
  BY <1>0, <1>2, ChangedFact
<1>3. ASSUME NEW k \in Scripts, NEW y \in Ads, Paths!backfillAd(k, y)
      PROVE  ads'[x].seo = ads'[x].path
  <2>1. CASE ads' = ads
    BY <1>0, <2>1
  <2>2. CASE ads' # ads
    <3>1. /\ scripts[k] \in AnyScript /\ scripts[k].name # "none"
          /\ y \in scripts[k].todo /\ scripts'[k].todo = scripts[k].todo \ {y}
      BY <1>3, <2>2, BackfillFact
    <3>2. scripts[k].name = "ad-paths"
      BY <1>0, <2>2, <3>1 DEF AnyScript
    <3>3. PICK new \in AnyAd : new.seo = new.path /\ ads' = [ads EXCEPT ![y] = new]
      BY <1>3, <2>2, <3>2, BackfillFact
    <3> QED
      BY <1>0, <3>3
  <2> QED
    BY <2>1, <2>2
<1>4. ASSUME NEW y \in Ads, Paths!remove(y)
      PROVE  ads'[x].seo = ads'[x].path
  BY <1>0, <1>4 DEF Paths!remove, Paths!Changed
<1>5. CASE \/ \E s \in Slugs : Paths!upsertCategory(s)
           \/ Paths!seedDies \/ \E k \in Scripts : Prepares(k)
  BY <1>0, <1>5, UpsertFact, ScriptFact DEF Paths!seedDies
<1> QED
  BY <1>0, <1>1, <1>2, <1>3, <1>4, <1>5, StepCases

(* What a script reads, and what it keeps.                                 *)
LEMMA ReadFact ==
  ASSUME Paths!AdCategoryAssumption, PathsSound, NEW k \in Scripts,
         Paths!findAds(k) \/ Paths!categoryMap(k)
  PROVE  LET q == scripts[k] IN
         /\ scripts'[k].name = q.name /\ q.name # "none"
         /\ \/ /\ Paths!findAds(k) /\ scripts'[k].has = q.has \cup {"ads"}
               /\ scripts'[k].paths = q.paths
               /\ \A x \in Ads : ads[x] # null =>
                    scripts'[k].found[x] = ads[x].cat /\ x \in scripts'[k].todo
            \/ /\ Paths!categoryMap(k) /\ scripts'[k].has = q.has \cup {"categories"}
               /\ scripts'[k].found = q.found /\ scripts'[k].todo = q.todo
               /\ \A c \in Categories : scripts'[k].paths[c] =
                    IF q.name = "ad-paths" THEN cats[c].path ELSE Paths!PathOf[c]
<1> DEFINE q == scripts[k]
<1>0. q \in AnyScript /\ scripts \in [Scripts -> AnyScript]
  BY DEF PathsSound, Shaped
<1>1. CASE Paths!findAds(k)
  <2> DEFINE found == [x \in Ads |-> IF ads[x] = null THEN null ELSE ads[x].cat]
             todo == {x \in Ads : ads[x] # null}
             new == [q EXCEPT !.has = @ \cup {"ads"}, !.found = found, !.todo = todo]
  <2>1. scripts'[k] = new /\ q.name # "none"
    BY <1>0, <1>1 DEF Paths!findAds, Paths!RunsOn
  <2>2. \A x \in Ads : ads[x] # null => found[x] = ads[x].cat /\ x \in todo
    OBVIOUS
  <2> HIDE DEF found, todo, q
  <2>3. /\ new.name = q.name /\ new.has = q.has \cup {"ads"} /\ new.paths = q.paths
        /\ new.found = found /\ new.todo = todo
    BY <1>0 DEF AnyScript
  <2> HIDE DEF new
  <2> QED
    BY <1>1, <2>1, <2>2, <2>3 DEF q
<1>2. CASE Paths!categoryMap(k)
  <2> DEFINE columns == IF q.name = "ad-paths" THEN [c \in Categories |-> cats[c].path] ELSE Paths!PathOf
             new == [q EXCEPT !.has = @ \cup {"categories"}, !.paths = columns]
  <2>1. scripts'[k] = new /\ q.name # "none"
    BY <1>0, <1>2 DEF Paths!categoryMap, Paths!RunsOn
  <2>2. \A c \in Categories :
          columns[c] = IF q.name = "ad-paths" THEN cats[c].path ELSE Paths!PathOf[c]
    OBVIOUS
  <2> HIDE DEF columns, q
  <2>3. /\ new.name = q.name /\ new.has = q.has \cup {"categories"} /\ new.paths = columns
        /\ new.found = q.found /\ new.todo = q.todo
    BY <1>0 DEF AnyScript
  <2> HIDE DEF new
  <2> QED
    BY <1>2, <2>1, <2>2, <2>3 DEF q
<1> QED
  BY <1>1, <1>2

(* What a backfill that nothing disturbs has written stays.                *)
LEMMA StepAlone ==
  ASSUME Paths!AdCategoryAssumption, PathsSound, Paths!MCNext
  PROVE  AloneSound'
<1> SUFFICES ASSUME alone'
             PROVE  AloneSound'
  BY DEF AloneSound
<1>0. /\ Paths!Next /\ scripts' # scripts
      /\ IF Paths!Running = {} THEN Paths!InOrder ELSE alone /\ ~Paths!Starts
  BY DEF Paths!MCNext
<1>1. \A c \in Categories : cats[c].path = Paths!PathOf[c]
  BY <1>0 DEF Paths!InOrder, PathsSound, AloneSound
<1>2. PICK k \in Scripts : Prepares(k) \/ \E x \in Ads : Paths!backfillAd(k, x)
  BY <1>0, StepCases, EditorFact, UpsertFact
     DEF Paths!update, Paths!remove, Paths!Changed, Paths!seedDies
<1>3. /\ cats' = cats /\ \A l \in Scripts \ {k} : scripts'[l] = scripts[l]
      /\ \A l \in Scripts : KnowsAds(scripts'[l])
  BY <1>2, ScriptFact, BackfillFact
<1>4. Paths!PathOf' = Paths!PathOf
  BY <1>3, PathsStay
(* The other slots are empty.                                              *)
<1>5. \A l \in Scripts \ {k} : scripts[l].name = "none"
  <2> SUFFICES ASSUME NEW l \in Scripts \ {k}, scripts[l].name # "none"
               PROVE  FALSE
    OBVIOUS
  <2>1. l \in Paths!Running
    BY DEF Paths!Running
  <2>2. alone /\ ~Paths!Starts
    BY <1>0, <2>1
  <2>3. scripts[k].name = "none"
    BY <2>2 DEF PathsSound, AloneSound
  <2>4. scripts'[k].name # "none" => FALSE
    BY <2>2, <2>3 DEF Paths!Starts, Paths!Running
  <2>5. CASE \E x \in Ads : Paths!backfillAd(k, x)
    BY <2>3, <2>5, BackfillFact
  <2>6. CASE \E name \in {"ad-paths", "category-path"} : Paths!backfill(k, name)
    <3>1. PICK name \in {"ad-paths", "category-path"} : scripts'[k] = [Paths!NoScript EXCEPT !.name = name]
      BY <2>6 DEF Paths!backfill, Paths!RunsOn, PathsSound, Shaped
    <3>2. scripts'[k].name = name
      BY <3>1, RestFact DEF AnyScript
    <3> QED
      BY <2>4, <3>1, <3>2
  <2>7. CASE Paths!findAds(k) \/ Paths!categoryMap(k) \/ Paths!backfillEnds(k)
    BY <2>3, <2>7 DEF Paths!findAds, Paths!categoryMap, Paths!backfillEnds
  <2> QED
    BY <1>2, <2>5, <2>6, <2>7 DEF Prepares
<1>6. ASSUME Undiverted(scripts[k])'
      PROVE  AloneSound'
  <2>1. \A l \in Scripts \ {k} : scripts'[l].name = "none" /\ scripts'[l].has = {}
    BY <1>3, <1>5 DEF KnowsAds
  <2>2. \A l \in Scripts \ {k} : Undiverted(scripts[l])'
    BY <2>1 DEF Undiverted
  <2>3. \A l, m \in Scripts : scripts'[l].name # "none" /\ scripts'[m].name # "none" => l = m
    BY <2>1
  <2>4. \A l \in Scripts : Undiverted(scripts[l])'
    BY <1>6, <2>2
  <2> QED
    BY <1>1, <1>3, <1>4, <2>3, <2>4 DEF AloneSound
<1> DEFINE q == scripts[k]
<1>7. q.name # "none" => alone /\ Undiverted(q)
  BY <1>0 DEF Paths!Running, PathsSound, AloneSound
<1>8. ASSUME NEW name \in {"ad-paths", "category-path"}, Paths!backfill(k, name)
      PROVE  AloneSound'
  <2>1. scripts'[k] = [Paths!NoScript EXCEPT !.name = name]
    BY <1>8 DEF Paths!backfill, Paths!RunsOn, PathsSound, Shaped
  <2>2. scripts'[k].has = {}
    BY <2>1 DEF Paths!NoScript
  <2> QED
    BY <1>6, <2>2 DEF Undiverted
<1>9. CASE Paths!findAds(k) \/ Paths!categoryMap(k)
  <2>1. ads' = ads /\ q.name # "none"
    BY <1>9 DEF Paths!findAds, Paths!categoryMap
  <2>2. Undiverted(q)
    BY <1>7, <2>1
  <2>3. CASE /\ Paths!findAds(k) /\ scripts'[k].has = q.has \cup {"ads"}
             /\ scripts'[k].paths = q.paths
             /\ \A x \in Ads : ads[x] # null =>
                  scripts'[k].found[x] = ads[x].cat /\ x \in scripts'[k].todo
    <3>1. scripts'[k].name = q.name
      BY <1>9, ReadFact
    <3> HIDE DEF q
    <3>2. Undiverted(scripts[k])'
      BY <1>4, <2>1, <2>2, <2>3, <3>1 DEF Undiverted
    <3> QED
      BY <1>6, <3>2
  <2>4. CASE /\ Paths!categoryMap(k) /\ scripts'[k].has = q.has \cup {"categories"}
             /\ scripts'[k].found = q.found /\ scripts'[k].todo = q.todo
             /\ \A c \in Categories : scripts'[k].paths[c] =
                  IF q.name = "ad-paths" THEN cats[c].path ELSE Paths!PathOf[c]
    <3>1. scripts'[k].name = q.name
      BY <1>9, ReadFact
    <3> HIDE DEF q
    <3>2. Undiverted(scripts[k])'
      BY <1>1, <1>4, <2>1, <2>2, <2>4, <3>1 DEF Undiverted, InTree
    <3> QED
      BY <1>6, <3>2
  <2> QED
    BY <1>9, <2>3, <2>4, ReadFact
<1>10. CASE Paths!backfillEnds(k)
  <2>1. scripts'[k] = Paths!NoScript
    BY <1>10 DEF Paths!backfillEnds, Paths!RunsOn, PathsSound, Shaped
  <2> QED
    BY <1>6, <2>1, RestFact DEF Undiverted
<1>11. ASSUME NEW x \in Ads, Paths!backfillAd(k, x)
      PROVE  AloneSound'
  <2>1. /\ q.has = {"ads", "categories"} /\ q.name # "none" /\ q \in AnyScript
        /\ ads \in [Ads -> AnyAd \cup {null}]
    BY <1>11, BackfillFact DEF PathsSound, Shaped
  <2>2. Undiverted(q)
    BY <1>7, <2>1
  <2>3. CASE scripts'[k] = Paths!NoScript
    BY <1>6, <2>3, RestFact DEF Undiverted
  <2>4. CASE scripts'[k] # Paths!NoScript
    <3>1. PICK new \in AnyAd :
            /\ new.cat = ads[x].cat
            /\ new.path = q.paths[q.found[x]]
            /\ new.seo = IF q.name = "ad-paths" THEN new.path ELSE ads[x].seo
            /\ ads' = [ads EXCEPT ![x] = new]
      BY <1>11, <2>4, BackfillFact
    <3>2. /\ ads[x] # null /\ scripts'[k].name = q.name /\ scripts'[k].has = q.has
          /\ scripts'[k].found = q.found /\ scripts'[k].paths = q.paths
          /\ scripts'[k].todo = q.todo \ {x}
      BY <1>11, <2>4, BackfillFact
    <3> HIDE DEF q
    <3>3. ASSUME NEW y \in Ads, ads'[y] # null
          PROVE  /\ q.found[y] = ads'[y].cat
                 /\ q.name = "ad-paths" => y \in q.todo \ {x} \/ InTree(ads[y])'
      <4>1. CASE y = x
        <5>1. ads'[y] = new /\ q.found[x] = ads[x].cat
          BY <2>1, <2>2, <3>1, <3>2, <4>1 DEF Undiverted
        <5>2. q.name = "ad-paths" => new.path = Paths!PathOf[new.cat] /\ new.seo = new.path
          BY <2>1, <2>2, <3>1, <5>1 DEF Undiverted, AnyAd
        <5> QED
          BY <1>4, <3>1, <4>1, <5>1, <5>2 DEF InTree
      <4>2. CASE y # x
        <5>1. ads'[y] = ads[y]
          BY <2>1, <3>1, <4>2
        <5> QED
          BY <1>4, <2>1, <2>2, <3>3, <4>2, <5>1 DEF Undiverted, InTree
      <4> QED
        BY <4>1, <4>2
    <3>4. Undiverted(scripts[k])'
      BY <1>4, <2>1, <2>2, <3>2, <3>3 DEF Undiverted
    <3> QED
      BY <1>6, <3>4
  <2> QED
    BY <2>3, <2>4
<1> QED
  BY <1>2, <1>8, <1>9, <1>10, <1>11 DEF Prepares

(* The way up: what is left of it and what has been gone make the path.    *)
LEMMA UpFact ==
  ASSUME Paths!AdCategoryAssumption, Shaped, NEW c \in Categories, NEW tail \in Seq(Slugs)
  PROVE  Paths!PathOf[c] \o tail = IF Parent[c] = null THEN <<cats[c].slug>> \o tail
                             ELSE Paths!PathOf[Parent[c]] \o (<<cats[c].slug>> \o tail)
<1> DEFINE own == <<cats[c].slug>>
<1>1. own \in Seq(Slugs)
  BY DEF Shaped
<1>2. Paths!PathOf[c] = (IF Parent[c] = null THEN <<>> ELSE Paths!PathOf[Parent[c]]) \o own
  BY PathFact
<1>3. CASE Parent[c] = null
  <2> HIDE DEF own
  <2>1. Paths!PathOf[c] = <<>> \o own
    BY <1>2, <1>3
  <2>2. Paths!PathOf[c] = own
    BY <1>1, <2>1, ConcatEmptySeq
  <2> QED
    BY <1>3, <2>2 DEF own
<1>4. CASE Parent[c] # null
  <2>1. Paths!PathOf[Parent[c]] \in Seq(Slugs)
    BY <1>4, PathFact DEF Paths!AdCategoryAssumption
  <2> DEFINE head == Paths!PathOf[Parent[c]]
  <2> HIDE DEF own, head
  <2>2. head \in Seq(Slugs)
    BY <2>1 DEF head
  <2>3. (head \o own) \o tail = head \o (own \o tail)
    BY <1>1, <2>2, ConcatAssociative
  <2> QED
    BY <1>2, <1>4, <2>3 DEF own, head
<1> QED
  BY <1>3, <1>4

(* While all is calm: what a step of the only request makes of it.         *)
LEMMA CalmEditor ==
  ASSUME Paths!AdCategoryAssumption, PathsSound, Paths!MCNext, calm',
         NEW r \in Editors, EditorStep(r)
  PROVE  CalmSound'
<1> USE DEF InCalm
<1>0. /\ calm /\ CalmSound /\ Shaped /\ cats' = cats /\ scripts' = scripts /\ Paths!PathOf' = Paths!PathOf
      /\ ads \in [Ads -> AnyAd \cup {null}] /\ edits \in [Editors -> AnyRequest]
  BY PathsStay, EditorFact DEF Paths!MCNext, PathsSound, Shaped
<1>1. InCalm
  BY <1>0 DEF CalmSound
<1>2. ASSUME NEW new, Begun(r, new)
      PROVE  CalmSound'
  <2>1. /\ new \in AnyRequest /\ Bound(new) /\ new.step # "idle" /\ edits[r].step = "idle"
        /\ Paths!Goes(r, new) /\ ads' = ads
    BY <1>2 DEF Begun
  <2>2. /\ edits'[r] = new /\ \A s \in Editors \ {r} : edits'[s] = edits[s]
    BY <2>1, GoesFact
  <2>3. Paths!Begins
    BY <2>1, <2>2 DEF Paths!Begins
  <2>4. Paths!Quiet /\ \A k \in Scripts : scripts[k].name = "none"
    BY <2>3 DEF Paths!MCNext, Paths!Running
  <2>5. WalkInformed(new)'
    <3>1. CASE new.step = "walk" /\ new.at = new.cat /\ new.path = <<>>
      <4>1. new.cat \in Categories
        BY <2>1, <3>1 DEF AnyRequest, Bound
      <4>2. Paths!PathOf[new.cat] \o <<>> = Paths!PathOf[new.cat]
        BY <1>0, <4>1, PathFact, ConcatEmptySeq
      <4> QED
        BY <1>0, <3>1, <4>2 DEF WalkInformed
    <3>2. CASE /\ new.step = "save" /\ new.cat = null
               /\ ads[new.ad] # null /\ new.path = ads[new.ad].path
      <4>1. new.ad \in Ads
        BY <2>1, <3>2 DEF AnyRequest, Bound
      <4> QED
        BY <1>0, <1>1, <2>1, <3>2, <4>1 DEF WalkInformed, InTree
    <3> QED
      BY <1>2, <3>1, <3>2 DEF Begun
  <2>6. \A s \in Editors : WalkInformed(edits[s])'
    BY <2>2, <2>4, <2>5 DEF Paths!Quiet, WalkInformed
  <2>7. \A x \in Ads : ads'[x] # null => InTree(ads[x])'
    BY <1>0, <1>1, <2>1 DEF InTree
  <2> QED
    BY <1>0, <1>1, <2>1, <2>2, <2>4, <2>6, <2>7 DEF CalmSound, InCalm, Paths!Quiet, ScriptInformed
<1>3. ASSUME NEW new \in AnyRequest, Bound(new), Paths!Goes(r, new), ads' = ads,
             edits[r].step # "idle", WalkInformed(new)
      PROVE  CalmSound'
  <2>1. /\ edits'[r] = new /\ \A s \in Editors \ {r} : edits'[s] = edits[s] /\ edits[s].step = "idle"
    BY <1>1, <1>3, GoesFact
  <2>2. \A s \in Editors : WalkInformed(edits[s])'
    BY <1>0, <1>3, <2>1 DEF WalkInformed
  <2>3. \A x \in Ads : ads'[x] # null => InTree(ads[x])'
    BY <1>0, <1>1, <1>3 DEF InTree
  <2> QED
    BY <1>0, <1>1, <1>3, <2>1, <2>2, <2>3 DEF CalmSound, InCalm, ScriptInformed
<1>4. CASE Paths!getCategoryPath(r)
  <2> DEFINE q == edits[r]
             new == Walked(q)
  <2>1. /\ q \in AnyRequest /\ q.step = "walk"
        /\ q.at \in Categories /\ q.cat \in Categories
        /\ new \in AnyRequest /\ Bound(new)
        /\ new.step = IF Parent[q.at] # null THEN "walk" ELSE q.next
        /\ new.at = Parent[q.at] /\ new.cat = q.cat
        /\ new.path = <<cats[q.at].slug>> \o q.path
        /\ Paths!Goes(r, new) /\ ads' = ads
    BY <1>4, WalkFact
  <2>2. Paths!PathOf[q.cat] = Paths!PathOf[q.at] \o q.path
    BY <1>1, <2>1 DEF WalkInformed
  <2>3. q.path \in Seq(Slugs) /\ q.next \in {"check", "insert", "save"} /\ q.cat # null
    BY <2>1 DEF AnyRequest, Paths!AdCategoryAssumption
  <2>4. Paths!PathOf[q.cat] = IF Parent[q.at] = null THEN new.path ELSE Paths!PathOf[Parent[q.at]] \o new.path
    BY <1>0, <2>1, <2>2, <2>3, UpFact
  <2> HIDE DEF q, new
  <2>5. WalkInformed(new)
    BY <2>1, <2>3, <2>4 DEF WalkInformed
  <2> QED
    BY <1>3, <2>1, <2>5 DEF q
<1>5. CASE Paths!checkUnit(r)
  <2>1. PICK new \in AnyRequest :
           /\ Bound(new) /\ Paths!Goes(r, new) /\ ads' = ads
           /\ edits[r].step = "check"
           /\ \/ new = Paths!Idle
              \/ new.step = "create" /\ new.path = edits[r].path /\ new.cat = edits[r].cat
    BY <1>5, CheckFact
  <2>2. WalkInformed(new)
    BY <1>1, <2>1, RestFact DEF WalkInformed
  <2> QED
    BY <1>3, <2>1, <2>2
<1>6. CASE Paths!insert(r) \/ Paths!save(r)
  <2> DEFINE q == edits[r]
  <2>1. /\ Paths!Goes(r, Paths!Idle) /\ q.step \in {"create", "insert", "save"}
        /\ q \in AnyRequest /\ q.ad \in Ads /\ q.path \in Seq(Slugs)
        /\ \/ ads' = ads
           \/ \E c \in Categories :
                /\ ads' = [ads EXCEPT ![q.ad] = [cat |-> c, path |-> q.path, seo |-> q.path]]
                /\ IF q.cat # null THEN c = q.cat
                   ELSE /\ q.step = "save" /\ ads[q.ad] # null
                        /\ c = ads[q.ad].cat
    BY <1>6, WriteFact
  <2>2. Paths!Idle \in AnyRequest /\ Bound(Paths!Idle) /\ Paths!Idle.step = "idle" /\ WalkInformed(Paths!Idle)
    BY RestFact DEF WalkInformed
  <2>3. WalkInformed(q) /\ q.step # "idle" /\ \A k \in Scripts : scripts[k].name = "none"
    BY <1>1, <2>1
  <2> HIDE DEF q
  <2>4. CASE ads' = ads
    BY <1>3, <2>1, <2>2, <2>3, <2>4 DEF q
  <2>5. ASSUME NEW c \in Categories,
               ads' = [ads EXCEPT ![q.ad] = [cat |-> c, path |-> q.path, seo |-> q.path]],
               IF q.cat # null THEN c = q.cat
               ELSE q.step = "save" /\ ads[q.ad] # null /\ c = ads[q.ad].cat
        PROVE  CalmSound'
    <3>1. q.path = Paths!PathOf[c]
      BY <2>1, <2>3, <2>5 DEF WalkInformed
    <3>2. \A s \in Editors : edits'[s].step = "idle"
      BY <1>1, <2>1, <2>2, <2>3, GoesFact DEF q
    <3>3. \A x \in Ads : ads'[x] # null => InTree(ads[x])'
      BY <1>0, <1>1, <2>5, <3>1 DEF InTree
    <3>4. \A k \in Scripts : scripts[k].has = {}
      BY <2>3 DEF PathsSound, KnowsAds
    <3> QED
      BY <1>0, <1>1, <3>2, <3>3, <3>4 DEF CalmSound, InCalm, WalkInformed, ScriptInformed, InTree
  <2> QED
    BY <2>1, <2>4, <2>5
<1> QED
  BY <1>2, <1>4, <1>5, <1>6 DEF EditorStep

(* ... and of the only script.                                             *)
LEMMA CalmScript ==
  ASSUME Paths!AdCategoryAssumption, PathsSound, Paths!MCNext, calm', NEW k \in Scripts,
         Prepares(k) \/ \E x \in Ads : Paths!backfillAd(k, x)
  PROVE  CalmSound'
<1> USE DEF InCalm
<1> DEFINE q == scripts[k]
<1>0. /\ calm /\ CalmSound /\ Shaped /\ cats' = cats /\ edits' = edits /\ Paths!PathOf' = Paths!PathOf
      /\ ads \in [Ads -> AnyAd \cup {null}] /\ q \in AnyScript
      /\ scripts \in [Scripts -> AnyScript] /\ scripts' \in [Scripts -> AnyScript]
      /\ \A l \in Scripts \ {k} : scripts'[l] = scripts[l]
      /\ scripts' # scripts => Paths!Quiet
  BY PathsStay, ScriptFact, BackfillFact DEF Paths!MCNext, PathsSound, Shaped
<1>1. InCalm
  BY <1>0 DEF CalmSound
<1>2. ASSUME ads' = ads, ScriptInformed(scripts[k])'
      PROVE  CalmSound'
  <2>1. \A l \in Scripts \ {k} : ScriptInformed(scripts[l])'
    BY <1>0, <1>1, <1>2 DEF ScriptInformed
  <2>2. \A l \in Scripts : ScriptInformed(scripts[l])'
    BY <1>2, <2>1
  <2>3. scripts' = scripts \/ Paths!Quiet
    BY <1>0
  <2> QED
    BY <1>0, <1>1, <1>2, <2>2, <2>3 DEF CalmSound, InCalm, Paths!Quiet, WalkInformed, InTree
<1>3. ASSUME ads' = ads, scripts'[k].has = {}
      PROVE  CalmSound'
  BY <1>2, <1>3 DEF ScriptInformed
<1>4. ASSUME NEW name \in {"ad-paths", "category-path"}, Paths!backfill(k, name)
      PROVE  CalmSound'
  <2>1. scripts'[k] = [Paths!NoScript EXCEPT !.name = name] /\ ads' = ads
    BY <1>0, <1>4 DEF Paths!backfill, Paths!RunsOn
  <2>2. scripts'[k].has = {}
    BY <2>1 DEF Paths!NoScript
  <2> QED
    BY <1>3, <2>1, <2>2
<1>5. CASE Paths!findAds(k) \/ Paths!categoryMap(k)
  <2>1. ads' = ads
    BY <1>5 DEF Paths!findAds, Paths!categoryMap
  <2>2. ScriptInformed(q)
    BY <1>1
  <2>3. /\ "categories" \in scripts'[k].has => \A c \in Categories : scripts'[k].paths[c] = Paths!PathOf[c]
        /\ "ads" \in scripts'[k].has =>
             \A x \in Ads : ads[x] # null => scripts'[k].found[x] = ads[x].cat
    BY <1>1, <1>5, <2>2, ReadFact DEF ScriptInformed
  <2> QED
    BY <1>0, <1>2, <2>1, <2>3 DEF ScriptInformed
<1>6. CASE Paths!backfillEnds(k)
  <2>1. scripts'[k].has = {} /\ ads' = ads
    BY <1>0, <1>6, RestFact DEF Paths!backfillEnds, Paths!RunsOn
  <2> QED
    BY <1>3, <2>1
<1>7. ASSUME NEW x \in Ads, Paths!backfillAd(k, x)
      PROVE  CalmSound'
  <2>1. CASE ads' = ads /\ scripts'[k] = Paths!NoScript
    BY <1>3, <2>1, RestFact
  <2>2. CASE ~(ads' = ads /\ scripts'[k] = Paths!NoScript)
    <3>1. PICK new \in AnyAd :
            /\ new.cat = ads[x].cat
            /\ new.path = q.paths[q.found[x]]
            /\ new.seo = IF q.name = "ad-paths" THEN new.path ELSE ads[x].seo
            /\ ads' = [ads EXCEPT ![x] = new]
      BY <1>7, <2>2, BackfillFact
    <3>2. /\ ads[x] # null /\ ads[x] \in AnyAd /\ q.has = {"ads", "categories"}
          /\ scripts'[k].has = q.has /\ scripts'[k].found = q.found
          /\ scripts'[k].paths = q.paths
          /\ x \in q.todo /\ scripts'[k].todo = q.todo \ {x}
      BY <1>7, <2>2, BackfillFact
    <3>3. Paths!Quiet
      BY <1>0, <3>2
    <3>4. ScriptInformed(q)
      BY <1>1
    <3>5. new.path = Paths!PathOf[new.cat] /\ new.seo = new.path
      <4>1. q.found[x] = ads[x].cat /\ ads[x].cat \in Categories
        BY <3>2, <3>4 DEF ScriptInformed, AnyAd
      <4>2. new.path = Paths!PathOf[new.cat]
        BY <3>1, <3>2, <3>4, <4>1 DEF ScriptInformed
      <4>3. InTree(ads[x])
        BY <1>1, <3>2
      <4> QED
        BY <3>1, <4>2, <4>3 DEF InTree
    <3>6. \A y \in Ads : ads'[y] # null => InTree(ads[y])' /\ ads[y] # null /\ ads'[y].cat = ads[y].cat
      BY <1>0, <1>1, <3>1, <3>2, <3>5 DEF InTree
    <3>7. \A l \in Scripts \ {k} : ScriptInformed(scripts[l])'
      BY <1>0, <1>1, <3>6 DEF ScriptInformed
    <3> HIDE DEF q
    <3>8. ScriptInformed(scripts[k])'
      BY <1>0, <3>2, <3>4, <3>6 DEF ScriptInformed
    <3>9. \A l \in Scripts : ScriptInformed(scripts[l])'
      BY <3>7, <3>8
    <3> QED
      BY <1>0, <1>1, <3>3, <3>6, <3>9 DEF CalmSound, InCalm, Paths!Quiet, WalkInformed
  <2> QED
    BY <2>1, <2>2
<1> QED
  BY <1>4, <1>5, <1>6, <1>7 DEF Prepares

LEMMA StepCalm ==
  ASSUME Paths!AdCategoryAssumption, PathsSound, Paths!MCNext
  PROVE  CalmSound'
<1> SUFFICES ASSUME calm'
             PROVE  CalmSound'
  BY DEF CalmSound, InCalm
<1> USE DEF InCalm
<1>0. /\ Paths!Next /\ calm /\ CalmSound /\ Shaped /\ cats' = cats /\ Paths!PathOf' = Paths!PathOf
      /\ ads \in [Ads -> AnyAd \cup {null}]
      /\ edits' = edits /\ scripts' = scripts => ~Paths!Moves
  BY PathsStay DEF Paths!MCNext, PathsSound, Shaped
<1>1. InCalm
  BY <1>0 DEF CalmSound
<1>2. ASSUME NEW x \in Ads, NEW c \in Categories, Paths!update(x, c)
      PROVE  CalmSound'
  <2>1. /\ edits' = edits /\ scripts' = scripts /\ ads[x] \in AnyAd /\ ads[x] # null
        /\ ads' = [ads EXCEPT ![x] = [ads[x] EXCEPT !.cat = c]]
    BY <1>2, ChangedFact DEF Paths!update, Paths!Changed
  <2> DEFINE new == [ads[x] EXCEPT !.cat = c]
  <2>2. new.cat = c /\ new.path = ads[x].path /\ new.seo = ads[x].seo
    BY <2>1 DEF AnyAd
  <2>3. ads' = [ads EXCEPT ![x] = new]
    BY <2>1
  <2> HIDE DEF new
  <2>4. new # null => c = ads[x].cat
    BY <1>0, <2>1, <2>2, <2>3 DEF Paths!Moves
  <2>5. \A y \in Ads : ads'[y] # null =>
          /\ ads[y] # null /\ ads'[y].cat = ads[y].cat
          /\ ads'[y].path = ads[y].path /\ ads'[y].seo = ads[y].seo
    BY <1>0, <2>1, <2>2, <2>3, <2>4
  <2>6. \A r \in Editors : WalkInformed(edits[r])'
    <3> SUFFICES ASSUME NEW r \in Editors
                 PROVE  WalkInformed(edits[r])'
      OBVIOUS
    <3>1. edits[r] \in AnyRequest /\ Bound(edits[r]) /\ WalkInformed(edits[r])
      BY <1>1 DEF InCalm, PathsSound, Shaped
    <3>2. edits[r].step = "save" => edits[r].ad \in Ads
      BY <3>1 DEF AnyRequest, Bound
    <3> QED
      BY <1>0, <2>1, <2>5, <3>1, <3>2 DEF WalkInformed
  <2> QED
    BY <1>0, <1>1, <2>1, <2>5, <2>6 DEF CalmSound, InCalm, InTree, ScriptInformed
<1>3. ASSUME NEW x \in Ads, Paths!remove(x)
      PROVE  CalmSound'
  <2>1. /\ edits' = edits /\ scripts' = scripts /\ ads' = [ads EXCEPT ![x] = null]
    BY <1>3 DEF Paths!remove, Paths!Changed
  <2>2. \A y \in Ads : ads'[y] # null => ads'[y] = ads[y]
    BY <1>0, <2>1
  <2>3. \A r \in Editors : WalkInformed(edits[r])'
    <3> SUFFICES ASSUME NEW r \in Editors
                 PROVE  WalkInformed(edits[r])'
      OBVIOUS
    <3>1. edits[r] \in AnyRequest /\ Bound(edits[r]) /\ WalkInformed(edits[r])
      BY <1>1 DEF InCalm, PathsSound, Shaped
    <3>2. edits[r].step = "save" => edits[r].ad \in Ads
      BY <3>1 DEF AnyRequest, Bound
    <3> QED
      BY <1>0, <2>1, <2>2, <3>1, <3>2 DEF WalkInformed
  <2> QED
    BY <1>0, <1>1, <2>1, <2>2, <2>3 DEF CalmSound, InCalm, InTree, ScriptInformed
<1>4. CASE Paths!seedDies \/ \E s \in Slugs : Paths!upsertCategory(s)
  <2>1. ads' = ads /\ edits' = edits /\ scripts' = scripts
    BY <1>4, UpsertFact DEF Paths!seedDies
  <2> QED
    BY <1>0, <1>1, <2>1 DEF CalmSound, InCalm, WalkInformed, InTree, ScriptInformed
<1> QED
  BY <1>0, <1>2, <1>3, <1>4, StepCases, CalmEditor, CalmScript

LEMMA StepPaths ==
  ASSUME Paths!AdCategoryAssumption, PathsSound, Paths!MCNext
  PROVE  PathsSound'
BY StepBasic, StepSeo, StepAlone, StepCalm DEF Basic, PathsSound

LEMMA PathsInOrder ==
  ASSUME PathsSound
  PROVE  Paths!PathOfItsCategory /\ Paths!SeoFollowsPath /\ Paths!BackfillRepairs
BY DEF PathsSound, CalmSound, InCalm, AloneSound, Undiverted, InTree, Paths!PathOfItsCategory,
       Paths!BackfillRepairs

-----------------------------------------------------------------------------
(* In a tree of three levels no path is longer than three.                 *)

(* How far a category is from the root.                                    *)
Deep(c) ==
  IF Parent[c] = null THEN 1 ELSE IF Parent[Parent[c]] = null THEN 2 ELSE 3

(* A request has left no more of its way than of the three levels.         *)
WalkShort(q) ==
  /\ Len(q.path) <= 3
  /\ q.step = "walk" => Len(q.path) + Deep(q.at) <= 3

AdShort(ad) == Len(ad.path) <= 3 /\ Len(ad.seo) <= 3

ScriptShort(q) == \A c \in Categories : Len(q.paths[c]) <= 3

PathsShort ==
  /\ upserts \in 0..Len(Preorder)
  /\ \A c \in Categories : Len(cats[c].path) <= Deep(c)
  /\ \A k \in Scripts : ScriptShort(scripts[k])
  /\ \A x \in Ads : ads[x] # null => AdShort(ads[x])
  /\ \A r \in Editors : WalkShort(edits[r])

LEMMA ShortPath ==
  ASSUME NEW s \in Seq(Slugs), Len(s) <= 3
  PROVE  s \in Paths!Path
<1>1. Len(s) \in Nat /\ s \in [1..Len(s) -> Slugs]
  BY LenProperties
<1>2. Len(s) \in 0..3
  BY <1>1
<1> QED
  BY <1>1, <1>2 DEF Paths!Path, Paths!Depth

LEMMA DeepFact ==
  ASSUME Paths!AdCategoryAssumption, NEW c \in Categories
  PROVE  /\ Deep(c) \in 1..3
         /\ Parent[c] # null => Parent[c] \in Categories /\ Deep(Parent[c]) + 1 <= Deep(c)
BY DEF Deep, Paths!AdCategoryAssumption

LEMMA ShortTypes ==
  ASSUME Paths!AdCategoryAssumption, PathsSound, PathsShort
  PROVE  Paths!TypeOK
<1>1. cats \in [Categories -> [slug : Slugs, path : Paths!Path]]
  <2>1. ASSUME NEW c \in Categories
        PROVE  cats[c] \in [slug : Slugs, path : Paths!Path]
    <3>1. cats[c] \in [slug : Slugs, path : Seq(Slugs)] /\ Len(cats[c].path) <= 3
      BY DeepFact DEF PathsSound, Shaped, PathsShort
    <3>2. cats[c].path \in Paths!Path
      BY <3>1, ShortPath
    <3> QED  BY <3>1, <3>2
  <2> QED  BY <2>1 DEF PathsSound, Shaped
<1>2. ads \in [Ads -> Paths!Ad \cup {null}]
  <2>1. ASSUME NEW x \in Ads, ads[x] # null
        PROVE  ads[x] \in Paths!Ad
    <3>1. ads[x] \in AnyAd /\ Len(ads[x].path) <= 3 /\ Len(ads[x].seo) <= 3
      BY <2>1 DEF PathsSound, Shaped, PathsShort, AdShort
    <3>2. ads[x].path \in Paths!Path /\ ads[x].seo \in Paths!Path
      BY <3>1, ShortPath DEF AnyAd
    <3> QED  BY <3>1, <3>2 DEF AnyAd, Paths!Ad
  <2> QED  BY <2>1 DEF PathsSound, Shaped
<1>3. edits \in [Editors -> Paths!Request]
  <2>1. ASSUME NEW r \in Editors
        PROVE  edits[r] \in Paths!Request
    <3>1. edits[r] \in AnyRequest /\ Len(edits[r].path) <= 3
      BY DEF PathsSound, Shaped, PathsShort, WalkShort
    <3>2. edits[r].path \in Paths!Path
      BY <3>1, ShortPath DEF AnyRequest
    <3> QED  BY <3>1, <3>2 DEF AnyRequest, Paths!Request
  <2> QED  BY <2>1 DEF PathsSound, Shaped
<1>4. scripts \in [Scripts -> Paths!Script]
  <2>1. ASSUME NEW k \in Scripts
        PROVE  scripts[k] \in Paths!Script
    <3> DEFINE q == scripts[k]
    <3>1. q \in AnyScript /\ ScriptShort(q)
      BY DEF PathsSound, Shaped, PathsShort
    <3> HIDE DEF q
    <3>2. ASSUME NEW c \in Categories
          PROVE  q.paths[c] \in Paths!Path
      <4>1. q.paths[c] \in Seq(Slugs) /\ Len(q.paths[c]) <= 3
        BY <3>1 DEF AnyScript, ScriptShort
      <4> QED  BY <4>1, ShortPath
    <3>3. q.paths \in [Categories -> Paths!Path]
      BY <3>1, <3>2 DEF AnyScript
    <3>4. q \in Paths!Script
      BY <3>1, <3>3 DEF AnyScript, Paths!Script
    <3> QED  BY <3>4 DEF q
  <2> QED  BY <2>1 DEF PathsSound, Shaped
<1> QED
  BY <1>1, <1>2, <1>3, <1>4 DEF Paths!TypeOK, PathsShort

LEMMA ExplicitShort ==
  ASSUME Paths!AdCategoryAssumption, NEW slug \in [Categories -> Slugs], NEW c \in Categories
  PROVE  Len(Explicit(slug)[c]) <= Deep(c)
BY DEF Explicit, Deep

LEMMA PathShort ==
  ASSUME Paths!AdCategoryAssumption, PathsSound, NEW c \in Categories
  PROVE  Len(Paths!PathOf[c]) <= 3
<1>1. Slugged \in [Categories -> Slugs] /\ Shaped
  BY DEF PathsSound, Shaped, Slugged
<1>2. Len(Paths!PathOf[c]) <= Deep(c) /\ Len(Paths!PathOf[c]) \in Nat
  <2>1. Paths!PathOf = Explicit(Slugged) /\ Paths!PathOf \in [Categories -> Seq(Slugs)]
    BY <1>1, PathFact
  <2> QED  BY <1>1, <2>1, ExplicitShort
<1> QED  BY <1>2, DeepFact

LEMMA InitShort ==
  ASSUME Paths!AdCategoryAssumption, Paths!MCInit
  PROVE  PathsShort
<1>1. PathsSound
  BY InitPaths
<1>2. /\ \A r \in Editors : edits[r] = Paths!Idle
      /\ \A x \in Ads : ads[x] = null
      /\ (\A k \in Scripts : scripts[k] = Paths!NoScript) /\ calm /\ upserts = 0
  BY DEF Paths!MCInit, Paths!Init
<1>3. ASSUME NEW c \in Categories
      PROVE  Len(cats[c].path) <= Deep(c)
  <2>1. cats[c].path = Paths!PathOf[c]
    BY <1>1, <1>2 DEF PathsSound, CalmSound, InCalm
  <2>2. Slugged \in [Categories -> Slugs] /\ Shaped
    BY <1>1 DEF PathsSound, Shaped, Slugged
  <2> QED  BY <2>1, <2>2, PathFact, ExplicitShort
<1>4. \A k \in Scripts : ScriptShort(scripts[k])
  BY <1>2 DEF Paths!NoScript, ScriptShort
<1>5. \A r \in Editors : WalkShort(edits[r])
  BY <1>2 DEF Paths!Idle, WalkShort
<1>6. Len(Preorder) \in Nat
  BY DEF Paths!AdCategoryAssumption
<1> QED
  BY <1>2, <1>3, <1>4, <1>5, <1>6 DEF PathsShort

(* A request whose path gets no longer, unless it has gone up a row.       *)
LEMMA EditorShort ==
  ASSUME Paths!AdCategoryAssumption, PathsSound, PathsShort, NEW r \in Editors, EditorStep(r)
  PROVE  /\ \A s \in Editors : WalkShort(edits'[s])
         /\ \A x \in Ads : ads'[x] # null => AdShort(ads'[x])
<1>0. /\ edits \in [Editors -> AnyRequest] /\ ads \in [Ads -> AnyAd \cup {null}]
      /\ WalkShort(edits[r]) /\ WalkShort(Paths!Idle)
  BY DEF PathsSound, Shaped, PathsShort, Paths!Idle, WalkShort
<1>1. ASSUME NEW new \in AnyRequest, Bound(new), WalkShort(new), Paths!Goes(r, new)
      PROVE  \A s \in Editors : WalkShort(edits'[s])
  BY <1>1, GoesFact DEF PathsShort
<1>2. ASSUME ads' = ads
      PROVE  \A x \in Ads : ads'[x] # null => AdShort(ads'[x])
  BY <1>2 DEF PathsShort
<1>3. ASSUME NEW new, Begun(r, new)
      PROVE  new \in AnyRequest /\ Bound(new) /\ WalkShort(new) /\ Paths!Goes(r, new) /\ ads' = ads
  <2>1. /\ new \in AnyRequest /\ Bound(new) /\ Paths!Goes(r, new) /\ ads' = ads
        /\ \/ new.step = "walk" /\ new.at = new.cat /\ new.path = <<>>
           \/ new.step = "save" /\ ads[new.ad] # null /\ new.path = ads[new.ad].path
    BY <1>3 DEF Begun
  <2>2. CASE new.step = "walk" /\ new.at = new.cat /\ new.path = <<>>
    <3>1. new.at \in Categories
      BY <2>1, <2>2 DEF Bound, AnyRequest
    <3>2. Deep(new.at) \in 1..3 /\ Len(new.path) = 0
      BY <2>2, <3>1, DeepFact
    <3> QED  BY <2>1, <3>2 DEF WalkShort
  <2>3. CASE new.step = "save" /\ ads[new.ad] # null /\ new.path = ads[new.ad].path
    <3>1. new.ad \in Ads
      BY <2>1, <2>3 DEF Bound, AnyRequest
    <3> QED  BY <2>1, <2>3, <3>1 DEF WalkShort, PathsShort, AdShort
  <2> QED  BY <2>1, <2>2, <2>3
<1>4. CASE Paths!getCategoryPath(r)
  <2> DEFINE q == edits[r]
             new == Walked(q)
  <2>1. /\ q \in AnyRequest /\ q.step = "walk" /\ q.at \in Categories
        /\ new \in AnyRequest /\ Bound(new)
        /\ new.step = IF Parent[q.at] # null THEN "walk" ELSE q.next
        /\ new.at = Parent[q.at] /\ new.path = <<cats[q.at].slug>> \o q.path
        /\ Paths!Goes(r, new) /\ ads' = ads
    BY <1>4, WalkFact
  <2> HIDE DEF q, new
  <2>2. Len(q.path) + Deep(q.at) <= 3 /\ q.path \in Seq(Slugs) /\ cats[q.at].slug \in Slugs
    BY <1>0, <2>1 DEF q, WalkShort, AnyRequest, PathsSound, Shaped
  <2>3. Len(new.path) = Len(q.path) + 1
    BY <2>1, <2>2
  <2>4. /\ Deep(q.at) \in 1..3 /\ Len(q.path) \in Nat
        /\ Parent[q.at] # null =>
             Deep(Parent[q.at]) \in 1..3 /\ Deep(Parent[q.at]) + 1 <= Deep(q.at)
    BY <2>1, <2>2, DeepFact
  <2>5. new.step = "walk" => Parent[q.at] # null
    BY <2>1 DEF AnyRequest
  <2>6. WalkShort(new)
    BY <2>1, <2>2, <2>3, <2>4, <2>5 DEF WalkShort
  <2> QED  BY <1>1, <1>2, <2>1, <2>6
<1>5. CASE Paths!checkUnit(r)
  <2>1. PICK new \in AnyRequest :
          /\ Bound(new) /\ Paths!Goes(r, new) /\ ads' = ads
          /\ \/ new = Paths!Idle
             \/ new.step = "create" /\ new.path = edits[r].path
    BY <1>5, CheckFact
  <2>2. WalkShort(new)
    BY <1>0, <2>1 DEF WalkShort
  <2> QED  BY <1>1, <1>2, <2>1, <2>2
<1>6. CASE Paths!insert(r) \/ Paths!save(r)
  <2>1. /\ Paths!Goes(r, Paths!Idle) /\ edits[r].ad \in Ads
        /\ \/ ads' = ads
           \/ \E c \in Categories :
                ads' = [ads EXCEPT ![edits[r].ad] =
                          [cat |-> c, path |-> edits[r].path, seo |-> edits[r].path]]
    BY <1>6, WriteFact
  <2>2. ASSUME NEW c \in Categories, NEW path, Len(path) <= 3,
               ads' = [ads EXCEPT ![edits[r].ad] = [cat |-> c, path |-> path, seo |-> path]]
        PROVE  \A x \in Ads : ads'[x] # null => AdShort(ads'[x])
    BY <1>0, <2>2 DEF AdShort, PathsShort
  <2>3. Len(edits[r].path) <= 3
    BY <1>0 DEF WalkShort
  <2>4. \A x \in Ads : ads'[x] # null => AdShort(ads'[x])
    BY <1>2, <2>1, <2>2, <2>3
  <2> QED  BY <1>0, <1>1, <2>1, <2>4, RestFact
<1> QED
  BY <1>1, <1>2, <1>3, <1>4, <1>5, <1>6 DEF EditorStep

LEMMA UpsertShort ==
  ASSUME Paths!AdCategoryAssumption, PathsSound, PathsShort, NEW s \in Slugs,
         Paths!upsertCategory(s)
  PROVE  \A d \in Categories : Len(cats'[d].path) <= Deep(d)
<1>0. Preorder \in Seq(Categories) /\ upserts \in Nat /\ upserts < Len(Preorder)
  BY DEF Paths!AdCategoryAssumption, PathsShort, Paths!upsertCategory
<1>1. PICK c \in Categories : c = Preorder[upserts + 1]
  <2>1. upserts + 1 \in 1..Len(Preorder)
    BY <1>0
  <2> QED  BY <1>0, <2>1
<1> DEFINE above == IF c \in Paths!Rooted THEN <<>> ELSE cats[Parent[c]].path
           path == above \o <<s>>
<1>2. /\ cats \in [Categories -> [slug : Slugs, path : Seq(Slugs)]]
      /\ cats' = [cats EXCEPT ![c] = [slug |-> s, path |-> path]]
  BY <1>1 DEF Paths!upsertCategory, PathsSound, Shaped
<1>3. above \in Seq(Slugs) /\ Len(above) + 1 <= Deep(c)
  <2>1. CASE Parent[c] = null
    BY <2>1 DEF Paths!Rooted, Deep
  <2>2. CASE Parent[c] # null
    <3>1. /\ Parent[c] \in Categories /\ Deep(Parent[c]) + 1 <= Deep(c)
          /\ Deep(Parent[c]) \in 1..3 /\ Deep(c) \in 1..3
      BY <2>2, DeepFact
    <3>2. /\ above = cats[Parent[c]].path /\ above \in Seq(Slugs) /\ Len(above) \in Nat
          /\ Len(above) <= Deep(Parent[c])
      BY <1>2, <2>2, <3>1 DEF Paths!Rooted, PathsShort
    <3> QED  BY <3>1, <3>2
  <2> QED  BY <2>1, <2>2
<1> HIDE DEF above
<1>4. Len(path) <= Deep(c)
  BY <1>3
<1> HIDE DEF path
<1> QED
  BY <1>2, <1>4 DEF PathsShort

(* What the scripts read and write is not longer.                          *)
LEMMA PreparedShort ==
  ASSUME Paths!AdCategoryAssumption, PathsSound, PathsShort, NEW k \in Scripts, Prepares(k)
  PROVE  \A l \in Scripts : ScriptShort(scripts'[l])
<1> DEFINE q == scripts[k]
<1>0. /\ q \in AnyScript /\ ScriptShort(q) /\ ScriptShort(Paths!NoScript)
      /\ scripts \in [Scripts -> AnyScript]
  BY DEF PathsSound, Shaped, PathsShort, ScriptShort, Paths!NoScript
<1> SUFFICES ScriptShort(scripts'[k])
  BY ScriptFact DEF PathsShort
<1>1. ASSUME NEW name \in {"ad-paths", "category-path"}, Paths!backfill(k, name)
      PROVE  ScriptShort(scripts'[k])
  <2>1. scripts'[k] = [Paths!NoScript EXCEPT !.name = name]
    BY <1>0, <1>1 DEF Paths!backfill, Paths!RunsOn
  <2>2. scripts'[k].paths = Paths!NoScript.paths
    BY <2>1, RestFact DEF AnyScript
  <2> QED  BY <1>0, <2>2 DEF ScriptShort
<1>2. CASE Paths!findAds(k)
  <2>1. scripts'[k].paths = q.paths
    <3> DEFINE found == [x \in Ads |-> IF ads[x] = null THEN null ELSE ads[x].cat]
               todo == {x \in Ads : ads[x] # null}
    <3>1. scripts'[k] = [q EXCEPT !.has = @ \cup {"ads"}, !.found = found, !.todo = todo]
      BY <1>0, <1>2 DEF Paths!findAds, Paths!RunsOn
    <3> HIDE DEF found, todo, q
    <3> QED  BY <1>0, <3>1 DEF AnyScript
  <2> QED  BY <1>0, <2>1 DEF ScriptShort
<1>3. CASE Paths!categoryMap(k)
  <2> DEFINE columns == IF q.name = "ad-paths" THEN [c \in Categories |-> cats[c].path] ELSE Paths!PathOf
  <2>1. scripts'[k] = [q EXCEPT !.has = @ \cup {"categories"}, !.paths = columns]
    BY <1>0, <1>3 DEF Paths!categoryMap, Paths!RunsOn
  <2>2. ASSUME NEW c \in Categories
        PROVE  Len(columns[c]) <= 3
    <3>1. Len(cats[c].path) \in Nat /\ Len(cats[c].path) <= 3
      <4>1. cats[c].path \in Seq(Slugs) /\ Len(cats[c].path) <= Deep(c) /\ Deep(c) \in 1..3
        BY DeepFact DEF PathsSound, Shaped, PathsShort
      <4> QED  BY <4>1
    <3> QED  BY <3>1, PathShort
  <2> HIDE DEF columns, q
  <2>3. scripts'[k].paths = columns
    BY <1>0, <2>1 DEF AnyScript
  <2> QED  BY <2>2, <2>3 DEF ScriptShort
<1>4. CASE Paths!backfillEnds(k)
  BY <1>0, <1>4 DEF Paths!backfillEnds, Paths!RunsOn
<1> QED
  BY <1>1, <1>2, <1>3, <1>4 DEF Prepares

LEMMA StepShort ==
  ASSUME Paths!AdCategoryAssumption, PathsSound, PathsShort, Paths!Next
  PROVE  PathsShort'
<1>0. /\ upserts' \in 0..Len(Preorder)
  <2>1. \/ upserts' = upserts
        \/ upserts' = 0
        \/ upserts < Len(Preorder) /\ upserts' = (upserts + 1) % Len(Preorder)
    <3>1. ASSUME NEW r \in Editors, EditorStep(r)
          PROVE  upserts' = upserts
      BY <3>1 DEF EditorStep, Begun, Paths!getCategoryPath, Paths!checkUnit,
                  Paths!insert, Paths!save, Paths!Goes
    <3>2. ASSUME NEW x \in Ads,
                 \/ \E c \in Categories : Paths!update(x, c)
                 \/ Paths!remove(x)
          PROVE  upserts' = upserts
      BY <3>2 DEF Paths!update, Paths!remove, Paths!Changed
    <3>3. ASSUME NEW s \in Slugs, Paths!upsertCategory(s)
          PROVE  upserts < Len(Preorder) /\ upserts' = (upserts + 1) % Len(Preorder)
      BY <3>3 DEF Paths!upsertCategory
    <3>4. ASSUME Paths!seedDies
          PROVE  upserts' = 0
      BY <3>4 DEF Paths!seedDies
    <3>5. ASSUME NEW k \in Scripts, Prepares(k) \/ \E x \in Ads : Paths!backfillAd(k, x)
          PROVE  upserts' = upserts
      BY <3>5 DEF Prepares, Paths!backfill, Paths!findAds, Paths!categoryMap,
                  Paths!backfillEnds, Paths!backfillAd, Paths!RunsOn
    <3> QED  BY <3>1, <3>2, <3>3, <3>4, <3>5, StepCases
  <2>2. Len(Preorder) \in Nat /\ upserts \in 0..Len(Preorder)
    BY DEF Paths!AdCategoryAssumption, PathsShort
  <2>3. ASSUME NEW n \in Nat, NEW m \in 0..n, m < n
        PROVE  (m + 1) % n \in 0..n
    <3>1. n \in Nat \ {0}
      BY <2>3
    <3> QED  BY <3>1
  <2> QED  BY <2>1, <2>2, <2>3
<1>1. ASSUME NEW r \in Editors, EditorStep(r)
      PROVE  PathsShort'
  BY <1>0, <1>1, EditorShort, EditorFact DEF PathsShort
<1>2. ASSUME NEW x \in Ads, NEW c \in Categories, Paths!update(x, c)
      PROVE  PathsShort'
  <2>1. /\ cats' = cats /\ edits' = edits /\ scripts' = scripts /\ ads[x] # null
        /\ \/ ads' = [ads EXCEPT ![x] = null]
           \/ ads' = [ads EXCEPT ![x] = [cat |-> c, path |-> ads[x].path, seo |-> ads[x].seo]]
    BY <1>2, ChangedFact
  <2> DEFINE new == [cat |-> c, path |-> ads[x].path, seo |-> ads[x].seo]
  <2>2. AdShort(new)
    BY <2>1 DEF AdShort, PathsShort
  <2> HIDE DEF new
  <2>3. \A y \in Ads : ads'[y] # null => AdShort(ads'[y])
    BY <2>1, <2>2 DEF PathsShort, PathsSound, Shaped, new
  <2> QED  BY <1>0, <2>1, <2>3 DEF PathsShort
<1>3. ASSUME NEW x \in Ads, Paths!remove(x)
      PROVE  PathsShort'
  <2>1. /\ cats' = cats /\ edits' = edits /\ scripts' = scripts
        /\ ads' = [ads EXCEPT ![x] = null]
    BY <1>3 DEF Paths!remove, Paths!Changed
  <2>2. \A y \in Ads : ads'[y] # null => AdShort(ads'[y])
    BY <2>1 DEF PathsShort, PathsSound, Shaped
  <2> QED  BY <1>0, <2>1, <2>2 DEF PathsShort
<1>4. ASSUME NEW k \in Scripts, NEW x \in Ads, Paths!backfillAd(k, x)
      PROVE  PathsShort'
  <2> DEFINE q == scripts[k]
  <2>1. /\ cats' = cats /\ edits' = edits
        /\ \A l \in Scripts \ {k} : scripts'[l] = scripts[l]
        /\ \/ ads' = ads /\ scripts'[k] = Paths!NoScript
           \/ /\ ads[x] # null /\ q.found[x] \in Categories
              /\ \E new \in AnyAd :
                   /\ new.path = q.paths[q.found[x]]
                   /\ new.seo = IF q.name = "ad-paths" THEN new.path ELSE ads[x].seo
                   /\ ads' = [ads EXCEPT ![x] = new]
              /\ scripts'[k].paths = q.paths
    BY <1>4, BackfillFact
  <2>2. ScriptShort(q) /\ ScriptShort(Paths!NoScript)
    BY DEF PathsShort, ScriptShort, Paths!NoScript
  <2> HIDE DEF q
  <2>3. ScriptShort(scripts'[k])
    BY <2>1, <2>2 DEF ScriptShort
  <2>4. \A l \in Scripts : ScriptShort(scripts'[l])
    BY <2>1, <2>3 DEF PathsShort
  <2>5. CASE ads' = ads
    BY <1>0, <2>1, <2>4, <2>5 DEF PathsShort
  <2>6. CASE ads' # ads
    <3>1. PICK new \in AnyAd :
            /\ new.path = q.paths[q.found[x]]
            /\ new.seo = IF q.name = "ad-paths" THEN new.path ELSE ads[x].seo
            /\ ads' = [ads EXCEPT ![x] = new]
      BY <2>1, <2>6
    <3>2. AdShort(new)
      BY <2>1, <2>2, <2>6, <3>1 DEF AdShort, PathsShort, ScriptShort
    <3>3. \A y \in Ads : ads'[y] # null => AdShort(ads'[y])
      BY <3>1, <3>2 DEF PathsShort, PathsSound, Shaped
    <3> QED  BY <1>0, <2>1, <2>4, <3>3 DEF PathsShort
  <2> QED  BY <2>5, <2>6
<1>5. ASSUME NEW s \in Slugs, Paths!upsertCategory(s)
      PROVE  PathsShort'
  BY <1>0, <1>5, UpsertFact, UpsertShort DEF PathsShort
<1>6. CASE Paths!seedDies
  BY <1>0, <1>6 DEF Paths!seedDies, PathsShort
<1>7. ASSUME NEW k \in Scripts, Prepares(k)
      PROVE  PathsShort'
  BY <1>0, <1>7, ScriptFact, PreparedShort DEF PathsShort
<1> QED
  BY <1>1, <1>2, <1>3, <1>4, <1>5, <1>6, <1>7, StepCases

-----------------------------------------------------------------------------
(* The search.  First levenshtein, whose table has one solution.           *)

LEMMA LeastNat ==
  ASSUME NEW T \in SUBSET Nat, T # {}
  PROVE  \E m \in T : \A n \in T : m <= n
<1>1. PICK m \in T : \A n \in T : ~(<<n, m>> \in OpToRel(<, Nat))
  <2>1. T \subseteq Nat
    OBVIOUS
  <2> QED  BY <2>1, WFMin, NatLessThanWellFounded
<1>2. \A n \in T : ~(n < m)
  <2>1. \A n \in T : n < m => <<n, m>> \in OpToRel(<, Nat)
    BY DEF OpToRel
  <2> QED  BY <2>1, <1>1
<1> QED  BY <1>2

-----------------------------------------------------------------------------
(* The table of distances.  x and y are functions on 1..k and 1..l; every  *)
(* entry follows from those before it, so that there is one table and only *)
(* one.                                                                    *)

LEMMA LeastOfThree ==
  ASSUME NEW i \in Nat, NEW j \in Nat, NEW k \in Nat
  PROVE  /\ Search!Min({i, j, k}) \in {i, j, k}
         /\ Search!Min({i, j, k}) <= i
         /\ Search!Min({i, j, k}) <= j
         /\ Search!Min({i, j, k}) <= k
<1> DEFINE S == {i, j, k}
<1>1. \E m \in S : \A n \in S : m <= n
  OBVIOUS
<1>2. Search!Min(S) \in S /\ \A n \in S : Search!Min(S) <= n
  BY <1>1 DEF Search!Min
<1> QED  BY <1>2

(* What an entry is, from those before it.                                 *)
Entry(f, x, y, i, j) ==
  IF i = 0 \/ j = 0 THEN i + j
  ELSE IF x[i] = y[j] THEN f[<<i - 1, j - 1>>]
  ELSE 1 + Search!Min({f[<<i - 1, j - 1>>], f[<<i - 1, j>>], f[<<i, j - 1>>]})

Cells(k, l) == (0..k) \X (0..l)

(* The table of x and y.                                                   *)
Table(f, x, y, k, l) ==
  /\ f \in [Cells(k, l) -> Nat]
  /\ \A i \in 0..k, j \in 0..l : f[<<i, j>>] = Entry(f, x, y, i, j)

LEMMA EntryIsNat ==
  ASSUME NEW k \in Nat, NEW l \in Nat, NEW x, NEW y, NEW f, NEW i \in 0..k, NEW j \in 0..l,
         \A m \in 0..k, n \in 0..l : m + n < i + j => f[<<m, n>>] \in Nat
  PROVE  Entry(f, x, y, i, j) \in Nat
<1>1. CASE i = 0 \/ j = 0
  BY <1>1 DEF Entry
<1>2. CASE i # 0 /\ j # 0
  <2>1. /\ f[<<i - 1, j - 1>>] \in Nat /\ f[<<i - 1, j>>] \in Nat
        /\ f[<<i, j - 1>>] \in Nat
    BY <1>2
  <2>2. \A u, v, w \in Nat : Search!Min({u, v, w}) \in Nat
    BY LeastOfThree
  <2>3. Search!Min({f[<<i - 1, j - 1>>], f[<<i - 1, j>>], f[<<i, j - 1>>]}) \in Nat
    BY <2>1, <2>2
  <2> QED  BY <1>2, <2>1, <2>3 DEF Entry
<1> QED  BY <1>1, <1>2

(* What holds of an entry as soon as it holds of all before it, holds of   *)
(* all.                                                                    *)
LEMMA CellByCell ==
  ASSUME NEW k \in Nat, NEW l \in Nat, NEW P,
         \A i \in 0..k, j \in 0..l :
           (\A m \in 0..k, n \in 0..l : m + n < i + j => <<m, n>> \in P) => <<i, j>> \in P
  PROVE  \A i \in 0..k, j \in 0..l : <<i, j>> \in P
<1> DEFINE Bad == {n \in Nat : \E i \in 0..k, j \in 0..l : i + j = n /\ <<i, j>> \notin P}
<1>1. ASSUME NEW i \in 0..k, NEW j \in 0..l, <<i, j>> \notin P
      PROVE  i + j \in Bad
  <2>1. i + j \in Nat
    OBVIOUS
  <2> QED  BY <2>1, <1>1
<1>2. ASSUME Bad # {}
      PROVE  FALSE
  <2>1. PICK n \in Bad : \A m \in Bad : n <= m
    BY <1>2, LeastNat, Bad \in SUBSET Nat
  <2>2. PICK i \in 0..k, j \in 0..l : i + j = n /\ <<i, j>> \notin P
    BY <2>1
  <2>3. PICK p \in 0..k, q \in 0..l : p + q < i + j /\ <<p, q>> \notin P
    BY <2>2
  <2>4. n <= p + q
    <3> HIDE DEF Bad
    <3> QED  BY <2>1, <2>3, <1>1
  <2> QED  BY <2>2, <2>3, <2>4
<1> QED
  <2> HIDE DEF Bad
  <2> QED  BY <1>1, <1>2

EntriesSo(f, x, y, k, l) ==
  \A i \in 0..k, j \in 0..l : f[<<i, j>>] = Entry(f, x, y, i, j)

Alike(x, s, n) == \A m \in 1..n : s[m] = x[m]

(* Two tables agree where their strings have agreed so far.                *)
LEMMA TablesAgree ==
  ASSUME NEW k \in Nat, NEW l \in Nat, NEW x, NEW y, NEW f, EntriesSo(f, x, y, k, l),
         NEW s, NEW t, NEW g, EntriesSo(g, s, t, k, l),
         Alike(x, s, k), Alike(y, t, l)
  PROVE  \A i \in 0..k, j \in 0..l : f[<<i, j>>] = g[<<i, j>>]
<1> DEFINE P == {p \in Cells(k, l) : f[p] = g[p]}
<1>1. \A i \in 0..k, j \in 0..l : <<i, j>> \in P <=> f[<<i, j>>] = g[<<i, j>>]
  BY DEF Cells
<1> HIDE DEF P
<1>2. ASSUME NEW i \in 0..k, NEW j \in 0..l,
             \A m \in 0..k, n \in 0..l : m + n < i + j => <<m, n>> \in P
      PROVE  <<i, j>> \in P
  <2>1. CASE i = 0 \/ j = 0
    <3>1. Entry(f, x, y, i, j) = Entry(g, s, t, i, j)
      BY <2>1 DEF Entry
    <3> QED  BY <3>1, <1>1 DEF EntriesSo
  <2>2. CASE i # 0 /\ j # 0
    <3>1. /\ i - 1 \in 0..k /\ j - 1 \in 0..l /\ i - 1 + (j - 1) < i + j
          /\ i - 1 + j < i + j /\ i + (j - 1) < i + j
      BY <2>2
    <3>2. /\ f[<<i - 1, j - 1>>] = g[<<i - 1, j - 1>>]
          /\ f[<<i - 1, j>>] = g[<<i - 1, j>>]
          /\ f[<<i, j - 1>>] = g[<<i, j - 1>>]
      BY <3>1, <1>1, <1>2
    <3>3. s[i] = x[i] /\ t[j] = y[j]
      BY <2>2 DEF Alike
    <3>4. Entry(f, x, y, i, j) = Entry(g, s, t, i, j)
      BY <2>2, <3>2, <3>3 DEF Entry
    <3> QED  BY <3>4, <1>1 DEF EntriesSo
  <2> QED  BY <2>1, <2>2
<1>3. \A i \in 0..k, j \in 0..l : <<i, j>> \in P
  BY <1>2, CellByCell
<1> QED  BY <1>1, <1>3

(* The table up to the entries with i + j <= n.                            *)
Tabulated(f, x, y, k, l, n) ==
  \A i \in 0..k, j \in 0..l : i + j <= n => f[<<i, j>>] = Entry(f, x, y, i, j)

LEMMA TableBegins ==
  ASSUME NEW k \in Nat, NEW l \in Nat, NEW x, NEW y, NEW n \in Nat
  PROVE  \E f : f = [p \in Cells(k, l) |-> f[p]] /\ Tabulated(f, x, y, k, l, n)
<1> DEFINE Has(m) == \E f : f = [p \in Cells(k, l) |-> f[p]] /\ Tabulated(f, x, y, k, l, m)
           Bad == {m \in Nat : ~Has(m)}
<1>1. ASSUME Bad # {}
      PROVE  FALSE
  <2>1. PICK m \in Bad : \A q \in Bad : m <= q
    BY <1>1, LeastNat, Bad \in SUBSET Nat
  <2>2. m # 0
    <3> DEFINE f == [p \in Cells(k, l) |-> 0]
    <3>1. f = [p \in Cells(k, l) |-> f[p]]
      OBVIOUS
    <3>2. \A i \in 0..k, j \in 0..l : i + j <= 0 => f[<<i, j>>] = Entry(f, x, y, i, j)
      BY DEF Cells, Entry
    <3> QED  BY <3>1, <3>2, <2>1 DEF Tabulated
  <2>3. Has(m - 1)
    BY <2>1, <2>2
  <2>4. PICK f : f = [p \in Cells(k, l) |-> f[p]] /\ Tabulated(f, x, y, k, l, m - 1)
    BY <2>3
  <2> DEFINE g == [p \in Cells(k, l) |->
                     IF p[1] + p[2] < m THEN f[p] ELSE Entry(f, x, y, p[1], p[2])]
  <2>5. g = [p \in Cells(k, l) |-> g[p]]
    OBVIOUS
  <2>6. \A i \in 0..k, j \in 0..l :
          g[<<i, j>>] = IF i + j < m THEN f[<<i, j>>] ELSE Entry(f, x, y, i, j)
    BY DEF Cells
  <2> HIDE DEF g
  <2>7. ASSUME NEW i \in 0..k, NEW j \in 0..l, i + j <= m
        PROVE  g[<<i, j>>] = Entry(g, x, y, i, j)
    <3>1. Entry(g, x, y, i, j) = Entry(f, x, y, i, j)
      <4>1. CASE i = 0 \/ j = 0
        BY <4>1 DEF Entry
      <4>2. CASE i # 0 /\ j # 0
        <5>1. /\ i - 1 \in 0..k /\ j - 1 \in 0..l /\ i - 1 + (j - 1) < m
              /\ i - 1 + j < m /\ i + (j - 1) < m
          BY <4>2, <2>7
        <5>2. /\ g[<<i - 1, j - 1>>] = f[<<i - 1, j - 1>>]
              /\ g[<<i - 1, j>>] = f[<<i - 1, j>>]
              /\ g[<<i, j - 1>>] = f[<<i, j - 1>>]
          BY <5>1, <2>6
        <5> QED  BY <5>2, <4>2 DEF Entry
      <4> QED  BY <4>1, <4>2
    <3>2. g[<<i, j>>] = Entry(f, x, y, i, j)
      <4>1. CASE i + j < m
        <5>1. i + j <= m - 1
          BY <4>1
        <5>2. f[<<i, j>>] = Entry(f, x, y, i, j)
          BY <5>1, <2>4 DEF Tabulated
        <5> QED  BY <5>2, <4>1, <2>6
      <4>2. CASE ~(i + j < m)
        BY <4>2, <2>6
      <4> QED  BY <4>1, <4>2
    <3> QED  BY <3>1, <3>2
  <2>8. Tabulated(g, x, y, k, l, m)
    BY <2>7 DEF Tabulated
  <2> QED  BY <2>1, <2>5, <2>8
<1> QED  BY <1>1

(* Numbers all of it.                                                      *)
LEMMA EntriesAreNat ==
  ASSUME NEW k \in Nat, NEW l \in Nat, NEW x, NEW y, NEW f, EntriesSo(f, x, y, k, l)
  PROVE  \A i \in 0..k, j \in 0..l : f[<<i, j>>] \in Nat
<1> DEFINE P == {p \in Cells(k, l) : f[p] \in Nat}
<1>1. \A i \in 0..k, j \in 0..l : <<i, j>> \in P <=> f[<<i, j>>] \in Nat
  BY DEF Cells
<1> HIDE DEF P
<1>2. ASSUME NEW i \in 0..k, NEW j \in 0..l,
             \A m \in 0..k, n \in 0..l : m + n < i + j => <<m, n>> \in P
      PROVE  <<i, j>> \in P
  <2>1. Entry(f, x, y, i, j) \in Nat
    BY <1>1, <1>2, EntryIsNat
  <2> QED  BY <2>1, <1>1 DEF EntriesSo
<1>3. \A i \in 0..k, j \in 0..l : <<i, j>> \in P
  BY <1>2, CellByCell
<1> QED  BY <1>1, <1>3

LEMMA TableExists ==
  ASSUME NEW k \in Nat, NEW l \in Nat, NEW x, NEW y
  PROVE  \E f : Table(f, x, y, k, l)
<1>1. k + l \in Nat
  OBVIOUS
<1>2. PICK f : f = [p \in Cells(k, l) |-> f[p]] /\ Tabulated(f, x, y, k, l, k + l)
  BY <1>1, TableBegins
<1>3. EntriesSo(f, x, y, k, l)
  <2>1. \A i \in 0..k, j \in 0..l : i + j <= k + l
    OBVIOUS
  <2> QED  BY <2>1, <1>2 DEF Tabulated, EntriesSo
<1>4. \A p \in Cells(k, l) : f[p] \in Nat
  <2>1. \A p \in Cells(k, l) : p = <<p[1], p[2]>> /\ p[1] \in 0..k /\ p[2] \in 0..l
    BY DEF Cells
  <2> QED  BY <2>1, <1>3, EntriesAreNat
<1>5. f \in [Cells(k, l) -> Nat]
  BY <1>2, <1>4
<1> QED  BY <1>3, <1>5 DEF Table, EntriesSo

(* levenshtein returns the last entry of the table.                        *)
LEMMA LevenshteinIsEntry ==
  ASSUME NEW x, NEW y, Len(x) \in Nat, Len(y) \in Nat,
         NEW f, Table(f, x, y, Len(x), Len(y))
  PROVE  Search!levenshtein(x, y) = f[<<Len(x), Len(y)>>]
<1> DEFINE Is(h) == h = [p \in Search!Row(x, y) |->
                           IF p[1] = 0 \/ p[2] = 0 THEN p[1] + p[2]
                           ELSE IF x[p[1]] = y[p[2]] THEN h[<<p[1] - 1, p[2] - 1>>]
                           ELSE 1 + Search!Min({h[<<p[1] - 1, p[2] - 1>>],
                                                h[<<p[1] - 1, p[2]>>], h[<<p[1], p[2] - 1>>]})]
           dp == CHOOSE h : Is(h)
<1>1. Search!levenshtein(x, y) = dp[<<Len(x), Len(y)>>]
  BY DEF Search!levenshtein
<1>2. Search!Row(x, y) = Cells(Len(x), Len(y))
  BY DEF Search!Row, Cells
<1>3. \A h : Is(h) <=> h = [p \in Cells(Len(x), Len(y)) |-> Entry(h, x, y, p[1], p[2])]
  BY <1>2 DEF Entry
<1>4. Is(f)
  <2>1. \A p \in Cells(Len(x), Len(y)) : f[p] = Entry(f, x, y, p[1], p[2])
    BY DEF Table, Cells
  <2> HIDE DEF Is
  <2> QED  BY <2>1, <1>3 DEF Table
<1>5. Is(dp)
  <2> HIDE DEF Is
  <2> QED  BY <1>4
<1>6. EntriesSo(dp, x, y, Len(x), Len(y))
  <2>1. dp = [p \in Cells(Len(x), Len(y)) |-> Entry(dp, x, y, p[1], p[2])]
    <3> HIDE DEF Is, dp
    <3> QED  BY <1>3, <1>5
  <2> HIDE DEF dp
  <2> QED  BY <2>1 DEF EntriesSo, Cells
<1>7. EntriesSo(f, x, y, Len(x), Len(y))
  BY DEF Table, EntriesSo
<1>8. dp[<<Len(x), Len(y)>>] = f[<<Len(x), Len(y)>>]
  <2>1. /\ Len(x) \in 0..Len(x) /\ Len(y) \in 0..Len(y)
        /\ Alike(x, x, Len(x)) /\ Alike(y, y, Len(y))
    BY DEF Alike
  <2> HIDE DEF dp
  <2> QED  BY <1>6, <1>7, <2>1, TablesAgree
<1> QED  BY <1>1, <1>8

(* An entry against its neighbours.                                        *)
LEMMA EntryFacts ==
  ASSUME NEW k \in Nat, NEW l \in Nat, NEW x, NEW y, NEW f, Table(f, x, y, k, l),
         NEW i \in 0..k, NEW j \in 0..l
  PROVE  /\ f[<<i, j>>] \in Nat
         /\ i = 0 \/ j = 0 => f[<<i, j>>] = i + j
         /\ i # 0 /\ j # 0 =>
              /\ f[<<i - 1, j - 1>>] \in Nat
              /\ f[<<i - 1, j>>] \in Nat
              /\ f[<<i, j - 1>>] \in Nat
              /\ x[i] = y[j] => f[<<i, j>>] = f[<<i - 1, j - 1>>]
              /\ x[i] # y[j] =>
                   /\ f[<<i, j>>] <= 1 + f[<<i - 1, j - 1>>]
                   /\ f[<<i, j>>] <= 1 + f[<<i - 1, j>>]
                   /\ f[<<i, j>>] <= 1 + f[<<i, j - 1>>]
                   /\ \/ f[<<i, j>>] = 1 + f[<<i - 1, j - 1>>]
                      \/ f[<<i, j>>] = 1 + f[<<i - 1, j>>]
                      \/ f[<<i, j>>] = 1 + f[<<i, j - 1>>]
<1>0. \A m \in 0..k, n \in 0..l : f[<<m, n>>] \in Nat
  BY DEF Table, Cells
<1>1. f[<<i, j>>] = Entry(f, x, y, i, j)
  BY DEF Table
<1>2. CASE i = 0 \/ j = 0
  BY <1>0, <1>1, <1>2 DEF Entry
<1>3. CASE i # 0 /\ j # 0
  <2>1. /\ f[<<i - 1, j - 1>>] \in Nat /\ f[<<i - 1, j>>] \in Nat
        /\ f[<<i, j - 1>>] \in Nat
    BY <1>3, <1>0
  <2>2. \A u, v, w \in Nat :
          /\ Search!Min({u, v, w}) \in {u, v, w} /\ Search!Min({u, v, w}) <= u
          /\ Search!Min({u, v, w}) <= v /\ Search!Min({u, v, w}) <= w
    BY LeastOfThree
  <2> DEFINE m == Search!Min({f[<<i - 1, j - 1>>], f[<<i - 1, j>>], f[<<i, j - 1>>]})
  <2>3. /\ m \in {f[<<i - 1, j - 1>>], f[<<i - 1, j>>], f[<<i, j - 1>>]}
        /\ m <= f[<<i - 1, j - 1>>] /\ m <= f[<<i - 1, j>>] /\ m <= f[<<i, j - 1>>]
    BY <2>1, <2>2
  <2>4. f[<<i, j>>] = IF x[i] = y[j] THEN f[<<i - 1, j - 1>>] ELSE 1 + m
    BY <1>1, <1>3 DEF Entry
  <2> HIDE DEF m
  <2> QED  BY <1>0, <1>3, <2>1, <2>3, <2>4
<1> QED  BY <1>2, <1>3

LEMMA EntryBorder ==
  ASSUME NEW k \in Nat, NEW l \in Nat, NEW x, NEW y, NEW f, Table(f, x, y, k, l)
  PROVE  /\ \A i \in 0..k : f[<<i, 0>>] = i
         /\ \A j \in 0..l : f[<<0, j>>] = j
<1>1. \A i \in 0..k, j \in 0..l : f[<<i, j>>] = Entry(f, x, y, i, j)
  BY DEF Table
<1>2. ASSUME NEW i \in 0..k PROVE f[<<i, 0>>] = i
  <2>1. f[<<i, 0>>] = Entry(f, x, y, i, 0)
    BY <1>1
  <2> QED  BY <2>1 DEF Entry
<1>3. ASSUME NEW j \in 0..l PROVE f[<<0, j>>] = j
  <2>1. f[<<0, j>>] = Entry(f, x, y, 0, j)
    BY <1>1
  <2> QED  BY <2>1 DEF Entry
<1> QED  BY <1>2, <1>3

Near(m, n) == m <= n + 1 /\ n <= m + 1

(* Entries that are neighbours are no more than one apart.                 *)
LEMMA NeighboursNear ==
  ASSUME NEW k \in Nat, NEW l \in Nat, NEW x, NEW y, NEW f, Table(f, x, y, k, l)
  PROVE  \A i \in 0..k, j \in 0..l :
           /\ i # 0 => Near(f[<<i, j>>], f[<<i - 1, j>>])
           /\ j # 0 => Near(f[<<i, j>>], f[<<i, j - 1>>])
<1> DEFINE Good(i, j) == /\ i # 0 => Near(f[<<i, j>>], f[<<i - 1, j>>])
                         /\ j # 0 => Near(f[<<i, j>>], f[<<i, j - 1>>])
           P == {p \in Cells(k, l) : Good(p[1], p[2])}
<1>1. \A i \in 0..k, j \in 0..l : <<i, j>> \in P <=> Good(i, j)
  BY DEF Cells
<1> HIDE DEF P
<1>2. ASSUME NEW i \in 0..k, NEW j \in 0..l,
             \A m \in 0..k, n \in 0..l : m + n < i + j => <<m, n>> \in P
      PROVE  <<i, j>> \in P
  <2>1. CASE i = 0
    <3>1. f[<<0, j>>] = j /\ (j # 0 => f[<<0, j - 1>>] = j - 1)
      BY EntryBorder
    <3>2. Good(i, j)
      BY <2>1, <3>1 DEF Near
    <3> QED  BY <3>2, <1>1
  <2>2. CASE j = 0
    <3>1. f[<<i, 0>>] = i /\ (i # 0 => f[<<i - 1, 0>>] = i - 1)
      BY EntryBorder
    <3>2. Good(i, j)
      BY <2>2, <3>1 DEF Near
    <3> QED  BY <3>2, <1>1
  <2>3. CASE i # 0 /\ j # 0
    <3>1. /\ i - 1 \in 0..k /\ j - 1 \in 0..l
          /\ i - 1 + j < i + j /\ i + (j - 1) < i + j
      BY <2>3
    <3>2. Good(i - 1, j) /\ Good(i, j - 1)
      BY <3>1, <1>1, <1>2
    <3>3. /\ Near(f[<<i - 1, j>>], f[<<i - 1, j - 1>>])
          /\ Near(f[<<i, j - 1>>], f[<<i - 1, j - 1>>])
      BY <3>2, <2>3
    <3> DEFINE e == f[<<i, j>>]
               d == f[<<i - 1, j - 1>>]
               u == f[<<i - 1, j>>]
               v == f[<<i, j - 1>>]
    <3>4. /\ e \in Nat /\ d \in Nat /\ u \in Nat /\ v \in Nat
          /\ x[i] = y[j] => e = d
          /\ x[i] # y[j] => /\ e <= 1 + d /\ e <= 1 + u /\ e <= 1 + v
                            /\ e = 1 + d \/ e = 1 + u \/ e = 1 + v
      BY <2>3, EntryFacts
    <3>5. Near(u, d) /\ Near(v, d)
      BY <3>3
    <3>6. Near(e, u) /\ Near(e, v)
      <4> HIDE DEF e, d, u, v
      <4> QED  BY <3>4, <3>5 DEF Near
    <3> QED  BY <3>6, <1>1
  <2> QED  BY <2>1, <2>2, <2>3
<1>3. \A i \in 0..k, j \in 0..l : <<i, j>> \in P
  BY <1>2, CellByCell
<1> QED  BY <1>1, <1>3

(* What an entry is at most and at least.                                  *)
LEMMA EntryBounds ==
  ASSUME NEW k \in Nat, NEW l \in Nat, NEW x, NEW y, NEW f, Table(f, x, y, k, l)
  PROVE  \A i \in 0..k, j \in 0..l :
           /\ f[<<i, j>>] <= i \/ f[<<i, j>>] <= j
           /\ i - j <= f[<<i, j>>] /\ j - i <= f[<<i, j>>]
           /\ f[<<i, j>>] = 0 => \A m \in 1..i : x[m] = y[m]
           /\ i = j /\ (\A m \in 1..i : x[m] = y[m]) => f[<<i, j>>] = 0
<1> DEFINE Good(i, j) ==
             /\ f[<<i, j>>] <= i \/ f[<<i, j>>] <= j
             /\ i - j <= f[<<i, j>>] /\ j - i <= f[<<i, j>>]
             /\ f[<<i, j>>] = 0 => \A m \in 1..i : x[m] = y[m]
             /\ i = j /\ (\A m \in 1..i : x[m] = y[m]) => f[<<i, j>>] = 0
           P == {p \in Cells(k, l) : Good(p[1], p[2])}
<1>1. \A i \in 0..k, j \in 0..l : <<i, j>> \in P <=> Good(i, j)
  BY DEF Cells
<1> HIDE DEF P
<1>2. ASSUME NEW i \in 0..k, NEW j \in 0..l,
             \A m \in 0..k, n \in 0..l : m + n < i + j => <<m, n>> \in P
      PROVE  <<i, j>> \in P
  <2>1. CASE i = 0 \/ j = 0
    <3>1. f[<<i, j>>] = i + j
      BY <2>1, EntryBorder
    <3>2. Good(i, j)
      BY <2>1, <3>1
    <3> QED  BY <3>2, <1>1
  <2>2. CASE i # 0 /\ j # 0
    <3>1. /\ i - 1 \in 0..k /\ j - 1 \in 0..l /\ i - 1 + (j - 1) < i + j
          /\ i - 1 + j < i + j /\ i + (j - 1) < i + j
      BY <2>2
    <3>2. Good(i - 1, j - 1) /\ Good(i - 1, j) /\ Good(i, j - 1)
      BY <3>1, <1>1, <1>2
    <3> DEFINE e == f[<<i, j>>]
               d == f[<<i - 1, j - 1>>]
               u == f[<<i - 1, j>>]
               v == f[<<i, j - 1>>]
    <3>3. /\ e \in Nat /\ d \in Nat /\ u \in Nat /\ v \in Nat
          /\ x[i] = y[j] => e = d
          /\ x[i] # y[j] => /\ e <= 1 + d /\ e <= 1 + u /\ e <= 1 + v
                            /\ e = 1 + d \/ e = 1 + u \/ e = 1 + v
      BY <2>2, EntryFacts
    <3>4. /\ d <= i - 1 \/ d <= j - 1
          /\ i - j <= d /\ j - i <= d
          /\ i - 1 - j <= u /\ j - (i - 1) <= u
          /\ i - (j - 1) <= v /\ j - 1 - i <= v
          /\ d = 0 => \A m \in 1..(i - 1) : x[m] = y[m]
          /\ i = j /\ (\A m \in 1..(i - 1) : x[m] = y[m]) => d = 0
      BY <3>2
    <3>5. /\ e <= i \/ e <= j
          /\ i - j <= e /\ j - i <= e
      <4> HIDE DEF e, d, u, v
      <4> QED  BY <3>3, <3>4
    <3>6. e = 0 => x[i] = y[j] /\ d = 0
      <4> HIDE DEF e, d, u, v
      <4> QED  BY <3>3
    <3>7. e = 0 => \A m \in 1..i : x[m] = y[m]
      <4> SUFFICES ASSUME e = 0, NEW m \in 1..i
                   PROVE  x[m] = y[m]
        OBVIOUS
      <4>1. i = j
        BY <3>5
      <4>2. CASE m = i
        BY <4>1, <4>2, <3>6
      <4>3. CASE m # i
        <5>1. m \in 1..(i - 1)
          BY <4>3
        <5> QED  BY <5>1, <3>4, <3>6
      <4> QED  BY <4>2, <4>3
    <3>8. i = j /\ (\A m \in 1..i : x[m] = y[m]) => e = 0
      <4> SUFFICES ASSUME i = j, \A m \in 1..i : x[m] = y[m]
                   PROVE  e = 0
        OBVIOUS
      <4>1. x[i] = y[j] /\ \A m \in 1..(i - 1) : x[m] = y[m]
        BY <2>2
      <4> QED  BY <4>1, <3>3, <3>4
    <3>9. Good(i, j)
      BY <3>5, <3>7, <3>8
    <3> QED  BY <3>9, <1>1
  <2> QED  BY <2>1, <2>2
<1>3. \A i \in 0..k, j \in 0..l : <<i, j>> \in P
  BY <1>2, CellByCell
<1> QED  BY <1>1, <1>3

-----------------------------------------------------------------------------
(* What one edit changes.                                                  *)

(* One letter of x replaced; one left out.                                 *)
ButOne(x, s, c, k) == c \in 1..k /\ \A m \in 1..k : m # c => s[m] = x[m]

Without(x, s, c, n, k) ==
  /\ n = k + 1 /\ c \in 1..n
  /\ \A m \in 1..k : s[m] = IF m < c THEN x[m] ELSE x[m + 1]

Replaced(x, s, c) == Len(s) = Len(x) /\ ButOne(x, s, c, Len(x))

LeftOut(x, s, c) == Without(x, s, c, Len(x), Len(s))

OneEdit(x, s) ==
  \E c \in Nat : Replaced(x, s, c) \/ LeftOut(x, s, c) \/ LeftOut(s, x, c)

LEMMA PartOfTable ==
  ASSUME NEW k \in Nat, NEW l \in Nat, NEW x, NEW y, NEW f, Table(f, x, y, k, l),
         NEW n \in 0..k
  PROVE  EntriesSo(f, x, y, n, l)
<1>1. \A i \in 0..n : i \in 0..k
  OBVIOUS
<1> QED  BY <1>1 DEF Table, EntriesSo

LEMMA ReplacedNear ==
  ASSUME NEW k \in Nat, NEW l \in Nat, NEW x, NEW y, NEW f, Table(f, x, y, k, l),
         NEW s, NEW g, Table(g, s, y, k, l),
         NEW c \in Nat, ButOne(x, s, c, k)
  PROVE  \A i \in 0..k, j \in 0..l : Near(f[<<i, j>>], g[<<i, j>>])
<1>0. c \in 1..k /\ \A m \in 1..k : m # c => s[m] = x[m]
  BY DEF ButOne
<1> DEFINE P == {p \in Cells(k, l) : Near(f[p], g[p])}
<1>1. \A i \in 0..k, j \in 0..l : <<i, j>> \in P <=> Near(f[<<i, j>>], g[<<i, j>>])
  BY DEF Cells
<1> HIDE DEF P
<1>2. \A i \in 0..(c - 1), j \in 0..l : f[<<i, j>>] = g[<<i, j>>]
  <2>1. PICK n \in 0..k : n = c - 1
    BY <1>0
  <2>2. EntriesSo(f, x, y, n, l) /\ EntriesSo(g, s, y, n, l)
    BY PartOfTable
  <2>3. n \in Nat /\ Alike(x, s, n) /\ Alike(y, y, l)
    BY <1>0, <2>1 DEF Alike
  <2>4. ASSUME NEW i \in 0..n, NEW j \in 0..l
        PROVE  f[<<i, j>>] = g[<<i, j>>]
    BY <2>2, <2>3, TablesAgree
  <2> QED  BY <2>1, <2>4
<1>3. ASSUME NEW i \in 0..k, NEW j \in 0..l,
             \A m \in 0..k, n \in 0..l : m + n < i + j => <<m, n>> \in P
      PROVE  <<i, j>> \in P
  <2> DEFINE e == f[<<i, j>>]
             d == f[<<i - 1, j - 1>>]
             u == f[<<i - 1, j>>]
             v == f[<<i, j - 1>>]
             ee == g[<<i, j>>]
             dd == g[<<i - 1, j - 1>>]
             uu == g[<<i - 1, j>>]
             vv == g[<<i, j - 1>>]
  <2>1. CASE i = 0
    <3>1. f[<<0, j>>] = j /\ g[<<0, j>>] = j
      BY EntryBorder
    <3> QED  BY <2>1, <3>1, <1>1 DEF Near
  <2>2. CASE j = 0
    <3>1. f[<<i, 0>>] = i /\ g[<<i, 0>>] = i
      BY EntryBorder
    <3> QED  BY <2>2, <3>1, <1>1 DEF Near
  <2>3. CASE i # 0 /\ j # 0
    <3>1. /\ i - 1 \in 0..k /\ j - 1 \in 0..l /\ i - 1 + (j - 1) < i + j
          /\ i - 1 + j < i + j /\ i + (j - 1) < i + j
      BY <2>3
    <3>2. Near(d, dd) /\ Near(u, uu) /\ Near(v, vv)
      BY <3>1, <1>1, <1>3
    <3>3. /\ e \in Nat /\ d \in Nat /\ u \in Nat /\ v \in Nat
          /\ x[i] = y[j] => e = d
          /\ x[i] # y[j] => /\ e <= 1 + d /\ e <= 1 + u /\ e <= 1 + v
                            /\ e = 1 + d \/ e = 1 + u \/ e = 1 + v
      BY <2>3, EntryFacts
    <3>4. /\ ee \in Nat /\ dd \in Nat /\ uu \in Nat /\ vv \in Nat
          /\ s[i] = y[j] => ee = dd
          /\ s[i] # y[j] => /\ ee <= 1 + dd /\ ee <= 1 + uu /\ ee <= 1 + vv
                            /\ ee = 1 + dd \/ ee = 1 + uu \/ ee = 1 + vv
      BY <2>3, EntryFacts
    <3>5. CASE i # c
      <4>1. s[i] = x[i]
        BY <1>0, <2>3, <3>5
      <4>2. Near(e, ee)
        <5> HIDE DEF e, d, u, v, ee, dd, uu, vv
        <5> QED  BY <3>2, <3>3, <3>4, <4>1 DEF Near
      <4> QED  BY <4>2, <1>1
    <3>6. CASE i = c
      <4>1. d = dd /\ u = uu
        BY <3>1, <3>6, <1>2
      <4>2. Near(u, d) /\ Near(v, d)
        BY <2>3, <3>1, NeighboursNear
      <4>3. Near(vv, dd)
        BY <2>3, <3>1, NeighboursNear
      <4>4. Near(e, ee)
        <5> HIDE DEF e, d, u, v, ee, dd, uu, vv
        <5> QED  BY <3>2, <3>3, <3>4, <4>1, <4>2, <4>3 DEF Near
      <4> QED  BY <4>4, <1>1
    <3> QED  BY <3>5, <3>6
  <2> QED  BY <2>1, <2>2, <2>3
<1>4. \A i \in 0..k, j \in 0..l : <<i, j>> \in P
  BY <1>3, CellByCell
<1> QED  BY <1>1, <1>4

LEMMA LeftOutNear ==
  ASSUME NEW k \in Nat, NEW n \in Nat, NEW l \in Nat, NEW x, NEW y,
         NEW f, Table(f, x, y, n, l), NEW s, NEW g, Table(g, s, y, k, l),
         NEW c \in Nat, Without(x, s, c, n, k)
  PROVE  \A i \in 0..k, j \in 0..l : i >= c - 1 => Near(f[<<i + 1, j>>], g[<<i, j>>])
<1>0. /\ n = k + 1 /\ c \in 1..n
      /\ \A m \in 1..k : s[m] = IF m < c THEN x[m] ELSE x[m + 1]
  BY DEF Without
<1> DEFINE Good(i, j) == i >= c - 1 => Near(f[<<i + 1, j>>], g[<<i, j>>])
           P == {p \in Cells(k, l) : Good(p[1], p[2])}
<1>1. \A i \in 0..k, j \in 0..l : <<i, j>> \in P <=> Good(i, j)
  BY DEF Cells
<1> HIDE DEF P
<1>2. \A i \in 0..(c - 1), j \in 0..l : f[<<i, j>>] = g[<<i, j>>]
  <2>1. PICK e \in 0..k : e = c - 1
    BY <1>0
  <2>2. EntriesSo(f, x, y, e, l) /\ EntriesSo(g, s, y, e, l)
    <3>1. e \in 0..n
      BY <1>0
    <3> QED  BY <3>1, PartOfTable
  <2>3. e \in Nat /\ Alike(x, s, e) /\ Alike(y, y, l)
    BY <1>0, <2>1 DEF Alike
  <2>4. ASSUME NEW i \in 0..e, NEW j \in 0..l
        PROVE  f[<<i, j>>] = g[<<i, j>>]
    BY <2>2, <2>3, TablesAgree
  <2> QED  BY <2>1, <2>4
<1>3. ASSUME NEW i \in 0..k, NEW j \in 0..l,
             \A p \in 0..k, q \in 0..l : p + q < i + j => <<p, q>> \in P
      PROVE  <<i, j>> \in P
  <2>0. PICK h \in 0..n : h = i + 1
    BY <1>0
  <2>1. CASE i < c - 1
    <3>1. Good(i, j)
      BY <1>0, <2>1
    <3> QED  BY <3>1, <1>1
  <2>2. CASE i = c - 1
    <3>1. Near(f[<<i + 1, j>>], f[<<i, j>>])
      <4>1. h # 0 /\ h - 1 = i
        BY <2>0
      <4>2. Near(f[<<h, j>>], f[<<h - 1, j>>])
        BY <4>1, NeighboursNear
      <4> QED  BY <2>0, <4>1, <4>2
    <3>2. f[<<i, j>>] = g[<<i, j>>]
      BY <1>0, <2>2, <1>2
    <3>3. Good(i, j)
      BY <3>1, <3>2
    <3> QED  BY <3>3, <1>1
  <2>3. CASE i > c - 1 /\ j = 0
    <3>1. f[<<i + 1, 0>>] = i + 1 /\ g[<<i, 0>>] = i
      <4>1. f[<<h, 0>>] = h /\ g[<<i, 0>>] = i
        BY EntryBorder
      <4> QED  BY <2>0, <4>1
    <3>2. Good(i, j)
      BY <1>0, <2>3, <3>1 DEF Near
    <3> QED  BY <3>2, <1>1
  <2>4. CASE i > c - 1 /\ j # 0
    <3> DEFINE e == f[<<i + 1, j>>]
               d == f[<<i, j - 1>>]
               u == f[<<i, j>>]
               v == f[<<i + 1, j - 1>>]
               ee == g[<<i, j>>]
               dd == g[<<i - 1, j - 1>>]
               uu == g[<<i - 1, j>>]
               vv == g[<<i, j - 1>>]
    <3>1. /\ i # 0 /\ i - 1 \in 0..k /\ j - 1 \in 0..l /\ i - 1 + (j - 1) < i + j
          /\ i - 1 + j < i + j /\ i + (j - 1) < i + j /\ i - 1 >= c - 1
          /\ i - 1 + 1 = i /\ i + 1 - 1 = i /\ i + 1 # 0 /\ i >= c
      BY <1>0, <2>4
    <3>2. Near(d, dd) /\ Near(u, uu) /\ Near(v, vv)
      <4>1. Good(i - 1, j - 1) /\ Good(i - 1, j) /\ Good(i, j - 1)
        BY <3>1, <1>1, <1>3
      <4> QED  BY <3>1, <4>1, <2>4
    <3>3. /\ e \in Nat /\ d \in Nat /\ u \in Nat /\ v \in Nat
          /\ x[i + 1] = y[j] => e = d
          /\ x[i + 1] # y[j] => /\ e <= 1 + d /\ e <= 1 + u /\ e <= 1 + v
                                /\ e = 1 + d \/ e = 1 + u \/ e = 1 + v
      <4>1. h # 0 /\ j # 0
        BY <2>0, <2>4
      <4>2. /\ f[<<h, j>>] \in Nat /\ f[<<h - 1, j - 1>>] \in Nat
            /\ f[<<h - 1, j>>] \in Nat /\ f[<<h, j - 1>>] \in Nat
            /\ x[h] = y[j] => f[<<h, j>>] = f[<<h - 1, j - 1>>]
            /\ x[h] # y[j] =>
                 /\ f[<<h, j>>] <= 1 + f[<<h - 1, j - 1>>]
                 /\ f[<<h, j>>] <= 1 + f[<<h - 1, j>>]
                 /\ f[<<h, j>>] <= 1 + f[<<h, j - 1>>]
                 /\ \/ f[<<h, j>>] = 1 + f[<<h - 1, j - 1>>]
                    \/ f[<<h, j>>] = 1 + f[<<h - 1, j>>]
                    \/ f[<<h, j>>] = 1 + f[<<h, j - 1>>]
        BY <4>1, EntryFacts
      <4>3. h = i + 1 /\ h - 1 = i
        BY <2>0
      <4> QED  BY <4>2, <4>3
    <3>4. /\ ee \in Nat /\ dd \in Nat /\ uu \in Nat /\ vv \in Nat
          /\ s[i] = y[j] => ee = dd
          /\ s[i] # y[j] => /\ ee <= 1 + dd /\ ee <= 1 + uu /\ ee <= 1 + vv
                            /\ ee = 1 + dd \/ ee = 1 + uu \/ ee = 1 + vv
      BY <2>4, <3>1, EntryFacts
    <3>5. s[i] = x[i + 1]
      BY <1>0, <3>1
    <3>6. Near(e, ee)
      <4> HIDE DEF e, d, u, v, ee, dd, uu, vv
      <4> QED  BY <3>2, <3>3, <3>4, <3>5 DEF Near
    <3> QED  BY <3>6, <1>1
  <2> QED  BY <2>1, <2>2, <2>3, <2>4
<1>4. \A i \in 0..k, j \in 0..l : <<i, j>> \in P
  BY <1>3, CellByCell
<1> QED  BY <1>1, <1>4

(* An edit changes the distance by one at most.                            *)
LEMMA EditIsNear ==
  ASSUME NEW S, NEW x \in Seq(S), NEW s \in Seq(S), NEW y \in Seq(S), OneEdit(x, s)
  PROVE  Near(Search!levenshtein(x, y), Search!levenshtein(s, y))
<1>0. Len(x) \in Nat /\ Len(s) \in Nat /\ Len(y) \in Nat
  OBVIOUS
<1>1. PICK f : Table(f, x, y, Len(x), Len(y))
  BY <1>0, TableExists
<1>2. PICK g : Table(g, s, y, Len(s), Len(y))
  BY <1>0, TableExists
<1>3. /\ Search!levenshtein(x, y) = f[<<Len(x), Len(y)>>]
      /\ Search!levenshtein(s, y) = g[<<Len(s), Len(y)>>]
  BY <1>0, <1>1, <1>2, LevenshteinIsEntry
<1>4. PICK c \in Nat : Replaced(x, s, c) \/ LeftOut(x, s, c) \/ LeftOut(s, x, c)
  BY DEF OneEdit
<1>5. Near(f[<<Len(x), Len(y)>>], g[<<Len(s), Len(y)>>])
  <2>1. CASE Replaced(x, s, c)
    <3>1. Len(s) = Len(x) /\ ButOne(x, s, c, Len(x))
      BY <2>1 DEF Replaced
    <3>2. Table(g, s, y, Len(x), Len(y))
      BY <1>2, <3>1
    <3>3. \A i \in 0..Len(x), j \in 0..Len(y) : Near(f[<<i, j>>], g[<<i, j>>])
      BY <1>0, <1>1, <3>1, <3>2, ReplacedNear
    <3>4. Len(x) \in 0..Len(x) /\ Len(y) \in 0..Len(y)
      BY <1>0
    <3> QED  BY <3>1, <3>3, <3>4
  <2>2. CASE LeftOut(x, s, c)
    <3>1. Without(x, s, c, Len(x), Len(s))
      BY <2>2 DEF LeftOut
    <3>2. \A i \in 0..Len(s), j \in 0..Len(y) :
            i >= c - 1 => Near(f[<<i + 1, j>>], g[<<i, j>>])
      BY <1>0, <1>1, <1>2, <3>1, LeftOutNear
    <3>3. /\ Len(s) \in 0..Len(s) /\ Len(y) \in 0..Len(y)
          /\ Len(s) >= c - 1 /\ Len(x) = Len(s) + 1
      BY <1>0, <3>1 DEF Without
    <3>4. Near(f[<<Len(s) + 1, Len(y)>>], g[<<Len(s), Len(y)>>])
      BY <3>2, <3>3
    <3> QED  BY <3>3, <3>4
  <2>3. CASE LeftOut(s, x, c)
    <3>1. Without(s, x, c, Len(s), Len(x))
      BY <2>3 DEF LeftOut
    <3>2. \A i \in 0..Len(x), j \in 0..Len(y) :
            i >= c - 1 => Near(g[<<i + 1, j>>], f[<<i, j>>])
      BY <1>0, <1>1, <1>2, <3>1, LeftOutNear
    <3>3. /\ Len(x) \in 0..Len(x) /\ Len(y) \in 0..Len(y)
          /\ Len(x) >= c - 1 /\ Len(s) = Len(x) + 1
      BY <1>0, <3>1 DEF Without
    <3>4. Near(g[<<Len(x) + 1, Len(y)>>], f[<<Len(x), Len(y)>>])
      BY <3>2, <3>3
    <3> QED  BY <3>3, <3>4 DEF Near
  <2> QED  BY <1>4, <2>1, <2>2, <2>3
<1> QED  BY <1>3, <1>5

(* An entry is the distance of the strings up to there.                    *)
LEMMA EntryOfPrefixes ==
  ASSUME NEW S, NEW x \in Seq(S), NEW y \in Seq(S), NEW s \in Seq(S), NEW t \in Seq(S),
         NEW f, Table(f, x, y, Len(x), Len(y)),
         Len(s) <= Len(x), Len(t) <= Len(y), Alike(x, s, Len(s)), Alike(y, t, Len(t))
  PROVE  f[<<Len(s), Len(t)>>] = Search!levenshtein(s, t)
<1>0. /\ Len(x) \in Nat /\ Len(y) \in Nat /\ Len(s) \in 0..Len(x) /\ Len(t) \in 0..Len(y)
      /\ Len(s) \in Nat /\ Len(t) \in Nat
  OBVIOUS
<1>1. PICK g : Table(g, s, t, Len(s), Len(t))
  BY <1>0, TableExists
<1>2. Search!levenshtein(s, t) = g[<<Len(s), Len(t)>>]
  BY <1>0, <1>1, LevenshteinIsEntry
<1>3. EntriesSo(g, s, t, Len(s), Len(t))
  BY <1>1 DEF Table, EntriesSo
<1>4. EntriesSo(f, x, y, Len(s), Len(t))
  <2>1. \A i \in 0..Len(s) : i \in 0..Len(x)
    BY <1>0
  <2>2. \A j \in 0..Len(t) : j \in 0..Len(y)
    BY <1>0
  <2> QED  BY <2>1, <2>2 DEF Table, EntriesSo
<1>5. Len(s) \in 0..Len(s) /\ Len(t) \in 0..Len(t)
  BY <1>0
<1>6. f[<<Len(s), Len(t)>>] = g[<<Len(s), Len(t)>>]
  BY <1>0, <1>3, <1>4, <1>5, TablesAgree
<1> QED  BY <1>2, <1>6

LEMMA AppendFacts ==
  ASSUME NEW S, NEW s \in Seq(S), NEW e \in S
  PROVE  /\ Append(s, e) \in Seq(S) /\ Len(Append(s, e)) = Len(s) + 1
         /\ Append(s, e)[Len(s) + 1] = e
         /\ Len(s) \in Nat /\ Alike(Append(s, e), s, Len(s))
BY DEF Alike

LEMMA LastAppended ==
  ASSUME NEW S, NEW s \in Seq(S), s # <<>>
  PROVE  \E r \in Seq(S), e \in S : s = Append(r, e)
<1> DEFINE n == Len(s)
           r == [i \in 1..(n - 1) |-> s[i]]
<1>1. n \in Nat \ {0} /\ s \in [1..n -> S]
  BY EmptySeq, LenProperties
<1>2. s[n] \in S /\ r \in [1..(n - 1) -> S]
  BY <1>1
<1>3. n - 1 \in Nat
  BY <1>1
<1>4. r \in Seq(S) /\ Len(r) = n - 1
  BY <1>2, <1>3, SeqDef, LenProperties
<1>5. Append(r, s[n]) = s
  <2>0. \A i \in 1..(n - 1) : r[i] = s[i]
    OBVIOUS
  <2> HIDE DEF r, n
  <2>1. /\ Append(r, s[n]) \in Seq(S) /\ Len(Append(r, s[n])) = n
        /\ Append(r, s[n])[n] = s[n]
        /\ \A i \in 1..(n - 1) : Append(r, s[n])[i] = r[i]
    BY <1>1, <1>2, <1>4, AppendProperties
  <2>2. \A i \in 1..n : Append(r, s[n])[i] = s[i]
    BY <1>1, <2>0, <2>1
  <2>3. n = Len(s)
    BY DEF n
  <2> QED  BY <2>1, <2>2, <2>3, SeqEqual
<1> QED  BY <1>2, <1>4, <1>5

(* The distance, from that of shorter strings.                             *)
LEMMA DistanceFacts ==
  ASSUME NEW S, NEW s \in Seq(S), NEW t \in Seq(S)
  PROVE  /\ Search!levenshtein(s, t) \in Nat
         /\ Search!levenshtein(s, t) <= Len(s) \/ Search!levenshtein(s, t) <= Len(t)
         /\ Len(s) - Len(t) <= Search!levenshtein(s, t)
         /\ Len(t) - Len(s) <= Search!levenshtein(s, t)
         /\ Search!levenshtein(s, t) = 0 <=> s = t
         /\ s = <<>> \/ t = <<>> => Search!levenshtein(s, t) = Len(s) + Len(t)
<1>0. /\ Len(s) \in Nat /\ Len(t) \in Nat
      /\ Len(s) \in 0..Len(s) /\ Len(t) \in 0..Len(t)
  OBVIOUS
<1>1. PICK f : Table(f, s, t, Len(s), Len(t))
  BY <1>0, TableExists
<1>2. Search!levenshtein(s, t) = f[<<Len(s), Len(t)>>]
  BY <1>0, <1>1, LevenshteinIsEntry
<1> DEFINE i == Len(s)
           j == Len(t)
           e == f[<<i, j>>]
<1>3. /\ e <= i \/ e <= j
      /\ i - j <= e /\ j - i <= e
      /\ e = 0 => \A m \in 1..i : s[m] = t[m]
      /\ i = j /\ (\A m \in 1..i : s[m] = t[m]) => e = 0
  BY <1>0, <1>1, EntryBounds
<1>4. /\ e \in Nat
      /\ i = 0 \/ j = 0 => e = i + j
  <2>1. i \in Nat /\ j \in Nat /\ i \in 0..i /\ j \in 0..j /\ Table(f, s, t, i, j)
    BY <1>0, <1>1
  <2>2. f[<<i, j>>] \in Nat
    BY <2>1 DEF Table, Cells
  <2>3. (\A m \in 0..i : f[<<m, 0>>] = m) /\ \A m \in 0..j : f[<<0, m>>] = m
    <3> HIDE DEF i, j
    <3> QED  BY <2>1, EntryBorder
  <2> HIDE DEF i, j
  <2> QED  BY <2>1, <2>2, <2>3
<1>5. e = 0 <=> s = t
  <2>1. i = j /\ (\A m \in 1..i : s[m] = t[m]) <=> s = t
    BY SeqEqual
  <2>2. e = 0 => i = j
    BY <1>0, <1>3
  <2> QED  BY <2>1, <2>2, <1>3
<1>6. (s = <<>> \/ t = <<>>) => i = 0 \/ j = 0
  OBVIOUS
<1> QED  BY <1>2, <1>3, <1>4, <1>5, <1>6

(* The distance, letter by letter.                                         *)
LEMMA LetterByLetter ==
  ASSUME NEW S, NEW s \in Seq(S), NEW t \in Seq(S), NEW p \in S, NEW q \in S,
         NEW e, e = Search!levenshtein(Append(s, p), Append(t, q)),
         NEW d, d = Search!levenshtein(s, t),
         NEW u, u = Search!levenshtein(s, Append(t, q)),
         NEW v, v = Search!levenshtein(Append(s, p), t)
  PROVE  /\ e \in Nat /\ d \in Nat /\ u \in Nat /\ v \in Nat
         /\ p = q => e = d
         /\ p # q => /\ e <= 1 + d /\ e <= 1 + u /\ e <= 1 + v
                     /\ e = 1 + d \/ e = 1 + u \/ e = 1 + v
         /\ Near(e, v)
<1> DEFINE x == Append(s, p)
           y == Append(t, q)
           k == Len(x)
           l == Len(y)
<1>1. /\ x \in Seq(S) /\ k = Len(s) + 1 /\ x[k] = p /\ Len(s) \in Nat
      /\ Alike(x, s, Len(s)) /\ Alike(x, x, k)
      /\ y \in Seq(S) /\ l = Len(t) + 1 /\ y[l] = q /\ Len(t) \in Nat
      /\ Alike(y, t, Len(t)) /\ Alike(y, y, l)
  <2>1. Alike(x, x, k) /\ Alike(y, y, l)
    BY DEF Alike
  <2> QED  BY <2>1, AppendFacts
<1> HIDE DEF x, y
<1>2. k \in Nat /\ l \in Nat /\ k \in 0..k /\ l \in 0..l /\ k # 0 /\ l # 0
  BY <1>1
<1>3. PICK f : Table(f, x, y, k, l)
  BY <1>2, TableExists
<1>4. /\ Len(s) <= k /\ Len(t) <= l /\ k <= k /\ l <= l
  BY <1>1
<1>5. f[<<k, l>>] = Search!levenshtein(x, y)
  BY <1>2, <1>3, LevenshteinIsEntry
<1>6. f[<<Len(s), Len(t)>>] = Search!levenshtein(s, t)
  BY <1>1, <1>3, <1>4, EntryOfPrefixes
<1>7. f[<<Len(s), l>>] = Search!levenshtein(s, y)
  BY <1>1, <1>3, <1>4, EntryOfPrefixes
<1>8. f[<<k, Len(t)>>] = Search!levenshtein(x, t)
  BY <1>1, <1>3, <1>4, EntryOfPrefixes
<1>9. /\ f[<<k, l>>] \in Nat
      /\ f[<<k - 1, l - 1>>] \in Nat
      /\ f[<<k - 1, l>>] \in Nat
      /\ f[<<k, l - 1>>] \in Nat
      /\ x[k] = y[l] => f[<<k, l>>] = f[<<k - 1, l - 1>>]
      /\ x[k] # y[l] =>
           /\ f[<<k, l>>] <= 1 + f[<<k - 1, l - 1>>]
           /\ f[<<k, l>>] <= 1 + f[<<k - 1, l>>]
           /\ f[<<k, l>>] <= 1 + f[<<k, l - 1>>]
           /\ \/ f[<<k, l>>] = 1 + f[<<k - 1, l - 1>>]
              \/ f[<<k, l>>] = 1 + f[<<k - 1, l>>]
              \/ f[<<k, l>>] = 1 + f[<<k, l - 1>>]
  <2> HIDE DEF k, l
  <2> QED  BY <1>2, <1>3, EntryFacts
<1>10. Near(f[<<k, l>>], f[<<k, l - 1>>])
  <2> HIDE DEF k, l
  <2> QED  BY <1>2, <1>3, NeighboursNear
<1>11. k - 1 = Len(s) /\ l - 1 = Len(t)
  BY <1>1
<1>12. /\ e = f[<<k, l>>] /\ d = f[<<k - 1, l - 1>>]
       /\ u = f[<<k - 1, l>>] /\ v = f[<<k, l - 1>>]
  BY <1>5, <1>6, <1>7, <1>8, <1>11 DEF x, y
<1>13. x[k] = p /\ y[l] = q
  BY <1>1
<1> QED
  <2> HIDE DEF k, l
  <2> QED  BY <1>9, <1>10, <1>12, <1>13

-----------------------------------------------------------------------------
(* Of two strings that differ, some edit of one brings it nearer.          *)

(* An edit of s that brings it nearer to t and makes it no longer unless   *)
(* t is longer.                                                            *)
Closer(S, s, t, r) ==
  /\ r \in Seq(S) /\ OneEdit(s, r)
  /\ Search!levenshtein(r, t) <= Search!levenshtein(s, t) - 1
  /\ Len(s) >= Len(t) => Len(r) <= Len(s)

LEMMA LastLetterReplaced ==
  ASSUME NEW S, NEW s \in Seq(S), NEW p \in S, NEW q \in S
  PROVE  OneEdit(Append(s, p), Append(s, q))
<1>1. /\ Len(Append(s, p)) = Len(s) + 1 /\ Len(Append(s, q)) = Len(s) + 1
      /\ Len(s) \in Nat
      /\ \A i \in 1..Len(s) : Append(s, p)[i] = s[i] /\ Append(s, q)[i] = s[i]
  BY AppendProperties, LenProperties
<1>2. Replaced(Append(s, p), Append(s, q), Len(s) + 1)
  BY <1>1 DEF Replaced, ButOne
<1>3. Len(s) + 1 \in Nat
  BY <1>1
<1> QED  BY <1>2, <1>3 DEF OneEdit

LEMMA LastLetterLeftOut ==
  ASSUME NEW S, NEW s \in Seq(S), NEW p \in S
  PROVE  OneEdit(Append(s, p), s) /\ OneEdit(s, Append(s, p))
<1>1. /\ Len(Append(s, p)) = Len(s) + 1 /\ Len(s) \in Nat
      /\ \A i \in 1..Len(s) : Append(s, p)[i] = s[i]
  BY AppendProperties, LenProperties
<1>2. LeftOut(Append(s, p), s, Len(s) + 1)
  BY <1>1 DEF LeftOut, Without
<1>3. Len(s) + 1 \in Nat
  BY <1>1
<1> QED  BY <1>2, <1>3 DEF OneEdit

(* The same letter after both.                                             *)
LEMMA EditBefore ==
  ASSUME NEW S, NEW s \in Seq(S), NEW r \in Seq(S), NEW p \in S, OneEdit(s, r)
  PROVE  OneEdit(Append(s, p), Append(r, p))
<1> DEFINE x == Append(s, p)
           y == Append(r, p)
<1>1. /\ Len(x) = Len(s) + 1 /\ Len(s) \in Nat /\ x[Len(s) + 1] = p
      /\ \A i \in 1..Len(s) : x[i] = s[i]
      /\ Len(y) = Len(r) + 1 /\ Len(r) \in Nat /\ y[Len(r) + 1] = p
      /\ \A i \in 1..Len(r) : y[i] = r[i]
  BY AppendProperties, LenProperties
<1> HIDE DEF x, y
<1>2. PICK c \in Nat : Replaced(s, r, c) \/ LeftOut(s, r, c) \/ LeftOut(r, s, c)
  BY DEF OneEdit
<1>3. CASE Replaced(s, r, c)
  <2>1. Replaced(x, y, c)
    BY <1>1, <1>3 DEF Replaced, ButOne
  <2> QED  BY <2>1 DEF OneEdit, x, y
<1>4. CASE LeftOut(s, r, c)
  <2>1. LeftOut(x, y, c)
    BY <1>1, <1>4 DEF LeftOut, Without
  <2> QED  BY <2>1 DEF OneEdit, x, y
<1>5. CASE LeftOut(r, s, c)
  <2>1. LeftOut(y, x, c)
    BY <1>1, <1>5 DEF LeftOut, Without
  <2> QED  BY <2>1 DEF OneEdit, x, y
<1> QED  BY <1>2, <1>3, <1>4, <1>5

LEMMA LengthEdited ==
  ASSUME NEW S, NEW s \in Seq(S), NEW r \in Seq(S), OneEdit(s, r)
  PROVE  Near(Len(s), Len(r))
BY LenProperties DEF OneEdit, Replaced, LeftOut, Without, Near

(* From a string that differs some edit leads nearer.                      *)
LEMMA SomeEditIsCloser ==
  ASSUME NEW S, NEW x \in Seq(S), NEW y \in Seq(S), x # y
  PROVE  \E r : Closer(S, x, y, r)
<1> DEFINE Bad == {n \in Nat : \E s, t \in Seq(S) :
                     /\ n = Len(s) + Len(t) /\ s # t /\ ~\E r : Closer(S, s, t, r)}
<1>1. ASSUME NEW s \in Seq(S), NEW t \in Seq(S), s # t, ~\E r : Closer(S, s, t, r)
      PROVE  Len(s) + Len(t) \in Bad
  <2>1. Len(s) + Len(t) \in Nat
    BY LenProperties
  <2> QED  BY <1>1, <2>1
<1>2. ASSUME Bad # {}
      PROVE  FALSE
  <2>1. PICK n \in Bad : \A m \in Bad : n <= m
    BY <1>2, LeastNat, Bad \in SUBSET Nat
  <2>2. PICK s \in Seq(S), t \in Seq(S) :
          n = Len(s) + Len(t) /\ s # t /\ ~\E r : Closer(S, s, t, r)
    BY <2>1
  <2>3. \A v, w \in Seq(S) : Len(v) + Len(w) < n /\ v # w => \E r : Closer(S, v, w, r)
    <3> SUFFICES ASSUME NEW v \in Seq(S), NEW w \in Seq(S), Len(v) + Len(w) < n, v # w,
                        ~\E r : Closer(S, v, w, r)
                 PROVE  FALSE
      OBVIOUS
    <3>1. Len(v) + Len(w) \in Bad
      <4> HIDE DEF Bad
      <4> QED  BY <1>1
    <3>2. n <= Len(v) + Len(w)
      <4> HIDE DEF Bad
      <4> QED  BY <2>1, <3>1
    <3>3. Len(v) + Len(w) \in Nat /\ n \in Nat
      BY LenProperties
    <3> QED  BY <3>2, <3>3
  <2> HIDE DEF Bad
  <2>4. CASE s = <<>>
    <3>1. PICK u \in Seq(S), q \in S : t = Append(u, q)
      BY <2>2, <2>4, LastAppended
    <3>2. s \in Seq(S) /\ Len(s) = 0 /\ Append(s, q) \in Seq(S)
      BY <2>4, EmptySeq, AppendProperties
    <3>3. Search!levenshtein(s, t) = Len(u) + 1
      <4>1. Search!levenshtein(s, t) = Len(s) + Len(t)
        BY <2>4, DistanceFacts
      <4>2. Len(t) = Len(u) + 1 /\ Len(u) \in Nat
        BY <3>1, AppendProperties, LenProperties
      <4> QED  BY <4>1, <4>2, <3>2
    <3>4. Search!levenshtein(Append(s, q), t) = Len(u)
      <4>1. Search!levenshtein(Append(s, q), t) = Search!levenshtein(s, u)
        BY <3>1, LetterByLetter
      <4>2. Search!levenshtein(s, u) = Len(s) + Len(u)
        BY <2>4, DistanceFacts
      <4> QED  BY <4>1, <4>2, <3>2, LenProperties
    <3>5. OneEdit(s, Append(s, q))
      BY LastLetterLeftOut
    <3>6. ~(Len(s) >= Len(t)) /\ Len(u) \in Nat
      BY <3>1, <3>2, AppendProperties, LenProperties
    <3>7. Closer(S, s, t, Append(s, q))
      BY <3>2, <3>3, <3>4, <3>5, <3>6 DEF Closer
    <3> QED  BY <3>7, <2>2
  <2>5. CASE t = <<>>
    <3>1. PICK u \in Seq(S), p \in S : s = Append(u, p)
      BY <2>2, <2>5, LastAppended
    <3>2. Len(s) = Len(u) + 1 /\ Len(u) \in Nat /\ Len(t) = 0
      BY <2>5, <3>1, AppendProperties, LenProperties, EmptySeq
    <3>3. Search!levenshtein(s, t) = Len(s) + Len(t)
      BY <2>5, DistanceFacts
    <3>4. Search!levenshtein(u, t) = Len(u) + Len(t)
      BY <2>5, DistanceFacts
    <3>5. OneEdit(s, u)
      BY <3>1, LastLetterLeftOut
    <3>6. Closer(S, s, t, u)
      BY <3>2, <3>3, <3>4, <3>5 DEF Closer
    <3> QED  BY <3>6, <2>2
  <2>6. CASE s # <<>> /\ t # <<>>
    <3>1. PICK v \in Seq(S), p \in S : s = Append(v, p)
      BY <2>6, LastAppended
    <3>2. PICK w \in Seq(S), q \in S : t = Append(w, q)
      BY <2>6, LastAppended
    <3>3. /\ Len(s) = Len(v) + 1 /\ Len(v) \in Nat
          /\ Len(t) = Len(w) + 1 /\ Len(w) \in Nat
      BY <3>1, <3>2, AppendProperties, LenProperties
    <3> DEFINE e == Search!levenshtein(s, t)
               d == Search!levenshtein(v, w)
               u == Search!levenshtein(v, t)
               i == Search!levenshtein(s, w)
    <3>4. /\ e \in Nat /\ d \in Nat /\ u \in Nat /\ i \in Nat
          /\ p = q => e = d
          /\ p # q => /\ e <= 1 + d /\ e <= 1 + u /\ e <= 1 + i
                      /\ e = 1 + d \/ e = 1 + u \/ e = 1 + i
      BY <3>1, <3>2, LetterByLetter
    <3>5. CASE p = q
      <4>1. v # w /\ Len(v) + Len(w) < n
        BY <2>2, <3>1, <3>2, <3>3, <3>5
      <4>2. PICK r : Closer(S, v, w, r)
        BY <2>3, <4>1
      <4>3. /\ r \in Seq(S) /\ OneEdit(v, r) /\ Search!levenshtein(r, w) <= d - 1
            /\ Len(v) >= Len(w) => Len(r) <= Len(v)
        BY <4>2 DEF Closer
      <4>4. Append(r, p) \in Seq(S) /\ Len(Append(r, p)) = Len(r) + 1 /\ Len(r) \in Nat
        BY <4>3, AppendProperties, LenProperties
      <4>5. Search!levenshtein(Append(r, p), t) = Search!levenshtein(r, w)
        BY <3>2, <3>5, <4>3, LetterByLetter
      <4>6. OneEdit(s, Append(r, p))
        BY <3>1, <4>3, EditBefore
      <4>7. Closer(S, s, t, Append(r, p))
        <5>1. Search!levenshtein(Append(r, p), t) <= e - 1
          BY <4>3, <4>5, <3>4, <3>5
        <5>2. Len(s) >= Len(t) => Len(Append(r, p)) <= Len(s)
          BY <3>3, <4>3, <4>4
        <5> QED  BY <4>4, <4>6, <5>1, <5>2 DEF Closer
      <4> QED  BY <4>7, <2>2
    <3>6. CASE p # q /\ e = 1 + d
      <4>1. Append(v, q) \in Seq(S) /\ Len(Append(v, q)) = Len(v) + 1
        BY AppendProperties
      <4>2. Search!levenshtein(Append(v, q), t) = d
        BY <3>2, LetterByLetter
      <4>3. OneEdit(s, Append(v, q))
        BY <3>1, LastLetterReplaced
      <4>4. Search!levenshtein(Append(v, q), t) <= e - 1
        BY <4>2, <3>4, <3>6
      <4>5. Len(Append(v, q)) <= Len(s)
        BY <4>1, <3>3
      <4>6. Closer(S, s, t, Append(v, q))
        BY <4>1, <4>3, <4>4, <4>5 DEF Closer
      <4> QED  BY <4>6, <2>2
    <3>7. CASE p # q /\ e = 1 + u
      <4>1. OneEdit(s, v)
        BY <3>1, LastLetterLeftOut
      <4>2. Search!levenshtein(v, t) <= e - 1
        BY <3>4, <3>7
      <4>3. Len(v) <= Len(s)
        BY <3>3
      <4>4. Closer(S, s, t, v)
        BY <4>1, <4>2, <4>3 DEF Closer
      <4> QED  BY <4>4, <2>2
    <3>8. CASE p # q /\ e = 1 + i /\ Len(s) < Len(t)
      <4>1. Append(s, q) \in Seq(S)
        BY AppendProperties
      <4>2. Search!levenshtein(Append(s, q), t) = i
        BY <3>2, LetterByLetter
      <4>3. OneEdit(s, Append(s, q))
        BY LastLetterLeftOut
      <4>4. Search!levenshtein(Append(s, q), t) <= e - 1
        BY <4>2, <3>4, <3>8
      <4>5. ~(Len(s) >= Len(t))
        BY <3>3, <3>8
      <4>6. Closer(S, s, t, Append(s, q))
        BY <4>1, <4>3, <4>4, <4>5 DEF Closer
      <4> QED  BY <4>6, <2>2
    <3>9. CASE p # q /\ e = 1 + i /\ Len(s) >= Len(t)
      <4>1. s # w /\ Len(s) + Len(w) < n /\ Len(s) >= Len(w)
        BY <2>2, <3>3, <3>9
      <4>2. PICK r : Closer(S, s, w, r)
        BY <2>3, <4>1
      <4>3. /\ r \in Seq(S) /\ OneEdit(s, r) /\ Search!levenshtein(r, w) <= i - 1
            /\ Len(r) <= Len(s)
        BY <4>1, <4>2 DEF Closer
      <4>4. Search!levenshtein(r, t) <= Search!levenshtein(r, w) + 1
        <5>1. CASE r = <<>>
          <6>1. Search!levenshtein(r, t) = Len(r) + Len(t)
            BY <4>3, <5>1, DistanceFacts
          <6>2. Search!levenshtein(r, w) = Len(r) + Len(w)
            BY <4>3, <5>1, DistanceFacts
          <6>3. Len(r) \in Nat
            BY <4>3, LenProperties
          <6> QED  BY <6>1, <6>2, <6>3, <3>3
        <5>2. CASE r # <<>>
          <6>1. PICK o \in Seq(S), z \in S : r = Append(o, z)
            BY <4>3, <5>2, LastAppended
          <6>2. Near(Search!levenshtein(r, t), Search!levenshtein(r, w))
            BY <3>2, <6>1, LetterByLetter
          <6> QED  BY <6>2 DEF Near
        <5> QED  BY <5>1, <5>2
      <4>5. Search!levenshtein(r, t) \in Nat /\ Search!levenshtein(r, w) \in Nat
        BY <4>3, DistanceFacts
      <4>6. Search!levenshtein(r, t) <= e - 1
        BY <4>3, <4>4, <4>5, <3>4, <3>9
      <4>7. Closer(S, s, t, r)
        BY <4>3, <4>6 DEF Closer
      <4> QED  BY <4>7, <2>2
    <3>10. Len(s) >= Len(t) \/ Len(s) < Len(t)
      BY <3>3
    <3> QED  BY <3>4, <3>5, <3>6, <3>7, <3>8, <3>9, <3>10
  <2> QED  BY <2>4, <2>5, <2>6
<1> QED
  <2> HIDE DEF Bad
  <2> QED  BY <1>1, <1>2

(* levenshtein counts edits: strings that are the same are 0 apart, an     *)
(* edit changes the distance of its string by one at most, and of strings  *)
(* that differ some edit brings one nearer the other by one.               *)
THEOREM LevenshteinCounts ==
  ASSUME NEW S, NEW x \in Seq(S), NEW y \in Seq(S)
  PROVE  /\ Search!levenshtein(x, y) \in Nat
         /\ Search!levenshtein(x, y) = 0 <=> x = y
         /\ \A s \in Seq(S) : OneEdit(x, s) =>
              Near(Search!levenshtein(x, y), Search!levenshtein(s, y))
         /\ x # y => \E s \in Seq(S) :
              /\ OneEdit(x, s)
              /\ Search!levenshtein(s, y) = Search!levenshtein(x, y) - 1
              /\ Len(x) >= Len(y) => Len(s) <= Len(x)
<1>1. /\ Search!levenshtein(x, y) \in Nat
      /\ Search!levenshtein(x, y) = 0 <=> x = y
  BY DistanceFacts
<1>2. ASSUME NEW s \in Seq(S), OneEdit(x, s)
      PROVE  Near(Search!levenshtein(x, y), Search!levenshtein(s, y))
  BY <1>2, EditIsNear
<1>3. ASSUME x # y
      PROVE  \E s \in Seq(S) :
              /\ OneEdit(x, s)
              /\ Search!levenshtein(s, y) = Search!levenshtein(x, y) - 1
              /\ Len(x) >= Len(y) => Len(s) <= Len(x)
  <2>1. PICK s : Closer(S, x, y, s)
    BY <1>3, SomeEditIsCloser
  <2>2. /\ s \in Seq(S) /\ OneEdit(x, s)
        /\ Search!levenshtein(s, y) <= Search!levenshtein(x, y) - 1
        /\ Len(x) >= Len(y) => Len(s) <= Len(x)
    BY <2>1 DEF Closer
  <2>3. Near(Search!levenshtein(x, y), Search!levenshtein(s, y))
    BY <2>2, EditIsNear
  <2>4. Search!levenshtein(s, y) \in Nat
    BY <2>2, DistanceFacts
  <2>5. Search!levenshtein(s, y) = Search!levenshtein(x, y) - 1
    BY <1>1, <2>2, <2>3, <2>4 DEF Near
  <2> QED  BY <2>2, <2>5
<1> QED  BY <1>1, <1>2, <1>3

-----------------------------------------------------------------------------
(* The strings of the reference.                                           *)

Signs == {a, b, space}

LEMMA FunctionIsSeq ==
  ASSUME NEW S, NEW n \in Nat, NEW s \in [1..n -> S]
  PROVE  s \in Seq(S) /\ Len(s) = n
<1>1. s \in Seq(S)
  BY SeqDef
<1>2. DOMAIN s = 1..Len(s) /\ DOMAIN s = 1..n /\ Len(s) \in Nat
  BY <1>1, LenProperties
<1>3. \A m : m \in 1..Len(s) <=> m \in 1..n
  BY <1>2
<1>4. (n # 0 => n \in 1..Len(s)) /\ (Len(s) # 0 => Len(s) \in 1..n)
  <2>1. (n # 0 => n \in 1..n) /\ (Len(s) # 0 => Len(s) \in 1..Len(s))
    BY <1>2
  <2> QED  BY <1>3, <2>1
<1>5. Len(s) \in Nat
  BY <1>2
<1>6. (n # 0 => n <= Len(s)) /\ (Len(s) # 0 => Len(s) <= n)
  BY <1>4, <1>5
<1>7. Len(s) = n
  BY <1>5, <1>6
<1> QED  BY <1>1, <1>7

LEMMA ShortStrings ==
  \A s : s \in Search!Strings <=> s \in Seq(Signs) /\ Len(s) <= 3
<1>1. ASSUME NEW s, s \in Search!Strings
      PROVE  s \in Seq(Signs) /\ Len(s) <= 3
  <2>1. PICK n \in 0..3 : s \in [1..n -> Signs]
    BY <1>1 DEF Search!Strings, Signs
  <2>2. n \in Nat /\ n <= 3
    OBVIOUS
  <2>3. s \in Seq(Signs) /\ Len(s) = n
    BY <2>1, <2>2, FunctionIsSeq
  <2> QED  BY <2>2, <2>3
<1>2. ASSUME NEW s \in Seq(Signs), Len(s) <= 3
      PROVE  s \in Search!Strings
  <2>1. Len(s) \in Nat /\ s \in [1..Len(s) -> Signs]
    BY LenProperties
  <2>2. Len(s) \in 0..3
    BY <1>2, <2>1
  <2> QED  BY <2>1, <2>2 DEF Search!Strings, Signs
<1> QED  BY <1>1, <1>2

LEMMA WithoutOne ==
  ASSUME NEW S, NEW s \in Seq(S), NEW t \in Seq(S), Len(s) = Len(t) + 1,
         NEW i \in 1..Len(s)
  PROVE  Search!RemoveAt(s, i) = t <=> LeftOut(s, t, i)
<1> DEFINE h == SubSeq(s, 1, i - 1)
           e == SubSeq(s, i + 1, Len(s))
<1>0. Len(s) \in Nat /\ Len(t) \in Nat /\ i \in Nat
  BY LenProperties
<1>1. /\ h \in Seq(S) /\ Len(h) = i - 1
      /\ \A k \in 1..(i - 1) : h[k] = s[k]
  BY <1>0, SubSeqProperties
<1>2. /\ e \in Seq(S) /\ Len(e) = Len(s) - i
      /\ \A k \in 1..(Len(s) - i) : e[k] = s[k + i]
  BY <1>0, SubSeqProperties
<1> HIDE DEF h, e
<1>3. /\ h \o e \in Seq(S) /\ Len(h \o e) = Len(t)
      /\ \A k \in 1..Len(t) : (h \o e)[k] = IF k < i THEN s[k] ELSE s[k + 1]
  <2>1. /\ h \o e \in Seq(S) /\ Len(h \o e) = Len(h) + Len(e)
        /\ \A k \in 1..(Len(h) + Len(e)) :
             (h \o e)[k] = IF k <= Len(h) THEN h[k] ELSE e[k - Len(h)]
    BY <1>1, <1>2, ConcatProperties
  <2>2. ASSUME NEW k \in 1..Len(t)
        PROVE  (h \o e)[k] = IF k < i THEN s[k] ELSE s[k + 1]
    <3>1. CASE k < i
      BY <1>0, <1>1, <1>2, <2>1, <3>1
    <3>2. CASE ~(k < i)
      <4>1. /\ (h \o e)[k] = e[k - (i - 1)] /\ k - (i - 1) \in 1..(Len(s) - i)
            /\ k - (i - 1) + i = k + 1
        BY <1>0, <1>1, <1>2, <2>1, <3>2
      <4> QED  BY <1>2, <3>2, <4>1
    <3> QED  BY <3>1, <3>2
  <2> QED  BY <1>0, <1>1, <1>2, <2>1, <2>2
<1>4. Search!RemoveAt(s, i) = h \o e
  BY DEF Search!RemoveAt, h, e
<1>5. h \o e = t <=> \A k \in 1..Len(t) : (h \o e)[k] = t[k]
  BY <1>3, SeqEqual
<1>6. LeftOut(s, t, i) <=>
        \A k \in 1..Len(t) : t[k] = IF k < i THEN s[k] ELSE s[k + 1]
  BY DEF LeftOut, Without
<1> QED  BY <1>3, <1>4, <1>5, <1>6

LEMMA EditsAreEdits ==
  ASSUME NEW s \in Search!Strings, NEW t \in Search!Strings
  PROVE  t \in Search!EditsOf[s] <=> OneEdit(s, t)
<1>0. /\ s \in Seq(Signs) /\ t \in Seq(Signs)
      /\ Len(s) \in Nat /\ Len(t) \in Nat
  BY ShortStrings, LenProperties
<1>1. t \in Search!EditsOf[s] <=>
        \/ /\ Len(t) = Len(s)
           /\ \E i \in 1..Len(s) : \A k \in 1..Len(s) : k # i => t[k] = s[k]
        \/ Len(t) = Len(s) + 1 /\ \E i \in 1..Len(t) : Search!RemoveAt(t, i) = s
        \/ Len(s) = Len(t) + 1 /\ \E i \in 1..Len(s) : Search!RemoveAt(s, i) = t
  BY DEF Search!EditsOf, Search!Edits
<1>2. (Len(t) = Len(s) /\ \E i \in 1..Len(s) : \A k \in 1..Len(s) : k # i => t[k] = s[k])
        <=> \E c \in Nat : Replaced(s, t, c)
  BY <1>0 DEF Replaced, ButOne
<1>3. (Len(t) = Len(s) + 1 /\ \E i \in 1..Len(t) : Search!RemoveAt(t, i) = s)
        <=> \E c \in Nat : LeftOut(t, s, c)
  <2>1. Len(t) = Len(s) + 1 =>
          \A i \in 1..Len(t) : Search!RemoveAt(t, i) = s <=> LeftOut(t, s, i)
    BY <1>0, WithoutOne
  <2>2. \A c \in Nat : LeftOut(t, s, c) => Len(t) = Len(s) + 1 /\ c \in 1..Len(t)
    BY DEF LeftOut, Without
  <2>3. \A i \in 1..Len(t) : i \in Nat
    OBVIOUS
  <2> QED  BY <2>1, <2>2, <2>3
<1>4. (Len(s) = Len(t) + 1 /\ \E i \in 1..Len(s) : Search!RemoveAt(s, i) = t)
        <=> \E c \in Nat : LeftOut(s, t, c)
  <2>1. Len(s) = Len(t) + 1 =>
          \A i \in 1..Len(s) : Search!RemoveAt(s, i) = t <=> LeftOut(s, t, i)
    BY <1>0, WithoutOne
  <2>2. \A c \in Nat : LeftOut(s, t, c) => Len(s) = Len(t) + 1 /\ c \in 1..Len(s)
    BY DEF LeftOut, Without
  <2>3. \A i \in 1..Len(s) : i \in Nat
    OBVIOUS
  <2> QED  BY <2>1, <2>2, <2>3
<1> QED  BY <1>1, <1>2, <1>3, <1>4 DEF OneEdit

(* Some edit is one nearer and among the strings.                          *)
LEMMA NearerString ==
  ASSUME NEW s \in Search!Strings, NEW t \in Search!Strings, s # t
  PROVE  \E r \in Search!EditsOf[s] :
           /\ r \in Search!Strings
           /\ Search!levenshtein(r, t) = Search!levenshtein(s, t) - 1
<1>0. /\ s \in Seq(Signs) /\ t \in Seq(Signs)
      /\ Len(s) \in Nat /\ Len(t) \in Nat /\ Len(s) <= 3 /\ Len(t) <= 3
  BY ShortStrings, LenProperties
<1>1. PICK r \in Seq(Signs) :
        /\ OneEdit(s, r)
        /\ Search!levenshtein(r, t) = Search!levenshtein(s, t) - 1
        /\ Len(s) >= Len(t) => Len(r) <= Len(s)
  BY <1>0, LevenshteinCounts
<1>2. Near(Len(s), Len(r)) /\ Len(r) \in Nat
  BY <1>0, <1>1, LengthEdited, LenProperties
<1>3. Len(r) <= 3
  BY <1>0, <1>1, <1>2 DEF Near
<1>4. r \in Search!Strings
  BY <1>3, ShortStrings
<1> QED  BY <1>1, <1>4, EditsAreEdits

LEMMA EditDistanceIsLevenshtein ==
  ASSUME NEW s \in Search!Strings, NEW t \in Search!Strings
  PROVE  Search!levenshtein(s, t) = Search!EditDistance[<<s, t>>]
<1>0. /\ s \in Seq(Signs) /\ t \in Seq(Signs)
      /\ Len(s) \in Nat /\ Len(t) \in Nat /\ Len(s) <= 3 /\ Len(t) <= 3
  BY ShortStrings, LenProperties
<1> DEFINE d == Search!levenshtein(s, t)
<1>1. d \in 0..3 /\ (d = 0 <=> s = t)
  BY <1>0, DistanceFacts
<1>2. Search!EditDistance[<<s, t>>] =
        IF s = t THEN 0 ELSE IF t \in Search!EditsOf[s] THEN 1
        ELSE IF t \in Search!TwoOf[s] THEN 2 ELSE 3
  BY DEF Search!EditDistance
<1>3. t \in Search!TwoOf[s] <=>
        t \in Search!EditsOf[s] \/ \E r \in Search!EditsOf[s] : t \in Search!EditsOf[r]
  BY DEF Search!TwoOf, Search!Farther
<1>4. \A v \in Search!Strings : Search!EditsOf[v] \subseteq Search!Strings
  BY DEF Search!EditsOf, Search!Edits
(* An edit away is at most one nearer.                                     *)
<1>5. ASSUME NEW v \in Search!Strings, NEW r \in Search!EditsOf[v]
      PROVE  /\ r \in Search!Strings
             /\ Search!levenshtein(v, t) <= Search!levenshtein(r, t) + 1
  <2>1. r \in Search!Strings
    BY <1>4
  <2>2. OneEdit(v, r) /\ v \in Seq(Signs) /\ r \in Seq(Signs)
    BY <2>1, EditsAreEdits, ShortStrings
  <2> QED  BY <2>1, <2>2, <1>0, EditIsNear DEF Near
<1>6. ASSUME NEW v \in Search!Strings
      PROVE  /\ Search!levenshtein(v, t) \in Nat
             /\ Search!levenshtein(v, t) = 0 <=> v = t
  BY <1>0, DistanceFacts, ShortStrings
<1>7. t \in Search!EditsOf[s] => d <= 1
  <2>1. Search!levenshtein(t, t) = 0
    BY <1>6
  <2> QED  BY <1>5, <2>1
<1>8. d = 1 => t \in Search!EditsOf[s]
  <2> SUFFICES ASSUME d = 1
               PROVE  t \in Search!EditsOf[s]
    OBVIOUS
  <2>1. PICK r \in Search!EditsOf[s] : r \in Search!Strings /\ Search!levenshtein(r, t) = d - 1
    BY <1>1, NearerString
  <2> QED  BY <2>1, <1>6
<1>9. t \in Search!TwoOf[s] => d <= 2
  <2> SUFFICES ASSUME NEW r \in Search!EditsOf[s], t \in Search!EditsOf[r]
               PROVE  d <= 2
    BY <1>1, <1>3, <1>7
  <2>1. r \in Search!Strings /\ d <= Search!levenshtein(r, t) + 1
    BY <1>5
  <2>2. Search!levenshtein(r, t) <= Search!levenshtein(t, t) + 1
    BY <1>5, <2>1
  <2>3. Search!levenshtein(t, t) = 0 /\ Search!levenshtein(r, t) \in Nat
    BY <1>6, <2>1
  <2> QED  BY <1>1, <2>1, <2>2, <2>3
<1>10. d = 2 => t \in Search!TwoOf[s]
  <2> SUFFICES ASSUME d = 2
               PROVE  t \in Search!TwoOf[s]
    OBVIOUS
  <2>1. PICK r \in Search!EditsOf[s] : r \in Search!Strings /\ Search!levenshtein(r, t) = d - 1
    BY <1>1, NearerString
  <2>2. r # t /\ Search!levenshtein(r, t) = 1
    BY <2>1, <1>6
  <2>3. PICK q \in Search!EditsOf[r] : q \in Search!Strings /\ Search!levenshtein(q, t) = 0
    BY <2>1, <2>2, NearerString
  <2>4. q = t
    BY <2>3, <1>6
  <2> QED  BY <2>3, <2>4, <1>3
<1> HIDE DEF d
<1>11. d = Search!EditDistance[<<s, t>>]
  BY <1>1, <1>2, <1>7, <1>8, <1>9, <1>10
<1> QED  BY <1>11 DEF d

-----------------------------------------------------------------------------
(* What a term is worth.                                                   *)

(* The greatest of a set of numbers that is not empty and has a bound.     *)
LEMMA GreatestIs ==
  ASSUME NEW n \in Nat, NEW T \in SUBSET (0..n), T # {}
  PROVE  Search!Max(T) \in T /\ \A m \in T : Search!Max(T) >= m
<1> DEFINE R == {k \in 0..n : n - k \in T}
<1>1. R \in SUBSET Nat /\ R # {}
  <2>1. PICK m \in T : TRUE
    OBVIOUS
  <2>2. n - m \in 0..n /\ n - (n - m) = m
    BY <2>1
  <2>3. n - m \in R
    BY <2>2
  <2> QED  BY <2>3
<1>2. PICK k \in R : \A m \in R : k <= m
  BY <1>1, LeastNat
<1>3. n - k \in T /\ k \in 0..n
  BY <1>2
<1>4. ASSUME NEW m \in T
      PROVE  n - k >= m
  <2>1. m \in 0..n /\ n - m \in 0..n /\ n - (n - m) = m
    OBVIOUS
  <2>2. n - m \in R
    BY <2>1
  <2> HIDE DEF R
  <2>3. k <= n - m
    BY <1>2, <2>2
  <2> QED  BY <2>1, <2>3, <1>3
<1>5. \E x \in T : \A y \in T : x >= y
  BY <1>3, <1>4
<1> QED  BY <1>5 DEF Search!Max

LEMMA Share ==
  ASSUME NEW u \in Nat, NEW m \in Nat, m # 0, NEW d \in 0..m
  PROVE  u - (u * d) \div m \in 0..u
<1> DEFINE q == (u * d) \div m
<1>1. u * d \in Nat /\ u * d <= u * m
  <2>1. PICK k \in Nat : m = d + k
    <3>1. m - d \in Nat /\ m = d + (m - d)
      OBVIOUS
    <3> QED  BY <3>1
  <2>2. u * m = u * d + u * k /\ u * d \in Nat /\ u * k \in Nat
    BY <2>1
  <2> QED  BY <2>2
<1>2. q \in Int /\ m * q <= u * d /\ u * d < m * q + m
  BY <1>1
<1>3. q >= 0
  <2> SUFFICES ASSUME q <= 0 - 1
               PROVE  FALSE
    BY <1>2
  <2>1. PICK k \in Nat : q = 0 - 1 - k
    <3>1. 0 - 1 - q \in Nat /\ q = 0 - 1 - (0 - 1 - q)
      BY <1>2
    <3> QED  BY <3>1
  <2>2. m * q = 0 - m - m * k /\ m * k \in Nat
    <3> HIDE DEF q
    <3> QED  BY <2>1
  <2> HIDE DEF q
  <2> QED  BY <1>1, <1>2, <2>2
<1>4. q <= u
  <2> SUFFICES ASSUME q > u
               PROVE  FALSE
    BY <1>2
  <2>1. PICK k \in Nat : q = u + 1 + k
    <3>1. q - u - 1 \in Nat /\ q = u + 1 + (q - u - 1)
      BY <1>2
    <3> QED  BY <3>1
  <2>2. m * q = u * m + m + m * k /\ m * k \in Nat
    <3> HIDE DEF q
    <3> QED  BY <2>1
  <2> HIDE DEF q
  <2> QED  BY <1>1, <1>2, <2>2
<1> QED
  <2> HIDE DEF q
  <2>1. u - q \in 0..u
    BY <1>2, <1>3, <1>4
  <2> QED  BY <2>1 DEF q

LEMMA WordFact ==
  ASSUME NEW S, NEW t \in Seq(S), NEW w \in Search!WordsOf(t)
  PROVE  w \in Seq(S) /\ Len(w) # 0
<1>0. Len(t) \in Nat /\ t \in [1..Len(t) -> S]
  BY LenProperties
<1>1. PICK p \in (1..Len(t)) \X (1..Len(t)) : w = SubSeq(t, p[1], p[2]) /\ p[1] <= p[2]
  BY DEF Search!WordsOf
<1>2. PICK i \in 1..Len(t), j \in 1..Len(t) : w = SubSeq(t, i, j) /\ i <= j
  BY <1>1
<1>3. \A k \in i..j : t[k] \in S
  BY <1>0
<1>4. SubSeq(t, i, j) \in Seq(S) /\ Len(SubSeq(t, i, j)) = j - i + 1
  BY <1>0, <1>2, <1>3, SubSeqProperties
<1> QED  BY <1>0, <1>2, <1>4

LEMMA SimilarityFact ==
  ASSUME NEW S, NEW q \in Seq(S), NEW w \in Seq(S), Len(w) # 0, Unit \in Nat
  PROVE  Search!similarity(q, w) \in 0..Unit
<1> DEFINE T == {Len(q), Len(w)}
           longer == Search!Max(T)
<1>0. Len(q) \in Nat /\ Len(w) \in Nat
  BY LenProperties
<1>1. longer \in T /\ \A m \in T : longer >= m
  <2>1. Len(q) + Len(w) \in Nat /\ T \subseteq 0..(Len(q) + Len(w)) /\ T # {}
    BY <1>0
  <2> QED  BY <2>1, GreatestIs
<1>2. longer \in Nat /\ longer # 0 /\ longer >= Len(q) /\ longer >= Len(w)
  <2> HIDE DEF longer
  <2> QED  BY <1>0, <1>1
<1>3. Search!levenshtein(q, w) \in 0..longer
  <2>1. /\ Search!levenshtein(q, w) \in Nat
        /\ Search!levenshtein(q, w) <= Len(q) \/ Search!levenshtein(q, w) <= Len(w)
    BY DistanceFacts
  <2> HIDE DEF longer
  <2> QED  BY <1>0, <1>2, <2>1
<1>4. Search!similarity(q, w) = Unit - (Unit * Search!levenshtein(q, w)) \div longer
  BY DEF Search!similarity
<1> HIDE DEF longer
<1> QED  BY <1>2, <1>3, <1>4, Share

LEMMA LexicalFact ==
  ASSUME NEW S, NEW q \in Seq(S), NEW t \in Seq(S), Unit \in Nat
  PROVE  Search!lexicalSimilarity(q, t) \in 0..Unit
<1> DEFINE T == {0} \cup {Search!similarity(q, w) : w \in Search!WordsOf(t)}
<1>1. T \subseteq 0..Unit /\ T # {}
  <2>1. \A w \in Search!WordsOf(t) : Search!similarity(q, w) \in 0..Unit
    BY WordFact, SimilarityFact
  <2> QED  BY <2>1
<1>2. Search!Max(T) \in T
  <2> HIDE DEF T
  <2> QED  BY <1>1, GreatestIs
<1>3. Search!Max(T) \in 0..Unit
  BY <1>1, <1>2
<1>4. \/ Search!lexicalSimilarity(q, t) = Unit
      \/ Search!lexicalSimilarity(q, t) = Search!Max(T)
  BY DEF Search!lexicalSimilarity
<1> QED  BY <1>3, <1>4

-----------------------------------------------------------------------------
(* The search.                                                             *)

LEMMA ScoreFact ==
  ASSUME Search!CategorySearchAssumption, query \in Queries,
         semantic \in [Terms -> Likeness], NEW t \in Terms
  PROVE  /\ Search!Score(t) \in Int
         /\ \E l \in 0..Unit : Search!Score(t) = semantic[t] * Unit + 6 * l
<1>1. /\ query \in Seq(Search!Letters) /\ t \in Seq(Search!Letters)
      /\ Unit \in Nat /\ semantic[t] \in Int
  BY DEF Search!CategorySearchAssumption
<1>2. Search!lexicalSimilarity(query, t) \in 0..Unit
  BY <1>1, LexicalFact
<1>3. Search!Score(t) = semantic[t] * Unit + 6 * Search!lexicalSimilarity(query, t)
  BY DEF Search!Score, Search!LexicalBoostWeight
<1> QED  BY <1>1, <1>2, <1>3

-----------------------------------------------------------------------------
(* What the search keeps while it scores term after term.                  *)

LEMMA BoundedFact ==
  ASSUME NEW S, NEW n \in Nat
  PROVE  \A s : s \in Search!BoundedSeq(S, n) <=> s \in Seq(S) /\ Len(s) <= n
<1>1. \A s : s \in Search!BoundedSeq(S, n) <=> \E m \in 0..n : s \in [1..m -> S]
  BY DEF Search!BoundedSeq, Search!SeqOf
<1>2. ASSUME NEW s, NEW m \in 0..n, s \in [1..m -> S]
      PROVE  s \in Seq(S) /\ Len(s) <= n
  <2>1. m \in Nat /\ m <= n
    OBVIOUS
  <2>2. s \in Seq(S) /\ Len(s) = m
    BY <1>2, <2>1, FunctionIsSeq
  <2> QED  BY <2>1, <2>2
<1>3. ASSUME NEW s \in Seq(S), Len(s) <= n
      PROVE  \E m \in 0..n : s \in [1..m -> S]
  <2>1. Len(s) \in Nat /\ s \in [1..Len(s) -> S]
    BY LenProperties
  <2>2. Len(s) \in 0..n
    BY <1>3, <2>1
  <2> QED  BY <2>1, <2>2
<1> QED  BY <1>1, <1>2, <1>3

Item == [term : Terms, category : Searched]

Scores == [t \in Terms |-> Search!Score(t)]

(* What is known of a category is the best of its terms before next.       *)
BestSound ==
  /\ best = [c \in Searched |-> best[c]]
  /\ \A c \in Searched : best[c] # null =>
       \E i \in 1..(next - 1) :
         /\ cached[i].category = c
         /\ best[c].term = cached[i].term
         /\ best[c].score = Scores[cached[i].term]
  /\ \A i \in 1..(next - 1) :
       /\ best[cached[i].category] # null
       /\ best[cached[i].category].score >= Scores[cached[i].term]

Beginning(found) == SubSeq(found, 1, Search!Min({Limit, Len(found)}))

(* The answer is the beginning of the good categories in their order.      *)
AnswerSound ==
  Search!Answered =>
    /\ next > Len(cached)
    /\ \E found \in Search!Sorted(Search!Good) : answer = Beginning(found)

SearchSound ==
  /\ Search!TypeOK
  /\ next <= Len(cached) + 1
  /\ query = null => next = 1
  /\ BestSound
  /\ AnswerSound

LEMMA CacheFact ==
  ASSUME Search!CategorySearchAssumption, cached \in Search!BoundedSeq(Item, CacheSize)
  PROVE  /\ cached \in Seq(Item) /\ Len(cached) \in Nat /\ Len(cached) <= CacheSize
         /\ \A i \in 1..Len(cached) : cached[i].term \in Terms /\ cached[i].category \in Searched
<1>1. cached \in Seq(Item) /\ Len(cached) <= CacheSize
  BY BoundedFact DEF Search!CategorySearchAssumption
<1>2. Len(cached) \in Nat /\ cached \in [1..Len(cached) -> Item]
  BY <1>1, LenProperties
<1> QED  BY <1>1, <1>2 DEF Item

LEMMA InitSearch ==
  ASSUME Search!CategorySearchAssumption, Search!Init
  PROVE  SearchSound
<1>1. /\ cached \in Search!BoundedSeq(Item, CacheSize) /\ query = null
      /\ semantic \in [Terms -> Likeness] /\ next = 1
      /\ best = [c \in Searched |-> null] /\ answer = null
  BY DEF Search!Init, Search!NothingYet, Item
<1>2. Len(cached) \in Nat
  BY <1>1, CacheFact
<1>3. Search!TypeOK
  BY <1>1 DEF Search!TypeOK, Search!CategorySearchAssumption, Item
<1>4. BestSound
  BY <1>1 DEF BestSound
<1>5. AnswerSound
  BY <1>1 DEF AnswerSound, Search!Answered
<1> QED  BY <1>1, <1>2, <1>3, <1>4, <1>5 DEF SearchSound

(* Everything is scored: the best of a category is what it is worth.       *)
LEMMA WorthFact ==
  ASSUME Search!CategorySearchAssumption, SearchSound, query \in Queries,
         next > Len(cached)
  PROVE  /\ \A c \in Search!Known : /\ best[c] # null
                                    /\ best[c].score = Search!Worth(c)
                                    /\ Search!Worth(c) \in Int
         /\ \A c \in Search!Known : \A t \in Search!TermsOf(c) :
              t \in Terms /\ Search!Score(t) <= Search!Worth(c)
         /\ \A c \in Search!Known : \E t \in Search!TermsOf(c) :
              Search!Worth(c) = Search!Score(t)
         /\ Search!Known \subseteq Searched
         /\ Search!Good = {c \in Search!Known : Search!Worth(c) >= 85 * Unit}
<1>0. /\ cached \in Seq(Item) /\ Len(cached) \in Nat
      /\ \A i \in 1..Len(cached) : cached[i].term \in Terms /\ cached[i].category \in Searched
      /\ 1..(next - 1) = 1..Len(cached)
      /\ semantic \in [Terms -> Likeness]
  <2>1. /\ cached \in Search!BoundedSeq(Item, CacheSize)
        /\ semantic \in [Terms -> Likeness] /\ next \in 1..(CacheSize + 1)
    BY DEF SearchSound, Search!TypeOK, Item
  <2>2. CacheSize \in Nat
    BY DEF Search!CategorySearchAssumption
  <2>3. /\ cached \in Seq(Item) /\ Len(cached) \in Nat
        /\ \A i \in 1..Len(cached) : cached[i].term \in Terms /\ cached[i].category \in Searched
    BY <2>1, CacheFact
  <2>4. next - 1 = Len(cached)
    BY <2>1, <2>2, <2>3 DEF SearchSound
  <2> QED  BY <2>1, <2>3, <2>4
<1>1. \A c, t : t \in Search!TermsOf(c) <=>
        \E i \in 1..Len(cached) : cached[i].category = c /\ cached[i].term = t
  <2>1. DOMAIN cached = 1..Len(cached)
    BY <1>0, LenProperties
  <2> QED  BY <2>1 DEF Search!TermsOf, Search!ToSet
<1>2. \A t \in Terms : Search!Score(t) \in Int
  BY <1>0, ScoreFact
<1>3. /\ \A c \in Searched : best[c] # null =>
           \E i \in 1..Len(cached) :
             /\ cached[i].category = c
             /\ best[c].score = Search!Score(cached[i].term)
      /\ \A i \in 1..Len(cached) :
           /\ best[cached[i].category] # null
           /\ best[cached[i].category].score >= Search!Score(cached[i].term)
  <2>1. \A i \in 1..Len(cached) : Scores[cached[i].term] = Search!Score(cached[i].term)
    BY <1>0 DEF Scores
  <2>2. /\ \A c \in Searched : best[c] # null =>
             \E i \in 1..Len(cached) :
               /\ cached[i].category = c
               /\ best[c].score = Scores[cached[i].term]
        /\ \A i \in 1..Len(cached) :
             /\ best[cached[i].category] # null
             /\ best[cached[i].category].score >= Scores[cached[i].term]
    BY <1>0 DEF SearchSound, BestSound
  <2> QED  BY <2>1, <2>2
<1>4. \A c : c \in Search!Known <=> c \in Searched /\ best[c] # null
  <2>1. \A c : c \in Search!Known <=> c \in Searched /\ \E t : t \in Search!TermsOf(c)
    BY DEF Search!Known
  <2>2. ASSUME NEW c \in Searched
        PROVE  (\E t : t \in Search!TermsOf(c)) <=> best[c] # null
    BY <1>1, <1>3
  <2> QED  BY <2>1, <2>2
<1>5. ASSUME NEW c \in Search!Known
      PROVE  /\ best[c].score = Search!Worth(c) /\ Search!Worth(c) \in Int
             /\ \A t \in Search!TermsOf(c) : t \in Terms /\ Search!Score(t) <= Search!Worth(c)
             /\ \E t \in Search!TermsOf(c) : Search!Worth(c) = Search!Score(t)
  <2> DEFINE T == {Search!Score(t) : t \in Search!TermsOf(c)}
             m == best[c].score
  <2>1. c \in Searched /\ best[c] # null
    BY <1>4
  <2>2. PICK i \in 1..Len(cached) :
          cached[i].category = c /\ m = Search!Score(cached[i].term)
    BY <1>3, <2>1
  <2>3. cached[i].term \in Search!TermsOf(c)
    BY <1>1, <2>2
  <2>4. m \in T /\ m \in Int
    BY <1>0, <1>2, <2>2, <2>3
  <2>5. \A t \in Search!TermsOf(c) :
          t \in Terms /\ Search!Score(t) \in Int /\ Search!Score(t) <= m
    <3> HIDE DEF m
    <3>1. ASSUME NEW t \in Search!TermsOf(c)
          PROVE  t \in Terms /\ Search!Score(t) \in Int /\ Search!Score(t) <= m
      <4>1. PICK j \in 1..Len(cached) : cached[j].category = c /\ cached[j].term = t
        BY <1>1
      <4>2. t \in Terms /\ Search!Score(t) \in Int
        BY <1>0, <1>2, <4>1
      <4>3. best[c].score >= Search!Score(t)
        BY <1>3, <4>1
      <4> QED  BY <2>4, <4>2, <4>3 DEF m
    <3> QED  BY <3>1
  <2>6. \A x \in T : x \in Int /\ m >= x
    <3> HIDE DEF m
    <3> QED  BY <2>4, <2>5
  <2>7. Search!Worth(c) = Search!Max(T)
    BY DEF Search!Worth
  <2> HIDE DEF T, m
  <2>8. Search!Max(T) = m
    <3>1. Search!Max(T) \in T /\ \A y \in T : Search!Max(T) >= y
      BY <2>4, <2>6 DEF Search!Max
    <3>2. Search!Max(T) >= m /\ m >= Search!Max(T) /\ Search!Max(T) \in Int
      BY <2>4, <2>6, <3>1
    <3> QED  BY <2>4, <3>2
  <2>9. best[c].score = Search!Worth(c) /\ Search!Worth(c) \in Int
    BY <2>4, <2>7, <2>8 DEF m
  <2>10. Search!Worth(c) = Search!Score(cached[i].term)
    BY <2>2, <2>7, <2>8 DEF m
  <2>11. Search!Worth(c) = m
    BY <2>7, <2>8
  <2> QED  BY <2>3, <2>5, <2>9, <2>10, <2>11
<1>6. Search!Good = {c \in Search!Known : Search!Worth(c) >= 85 * Unit}
  <2>1. \A c : c \in Search!Good <=>
          c \in Searched /\ best[c] # null /\ best[c].score >= 85 * Unit
    BY DEF Search!Good, Search!MinScore
  <2> QED  BY <2>1, <1>4, <1>5
<1>7. Search!Known \subseteq Searched
  BY <1>4
<1>8. \A c \in Search!Known : \A t \in Search!TermsOf(c) :
        t \in Terms /\ Search!Score(t) <= Search!Worth(c)
  BY <1>5
<1>9. \A c \in Search!Known : \E t \in Search!TermsOf(c) :
        Search!Worth(c) = Search!Score(t)
  BY <1>5
<1>10. \A c \in Search!Known :
         best[c] # null /\ best[c].score = Search!Worth(c) /\ Search!Worth(c) \in Int
  BY <1>4, <1>5
<1> QED  BY <1>6, <1>7, <1>8, <1>9, <1>10

-----------------------------------------------------------------------------
(* A step of the search.                                                   *)

LEMMA SameCardinality == \A S : Search!Cardinality(S) = Cardinality(S)
BY DEF Search!Cardinality, Cardinality

(* No more good categories than cached terms.                              *)
LEMMA GoodIsFinite ==
  ASSUME Search!CategorySearchAssumption, SearchSound, query \in Queries,
         next > Len(cached)
  PROVE  Cardinality(Search!Good) \in Nat
<1>1. cached \in Seq(Item) /\ Len(cached) \in Nat
  BY CacheFact DEF SearchSound, Search!TypeOK, Item
<1> DEFINE T == {cached[i].category : i \in 1..Len(cached)}
           f == [i \in 1..Len(cached) |-> cached[i].category]
<1>2. Search!Good \subseteq T
  <2>1. next \in Nat /\ next - 1 = Len(cached)
    BY <1>1 DEF SearchSound, Search!TypeOK, Search!CategorySearchAssumption
  <2> QED  BY <2>1 DEF SearchSound, BestSound, Search!Good
<1>3. f \in Surjection(1..Len(cached), T)
  BY DEF Surjection
<1>4. IsFiniteSet(1..Len(cached))
  BY <1>1, FS_Interval
<1>5. IsFiniteSet(T)
  <2> HIDE DEF T, f
  <2> QED  BY <1>3, <1>4, FS_Surjection
<1> QED
  <2> HIDE DEF T
  <2>1. IsFiniteSet(Search!Good)
    BY <1>2, <1>5, FS_Subset
  <2> QED  BY <2>1, FS_CardinalityType

(* What the categories in their order are, and the beginning that is shown.*)
LEMMA SortedFact ==
  ASSUME NEW S, Cardinality(S) \in Nat, NEW found \in Search!Sorted(S), Limit \in Nat
  PROVE  /\ found \in Seq(S) /\ Len(found) \in Nat
         /\ \A c : c \in S <=> \E i \in 1..Len(found) : found[i] = c
         /\ \A i, j \in 1..Len(found) : i < j => Search!Before(found[i], found[j])
         /\ Beginning(found) \in Seq(S) /\ Len(Beginning(found)) \in Nat
         /\ Len(Beginning(found)) <= Limit /\ Len(Beginning(found)) <= Len(found)
         /\ \/ Len(Beginning(found)) = Limit
            \/ Len(Beginning(found)) = Len(found)
         /\ \A i \in 1..Len(Beginning(found)) : Beginning(found)[i] = found[i]
<1>1. /\ found \in [1..Cardinality(S) -> S] /\ Search!ToSet(found) = S
      /\ \A i, j \in DOMAIN found : i < j => Search!Before(found[i], found[j])
  <2>1. found \in Search!Sorted(S)
    OBVIOUS
  <2> QED  BY <2>1, SameCardinality DEF Search!Sorted
<1>2. found \in Seq(S) /\ Len(found) \in Nat /\ DOMAIN found = 1..Len(found)
  BY <1>1, FunctionIsSeq, LenProperties
<1>3. \A c : c \in S <=> \E i \in 1..Len(found) : found[i] = c
  BY <1>1, <1>2 DEF Search!ToSet
<1> DEFINE m == Search!Min({Limit, Len(found)})
<1>4. m \in {Limit, Len(found)} /\ m <= Limit /\ m <= Len(found)
  <2>1. \E k \in {Limit, Len(found)} : \A n \in {Limit, Len(found)} : k <= n
    BY <1>2
  <2>2. m \in {Limit, Len(found)} /\ \A n \in {Limit, Len(found)} : m <= n
    BY <2>1 DEF Search!Min
  <2> QED  BY <2>2
<1> HIDE DEF m
<1>5. m \in Nat
  BY <1>2, <1>4
<1>6. \A i \in 1..m : found[i] \in S
  <2> SUFFICES ASSUME NEW i \in 1..m
               PROVE  found[i] \in S
    OBVIOUS
  <2>1. i \in 1..Len(found)
    <3>1. Len(found) \in Nat /\ m <= Len(found)
      BY <1>2, <1>4
    <3> QED  BY <1>5, <3>1
  <2> QED  BY <2>1, <1>3
<1>7. /\ SubSeq(found, 1, m) \in Seq(S) /\ Len(SubSeq(found, 1, m)) = m
      /\ \A i \in 1..m : SubSeq(found, 1, m)[i] = found[i]
  <2>1. /\ SubSeq(found, 1, m) \in Seq(S)
        /\ Len(SubSeq(found, 1, m)) = IF 1 <= m THEN m - 1 + 1 ELSE 0
        /\ \A i \in 1..(m - 1 + 1) : SubSeq(found, 1, m)[i] = found[1 + i - 1]
    BY <1>5, <1>6, SubSeqProperties
  <2>2. m - 1 + 1 = m /\ \A i \in 1..m : 1 + i - 1 = i
    BY <1>5
  <2>3. Len(SubSeq(found, 1, m)) = m
    BY <1>5, <2>1
  <2> QED  BY <2>1, <2>2, <2>3
<1>8. Beginning(found) = SubSeq(found, 1, m)
  BY DEF m, Beginning
<1> QED  BY <1>1, <1>2, <1>3, <1>4, <1>5, <1>7, <1>8

(* Before is strict.                                                       *)
LEMMA BeforeItself ==
  ASSUME Search!CategorySearchAssumption, SearchSound, query \in Queries,
         next > Len(cached), NEW c \in Search!Good
  PROVE  ~Search!Before(c, c)
<1>1. c \in Searched /\ best[c] # null
  BY DEF Search!Good
<1>2. /\ best[c].score \in Int /\ Len(cached) \in Nat
  BY <1>1, CacheFact DEF SearchSound, Search!TypeOK, Item
<1> DEFINE T == {i \in 1..Len(cached) : cached[i].category = c}
<1>3. T \in SUBSET Nat /\ T # {}
  <2>1. next \in Nat /\ next - 1 = Len(cached)
    BY <1>2 DEF SearchSound, Search!TypeOK, Search!CategorySearchAssumption
  <2> QED  BY <1>1, <2>1 DEF SearchSound, BestSound
<1>4. Search!Min(T) \in Nat
  <2> HIDE DEF T
  <2>1. \E k \in T : \A n \in T : k <= n
    BY <1>3, LeastNat
  <2>2. Search!Min(T) \in T
    BY <2>1 DEF Search!Min
  <2> QED  BY <1>3, <2>2
<1>5. Search!FirstOf(c) = Search!Min(T)
  BY DEF Search!FirstOf
<1> HIDE DEF T
<1> QED  BY <1>2, <1>4, <1>5 DEF Search!Before

LEMMA StepSearch ==
  ASSUME Search!CategorySearchAssumption, SearchSound, [Search!Next]_search
  PROVE  SearchSound'
<1>0. /\ cached \in Search!BoundedSeq(Item, CacheSize)
      /\ cached \in Seq(Item) /\ Len(cached) \in Nat /\ Len(cached) <= CacheSize
      /\ \A i \in 1..Len(cached) : cached[i].term \in Terms /\ cached[i].category \in Searched
      /\ semantic \in [Terms -> Likeness]
      /\ next \in 1..(CacheSize + 1) /\ CacheSize \in Nat /\ Limit \in Nat
      /\ next <= Len(cached) + 1
      /\ query \in Queries \cup {null}
  BY CacheFact DEF SearchSound, Search!TypeOK, Search!CategorySearchAssumption, Item
<1>1. CASE Search!searchBySemantic
  <2>1. /\ query = null /\ query' \in Queries /\ next = 1
        /\ answer' = IF Len(query') < 2 THEN <<>> ELSE null
        /\ UNCHANGED <<cached, semantic, next, best>>
    BY <1>1 DEF Search!searchBySemantic, SearchSound
  <2>2. answer' # null => answer' \in Search!BoundedSeq(Searched, Limit)
                          /\ Search!IsInjective(answer')
    <3>1. answer' # null => answer' = <<>>
      BY <2>1
    <3>2. answer' = <<>> =>
            answer' \in Seq(Searched) /\ Len(answer') = 0 /\ Search!IsInjective(answer')
      BY EmptySeq DEF Search!IsInjective
    <3>3. Limit \in Nat
      BY <1>0
    <3>4. \A s : s \in Search!BoundedSeq(Searched, Limit) <=>
                  s \in Seq(Searched) /\ Len(s) <= Limit
      BY <3>3, BoundedFact
    <3> SUFFICES ASSUME answer' # null
                 PROVE  answer' \in Search!BoundedSeq(Searched, Limit)
                        /\ Search!IsInjective(answer')
      OBVIOUS
    <3>5. answer' \in Seq(Searched) /\ Len(answer') = 0 /\ Search!IsInjective(answer')
      BY <3>1, <3>2
    <3>6. Len(answer') <= Limit
      BY <3>3, <3>5
    <3> QED  BY <3>4, <3>5, <3>6
  <2>3. Search!TypeOK'
    BY <2>1, <2>2 DEF SearchSound, Search!TypeOK
  <2>4. BestSound'
    <3>1. best = [c \in Searched |-> best[c]] /\ 1..(next - 1) = {}
      BY <2>1 DEF SearchSound, BestSound
    <3>2. \A c \in Searched : best[c] = null
      BY <3>1 DEF SearchSound, BestSound
    <3> QED  BY <2>1, <3>1, <3>2 DEF BestSound
  <2>5. AnswerSound'
    <3>1. ~Search!Answered'
      <4>1. query' # null
        BY <2>1 DEF Search!CategorySearchAssumption
      <4>2. Len(query') \in Nat
        BY <2>1 DEF Search!CategorySearchAssumption
      <4> QED  BY <2>1, <4>2 DEF Search!Answered
    <3> QED  BY <3>1 DEF AnswerSound
  <2>6. query' # null
    BY <2>1 DEF Search!CategorySearchAssumption
  <2> QED  BY <1>0, <2>1, <2>3, <2>4, <2>5, <2>6 DEF SearchSound
<1>2. CASE Search!scoreTerm
  <2> DEFINE item == cached[next]
             c == item.category
             v == Scores[item.term]
  <2>1. /\ query # null /\ answer = null /\ next <= Len(cached)
        /\ best' = IF best[c] = null \/ v > best[c].score
                   THEN [best EXCEPT ![c] = [term |-> item.term, score |-> v]]
                   ELSE best
        /\ next' = next + 1
        /\ UNCHANGED <<cached, query, semantic, answer>>
    <3>1. next \in 1..Len(cached)
      BY <1>0, <1>2 DEF Search!scoreTerm
    <3>2. v = Search!Score(item.term)
      BY <1>0, <3>1 DEF Scores
    <3> HIDE DEF v
    <3> QED  BY <1>2, <3>2 DEF Search!scoreTerm
  <2>2. next \in 1..Len(cached) /\ query \in Queries /\ next' \in 1..(CacheSize + 1)
        /\ next' <= Len(cached) + 1
    BY <1>0, <2>1
  <2>3. c \in Searched /\ item.term \in Terms
    BY <1>0, <2>2
  <2>4. \A t \in Terms : Scores[t] \in Int
    <3>1. \A t \in Terms : Search!Score(t) \in Int
      BY <1>0, <2>2, ScoreFact
    <3> QED  BY <3>1 DEF Scores
  <2>5. Scores' = Scores
    BY <2>1 DEF Scores, Search!Score
  <2>6. best = [d \in Searched |-> best[d]]
    BY DEF SearchSound, BestSound
  <2> HIDE DEF item, c, v
  <2>7. v \in Int /\ v = Scores[item.term]
    BY <2>3, <2>4 DEF v
  <2> DEFINE n == [term |-> item.term, score |-> v]
  <2>8. n # null /\ n.term = item.term /\ n.score = v
    <3>1. n \in [term : Terms, score : Int]
      BY <2>3, <2>7
    <3> QED  BY <3>1 DEF Search!CategorySearchAssumption
  <2> HIDE DEF n
  <2>9. /\ best' = [d \in Searched |-> best'[d]]
        /\ \A d \in Searched \ {c} : best'[d] = best[d]
        /\ best'[c] = IF best[c] = null \/ v > best[c].score THEN n ELSE best[c]
    BY <2>1, <2>3, <2>6 DEF n
  <2>10. best[c] # null => best[c].score \in Int /\ best[c].term \in Terms
    BY <2>3 DEF SearchSound, Search!TypeOK
  <2>11. Search!TypeOK'
    <3>1. \A d \in Searched : best'[d] # null =>
            best'[d].term \in Terms /\ best'[d].score \in Int
      BY <2>3, <2>7, <2>8, <2>9 DEF SearchSound, Search!TypeOK
    <3> QED  BY <2>1, <2>2, <3>1 DEF SearchSound, Search!TypeOK
  <2>12. 1..(next' - 1) = 1..(next - 1) \cup {next}
    BY <1>0, <2>1
  <2>13. BestSound'
    <3>1. ASSUME NEW d \in Searched, best'[d] # null
          PROVE  \E i \in 1..(next' - 1) :
                   /\ cached'[i].category = d
                   /\ best'[d].term = cached'[i].term
                   /\ best'[d].score = Scores'[cached'[i].term]
      <4>1. CASE d = c /\ best'[c] = n
        <5>1. /\ cached[next].category = d
              /\ best'[d].term = cached[next].term
              /\ best'[d].score = Scores[cached[next].term]
          BY <4>1, <2>7, <2>8 DEF c, item
        <5> QED  BY <5>1, <2>1, <2>5, <2>12
      <4>2. CASE ~(d = c /\ best'[c] = n)
        <5>1. best'[d] = best[d]
          BY <4>2, <2>9
        <5>2. PICK i \in 1..(next - 1) :
                /\ cached[i].category = d
                /\ best[d].term = cached[i].term
                /\ best[d].score = Scores[cached[i].term]
          BY <3>1, <5>1 DEF SearchSound, BestSound
        <5> QED  BY <5>1, <5>2, <2>1, <2>5, <2>12
      <4> QED  BY <4>1, <4>2
    <3>2. ASSUME NEW i \in 1..(next' - 1)
          PROVE  /\ best'[cached'[i].category] # null
                 /\ best'[cached'[i].category].score >= Scores'[cached'[i].term]
      <4> DEFINE d == cached[i].category
                 w == Scores[cached[i].term]
      <4>0. d \in Searched /\ w \in Int
        <5>1. i \in 1..Len(cached)
          BY <1>0, <2>1, <2>2, <3>2
        <5> QED  BY <5>1, <1>0, <2>4
      <4>1. CASE i \in 1..(next - 1)
        <5>1. best[d] # null /\ best[d].score >= w
          BY <4>1 DEF SearchSound, BestSound
        <5>2. best[d].score \in Int
          BY <4>0, <5>1 DEF SearchSound, Search!TypeOK
        <5>3. best'[d] # null /\ best'[d].score >= w
          <6> HIDE DEF d, w
          <6>1. CASE d # c
            BY <4>0, <5>1, <6>1, <2>9
          <6>2. CASE d = c
            BY <4>0, <5>1, <5>2, <6>2, <2>7, <2>8, <2>9
          <6> QED  BY <6>1, <6>2
        <5> QED  BY <5>3, <2>1, <2>5
      <4>2. CASE i = next
        <5>1. d = c /\ w = v
          BY <4>2, <2>7 DEF item, c
        <5>2. best'[d] # null /\ best'[d].score >= w
          <6> HIDE DEF d, w
          <6> QED  BY <4>0, <5>1, <2>7, <2>8, <2>9, <2>10
        <5> QED  BY <5>2, <2>1, <2>5
      <4> QED  BY <4>1, <4>2, <2>12
    <3> QED  BY <3>1, <3>2, <2>9 DEF BestSound
  <2>14. AnswerSound'
    <3>1. ~Search!Answered'
      BY <2>1 DEF Search!Answered
    <3> QED  BY <3>1 DEF AnswerSound
  <2> QED  BY <2>1, <2>2, <2>11, <2>13, <2>14 DEF SearchSound
<1>3. CASE Search!respond
  <2>1. /\ query # null /\ next > Len(cached)
        /\ UNCHANGED <<cached, query, semantic, next, best>>
    BY <1>3 DEF Search!respond
  <2>2. PICK found \in Search!Sorted(Search!Good) :
          answer' = Beginning(found)
    BY <1>3 DEF Search!respond, Beginning
  <2>3. query \in Queries
    BY <1>0, <2>1
  <2>4. /\ \A i, j \in 1..Len(found) : i < j => Search!Before(found[i], found[j])
        /\ answer' \in Seq(Search!Good) /\ Len(answer') \in Nat
        /\ Len(answer') <= Limit /\ Len(answer') <= Len(found) /\ Len(found) \in Nat
        /\ \A i \in 1..Len(answer') : answer'[i] = found[i]
    <3>1. Cardinality(Search!Good) \in Nat
      BY <2>1, <2>3, GoodIsFinite
    <3> QED  BY <1>0, <2>2, <3>1, SortedFact
  <2>5. answer' \in Search!BoundedSeq(Searched, Limit)
    <3>1. Search!Good \subseteq Searched
      BY DEF Search!Good
    <3>2. answer' \in Seq(Searched)
      BY <2>4, <3>1, SeqMonotonic
    <3> QED  BY <1>0, <2>4, <3>2, BoundedFact
  <2>6. Search!IsInjective(answer')
    <3>1. DOMAIN answer' = 1..Len(answer') /\ \A i \in 1..Len(answer') : answer'[i] \in Search!Good
      BY <2>4, LenProperties
    <3>2. ASSUME NEW i \in 1..Len(answer'), NEW j \in 1..Len(answer'), i < j
          PROVE  answer'[i] # answer'[j]
      <4>1. i \in 1..Len(found) /\ j \in 1..Len(found)
        BY <2>4
      <4>2. Search!Before(answer'[i], answer'[j])
        BY <2>4, <3>2, <4>1
      <4>3. ~Search!Before(answer'[i], answer'[i])
        BY <2>1, <2>3, <3>1, BeforeItself
      <4> QED  BY <4>2, <4>3
    <3>3. \A i, j \in 1..Len(answer') : i = j \/ i < j \/ j < i
      OBVIOUS
    <3> QED  BY <3>1, <3>2, <3>3 DEF Search!IsInjective
  <2>7. Search!TypeOK'
    BY <2>1, <2>5, <2>6 DEF SearchSound, Search!TypeOK
  <2>8. BestSound' <=> BestSound
    BY <2>1 DEF BestSound, Scores, Search!Score
  <2>9. Search!Sorted(Search!Good)' = Search!Sorted(Search!Good)
    BY <2>1 DEF Search!Good, Search!Sorted, Search!Before, Search!FirstOf
  <2>10. AnswerSound'
    <3>1. Beginning(found)' = Beginning(found)
      BY DEF Beginning
    <3> QED  BY <2>1, <2>2, <2>9, <3>1 DEF AnswerSound
  <2> QED  BY <2>1, <2>7, <2>8, <2>10 DEF SearchSound
<1>4. CASE UNCHANGED search
  <2>1. UNCHANGED <<cached, query, semantic, next, best, answer>>
    BY <1>4 DEF search
  <2>2. Search!TypeOK'
    BY <2>1 DEF SearchSound, Search!TypeOK
  <2>3. BestSound'
    BY <2>1 DEF SearchSound, BestSound, Scores, Search!Score
  <2>4. AnswerSound'
    <3>1. Search!Sorted(Search!Good)' = Search!Sorted(Search!Good)
      BY <2>1 DEF Search!Good, Search!Sorted, Search!Before, Search!FirstOf
    <3>2. Search!Answered' <=> Search!Answered
      BY <2>1 DEF Search!Answered
    <3>3. AnswerSound
      BY DEF SearchSound
    <3>4. Search!Answered => \E found \in Search!Sorted(Search!Good)' : answer' = Beginning(found)
      BY <2>1, <3>1, <3>3 DEF AnswerSound
    <3> QED  BY <2>1, <3>2, <3>3, <3>4 DEF AnswerSound, Beginning
  <2> QED  BY <2>1, <2>2, <2>3, <2>4 DEF SearchSound
<1> QED  BY <1>1, <1>2, <1>3, <1>4 DEF Search!Next

-----------------------------------------------------------------------------
(* What the answer is.                                                     *)

(* What an answer is, in terms of what categories are worth.               *)
LEMMA AnsweredFact ==
  ASSUME Search!CategorySearchAssumption, SearchSound, Search!Answered
  PROVE  /\ query \in Queries /\ next > Len(cached)
         /\ semantic \in [Terms -> Likeness] /\ Limit \in Nat /\ Unit \in Nat \ {0}
         /\ Search!Good \subseteq Search!Known
         /\ \A c \in Search!Known :
              /\ Search!Worth(c) \in Int
              /\ c \in Search!Good <=> Search!Worth(c) >= 85 * Unit
         /\ \A c, d \in Search!Known :
              Search!Before(c, d) => Search!Worth(c) >= Search!Worth(d)
<1>1. query \in Queries /\ next > Len(cached)
  BY DEF Search!Answered, SearchSound, AnswerSound, Search!TypeOK
<1>2. semantic \in [Terms -> Likeness] /\ Limit \in Nat /\ Unit \in Nat \ {0}
  BY DEF SearchSound, Search!TypeOK, Search!CategorySearchAssumption
<1>3. /\ \A c \in Search!Known : /\ best[c] # null
                                 /\ best[c].score = Search!Worth(c)
                                 /\ Search!Worth(c) \in Int
      /\ Search!Good = {c \in Search!Known : Search!Worth(c) >= 85 * Unit}
  BY <1>1, WorthFact
<1>4. \A c, d \in Search!Known :
        Search!Before(c, d) => Search!Worth(c) >= Search!Worth(d)
  BY <1>3 DEF Search!Before
<1> QED  BY <1>1, <1>2, <1>3, <1>4

LEMMA ShownFact ==
  ASSUME Search!CategorySearchAssumption, SearchSound, Search!Answered
  PROVE  \E found \in Seq(Search!Good) :
           /\ Len(found) \in Nat /\ Len(answer) \in Nat
           /\ \A c \in Search!Good : \E i \in 1..Len(found) : found[i] = c
           /\ \A i \in 1..Len(found) : found[i] \in Search!Good
           /\ \A i, j \in 1..Len(found) : i < j => Search!Before(found[i], found[j])
           /\ Len(answer) <= Len(found)
           /\ Len(answer) = Limit \/ Len(answer) = Len(found)
           /\ \A i \in 1..Len(answer) : answer[i] = found[i]
           /\ \A c : c \in Search!Shown <=> \E i \in 1..Len(answer) : answer[i] = c
<1>1. PICK found \in Search!Sorted(Search!Good) : answer = Beginning(found)
  BY DEF SearchSound, AnswerSound
<1>2. query \in Queries /\ next > Len(cached) /\ Limit \in Nat
  BY AnsweredFact
<1>3. Cardinality(Search!Good) \in Nat
  BY <1>2, GoodIsFinite
<1>4. /\ found \in Seq(Search!Good) /\ Len(found) \in Nat
      /\ \A c : c \in Search!Good <=> \E i \in 1..Len(found) : found[i] = c
      /\ \A i, j \in 1..Len(found) : i < j => Search!Before(found[i], found[j])
      /\ Beginning(found) \in Seq(Search!Good) /\ Len(Beginning(found)) \in Nat
      /\ Len(Beginning(found)) <= Len(found)
      /\ Len(Beginning(found)) = Limit \/ Len(Beginning(found)) = Len(found)
      /\ \A i \in 1..Len(Beginning(found)) : Beginning(found)[i] = found[i]
  BY <1>2, <1>3, SortedFact
<1>5. DOMAIN answer = 1..Len(answer)
  BY <1>1, <1>4, LenProperties
<1>6. \A c : c \in Search!Shown <=> \E i \in 1..Len(answer) : answer[i] = c
  BY <1>5 DEF Search!Shown, Search!ToSet
<1> QED  BY <1>1, <1>4, <1>6

(* The answer is the top.                                                  *)
LEMMA TopAnswered ==
  ASSUME Search!CategorySearchAssumption, SearchSound
  PROVE  Search!AnswerIsTheTop
<1> SUFFICES ASSUME Search!Answered
             PROVE  /\ \A i, j \in 1..Len(answer) :
                         i < j => Search!Worth(answer[i]) >= Search!Worth(answer[j])
                    /\ \A c \in Search!Known \ Search!Shown :
                         \/ Search!Worth(c) < 85 * Unit
                         \/ /\ Len(answer) = Limit
                            /\ \A d \in Search!Shown : Search!Worth(d) >= Search!Worth(c)
  BY DEF Search!AnswerIsTheTop, Search!MinScore
<1>1. PICK found \in Seq(Search!Good) :
        /\ Len(found) \in Nat /\ Len(answer) \in Nat
        /\ \A c \in Search!Good : \E i \in 1..Len(found) : found[i] = c
        /\ \A i \in 1..Len(found) : found[i] \in Search!Good
        /\ \A i, j \in 1..Len(found) : i < j => Search!Before(found[i], found[j])
        /\ Len(answer) <= Len(found)
        /\ Len(answer) = Limit \/ Len(answer) = Len(found)
        /\ \A i \in 1..Len(answer) : answer[i] = found[i]
        /\ \A c : c \in Search!Shown <=> \E i \in 1..Len(answer) : answer[i] = c
  BY ShownFact
<1>2. \A i, j \in 1..Len(found) :
        i < j => Search!Worth(found[i]) >= Search!Worth(found[j])
  BY <1>1, AnsweredFact
<1>3. \A i \in 1..Len(answer) : i \in 1..Len(found)
  BY <1>1
<1>4. \A i, j \in 1..Len(answer) :
        i < j => Search!Worth(answer[i]) >= Search!Worth(answer[j])
  BY <1>1, <1>2, <1>3
<1>5. ASSUME NEW c \in Search!Known \ Search!Shown, ~(Search!Worth(c) < 85 * Unit)
      PROVE  /\ Len(answer) = Limit
             /\ \A d \in Search!Shown : Search!Worth(d) >= Search!Worth(c)
  <2>1. c \in Search!Good
    BY <1>5, AnsweredFact
  <2>2. PICK k \in 1..Len(found) : found[k] = c
    BY <1>1, <2>1
  <2>3. k \notin 1..Len(answer)
    BY <1>1, <1>5, <2>2
  <2>4. Len(answer) = Limit /\ \A i \in 1..Len(answer) : i < k
    BY <1>1, <2>3
  <2>5. ASSUME NEW d \in Search!Shown
        PROVE  Search!Worth(d) >= Search!Worth(c)
    <3>1. PICK i \in 1..Len(answer) : answer[i] = d
      BY <1>1
    <3> QED  BY <1>1, <1>2, <1>3, <2>2, <2>4, <3>1
  <2> QED  BY <2>4, <2>5
<1> QED  BY <1>4, <1>5

(* More than the boost in the vectors is more than all of the letters.     *)
LEMMA Outweighs ==
  ASSUME NEW v \in Int, NEW w \in Int, v > w + 6, NEW u \in Nat \ {0},
         NEW l \in 0..u, NEW m \in 0..u
  PROVE  v * u + 6 * l > w * u + 6 * m
<1>1. PICK k \in Nat : v = w + 7 + k
  <2>1. v - w - 7 \in Nat /\ v = w + 7 + (v - w - 7)
    OBVIOUS
  <2> QED  BY <2>1
<1>2. v * u = w * u + 7 * u + k * u /\ k * u \in Nat /\ w * u \in Int
  BY <1>1
<1> QED  BY <1>2

LEMMA LettersOutweighed ==
  ASSUME Search!CategorySearchAssumption, SearchSound
  PROVE  Search!LettersDoNotOutweigh
<1> SUFFICES ASSUME Search!Answered, NEW c \in Search!Known, NEW d \in Search!Known,
                    d \in Search!Shown, NEW t \in Search!TermsOf(c),
                    \A o \in Search!TermsOf(d) : semantic[t] > semantic[o] + 6
             PROVE  /\ c \in Search!Shown
                    /\ \E i, j \in 1..Len(answer) : i < j /\ answer[i] = c /\ answer[j] = d
  BY DEF Search!LettersDoNotOutweigh, Search!LexicalBoostWeight
<1>1. PICK found \in Seq(Search!Good) :
        /\ Len(found) \in Nat /\ Len(answer) \in Nat
        /\ \A g \in Search!Good : \E i \in 1..Len(found) : found[i] = g
        /\ \A i \in 1..Len(found) : found[i] \in Search!Good
        /\ \A i, j \in 1..Len(found) : i < j => Search!Before(found[i], found[j])
        /\ Len(answer) <= Len(found)
        /\ Len(answer) = Limit \/ Len(answer) = Len(found)
        /\ \A i \in 1..Len(answer) : answer[i] = found[i]
        /\ \A g : g \in Search!Shown <=> \E i \in 1..Len(answer) : answer[i] = g
  BY ShownFact
<1>2. /\ query \in Queries /\ next > Len(cached) /\ semantic \in [Terms -> Likeness]
      /\ Unit \in Nat \ {0}
      /\ \A g \in Search!Known :
           /\ Search!Worth(g) \in Int
           /\ g \in Search!Good <=> Search!Worth(g) >= 85 * Unit
      /\ \A g, h \in Search!Known :
           Search!Before(g, h) => Search!Worth(g) >= Search!Worth(h)
  BY AnsweredFact
<1>3. Search!Worth(c) > Search!Worth(d)
  <2>1. PICK o \in Search!TermsOf(d) : Search!Worth(d) = Search!Score(o)
    BY <1>2, WorthFact
  <2>2. t \in Terms /\ o \in Terms /\ Search!Score(t) <= Search!Worth(c)
    BY <1>2, WorthFact
  <2>3. PICK l \in 0..Unit : Search!Score(t) = semantic[t] * Unit + 6 * l
    BY <1>2, <2>2, ScoreFact
  <2>4. PICK m \in 0..Unit : Search!Score(o) = semantic[o] * Unit + 6 * m
    BY <1>2, <2>2, ScoreFact
  <2>5. semantic[t] \in Int /\ semantic[o] \in Int /\ semantic[t] > semantic[o] + 6
    BY <1>2, <2>2 DEF Search!CategorySearchAssumption
  <2>6. semantic[t] * Unit + 6 * l > semantic[o] * Unit + 6 * m
    BY <1>2, <2>5, Outweighs
  <2>7. Search!Score(t) \in Int /\ Search!Score(o) \in Int
    BY <1>2, <2>2, ScoreFact
  <2>8. Search!Score(t) > Search!Score(o)
    BY <2>3, <2>4, <2>6
  <2> QED  BY <1>2, <2>1, <2>2, <2>7, <2>8
<1>4. PICK j \in 1..Len(answer) : answer[j] = d
  BY <1>1
<1>5. j \in 1..Len(found) /\ found[j] = d
  BY <1>1, <1>4
<1>6. 85 * Unit \in Int /\ d \in Search!Good /\ Search!Worth(d) >= 85 * Unit
  <2>1. d \in Search!Good
    BY <1>1, <1>5
  <2>2. 85 * Unit \in Int
    BY <1>2
  <2> QED  BY <2>1, <2>2, <1>2
<1>7. c \in Search!Good
  BY <1>2, <1>3, <1>6
<1>8. PICK i \in 1..Len(found) : found[i] = c
  BY <1>1, <1>7
<1>9. i < j
  <2>1. CASE j < i
    <3>1. Search!Before(d, c)
      BY <1>1, <1>5, <1>8, <2>1
    <3>2. Search!Worth(d) >= Search!Worth(c)
      BY <1>2, <3>1
    <3> QED  BY <1>2, <1>3, <3>2
  <2>2. CASE i = j
    <3>1. c = d
      BY <1>5, <1>8, <2>2
    <3> QED  BY <1>2, <1>3, <3>1
  <2> QED  BY <2>1, <2>2
<1>10. i \in 1..Len(answer)
  BY <1>1, <1>9
<1>11. answer[i] = c
  BY <1>1, <1>8, <1>10
<1>12. c \in Search!Shown
  BY <1>1, <1>10, <1>11
<1> QED  BY <1>4, <1>9, <1>10, <1>11, <1>12

LEMMA LeastAnswered == Search!LevenshteinIsLeast
BY EditDistanceIsLevenshtein DEF Search!LevenshteinIsLeast

-----------------------------------------------------------------------------
(* The parts together: while one of them steps, the others rest.           *)

Parts == <<part, vars, paths, embeddings, search, token>>

LEMMA TermsRest ==
  ASSUME TermsSound, UNCHANGED embeddings
  PROVE  TermsSound'
<1>1. UNCHANGED <<description, terms, termCache, generated, runs, phase, met>>
  BY DEF embeddings
<1> QED
  BY <1>1
  DEF TermsSound, InOrder, Embeddings!TypeOK, Tidy, Stocked, Undisturbed, OneText, PhaseSound,
      Alone, Embeddings!Exists, Embeddings!Working, Embeddings!Meet

LEMMA PathsRest ==
  ASSUME PathsSound, UNCHANGED paths
  PROVE  PathsSound'
<1>1. /\ cats' = cats /\ ads' = ads /\ edits' = edits /\ upserts' = upserts
      /\ scripts' = scripts /\ calm' = calm /\ halved' = halved /\ alone' = alone
  BY DEF paths
<1>2. Paths!PathOf' = Paths!PathOf
  BY <1>1, PathsStay
<1>3. Shaped' /\ Paths!SeoFollowsPath' /\ (\A r \in Editors : Bound(edits[r]))'
  BY <1>1 DEF PathsSound, Shaped, Paths!SeoFollowsPath, Bound
<1>4. AloneSound'
  BY <1>1, <1>2 DEF PathsSound, AloneSound, Undiverted, InTree
<1>5. CalmSound'
  BY <1>1, <1>2 DEF PathsSound, CalmSound, InCalm, WalkInformed, ScriptInformed, InTree
<1> QED
  BY <1>1, <1>3, <1>4, <1>5 DEF PathsSound

LEMMA ShortRest ==
  ASSUME PathsShort, UNCHANGED paths
  PROVE  PathsShort'
<1>1. cats' = cats /\ ads' = ads /\ edits' = edits /\ upserts' = upserts /\ scripts' = scripts
  BY DEF paths
<1> QED
  BY <1>1 DEF PathsShort, ScriptShort

(* Whichever part a behaviour is of, what holds of the four goes on.       *)
AdsSound == TokenSound /\ TermsSound /\ PathsSound /\ PathsShort /\ SearchSound

LEMMA PartsStep ==
  ASSUME GigaChat!TokenCacheAssumption, Embeddings!CategoryTermsAssumption,
         Paths!AdCategoryAssumption, Search!CategorySearchAssumption,
         AdsSound, [MCNext]_Parts
  PROVE  AdsSound'
<1>1. \/ GigaChat!Next \/ UNCHANGED token
  BY DEF MCNext, Parts
<1>2. \/ Embeddings!MCNext \/ UNCHANGED embeddings
  BY DEF MCNext, Parts
<1>3. \/ Paths!MCNext \/ UNCHANGED paths
  BY DEF MCNext, Parts
<1>4. TokenSound'
  BY <1>1, TokenStep DEF AdsSound, token, GigaChat!vars
<1>5. TermsSound'
  BY <1>2, StepTerms, TermsRest DEF AdsSound
<1>6. PathsSound'
  BY <1>3, StepPaths, PathsRest DEF AdsSound
<1>7. [Search!Next]_search
  BY DEF MCNext, Parts
<1>8. SearchSound'
  BY <1>7, StepSearch DEF AdsSound
<1>9. PathsShort'
  BY <1>3, StepShort, ShortRest DEF AdsSound, Paths!MCNext
<1> QED
  BY <1>4, <1>5, <1>6, <1>8, <1>9 DEF AdsSound

(* The strengthenings of the four parts hold  in every reachable state of  *)
(* MCAds.                                                                  *)
THEOREM AdsInvariant == MCSpec => []AdsSound
<1> USE PartsAssumption
<1>1. MCInit => AdsSound
  BY InitToken, InitTerms, InitPaths, InitShort, InitSearch
  DEF MCInit, AdsSound, PartsAssumption, Search!MCInit
<1>2. AdsSound /\ [MCNext]_Parts => AdsSound'
  BY PartsStep DEF PartsAssumption
<1> QED
  BY <1>1, <1>2, PTL DEF MCSpec, Parts

(* Every variable of the five parts keeps its type, for any constants that *)
(* the parts assume; of paths, that they have three slugs at most.         *)
THEOREM TypesHold == MCSpec => []TypesOK
<1>1. MCSpec => Spec
  <2>1. MCInit => Init
    BY DEF MCInit
  <2>2. [MCNext]_Parts => [Next]_vars
    BY DEF MCNext, Parts
  <2> QED
    BY <2>1, <2>2, PTL DEF MCSpec, Parts, Spec
<1>2. AdsSound /\ TypeOK => TypesOK
  <2>1. AdsSound => Paths!TypeOK
    BY PartsAssumption, ShortTypes DEF PartsAssumption, AdsSound
  <2>2. AdsSound => Embeddings!TypeOK /\ GigaChat!TypeOK /\ Search!TypeOK
    BY DEF AdsSound, TermsSound, InOrder, TokenSound, SearchSound
  <2> QED
    BY <2>1, <2>2 DEF TypesOK
<1> QED
  BY <1>1, <1>2, AdsInvariant, TypeCorrect, PTL

(* No call reaches GigaChat with a dead token, and calls that find the     *)
(* token stale together make one exchange, for any number of calls and any *)
(* times with room for two ways of the network (getAccessToken).           *)
THEOREM NeverTooLateHolds == MCSpec => []NeverTooLate
<1>1. AdsSound => NeverTooLate
  BY PartsAssumption, TokenAlive DEF PartsAssumption, AdsSound, TokenSound, NeverTooLate
<1> QED
  BY <1>1, AdsInvariant, PTL

(* Once the terms have been computed with --force and the server has been  *)
(* started, the search knows every category by all its terms, whatever     *)
(* died or overlapped before; and the terms of a category are cut from one *)
(* description as long as no two runs have been at one category at once    *)
(* (precompute-category-embeddings).                                       *)
THEOREM ForceRepairsHolds == MCSpec => []ForceRepairs
<1>1. AdsSound => ForceRepairs
  BY TermsRepaired DEF AdsSound, ForceRepairs
<1> QED
  BY <1>1, AdsInvariant, PTL

(* In a tree of three levels, for any ads and categories and any number of *)
(* requests: path and address go together, and are those of the ad's       *)
(* category while requests and scripts come one by one (getCategoryPath).  *)
THEOREM PathOfItsCategoryHolds == MCSpec => []PathOfItsCategory
<1>1. AdsSound => PathOfItsCategory
  BY PathsInOrder DEF AdsSound, PathOfItsCategory
<1> QED
  BY <1>1, AdsInvariant, PTL

(* Whatever edits, seeds and scripts had made of the ads, an undisturbed   *)
(* backfill-ad-paths leaves all of them with the paths of their categories.*)
THEOREM BackfillRepairsHolds == MCSpec => []BackfillRepairs
<1>1. AdsSound => BackfillRepairs
  BY PathsInOrder DEF AdsSound, BackfillRepairs
<1> QED
  BY <1>1, AdsInvariant, PTL

(* Whatever terms the server has cached and somebody types, the categories *)
(* answered are the top, the better first, each counted by the best of its *)
(* terms; the letters never outweigh a large difference of the vectors;    *)
(* and levenshtein is the least number of edits (searchBySemantic).        *)
THEOREM AnswerIsTheTopHolds == MCSpec => []AnswerIsTheTop
<1>1. AdsSound => AnswerIsTheTop
  BY PartsAssumption, TopAnswered, LettersOutweighed, LeastAnswered
  DEF PartsAssumption, AdsSound, AnswerIsTheTop
<1> QED
  BY <1>1, AdsInvariant, PTL
==============================================================================
