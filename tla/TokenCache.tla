----------------------------- MODULE TokenCache -----------------------------
(* The access token of GigaChat (GigaChatService): calls that are made at  *)
(* the same time share one exchange for a new token, the token is cached   *)
(* for less than it lives, and each call carries it over a slow network.   *)
(*                                                                         *)
(* A definition op_variant before op is op with a mistake in it; nothing   *)
(* here uses it.  Putting it in op's place breaks one of the properties.   *)
(***************************************************************************)
EXTENDS Integers

CONSTANTS
  Calls,     (* of getEmbeddings and generateText                          *)
  Lifetime,  (* of a token, at GigaChat: 30 minutes                        *)
  Assumed,   (* ASSUMED_TOKEN_LIFETIME_MS: 25 minutes                      *)
  Delay,     (* the longest that one way of the network takes              *)
  null

(* «обновляем немного заранее»: the difference is for the network.         *)
TokenCacheAssumption ==
  /\ Lifetime \in Nat /\ Assumed \in Nat \ {0} /\ Delay \in Nat
  /\ Assumed + Delay + Delay <= Lifetime
  /\ null \notin Calls

VARIABLES
  now,
  cachedToken,          (* when it was issued, and expiresAt               *)
  tokenRefreshPromise,  (* the call whose exchange it is, or null          *)
  exchange,             (* requestNewToken of a call                       *)
  call                  (* the calls                                       *)

vars == <<now, cachedToken, tokenRefreshPromise, exchange, call>>

-----------------------------------------------------------------------------

Token == [issued : Int, expiresAt : Int]

NoToken == [issued |-> -1, expiresAt |-> -1]

(* since: when the exchange got under way, and on its way back when the    *)
(* token was issued.                                                       *)
Exchange == [step : {"none", "asking", "issued"}, since : Int]

NoExchange == [step |-> "none", since |-> 0]

(* on: the exchange it waits for; issued: its token's; since: when it left.*)
Call == [step : {"idle", "waiting", "sent"}, on : Calls \cup {null},
         issued : Int, since : Int]

Idle == [step |-> "idle", on |-> null, issued |-> 0, since |-> 0]

TypeOK ==
  /\ now \in Nat
  /\ cachedToken \in Token
  /\ tokenRefreshPromise \in Calls \cup {null}
  /\ exchange \in [Calls -> Exchange]
  /\ call \in [Calls -> Call]

Init ==
  /\ now = 0
  /\ cachedToken = NoToken
  /\ tokenRefreshPromise = null
  /\ exchange = [c \in Calls |-> NoExchange]
  /\ call = [c \in Calls |-> Idle]

-----------------------------------------------------------------------------

Waiting(p) == [step |-> "waiting", on |-> p, issued |-> 0, since |-> 0]

Sent(issued) == [step |-> "sent", on |-> null, issued |-> issued, since |-> now]

Fresh_always == cachedToken # NoToken

Fresh == cachedToken.expiresAt > now

useCached(c) ==
  /\ call[c].step = "idle" /\ Fresh
  /\ call' = [call EXCEPT ![c] = Sent(cachedToken.issued)]
  /\ UNCHANGED <<now, cachedToken, tokenRefreshPromise, exchange>>

(* The first to find the token stale asks for a new one.                   *)
requestNewToken(c) ==
  /\ call[c].step = "idle" /\ ~Fresh /\ tokenRefreshPromise = null
  /\ exchange[c].step = "none"
  /\ tokenRefreshPromise' = c
  /\ exchange' = [exchange EXCEPT ![c] = [step |-> "asking", since |-> now]]
  /\ call' = [call EXCEPT ![c] = Waiting(c)]
  /\ UNCHANGED <<now, cachedToken>>

(* The others wait for his.                                                *)
joins(c) ==
  /\ call[c].step = "idle" /\ ~Fresh /\ tokenRefreshPromise # null
  /\ call' = [call EXCEPT ![c] = Waiting(tokenRefreshPromise)]
  /\ UNCHANGED <<now, cachedToken, tokenRefreshPromise, exchange>>

(* GigaChat's part.                                                        *)
issues(c) ==
  /\ exchange[c].step = "asking"
  /\ exchange' = [exchange EXCEPT ![c] = [step |-> "issued", since |-> now]]
  /\ UNCHANGED <<now, cachedToken, tokenRefreshPromise, call>>

Resume(c, new) ==
  call' = [d \in Calls |-> IF call[d].step = "waiting" /\ call[d].on = c THEN new ELSE call[d]]

(* The answer: the token is cached, the promise cleared, and all who       *)
(* waited go on.                                                           *)
answered(c) ==
  /\ exchange[c].step = "issued"
  /\ cachedToken' = [issued |-> exchange[c].since, expiresAt |-> now + Assumed]
  /\ tokenRefreshPromise' = null
  /\ exchange' = [exchange EXCEPT ![c] = NoExchange]
  /\ Resume(c, Sent(exchange[c].since))
  /\ UNCHANGED now

(* finally: a promise that is rejected is cleared too.                     *)
fails(c) ==
  /\ exchange[c].step # "none"
  /\ tokenRefreshPromise' = null
  /\ exchange' = [exchange EXCEPT ![c] = NoExchange]
  /\ Resume(c, Idle)
  /\ UNCHANGED <<now, cachedToken>>

(* GigaChat receives the call and looks at its token.                      *)
reaches(c) ==
  /\ call[c].step = "sent"
  /\ call' = [call EXCEPT ![c] = Idle]
  /\ UNCHANGED <<now, cachedToken, tokenRefreshPromise, exchange>>

(* Nothing is on its way for longer than Delay.                            *)
Tick ==
  /\ \A c \in Calls :
       /\ call[c].step = "sent" => now < call[c].since + Delay
       /\ exchange[c].step # "none" => now < exchange[c].since + Delay
  /\ now' = now + 1
  /\ UNCHANGED <<cachedToken, tokenRefreshPromise, exchange, call>>

Next ==
  \/ \E c \in Calls :
       \/ useCached(c) \/ requestNewToken(c) \/ joins(c)
       \/ issues(c) \/ answered(c) \/ fails(c) \/ reaches(c)
  \/ Tick

Spec == Init /\ [][Next]_vars

-----------------------------------------------------------------------------
(* No call reaches GigaChat with a token that has died on the way, however *)
(* long its exchange and the call itself have taken within Delay (the 25   *)
(* minutes of ASSUMED_TOKEN_LIFETIME_MS against the 30 of the token).      *)
NeverTooLate == \A c \in Calls : call[c].step = "sent" => now < call[c].issued + Lifetime

(* Calls that find the token stale at the same time make one exchange, not *)
(* many, and nobody waits for one that is over (tokenRefreshPromise).      *)
OneExchange ==
  /\ \A c \in Calls : exchange[c].step # "none" <=> tokenRefreshPromise = c
  /\ \A c \in Calls : call[c].step = "waiting" =>
                        call[c].on # null /\ call[c].on = tokenRefreshPromise
=============================================================================
