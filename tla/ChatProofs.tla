----------------------------- MODULE ChatProofs -----------------------------
(* What holds of Chat for any number of users, ads, dialogs and requests,  *)
(* and of the messages beside it (ChatHistory) for any number of messages  *)
(* and any size of a page.                                                 *)
EXTENDS MCChat, Integers, FiniteSetTheorems, SequenceTheorems, TLAPS

-----------------------------------------------------------------------------
(* The inductive invariant.                                                *)

(* u takes part in c and its counterpart has left.                         *)
Abandoned(c, u) ==
  /\ convs[c].state # "unborn"
  /\ u \in Participants(c)
  /\ Counterpart(c, u) \in deleted

(* What a suspended handler knows.                                         *)
RequestSound(r) ==
  LET q == req[r] IN
  /\ q.step # "idle" => q.user \in Users
  /\ q.step \in {"isBlocked", "upsert", "createMessage"} => q.other \in Users
  /\ q.step \in {"isBlocked", "upsert"} /\ q.conv = null => q.ad \in Ads
  /\ q.step = "upsert" => q.conv = null
  /\ q.step \in {"createMessage", "read", "hide", "delete"} =>
       q.conv \in Conversations
  /\ q.step = "delete" => Abandoned(q.conv, q.user)
  /\ q.step = "commit" => \A c \in q.orphans : Abandoned(c, q.user)

RequestsSound == \A r \in Requests : RequestSound(r)

(* A dialog that has begun has its two sides.                              *)
People ==
  \A c \in Conversations :
    convs[c].state # "unborn" => convs[c].buyer \in Users /\ convs[c].seller \in Users

IInv == TypeOK /\ People /\ RequestsSound /\ OneDialogPerBuyer

(* No step forgets who takes part in a dialog.                             *)
PeopleKept ==
  \A c \in Conversations :
    convs[c].state # "unborn" =>
      /\ convs'[c].state # "unborn"
      /\ convs'[c].buyer = convs[c].buyer /\ convs'[c].seller = convs[c].seller

(* No step but upsert begins a dialog about an ad.                         *)
NoneBegun ==
  \A c \in Conversations :
    convs'[c].state = "open" /\ convs'[c].ad # null =>
      /\ convs[c].state = "open"
      /\ convs'[c].ad = convs[c].ad /\ convs'[c].buyer = convs[c].buyer

-----------------------------------------------------------------------------
(* Types.                                                                  *)

LEMMA AtIsRequest ==
  ASSUME NEW step \in {"idle", "isBlocked", "upsert", "createMessage", "hideAll",
                       "delete", "hide", "read", "commit"},
         NEW user \in Users \cup {null}, NEW other \in Users \cup {null},
         NEW ad \in Ads \cup {null}, NEW conv \in Conversations \cup {null}
  PROVE  At(step, user, other, ad, conv) \in Request
  BY DEF At, Request

LEMMA IdleIsRequest == Idle \in Request
  BY AtIsRequest DEF Idle

LEMMA BecomeType ==
  ASSUME TypeOK, NEW r \in Requests, NEW q \in Request, Become(r, q)
  PROVE  /\ req' \in [Requests -> Request]
         /\ req'[r] = q
         /\ \A s \in Requests \ {r} : req'[s] = req[s]
  BY DEF TypeOK, Become

LEMMA RespondType ==
  ASSUME TypeOK, NEW r \in Requests, Respond(r)
  PROVE  /\ req' \in [Requests -> Request]
         /\ req'[r] = Idle
         /\ \A s \in Requests \ {r} : req'[s] = req[s]
  BY BecomeType, IdleIsRequest DEF Respond

LEMMA IdleSound ==
  ASSUME NEW r \in Requests, req'[r] = Idle
  PROVE  RequestSound(r)'
  BY DEF RequestSound, Idle, At

-----------------------------------------------------------------------------
(* What is known of a dialog stays true.                                   *)

LEMMA KnowledgeKept ==
  ASSUME IInv, PeopleKept, deleted \subseteq deleted',
         NEW s \in Requests, req'[s] = req[s]
  PROVE  RequestSound(s)'
<1>1. RequestSound(s) /\ req'[s] = req[s]
  BY DEF IInv, RequestsSound
<1>2. ASSUME NEW c \in Conversations, NEW u, Abandoned(c, u)
      PROVE  Abandoned(c, u)'
  BY <1>2 DEF Abandoned, PeopleKept, Participants, Counterpart
<1>3. req[s] \in Request
  BY DEF IInv, TypeOK
<1>4. CASE req[s].step = "delete"
  <2>1. PICK c \in Conversations : c = req[s].conv
    BY <1>1, <1>4 DEF RequestSound
  <2>2. PICK u : u = req[s].user
    OBVIOUS
  <2>3. Abandoned(c, u)'
    BY <1>1, <1>2, <1>4, <2>1, <2>2 DEF RequestSound
  <2>4. Abandoned(req[s].conv, req[s].user)'
    BY <1>1, <2>1, <2>2, <2>3
  <2> QED
    BY <1>1, <1>4, <2>4 DEF RequestSound
<1>5. CASE req[s].step = "commit"
  <2>1. PICK u : u = req[s].user
    OBVIOUS
  <2>2. ASSUME NEW c \in req[s].orphans PROVE Abandoned(c, u)'
    BY <1>1, <1>2, <1>3, <1>5, <2>1 DEF RequestSound, Request
  <2>3. (\A c \in req[s].orphans : Abandoned(c, req[s].user))'
    BY <1>1, <2>1, <2>2
  <2> QED
    BY <1>1, <1>5, <2>3 DEF RequestSound
<1>6. CASE req[s].step \notin {"delete", "commit"}
  BY <1>1, <1>6 DEF RequestSound
<1> QED
  BY <1>4, <1>5, <1>6

LEMMA NoDuplicate ==
  ASSUME OneDialogPerBuyer, NoneBegun
  PROVE  OneDialogPerBuyer'
  BY DEF OneDialogPerBuyer, NoneBegun, Open

-----------------------------------------------------------------------------
(* Requests that begin, and the steps that change no dialog.               *)

QuietStep(r) ==
  \/ \E u \in Users :
       \/ \E a \in Ads : startConversation(r, u, a)
       \/ \E c \in Conversations : \/ sendMessage(r, u, c)
                                   \/ markReadFind(r, u, c)
                                   \/ deleteConversation(r, u, c)
       \/ \E v \in Users : blockUser(r, u, v)
       \/ deleteAccountScan(r, u)
  \/ checkBlocked(r)

LEMMA OpenPeople ==
  ASSUME TypeOK, People, NEW c \in Conversations, Open(c)
  PROVE  Participants(c) \subseteq Users
         /\ \A u \in Participants(c) : Counterpart(c, u) \in Participants(c)
  BY DEF People, Participants, Counterpart, Open

LEMMA QuietRequest ==
  ASSUME IInv, NEW r \in Requests, QuietStep(r)
  PROVE  /\ req' \in [Requests -> Request]
         /\ \A s \in Requests \ {r} : req'[s] = req[s]
         /\ RequestSound(r)'
         /\ UNCHANGED <<convs, ads, deleted>>
         /\ blocked' \subseteq Users \X Users
<1>1. CASE \E u \in Users, a \in Ads : startConversation(r, u, a)
  <2>1. PICK u \in Users, a \in Ads : startConversation(r, u, a)
    BY <1>1
  <2>2. SellerOf[a] \in Users
    BY ChatAssumption
  <2> DEFINE q == At("isBlocked", u, SellerOf[a], a, null)
  <2>3. q \in Request
    BY <2>2, AtIsRequest
  <2>4. Become(r, q) /\ UNCHANGED <<convs, blocked, ads, deleted>>
    BY <2>1 DEF startConversation
  <2>5. RequestSound(r)'
    BY <2>2, <2>3, <2>4, BecomeType DEF IInv, RequestSound, At
  <2> QED
    BY <2>3, <2>4, <2>5, BecomeType DEF IInv, TypeOK
<1>2. CASE \E u \in Users, c \in Conversations : sendMessage(r, u, c)
  <2>1. PICK u \in Users, c \in Conversations : sendMessage(r, u, c)
    BY <1>2
  <2>2. Counterpart(c, u) \in Users
    BY <2>1, OpenPeople DEF IInv, sendMessage
  <2> DEFINE q == At("isBlocked", u, Counterpart(c, u), null, c)
  <2>3. q \in Request
    BY <2>2, AtIsRequest
  <2>4. Become(r, q) /\ UNCHANGED <<convs, blocked, ads, deleted>>
    BY <2>1 DEF sendMessage
  <2>5. RequestSound(r)'
    BY <2>2, <2>3, <2>4, BecomeType, ChatAssumption DEF IInv, RequestSound, At
  <2> QED
    BY <2>3, <2>4, <2>5, BecomeType DEF IInv, TypeOK
<1>3. CASE \E u \in Users, c \in Conversations : markReadFind(r, u, c)
  <2>1. PICK u \in Users, c \in Conversations : markReadFind(r, u, c)
    BY <1>3
  <2> DEFINE q == At("read", u, null, null, c)
  <2>2. q \in Request
    BY AtIsRequest
  <2>3. Become(r, q) /\ UNCHANGED <<convs, blocked, ads, deleted>>
    BY <2>1 DEF markReadFind
  <2>4. RequestSound(r)'
    BY <2>2, <2>3, BecomeType DEF IInv, RequestSound, At
  <2> QED
    BY <2>2, <2>3, <2>4, BecomeType DEF IInv, TypeOK
<1>4. CASE \E u \in Users, c \in Conversations : deleteConversation(r, u, c)
  <2>1. PICK u \in Users, c \in Conversations : deleteConversation(r, u, c)
    BY <1>4
  <2>2. PICK step \in {"delete", "hide"} :
          /\ Become(r, At(step, u, null, null, c))
          /\ step = "delete" => Counterpart(c, u) \in deleted
    BY <2>1 DEF deleteConversation
  <2> DEFINE q == At(step, u, null, null, c)
  <2>3. q \in Request
    BY AtIsRequest
  <2>4. UNCHANGED <<convs, blocked, ads, deleted>>
    BY <2>1 DEF deleteConversation
  <2>5. step = "delete" => Abandoned(c, u)'
    BY <2>1, <2>2, <2>4
    DEF deleteConversation, Abandoned, Open, Participants, Counterpart
  <2>6. req'[r] = q
    BY <2>2, <2>3, BecomeType DEF IInv
  <2>7. /\ q.step = step /\ q.user = u /\ q.conv = c
    BY DEF At
  <2>8. RequestSound(r)'
    BY <2>5, <2>6, <2>7 DEF RequestSound
  <2> QED
    BY <2>2, <2>3, <2>4, <2>8, BecomeType DEF IInv, TypeOK
<1>5. CASE \E u, v \in Users : blockUser(r, u, v)
  <2>1. PICK u \in Users, v \in Users : blockUser(r, u, v)
    BY <1>5
  <2> DEFINE q == At("hideAll", u, v, null, null)
  <2>2. q \in Request
    BY AtIsRequest
  <2>3. Become(r, q) /\ UNCHANGED <<convs, ads, deleted>>
    BY <2>1 DEF blockUser
  <2>4. blocked' \subseteq Users \X Users
    BY <2>1 DEF blockUser, IInv, TypeOK
  <2>5. RequestSound(r)'
    BY <2>2, <2>3, BecomeType DEF IInv, RequestSound, At
  <2> QED
    BY <2>2, <2>3, <2>4, <2>5, BecomeType DEF IInv
<1>6. CASE \E u \in Users : deleteAccountScan(r, u)
  <2>1. PICK u \in Users : deleteAccountScan(r, u)
    BY <1>6
  <2> DEFINE orphans == {c \in Conversations :
                           /\ Open(c) /\ u \in Participants(c)
                           /\ Counterpart(c, u) \in deleted}
             p == At("commit", u, null, null, null)
             q == [p EXCEPT !.orphans = orphans]
  <2>2. p \in Request /\ p.step = "commit" /\ p.user = u
    BY AtIsRequest DEF At
  <2>3. Become(r, q) /\ UNCHANGED <<convs, blocked, ads, deleted>>
    BY <2>1 DEF deleteAccountScan
  <2>4. \A c \in orphans : Abandoned(c, u) /\ c \in Conversations
    BY DEF Abandoned, Open
  <2> HIDE DEF orphans, p
  <2>5. q \in Request /\ q.step = "commit" /\ q.user = u /\ q.orphans = orphans
    BY <2>2, <2>4 DEF Request
  <2> HIDE DEF q
  <2>6. req'[r] = q
    BY <2>3, <2>5, BecomeType DEF IInv
  <2>7. ASSUME NEW c \in q.orphans PROVE Abandoned(c, u)'
    BY <2>3, <2>4, <2>5, <2>7 DEF Abandoned, Participants, Counterpart
  <2>8. RequestSound(r)'
    BY <2>5, <2>6, <2>7 DEF RequestSound
  <2> QED
    BY <2>3, <2>5, <2>8, BecomeType DEF IInv, TypeOK
<1>7. CASE checkBlocked(r)
  <2>1. CASE Respond(r)
    BY <1>7, <2>1, RespondType, IdleSound DEF IInv, TypeOK, checkBlocked
  <2>2. CASE ~Respond(r)
    <3>1. PICK step \in {"upsert", "createMessage"} :
            /\ Go(r, step) /\ req[r].step = "isBlocked"
            /\ step = "upsert" <=> req[r].conv = null
      BY <1>7, <2>2 DEF checkBlocked
    <3> DEFINE q == [req[r] EXCEPT !.step = step]
    <3>2. req[r] \in Request /\ RequestSound(r)
      BY DEF IInv, TypeOK, RequestsSound
    <3>3. /\ q \in Request /\ q.step = step /\ q.user = req[r].user
          /\ q.other = req[r].other /\ q.ad = req[r].ad /\ q.conv = req[r].conv
      BY <3>2 DEF Request
    <3>4. Become(r, q)
      BY <3>1 DEF Go
    <3> HIDE DEF q
    <3>5. req'[r] = q
      BY <3>3, <3>4, BecomeType DEF IInv
    <3>6. req[r].conv \in Conversations \cup {null}
      BY <3>2 DEF Request
    <3>7. RequestSound(r)'
      BY <3>1, <3>2, <3>3, <3>5, <3>6 DEF RequestSound
    <3> QED
      BY <1>7, <3>3, <3>4, <3>7, BecomeType DEF IInv, TypeOK, checkBlocked
  <2> QED
    BY <2>1, <2>2
<1> QED
  BY <1>1, <1>2, <1>3, <1>4, <1>5, <1>6, <1>7 DEF QuietStep

-----------------------------------------------------------------------------
(* The steps that write.  Each changes single rows of conversations in     *)
(* their hiddenBy and unread, closes some, forgets an ad or begins one.    *)

(* The rows that differ differ in nothing the invariant speaks of, or are  *)
(* closed, or have lost their ad.                                          *)
Harmless ==
  \A c \in Conversations :
    /\ convs'[c] \in Conversation
    /\ convs'[c].buyer = convs[c].buyer /\ convs'[c].seller = convs[c].seller
    /\ convs'[c].ad \in {convs[c].ad, null}
    /\ \/ convs'[c].state = convs[c].state
       \/ convs'[c].state = "gone" /\ convs[c].state # "unborn"

LEMMA HarmlessStep ==
  ASSUME IInv, Harmless,
         convs' \in [Conversations -> Conversation],
         req' \in [Requests -> Request],
         blocked' \subseteq Users \X Users, ads' \subseteq Ads,
         deleted \subseteq deleted', deleted' \subseteq Users,
         \A s \in Requests : req'[s] = req[s] \/ RequestSound(s)'
  PROVE  IInv'
<1>1. TypeOK'
  BY DEF TypeOK
<1>2. PeopleKept /\ NoneBegun
  BY ChatAssumption DEF Harmless, PeopleKept, NoneBegun
<1>3. People'
  BY DEF IInv, People, Harmless
<1>4. RequestsSound'
  BY <1>2, KnowledgeKept DEF RequestsSound
<1>5. OneDialogPerBuyer'
  BY <1>2, NoDuplicate DEF IInv
<1> QED
  BY <1>1, <1>3, <1>4, <1>5 DEF IInv

(* The rows these steps write.                                             *)
LEMMA RowFacts ==
  ASSUME NEW row \in Conversation
  PROVE  /\ \A hidden \in SUBSET Users :
              LET w == [row EXCEPT !.hiddenBy = hidden] IN
              /\ w \in Conversation /\ w.state = row.state /\ w.ad = row.ad
              /\ w.buyer = row.buyer /\ w.seller = row.seller
         /\ \A reader \in Users \cup {null} :
              LET w == [row EXCEPT !.unread = reader] IN
              /\ w \in Conversation /\ w.state = row.state /\ w.ad = row.ad
              /\ w.buyer = row.buyer /\ w.seller = row.seller
         /\ LET w == [row EXCEPT !.state = "gone"] IN
              /\ w \in Conversation /\ w.state = "gone" /\ w.ad = row.ad
              /\ w.buyer = row.buyer /\ w.seller = row.seller
         /\ LET w == [row EXCEPT !.ad = null] IN
              /\ w \in Conversation /\ w.state = row.state /\ w.ad = null
              /\ w.buyer = row.buyer /\ w.seller = row.seller
  BY DEF Conversation

LEMMA WriteConvs ==
  ASSUME IInv, NEW r \in Requests,
         \/ createMessage(r) \/ markRead(r) \/ hide(r) \/ hideAll(r)
         \/ deleteRow(r) \/ deleteAccountCommit(r)
  PROVE  Harmless /\ convs' \in [Conversations -> Conversation]
<1>1. convs \in [Conversations -> Conversation] /\ RequestSound(r)
      /\ req[r] \in Request
  BY DEF IInv, TypeOK, RequestsSound
<1>2. ASSUME UNCHANGED convs
      PROVE  Harmless /\ convs' \in [Conversations -> Conversation]
  BY <1>1, <1>2 DEF Harmless
<1>3. ASSUME NEW c \in Conversations, NEW w \in Conversation,
             convs' = [convs EXCEPT ![c] = w],
             w.buyer = convs[c].buyer, w.seller = convs[c].seller,
             w.ad = convs[c].ad,
             \/ w.state = convs[c].state
             \/ w.state = "gone" /\ convs[c].state # "unborn"
      PROVE  Harmless /\ convs' \in [Conversations -> Conversation]
  BY <1>1, <1>3 DEF Harmless
<1>4. CASE createMessage(r) /\ ~UNCHANGED convs
  <2> DEFINE c == req[r].conv
             v == [convs[c] EXCEPT !.hiddenBy = {}]
             w == [v EXCEPT !.unread = req[r].other]
  <2>1. convs' = [convs EXCEPT ![c] = w] /\ c \in Conversations
        /\ req[r].other \in Users
    BY <1>1, <1>4 DEF createMessage, RequestSound
  <2>2. /\ v \in Conversation /\ v.state = convs[c].state /\ v.ad = convs[c].ad
        /\ v.buyer = convs[c].buyer /\ v.seller = convs[c].seller
    BY <1>1, <2>1, RowFacts
  <2> HIDE DEF v
  <2>3. /\ w \in Conversation /\ w.state = v.state /\ w.ad = v.ad
        /\ w.buyer = v.buyer /\ w.seller = v.seller
    BY <2>1, <2>2, RowFacts
  <2> HIDE DEF w, c
  <2> QED
    BY <1>3, <2>1, <2>2, <2>3
<1>5. CASE markRead(r) /\ ~UNCHANGED convs
  <2> DEFINE c == req[r].conv
             w == [convs[c] EXCEPT !.unread = null]
  <2>1. convs' = [convs EXCEPT ![c] = w] /\ c \in Conversations
    BY <1>1, <1>5 DEF markRead, RequestSound
  <2>2. /\ w \in Conversation /\ w.state = convs[c].state /\ w.ad = convs[c].ad
        /\ w.buyer = convs[c].buyer /\ w.seller = convs[c].seller
    BY <1>1, <2>1, RowFacts
  <2> HIDE DEF w, c
  <2> QED
    BY <1>3, <2>1, <2>2
<1>6. CASE hide(r) /\ ~UNCHANGED convs
  <2> DEFINE c == req[r].conv
             hidden == convs[c].hiddenBy \cup {req[r].user}
             w == [convs[c] EXCEPT !.hiddenBy = hidden]
  <2>1. convs' = [convs EXCEPT ![c] = w] /\ c \in Conversations
        /\ req[r].user \in Users
    BY <1>1, <1>6 DEF hide, RequestSound
  <2>2. hidden \in SUBSET Users
    BY <1>1, <2>1 DEF Conversation
  <2> HIDE DEF hidden
  <2>3. /\ w \in Conversation /\ w.state = convs[c].state /\ w.ad = convs[c].ad
        /\ w.buyer = convs[c].buyer /\ w.seller = convs[c].seller
    BY <1>1, <2>1, <2>2, RowFacts
  <2> HIDE DEF w, c
  <2> QED
    BY <1>3, <2>1, <2>3
<1>7. CASE deleteRow(r)
  <2> DEFINE c == req[r].conv
             w == [convs[c] EXCEPT !.state = "gone"]
  <2>1. convs' = [convs EXCEPT ![c] = w] /\ c \in Conversations
        /\ convs[c].state # "unborn"
    BY <1>1, <1>7 DEF deleteRow, RequestSound, Abandoned
  <2>2. /\ w \in Conversation /\ w.state = "gone" /\ w.ad = convs[c].ad
        /\ w.buyer = convs[c].buyer /\ w.seller = convs[c].seller
    BY <1>1, <2>1, RowFacts
  <2> HIDE DEF w, c
  <2> QED
    BY <1>3, <2>1, <2>2
<1>8. CASE hideAll(r)
  <2>1. req[r].user \in Users
    BY <1>1, <1>8 DEF hideAll, RequestSound
  <2>2. ASSUME NEW c \in Conversations
        PROVE  convs[c].hiddenBy \cup {req[r].user} \in SUBSET Users
    BY <1>1, <2>1 DEF Conversation
  <2>3. ASSUME NEW c \in Conversations
        PROVE  /\ convs'[c] \in Conversation /\ convs'[c].state = convs[c].state
               /\ convs'[c].ad = convs[c].ad
               /\ convs'[c].buyer = convs[c].buyer
               /\ convs'[c].seller = convs[c].seller
    <3> DEFINE w == [convs[c] EXCEPT !.hiddenBy = @ \cup {req[r].user}]
    <3>1. convs[c] \in Conversation
      BY <1>1
    <3>2. /\ w \in Conversation /\ w.state = convs[c].state
          /\ w.ad = convs[c].ad /\ w.buyer = convs[c].buyer
          /\ w.seller = convs[c].seller
      BY <2>2, <3>1, RowFacts
    <3>3. convs'[c] \in {w, convs[c]}
      BY <1>8 DEF hideAll
    <3> HIDE DEF w
    <3> QED
      BY <3>1, <3>2, <3>3
  <2> QED
    BY <1>8, <2>3 DEF hideAll, Harmless
<1>9. CASE deleteAccountCommit(r)
  <2>1. ASSUME NEW c \in Conversations
        PROVE  /\ convs'[c] \in Conversation
               /\ convs'[c].ad = convs[c].ad
               /\ convs'[c].buyer = convs[c].buyer
               /\ convs'[c].seller = convs[c].seller
               /\ \/ convs'[c].state = convs[c].state
                  \/ convs'[c].state = "gone" /\ convs[c].state # "unborn"
    BY <1>1, <1>9, RowFacts DEF deleteAccountCommit, RequestSound, Abandoned
  <2> QED
    BY <1>9, <2>1 DEF deleteAccountCommit, Harmless
<1> QED
  BY <1>2, <1>4, <1>5, <1>6, <1>7, <1>8, <1>9

LEMMA WriteSound ==
  ASSUME IInv, NEW r \in Requests,
         \/ createMessage(r) \/ markRead(r) \/ hide(r) \/ hideAll(r)
         \/ deleteRow(r) \/ deleteAccountCommit(r)
  PROVE  IInv'
<1>1. Respond(r) /\ UNCHANGED <<blocked, ads>>
  BY DEF createMessage, markRead, hide, hideAll, deleteRow, deleteAccountCommit
<1>2. deleted \subseteq deleted' /\ deleted' \subseteq Users
  <2>1. CASE UNCHANGED deleted
    BY <2>1 DEF IInv, TypeOK
  <2>2. CASE deleteAccountCommit(r)
    BY <2>2 DEF deleteAccountCommit, IInv, TypeOK, RequestsSound, RequestSound
  <2> QED
    BY <2>1, <2>2 DEF createMessage, markRead, hide, hideAll, deleteRow
<1>3. blocked' \subseteq Users \X Users /\ ads' \subseteq Ads
  BY <1>1 DEF IInv, TypeOK
<1>4. /\ req' \in [Requests -> Request] /\ RequestSound(r)'
      /\ \A s \in Requests \ {r} : req'[s] = req[s]
  BY <1>1, RespondType, IdleSound DEF IInv
<1> QED
  BY <1>2, <1>3, <1>4, WriteConvs, HarmlessStep

LEMMA QuietSound ==
  ASSUME IInv, NEW r \in Requests, QuietStep(r)
  PROVE  IInv'
<1>1. Harmless /\ convs' \in [Conversations -> Conversation]
  BY QuietRequest DEF IInv, TypeOK, Harmless
<1>2. ads' \subseteq Ads /\ deleted \subseteq deleted' /\ deleted' \subseteq Users
  BY QuietRequest DEF IInv, TypeOK
<1> QED
  BY <1>1, <1>2, QuietRequest, HarmlessStep

(* The only step that begins a dialog looks for it in the same statement.  *)
LEMMA UpsertSound ==
  ASSUME IInv, NEW r \in Requests, upsert(r)
  PROVE  IInv'
<1> DEFINE q == req[r]
           row == Dialog("open", q.ad, q.user, q.other)
<1>1. /\ q \in Request /\ RequestSound(r) /\ convs \in [Conversations -> Conversation]
  BY DEF IInv, TypeOK, RequestsSound
<1>2. q.step = "upsert" /\ q.user \in Users /\ q.other \in Users /\ q.ad \in Ads
  BY <1>1 DEF upsert, RequestSound
<1>3. UNCHANGED <<blocked, ads, deleted>>
  BY DEF upsert
<1>4. ASSUME NEW c \in Conversations,
             Become(r, [q EXCEPT !.step = "createMessage", !.conv = c])
      PROVE  /\ req' \in [Requests -> Request] /\ RequestSound(r)'
             /\ \A s \in Requests \ {r} : req'[s] = req[s]
  <2> DEFINE p == [q EXCEPT !.step = "createMessage", !.conv = c]
  <2>1. /\ p \in Request /\ p.step = "createMessage" /\ p.conv = c
        /\ p.user = q.user /\ p.other = q.other
    BY <1>1 DEF Request
  <2>2. Become(r, p)
    BY <1>4
  <2> HIDE DEF p
  <2>3. req'[r] = p
    BY <2>1, <2>2, BecomeType DEF IInv
  <2>4. RequestSound(r)'
    BY <1>2, <2>1, <2>3 DEF RequestSound
  <2> QED
    BY <2>1, <2>2, <2>4, BecomeType DEF IInv
<1>5. CASE Respond(r) /\ UNCHANGED convs
  <2>1. Harmless /\ convs' \in [Conversations -> Conversation]
    BY <1>1, <1>5 DEF Harmless
  <2> QED
    BY <1>3, <1>5, <2>1, RespondType, IdleSound, HarmlessStep DEF IInv, TypeOK
<1>6. CASE /\ UNCHANGED convs
           /\ \E c \in Conversations :
                Become(r, [q EXCEPT !.step = "createMessage", !.conv = c])
  <2>1. Harmless /\ convs' \in [Conversations -> Conversation]
    BY <1>1, <1>6 DEF Harmless
  <2> QED
    BY <1>3, <1>4, <1>6, <2>1, HarmlessStep DEF IInv, TypeOK
<1>7. ASSUME NEW c \in Conversations, convs[c].state = "unborn",
             ~\E d \in Conversations : /\ Open(d) /\ convs[d].ad = q.ad
                                      /\ convs[d].buyer = q.user,
             convs' = [convs EXCEPT ![c] = row],
             Become(r, [q EXCEPT !.step = "createMessage", !.conv = c])
      PROVE  IInv'
  <2>1. row \in Conversation
    BY <1>2 DEF Conversation, Dialog
  <2>2. /\ convs' \in [Conversations -> Conversation]
        /\ convs'[c] = row
        /\ \A d \in Conversations \ {c} : convs'[d] = convs[d]
    BY <1>1, <1>7, <2>1
  <2>3. PeopleKept
    BY <1>7, <2>2 DEF PeopleKept, Dialog
  <2>4. TypeOK'
    BY <1>3, <1>4, <1>7, <2>2 DEF IInv, TypeOK
  <2>5. People'
    BY <1>2, <2>2 DEF IInv, People, Dialog
  <2>6. RequestsSound'
    BY <1>3, <1>4, <1>7, <2>3, KnowledgeKept DEF RequestsSound
  <2>7. OneDialogPerBuyer'
    BY <1>7, <2>2 DEF IInv, OneDialogPerBuyer, Open, Dialog
  <2> QED
    BY <2>4, <2>5, <2>6, <2>7 DEF IInv
<1>8. \/ Respond(r) /\ UNCHANGED convs
      \/ /\ UNCHANGED convs
         /\ \E c \in Conversations :
              Become(r, [q EXCEPT !.step = "createMessage", !.conv = c])
      \/ \E c \in Conversations :
           /\ convs[c].state = "unborn"
           /\ ~\E d \in Conversations : /\ Open(d) /\ convs[d].ad = q.ad
                                        /\ convs[d].buyer = q.user
           /\ convs' = [convs EXCEPT ![c] = row]
           /\ Become(r, [q EXCEPT !.step = "createMessage", !.conv = c])
  <2> DEFINE existing == {c \in Conversations :
                /\ Open(c) /\ convs[c].ad = q.ad /\ convs[c].buyer = q.user}
  <2>2. \/ Respond(r) /\ UNCHANGED convs
        \/ \E c \in existing :
             /\ Become(r, [q EXCEPT !.step = "createMessage", !.conv = c])
             /\ UNCHANGED convs
        \/ /\ existing = {}
           /\ \E c \in Conversations :
                /\ convs[c].state = "unborn"
                /\ convs' = [convs EXCEPT ![c] = row]
                /\ Become(r, [q EXCEPT !.step = "createMessage", !.conv = c])
    BY Zenon DEF upsert
  <2>3. existing \subseteq Conversations
    OBVIOUS
  <2>4. existing = {} =>
          ~\E d \in Conversations : /\ Open(d) /\ convs[d].ad = q.ad
                                   /\ convs[d].buyer = q.user
    OBVIOUS
  <2> HIDE DEF existing, row, q
  <2> QED
    BY <2>2, <2>3, <2>4
<1> HIDE DEF row, q
<1> QED
  BY <1>5, <1>6, <1>7, <1>8

LEMMA UnblockHarmless ==
  ASSUME IInv, NEW r \in Requests, NEW u \in Users, NEW v \in Users,
         unblockUser(r, u, v)
  PROVE  Harmless /\ convs' \in [Conversations -> Conversation]
<1>1. convs \in [Conversations -> Conversation]
  BY DEF IInv, TypeOK
<1>2. ASSUME NEW c \in Conversations
      PROVE  convs[c].hiddenBy \ {u} \in SUBSET Users
  BY <1>1 DEF Conversation
<1>3. ASSUME NEW c \in Conversations
      PROVE  /\ convs'[c] \in Conversation /\ convs'[c].state = convs[c].state
             /\ convs'[c].ad = convs[c].ad
             /\ convs'[c].buyer = convs[c].buyer
             /\ convs'[c].seller = convs[c].seller
  <2> DEFINE w == [convs[c] EXCEPT !.hiddenBy = @ \ {u}]
  <2>1. convs[c] \in Conversation
    BY <1>1
  <2>2. /\ w \in Conversation /\ w.state = convs[c].state
        /\ w.ad = convs[c].ad /\ w.buyer = convs[c].buyer
        /\ w.seller = convs[c].seller
    BY <1>2, <2>1, RowFacts
  <2>3. convs'[c] \in {w, convs[c]}
    BY DEF unblockUser
  <2> HIDE DEF w
  <2> QED
    BY <2>1, <2>2, <2>3
<1> QED
  BY <1>3 DEF unblockUser, Harmless

LEMMA UnblockSound ==
  ASSUME IInv, NEW r \in Requests, NEW u \in Users, NEW v \in Users,
         unblockUser(r, u, v)
  PROVE  IInv'
<1>1. blocked' \subseteq Users \X Users /\ UNCHANGED <<ads, deleted, req>>
  BY DEF unblockUser, IInv, TypeOK
<1> QED
  BY <1>1, UnblockHarmless, HarmlessStep DEF IInv, TypeOK

LEMMA RemoveAdHarmless ==
  ASSUME IInv, NEW a \in Ads, removeAd(a)
  PROVE  Harmless /\ convs' \in [Conversations -> Conversation]
<1>1. convs \in [Conversations -> Conversation]
  BY DEF IInv, TypeOK
<1>2. ASSUME NEW c \in Conversations
      PROVE  /\ convs'[c] \in Conversation /\ convs'[c].state = convs[c].state
             /\ convs'[c].ad \in {convs[c].ad, null}
             /\ convs'[c].buyer = convs[c].buyer
             /\ convs'[c].seller = convs[c].seller
  BY <1>1, RowFacts DEF removeAd
<1> QED
  BY <1>2 DEF removeAd, Harmless

LEMMA RemoveAdSound ==
  ASSUME IInv, NEW a \in Ads, removeAd(a)
  PROVE  IInv'
<1>1. /\ UNCHANGED <<blocked, deleted, req>> /\ ads' \subseteq Ads
  BY DEF removeAd, IInv, TypeOK
<1> QED
  BY <1>1, RemoveAdHarmless, HarmlessStep DEF IInv, TypeOK

LEMMA CrashSound ==
  ASSUME IInv, Crash
  PROVE  IInv'
<1>1. Harmless /\ convs' \in [Conversations -> Conversation]
  BY DEF IInv, TypeOK, Crash, Harmless
<1>2. /\ req' \in [Requests -> Request]
      /\ \A r \in Requests : RequestSound(r)'
  BY IdleIsRequest, IdleSound DEF Crash
<1> QED
  BY <1>1, <1>2, HarmlessStep DEF IInv, TypeOK, Crash

-----------------------------------------------------------------------------
(* The theorems.                                                           *)

LEMMA InitSound == Init => IInv
<1> SUFFICES ASSUME Init PROVE IInv
  OBVIOUS
<1>1. Unborn \in Conversation /\ Unborn.state = "unborn"
  BY DEF Unborn, Dialog, Conversation
<1>2. TypeOK
  BY <1>1, IdleIsRequest DEF Init, TypeOK
<1>3. People
  BY <1>1 DEF Init, People
<1>4. RequestsSound
  BY DEF Init, RequestsSound, RequestSound, Idle, At
<1>5. OneDialogPerBuyer
  BY <1>1 DEF Init, OneDialogPerBuyer, Open
<1> QED
  BY <1>2, <1>3, <1>4, <1>5 DEF IInv

LEMMA StepSound == IInv /\ [Next]_vars => IInv'
<1> SUFFICES ASSUME IInv, [Next]_vars PROVE IInv'
  OBVIOUS
<1>1. ASSUME NEW r \in Requests, HandlerStep(r) PROVE IInv'
  BY <1>1, QuietSound, UpsertSound, WriteSound DEF HandlerStep, QuietStep
<1>2. ASSUME NEW r \in Requests, NEW u \in Users, Start(r, u) PROVE IInv'
  <2>1. QuietStep(r) \/ \E v \in Users : unblockUser(r, u, v)
    BY <1>2 DEF Start, QuietStep
  <2> QED
    BY <2>1, QuietSound, UnblockSound
<1>3. ASSUME NEW a \in Ads, removeAd(a) PROVE IInv'
  BY <1>3, RemoveAdSound
<1>4. CASE Crash
  BY <1>4, CrashSound
<1>5. CASE UNCHANGED vars
  <2>1. Harmless
    BY <1>5 DEF IInv, TypeOK, Harmless, vars
  <2> QED
    BY <1>5, <2>1, HarmlessStep DEF IInv, TypeOK, vars
<1> QED
  BY <1>1, <1>2, <1>3, <1>4, <1>5 DEF Next

(* The inductive invariant: a dialog that has begun has two sides, and a   *)
(* handler about to delete one knows that its caller's counterpart is gone.*)
THEOREM InductiveInvariant == Spec => []IInv
  BY InitSound, StepSound, PTL DEF Spec

(* Types.                                                                  *)
THEOREM TypeCorrect == Spec => []TypeOK
<1>1. IInv => TypeOK
  BY DEF IInv
<1> QED
  BY <1>1, InductiveInvariant, PTL

(* startConversation, however often and by however many requests it is     *)
(* called at once, makes one dialog for an ad and a buyer.                 *)
THEOREM NoDuplicates == Spec => []OneDialogPerBuyer
<1>1. IInv => OneDialogPerBuyer
  BY DEF IInv
<1> QED
  BY <1>1, InductiveInvariant, PTL

(* Who erases the dialog c in a step that erases it.                       *)
ErasedByTheLast(c) ==
  \E r \in Requests :
    /\ req[r].step # "idle" /\ req'[r].step = "idle"
    /\ req[r].user \in Participants(c)
    /\ Counterpart(c, req[r].user) \in deleted

LEMMA ErasureStep ==
  ASSUME IInv, [Next]_vars, NEW c \in Conversations,
         Open(c), convs'[c].state = "gone"
  PROVE  ErasedByTheLast(c)
<1>1. ASSUME UNCHANGED convs PROVE FALSE
  BY <1>1 DEF Open
<1>2. convs \in [Conversations -> Conversation]
  BY DEF IInv, TypeOK
<1>3. ASSUME NEW r \in Requests, deleteRow(r) \/ deleteAccountCommit(r)
      PROVE  ErasedByTheLast(c)
  <2>1. RequestSound(r)
    BY DEF IInv, RequestsSound
  <2>2. req'[r].step = "idle" /\ req[r].step # "idle"
    BY <1>3, RespondType DEF IInv, deleteRow, deleteAccountCommit, Idle, At
  <2>3. Abandoned(c, req[r].user)
    <3>1. CASE deleteRow(r)
      <4>1. req[r].step = "delete" /\ req[r].conv \in Conversations
        BY <2>1, <3>1 DEF deleteRow, RequestSound
      <4>2. c = req[r].conv
        BY <1>2, <3>1, <4>1 DEF deleteRow, Open
      <4> QED
        BY <2>1, <4>1, <4>2 DEF RequestSound
    <3>2. CASE deleteAccountCommit(r)
      <4>1. c \in req[r].orphans
        BY <1>2, <3>2 DEF deleteAccountCommit, Open
      <4> QED
        BY <2>1, <3>2, <4>1 DEF deleteAccountCommit, RequestSound
    <3> QED
      BY <1>3, <3>1, <3>2
  <2> QED
    BY <2>2, <2>3 DEF ErasedByTheLast, Abandoned
<1>4. ASSUME NEW r \in Requests,
             \/ createMessage(r) \/ markRead(r) \/ hide(r) \/ hideAll(r)
             \/ upsert(r) \/ checkBlocked(r)
      PROVE  FALSE
  <2>1. CASE createMessage(r) \/ markRead(r) \/ hide(r)
    <3>1. req[r].conv \in Conversations
      BY <2>1 DEF IInv, RequestsSound, RequestSound, createMessage, markRead, hide
    <3> QED
      BY <1>1, <1>2, <2>1, <3>1
      DEF createMessage, markRead, hide, Open, Conversation
  <2>2. CASE hideAll(r)
    BY <1>2, <2>2 DEF hideAll, Open, Conversation
  <2>3. CASE upsert(r)
    BY <1>1, <1>2, <2>3 DEF upsert, Open, Dialog
  <2>4. CASE checkBlocked(r)
    BY <1>1, <2>4 DEF checkBlocked
  <2> QED
    BY <1>4, <2>1, <2>2, <2>3, <2>4
<1>5. ASSUME NEW r \in Requests, NEW u \in Users, Start(r, u) PROVE FALSE
  <2>1. CASE QuietStep(r)
    BY <1>1, <2>1, QuietRequest
  <2>2. CASE \E v \in Users : unblockUser(r, u, v)
    BY <1>2, <2>2 DEF unblockUser, Open, Conversation
  <2> QED
    BY <1>5, <2>1, <2>2 DEF Start, QuietStep
<1>6. ASSUME NEW a \in Ads, removeAd(a) PROVE FALSE
  BY <1>2, <1>6 DEF removeAd, Open, Conversation
<1> QED
  BY <1>1, <1>3, <1>4, <1>5, <1>6 DEF Next, HandlerStep, Crash, vars

(* Neither deleteConversation, nor deleteAccount, nor the removal of an ad *)
(* takes a dialog away from a participant who is still there.              *)
THEOREM NobodyLosesADialog == Spec => LivingKeepTheirDialogs
<1>1. IInv /\ [Next]_vars =>
        [\A c \in Conversations :
           Open(c) /\ convs'[c].state = "gone" =>
             \E r \in Requests :
               /\ req[r].step # "idle" /\ req'[r].step = "idle"
               /\ req[r].user \in Participants(c)
               /\ Counterpart(c, req[r].user) \in deleted]_vars
  BY ErasureStep DEF ErasedByTheLast
<1> QED
  BY <1>1, InductiveInvariant, PTL DEF Spec, LivingKeepTheirDialogs

-----------------------------------------------------------------------------
(* What the handlers know of the two sides of a dialog, however many there *)
(* are at once.                                                            *)

SidesSound ==
  \A c \in Conversations :
    convs[c].state # "unborn" =>
      /\ convs[c].buyer # convs[c].seller
      /\ convs[c].ad # null => convs[c].seller = SellerOf[convs[c].ad]

(* Who is to be checked for blocks is who the message is for.              *)
CallSound(r) ==
  LET q == req[r] IN
  /\ q.step \in {"isBlocked", "upsert"} /\ q.conv = null =>
       q.other = SellerOf[q.ad] /\ q.other # q.user
  /\ q.step = "createMessage" \/ (q.step = "isBlocked" /\ q.conv # null) =>
       /\ q.conv \in Conversations /\ convs[q.conv].state # "unborn"
       /\ Participants(q.conv) = {q.user, q.other}

CallsSound == SidesSound /\ \A r \in Requests : CallSound(r)

LEMMA CallKept ==
  ASSUME PeopleKept, NEW s \in Requests, req'[s] = req[s], CallSound(s)
  PROVE  CallSound(s)'
  BY DEF PeopleKept, CallSound, Participants

LEMMA SidesKept ==
  ASSUME SidesSound, Harmless
  PROVE  SidesSound'
  BY DEF SidesSound, Harmless

LEMMA HarmlessKeepsPeople ==
  ASSUME Harmless
  PROVE  PeopleKept
  BY DEF Harmless, PeopleKept

LEMMA IdleCall ==
  ASSUME NEW r \in Requests, req'[r].step = "idle"
  PROVE  CallSound(r)'
  BY DEF CallSound

LEMMA CounterpartSides ==
  ASSUME NEW c, NEW u \in Participants(c)
  PROVE  Participants(c) = {u, Counterpart(c, u)}
  BY DEF Participants, Counterpart

LEMMA QuietCall ==
  ASSUME IInv, CallsSound, NEW r \in Requests, QuietStep(r)
  PROVE  CallSound(r)'
<1>0. UNCHANGED convs
  BY QuietRequest
<1>1. CASE \E u \in Users, a \in Ads : startConversation(r, u, a)
  <2>1. PICK u \in Users, a \in Ads : startConversation(r, u, a)
    BY <1>1
  <2> DEFINE q == At("isBlocked", u, SellerOf[a], a, null)
  <2>2. req'[r] = q
    BY <2>1, BecomeType, AtIsRequest, ChatAssumption DEF startConversation, IInv
  <2> QED
    BY <2>1, <2>2 DEF CallSound, At, startConversation
<1>2. CASE \E u \in Users, c \in Conversations : sendMessage(r, u, c)
  <2>1. PICK u \in Users, c \in Conversations : sendMessage(r, u, c)
    BY <1>2
  <2>2. Open(c) /\ u \in Participants(c) /\ Counterpart(c, u) \in Users
    BY <2>1, OpenPeople DEF sendMessage, IInv
  <2> DEFINE q == At("isBlocked", u, Counterpart(c, u), null, c)
  <2>3. req'[r] = q
    BY <2>1, <2>2, BecomeType, AtIsRequest DEF sendMessage, IInv
  <2>4. /\ q.step = "isBlocked" /\ q.conv = c /\ q.user = u
        /\ q.other = Counterpart(c, u)
    BY DEF At
  <2>5. Participants(c)' = Participants(c) /\ convs'[c].state # "unborn"
    BY <1>0, <2>2 DEF Participants, Open
  <2> HIDE DEF q
  <2> QED
    BY <2>2, <2>3, <2>4, <2>5, CounterpartSides, ChatAssumption
    DEF CallSound, Participants
<1>3. CASE checkBlocked(r)
  <2>1. CASE Respond(r)
    BY <2>1, RespondType, IdleCall DEF IInv, Idle, At
  <2>2. CASE ~Respond(r)
    <3>1. PICK step \in {"upsert", "createMessage"} :
            /\ Go(r, step) /\ req[r].step = "isBlocked"
            /\ step = "upsert" <=> req[r].conv = null
      BY <1>3, <2>2 DEF checkBlocked
    <3> DEFINE q == [req[r] EXCEPT !.step = step]
    <3>2. req[r] \in Request /\ CallSound(r)
      BY DEF IInv, TypeOK, CallsSound
    <3>3. /\ q \in Request /\ q.step = step /\ q.user = req[r].user
          /\ q.other = req[r].other /\ q.ad = req[r].ad /\ q.conv = req[r].conv
      BY <3>2 DEF Request
    <3>4. Become(r, q)
      BY <3>1 DEF Go
    <3> HIDE DEF q
    <3>5. req'[r] = q
      BY <3>3, <3>4, BecomeType DEF IInv
    <3> QED
      BY <1>0, <3>1, <3>2, <3>3, <3>5 DEF CallSound, Participants
  <2> QED
    BY <2>1, <2>2
<1>4. ASSUME req'[r].step \notin {"isBlocked", "upsert", "createMessage"}
      PROVE  CallSound(r)'
  BY <1>4 DEF CallSound
<1>5. CASE \E u \in Users : \/ \E c \in Conversations : markReadFind(r, u, c)
                           \/ \E v \in Users : blockUser(r, u, v)
  <2>1. PICK u \in Users : \/ \E c \in Conversations : markReadFind(r, u, c)
                           \/ \E v \in Users : blockUser(r, u, v)
    BY <1>5
  <2>2. PICK step \in {"read", "hideAll"}, v \in Users \cup {null},
             c \in Conversations \cup {null} : Become(r, At(step, u, v, null, c))
    BY <2>1 DEF markReadFind, blockUser
  <2>3. req'[r] = At(step, u, v, null, c)
    BY <2>2, BecomeType, AtIsRequest DEF IInv
  <2> QED
    BY <1>4, <2>3 DEF At
<1>6. CASE \E u \in Users, c \in Conversations : deleteConversation(r, u, c)
  <2>1. PICK u \in Users, c \in Conversations : deleteConversation(r, u, c)
    BY <1>6
  <2>2. PICK step \in {"delete", "hide"} : Become(r, At(step, u, null, null, c))
    BY <2>1 DEF deleteConversation
  <2>3. req'[r] = At(step, u, null, null, c)
    BY <2>2, BecomeType, AtIsRequest DEF IInv
  <2> QED
    BY <1>4, <2>3 DEF At
<1>7. CASE \E u \in Users : deleteAccountScan(r, u)
  <2>1. PICK u \in Users : deleteAccountScan(r, u)
    BY <1>7
  <2>2. req'[r].step = "commit"
    BY <2>1 DEF deleteAccountScan, Become, At, IInv, TypeOK
  <2> QED
    BY <1>4, <2>2
<1> QED
  BY <1>1, <1>2, <1>3, <1>5, <1>6, <1>7 DEF QuietStep

(* How upsert ends.                                                        *)
UpsertFails(r) == Respond(r) /\ UNCHANGED convs

UpsertFinds(r, c) ==
  /\ Open(c) /\ convs[c].ad = req[r].ad /\ convs[c].buyer = req[r].user
  /\ req'[r].step = "createMessage" /\ req'[r].conv = c
  /\ UNCHANGED convs

UpsertBegins(r, c) ==
  /\ convs[c].state = "unborn"
  /\ convs' = [convs EXCEPT ![c] =
                 Dialog("open", req[r].ad, req[r].user, req[r].other)]
  /\ req'[r].step = "createMessage" /\ req'[r].conv = c

LEMMA UpsertEnds ==
  ASSUME IInv, NEW r \in Requests, upsert(r)
  PROVE  /\ UNCHANGED <<blocked, ads, deleted>>
         /\ \A s \in Requests \ {r} : req'[s] = req[s]
         /\ \/ UpsertFails(r)
            \/ /\ req'[r].user = req[r].user /\ req'[r].other = req[r].other
               /\ \E c \in Conversations : UpsertFinds(r, c) \/ UpsertBegins(r, c)
<1> DEFINE q == req[r]
           p(c) == [q EXCEPT !.step = "createMessage", !.conv = c]
<1>1. q \in Request
  BY DEF IInv, TypeOK
<1>2. UNCHANGED <<blocked, ads, deleted>>
  BY DEF upsert
<1>3. ASSUME NEW c \in Conversations, Become(r, p(c))
      PROVE  /\ \A s \in Requests \ {r} : req'[s] = req[s]
             /\ req'[r].user = q.user /\ req'[r].other = q.other
             /\ req'[r].step = "createMessage" /\ req'[r].conv = c
  <2>1. /\ p(c) \in Request /\ p(c).step = "createMessage" /\ p(c).conv = c
        /\ p(c).user = q.user /\ p(c).other = q.other
    BY <1>1 DEF Request
  <2> HIDE DEF p
  <2> QED
    BY <1>3, <2>1, BecomeType DEF IInv
<1>4. \/ UpsertFails(r)
      \/ \E c \in Conversations :
           /\ Become(r, p(c))
           /\ \/ /\ Open(c) /\ convs[c].ad = q.ad /\ convs[c].buyer = q.user
                 /\ UNCHANGED convs
              \/ /\ convs[c].state = "unborn"
                 /\ convs' = [convs EXCEPT ![c] = Dialog("open", q.ad, q.user, q.other)]
  BY Zenon DEF upsert, UpsertFails
<1>5. CASE UpsertFails(r)
  BY <1>2, <1>5, RespondType DEF IInv, UpsertFails
<1>6. CASE ~UpsertFails(r)
  BY <1>2, <1>3, <1>4, <1>6 DEF UpsertFinds, UpsertBegins
<1> QED
  BY <1>5, <1>6

LEMMA UpsertCalls ==
  ASSUME IInv, CallsSound, NEW r \in Requests, upsert(r)
  PROVE  CallsSound'
<1>1. /\ req[r].step = "upsert" /\ req[r].conv = null /\ req[r].ad \in Ads
      /\ req[r].other = SellerOf[req[r].ad] /\ req[r].other # req[r].user
  BY DEF upsert, IInv, RequestsSound, RequestSound, CallsSound, CallSound
<1>2. convs \in [Conversations -> Conversation]
  BY DEF IInv, TypeOK
<1>3. PeopleKept
  <2>1. CASE UNCHANGED convs
    BY <2>1 DEF PeopleKept
  <2>2. CASE \E c \in Conversations : UpsertBegins(r, c)
    BY <1>2, <2>2 DEF UpsertBegins, PeopleKept
  <2> QED
    BY <2>1, <2>2, UpsertEnds DEF UpsertFails, UpsertFinds
<1>4. \A s \in Requests \ {r} : CallSound(s)'
  BY <1>3, UpsertEnds, CallKept DEF CallsSound
<1>5. CASE UpsertFails(r)
  <2>1. Harmless
    BY <1>2, <1>5 DEF UpsertFails, Harmless
  <2>2. CallSound(r)'
    BY <1>5, RespondType, IdleCall DEF UpsertFails, IInv, Idle, At
  <2> QED
    BY <1>4, <2>1, <2>2, SidesKept DEF CallsSound
<1>6. ASSUME NEW c \in Conversations, UpsertFinds(r, c),
             req'[r].user = req[r].user, req'[r].other = req[r].other
      PROVE  CallsSound'
  <2>1. Harmless
    BY <1>2, <1>6 DEF UpsertFinds, Harmless
  <2>2. convs'[c].state # "unborn" /\ Participants(c)' = {req[r].user, req[r].other}
    BY <1>1, <1>6, ChatAssumption
    DEF UpsertFinds, Open, CallsSound, SidesSound, Participants
  <2>3. CallSound(r)'
    BY <1>6, <2>2 DEF UpsertFinds, CallSound, Participants
  <2> QED
    BY <1>4, <2>1, <2>3, SidesKept DEF CallsSound
<1>7. ASSUME NEW c \in Conversations, UpsertBegins(r, c),
             req'[r].user = req[r].user, req'[r].other = req[r].other
      PROVE  CallsSound'
  <2> DEFINE row == Dialog("open", req[r].ad, req[r].user, req[r].other)
  <2>1. /\ convs'[c] = row
        /\ \A d \in Conversations \ {c} : convs'[d] = convs[d]
    BY <1>2, <1>7 DEF UpsertBegins
  <2>2. /\ row.state = "open" /\ row.ad = req[r].ad /\ row.buyer = req[r].user
        /\ row.seller = req[r].other
    BY DEF Dialog
  <2> HIDE DEF row
  <2>3. SidesSound'
    BY <1>1, <2>1, <2>2 DEF CallsSound, SidesSound
  <2>4. CallSound(r)'
    BY <1>7, <2>1, <2>2 DEF UpsertBegins, CallSound, Participants
  <2> QED
    BY <1>4, <2>3, <2>4 DEF CallsSound
<1> QED
  BY <1>5, <1>6, <1>7, UpsertEnds

LEMMA WriteResponds ==
  ASSUME IInv, NEW r \in Requests,
         \/ createMessage(r) \/ markRead(r) \/ hide(r) \/ hideAll(r)
         \/ deleteRow(r) \/ deleteAccountCommit(r)
  PROVE  /\ req'[r].step = "idle"
         /\ \A s \in Requests \ {r} : req'[s] = req[s]
         /\ UNCHANGED <<blocked, ads>>
<1>1. Respond(r) /\ UNCHANGED <<blocked, ads>>
  BY DEF createMessage, markRead, hide, hideAll, deleteRow, deleteAccountCommit
<1> QED
  BY <1>1, RespondType DEF IInv, Idle, At

LEMMA CallsStep ==
  ASSUME IInv, CallsSound, [Next]_vars
  PROVE  CallsSound'
<1>1. ASSUME Harmless, \A s \in Requests : req'[s] = req[s] \/ CallSound(s)'
      PROVE  CallsSound'
  BY <1>1, HarmlessKeepsPeople, CallKept, SidesKept DEF CallsSound
<1>2. ASSUME NEW r \in Requests, QuietStep(r) PROVE CallsSound'
  <2>1. Harmless
    BY <1>2, QuietRequest DEF IInv, TypeOK, Harmless
  <2> QED
    BY <1>1, <1>2, <2>1, QuietRequest, QuietCall
<1>3. ASSUME NEW r \in Requests, HandlerStep(r) PROVE CallsSound'
  BY <1>1, <1>2, <1>3, UpsertCalls, WriteConvs, WriteResponds, IdleCall
  DEF HandlerStep, QuietStep
<1>4. ASSUME NEW r \in Requests, NEW u \in Users, Start(r, u) PROVE CallsSound'
  <2>1. QuietStep(r) \/ \E v \in Users : unblockUser(r, u, v)
    BY <1>4 DEF Start, QuietStep
  <2> QED
    BY <1>1, <1>2, <2>1, UnblockHarmless DEF unblockUser
<1>5. ASSUME NEW a \in Ads, removeAd(a) PROVE CallsSound'
  BY <1>1, <1>5, RemoveAdHarmless DEF removeAd
<1>6. CASE Crash
  <2>1. Harmless
    BY <1>6 DEF IInv, TypeOK, Crash, Harmless
  <2> QED
    BY <1>1, <1>6, <2>1, IdleCall DEF Crash, Idle, At
<1>7. CASE UNCHANGED vars
  <2>1. Harmless
    BY <1>7 DEF IInv, TypeOK, Harmless, vars
  <2> QED
    BY <1>1, <1>7, <2>1 DEF vars
<1> QED
  BY <1>3, <1>4, <1>5, <1>6, <1>7 DEF Next

-----------------------------------------------------------------------------
(* What holds while requests come one by one and no crash costs one of     *)
(* them a step.                                                            *)

Alone ==
  \A r, s \in Requests : req[r].step # "idle" /\ req[s].step # "idle" => r = s

(* What a handler has checked still holds.                                 *)
CheckSound(r) ==
  LET q == req[r] IN
  /\ q.step # "idle" => q.user \notin deleted
  /\ q.step \in {"upsert", "createMessage"} =>
       <<q.user, q.other>> \notin blocked /\ <<q.other, q.user>> \notin blocked
  /\ q.step = "hideAll" => <<q.user, q.other>> \in blocked
  /\ q.step = "commit" =>
       \A c \in Conversations :
         Open(c) /\ q.user \in Participants(c) /\ Counterpart(c, q.user) \in deleted
         => c \in q.orphans

Hiding(u, v) ==
  \E r \in Requests : req[r].step = "hideAll" /\ req[r].user = u /\ req[r].other = v

HiddenSoon ==
  \A c \in Conversations : \A u \in Participants(c) :
    Open(c) /\ <<u, Counterpart(c, u)>> \in blocked =>
      u \in convs[c].hiddenBy \/ Hiding(u, Counterpart(c, u))

NoOrphans ==
  \A c \in Conversations : Open(c) => ~(Participants(c) \subseteq deleted)

CalmSound == Alone /\ HiddenSoon /\ NoOrphans /\ \A r \in Requests : CheckSound(r)

LEMMA IdleChecks ==
  ASSUME NEW r \in Requests, req'[r].step = "idle"
  PROVE  CheckSound(r)'
  BY DEF CheckSound

(* One at a time: what r does is all that happens.                         *)
LEMMA OnlyOne ==
  ASSUME NEW r \in Requests,
         \A s \in Requests \ {r} : req[s].step = "idle" /\ req'[s] = req[s]
  PROVE  Alone' /\ (CheckSound(r)' => (\A s \in Requests : CheckSound(s))')
<1>1. \A s \in Requests \ {r} : req'[s].step = "idle" /\ CheckSound(s)'
  BY IdleChecks
<1> QED
  BY <1>1 DEF Alone

LEMMA OrphansKept ==
  ASSUME NoOrphans, Harmless, UNCHANGED deleted
  PROVE  NoOrphans'
  BY DEF NoOrphans, Harmless, Open, Participants

(* A dialog stays as hidden as it was.                                     *)
LEMMA HiddenKept ==
  ASSUME HiddenSoon, Harmless, blocked' \subseteq blocked,
         \A c \in Conversations : convs[c].hiddenBy \subseteq convs'[c].hiddenBy,
         \A u, v : Hiding(u, v) => Hiding(u, v)'
  PROVE  HiddenSoon'
  BY DEF HiddenSoon, Harmless, Open, Participants, Counterpart

LEMMA CalmStart ==
  ASSUME IInv, CallsSound, CalmSound, ~Busy,
         NEW r \in Requests, NEW u \in Users, Start(r, u)
  PROVE  CalmSound'
<1>1. \A s \in Requests : req[s].step = "idle"
  BY DEF Busy
<1>2. convs \in [Conversations -> Conversation]
  BY DEF IInv, TypeOK
<1>3. ASSUME NEW q \in Request, Become(r, q), UNCHANGED <<convs, deleted>>,
             blocked' = blocked \/ (/\ q.step = "hideAll"
                                    /\ blocked' = blocked \cup {<<q.user, q.other>>}),
             CheckSound(r)'
      PROVE  CalmSound'
  <2>1. req'[r] = q /\ \A s \in Requests \ {r} : req'[s] = req[s]
    BY <1>3, BecomeType DEF IInv
  <2>2. Alone' /\ (\A s \in Requests : CheckSound(s))'
    BY <1>1, <1>3, <2>1, OnlyOne
  <2>3. NoOrphans'
    BY <1>3 DEF CalmSound, NoOrphans, Open, Participants
  <2>4. \A v, w : ~Hiding(v, w)
    BY <1>1 DEF Hiding
  <2>5. q.step = "hideAll" => Hiding(q.user, q.other)'
    BY <2>1 DEF Hiding
  <2>6. HiddenSoon'
    BY <1>3, <2>4, <2>5 DEF CalmSound, HiddenSoon, Open, Participants, Counterpart
  <2> QED
    BY <2>2, <2>3, <2>6 DEF CalmSound
<1>4. CASE \E a \in Ads : startConversation(r, u, a)
  <2>1. PICK a \in Ads : startConversation(r, u, a)
    BY <1>4
  <2> DEFINE q == At("isBlocked", u, SellerOf[a], a, null)
  <2>2. q \in Request
    BY AtIsRequest, ChatAssumption
  <2>3. Become(r, q) /\ UNCHANGED <<convs, blocked, deleted>> /\ u \notin deleted
    BY <2>1 DEF startConversation, Begin
  <2>4. CheckSound(r)'
    BY <2>2, <2>3, BecomeType DEF IInv, CheckSound, At
  <2> QED
    BY <1>3, <2>2, <2>3, <2>4
<1>5. CASE \E c \in Conversations : sendMessage(r, u, c)
  <2>1. PICK c \in Conversations : sendMessage(r, u, c)
    BY <1>5
  <2> DEFINE q == At("isBlocked", u, Counterpart(c, u), null, c)
  <2>2. q \in Request
    BY <2>1, AtIsRequest, OpenPeople DEF IInv, sendMessage
  <2>3. Become(r, q) /\ UNCHANGED <<convs, blocked, deleted>> /\ u \notin deleted
    BY <2>1 DEF sendMessage, Begin
  <2>4. CheckSound(r)'
    BY <2>2, <2>3, BecomeType DEF IInv, CheckSound, At
  <2> QED
    BY <1>3, <2>2, <2>3, <2>4
<1>6. CASE \E c \in Conversations : markReadFind(r, u, c) \/ deleteConversation(r, u, c)
  <2>1. PICK c \in Conversations : markReadFind(r, u, c) \/ deleteConversation(r, u, c)
    BY <1>6
  <2>2. PICK step \in {"read", "delete", "hide"} : Become(r, At(step, u, null, null, c))
    BY <2>1 DEF markReadFind, deleteConversation
  <2> DEFINE q == At(step, u, null, null, c)
  <2>3. q \in Request
    BY AtIsRequest
  <2>4. Become(r, q) /\ UNCHANGED <<convs, blocked, deleted>> /\ u \notin deleted
    BY <2>1, <2>2 DEF markReadFind, deleteConversation, Begin
  <2>5. CheckSound(r)'
    BY <2>3, <2>4, BecomeType DEF IInv, CheckSound, At
  <2> QED
    BY <1>3, <2>3, <2>4, <2>5
<1>7. CASE \E v \in Users : blockUser(r, u, v)
  <2>1. PICK v \in Users : blockUser(r, u, v)
    BY <1>7
  <2> DEFINE q == At("hideAll", u, v, null, null)
  <2>2. q \in Request
    BY AtIsRequest
  <2>3. /\ Become(r, q) /\ UNCHANGED <<convs, deleted>> /\ u \notin deleted
        /\ blocked' = blocked \cup {<<u, v>>}
    BY <2>1 DEF blockUser, Begin
  <2>4. CheckSound(r)'
    BY <2>2, <2>3, BecomeType DEF IInv, CheckSound, At
  <2> QED
    BY <1>3, <2>2, <2>3, <2>4 DEF At
<1>8. CASE deleteAccountScan(r, u)
  <2> DEFINE orphans == {c \in Conversations :
                           /\ Open(c) /\ u \in Participants(c)
                           /\ Counterpart(c, u) \in deleted}
             p == At("commit", u, null, null, null)
             q == [p EXCEPT !.orphans = orphans]
  <2>1. p \in Request /\ p.step = "commit" /\ p.user = u
    BY AtIsRequest DEF At
  <2>2. Become(r, q) /\ UNCHANGED <<convs, blocked, deleted>> /\ u \notin deleted
    BY <1>8 DEF deleteAccountScan, Begin
  <2>3. \A c : c \in orphans <=> /\ c \in Conversations
                                 /\ Open(c) /\ u \in Participants(c)
                                 /\ Counterpart(c, u) \in deleted
    OBVIOUS
  <2>4. orphans \subseteq Conversations
    OBVIOUS
  <2> HIDE DEF orphans, p
  <2>5. q \in Request /\ q.step = "commit" /\ q.user = u /\ q.orphans = orphans
    BY <2>1, <2>4 DEF Request
  <2> HIDE DEF q
  <2>6. req'[r] = q
    BY <2>2, <2>5, BecomeType DEF IInv
  <2>7. CheckSound(r)'
    BY <2>2, <2>3, <2>5, <2>6 DEF CheckSound, Open, Participants, Counterpart
  <2> QED
    BY <1>3, <2>2, <2>5, <2>7
<1>9. CASE \E v \in Users : unblockUser(r, u, v)
  <2>1. PICK v \in Users : unblockUser(r, u, v)
    BY <1>9
  <2>2. Harmless
    BY <2>1, UnblockHarmless
  <2>3. UNCHANGED <<deleted, req>> /\ blocked' = blocked \ {<<u, v>>} /\ u # v
    BY <2>1 DEF unblockUser
  <2>4. Alone' /\ (\A s \in Requests : CheckSound(s))'
    BY <1>1, <2>3, IdleChecks DEF Alone
  <2>5. \A w, x : ~Hiding(w, x)
    BY <1>1 DEF Hiding
  <2>6. ASSUME NEW c \in Conversations, NEW w \in Participants(c), Open(c),
               <<w, Counterpart(c, w)>> \in blocked'
        PROVE  w \in convs'[c].hiddenBy
    <3>1. w \in convs[c].hiddenBy
      BY <2>3, <2>5, <2>6 DEF CalmSound, HiddenSoon
    <3>2. Participants(c) = {w, Counterpart(c, w)}
      BY CounterpartSides
    <3>3. c \in Between(u, v) => w # u
      BY <2>3, <2>6, <3>2 DEF Between
    <3> QED
      BY <1>2, <2>1, <3>1, <3>3 DEF unblockUser, Conversation
  <2>7. HiddenSoon'
    BY <2>2, <2>6 DEF HiddenSoon, Harmless, Open, Participants, Counterpart
  <2> QED
    BY <2>2, <2>3, <2>4, <2>7, OrphansKept DEF CalmSound
<1> QED
  BY <1>4, <1>5, <1>6, <1>7, <1>8, <1>9 DEF Start

(* A handler's step, in calm: no other request is under way.               *)
LEMMA CalmHandler ==
  ASSUME IInv, CallsSound, CalmSound, NEW r \in Requests, HandlerStep(r)
  PROVE  CalmSound'
<1>1. convs \in [Conversations -> Conversation]
  BY DEF IInv, TypeOK
<1>2. req[r].step # "idle"
  BY DEF HandlerStep, checkBlocked, upsert, createMessage, markRead, deleteRow,
         hide, hideAll, deleteAccountCommit
<1>3. \A s \in Requests \ {r} : req[s].step = "idle"
  BY <1>2 DEF CalmSound, Alone
<1>4. CheckSound(r) /\ CallSound(r) /\ RequestSound(r)
  BY DEF CalmSound, CallsSound, IInv, RequestsSound
<1>5. ASSUME HiddenSoon', NoOrphans', CheckSound(r)',
             \A s \in Requests \ {r} : req'[s] = req[s]
      PROVE  CalmSound'
  BY <1>3, <1>5, OnlyOne DEF CalmSound
<1>6. ASSUME req[r].step # "hideAll" PROVE \A v, w : ~Hiding(v, w)
  BY <1>3, <1>6 DEF Hiding
<1>7. CASE checkBlocked(r)
  <2>1. QuietStep(r)
    BY <1>7 DEF QuietStep
  <2>2. /\ UNCHANGED <<convs, blocked, deleted>> /\ req[r].step = "isBlocked"
        /\ \A s \in Requests \ {r} : req'[s] = req[s]
    BY <1>7, <2>1, QuietRequest DEF checkBlocked
  <2>3. Harmless
    BY <1>1, <2>2 DEF Harmless
  <2>4. HiddenSoon' /\ NoOrphans'
    BY <1>6, <2>2, <2>3, OrphansKept, HiddenKept DEF CalmSound
  <2>5. CheckSound(r)'
    <3>1. CASE Respond(r)
      BY <3>1, RespondType, IdleChecks DEF IInv, Idle, At
    <3>2. CASE ~Respond(r)
      <4>1. PICK step \in {"upsert", "createMessage"} :
              Go(r, step) /\ ~isBlocked(req[r].user, req[r].other)
        BY <1>7, <3>2 DEF checkBlocked
      <4> DEFINE q == [req[r] EXCEPT !.step = step]
      <4>2. /\ q \in Request /\ q.step = step /\ q.user = req[r].user
            /\ q.other = req[r].other
        BY DEF IInv, TypeOK, Request
      <4>3. Become(r, q)
        BY <4>1 DEF Go
      <4> HIDE DEF q
      <4>4. req'[r] = q
        BY <4>2, <4>3, BecomeType DEF IInv
      <4> QED
        BY <1>2, <1>4, <2>2, <4>1, <4>2, <4>4 DEF CheckSound, isBlocked
    <3> QED
      BY <3>1, <3>2
  <2> QED
    BY <1>5, <2>2, <2>4, <2>5
<1>8. CASE upsert(r)
  <2>1. /\ UNCHANGED <<blocked, ads, deleted>> /\ req[r].step = "upsert"
        /\ \A s \in Requests \ {r} : req'[s] = req[s]
    BY <1>8, UpsertEnds DEF upsert
  <2>2. CheckSound(r)'
    <3>1. CASE UpsertFails(r)
      BY <3>1, RespondType, IdleChecks DEF UpsertFails, IInv, Idle, At
    <3>2. CASE /\ req'[r].user = req[r].user /\ req'[r].other = req[r].other
               /\ req'[r].step = "createMessage"
      BY <1>2, <1>4, <2>1, <3>2 DEF CheckSound
    <3> QED
      BY <1>8, <3>1, <3>2, UpsertEnds DEF UpsertFinds, UpsertBegins
  <2>3. CASE UNCHANGED convs
    <3>1. Harmless
      BY <1>1, <2>3 DEF Harmless
    <3>2. HiddenSoon' /\ NoOrphans'
      BY <1>6, <2>1, <2>3, <3>1, OrphansKept, HiddenKept DEF CalmSound
    <3> QED
      BY <1>5, <2>1, <2>2, <3>2
  <2>4. CASE \E c \in Conversations : UpsertBegins(r, c)
    <3>1. PICK c \in Conversations : UpsertBegins(r, c)
      BY <2>4
    <3> DEFINE row == Dialog("open", req[r].ad, req[r].user, req[r].other)
    <3>2. /\ convs'[c] = row
          /\ \A d \in Conversations \ {c} : convs'[d] = convs[d]
      BY <1>1, <3>1 DEF UpsertBegins
    <3>3. row.buyer = req[r].user /\ row.seller = req[r].other
      BY DEF Dialog
    <3> HIDE DEF row
    <3>4. /\ <<req[r].user, req[r].other>> \notin blocked
          /\ <<req[r].other, req[r].user>> \notin blocked
          /\ req[r].user \notin deleted
      BY <1>4, <2>1 DEF CheckSound
    <3>5. NoOrphans'
      BY <2>1, <3>2, <3>3, <3>4 DEF CalmSound, NoOrphans, Open, Participants
    <3>6. \A v, w : ~Hiding(v, w)
      BY <1>6, <2>1
    <3>7. HiddenSoon'
      BY <2>1, <3>2, <3>3, <3>4, <3>6
      DEF CalmSound, HiddenSoon, Open, Participants, Counterpart
    <3> QED
      BY <1>5, <2>1, <2>2, <3>5, <3>7
  <2> QED
    BY <1>8, <2>3, <2>4, UpsertEnds DEF UpsertFails, UpsertFinds
<1>9. ASSUME \/ createMessage(r) \/ markRead(r) \/ hide(r) \/ hideAll(r)
             \/ deleteRow(r) \/ deleteAccountCommit(r),
             HiddenSoon', deleted' = deleted
      PROVE  CalmSound'
  <2>1. Harmless
    BY <1>9, WriteConvs
  <2>2. NoOrphans'
    BY <1>9, <2>1, OrphansKept DEF CalmSound
  <2> QED
    BY <1>5, <1>9, <2>2, WriteResponds, IdleChecks
<1>10. CASE createMessage(r)
  <2> DEFINE c == req[r].conv
  <2>1. c \in Conversations /\ Participants(c) = {req[r].user, req[r].other}
    BY <1>4, <1>10 DEF createMessage, CallSound
  <2>2. /\ <<req[r].user, req[r].other>> \notin blocked
        /\ <<req[r].other, req[r].user>> \notin blocked
    BY <1>4, <1>10 DEF createMessage, CheckSound
  <2>3. \A d \in Conversations \ {c} : convs'[d] = convs[d]
    BY <1>1, <1>10 DEF createMessage
  <2>4. \A v, w : ~Hiding(v, w)
    BY <1>6, <1>10 DEF createMessage
  <2>5. \A u \in Participants(c) : <<u, Counterpart(c, u)>> \notin blocked
    <3>1. ASSUME NEW u \in Participants(c)
          PROVE  {u, Counterpart(c, u)} = {req[r].user, req[r].other}
      BY <2>1, <3>1, CounterpartSides
    <3> HIDE DEF c
    <3>2. ASSUME NEW u \in Participants(c)
          PROVE  \/ u = req[r].user /\ Counterpart(c, u) = req[r].other
                 \/ u = req[r].other /\ Counterpart(c, u) = req[r].user
      BY <3>1
    <3> QED
      BY <2>2, <3>2
  <2>6. Harmless /\ blocked' = blocked
    BY <1>10, WriteConvs, WriteResponds
  <2> HIDE DEF c
  <2>7. HiddenSoon'
    <3> SUFFICES ASSUME NEW d \in Conversations, NEW u \in Participants(d)',
                        Open(d)', <<u, Counterpart(d, u)'>> \in blocked
                 PROVE  u \in convs'[d].hiddenBy
      BY <2>6 DEF HiddenSoon
    <3>1. /\ Participants(d)' = Participants(d) /\ Counterpart(d, u)' = Counterpart(d, u)
          /\ Open(d)
      BY <2>6 DEF Harmless, Participants, Counterpart, Open
    <3>2. d # c
      BY <2>5, <3>1
    <3> QED
      BY <2>3, <2>4, <3>1, <3>2 DEF CalmSound, HiddenSoon
  <2> QED
    BY <1>9, <1>10, <2>7 DEF createMessage
<1>11. CASE markRead(r) \/ hide(r) \/ deleteRow(r)
  <2>1. req[r].conv \in Conversations
    BY <1>4, <1>11 DEF RequestSound, markRead, hide, deleteRow
  <2>2. \A d \in Conversations : convs[d].hiddenBy \subseteq convs'[d].hiddenBy
    BY <1>1, <1>11, <2>1 DEF markRead, hide, deleteRow, Conversation
  <2>3. Harmless /\ blocked' = blocked
    BY <1>11, WriteConvs, WriteResponds
  <2>4. \A v, w : ~Hiding(v, w)
    BY <1>6, <1>11 DEF markRead, hide, deleteRow
  <2>5. HiddenSoon'
    BY <2>2, <2>3, <2>4, HiddenKept DEF CalmSound
  <2> QED
    BY <1>9, <1>11, <2>5 DEF markRead, hide, deleteRow
<1>12. CASE hideAll(r)
  <2>1. Harmless /\ blocked' = blocked
    BY <1>12, WriteConvs, WriteResponds
  <2>2. ASSUME NEW c \in Conversations
        PROVE  /\ convs[c].hiddenBy \subseteq convs'[c].hiddenBy
               /\ c \in Between(req[r].user, req[r].other) =>
                    req[r].user \in convs'[c].hiddenBy
    BY <1>1, <1>12 DEF hideAll, Conversation
  <2>3. ASSUME NEW v, NEW w, Hiding(v, w)
        PROVE  v = req[r].user /\ w = req[r].other
    BY <1>3, <2>3 DEF Hiding
  <2>4. HiddenSoon'
    <3> SUFFICES ASSUME NEW c \in Conversations, NEW u \in Participants(c)',
                        Open(c)', <<u, Counterpart(c, u)'>> \in blocked
                 PROVE  u \in convs'[c].hiddenBy
      BY <2>1 DEF HiddenSoon
    <3>1. /\ u \in Participants(c) /\ Counterpart(c, u)' = Counterpart(c, u) /\ Open(c)
      BY <2>1 DEF Harmless, Participants, Counterpart, Open
    <3>2. u \in convs[c].hiddenBy \/ Hiding(u, Counterpart(c, u))
      BY <3>1 DEF CalmSound, HiddenSoon
    <3>3. CASE Hiding(u, Counterpart(c, u))
      BY <2>2, <2>3, <3>1, <3>3, CounterpartSides DEF Between
    <3> QED
      BY <2>2, <3>2, <3>3
  <2> QED
    BY <1>9, <1>12, <2>4 DEF hideAll
<1>13. CASE deleteAccountCommit(r)
  <2>1. Harmless /\ blocked' = blocked
    BY <1>13, WriteConvs, WriteResponds
  <2>2. \A c \in Conversations : convs[c].hiddenBy \subseteq convs'[c].hiddenBy
    BY <1>1, <1>13 DEF deleteAccountCommit, Conversation
  <2>3. \A v, w : ~Hiding(v, w)
    BY <1>6, <1>13 DEF deleteAccountCommit
  <2>4. HiddenSoon'
    BY <2>1, <2>2, <2>3, HiddenKept DEF CalmSound
  <2>5. NoOrphans'
    <3> SUFFICES ASSUME NEW c \in Conversations, Open(c)',
                        (Participants(c) \subseteq deleted)'
                 PROVE  FALSE
      BY DEF NoOrphans
    <3>1. /\ Participants(c)' = Participants(c) /\ Open(c)
          /\ deleted' = deleted \cup {req[r].user}
      BY <1>13, <2>1 DEF Harmless, Participants, Open, deleteAccountCommit
    <3>2. c \notin req[r].orphans
      BY <1>1, <1>13 DEF deleteAccountCommit, Open, Conversation
    <3>3. req[r].user \in Participants(c)
      BY <3>1 DEF CalmSound, NoOrphans
    <3>4. Counterpart(c, req[r].user) \notin deleted
      BY <1>4, <1>13, <3>1, <3>2, <3>3 DEF CheckSound, deleteAccountCommit
    <3>5. Counterpart(c, req[r].user) = req[r].user
      BY <3>1, <3>3, <3>4, CounterpartSides
    <3> QED
      BY <3>1, <3>5 DEF CallsSound, SidesSound, Counterpart, Open
  <2> QED
    BY <1>5, <1>13, <2>4, <2>5, WriteResponds, IdleChecks
<1> QED
  BY <1>7, <1>8, <1>10, <1>11, <1>12, <1>13 DEF HandlerStep

LEMMA CalmRemoveAd ==
  ASSUME IInv, CalmSound, NEW a \in Ads, removeAd(a)
  PROVE  CalmSound'
<1>1. convs \in [Conversations -> Conversation]
  BY DEF IInv, TypeOK
<1>2. Harmless /\ UNCHANGED <<blocked, deleted, req>>
  BY RemoveAdHarmless DEF removeAd
<1>3. \A c \in Conversations : /\ convs'[c].hiddenBy = convs[c].hiddenBy
                               /\ convs'[c].state = convs[c].state
  BY <1>1 DEF removeAd, Conversation
<1>4. NoOrphans' /\ HiddenSoon'
  BY <1>2, <1>3, OrphansKept, HiddenKept DEF CalmSound, Hiding
<1>5. \A r \in Requests : CheckSound(r)'
  BY <1>2, <1>3 DEF CalmSound, CheckSound, Harmless, Open, Participants, Counterpart
<1> QED
  BY <1>2, <1>4, <1>5 DEF CalmSound, Alone

CalmInv == IInv /\ CallsSound /\ (calm => CalmSound)

LEMMA CalmInit == MCInit => CalmInv
<1> SUFFICES ASSUME MCInit PROVE CalmInv
  OBVIOUS
<1>1. Init
  BY DEF MCInit
<1>2. /\ \A c \in Conversations : convs[c].state = "unborn"
      /\ \A r \in Requests : req[r].step = "idle"
  BY <1>1 DEF Init, Unborn, Dialog, Idle, At
<1>3. CallsSound
  BY <1>2 DEF CallsSound, SidesSound, CallSound
<1>4. CalmSound
  BY <1>2 DEF CalmSound, Alone, HiddenSoon, NoOrphans, CheckSound, Open
<1> QED
  BY <1>1, <1>3, <1>4, InitSound DEF CalmInv

LEMMA CalmStep ==
  ASSUME CalmInv, [MCNext]_<<part, dialogs, history>>
  PROVE  CalmInv'
<1>1. [Next]_vars
  BY DEF MCNext, dialogs, vars
<1>2. IInv' /\ CallsSound'
  BY <1>1, StepSound, CallsStep DEF CalmInv
<1>3. CASE UNCHANGED dialogs
  BY <1>2, <1>3
  DEF CalmInv, dialogs, vars, CalmSound, Alone, HiddenSoon, NoOrphans, CheckSound,
      Hiding, Open, Participants, Counterpart
<1>4. CASE Next /\ calm' = (calm /\ ~(Busy /\ Begins) /\ ~Interrupted)
  <2> SUFFICES ASSUME calm, ~(Busy /\ Begins), ~Interrupted PROVE CalmSound'
    BY <1>2, <1>4 DEF CalmInv
  <2>1. IInv /\ CallsSound /\ CalmSound
    BY DEF CalmInv
  <2>2. ASSUME NEW r \in Requests, HandlerStep(r) PROVE CalmSound'
    BY <2>1, <2>2, CalmHandler
  <2>3. ASSUME NEW r \in Requests, NEW u \in Users, Start(r, u) PROVE CalmSound'
    <3>1. ~Busy
      BY <2>3 DEF Begins
    <3> QED
      BY <2>1, <2>3, <3>1, CalmStart
  <2>4. CASE Crash
    BY <2>2, <2>4 DEF Interrupted
  <2> QED
    BY <1>4, <2>1, <2>2, <2>3, <2>4, CalmRemoveAd DEF Next
<1> QED
  BY <1>3, <1>4 DEF MCNext

(* The inductive invariant of the histories TLC follows: while requests    *)
(* come one by one, what a handler has read still holds when it writes.    *)
THEOREM CalmInvariant == MCSpec => []CalmInv
  BY CalmInit, CalmStep, PTL DEF MCSpec

LEMMA HiddenWhileBlocked ==
  ASSUME CalmInv
  PROVE  BlockedIsHidden
  BY DEF CalmInv, CalmSound, HiddenSoon, Hiding, BlockedIsHidden

LEMMA NoneLeftOver ==
  ASSUME CalmInv
  PROVE  NoOrphanDialogs
  BY DEF CalmInv, CalmSound, NoOrphans, NoOrphanDialogs

LEMMA BlockStep ==
  ASSUME CalmInv, [MCNext]_<<part, dialogs, history>>, dialogs' # dialogs, calm'
  PROVE  /\ \A r \in Requests :
              createMessage(r) /\ Open(req[r].conv) =>
                ~(<<req[r].user, req[r].other>> \in blocked
                  \/ <<req[r].other, req[r].user>> \in blocked)
         /\ \A c \in Conversations, u \in Users :
              u \in convs'[c].hiddenBy \ convs[c].hiddenBy =>
                \/ <<u, Counterpart(c, u)>> \in blocked
                \/ \E r \in Requests : req[r].user = u /\ hide(r)
<1>1. /\ Next /\ calm /\ ~(Busy /\ Begins) /\ ~Interrupted
  BY DEF MCNext
<1>2. IInv /\ CallsSound /\ CalmSound
  BY <1>1 DEF CalmInv
<1>3. convs \in [Conversations -> Conversation]
  BY <1>2 DEF IInv, TypeOK
<1>4. ASSUME NEW r \in Requests, createMessage(r)
      PROVE  /\ <<req[r].user, req[r].other>> \notin blocked
             /\ <<req[r].other, req[r].user>> \notin blocked
  BY <1>2, <1>4 DEF CalmSound, CheckSound, createMessage
<1>5. ASSUME NEW c \in Conversations, NEW u \in Users,
             u \in convs'[c].hiddenBy \ convs[c].hiddenBy
      PROVE  \/ <<u, Counterpart(c, u)>> \in blocked
             \/ \E r \in Requests : req[r].user = u /\ hide(r)
  <2>1. ~UNCHANGED convs
    BY <1>5
  <2>2. ASSUME NEW r \in Requests, hide(r)
        PROVE  req[r].user = u
    BY <1>2, <1>3, <1>5, <2>1, <2>2
    DEF hide, IInv, RequestsSound, RequestSound, Conversation
  <2>3. ASSUME NEW r \in Requests, hideAll(r)
        PROVE  <<u, Counterpart(c, u)>> \in blocked
    <3>1. u = req[r].user /\ c \in Between(req[r].user, req[r].other)
      BY <1>3, <1>5, <2>3 DEF hideAll, Conversation
    <3>2. Counterpart(c, u) = req[r].other
      BY <3>1 DEF Between, Participants, Counterpart
    <3>3. <<req[r].user, req[r].other>> \in blocked
      BY <1>2, <2>3 DEF CalmSound, CheckSound, hideAll
    <3> QED
      BY <3>1, <3>2, <3>3
  <2>4. ASSUME NEW r \in Requests,
               \/ createMessage(r) \/ markRead(r) \/ deleteRow(r)
               \/ deleteAccountCommit(r)
        PROVE  FALSE
    <3>1. CASE createMessage(r) \/ markRead(r) \/ deleteRow(r)
      <4>1. req[r].conv \in Conversations
        BY <1>2, <3>1
        DEF createMessage, markRead, deleteRow, IInv, RequestsSound, RequestSound
      <4> QED
        BY <1>3, <1>5, <2>1, <3>1, <4>1 DEF createMessage, markRead, deleteRow, Conversation
    <3>2. CASE deleteAccountCommit(r)
      BY <1>3, <1>5, <3>2 DEF deleteAccountCommit, Conversation
    <3> QED
      BY <2>4, <3>1, <3>2
  <2>5. ASSUME NEW r \in Requests, upsert(r) PROVE FALSE
    <3>1. PICK d \in Conversations : UpsertBegins(r, d)
      BY <1>2, <2>1, <2>5, UpsertEnds DEF UpsertFails, UpsertFinds
    <3> QED
      BY <1>3, <1>5, <3>1 DEF UpsertBegins, Dialog
  <2>6. ASSUME NEW r \in Requests, QuietStep(r) PROVE FALSE
    BY <1>2, <2>1, <2>6, QuietRequest
  <2>7. ASSUME NEW r \in Requests, NEW v \in Users, NEW w \in Users,
               unblockUser(r, v, w)
        PROVE  FALSE
    BY <1>3, <1>5, <2>7 DEF unblockUser, Conversation
  <2>8. ASSUME NEW a \in Ads, removeAd(a) PROVE FALSE
    BY <1>3, <1>5, <2>8 DEF removeAd, Conversation
  <2>9. ~Crash
    BY <2>1 DEF Crash
  <2>10. ASSUME NEW r \in Requests, HandlerStep(r)
         PROVE  hide(r) \/ hideAll(r)
    BY <2>4, <2>5, <2>6, <2>10 DEF HandlerStep, QuietStep
  <2>11. ASSUME NEW r \in Requests, NEW v \in Users, Start(r, v) PROVE FALSE
    BY <2>6, <2>7, <2>11 DEF Start, QuietStep
  <2> QED
    BY <1>1, <2>2, <2>3, <2>8, <2>9, <2>10, <2>11 DEF Next
<1> QED
  BY <1>4, <1>5

(* Requests coming one by one, no message passes between two of whom one   *)
(* has blocked the other, and a dialog becomes hidden only from who hides  *)
(* it or blocks (sendMessage, startConversation, blockUser, unblockUser).  *)
THEOREM BlocksHold == MCSpec => BlockHolds
<1>1. CalmInv /\ [MCNext]_<<part, dialogs, history>> =>
        [calm' =>
           /\ \A r \in Requests :
                createMessage(r) /\ Open(req[r].conv) =>
                  ~(<<req[r].user, req[r].other>> \in blocked
                    \/ <<req[r].other, req[r].user>> \in blocked)
           /\ \A c \in Conversations, u \in Users :
                u \in convs'[c].hiddenBy \ convs[c].hiddenBy =>
                  \/ <<u, Counterpart(c, u)>> \in blocked
                  \/ \E r \in Requests : req[r].user = u /\ hide(r)]_dialogs
  BY BlockStep
<1> QED
  BY <1>1, CalmInvariant, PTL DEF MCSpec, BlockHolds

-----------------------------------------------------------------------------
(* Pages of messages.                                                      *)

LEMMA FunctionIsSeq ==
  ASSUME NEW S, NEW n \in Nat, NEW f \in [1 .. n -> S]
  PROVE  f \in Seq(S) /\ Len(f) = n
  OBVIOUS

(* Sequences that enumerate a set.                                         *)
Enumerates(s, S) ==
  /\ s \in Seq(S)
  /\ \A i, j \in 1 .. Len(s) : s[i] = s[j] => i = j
  /\ \A m \in S : \E i \in 1 .. Len(s) : s[i] = m

LEMMA SetToSeqsEnumerates ==
  ASSUME NEW S, IsFiniteSet(S), NEW s \in History!SetToSeqs(S)
  PROVE  Enumerates(s, S)
<1> DEFINE n == Cardinality(S)
           D == 1 .. n
<1>1. History!Cardinality(S) = n
  BY DEF History!Cardinality, Cardinality
<1>2. s \in [D -> S] /\ \A i, j \in D : i # j => s[i] # s[j]
  BY <1>1 DEF History!SetToSeqs
<1>3. n \in Nat
  BY FS_CardinalityType
<1>4. IsFiniteSet(D) /\ Cardinality(D) = n
  BY <1>3, FS_Interval
<1>5. s \in Injection(D, S)
  BY <1>2 DEF Injection, IsInjective
<1>6. s \in Surjection(D, S)
  BY <1>4, <1>5, FS_Injection
<1>7. \A m \in S : \E i \in D : s[i] = m
  BY <1>6 DEF Surjection, Range
<1>8. s \in Seq(S) /\ Len(s) = n
  BY <1>2, <1>3, FunctionIsSeq
<1> QED
  BY <1>2, <1>7, <1>8 DEF Enumerates

(* Of a page: the first Limit of s, or all of them, the other way round.   *)
PageLen(s) == IF Len(s) < Limit THEN Len(s) ELSE Limit

LEMMA PageFacts ==
  ASSUME NEW S, NEW s \in Seq(S)
  PROVE  /\ PageLen(s) \in Nat /\ PageLen(s) <= Len(s)
         /\ History!Page(s) \in Seq(S) /\ Len(History!Page(s)) = PageLen(s)
         /\ \A i \in 1 .. PageLen(s) : History!Page(s)[i] = s[PageLen(s) - i + 1]
<1> DEFINE n == PageLen(s)
           t == SubSeq(s, 1, n)
           p == [i \in 1 .. Len(t) |-> t[(Len(t) - i) + 1]]
<1>1. Limit \in Nat \ {0}
  BY HistoryAssumption DEF History!ChatHistoryAssumption
<1>2. n \in Nat /\ n <= Len(s) /\ Len(s) \in Nat
  BY <1>1, LenProperties DEF PageLen
<1>3. \A i \in 1 .. n : s[i] \in S
  BY <1>2, ElementOfSeq
<1>4. t \in Seq(S) /\ Len(t) = n /\ \A i \in 1 .. n : t[i] = s[i]
  BY <1>2, <1>3, SubSeqProperties
<1>5. History!Page(s) = p
  BY DEF History!Page, History!take, History!Reverse, PageLen
<1> HIDE DEF n, t
<1>6. p \in [1 .. n -> S] /\ \A i \in 1 .. n : p[i] = s[n - i + 1]
  <2>1. \A i \in 1 .. n : n - i + 1 \in 1 .. n /\ (n - i) + 1 = n - i + 1
    BY <1>2
  <2> QED
    BY <1>3, <1>4, <2>1
<1>7. p \in Seq(S) /\ Len(p) = n
  BY <1>2, <1>6, FunctionIsSeq
<1> QED
  BY <1>2, <1>5, <1>6, <1>7 DEF n

-----------------------------------------------------------------------------
(* The messages of a dialog.                                               *)

Sent == History!Sent

When(m) == messages[m].at

HistoryTypes ==
  /\ History!TypeOK
  /\ IsFiniteSet(Sent)
  /\ there \subseteq Sent
  /\ seen \in [Talkers -> SUBSET Sent]
  /\ \A r \in Requests : sending[r].step # "idle" =>
       sending[r].user \in Talkers /\ sending[r].at \in History!Time

PastTimes ==
  /\ lastMessageAt <= clock
  /\ \A u \in Talkers : readAt[u] <= clock
  /\ \A m \in Sent : When(m) <= clock
  /\ \A r \in Requests : sending[r].at <= clock

(* Who has gone up to the cursor has nothing from before it.               *)
PagesSound ==
  /\ \A i \in DOMAIN scroll.pages : scroll.pages[i] \in Sent
  /\ History!NothingTwice
  /\ scroll.cursor = 0 => scroll.pages = <<>> /\ there = {}
  /\ scroll.cursor \in History!Time =>
       \A i \in DOMAIN scroll.pages : When(scroll.pages[i]) >= scroll.cursor

(* The rest holds while requests are apart.                                *)
SendingAlone ==
  \A r, s \in Requests :
    sending[r].step # "idle" /\ sending[s].step # "idle" => r = s

TimesDiffer == \A m, n \in Sent : When(m) = When(n) => m = n

LastIsNewest ==
  /\ \A m \in Sent : When(m) <= lastMessageAt
  /\ Sent # {} => \E m \in Sent : When(m) = lastMessageAt

(* A request under way has taken the latest time there is.                 *)
PendingIsLatest ==
  \A r \in Requests : sending[r].step # "idle" =>
    /\ lastMessageAt < sending[r].at
    /\ \A m \in Sent : When(m) < sending[r].at
    /\ \A u \in Talkers : readAt[u] < sending[r].at

Marking(u) == \E r \in Requests : sending[r].step = "update" /\ sending[r].user = u

SeenIsBefore ==
  \A u \in Talkers :
    IF Marking(u) THEN seen[u] = Sent
    ELSE \A m \in Sent : /\ When(m) # readAt[u]
                         /\ m \in seen[u] <=> When(m) < readAt[u]

(* What was there at the beginning has been received or is further up.     *)
NoneMissed ==
  \A m \in there :
    \/ \E i \in DOMAIN scroll.pages : scroll.pages[i] = m
    \/ scroll.cursor \in History!Time /\ When(m) < scroll.cursor

ApartSound ==
  /\ SendingAlone /\ TimesDiffer /\ LastIsNewest
  /\ PendingIsLatest /\ SeenIsBefore /\ NoneMissed

HistorySound ==
  HistoryTypes /\ PastTimes /\ PagesSound /\ (apart => ApartSound)

LEMMA TimeFacts ==
  /\ Limit \in Nat \ {0} /\ MaxTime \in Nat \ {0}
  /\ History!Time = 1 .. MaxTime
  /\ null \notin Talkers /\ null \notin Messages /\ null \notin History!Message
  BY HistoryAssumption DEF History!ChatHistoryAssumption, History!Time

LEMMA SentFacts ==
  ASSUME HistoryTypes
  PROVE  /\ Sent \subseteq Messages
         /\ \A m \in Messages : m \notin Sent <=> messages[m] = null
         /\ \A m \in Sent : messages[m] \in History!Message /\ When(m) \in 1 .. MaxTime
  BY TimeFacts
  DEF HistoryTypes, History!TypeOK, Sent, History!Sent, When, History!Message

(* Nothing begins.                                                         *)
LEMMA NoneBegins ==
  ASSUME HistoryTypes, History!MCNext,
         \A r \in Requests : sending[r].step = "idle" => sending'[r].step = "idle"
  PROVE  /\ apart' <=> apart
         /\ apart => seen' = seen
         /\ \A u \in Talkers : seen'[u] \in {seen[u], {}}
         /\ seen' \in [Talkers -> SUBSET Sent]
<1>1. ~\E r \in Requests : sending[r].step = "idle" /\ sending'[r].step = "update"
  OBVIOUS
<1>2. ~History!Begins
  BY DEF History!Begins
<1>3. apart' = (apart /\ (History!Begins =>
                 clock \notin History!Taken /\ \A r \in Requests : sending[r].step = "idle"))
  BY DEF History!MCNext
<1>4. seen' = [u \in Talkers |->
         IF \E r \in Requests : /\ sending[r].step = "idle" /\ sending'[r].step = "update"
                               /\ sending'[r].user = u
           THEN Sent ELSE IF apart THEN seen[u] ELSE {}]
  BY DEF History!MCNext, Sent
<1>5. seen' = [u \in Talkers |-> IF apart THEN seen[u] ELSE {}]
  BY <1>1, <1>4
<1>6. apart' <=> apart
  BY <1>2, <1>3
<1> QED
  BY <1>5, <1>6 DEF HistoryTypes

(* Neither the messages nor the way up have changed.                       *)
LEMMA PagesKept ==
  ASSUME PagesSound, HistoryTypes, UNCHANGED scroll, there' = there,
         Sent \subseteq Sent', \A m \in Sent : messages'[m] = messages[m]
  PROVE  PagesSound' /\ (NoneMissed => NoneMissed')
<1>1. PagesSound'
  BY DEF PagesSound, When, History!NothingTwice
<1>2. \A m \in there : When(m)' = When(m)
  BY DEF HistoryTypes, When
<1> QED
  BY <1>1, <1>2 DEF NoneMissed

LEMMA ThereKept ==
  ASSUME History!MCNext, UNCHANGED scroll
  PROVE  there' = there
  BY DEF History!MCNext

LEMMA TakeStep ==
  ASSUME HistorySound, History!MCNext, NEW r \in Requests, NEW u \in Talkers,
         NEW step \in {"commit", "update"}, History!Take(r, step, u)
  PROVE  HistorySound'
<1> DEFINE q == [step |-> step, user |-> u, at |-> clock]
<1>1. /\ sending[r].step = "idle" /\ sending' = [sending EXCEPT ![r] = q]
      /\ UNCHANGED <<clock, messages, lastMessageAt, readAt, scroll>>
  BY DEF History!Take
<1>2. /\ clock \in 1 .. MaxTime /\ sending \in [Requests -> History!Request]
  BY TimeFacts DEF HistorySound, HistoryTypes, History!TypeOK
<1>3. q \in History!Request
  BY <1>2, TimeFacts DEF History!Request
<1>4. /\ sending' \in [Requests -> History!Request] /\ sending'[r] = q
      /\ \A s \in Requests \ {r} : sending'[s] = sending[s]
  BY <1>1, <1>2, <1>3
<1>5. Sent' = Sent /\ \A m : When(m)' = When(m)
  BY <1>1 DEF Sent, History!Sent, When
<1>6. there' = there
  BY <1>1, ThereKept
<1>7. seen' = [v \in Talkers |->
         IF \E s \in Requests : /\ sending[s].step = "idle" /\ sending'[s].step = "update"
                               /\ sending'[s].user = v
           THEN Sent ELSE IF apart THEN seen[v] ELSE {}]
  BY DEF History!MCNext, Sent
<1>8. apart' => /\ apart /\ clock \notin History!Taken
                /\ \A s \in Requests : sending[s].step = "idle"
  <2>1. apart' = (apart /\ (History!Begins =>
                   clock \notin History!Taken /\ \A s \in Requests : sending[s].step = "idle"))
    BY DEF History!MCNext
  <2>2. History!Begins
    BY <1>1, <1>4 DEF History!Begins
  <2> QED
    BY <2>1, <2>2
<1>9. HistoryTypes'
  <2>1. History!TypeOK'
    BY <1>1, <1>4 DEF HistorySound, HistoryTypes, History!TypeOK
  <2>2. seen' \in [Talkers -> SUBSET Sent]
    BY <1>7 DEF HistorySound, HistoryTypes
  <2>3. \A s \in Requests : sending'[s].step # "idle" =>
          sending'[s].user \in Talkers /\ sending'[s].at \in History!Time
    BY <1>2, <1>4, TimeFacts DEF HistorySound, HistoryTypes
  <2> QED
    BY <1>5, <1>6, <2>1, <2>2, <2>3 DEF HistorySound, HistoryTypes
<1>10. PastTimes'
  BY <1>1, <1>2, <1>4, <1>5 DEF HistorySound, PastTimes
<1>11. PagesSound' /\ (NoneMissed => NoneMissed')
  BY <1>1, <1>5, <1>6, PagesKept DEF HistorySound
<1>12. ASSUME apart' PROVE ApartSound'
  <2>1. /\ ApartSound /\ \A s \in Requests \ {r} : sending'[s].step = "idle"
        /\ \A s \in Requests : sending[s].step = "idle"
    BY <1>4, <1>8, <1>12 DEF HistorySound
  <2>2. /\ clock # lastMessageAt
        /\ \A v \in Talkers : clock # readAt[v]
        /\ \A m \in Sent : clock # When(m)
    BY <1>8, <1>12 DEF History!Taken, Sent, When
  <2>3. SendingAlone' /\ TimesDiffer' /\ LastIsNewest'
    BY <1>1, <1>5, <2>1 DEF ApartSound, SendingAlone, TimesDiffer, LastIsNewest
  <2>4. PendingIsLatest'
    <3>1. /\ lastMessageAt \in Int /\ readAt \in [Talkers -> Int]
          /\ \A m \in Sent : When(m) \in Int
      BY TimeFacts, SentFacts DEF HistorySound, HistoryTypes, History!TypeOK
    <3>2. /\ lastMessageAt < clock
          /\ \A m \in Sent : When(m) < clock
          /\ \A v \in Talkers : readAt[v] < clock
      BY <1>2, <2>2, <3>1 DEF HistorySound, PastTimes
    <3> QED
      BY <1>1, <1>4, <1>5, <2>1, <3>2 DEF PendingIsLatest
  <2>5. SeenIsBefore'
    <3> SUFFICES ASSUME NEW v \in Talkers
                 PROVE  IF Marking(v)' THEN seen'[v] = Sent
                        ELSE \A m \in Sent : /\ When(m) # readAt[v]
                                             /\ m \in seen'[v] <=> When(m) < readAt[v]
      BY <1>1, <1>5 DEF SeenIsBefore
    <3>1. Marking(v)' <=> step = "update" /\ v = u
      BY <1>4, <2>1 DEF Marking
    <3>2. (\E s \in Requests : /\ sending[s].step = "idle" /\ sending'[s].step = "update"
                               /\ sending'[s].user = v) <=> step = "update" /\ v = u
      BY <1>1, <1>4, <2>1
    <3>3. ~Marking(v)
      BY <2>1 DEF Marking
    <3>4. seen'[v] = IF step = "update" /\ v = u THEN Sent ELSE seen[v]
      BY <1>7, <1>8, <1>12, <3>2
    <3> QED
      BY <2>1, <3>1, <3>3, <3>4 DEF ApartSound, SeenIsBefore
  <2> QED
    BY <1>11, <2>1, <2>3, <2>4, <2>5 DEF ApartSound
<1> QED
  BY <1>9, <1>10, <1>11, <1>12 DEF HistorySound

LEMMA CommitStep ==
  ASSUME HistorySound, History!MCNext, NEW r \in Requests, History!commit(r)
  PROVE  HistorySound'
<1> DEFINE at == sending[r].at
           row == [at |-> at, sender |-> sending[r].user]
<1>1. PICK m \in Messages \ Sent : messages' = [messages EXCEPT ![m] = row]
  BY DEF History!commit, Sent
<1>2. /\ sending[r].step = "commit" /\ lastMessageAt' = at
      /\ sending' = [sending EXCEPT ![r] = History!Idle]
      /\ UNCHANGED <<clock, readAt, scroll>>
  BY DEF History!commit
<1>3. /\ sending \in [Requests -> History!Request]
      /\ messages \in [Messages -> History!Message \cup {null}]
      /\ clock \in 1 .. MaxTime
  BY TimeFacts DEF HistorySound, HistoryTypes, History!TypeOK
<1>4. /\ sending[r].user \in Talkers /\ at \in 1 .. MaxTime
  BY <1>2, TimeFacts DEF HistorySound, HistoryTypes
<1>5. row \in History!Message /\ row.at = at /\ row.sender = sending[r].user /\ row # null
  BY <1>4, TimeFacts DEF History!Message
<1> HIDE DEF row
<1>6. /\ m \in Messages /\ m \notin Sent /\ messages'[m] = row
      /\ \A n \in Messages \ {m} : messages'[n] = messages[n]
      /\ messages' \in [Messages -> History!Message \cup {null}]
  BY <1>1, <1>3, <1>5
<1>7. /\ Sent' = Sent \cup {m} /\ When(m)' = at
      /\ \A n \in Sent : When(n)' = When(n) /\ messages'[n] = messages[n]
  BY <1>5, <1>6 DEF Sent, History!Sent, When
<1>8. History!Idle \in History!Request /\ History!Idle.step = "idle" /\ History!Idle.at = 0
  BY TimeFacts DEF History!Idle, History!Request
<1>9. /\ sending' \in [Requests -> History!Request] /\ sending'[r] = History!Idle
      /\ \A s \in Requests \ {r} : sending'[s] = sending[s]
  BY <1>2, <1>3, <1>8
<1>10. there' = there
  BY <1>2, ThereKept
<1>11. /\ apart' <=> apart
       /\ apart => seen' = seen
       /\ seen' \in [Talkers -> SUBSET Sent]
  BY <1>8, <1>9, NoneBegins DEF HistorySound
<1>12. HistoryTypes'
  <2>1. History!TypeOK'
    BY <1>2, <1>4, <1>6, <1>9, TimeFacts DEF HistorySound, HistoryTypes, History!TypeOK
  <2>2. IsFiniteSet(Sent')
    BY <1>7, FS_AddElement DEF HistorySound, HistoryTypes
  <2>3. \A s \in Requests : sending'[s].step # "idle" =>
          sending'[s].user \in Talkers /\ sending'[s].at \in History!Time
    BY <1>8, <1>9 DEF HistorySound, HistoryTypes
  <2> QED
    BY <1>7, <1>10, <1>11, <2>1, <2>2, <2>3 DEF HistorySound, HistoryTypes
<1>13. PastTimes'
  BY <1>2, <1>3, <1>7, <1>8, <1>9 DEF HistorySound, PastTimes
<1>14. PagesSound' /\ (NoneMissed => NoneMissed')
  BY <1>2, <1>7, <1>10, PagesKept DEF HistorySound
<1>15. ASSUME apart' PROVE ApartSound'
  <2>1. apart /\ ApartSound /\ seen' = seen
    BY <1>11, <1>15 DEF HistorySound
  <2>2. \A s \in Requests : sending'[s].step = "idle"
    BY <1>2, <1>8, <1>9, <2>1 DEF ApartSound, SendingAlone
  <2>3. /\ lastMessageAt < at
        /\ \A n \in Sent : When(n) < at
        /\ \A u \in Talkers : readAt[u] < at
    BY <1>2, <2>1 DEF ApartSound, PendingIsLatest
  <2>4. /\ \A n \in Sent : When(n) \in Int
        /\ readAt \in [Talkers -> Int] /\ lastMessageAt \in Int
    BY TimeFacts, SentFacts DEF HistorySound, HistoryTypes, History!TypeOK
  <2>5. SendingAlone' /\ PendingIsLatest'
    BY <2>2 DEF SendingAlone, PendingIsLatest
  <2>6. TimesDiffer'
    BY <1>4, <1>7, <2>1, <2>3, <2>4 DEF ApartSound, TimesDiffer
  <2>7. LastIsNewest'
    BY <1>2, <1>4, <1>7, <2>3, <2>4 DEF LastIsNewest
  <2>8. SeenIsBefore'
    <3>1. \A u \in Talkers : ~Marking(u) /\ ~Marking(u)'
      BY <1>2, <2>1, <2>2 DEF Marking, ApartSound, SendingAlone
    <3>2. \A u \in Talkers : m \notin seen[u] /\ ~(at < readAt[u]) /\ at # readAt[u]
      BY <1>4, <1>6, <2>3, <2>4 DEF HistorySound, HistoryTypes
    <3>3. \A u \in Talkers : \A n \in Sent : /\ When(n) # readAt[u]
                                             /\ n \in seen[u] <=> When(n) < readAt[u]
      BY <2>1, <3>1 DEF ApartSound, SeenIsBefore
    <3> SUFFICES ASSUME NEW u \in Talkers, NEW n \in Sent'
                 PROVE  /\ When(n)' # readAt[u]
                        /\ n \in seen[u] <=> When(n)' < readAt[u]
      BY <1>2, <2>1, <3>1 DEF SeenIsBefore
    <3> QED
      BY <1>7, <3>2, <3>3
  <2> QED
    BY <1>14, <2>1, <2>5, <2>6, <2>7, <2>8 DEF ApartSound
<1> QED
  BY <1>12, <1>13, <1>14, <1>15 DEF HistorySound

LEMMA UpdateStep ==
  ASSUME HistorySound, History!MCNext, NEW r \in Requests, History!update(r)
  PROVE  HistorySound'
<1> DEFINE at == sending[r].at
           u == sending[r].user
<1>1. /\ sending[r].step = "update" /\ readAt' = [readAt EXCEPT ![u] = at]
      /\ sending' = [sending EXCEPT ![r] = History!Idle]
      /\ UNCHANGED <<clock, messages, lastMessageAt, scroll>>
  BY DEF History!update
<1>2. /\ sending \in [Requests -> History!Request]
      /\ readAt \in [Talkers -> History!Time \cup {0}]
      /\ clock \in 1 .. MaxTime
  BY TimeFacts DEF HistorySound, HistoryTypes, History!TypeOK
<1>3. u \in Talkers /\ at \in 1 .. MaxTime
  BY <1>1, TimeFacts DEF HistorySound, HistoryTypes
<1>4. /\ readAt' \in [Talkers -> History!Time \cup {0}] /\ readAt'[u] = at
      /\ \A v \in Talkers \ {u} : readAt'[v] = readAt[v]
  BY <1>1, <1>2, <1>3, TimeFacts
<1>5. History!Idle \in History!Request /\ History!Idle.step = "idle" /\ History!Idle.at = 0
  BY TimeFacts DEF History!Idle, History!Request
<1>6. /\ sending' \in [Requests -> History!Request] /\ sending'[r] = History!Idle
      /\ \A s \in Requests \ {r} : sending'[s] = sending[s]
  BY <1>1, <1>2, <1>5
<1>7. Sent' = Sent /\ \A m : When(m)' = When(m)
  BY <1>1 DEF Sent, History!Sent, When
<1>8. there' = there
  BY <1>1, ThereKept
<1>9. /\ apart' <=> apart
      /\ apart => seen' = seen
      /\ seen' \in [Talkers -> SUBSET Sent]
  BY <1>5, <1>6, NoneBegins DEF HistorySound
<1>10. HistoryTypes'
  <2>1. History!TypeOK'
    BY <1>1, <1>4, <1>6 DEF HistorySound, HistoryTypes, History!TypeOK
  <2>2. \A s \in Requests : sending'[s].step # "idle" =>
          sending'[s].user \in Talkers /\ sending'[s].at \in History!Time
    BY <1>5, <1>6 DEF HistorySound, HistoryTypes
  <2> QED
    BY <1>7, <1>8, <1>9, <2>1, <2>2 DEF HistorySound, HistoryTypes
<1>11. PastTimes'
  BY <1>1, <1>2, <1>4, <1>5, <1>6, <1>7 DEF HistorySound, PastTimes
<1>12. PagesSound' /\ (NoneMissed => NoneMissed')
  BY <1>1, <1>7, <1>8, PagesKept DEF HistorySound
<1>13. ASSUME apart' PROVE ApartSound'
  <2>1. apart /\ ApartSound /\ seen' = seen
    BY <1>9, <1>13 DEF HistorySound
  <2>2. \A s \in Requests : sending'[s].step = "idle"
    BY <1>1, <1>5, <1>6, <2>1 DEF ApartSound, SendingAlone
  <2>3. \A m \in Sent : When(m) < at /\ When(m) \in Int
    BY <1>1, <2>1, SentFacts DEF ApartSound, PendingIsLatest, HistorySound
  <2>4. SendingAlone' /\ PendingIsLatest' /\ TimesDiffer' /\ LastIsNewest'
    BY <1>1, <1>7, <2>1, <2>2
    DEF SendingAlone, PendingIsLatest, ApartSound, TimesDiffer, LastIsNewest
  <2>5. SeenIsBefore'
    <3>1. \A v \in Talkers : (Marking(v) <=> v = u) /\ ~Marking(v)'
      BY <1>1, <2>1, <2>2 DEF Marking, ApartSound, SendingAlone
    <3>2. seen[u] = Sent
      BY <1>3, <2>1, <3>1 DEF ApartSound, SeenIsBefore
    <3>3. \A v \in Talkers \ {u} : \A m \in Sent :
            /\ When(m) # readAt[v]
            /\ m \in seen[v] <=> When(m) < readAt[v]
      BY <2>1, <3>1 DEF ApartSound, SeenIsBefore
    <3> SUFFICES ASSUME NEW v \in Talkers, NEW m \in Sent
                 PROVE  /\ When(m) # readAt'[v]
                        /\ m \in seen[v] <=> When(m) < readAt'[v]
      BY <1>7, <2>1, <3>1 DEF SeenIsBefore
    <3>4. CASE v = u
      BY <1>3, <1>4, <2>3, <3>2, <3>4
    <3>5. CASE v # u
      BY <1>4, <3>3, <3>5
    <3> QED
      BY <3>4, <3>5
  <2> QED
    BY <1>12, <2>1, <2>4, <2>5 DEF ApartSound
<1> QED
  BY <1>10, <1>11, <1>12, <1>13 DEF HistorySound

LEMMA TickStep ==
  ASSUME HistorySound, History!MCNext, History!Tick
  PROVE  HistorySound'
<1>1. /\ clock < MaxTime /\ clock' = clock + 1
      /\ UNCHANGED <<messages, lastMessageAt, readAt, sending, scroll>>
  BY DEF History!Tick
<1>2. /\ clock \in 1 .. MaxTime /\ lastMessageAt \in Int /\ readAt \in [Talkers -> Int]
      /\ \A m \in Sent : When(m) \in Int
      /\ \A r \in Requests : sending[r].at \in Int
  BY TimeFacts, SentFacts DEF HistorySound, HistoryTypes, History!TypeOK, History!Request
<1>3. Sent' = Sent /\ \A m : When(m)' = When(m)
  BY <1>1 DEF Sent, History!Sent, When
<1>4. there' = there
  BY <1>1, ThereKept
<1>5. /\ apart' <=> apart
      /\ apart => seen' = seen
      /\ seen' \in [Talkers -> SUBSET Sent]
  BY <1>1, NoneBegins DEF HistorySound
<1>6. clock' \in History!Time
  BY <1>1, <1>2, TimeFacts
<1>7. HistoryTypes'
  BY <1>1, <1>3, <1>4, <1>5, <1>6 DEF HistorySound, HistoryTypes, History!TypeOK
<1>8. PastTimes'
  BY <1>1, <1>2, <1>3 DEF HistorySound, PastTimes
<1>9. PagesSound' /\ (NoneMissed => NoneMissed')
  BY <1>1, <1>3, <1>4, PagesKept DEF HistorySound
<1>10. ASSUME apart' PROVE ApartSound'
  BY <1>1, <1>3, <1>5, <1>9, <1>10
  DEF HistorySound, ApartSound, SendingAlone, TimesDiffer, LastIsNewest,
      PendingIsLatest, SeenIsBefore, Marking
<1> QED
  BY <1>7, <1>8, <1>9, <1>10 DEF HistorySound

(* The messages of a page, and which are left above it.                    *)
LEMMA PageStep ==
  ASSUME HistorySound, NEW S \in SUBSET Sent, NEW s \in History!Newest(S)
  PROVE  LET n == PageLen(s)
             p == History!Page(s)
         IN  /\ n \in Nat /\ p \in Seq(Messages) /\ Len(p) = n
             /\ \A i \in 1 .. n : p[i] \in S
             /\ \A i, j \in 1 .. n : i < j => p[i] # p[j] /\ When(p[i]) <= When(p[j])
             /\ n < Limit => \A m \in S : \E i \in 1 .. n : p[i] = m
             /\ ~(n < Limit) =>
                  /\ 1 \in 1 .. n
                  /\ \A m \in S : \/ \E i \in 1 .. n : p[i] = m
                                  \/ When(m) <= When(p[1])
<1> DEFINE n == PageLen(s)
           p == History!Page(s)
<1>1. IsFiniteSet(S) /\ S \subseteq Messages /\ \A m \in S : When(m) \in Int
  BY FS_Subset, SentFacts DEF HistorySound, HistoryTypes
<1>2. /\ s \in History!SetToSeqs(S)
      /\ \A i, j \in DOMAIN s : i < j => messages[s[i]].at >= messages[s[j]].at
  BY DEF History!Newest
<1>3. Enumerates(s, S)
  BY <1>1, <1>2, SetToSeqsEnumerates
<1>4. s \in Seq(S) /\ Len(s) \in Nat /\ DOMAIN s = 1 .. Len(s) /\ s \in [1 .. Len(s) -> S]
  BY <1>3, LenProperties DEF Enumerates
<1>5. s \in Seq(Messages)
  <2>1. s \in [1 .. Len(s) -> Messages]
    BY <1>1, <1>4
  <2> QED
    BY <1>4, <2>1, FunctionIsSeq
<1>6. /\ n \in Nat /\ n <= Len(s)
      /\ p \in Seq(Messages) /\ Len(p) = n
      /\ \A i \in 1 .. n : p[i] = s[n - i + 1]
  BY <1>5, PageFacts
<1>7. Limit \in Nat \ {0} /\ n = IF Len(s) < Limit THEN Len(s) ELSE Limit
  BY TimeFacts DEF PageLen
<1> HIDE DEF n, p
<1>8. \A i \in 1 .. n : n - i + 1 \in 1 .. Len(s) /\ s[n - i + 1] \in S
  BY <1>4, <1>6
<1>9. \A i \in 1 .. n : p[i] \in S
  BY <1>6, <1>8
<1>10. ASSUME NEW i \in 1 .. n, NEW j \in 1 .. n, i < j
       PROVE  p[i] # p[j] /\ When(p[i]) <= When(p[j])
  <2>1. /\ n - j + 1 \in 1 .. Len(s) /\ n - i + 1 \in 1 .. Len(s)
        /\ n - j + 1 < n - i + 1
    BY <1>6, <1>8, <1>10
  <2>2. When(s[n - j + 1]) >= When(s[n - i + 1]) /\ s[n - i + 1] # s[n - j + 1]
    BY <1>2, <1>3, <1>4, <2>1 DEF When, Enumerates
  <2>3. When(s[n - j + 1]) \in Int /\ When(s[n - i + 1]) \in Int
    BY <1>1, <1>8
  <2> QED
    BY <1>6, <2>2, <2>3
<1>11. ASSUME NEW m \in S
       PROVE  \/ \E i \in 1 .. n : p[i] = m
              \/ ~(n < Limit) /\ When(m) <= When(p[1])
  <2>1. PICK k \in 1 .. Len(s) : s[k] = m
    BY <1>3 DEF Enumerates
  <2>2. CASE k <= n
    <3>1. n - k + 1 \in 1 .. n /\ n - (n - k + 1) + 1 = k
      BY <1>6, <2>2
    <3> QED
      BY <1>6, <2>1, <3>1
  <2>3. CASE ~(k <= n)
    <3>1. n = Limit /\ 1 \in 1 .. n /\ n - 1 + 1 = n /\ n \in 1 .. Len(s) /\ n < k
      <4>1. Len(s) \in Nat /\ n \in Nat /\ n <= Len(s) /\ k \in 1 .. Len(s)
        BY <1>4, <1>6, <2>1
      <4>2. n < k /\ n # Len(s)
        BY <2>3, <4>1
      <4>3. n = Limit
        BY <1>7, <4>2
      <4> QED
        BY <1>7, <4>1, <4>2, <4>3
    <3>2. p[1] = s[n]
      BY <1>6, <3>1
    <3>3. When(s[n]) >= When(s[k])
      BY <1>2, <1>4, <2>1, <3>1 DEF When
    <3>4. When(s[n]) \in Int /\ When(s[k]) \in Int /\ ~(n < Limit)
      <4>1. s[n] \in S /\ s[k] \in S
        BY <1>4, <2>1, <3>1
      <4> QED
        BY <1>1, <1>7, <3>1, <4>1
    <3> QED
      BY <2>1, <3>2, <3>3, <3>4
  <2> QED
    BY <2>2, <2>3
<1>12. ~(n < Limit) => 1 \in 1 .. n
  BY <1>6, <1>7
<1> QED
  BY <1>6, <1>9, <1>10, <1>11, <1>12 DEF n, p

LEMMA ConcatFacts ==
  ASSUME NEW S, NEW s \in Seq(S), NEW t \in Seq(S),
         NEW n \in Nat, NEW k \in Nat, Len(s) = n, Len(t) = k
  PROVE  /\ s \o t \in Seq(S) /\ DOMAIN (s \o t) = 1 .. n + k
         /\ \A i \in 1 .. n + k :
              (s \o t)[i] = IF i <= n THEN s[i] ELSE t[i - n]
<1>1. /\ s \o t \in Seq(S) /\ Len(s \o t) = Len(s) + Len(t)
      /\ \A i \in 1 .. Len(s) + Len(t) :
           (s \o t)[i] = IF i <= Len(s) THEN s[i] ELSE t[i - Len(s)]
  BY ConcatProperties
<1>2. DOMAIN (s \o t) = 1 .. Len(s \o t)
  BY <1>1, LenProperties
<1> QED
  BY <1>1, <1>2

LEMMA GetMessagesStep ==
  ASSUME HistorySound, History!MCNext, History!getMessages
  PROVE  HistorySound'
<1> DEFINE cursor == scroll.cursor
           pages == scroll.pages
           S == History!Before(cursor)
<1>1. /\ cursor # MaxTime + 1
      /\ UNCHANGED <<clock, messages, lastMessageAt, readAt, sending>>
  BY DEF History!getMessages, History!Done
<1>2. PICK s \in History!Newest(S) :
        scroll' = [pages |-> History!Page(s) \o pages,
                   cursor |-> IF Len(History!Page(s)) < Limit THEN MaxTime + 1
                              ELSE messages[History!Page(s)[1]].at]
  BY DEF History!getMessages
<1> DEFINE n == PageLen(s)
           p == History!Page(s)
<1>3. /\ S \subseteq Sent
      /\ \A m \in Sent : m \in S <=> cursor = 0 \/ When(m) < cursor
  BY DEF History!Before, Sent, When
<1> HIDE DEF S
<1>4. /\ n \in Nat /\ p \in Seq(Messages) /\ Len(p) = n
      /\ \A i \in 1 .. n : p[i] \in S
      /\ \A i, j \in 1 .. n : i < j => p[i] # p[j] /\ When(p[i]) <= When(p[j])
      /\ n < Limit => \A m \in S : \E i \in 1 .. n : p[i] = m
      /\ ~(n < Limit) =>
           /\ 1 \in 1 .. n
           /\ \A m \in S : \/ \E i \in 1 .. n : p[i] = m
                           \/ When(m) <= When(p[1])
  BY <1>2, <1>3, PageStep
<1> HIDE DEF n, p
<1>5. /\ scroll'.pages = p \o pages
      /\ scroll'.cursor = IF n < Limit THEN MaxTime + 1 ELSE When(p[1])
      /\ scroll' = [pages |-> p \o pages,
                    cursor |-> IF n < Limit THEN MaxTime + 1 ELSE When(p[1])]
  BY <1>2, <1>4 DEF n, p, When
<1>6. /\ pages \in Seq(Messages) /\ cursor \in 0 .. MaxTime + 1 /\ MaxTime \in Nat \ {0}
      /\ scroll = [pages |-> pages, cursor |-> cursor]
  BY TimeFacts DEF HistorySound, HistoryTypes, History!TypeOK, History!Scroll
<1> DEFINE k == Len(pages)
           all == p \o pages
<1>7. k \in Nat /\ DOMAIN pages = 1 .. k
  BY <1>6, LenProperties
<1>7a. /\ all \in Seq(Messages) /\ DOMAIN all = 1 .. n + k
       /\ \A i \in 1 .. n + k : all[i] = IF i <= n THEN p[i] ELSE pages[i - n]
  BY <1>4, <1>6, <1>7, ConcatFacts
<1>8. Sent' = Sent /\ \A m : When(m)' = When(m)
  BY <1>1 DEF Sent, History!Sent, When
<1>9. \A m \in Sent : When(m) \in 1 .. MaxTime
  BY SentFacts DEF HistorySound
<1>10. /\ \A i \in 1 .. k : pages[i] \in Sent
       /\ \A i, j \in 1 .. k : i < j => pages[i] # pages[j] /\ When(pages[i]) <= When(pages[j])
       /\ cursor = 0 => pages = <<>> /\ there = {}
       /\ cursor # 0 => \A i \in 1 .. k : When(pages[i]) >= cursor
  <2>1. cursor # 0 => cursor \in History!Time
    BY <1>1, <1>6, TimeFacts
  <2> QED
    BY <1>7, <2>1 DEF HistorySound, PagesSound, History!NothingTwice, When
<1>11. cursor = 0 => k = 0
  BY <1>10, EmptySeq
<1> DEFINE next == scroll'.cursor
<1>12. /\ next \in 0 .. MaxTime + 1 /\ next # 0
       /\ next \in 1 .. MaxTime => ~(n < Limit) /\ next = When(p[1])
  <2>1. next = IF n < Limit THEN MaxTime + 1 ELSE When(p[1])
    BY <1>5
  <2>2. ~(n < Limit) => When(p[1]) \in 1 .. MaxTime
    BY <1>3, <1>4, <1>9
  <2> HIDE DEF next
  <2>3. MaxTime \in Nat \ {0}
    BY <1>6
  <2> QED
    BY <2>1, <2>2, <2>3
<1>13. scroll' \in History!Scroll
  BY <1>5, <1>12, <1>7a DEF History!Scroll
<1> HIDE DEF all, cursor, k, pages, next
<1>14. \A i \in 1 .. n + k :
         /\ i <= n => i \in 1 .. n /\ all[i] = p[i]
         /\ ~(i <= n) => i - n \in 1 .. k /\ all[i] = pages[i - n]
  BY <1>4, <1>7, <1>7a
<1>15. \A i \in 1 .. n + k : all[i] \in Sent
  BY <1>3, <1>4, <1>10, <1>14
<1>16. ASSUME NEW i \in 1 .. n + k, NEW j \in 1 .. n + k, i < j
       PROVE  all[i] # all[j] /\ When(all[i]) <= When(all[j])
  <2>1. CASE j <= n
    BY <1>4, <1>14, <1>16, <2>1
  <2>2. CASE i <= n /\ ~(j <= n)
    <3>1. /\ all[i] = p[i] /\ p[i] \in S
          /\ j - n \in 1 .. k /\ all[j] = pages[j - n]
      BY <1>4, <1>14, <2>2
    <3>2. cursor # 0
      BY <1>11, <3>1
    <3>3. When(p[i]) < cursor /\ When(pages[j - n]) >= cursor
      BY <1>3, <1>10, <3>1, <3>2
    <3>4. When(p[i]) \in Int /\ When(pages[j - n]) \in Int /\ cursor \in Int
      BY <1>3, <1>6, <1>9, <1>10, <3>1
    <3> QED
      BY <3>1, <3>3, <3>4
  <2>3. CASE ~(i <= n)
    <3>1. /\ i - n \in 1 .. k /\ j - n \in 1 .. k /\ i - n < j - n
          /\ all[i] = pages[i - n] /\ all[j] = pages[j - n]
      BY <1>4, <1>14, <1>16, <2>3
    <3> QED
      BY <1>10, <3>1
  <2> QED
    BY <1>4, <1>16, <2>1, <2>2, <2>3
<1>17. ASSUME next \in 1 .. MaxTime, NEW i \in 1 .. n + k
       PROVE  When(all[i]) >= next
  <2>1. 1 \in 1 .. n /\ next = When(p[1]) /\ 1 \in 1 .. n + k /\ all[1] = p[1]
    BY <1>4, <1>7, <1>12, <1>14, <1>17
  <2>2. When(all[1]) <= When(all[i])
    <3>1. CASE i = 1
      BY <1>9, <1>15, <2>1, <3>1
    <3>2. CASE i # 1
      BY <1>16, <2>1, <3>2
    <3> QED
      BY <3>1, <3>2
  <2>3. When(all[1]) \in Int /\ When(all[i]) \in Int
    BY <1>9, <1>15, <2>1
  <2> QED
    BY <2>1, <2>2, <2>3
<1>18. /\ apart' <=> apart
       /\ apart => seen' = seen
       /\ seen' \in [Talkers -> SUBSET Sent]
  BY <1>1, NoneBegins DEF HistorySound
<1>19. there' = IF cursor = 0 THEN Sent ELSE there
  <2>1. there' = IF scroll = History!Closed /\ scroll' # History!Closed THEN Sent ELSE there
    BY DEF History!MCNext, Sent
  <2>2. History!Closed.cursor = 0 /\ History!Closed = [pages |-> <<>>, cursor |-> 0]
    BY DEF History!Closed
  <2>3. scroll' # History!Closed
    BY <1>12, <2>2 DEF next
  <2>4. scroll = History!Closed <=> cursor = 0
    BY <1>6, <1>10, <2>2 DEF cursor
  <2> QED
    BY <2>1, <2>3, <2>4
<1>20. HistoryTypes'
  <2>1. History!TypeOK'
    BY <1>1, <1>13 DEF HistorySound, HistoryTypes, History!TypeOK
  <2> QED
    BY <1>1, <1>8, <1>18, <1>19, <2>1 DEF HistorySound, HistoryTypes
<1>21. PastTimes'
  BY <1>1, <1>8 DEF HistorySound, PastTimes
<1>22. PagesSound'
  <2>1. scroll'.pages = all /\ scroll'.cursor = next /\ DOMAIN all = 1 .. n + k
    BY <1>5, <1>7a DEF all, next
  <2>2. \A i \in DOMAIN scroll'.pages : scroll'.pages[i] \in Sent'
    BY <1>8, <1>15, <2>1
  <2>3. History!NothingTwice'
    BY <1>1, <1>16, <2>1 DEF History!NothingTwice, When
  <2>4. (scroll.cursor \in History!Time =>
          \A i \in DOMAIN scroll.pages : When(scroll.pages[i]) >= scroll.cursor)'
    <3>1. History!Time' = 1 .. MaxTime
      BY TimeFacts DEF History!Time
    <3> QED
      BY <1>1, <1>17, <2>1, <3>1 DEF When
  <2> QED
    BY <1>12, <2>1, <2>2, <2>3, <2>4 DEF PagesSound
<1>23. ASSUME apart' PROVE ApartSound'
  <2>1. ApartSound /\ seen' = seen
    BY <1>18, <1>23 DEF HistorySound
  <2>2. /\ SendingAlone' /\ TimesDiffer' /\ LastIsNewest'
        /\ PendingIsLatest' /\ SeenIsBefore'
    BY <1>1, <1>8, <2>1
    DEF ApartSound, SendingAlone, TimesDiffer, LastIsNewest, PendingIsLatest,
        SeenIsBefore, Marking
  <2>3. ASSUME NEW m \in there'
        PROVE  \/ \E i \in 1 .. n + k : all[i] = m
               \/ next \in 1 .. MaxTime /\ When(m) < next
    <3>1. m \in Sent
      BY <1>19, <2>3 DEF HistorySound, HistoryTypes
    <3>2. m \in S \/ \E j \in 1 .. k : pages[j] = m
      <4>1. CASE cursor = 0
        BY <1>3, <3>1, <4>1
      <4>2. CASE cursor # 0
        <5>1. \/ \E j \in DOMAIN scroll.pages : scroll.pages[j] = m
              \/ When(m) < cursor
          BY <1>19, <2>1, <2>3, <4>2 DEF ApartSound, NoneMissed, cursor
        <5> QED
          BY <1>3, <1>7, <3>1, <5>1 DEF pages
      <4> QED
        BY <4>1, <4>2
    <3>3. CASE \E j \in 1 .. k : pages[j] = m
      <4>1. PICK j \in 1 .. k : pages[j] = m
        BY <3>3
      <4>2. n + j \in 1 .. n + k /\ ~(n + j <= n) /\ (n + j) - n = j
        <5>1. n \in Nat /\ k \in Nat /\ j \in 1 .. k
          BY <1>4, <1>7, <4>1
        <5> QED
          BY <5>1
      <4>3. all[n + j] = m
        BY <1>14, <4>1, <4>2
      <4> QED
        BY <4>2, <4>3
    <3>4. CASE \E i \in 1 .. n : p[i] = m
      BY <1>4, <1>7, <1>14, <3>4
    <3>5. CASE m \in S /\ ~\E i \in 1 .. n : p[i] = m
      <4>1. ~(n < Limit) /\ 1 \in 1 .. n /\ When(m) <= When(p[1]) /\ p[1] # m
        BY <1>4, <3>5
      <4>2. next = When(p[1]) /\ p[1] \in Sent
        BY <1>3, <1>4, <1>5, <4>1 DEF next
      <4>3. When(m) # When(p[1])
        BY <2>1, <3>1, <4>1, <4>2 DEF ApartSound, TimesDiffer
      <4>4. When(m) \in 1 .. MaxTime /\ next \in 1 .. MaxTime
        BY <1>9, <3>1, <4>2
      <4> QED
        BY <4>1, <4>2, <4>3, <4>4
    <3> QED
      BY <3>2, <3>3, <3>4, <3>5
  <2>4. scroll'.pages = all /\ scroll'.cursor = next /\ DOMAIN all = 1 .. n + k
    BY <1>5, <1>7a DEF all, next
  <2>5. NoneMissed'
    BY <1>8, <2>3, <2>4, TimeFacts DEF NoneMissed
  <2> QED
    BY <2>1, <2>2, <2>5 DEF ApartSound
<1> QED
  BY <1>20, <1>21, <1>22, <1>23 DEF HistorySound

LEMMA HistoryInit == MCInit => HistorySound
<1> SUFFICES ASSUME MCInit PROVE HistorySound
  OBVIOUS
<1>1. /\ clock = 1 /\ messages = [m \in Messages |-> null] /\ lastMessageAt = 0
      /\ readAt = [u \in Talkers |-> 0]
      /\ sending = [r \in Requests |-> History!Idle]
      /\ scroll = History!Closed
      /\ there = {} /\ seen = [u \in Talkers |-> {}]
  BY DEF MCInit, History!MCInit, History!Init
<1>2. History!Idle \in History!Request /\ History!Idle.step = "idle" /\ History!Idle.at = 0
  BY TimeFacts DEF History!Idle, History!Request
<1>3. /\ History!Closed \in History!Scroll
      /\ History!Closed.pages = <<>> /\ History!Closed.cursor = 0
  BY TimeFacts, EmptySeq DEF History!Closed, History!Scroll
<1>4. Sent = {}
  BY <1>1 DEF Sent, History!Sent
<1>5. 1 \in 1 .. MaxTime /\ 0 \notin 1 .. MaxTime
  BY TimeFacts
<1>6. HistoryTypes
  BY <1>1, <1>2, <1>3, <1>4, <1>5, TimeFacts, FS_EmptySet DEF HistoryTypes, History!TypeOK
<1>7. PastTimes
  BY <1>1, <1>2, <1>4 DEF PastTimes
<1>8. PagesSound
  <2>1. DOMAIN scroll.pages = {}
    BY <1>1, <1>3
  <2> QED
    BY <1>1, <1>3, <1>5, <2>1, TimeFacts DEF PagesSound, History!NothingTwice
<1>9. ApartSound
  BY <1>1, <1>2, <1>4
  DEF ApartSound, SendingAlone, TimesDiffer, LastIsNewest, PendingIsLatest,
      SeenIsBefore, Marking, NoneMissed
<1> QED
  BY <1>6, <1>7, <1>8, <1>9 DEF HistorySound

LEMMA HistoryStep ==
  ASSUME HistorySound, [MCNext]_<<part, dialogs, history>>
  PROVE  HistorySound'
<1>1. CASE UNCHANGED history
  <2>1. UNCHANGED <<clock, messages, lastMessageAt, readAt, sending, scroll, there,
                    seen, apart>>
    BY <1>1 DEF history
  <2>2. Sent' = Sent /\ \A m : When(m)' = When(m)
    BY <2>1 DEF Sent, History!Sent, When
  <2>3. HistoryTypes' /\ PastTimes'
    BY <2>1, <2>2 DEF HistorySound, HistoryTypes, History!TypeOK, PastTimes
  <2>4. PagesSound' /\ (NoneMissed => NoneMissed')
    BY <2>1, <2>2, PagesKept DEF HistorySound
  <2>5. apart' => ApartSound'
    BY <2>1, <2>2, <2>4
    DEF HistorySound, ApartSound, SendingAlone, TimesDiffer, LastIsNewest,
        PendingIsLatest, SeenIsBefore, Marking
  <2> QED
    BY <2>3, <2>4, <2>5 DEF HistorySound
<1>2. CASE History!MCNext
  <2>1. History!Next
    BY <1>2 DEF History!MCNext
  <2>2. ASSUME NEW r \in Requests, NEW u \in Talkers,
               History!createMessage(r, u) \/ History!markRead(r, u)
        PROVE  HistorySound'
    BY <1>2, <2>2, TakeStep DEF History!createMessage, History!markRead
  <2> QED
    BY <1>2, <2>1, <2>2, CommitStep, UpdateStep, GetMessagesStep, TickStep DEF History!Next
<1> QED
  BY <1>1, <1>2 DEF MCNext, history

(* The inductive invariant of the messages: while requests are apart times *)
(* order them, and who goes up the history has left nothing behind him.    *)
THEOREM HistoryInvariant == MCSpec => []HistorySound
  BY HistoryInit, HistoryStep, PTL DEF MCSpec

(* The first of the newest is the last message there is.                   *)
LEMMA NewestIsLast ==
  ASSUME HistorySound, apart, NEW s \in History!Newest(History!Sent), s # <<>>
  PROVE  s[1] \in Sent /\ When(s[1]) = lastMessageAt
<1>1. IsFiniteSet(Sent) /\ \A m \in Sent : When(m) \in Int
  BY SentFacts DEF HistorySound, HistoryTypes
<1>2. /\ Enumerates(s, Sent)
      /\ \A i, j \in DOMAIN s : i < j => messages[s[i]].at >= messages[s[j]].at
  BY <1>1, SetToSeqsEnumerates DEF History!Newest, Sent
<1>3. s \in Seq(Sent) /\ Len(s) \in Nat /\ DOMAIN s = 1 .. Len(s)
  BY <1>2, LenProperties DEF Enumerates
<1>4. 1 \in 1 .. Len(s) /\ s[1] \in Sent
  <2>1. Len(s) \in Nat \ {0}
    BY <1>3, EmptySeq
  <2> QED
    BY <1>3, <2>1, ElementOfSeq
<1>5. /\ lastMessageAt \in Int /\ When(s[1]) <= lastMessageAt
      /\ \E m \in Sent : When(m) = lastMessageAt
  BY <1>4, TimeFacts
  DEF HistorySound, ApartSound, LastIsNewest, HistoryTypes, History!TypeOK
<1>6. PICK i \in 1 .. Len(s) : When(s[i]) = lastMessageAt
  BY <1>2, <1>5 DEF Enumerates
<1>7. CASE i = 1
  BY <1>4, <1>6, <1>7
<1>8. CASE i # 1
  <2>1. 1 < i
    BY <1>3, <1>6, <1>8
  <2>2. When(s[1]) >= When(s[i])
    BY <1>2, <1>3, <1>4, <1>6, <2>1 DEF When
  <2> QED
    BY <1>1, <1>4, <1>5, <1>6, <2>2
<1> QED
  BY <1>7, <1>8

LEMMA UnreadIsUnseen ==
  ASSUME HistorySound
  PROVE  History!UnreadUntilRead
<1> SUFFICES ASSUME apart, NEW s \in History!Newest(History!Sent), s # <<>>
             PROVE  /\ lastMessageAt = messages[s[1]].at
                    /\ \A u \in Talkers :
                         (\A r \in Requests : sending[r].step # "update") =>
                           (History!isUnread(u) <=>
                              messages[s[1]].sender # u /\ s[1] \notin seen[u])
  BY DEF History!UnreadUntilRead
<1>1. s[1] \in Sent /\ When(s[1]) = lastMessageAt
  BY NewestIsLast
<1>2. ASSUME NEW u \in Talkers, \A r \in Requests : sending[r].step # "update"
      PROVE  History!isUnread(u) <=> messages[s[1]].sender # u /\ s[1] \notin seen[u]
  <2>1. ~Marking(u)
    BY <1>2 DEF Marking
  <2>2. /\ When(s[1]) # readAt[u]
        /\ s[1] \in seen[u] <=> When(s[1]) < readAt[u]
    BY <1>1, <2>1 DEF HistorySound, ApartSound, SeenIsBefore
  <2>3. When(s[1]) \in Int /\ readAt[u] \in Int
    BY <1>1, TimeFacts, SentFacts DEF HistorySound, HistoryTypes, History!TypeOK
  <2>4. s[1] \notin seen[u] <=> When(s[1]) > readAt[u]
    BY <2>2, <2>3
  <2>5. ASSUME NEW t \in History!Newest(History!Sent), t # <<>>
        PROVE  t[1] = s[1]
    BY <1>1, <2>5, NewestIsLast DEF HistorySound, ApartSound, TimesDiffer
  <2>6. History!isUnread(u) <=> messages[s[1]].sender # u /\ When(s[1]) > readAt[u]
    BY <2>5 DEF History!isUnread, When
  <2> QED
    BY <2>4, <2>6
<1> QED
  BY <1>1, <1>2 DEF When

LEMMA WholeAtTheEnd ==
  ASSUME HistorySound
  PROVE  History!HistoryIsWhole /\ History!NothingTwice
<1>1. History!NothingTwice
  BY DEF HistorySound, PagesSound
<1>2. ASSUME apart, History!Done, NEW m \in there
      PROVE  m \in History!ToSet(scroll.pages)
  <2>1. scroll.cursor \notin History!Time
    BY <1>2, TimeFacts DEF History!Done
  <2> QED
    BY <1>2, <2>1 DEF HistorySound, ApartSound, NoneMissed, History!ToSet
<1> QED
  BY <1>1, <1>2 DEF History!HistoryIsWhole

-----------------------------------------------------------------------------
(* What TLC checks of the two parts.                                       *)

(* Types, of the dialogs and of the messages.                              *)
THEOREM TypesHold == MCSpec => []TypesOK
<1>1. CalmInv /\ HistorySound => TypesOK
  BY DEF CalmInv, IInv, HistorySound, HistoryTypes, TypesOK
<1> QED
  BY <1>1, CalmInvariant, HistoryInvariant, PTL

(* While requests come one by one, who blocks sees none of the dialogs     *)
(* with the blocked, no dialog outlives both its participants, and unread  *)
(* is exactly what came since a participant marked the dialog read         *)
(* (blockUser, deleteConversation, deleteAccount, getConversations).       *)
THEOREM OneByOneIsKept == MCSpec => []ChatOneByOne
<1>1. CalmInv /\ HistorySound => ChatOneByOne
  BY HiddenWhileBlocked, NoneLeftOver, UnreadIsUnseen DEF ChatOneByOne
<1> QED
  BY <1>1, CalmInvariant, HistoryInvariant, PTL

(* Whoever goes up a history, in pages of any size and while others write, *)
(* misses nothing while requests are apart, and receives nothing twice and *)
(* everything in order in any case (getMessages).                          *)
THEOREM HistoryComesWhole == MCSpec => []HistoryIsWhole
<1>1. HistorySound => HistoryIsWhole
  BY WholeAtTheEnd DEF HistoryIsWhole
<1> QED
  BY <1>1, HistoryInvariant, PTL
=============================================================================
