------------------------- MODULE WinRmBackendProofs -------------------------
(***************************************************************************)
(* Proofs about WinRmBackend for every set of calls, every cap on shells   *)
(* and any number of failures of the network.                              *)
(*                                                                         *)
(* PostInv is about the posts alone: how often a message was handled       *)
(* (Counted), and that a post nothing disturbs has the session to itself   *)
(* (Alone).  CallInv ties the calls to their posts and to the shells on    *)
(* the host.  Both are inductive relative to TypeOK.                       *)
(***************************************************************************)
EXTENDS WinRmBackend, FiniteSetTheorems, SequenceTheorems, TLAPS

\* A message is handled at most once in an attempt, and has been when its
\* reply is on the way.
Counted ==
    \A p \in Posters :
        /\ ~InPost(p) => attempt[p] = 1
        /\ post[p] \in {"begin", "handshake", "sealed"} => handled[p] < attempt[p]
        /\ InPost(p) => handled[p] <= attempt[p]
        /\ post[p] \in {"promote", "asked", "read", "ok"} => handled[p] >= 1

\* Nobody else posts while p does, and its second attempt finds no session.
Alone ==
    \A p \in Posters :
        InPost(p) /\ ~disturbed[p] =>
            /\ \A q \in Posters \ {p} : ~InPost(q)
            /\ attempt[p] = 2 => /\ session = None
                                 /\ post[p] \in {"begin", "handshake", "promote"}

\* Where the connection of a request that was sent is kept.
Placed ==
    \A p \in Posters :
        /\ post[p] \in {"asked", "refused"} => using[p] \in Conns \cup {Plain}
        /\ post[p] = "promote" => using[p] \in Conns

PostInv == TransportTypeOK /\ Counted /\ Placed /\ Alone /\ AloneSucceeds

\* Which posts of a call may be in progress, and where.
CallPosts ==
    /\ \A p \in Calls :
         /\ pc[p] \in {"idle", "queue", "join", "done"} => post[Main(p)] = "none"
         /\ pc[p] \in {"idle", "queue", "create", "launch"} => output[p] = "off"
         /\ output[p] \notin {"polling", "stopping"} => post[Output(p)] = "none"
         /\ pc[p] \in {"delete", "done"} =>
              output[p] \notin {"polling", "stopping"}
    /\ status = "opening" => \A p \in Calls : pc[p] = "idle"

\* A call has a slot from the creation of its shell to its deletion.
Slots == IsFiniteSet(sem) /\ \A p \in Calls : p \in sem <=> pc[p] \in Steps

\* What the host has of a call, by where the call is.
Shells ==
    \A p \in Calls :
        /\ pc[p] \in {"idle", "queue"} => shell[p] = "none" /\ ~stray[p]
        /\ pc[p] = "create" => /\ stray[p] => handled[Main(p)] >= 2
                               /\ shell[p] = "open" => handled[Main(p)] >= 1
        /\ pc[p] \notin {"idle", "queue", "create"} => (stray[p] => spoiled[p])
        /\ pc[p] = "delete" /\ handled[Main(p)] >= 1 => shell[p] = "deleted"
        /\ pc[p] = "done" /\ shell[p] = "open" => spoiled[p]

CallInv == CallPosts /\ Slots /\ Shells

Inv == TypeOK /\ PostInv /\ CallInv

-----------------------------------------------------------------------------
(* The order of sealed messages *)

\* Taking a turn, missing it and forgetting a session leave sequences of turns.
Turns == Seq(Posters \cup {Gap})

LEMMA JoinsType ==
    ASSUME NEW p \in Posters, NEW turns \in Turns
    PROVE  Joins(p, turns) \in Turns
  BY DEF Joins, Turns

LEMMA MissesType ==
    ASSUME NEW p \in Posters, NEW turns \in Turns
    PROVE  Misses(p, turns) \in Turns
<1>1. CASE \E i \in DOMAIN turns : turns[i] = p
  <2> DEFINE turn == CHOOSE i \in DOMAIN turns : turns[i] = p
  <2>1. turn \in 1..Len(turns)
    BY <1>1 DEF Turns
  <2> HIDE DEF turn
  <2>2. SubSeq(turns, 1, turn - 1) \in Turns
    <3>1. turn - 1 \in Int /\ \A i \in 1..(turn - 1) : turns[i] \in Posters \cup {Gap}
      BY <2>1 DEF Turns
    <3>2. 1 \in Int
      OBVIOUS
    <3>3. SubSeq(turns, 1, turn - 1) \in Seq(Posters \cup {Gap})
      BY <3>1, <3>2, SubSeqProperties, Zenon
    <3> QED BY <3>3 DEF Turns
  <2>3. Append(SubSeq(turns, 1, turn - 1), Gap) \in Turns
    BY <2>2 DEF Turns
  <2> QED BY <1>1, <2>3 DEF Misses, turn
<1>2. CASE ~\E i \in DOMAIN turns : turns[i] = p
  BY <1>2 DEF Misses
<1> QED BY <1>1, <1>2

LEMMA TailType ==
    ASSUME NEW p \in Posters, NEW turns \in Turns, IsNext(p, turns)
    PROVE  Tail(turns) \in Turns
  BY DEF IsNext, Turns

LEMMA GapType == <<>> \in Turns /\ <<Gap>> \in Turns
  BY DEF Turns

LEMMA ForgetType ==
    ASSUME NEW turns \in [Conns -> Turns]
    PROVE  Forget(turns) \in [Conns -> Turns]
  BY GapType DEF Forget

LEMMA PoolType ==
    ASSUME NEW S \in SUBSET (Conns \cup {Plain})
    PROVE  Pool(S) \in SUBSET (Conns \cup {Plain})
  BY DEF Pool

-----------------------------------------------------------------------------
(* Posts: types *)

TurnsOK == sealed \in [Conns -> Turns] /\ replies \in [Conns -> Turns]

LEMMA TurnsStep ==
    ASSUME TurnsOK, keys \in [Posters -> Conns \cup {None}],
           NEW p \in Posters, PostStep(p) \/ HandledStep(p)
    PROVE  TurnsOK'
<1> USE DEF TurnsOK
<1>1. CASE TakeSlowPath(p)
  BY <1>1 DEF TakeSlowPath, ciphers
<1>2. CASE TakeFastPath(p)
  BY <1>2, JoinsType DEF TakeFastPath
<1>3. CASE Promote(p)
  BY <1>3, ForgetType DEF Promote
<1>4. CASE AskRefused(p)
  <2>1. PICK c \in Reach(p) :
          sealed' = [sealed EXCEPT ![keys[p]] =
                       IF c = keys[p] THEN <<Gap>> ELSE Misses(p, @)]
    BY <1>4 DEF AskRefused
  <2>2. UNCHANGED replies
    BY <1>4 DEF AskRefused
  <2> QED BY <2>1, <2>2, MissesType, GapType
<1>5. CASE ReadReply(p)
  BY <1>5 DEF ReadReply, ciphers
<1>6. CASE OpenReply(p)
  <2>1. CASE IsNext(p, replies[keys[p]])
    <3> DEFINE opened == [replies EXCEPT ![keys[p]] = Tail(@)]
    <3>1. opened \in [Conns -> Turns]
      BY <2>1, TailType
    <3> QED BY <1>6, <2>1, <3>1, ForgetType DEF OpenReply
  <2>2. CASE ~IsNext(p, replies[keys[p]])
    BY <1>6, <2>2, GapType DEF OpenReply
  <2> QED BY <2>1, <2>2
<1>7. CASE Retry(p)
  BY <1>7, ForgetType DEF Retry
<1>8. CASE PostFails(p)
  BY <1>8, ForgetType DEF PostFails
<1>9. CASE Handshake(p)
  BY <1>9, GapType DEF Handshake
<1>10. CASE AskAccepted(p)
  <2>1. PICK c \in Reach(p) : /\ IsNext(p, sealed[c])
                              /\ sealed' = [sealed EXCEPT ![c] = Tail(@)]
                              /\ replies' = [replies EXCEPT ![c] = Joins(p, @)]
    BY <1>10 DEF AskAccepted, Accepts
  <2> QED BY <2>1, TailType, JoinsType
<1> QED
  BY <1>1, <1>2, <1>3, <1>4, <1>5, <1>6, <1>7, <1>8, <1>9, <1>10
     DEF PostStep, HandledStep

LEMMA TurnsNetwork ==
    ASSUME TurnsOK, NetworkStep
    PROVE  TurnsOK'
<1> USE DEF TurnsOK
<1>1. ASSUME NEW p \in Posters, LoseRequest(p) PROVE TurnsOK'
  BY <1>1, MissesType DEF LoseRequest
<1>2. ASSUME NEW p \in Posters, LoseReply(p) PROVE TurnsOK'
  BY <1>2, MissesType DEF LoseReply
<1>3. ASSUME NEW c \in idle, IdleCloses(c) PROVE TurnsOK'
  BY <1>3 DEF IdleCloses, ciphers
<1> QED BY <1>1, <1>2, <1>3 DEF NetworkStep

LEMMA PostTypes ==
    ASSUME TransportTypeOK, Counted, Placed, NEW p \in Posters,
           PostStep(p) \/ HandledStep(p)
    PROVE  TransportTypeOK'
<1>1. TurnsOK'
  BY TurnsStep DEF TransportTypeOK, TurnsOK, Turns
<1>a. Pool(idle) \in SUBSET (Conns \cup {Plain})
  BY PoolType, Zenon DEF TransportTypeOK
<1>2. CASE TakeSlowPath(p)
  BY <1>1, <1>2 DEF TakeSlowPath, TransportTypeOK, TurnsOK, Turns, shared, observed
<1>3. CASE TakeFastPath(p)
  BY <1>1, <1>3 DEF TakeFastPath, TransportTypeOK, TurnsOK, Turns, shared, observed
<1>4. CASE Promote(p)
  <2>1. using[p] \in Conns
    BY <1>4 DEF Promote, Placed
  <2> QED BY <1>1, <1>a, <1>4, <2>1
        DEF Promote, TransportTypeOK, TurnsOK, Turns, observed, Ended
<1>5. CASE AskRefused(p)
  BY <1>1, <1>5 DEF AskRefused, Takes, Reach, TransportTypeOK, TurnsOK, Turns, observed
<1>6. CASE ReadReply(p)
  <2>1. idle \cup {using[p]} \in SUBSET (Conns \cup {Plain})
    BY <1>6 DEF ReadReply, Placed, TransportTypeOK
  <2>2. Pool(idle \cup {using[p]}) \in SUBSET (Conns \cup {Plain})
    BY <2>1, PoolType, Zenon
  <2> QED BY <1>1, <1>6, <2>2 DEF ReadReply, TransportTypeOK, TurnsOK, Turns, observed
<1>7. CASE OpenReply(p)
  <2>1. /\ UNCHANGED <<session, injected, using, fresh, handled, disturbed, faults>>
        /\ idle' = Pool(idle)
    BY <1>7 DEF OpenReply, observed
  <2>2. CASE IsNext(p, replies[keys[p]])
    <3>1. /\ post' = [post EXCEPT ![p] = "ok"]
          /\ attempt' = [attempt EXCEPT ![p] = 1]
          /\ keys' = [keys EXCEPT ![p] = None]
      BY <1>7, <2>2 DEF OpenReply
    <3> QED BY <1>1, <1>a, <2>1, <3>1 DEF TransportTypeOK, TurnsOK, Turns, Ended
  <2>3. CASE ~IsNext(p, replies[keys[p]])
    <3>1. /\ post' = [post EXCEPT ![p] = "failed"]
          /\ UNCHANGED <<attempt, keys>>
      BY <1>7, <2>3 DEF OpenReply
    <3> QED BY <1>1, <1>a, <2>1, <3>1 DEF TransportTypeOK, TurnsOK, Turns, Ended
  <2> QED BY <2>2, <2>3
<1>8. CASE Retry(p)
  BY <1>1, <1>8 DEF Retry, TransportTypeOK, TurnsOK, Turns, observed
<1>9. CASE PostFails(p)
  BY <1>1, <1>9, <1>a DEF PostFails, TransportTypeOK, TurnsOK, Turns, observed, Ended
<1>b. ASSUME post[p] \in {"handshake", "sealed"} PROVE handled[p] + 1 \in 0..2
  <2>1. handled[p] < attempt[p]
    BY <1>b DEF Counted
  <2>2. handled[p] \in 0..2 /\ attempt[p] \in 1..2
    BY DEF TransportTypeOK
  <2> QED BY <2>1, <2>2
<1>10. CASE Handshake(p)
  <2>1. PICK c \in Conns : /\ keys' = [keys EXCEPT ![p] = c]
                           /\ using' = [using EXCEPT ![p] = c]
    BY <1>10 DEF Handshake
  <2> QED BY <1>1, <1>10, <1>b, <2>1
        DEF Handshake, TransportTypeOK, TurnsOK, Turns, shared
<1>11. CASE AskAccepted(p)
  BY <1>1, <1>11, <1>b
     DEF AskAccepted, Takes, Reach, TransportTypeOK, TurnsOK, Turns
<1> QED
  BY <1>2, <1>3, <1>4, <1>5, <1>6, <1>7, <1>8, <1>9, <1>10, <1>11
     DEF PostStep, HandledStep

LEMMA NetworkTypes ==
    ASSUME TransportTypeOK, NetworkStep
    PROVE  TransportTypeOK'
<1>1. TurnsOK'
  BY TurnsNetwork DEF TransportTypeOK, TurnsOK, Turns
<1>f. ASSUME Fault PROVE faults' \in 0..MaxFaults
  BY <1>f, FaultsAssumption DEF Fault, TransportTypeOK
<1>2. ASSUME NEW p \in Posters, LoseRequest(p) PROVE TransportTypeOK'
  BY <1>1, <1>2, <1>f DEF LoseRequest, Hit, Takes, Reach, TransportTypeOK, TurnsOK, Turns
<1>3. ASSUME NEW p \in Posters, LoseReply(p) PROVE TransportTypeOK'
  BY <1>1, <1>3, <1>f DEF LoseReply, Hit, TransportTypeOK, TurnsOK, Turns, shared
<1>4. ASSUME NEW c \in idle, IdleCloses(c) PROVE TransportTypeOK'
  BY <1>1, <1>4, <1>f DEF IdleCloses, TransportTypeOK, TurnsOK, Turns, ciphers, posting, observed
<1> QED BY <1>2, <1>3, <1>4 DEF NetworkStep

LEMMA NextPostsTypes ==
    ASSUME TransportTypeOK, NEW over, NEW P, NextPosts(over, P)
    PROVE  TransportTypeOK'
<1>1. /\ post' = [p \in Posters |-> IF p \in P THEN "begin"
                                    ELSE IF p \in over THEN "none" ELSE post[p]]
      /\ handled' = [p \in Posters |-> IF p \in over \cup P THEN 0 ELSE handled[p]]
      /\ UNCHANGED <<session, injected, idle, sealed, replies, attempt, keys, using,
                     fresh, faults>>
  BY DEF NextPosts, shared, ciphers
<1>2. disturbed' \in [Posters -> BOOLEAN]
  BY DEF NextPosts, TransportTypeOK
<1> QED BY <1>1, <1>2 DEF TransportTypeOK

-----------------------------------------------------------------------------
(* Posts: how often a message is handled, and where its request is *)

LEMMA PostCounted ==
    ASSUME TransportTypeOK, Counted, NEW p \in Posters,
           PostStep(p) \/ HandledStep(p)
    PROVE  Counted'
<1> USE DEF TransportTypeOK, Counted, InPost, Ended
<1>1. CASE TakeSlowPath(p)
  BY <1>1 DEF TakeSlowPath, shared, observed
<1>2. CASE TakeFastPath(p)
  BY <1>2 DEF TakeFastPath, shared, observed
<1>3. CASE Promote(p)
  BY <1>3 DEF Promote, observed
<1>4. CASE AskRefused(p)
  BY <1>4 DEF AskRefused, observed
<1>5. CASE ReadReply(p)
  BY <1>5 DEF ReadReply, observed
<1>6. CASE OpenReply(p)
  BY <1>6 DEF OpenReply, observed
<1>7. CASE Retry(p)
  BY <1>7 DEF Retry, observed
<1>8. CASE PostFails(p)
  BY <1>8 DEF PostFails, observed
<1>9. CASE Handshake(p)
  <2>1. /\ post[p] = "handshake"
        /\ post' = [post EXCEPT ![p] = "promote"]
        /\ handled' = [handled EXCEPT ![p] = @ + 1]
        /\ UNCHANGED attempt
    BY <1>9 DEF Handshake
  <2>2. handled[p] < attempt[p] /\ handled[p] \in 0..2 /\ attempt[p] \in 1..2
    BY <2>1
  <2>3. handled'[p] <= attempt'[p] /\ handled'[p] >= 1
    BY <2>1, <2>2
  <2>4. \A q \in Posters \ {p} : post'[q] = post[q] /\ handled'[q] = handled[q]
    BY <2>1
  <2> QED BY <2>1, <2>3, <2>4
<1>10. CASE AskAccepted(p)
  <2>1. /\ post[p] = "sealed"
        /\ post' = [post EXCEPT ![p] = "asked"]
        /\ handled' = [handled EXCEPT ![p] = @ + 1]
        /\ UNCHANGED attempt
    BY <1>10 DEF AskAccepted
  <2>2. handled[p] < attempt[p] /\ handled[p] \in 0..2 /\ attempt[p] \in 1..2
    BY <2>1
  <2>3. handled'[p] <= attempt'[p] /\ handled'[p] >= 1
    BY <2>1, <2>2
  <2>4. \A q \in Posters \ {p} : post'[q] = post[q] /\ handled'[q] = handled[q]
    BY <2>1
  <2> QED BY <2>1, <2>3, <2>4
<1> QED
  BY <1>1, <1>2, <1>3, <1>4, <1>5, <1>6, <1>7, <1>8, <1>9, <1>10
     DEF PostStep, HandledStep

LEMMA PostPlaced ==
    ASSUME TransportTypeOK, Placed, NEW p \in Posters,
           PostStep(p) \/ HandledStep(p)
    PROVE  Placed'
<1> USE DEF TransportTypeOK, Placed
<1>1. CASE TakeSlowPath(p)
  BY <1>1 DEF TakeSlowPath, shared, observed
<1>2. CASE TakeFastPath(p)
  BY <1>2 DEF TakeFastPath, shared, observed
<1>3. CASE Promote(p)
  BY <1>3 DEF Promote, observed
<1>4. CASE AskRefused(p)
  <2>1. PICK c \in Reach(p) : using' = [using EXCEPT ![p] = c]
    BY <1>4 DEF AskRefused
  <2>2. c \in Conns \cup {Plain} /\ post' = [post EXCEPT ![p] = "refused"]
    BY <1>4 DEF AskRefused, Reach
  <2> QED BY <2>1, <2>2
<1>5. CASE ReadReply(p)
  BY <1>5 DEF ReadReply, observed
<1>6. CASE OpenReply(p)
  BY <1>6 DEF OpenReply, observed
<1>7. CASE Retry(p)
  BY <1>7 DEF Retry, observed
<1>8. CASE PostFails(p)
  BY <1>8 DEF PostFails, observed
<1>9. CASE Handshake(p)
  BY <1>9 DEF Handshake, shared
<1>10. CASE AskAccepted(p)
  <2>1. PICK c \in Reach(p) : using' = [using EXCEPT ![p] = c]
    BY <1>10 DEF AskAccepted
  <2>2. c \in Conns \cup {Plain} /\ post' = [post EXCEPT ![p] = "asked"]
    BY <1>10 DEF AskAccepted, Reach
  <2> QED BY <2>1, <2>2
<1> QED
  BY <1>1, <1>2, <1>3, <1>4, <1>5, <1>6, <1>7, <1>8, <1>9, <1>10
     DEF PostStep, HandledStep

LEMMA NetworkCounted ==
    ASSUME TransportTypeOK, Counted, Placed, NetworkStep
    PROVE  Counted' /\ Placed'
<1> USE DEF TransportTypeOK, Counted, Placed, InPost, Ended
<1>1. ASSUME NEW p \in Posters, LoseRequest(p) PROVE Counted' /\ Placed'
  BY <1>1 DEF LoseRequest, Hit
<1>2. ASSUME NEW p \in Posters, LoseReply(p) PROVE Counted' /\ Placed'
  BY <1>2 DEF LoseReply, Hit
<1>3. ASSUME NEW c \in idle, IdleCloses(c) PROVE Counted' /\ Placed'
  BY <1>3 DEF IdleCloses, posting, observed
<1> QED BY <1>1, <1>2, <1>3 DEF NetworkStep

LEMMA NextPostsCounted ==
    ASSUME TransportTypeOK, Counted, Placed, NEW over, NEW P, NextPosts(over, P),
           \A p \in Posters : p \in over \cup P => ~InPost(p)
    PROVE  Counted' /\ Placed'
  BY DEF NextPosts, TransportTypeOK, Counted, Placed, InPost, Ended

-----------------------------------------------------------------------------
(* Posts: a post that is alone *)

LEMMA PostAlone ==
    ASSUME TransportTypeOK, Alone, AloneSucceeds, NEW p \in Posters,
           PostStep(p) \/ HandledStep(p)
    PROVE  Alone' /\ AloneSucceeds'
<1> USE DEF TransportTypeOK, Alone, AloneSucceeds, InPost, Ended
<1>1. CASE TakeSlowPath(p)
  BY <1>1 DEF TakeSlowPath, shared, observed
<1>2. CASE TakeFastPath(p)
  BY <1>2 DEF TakeFastPath, shared, observed
<1>3. CASE Promote(p)
  BY <1>3 DEF Promote, observed
<1>4. CASE AskRefused(p)
  BY <1>4 DEF AskRefused, observed
<1>5. CASE ReadReply(p)
  BY <1>5 DEF ReadReply, observed
<1>6. CASE OpenReply(p)
  <2>1. post[p] = "read" /\ UNCHANGED <<session, disturbed>>
    BY <1>6 DEF OpenReply, observed
  <2>2. CASE IsNext(p, replies[keys[p]])
    <3>1. /\ post' = [post EXCEPT ![p] = "ok"]
          /\ attempt' = [attempt EXCEPT ![p] = 1]
      BY <1>6, <2>2 DEF OpenReply
    <3> QED BY <2>1, <3>1
  <2>3. CASE ~IsNext(p, replies[keys[p]])
    <3>1. post' = [post EXCEPT ![p] = "failed"] /\ UNCHANGED attempt
      BY <1>6, <2>3 DEF OpenReply
    <3> QED BY <2>1, <3>1
  <2> QED BY <2>2, <2>3
<1>7. CASE Retry(p)
  BY <1>7 DEF Retry, observed
<1>8. CASE PostFails(p)
  BY <1>8 DEF PostFails, observed
<1>9. CASE Handshake(p)
  BY <1>9 DEF Handshake, shared
<1>10. CASE AskAccepted(p)
  BY <1>10 DEF AskAccepted
<1> QED
  BY <1>1, <1>2, <1>3, <1>4, <1>5, <1>6, <1>7, <1>8, <1>9, <1>10
     DEF PostStep, HandledStep

LEMMA NetworkAlone ==
    ASSUME TransportTypeOK, Alone, AloneSucceeds, NetworkStep
    PROVE  Alone' /\ AloneSucceeds'
<1> USE DEF TransportTypeOK, Alone, AloneSucceeds, InPost, Ended
<1>1. ASSUME NEW p \in Posters, LoseRequest(p) PROVE Alone' /\ AloneSucceeds'
  BY <1>1 DEF LoseRequest, Hit
<1>2. ASSUME NEW p \in Posters, LoseReply(p) PROVE Alone' /\ AloneSucceeds'
  BY <1>2 DEF LoseReply, Hit, shared
<1>3. ASSUME NEW c \in idle, IdleCloses(c) PROVE Alone' /\ AloneSucceeds'
  BY <1>3 DEF IdleCloses, posting, observed
<1> QED BY <1>1, <1>2, <1>3 DEF NetworkStep

LEMMA NextPostsAlone ==
    ASSUME TransportTypeOK, Counted, Alone, AloneSucceeds, NEW over, NEW P,
           NextPosts(over, P), \A p \in Posters : p \in over \cup P => ~InPost(p)
    PROVE  Alone' /\ AloneSucceeds'
<1>1. /\ post' = [p \in Posters |-> IF p \in P THEN "begin"
                                    ELSE IF p \in over THEN "none" ELSE post[p]]
      /\ UNCHANGED <<session, attempt>>
  BY DEF NextPosts, shared
<1> DEFINE others == {q \in Posters \ P : InPost(q)}
<1>2. ASSUME NEW p \in Posters, ~disturbed'[p]
      PROVE  /\ p \in P => others = {} /\ P = {p}
             /\ p \in others => ~disturbed[p] /\ P = {}
             /\ p \notin P \cup others => ~disturbed[p] \/ p \in over
  BY <1>2 DEF NextPosts
<1>3. ASSUME NEW p \in Posters, InPost(p)', ~disturbed'[p]
      PROVE  /\ \A q \in Posters \ {p} : ~InPost(q)'
             /\ attempt'[p] = 2 => /\ session' = None
                                   /\ post'[p] \in {"begin", "handshake", "promote"}
  <2>1. CASE p \in P
    <3>1. attempt[p] = 1
      BY <2>1 DEF Counted
    <3> QED BY <1>1, <1>2, <1>3, <2>1, <3>1 DEF InPost, Ended
  <2>2. CASE p \notin P
    <3>1. InPost(p) /\ post'[p] = post[p]
      BY <1>1, <1>3, <2>2 DEF InPost
    <3>2. ~disturbed[p] /\ P = {}
      BY <1>2, <1>3, <2>2, <3>1
    <3> QED BY <1>1, <3>1, <3>2 DEF Alone, InPost
  <2> QED BY <2>1, <2>2
<1>4. ASSUME NEW p \in Posters, post'[p] = "error" PROVE disturbed'[p]
  <2>1. p \notin P \cup over /\ post[p] = "error"
    BY <1>1, <1>4
  <2>2. disturbed[p] /\ ~InPost(p)
    BY <2>1 DEF AloneSucceeds, InPost, Ended
  <2> QED BY <1>2, <2>1, <2>2
<1> QED BY <1>3, <1>4 DEF Alone, AloneSucceeds

-----------------------------------------------------------------------------
(* What the steps of the transport do to the posts *)

LEMMA PostMoves ==
    ASSUME TransportTypeOK, NEW q \in Posters, PostStep(q)
    PROVE  /\ InPost(q) /\ post'[q] # "none"
           /\ \A r \in Posters \ {q} : post'[r] = post[r]
           /\ UNCHANGED handled
<1> USE DEF TransportTypeOK, InPost, Ended
<1>1. CASE TakeSlowPath(q)
  BY <1>1 DEF TakeSlowPath, shared, observed
<1>2. CASE TakeFastPath(q)
  BY <1>2 DEF TakeFastPath, shared, observed
<1>3. CASE Promote(q)
  BY <1>3 DEF Promote, observed
<1>4. CASE AskRefused(q)
  BY <1>4 DEF AskRefused, observed
<1>5. CASE ReadReply(q)
  BY <1>5 DEF ReadReply, observed
<1>6. CASE OpenReply(q)
  BY <1>6 DEF OpenReply, observed
<1>7. CASE Retry(q)
  BY <1>7 DEF Retry, observed
<1>8. CASE PostFails(q)
  BY <1>8 DEF PostFails, observed
<1> QED
  BY <1>1, <1>2, <1>3, <1>4, <1>5, <1>6, <1>7, <1>8 DEF PostStep

LEMMA HandledMoves ==
    ASSUME TransportTypeOK, NEW q \in Posters, HandledStep(q)
    PROVE  /\ InPost(q) /\ post'[q] \notin {"none", "ok"}
           /\ \A r \in Posters \ {q} : post'[r] = post[r]
           /\ handled' = [handled EXCEPT ![q] = @ + 1]
<1> USE DEF TransportTypeOK, InPost, Ended
<1>1. CASE Handshake(q)
  BY <1>1 DEF Handshake
<1>2. CASE AskAccepted(q)
  BY <1>2 DEF AskAccepted
<1> QED BY <1>1, <1>2 DEF HandledStep

LEMMA NetworkMoves ==
    ASSUME TransportTypeOK, NetworkStep
    PROVE  /\ \A r \in Posters : \/ post'[r] = post[r]
                                 \/ InPost(r) /\ post'[r] = "failed"
           /\ UNCHANGED handled
<1> USE DEF TransportTypeOK, InPost, Ended
<1>1. ASSUME NEW p \in Posters, LoseRequest(p)
      PROVE  post' = [post EXCEPT ![p] = "failed"] /\ InPost(p) /\ UNCHANGED handled
  BY <1>1 DEF LoseRequest, Hit
<1>2. ASSUME NEW p \in Posters, LoseReply(p)
      PROVE  post' = [post EXCEPT ![p] = "failed"] /\ InPost(p) /\ UNCHANGED handled
  BY <1>2 DEF LoseReply, Hit
<1>3. ASSUME NEW c \in idle, IdleCloses(c) PROVE UNCHANGED <<post, handled>>
  BY <1>3 DEF IdleCloses, posting, observed
<1> QED BY <1>1, <1>2, <1>3 DEF NetworkStep

LEMMA NextPostsMoves ==
    ASSUME TransportTypeOK, NEW over, NEW P, NextPosts(over, P)
    PROVE  \A r \in Posters :
             /\ r \in P => post'[r] = "begin" /\ handled'[r] = 0
             /\ r \in over \ P => post'[r] = "none"
             /\ r \notin over \cup P => post'[r] = post[r] /\ handled'[r] = handled[r]
  BY DEF NextPosts, TransportTypeOK

LEMMA Names ==
    /\ \A p \in Calls : Main(p) \in Posters /\ Output(p) \in Posters
    /\ \A p, q \in Calls : /\ Main(p) = Main(q) => p = q
                           /\ Output(p) = Output(q) => p = q
                           /\ Main(p) # Output(q)
    /\ \A r \in Posters : \E p \in Calls : r \in {Main(p), Output(p)}
<1>1. \A p \in Calls : Main(p) \in Posters /\ Output(p) \in Posters
  BY PostersAssumption DEF Main, Output
<1>2. \A p, q \in Calls : /\ Main(p) = Main(q) => p = q
                          /\ Output(p) = Output(q) => p = q
                          /\ Main(p) # Output(q)
  BY DEF Main, Output
<1>3. \A r \in Posters : \E p \in Calls : r \in {Main(p), Output(p)}
  BY PostersAssumption DEF Main, Output
<1> QED BY <1>1, <1>2, <1>3

-----------------------------------------------------------------------------
(* The posts keep their invariant *)

LEMMA PostsInit == TransportInit => PostInv
  BY FaultsAssumption, GapType
     DEF TransportInit, PostInv, TransportTypeOK, Counted, Placed, Alone, AloneSucceeds,
         InPost, Ended, Turns

LEMMA PostsNext ==
    ASSUME PostInv, NEW over, NEW P, NextPosts(over, P),
           \A p \in Posters : p \in over \cup P => ~InPost(p)
    PROVE  PostInv'
  BY NextPostsTypes, NextPostsCounted, NextPostsAlone DEF PostInv

LEMMA PostsStep ==
    ASSUME PostInv, NEW p \in Posters, PostStep(p) \/ HandledStep(p)
    PROVE  PostInv'
  BY PostTypes, PostCounted, PostPlaced, PostAlone DEF PostInv

LEMMA PostsNetwork ==
    ASSUME PostInv, NetworkStep
    PROVE  PostInv'
  BY NetworkTypes, NetworkCounted, NetworkAlone DEF PostInv

LEMMA PostsUnchanged ==
    ASSUME PostInv, UNCHANGED transport
    PROVE  PostInv'
  BY DEF PostInv, TransportTypeOK, Counted, Placed, Alone, AloneSucceeds, InPost,
         transport, shared, ciphers, posting, observed

-----------------------------------------------------------------------------
(* The steps of a call *)

LEMMA InvInit == Init => Inv
<1> SUFFICES ASSUME Init PROVE Inv
  OBVIOUS
<1>1. PostInv
  BY PostsInit DEF Init
<1>2. IsFiniteSet(sem) /\ Cardinality(sem) = 0
  BY FS_EmptySet DEF Init
<1>3. TypeOK
  BY <1>1, <1>2, ShellsAssumption DEF Init, TypeOK, PostInv, Results, Steps, OutputEnded
<1>4. CallInv
  BY <1>2, Names DEF Init, TransportInit, CallInv, CallPosts, Slots, Shells, Steps
<1> QED BY <1>1, <1>3, <1>4 DEF Inv

\* The call goes on after its own post, or from a place where it has none.
LEMMA GoOnKeeps ==
    ASSUME Inv, NEW p \in Calls, NEW step, NEW Q \in SUBSET {Main(p), Output(p)},
           GoOn(p, step, Q), ~InPost(Main(p)), Output(p) \in Q => ~InPost(Output(p))
    PROVE  /\ PostInv'
           /\ \A r \in Posters :
                /\ r \in Q => post'[r] = "begin" /\ handled'[r] = 0
                /\ r \notin Q =>
                     IF r = Main(p) THEN post'[r] = "none"
                     ELSE post'[r] = post[r] /\ handled'[r] = handled[r]
           /\ pc' = [pc EXCEPT ![p] = step]
           /\ spoiled' = [spoiled EXCEPT ![p] = @ \/ Bad(p)]
           /\ Bad(p) \in BOOLEAN
           /\ UNCHANGED <<shell, stray, input, file, copies, text>>
<1>1. NextPosts({Main(p)}, Q)
  BY DEF GoOn
<1>2. PostInv'
  BY <1>1, PostsNext, Names DEF Inv
<1>3. \A r \in Posters :
         /\ r \in Q => post'[r] = "begin" /\ handled'[r] = 0
         /\ r \in {Main(p)} \ Q => post'[r] = "none"
         /\ r \notin {Main(p)} \cup Q => post'[r] = post[r] /\ handled'[r] = handled[r]
  BY <1>1, NextPostsMoves DEF Inv, PostInv
<1> QED BY <1>2, <1>3 DEF GoOn, host, Bad, Failed

\* Giving a slot back.
LEMMA ReleaseSlot ==
    ASSUME TypeOK, IsFiniteSet(sem), NEW p
    PROVE  /\ sem \ {p} \in SUBSET Calls
           /\ IsFiniteSet(sem \ {p})
           /\ Cardinality(sem \ {p}) <= MaxShells
<1>1. /\ IsFiniteSet(sem \ {p})
      /\ Cardinality(sem \ {p}) \in Nat /\ Cardinality(sem) \in Nat
      /\ Cardinality(sem \ {p}) <= Cardinality(sem)
  BY FS_RemoveElement, FS_CardinalityType
<1> QED BY <1>1, ShellsAssumption DEF TypeOK

LEMMA GoOnInv ==
    ASSUME Inv, NEW p \in Calls, NEW step \in (Steps \ {"create"}) \cup {"done"},
           NEW Q \in SUBSET {Main(p), Output(p)},
           GoOn(p, step, Q), ~InPost(Main(p)), Output(p) \in Q => ~InPost(Output(p)),
           pc[p] \in Steps,
           sem' = IF step = "done" THEN sem \ {p} ELSE sem,
           UNCHANGED status,
           command' \in [Calls -> {"stage", "run", "clean"}],
           result' \in [Calls -> Results],
           output' \in [Calls -> {"off", "polling", "stopping"} \cup OutputEnded],
           \A q \in Calls \ {p} : output'[q] = output[q],
           step \in {"join", "done"} => Main(p) \notin Q,
           step = "launch" => output'[p] = "off",
           step \in {"delete", "done"} =>
             output'[p] \notin {"polling", "stopping"},
           output'[p] \notin {"polling", "stopping"} =>
             Output(p) \notin Q /\ post[Output(p)] = "none",
           step = "delete" => Main(p) \in Q,
           step = "done" => Failed(p) \/ (pc[p] = "delete" /\ Settled(p))
    PROVE  Inv'
<1> USE Names
<1>1. /\ PostInv'
      /\ \A r \in Posters :
           /\ r \in Q => post'[r] = "begin" /\ handled'[r] = 0
           /\ r \notin Q =>
                IF r = Main(p) THEN post'[r] = "none"
                ELSE post'[r] = post[r] /\ handled'[r] = handled[r]
      /\ pc' = [pc EXCEPT ![p] = step]
      /\ spoiled' = [spoiled EXCEPT ![p] = @ \/ Bad(p)]
      /\ Bad(p) \in BOOLEAN
      /\ UNCHANGED <<shell, stray, input, file, copies, text>>
  BY GoOnKeeps, Zenon
<1>a. ASSUME NEW q \in Calls \ {p}
      PROVE  /\ pc'[q] = pc[q] /\ spoiled'[q] = spoiled[q] /\ output'[q] = output[q]
             /\ post'[Main(q)] = post[Main(q)] /\ handled'[Main(q)] = handled[Main(q)]
             /\ post'[Output(q)] = post[Output(q)]
  <2>1. Main(q) \notin {Main(p), Output(p)} /\ Output(q) \notin {Main(p), Output(p)}
    OBVIOUS
  <2>2. Main(q) \in Posters \ Q /\ Output(q) \in Posters \ Q
    BY <2>1
  <2> QED BY <1>1, <2>1, <2>2 DEF Inv, TypeOK
<1>b. /\ pc'[p] = step
      /\ Main(p) \in Q => handled'[Main(p)] = 0
      /\ Main(p) \notin Q => post'[Main(p)] = "none"
      /\ Output(p) \notin Q => post'[Output(p)] = post[Output(p)]
  BY <1>1 DEF Inv, TypeOK
<1>2. /\ sem' \in SUBSET Calls
      /\ IsFiniteSet(sem')
      /\ Cardinality(sem') <= MaxShells
  BY ReleaseSlot DEF Inv, CallInv, Slots, TypeOK
<1>3. TypeOK'
  BY <1>1, <1>2 DEF Inv, TypeOK, PostInv, Steps
<1>4. CallPosts'
  <2>1. ASSUME NEW q \in Calls \ {p}
        PROVE  (/\ pc[q] \in {"idle", "queue", "join", "done"} => post[Main(q)] = "none"
                /\ pc[q] \in {"idle", "queue", "create", "launch"} => output[q] = "off"
                /\ output[q] \notin {"polling", "stopping"} => post[Output(q)] = "none"
                /\ pc[q] \in {"delete", "done"} =>
                     output[q] \notin {"polling", "stopping"})'
    BY <1>a, <2>1 DEF Inv, CallInv, CallPosts
  <2>2. /\ step \in {"idle", "queue", "join", "done"} => post'[Main(p)] = "none"
        /\ step \in {"idle", "queue", "create", "launch"} => output'[p] = "off"
        /\ output'[p] \notin {"polling", "stopping"} => post'[Output(p)] = "none"
        /\ step \in {"delete", "done"} =>
             output'[p] \notin {"polling", "stopping"}
    BY <1>b DEF Steps
  <2>3. status' = "opening" => FALSE
    BY DEF Inv, CallInv, CallPosts, Steps
  <2> QED BY <1>b, <2>1, <2>2, <2>3 DEF CallPosts
<1>5. Slots'
  BY <1>1, <1>2 DEF Inv, CallInv, Slots, TypeOK, Steps
<1>6. Shells'
  <2> SUFFICES ASSUME NEW q \in Calls
               PROVE  (/\ pc[q] \in {"idle", "queue"} => shell[q] = "none" /\ ~stray[q]
                       /\ pc[q] = "create" => /\ stray[q] => handled[Main(q)] >= 2
                                              /\ shell[q] = "open" => handled[Main(q)] >= 1
                       /\ pc[q] \notin {"idle", "queue", "create"} => (stray[q] => spoiled[q])
                       /\ pc[q] = "delete" /\ handled[Main(q)] >= 1 => shell[q] = "deleted"
                       /\ pc[q] = "done" /\ shell[q] = "open" => spoiled[q])'
    BY DEF Shells
  <2>1. CASE q # p
    BY <1>1, <1>a, <2>1 DEF Inv, CallInv, Shells
  <2>2. CASE q = p
    <3>1. pc'[p] = step /\ (spoiled[p] \/ Bad(p) => spoiled'[p])
      BY <1>1 DEF Inv, TypeOK
    <3>2. handled[Main(p)] \in 0..2
      BY DEF Inv, TypeOK, TransportTypeOK
    <3>3. stray[p] => spoiled[p] \/ Bad(p)
      BY <3>2 DEF Inv, CallInv, Shells, Bad, Steps
    <3>4. step = "delete" => handled'[Main(p)] = 0
      BY <1>b
    <3>5. step = "done" /\ shell[p] = "open" => Bad(p)
      BY <3>2 DEF Inv, CallInv, Shells, PostInv, Counted, Bad, Failed, Settled, Ended
    <3>6. step \notin {"idle", "queue", "create"}
      BY DEF Steps
    <3>7. UNCHANGED <<shell, stray>>
      BY <1>1
    <3>8. stray[p] => spoiled'[p]
      BY <3>1, <3>3
    <3>9. step = "done" /\ shell[p] = "open" => spoiled'[p]
      BY <3>1, <3>5
    <3>10. ~(pc'[p] = "delete" /\ handled'[Main(p)] >= 1)
      BY <3>1, <3>4
    <3> QED BY <2>2, <3>1, <3>6, <3>7, <3>8, <3>9, <3>10
  <2> QED BY <2>1, <2>2
<1> QED BY <1>1, <1>3, <1>4, <1>5, <1>6 DEF Inv, CallInv

LEMMA CallStepInv ==
    ASSUME Inv, NEW p \in Calls, CallStep(p)
    PROVE  Inv'
<1> USE DEF Steps, OutputEnded, Results, Ended, InPost
<1>0. /\ TypeOK
      /\ pc[p] = "join" => post[Main(p)] = "none"
      /\ pc[p] \in {"create", "launch"} => output[p] = "off"
      /\ output[p] \notin {"polling", "stopping"} => post[Output(p)] = "none"
      /\ pc[p] \in {"delete"} => output[p] \notin {"polling", "stopping"}
  BY DEF Inv, CallInv, CallPosts
<1> USE DEF TypeOK
<1>1. CASE Created(p)
  <2>1. GoOn(p, "launch", {Main(p)}) /\ ~InPost(Main(p)) /\ pc[p] \in Steps
    BY <1>1 DEF Created, Replied, Failed, Settled
  <2> QED BY <1>1, <2>1, <1>0, GoOnInv, Names DEF Created
<1>2. CASE CreateFails(p)
  <2>1. GoOn(p, "done", {}) /\ ~InPost(Main(p)) /\ pc[p] \in Steps
    BY <1>2 DEF CreateFails, Replied, Failed, Settled
  <2>2. sem' = sem \ {p} /\ UNCHANGED <<status, command>> /\ UNCHANGED output
    BY <1>2 DEF CreateFails
  <2>3. Failed(p) \/ (pc[p] = "delete" /\ Settled(p))
    BY <1>2 DEF CreateFails, Failed, Settled
  <2>4. result' \in [Calls -> Results]
    BY <1>0, <1>2 DEF CreateFails
  <2>5. post[Output(p)] = "none"
    BY <1>2, <1>0 DEF CreateFails
  <2>6. output' \in [Calls -> {"off", "polling", "stopping"} \cup OutputEnded]
    BY <1>0, <2>2
  <2>7. output'[p] = "off"
    BY <1>0, <1>2, <2>2 DEF CreateFails
  <2> QED BY <1>0, <2>1, <2>2, <2>3, <2>4, <2>5, <2>6, <2>7, GoOnInv
<1>3. CASE Fed(p)
  <2>1. GoOn(p, "end", {Main(p)}) /\ ~InPost(Main(p)) /\ pc[p] \in Steps
    BY <1>3 DEF Fed, Replied, Failed, Settled
  <2> QED BY <1>3, <2>1, <1>0, GoOnInv, Names DEF Fed
<1>4. CASE InputEnds(p)
  <2>1. GoOn(p, "join", {}) /\ ~InPost(Main(p)) /\ pc[p] \in Steps
    BY <1>4 DEF InputEnds, Replied, Failed, Settled
  <2> QED BY <1>4, <2>1, <1>0, GoOnInv, Names DEF InputEnds
<1>5. CASE Staged(p)
  <2>1. GoOn(p, "launch", {Main(p)}) /\ ~InPost(Main(p)) /\ pc[p] \in Steps
    BY <1>5, <1>0 DEF Staged
  <2> QED BY <1>5, <2>1, <1>0, GoOnInv, Names DEF Staged
<1>6. ASSUME NEW r \in {"ok", "failed", "timeout"}, CommandOver(p, r),
             UNCHANGED <<status, sem>>, pc[p] \in {"launch", "join"}, ~InPost(Main(p)),
             output[p] \notin {"polling", "stopping"}
      PROVE  Inv'
  <2>1. /\ output' = [output EXCEPT ![p] = "off"]
        /\ result' = [result EXCEPT ![p] = r] \/ UNCHANGED result
        /\ \/ command' = [command EXCEPT ![p] = "clean"] /\ GoOn(p, "launch", {Main(p)})
           \/ UNCHANGED command /\ GoOn(p, "delete", {Main(p)})
    BY <1>6 DEF CommandOver
  <2>2. /\ output' \in [Calls -> {"off", "polling", "stopping"} \cup OutputEnded]
        /\ output'[p] = "off" /\ \A q \in Calls \ {p} : output'[q] = output[q]
    BY <1>0, <2>1
  <2>3. /\ result' \in [Calls -> Results]
        /\ command' \in [Calls -> {"stage", "run", "clean"}]
    <3>1. UNCHANGED command \/ command' = [command EXCEPT ![p] = "clean"]
      BY <2>1
    <3>2. result' \in [Calls -> Results]
      BY <1>0, <2>1
    <3> QED BY <1>0, <3>1, <3>2
  <2>4. PICK step \in {"launch", "delete"} : GoOn(p, step, {Main(p)})
    BY <2>1
  <2> QED BY <1>6, <2>2, <2>3, <2>4, <1>0, GoOnInv, Names
<1>7. CASE StageRefused(p) \/ ExitStatus(p)
  <2>1. \E r \in {"ok", "failed", "timeout"} : CommandOver(p, r)
    BY <1>7 DEF StageRefused, ExitStatus
  <2> QED BY <1>6, <1>7, <1>0, <2>1 DEF StageRefused, ExitStatus
<1>8. CASE LaunchFails(p) \/ CommandFails(p)
  <2>1. \E r \in {"ok", "failed", "timeout"} : CommandOver(p, r)
    BY <1>8 DEF LaunchFails, CommandFails
  <2> QED BY <1>6, <1>8, <1>0, <2>1 DEF LaunchFails, CommandFails, Failed
<1>9. CASE Deleted(p)
  <2>1. GoOn(p, "done", {}) /\ ~InPost(Main(p)) /\ pc[p] \in Steps
    BY <1>9 DEF Deleted, Replied, Failed, Settled
  <2>2. sem' = sem \ {p} /\ UNCHANGED <<status, command, output, result>>
    BY <1>9 DEF Deleted
  <2>3. Failed(p) \/ (pc[p] = "delete" /\ Settled(p))
    BY <1>9 DEF Deleted
  <2>4. output'[p] \notin {"polling", "stopping"} /\ post[Output(p)] = "none"
    BY <1>9, <1>0, <2>2 DEF Deleted
  <2> QED BY <1>0, <2>1, <2>2, <2>3, <2>4, GoOnInv
<1>10. CASE Launched(p)
  <2>1. ~InPost(Main(p)) /\ pc[p] \in Steps /\ ~InPost(Output(p))
    BY <1>10, <1>0 DEF Launched, Replied
  <2>2. CASE GoOn(p, "feed", {Main(p), Output(p)})
    BY <1>10, <2>1, <2>2, <1>0, GoOnInv DEF Launched
  <2>3. CASE GoOn(p, "join", {Output(p)})
    BY <1>10, <2>1, <2>3, <1>0, GoOnInv, Names DEF Launched
  <2> QED BY <1>10, <2>2, <2>3 DEF Launched
<1> QED
  BY <1>1, <1>2, <1>3, <1>4, <1>5, <1>7, <1>8, <1>9, <1>10 DEF CallStep

LEMMA OutputGoesOnInv ==
    ASSUME Inv, NEW p \in Calls,
           NEW to \in {"polling", "stopping"} \cup OutputEnded,
           NEW Q \in SUBSET {Output(p)},
           OutputGoesOn(p, to, Q), ~InPost(Output(p)),
           output[p] \in {"polling", "stopping"},
           to \notin {"polling", "stopping"} => Q = {}
    PROVE  Inv'
<1> USE Names
<1>1. /\ NextPosts({Output(p)}, Q)
      /\ output' = [output EXCEPT ![p] = to]
      /\ UNCHANGED <<status, sem, pc, command, result, spoiled, shell, stray, input, file,
                     copies, text>>
  BY DEF OutputGoesOn, host
<1>2. PostInv'
  BY <1>1, PostsNext DEF Inv
<1>3. \A r \in Posters : r # Output(p) => post'[r] = post[r] /\ handled'[r] = handled[r]
  BY <1>1, NextPostsMoves DEF Inv, PostInv
<1>4. Q = {} => post'[Output(p)] = "none"
  BY <1>1, NextPostsMoves DEF Inv, PostInv
<1>5. TypeOK'
  BY <1>1, <1>2 DEF Inv, TypeOK, PostInv, OutputEnded
<1>6. \A q \in Calls :
        /\ post'[Main(q)] = post[Main(q)] /\ handled'[Main(q)] = handled[Main(q)]
        /\ q # p => output'[q] = output[q] /\ post'[Output(q)] = post[Output(q)]
  BY <1>1, <1>3 DEF Inv, TypeOK
<1>7. output'[p] = to
  BY <1>1 DEF Inv, TypeOK
<1>8. CallPosts'
  <2>1. pc[p] \notin {"idle", "queue", "create", "launch", "delete", "done"}
    BY DEF Inv, CallInv, CallPosts
  <2> QED BY <1>1, <1>4, <1>6, <1>7, <2>1 DEF Inv, CallInv, CallPosts
<1>9. Slots' /\ Shells'
  BY <1>1, <1>6 DEF Inv, CallInv, Slots, Shells
<1> QED BY <1>2, <1>5, <1>8, <1>9 DEF Inv, CallInv

LEMMA OutputStepInv ==
    ASSUME Inv, NEW p \in Calls, OutputStep(p)
    PROVE  Inv'
<1>1. CASE PollAgain(p)
  <2>1. OutputGoesOn(p, "polling", {Output(p)}) /\ ~InPost(Output(p)) /\ output[p] \in {"polling", "stopping"}
    BY <1>1 DEF PollAgain, Polls, InPost, Ended
  <2> QED BY <2>1, OutputGoesOnInv DEF OutputEnded
<1>2. CASE PollEnds(p)
  <2>1. OutputGoesOn(p, "finished", {}) /\ ~InPost(Output(p)) /\ output[p] \in {"polling", "stopping"}
    BY <1>2 DEF PollEnds, Polls, InPost, Ended
  <2> QED BY <2>1, OutputGoesOnInv DEF OutputEnded
<1>3. CASE PollFails(p)
  <2>1. OutputGoesOn(p, "broken", {}) /\ ~InPost(Output(p)) /\ output[p] \in {"polling", "stopping"}
    BY <1>3 DEF PollFails, Polls, InPost, Ended
  <2> QED BY <2>1, OutputGoesOnInv DEF OutputEnded
<1>4. CASE ContextEnds(p)
  <2>1. OutputGoesOn(p, "stopping", {Output(p)}) /\ ~InPost(Output(p)) /\ output[p] \in {"polling", "stopping"}
    BY <1>4 DEF ContextEnds, Polls, InPost, Ended
  <2> QED BY <2>1, OutputGoesOnInv DEF OutputEnded
<1>5. CASE Stopped(p)
  <2>1. OutputGoesOn(p, "stopped", {}) /\ ~InPost(Output(p)) /\ output[p] \in {"polling", "stopping"}
    BY <1>5 DEF Stopped, Polls, InPost, Ended
  <2> QED BY <2>1, OutputGoesOnInv DEF OutputEnded
<1> QED BY <1>1, <1>2, <1>3, <1>4, <1>5 DEF OutputStep

\* Beginning a call.
LEMMA BeginInv ==
    ASSUME Inv, NEW p \in Calls, Invoke(p) \/ AcquireShell(p) \/ CancelQueued(p)
    PROVE  Inv'
<1> USE Names
<1>1. CASE Invoke(p) \/ CancelQueued(p)
  <2>1. PostInv' /\ UNCHANGED <<post, handled>>
    BY <1>1, PostsUnchanged DEF Inv, Invoke, CancelQueued, transport, posting, observed
  <2>2. /\ (pc[p] \in {"idle", "queue"} /\ status # "opening") \/ pc[p] = "queue"
        /\ UNCHANGED <<status, sem, command, output, spoiled, shell, stray, input, file,
                       copies, text>>
    BY <1>1 DEF Invoke, CancelQueued, host
  <2>3. PICK to \in {"queue", "done"} : pc' = [pc EXCEPT ![p] = to]
    BY <1>1 DEF Invoke, CancelQueued
  <2>a. result' \in [Calls -> Results]
    BY <1>1 DEF Inv, TypeOK, Invoke, CancelQueued, Results
  <2>4. TypeOK'
    BY <2>1, <2>2, <2>3, <2>a DEF Inv, TypeOK, PostInv
  <2>5. CallPosts'
    BY <2>1, <2>2, <2>3 DEF Inv, CallInv, CallPosts, TypeOK
  <2>6. Slots' /\ Shells'
    BY <2>1, <2>2, <2>3 DEF Inv, CallInv, Slots, Shells, TypeOK, Steps
  <2> QED BY <2>1, <2>4, <2>5, <2>6 DEF Inv, CallInv
<1>2. CASE AcquireShell(p)
  <2>1. /\ NextPosts({}, {Main(p)})
        /\ pc[p] = "queue" /\ pc' = [pc EXCEPT ![p] = "create"]
        /\ sem' = sem \cup {p} /\ Cardinality(sem) < MaxShells
        /\ UNCHANGED <<status, command, output, result, spoiled, shell, stray, input, file,
                       copies, text>>
    BY <1>2 DEF AcquireShell, host
  <2>2. ~InPost(Main(p))
    BY <2>1 DEF Inv, CallInv, CallPosts, InPost
  <2>3. PostInv'
    BY <2>1, <2>2, PostsNext DEF Inv
  <2>4. \A r \in Posters : r # Main(p) => post'[r] = post[r] /\ handled'[r] = handled[r]
    BY <2>1, NextPostsMoves DEF Inv, PostInv
  <2>5. IsFiniteSet(sem') /\ Cardinality(sem') <= MaxShells
    <3>1. /\ IsFiniteSet(sem) /\ Cardinality(sem) \in Nat
          /\ IsFiniteSet(sem \cup {p})
          /\ Cardinality(sem \cup {p}) \in {Cardinality(sem), Cardinality(sem) + 1}
      BY FS_AddElement, FS_CardinalityType DEF Inv, CallInv, Slots
    <3> QED BY <2>1, <3>1, ShellsAssumption
  <2>6. TypeOK'
    BY <2>1, <2>3, <2>5 DEF Inv, TypeOK, PostInv, Steps
  <2>7. \A q \in Calls : /\ post'[Output(q)] = post[Output(q)]
                         /\ q # p => /\ post'[Main(q)] = post[Main(q)] /\ pc'[q] = pc[q]
                                     /\ handled'[Main(q)] = handled[Main(q)]
    BY <2>1, <2>4 DEF Inv, TypeOK
  <2>8. pc'[p] = "create"
    BY <2>1 DEF Inv, TypeOK
  <2>9. CallPosts'
    BY <2>1, <2>7, <2>8 DEF Inv, CallInv, CallPosts
  <2>10. Slots' /\ Shells'
    BY <2>1, <2>5, <2>7, <2>8 DEF Inv, CallInv, Slots, Shells, Steps
  <2> QED BY <2>3, <2>6, <2>9, <2>10 DEF Inv, CallInv
<1> QED BY <1>1, <1>2

-----------------------------------------------------------------------------
(* Posts that reach the host, and the rest *)

LEMMA MainPostInv ==
    ASSUME Inv, NEW p \in Calls, MainPost(p)
    PROVE  Inv'
<1> USE Names
<1>1. HandledStep(Main(p)) /\ HostHandles(p)
  BY DEF MainPost
<1>2. UNCHANGED <<status, sem, pc, command, output, result, spoiled>>
  BY DEF MainPost, calls
<1>3. PostInv'
  BY <1>1, PostsStep DEF Inv
<1>4. /\ InPost(Main(p)) /\ post'[Main(p)] # "none"
      /\ \A r \in Posters \ {Main(p)} : post'[r] = post[r]
      /\ handled' = [handled EXCEPT ![Main(p)] = @ + 1]
  BY <1>1, HandledMoves DEF Inv, PostInv
<1>5. handled[Main(p)] \in 0..2 /\ handled'[Main(p)] = handled[Main(p)] + 1
  BY <1>4 DEF Inv, TypeOK, TransportTypeOK
<1>6. /\ shell' \in [Calls -> {"none", "open", "deleted"}]
      /\ stray' \in [Calls -> BOOLEAN]
      /\ input' \in [Calls -> 0..2]
      /\ file' \in [Calls -> {"none", "empty", "whole", "double"}]
      /\ copies' \in [Calls -> [1..2 -> {"none", "running", "finished"}]]
      /\ text' \in [Calls -> {"none", "whole", "other"}]
  <2> USE DEF Inv, TypeOK
  <2>1. CASE HostCreates(p)
    BY <2>1 DEF HostCreates
  <2>2. CASE HostRuns(p)
    <3>1. PICK i \in 1..2 : copies' = [copies EXCEPT ![p][i] = "running"]
      <4> DEFINE first == IF copies[p][1] = "none" THEN 1 ELSE 2
      <4>1. first \in 1..2 /\ copies' = [copies EXCEPT ![p][first] = "running"]
        BY <2>2 DEF HostRuns
      <4> QED BY <4>1
    <3>2. PICK t \in {"whole", "other"} : text' = [text EXCEPT ![p] = t]
      BY <2>2 DEF HostRuns
    <3>3. UNCHANGED <<shell, stray, input, file>>
      BY <2>2 DEF HostRuns
    <3> QED BY <3>1, <3>2, <3>3
  <2>3. CASE HostReadsInput(p)
    BY <2>3 DEF HostReadsInput
  <2>4. CASE HostWritesFile(p)
    <3>1. PICK f \in {"none", "empty", "whole", "double"} : file' = [file EXCEPT ![p] = f]
      <4> DEFINE written == CASE input[p] = 0 -> "empty"
                              [] input[p] = 1 -> "whole"
                              [] input[p] = 2 -> "double"
                 contents == IF file[p] # "none" THEN file[p] ELSE written
      <4>1. input[p] \in 0..2 /\ file[p] \in {"none", "empty", "whole", "double"}
        OBVIOUS
      <4>2. contents \in {"none", "empty", "whole", "double"}
        BY <4>1
      <4>3. file' = [file EXCEPT ![p] = contents]
        BY <2>4 DEF HostWritesFile
      <4> QED BY <4>2, <4>3
    <3>2. UNCHANGED <<shell, stray, input, copies, text>>
      BY <2>4 DEF HostWritesFile
    <3> QED BY <3>1, <3>2
  <2>5. CASE HostRemovesFile(p)
    BY <2>5 DEF HostRemovesFile
  <2>6. CASE HostDeletes(p)
    BY <2>6 DEF HostDeletes
  <2>7. CASE UNCHANGED host
    BY <2>7 DEF host
  <2> QED BY <1>1, <2>1, <2>2, <2>3, <2>4, <2>5, <2>6, <2>7 DEF HostHandles
<1>7. TypeOK'
  BY <1>2, <1>3, <1>6 DEF Inv, TypeOK, PostInv
<1>8. CallPosts'
  BY <1>2, <1>4 DEF Inv, CallInv, CallPosts, InPost
<1>9. Slots'
  BY <1>2 DEF Inv, CallInv, Slots
<1>10. \A q \in Calls \ {p} : /\ shell'[q] = shell[q] /\ stray'[q] = stray[q]
                              /\ handled'[Main(q)] = handled[Main(q)]
  <2>1. CASE pc[p] = "create"
    BY <1>1, <1>4, <2>1 DEF HostHandles, HostCreates, Inv, TypeOK, TransportTypeOK
  <2>2. CASE pc[p] = "delete"
    BY <1>1, <1>4, <2>2 DEF HostHandles, HostDeletes, Inv, TypeOK, TransportTypeOK
  <2>3. CASE pc[p] \notin {"create", "delete"}
    <3>1. UNCHANGED <<shell, stray>>
      BY <1>1, <2>3 DEF HostHandles, HostRuns, HostReadsInput, HostWritesFile,
                        HostRemovesFile, host
    <3> QED BY <1>4, <3>1 DEF Inv, TypeOK, TransportTypeOK
  <2> QED BY <2>1, <2>2, <2>3
<1>11. /\ pc[p] \notin {"idle", "queue", "join", "done"}
       /\ pc[p] = "create" => /\ stray'[p] => handled'[Main(p)] >= 2
                              /\ handled'[Main(p)] >= 1
       /\ pc[p] \notin {"idle", "queue", "create"} => (stray'[p] => spoiled'[p])
       /\ pc[p] = "delete" => shell'[p] = "deleted"
  <2>1. pc[p] \notin {"idle", "queue", "join", "done"}
    BY <1>4 DEF Inv, CallInv, CallPosts, InPost
  <2>2. CASE pc[p] = "create"
    <3>1. stray'[p] => shell[p] = "open"
      BY <1>1, <2>2 DEF HostHandles, HostCreates, Inv, TypeOK
    <3>2. shell[p] = "open" => handled[Main(p)] >= 1
      BY <2>2 DEF Inv, CallInv, Shells
    <3> QED BY <1>5, <2>2, <3>1, <3>2
  <2>3. CASE pc[p] = "delete"
    <3>1. shell'[p] = "deleted" /\ UNCHANGED stray
      BY <1>1, <2>3 DEF HostHandles, HostDeletes, Inv, TypeOK
    <3> QED BY <1>2, <2>3, <3>1 DEF Inv, CallInv, Shells
  <2>4. CASE pc[p] \notin {"create", "delete"}
    <3>1. UNCHANGED stray
      BY <1>1, <2>4 DEF HostHandles, HostRuns, HostReadsInput, HostWritesFile,
                        HostRemovesFile, host
    <3> QED BY <1>2, <2>1, <2>4, <3>1 DEF Inv, CallInv, Shells
  <2> QED BY <2>2, <2>3, <2>4
<1>12. Shells'
  BY <1>2, <1>10, <1>11 DEF Inv, CallInv, Shells
<1> QED BY <1>3, <1>7, <1>8, <1>9, <1>12 DEF Inv, CallInv

\* Steps that leave the calls and their shells alone.
LEMMA QuietInv ==
    ASSUME Inv, UNCHANGED calls, UNCHANGED <<shell, stray>>, TypeOK', PostInv',
           \A p \in Calls : handled'[Main(p)] = handled[Main(p)],
           \A r \in Posters : post[r] = "none" => post'[r] = "none"
    PROVE  Inv'
<1>1. CallPosts'
  BY Names DEF Inv, CallInv, CallPosts, calls
<1>2. Slots' /\ Shells'
  BY Names DEF Inv, CallInv, Slots, Shells, calls
<1> QED BY <1>1, <1>2 DEF Inv, CallInv

LEMMA TransportStepInv ==
    ASSUME Inv, \/ \E p \in Calls : OutputPost(p)
                \/ \E q \in Posters : Posting(q)
                \/ Network
    PROVE  Inv'
<1> USE Names
<1>1. UNCHANGED <<calls, host>>
  BY DEF OutputPost, Posting, Network
<1>2. ASSUME PostInv' PROVE TypeOK'
  BY <1>1, <1>2 DEF Inv, TypeOK, PostInv, calls, host
<1>3. ASSUME NEW p \in Calls, OutputPost(p) PROVE Inv'
  <2>1. HandledStep(Output(p))
    BY <1>3 DEF OutputPost
  <2>2. PostInv'
    BY <2>1, PostsStep DEF Inv
  <2>3. /\ InPost(Output(p)) /\ \A r \in Posters \ {Output(p)} : post'[r] = post[r]
        /\ handled' = [handled EXCEPT ![Output(p)] = @ + 1]
    BY <2>1, HandledMoves DEF Inv, PostInv
  <2>4. \A c \in Calls : handled'[Main(c)] = handled[Main(c)]
    BY <2>3 DEF Inv, TypeOK, TransportTypeOK
  <2>5. \A r \in Posters : post[r] = "none" => post'[r] = "none"
    BY <2>3 DEF InPost
  <2> QED BY <1>1, <1>2, <2>2, <2>4, <2>5, QuietInv DEF host
<1>4. ASSUME NEW q \in Posters, Posting(q) PROVE Inv'
  <2>1. PostStep(q)
    BY <1>4 DEF Posting
  <2>2. PostInv'
    BY <2>1, PostsStep DEF Inv
  <2>3. /\ InPost(q) /\ \A r \in Posters \ {q} : post'[r] = post[r]
        /\ UNCHANGED handled
    BY <2>1, PostMoves DEF Inv, PostInv
  <2>4. \A r \in Posters : post[r] = "none" => post'[r] = "none"
    BY <2>3 DEF InPost
  <2> QED BY <1>1, <1>2, <2>2, <2>3, <2>4, QuietInv DEF host
<1>5. CASE Network
  <2>1. NetworkStep
    BY <1>5 DEF Network
  <2>2. PostInv'
    BY <2>1, PostsNetwork DEF Inv
  <2>3. /\ \A r \in Posters : post'[r] = post[r] \/ InPost(r)
        /\ UNCHANGED handled
    BY <2>1, NetworkMoves DEF Inv, PostInv
  <2>4. \A r \in Posters : post[r] = "none" => post'[r] = "none"
    BY <2>3 DEF InPost
  <2> QED BY <1>1, <1>2, <2>2, <2>3, <2>4, QuietInv DEF host
<1> QED BY <1>3, <1>4, <1>5

LEMMA ScriptEndsInv ==
    ASSUME Inv, NEW p \in Calls, ScriptEnds(p)
    PROVE  Inv'
<1>1. PICK i \in 1..2 : copies' = [copies EXCEPT ![p][i] = "finished"]
  BY DEF ScriptEnds
<1>2. UNCHANGED <<transport, calls, shell, stray, input, file, text>>
  BY DEF ScriptEnds
<1>3. PostInv'
  BY <1>2, PostsUnchanged DEF Inv
<1>4. TypeOK'
  BY <1>1, <1>2, <1>3 DEF Inv, TypeOK, PostInv, calls
<1> QED BY <1>2, <1>3, <1>4, QuietInv DEF transport, posting, observed

LEMMA OpeningInv ==
    ASSUME Inv, OpenSucceeds \/ OpenFails \/ Close
    PROVE  Inv'
<1> USE Names
<1>1. /\ status' \in {"open", "closed"}
      /\ UNCHANGED <<post, handled, sem, pc, command, output, result, spoiled,
                     shell, stray, input, file, copies, text>>
  BY DEF OpenSucceeds, OpenFails, Close, transport, posting, observed, host
<1>2. PostInv'
  <2>1. CASE OpenSucceeds
    <3>1. \A r \in Posters : post[r] = "none"
      <4>1. \A p \in Calls : post[Main(p)] = "none" /\ post[Output(p)] = "none"
        BY <2>1 DEF OpenSucceeds, Inv, CallInv, CallPosts
      <4> QED BY <4>1
    <3>2. /\ session' \in Conns /\ idle' = {session'}
          /\ UNCHANGED <<injected, sealed, replies, post, attempt, keys, using, fresh,
                         handled, disturbed, faults>>
      BY <2>1 DEF OpenSucceeds, ciphers, posting, observed
    <3>3. TransportTypeOK'
      BY <3>2 DEF Inv, PostInv, TransportTypeOK
    <3>4. Counted' /\ Placed'
      BY <3>2 DEF Inv, PostInv, Counted, Placed, InPost
    <3>5. Alone' /\ AloneSucceeds'
      BY <3>1, <3>2 DEF Alone, AloneSucceeds, InPost
    <3> QED BY <3>3, <3>4, <3>5 DEF PostInv
  <2>2. CASE OpenFails \/ Close
    BY <2>2, PostsUnchanged DEF OpenFails, Close, Inv
  <2> QED BY <2>1, <2>2
<1>3. TypeOK'
  BY <1>1, <1>2 DEF Inv, TypeOK, PostInv
<1>4. CallPosts' /\ Slots' /\ Shells'
  BY <1>1 DEF Inv, CallInv, CallPosts, Slots, Shells
<1> QED BY <1>2, <1>3, <1>4 DEF Inv, CallInv

-----------------------------------------------------------------------------
(* The theorems *)

LEMMA InvStep == Inv /\ [Next]_vars => Inv'
<1> SUFFICES ASSUME Inv, [Next]_vars PROVE Inv'
  OBVIOUS
<1>1. CASE UNCHANGED vars
  <2>1. UNCHANGED <<transport, calls, host>>
    BY <1>1 DEF vars
  <2>2. PostInv'
    BY <2>1, PostsUnchanged DEF Inv
  <2>3. TypeOK'
    BY <2>1, <2>2 DEF Inv, TypeOK, PostInv, calls, host
  <2> QED BY <2>1, <2>2, <2>3, QuietInv DEF transport, posting, observed, host
<1>2. CASE OpenSucceeds \/ OpenFails \/ Close
  BY <1>2, OpeningInv
<1>3. ASSUME NEW p \in Calls, Invoke(p) \/ AcquireShell(p) \/ CancelQueued(p)
      PROVE  Inv'
  BY <1>3, BeginInv
<1>4. ASSUME NEW p \in Calls, CallStep(p) PROVE Inv'
  BY <1>4, CallStepInv
<1>5. ASSUME NEW p \in Calls, OutputStep(p) PROVE Inv'
  BY <1>5, OutputStepInv
<1>6. ASSUME NEW p \in Calls, MainPost(p) PROVE Inv'
  BY <1>6, MainPostInv
<1>7. CASE (\E p \in Calls : OutputPost(p)) \/ (\E q \in Posters : Posting(q)) \/ Network
  BY <1>7, TransportStepInv
<1>8. ASSUME NEW p \in Calls, ScriptEnds(p) PROVE Inv'
  BY <1>8, ScriptEndsInv
<1> QED BY <1>1, <1>2, <1>3, <1>4, <1>5, <1>6, <1>7, <1>8 DEF Next

\* The invariant that the others follow from (the transport's posts and the
\* calls of runScriptOnClient together).
THEOREM Invariance == Spec => []Inv
  BY InvInit, InvStep, PTL DEF Spec

\* Every variable keeps its type; never more than MaxShells calls have a slot
\* (acquireShell), and no message is handled more than twice (Post).
THEOREM TypeCorrect == Spec => []TypeOK
<1>1. Inv => TypeOK
  BY DEF Inv
<1> QED BY <1>1, Invariance, PTL

\* A post that no other one overlaps and the network does not fail succeeds,
\* whatever earlier posts left behind (Post, postOnce, invalidateSession).
THEOREM AlonePostsSucceed == Spec => []AloneSucceeds
<1>1. Inv => AloneSucceeds
  BY DEF Inv, PostInv
<1> QED BY <1>1, Invariance, PTL

\* Only a post that failed or was handled twice leaves a shell on the host
\* after the call gave its slot back (runScriptOnClient, releaseShell).
THEOREM ShellsStayWithSlots == Spec => []ShellsHaveSlots
<1>1. Inv => ShellsHaveSlots
  <2> SUFFICES ASSUME Inv, NEW p \in Calls \ sem, shell[p] = "open" \/ stray[p]
               PROVE  spoiled[p]
    BY DEF ShellsHaveSlots
  <2>1. pc[p] \in {"idle", "queue", "done"}
    BY DEF Inv, TypeOK, CallInv, Slots
  <2> QED BY <2>1 DEF Inv, CallInv, Shells
<1> QED BY <1>1, Invariance, PTL

=============================================================================
