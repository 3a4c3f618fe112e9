--------------------------- MODULE NtlmTransport ---------------------------
(***************************************************************************)
(* How the WinRM backend sends a WS-Management message:                    *)
(* ntlmEncryptionTransporter.Post in internal/connection/winrm.go.  Posts  *)
(* of concurrent callers share one authenticated session, whose messages   *)
(* and replies are sealed with running ciphers and so have an order, and   *)
(* an HTTP client that keeps connections.  A post that fails drops what is *)
(* shared and tries once more.                                             *)
(*                                                                         *)
(* The host authenticates a connection, not a message: a session is good   *)
(* on the connection of its own handshake only, and both have one name     *)
(* here.  The host refuses what comes on a Plain connection: one that the  *)
(* HTTP client dialled by itself, or whose session nobody has any more.    *)
(* bodgit/ntlmssp and net/http are modelled from how the code uses them.   *)
(*                                                                         *)
(* An operator named Mut... is a wrong version of the one below it.        *)
(***************************************************************************)
EXTENDS Naturals, Sequences, FiniteSets

CONSTANTS
    Posters,    \* the goroutines that post
    Conns,      \* names for authenticated connections and their sessions;
                \* one that nothing refers to any more is used again
    Plain,      \* a connection without authentication
    None,       \* Go's nil
    MaxFaults   \* bound: how often the network fails

ASSUME FaultsAssumption == MaxFaults \in Nat

VARIABLES
    session,    \* t.session; None when not t.sessionReady
    injected,   \* t.injectedConn
    idle,       \* the idle connections of t.httpTransport
    post,       \* where each goroutine is in Post
    attempt,    \* which postOnce it is in
    keys,       \* the session its message is sealed with
    using,      \* the connection its request is on
    fresh,      \* its httpClient is still the transporter's
    sealed,     \* per session: messages sealed and not yet met by the host
    replies,    \* per session: replies sealed by the host and not yet opened
    handled,    \* how often the host has handled the message
    disturbed,  \* the network failed the post, or another post overlapped it
    faults      \* the network's failures so far, at most MaxFaults

shared == <<session, injected, idle>>
ciphers == <<sealed, replies>>
posting == <<post, attempt, keys, using, fresh>>
observed == <<handled, disturbed, faults>>
transport == <<shared, ciphers, posting, observed>>

Ended == {"ok", "error"}

InPost(p) == post[p] \notin {"none"} \cup Ended

\* A sealed message that will never meet the host in its turn, or a reply
\* nobody opens in its turn, leaves a gap that nothing later passes.
Gap == None

TransportTypeOK ==
    /\ session \in Conns \cup {None}
    /\ injected \in Conns \cup {None}
    /\ idle \subseteq Conns \cup {Plain}
    /\ post \in [Posters -> {"none", "begin", "handshake", "promote", "sealed",
                             "asked", "refused", "read", "failed"} \cup Ended]
    /\ attempt \in [Posters -> 1..2]
    /\ keys \in [Posters -> Conns \cup {None}]
    /\ using \in [Posters -> Conns \cup {Plain, None}]
    /\ fresh \in [Posters -> BOOLEAN]
    /\ sealed \in [Conns -> Seq(Posters \cup {Gap})]
    /\ replies \in [Conns -> Seq(Posters \cup {Gap})]
    /\ handled \in [Posters -> 0..2]
    /\ disturbed \in [Posters -> BOOLEAN]
    /\ faults \in 0..MaxFaults

TransportInit ==
    /\ session = None
    /\ injected = None
    /\ idle = {}
    /\ post = [p \in Posters |-> "none"]
    /\ attempt = [p \in Posters |-> 1]
    /\ keys = [p \in Posters |-> None]
    /\ using = [p \in Posters |-> None]
    /\ fresh = [p \in Posters |-> FALSE]
    /\ sealed = [c \in Conns |-> <<>>]
    /\ replies = [c \in Conns |-> <<>>]
    /\ handled = [p \in Posters |-> 0]
    /\ disturbed = [p \in Posters |-> FALSE]
    /\ faults = 0

-----------------------------------------------------------------------------
(* The order of sealed messages *)

IsNext(p, turns) == turns # <<>> /\ Head(turns) = p

Joins(p, turns) == IF turns # <<>> /\ turns[Len(turns)] = Gap
                     THEN turns ELSE Append(turns, p)

\* p's turn passes unused.
Misses(p, turns) ==
    IF \E i \in DOMAIN turns : turns[i] = p
      THEN LET i == CHOOSE i \in DOMAIN turns : turns[i] = p
           IN  Append(SubSeq(turns, 1, i - 1), Gap)
      ELSE turns

\* The sessions somebody may still seal or open with.
Known == {session} \cup {keys[p] : p \in Posters}

\* The rest is forgotten, and a connection of theirs is as good as Plain.
Forget(turns) == [c \in Conns |-> IF c \in Known' THEN turns[c] ELSE <<>>]

Pool(S) == {IF c \in Known' THEN c ELSE Plain : c \in S}

Fault == faults < MaxFaults /\ faults' = faults + 1

-----------------------------------------------------------------------------
(* Post *)

\* Goroutines take the outcomes of the posts in `over' and call Post for those
\* in P; whose posts overlap is noted for both.
NextPosts(over, P) ==
    /\ post' = [p \in Posters |-> IF p \in P THEN "begin"
                                  ELSE IF p \in over THEN "none" ELSE post[p]]
    /\ handled' = [p \in Posters |-> IF p \in over \cup P THEN 0 ELSE handled[p]]
    /\ LET others == {q \in Posters \ P : InPost(q)}
       IN  disturbed' = [p \in Posters |->
             CASE p \in P -> others # {} \/ P # {p}
               [] p \in others -> disturbed[p] \/ P # {}
               [] OTHER -> disturbed[p] /\ p \notin over]
    /\ UNCHANGED <<shared, ciphers, attempt, keys, using, fresh, faults>>

\* postOnce finds no session and takes the slow path.
TakeSlowPath(p) ==
    /\ post[p] = "begin"
    /\ session = None
    /\ post' = [post EXCEPT ![p] = "handshake"]
    /\ UNCHANGED <<shared, ciphers, attempt, keys, using, fresh, observed>>

\* postOnce takes the session and the client under t.mu, and seals.
TakeFastPath(p) ==
    /\ post[p] = "begin"
    /\ session # None
    /\ keys' = [keys EXCEPT ![p] = session]
    /\ fresh' = [fresh EXCEPT ![p] = TRUE]
    /\ sealed' = [sealed EXCEPT ![session] = Joins(p, @)]
    /\ post' = [post EXCEPT ![p] = "sealed"]
    /\ UNCHANGED <<shared, replies, attempt, using, observed>>

\* The slow path's own connection: challenge, authentication, and the
\* message sealed with the new session, which the host handles.
Handshake(p) ==
    /\ post[p] = "handshake"
    /\ LET unused == Conns \ (Known \cup {using[q] : q \in Posters})
           c == CHOOSE c \in unused : TRUE
       IN  /\ unused # {}
           /\ keys' = [keys EXCEPT ![p] = c]
           /\ using' = [using EXCEPT ![p] = c]
           /\ sealed' = [sealed EXCEPT ![c] = <<>>]
           /\ replies' = [replies EXCEPT ![c] = <<>>]
    /\ handled' = [handled EXCEPT ![p] = @ + 1]
    /\ post' = [post EXCEPT ![p] = "promote"]
    /\ UNCHANGED <<shared, attempt, fresh, disturbed, faults>>

\* The reply came and its connection and session become the shared ones; a
\* connection that was waiting to be taken is closed.
Promote(p) ==
    /\ post[p] = "promote"
    /\ injected' = using[p]
    /\ session' = keys[p]
    /\ keys' = [keys EXCEPT ![p] = None]
    /\ using' = [using EXCEPT ![p] = None]
    /\ attempt' = [attempt EXCEPT ![p] = 1]
    /\ post' = [post EXCEPT ![p] = "ok"]
    /\ UNCHANGED <<fresh, observed>>
    /\ idle' = Pool(idle)
    /\ sealed' = Forget(sealed)
    /\ replies' = Forget(replies)

\* http.Client prefers an idle connection of its own; DialContext hands out
\* the injected one, once, to whichever client dials first.
Reach(p) ==
    CASE fresh[p] /\ idle # {} -> idle
      [] injected # None -> {injected}
      [] OTHER -> {Plain}

\* Plain stands for any number of idle connections.
Takes(p, c) ==
    /\ \/ idle' = IF fresh[p] THEN idle \ {c} ELSE idle
       \/ c = Plain /\ idle' = idle
    /\ injected' = IF c = injected THEN None ELSE injected

Accepts(p, c) == c = keys[p] /\ IsNext(p, sealed[c])

\* The request goes out on the session's own connection and in its turn: the
\* host handles it and seals a reply.
AskAccepted(p) ==
    /\ post[p] = "sealed"
    /\ \E c \in Reach(p) :
         /\ Accepts(p, c)
         /\ Takes(p, c)
         /\ using' = [using EXCEPT ![p] = c]
         /\ sealed' = [sealed EXCEPT ![c] = Tail(@)]
         /\ replies' = [replies EXCEPT ![c] = Joins(p, @)]
    /\ handled' = [handled EXCEPT ![p] = @ + 1]
    /\ post' = [post EXCEPT ![p] = "asked"]
    /\ UNCHANGED <<session, attempt, keys, fresh, disturbed, faults>>

\* On another connection the host refuses it; out of its turn, too, and
\* then its cipher no longer follows the session's.
AskRefused(p) ==
    /\ post[p] = "sealed"
    /\ \E c \in Reach(p) :
         /\ ~Accepts(p, c)
         /\ Takes(p, c)
         /\ using' = [using EXCEPT ![p] = c]
         /\ sealed' = [sealed EXCEPT ![keys[p]] =
                         IF c = keys[p] THEN <<Gap>> ELSE Misses(p, @)]
    /\ post' = [post EXCEPT ![p] = "refused"]
    /\ UNCHANGED <<session, replies, attempt, keys, fresh, observed>>

\* The reply is read to its end, which puts the connection back among the
\* idle ones; those of a client that was dropped are of no further use.
ReadReply(p) ==
    /\ post[p] \in {"asked", "refused"}
    /\ using' = [using EXCEPT ![p] = None]
    /\ fresh' = [fresh EXCEPT ![p] = FALSE]
    /\ post' = [post EXCEPT ![p] = IF @ = "asked" THEN "read" ELSE "failed"]
    /\ UNCHANGED <<session, injected, ciphers, attempt, keys, observed>>
    /\ idle' = IF fresh[p] THEN Pool(idle \cup {using[p]}) ELSE idle

\* The reply is opened in its turn, or cannot be.
OpenReply(p) ==
    /\ post[p] = "read"
    /\ UNCHANGED <<session, injected, using, fresh, observed>>
    /\ IF IsNext(p, replies[keys[p]])
         THEN /\ post' = [post EXCEPT ![p] = "ok"]
              /\ attempt' = [attempt EXCEPT ![p] = 1]
              /\ keys' = [keys EXCEPT ![p] = None]
              /\ sealed' = Forget(sealed)
              /\ replies' = Forget([replies EXCEPT ![keys[p]] = Tail(@)])
         ELSE /\ post' = [post EXCEPT ![p] = "failed"]
              /\ replies' = [replies EXCEPT ![keys[p]] = <<Gap>>]
              /\ UNCHANGED <<sealed, attempt, keys>>
    /\ idle' = Pool(idle)

MutRetryUnbounded(p) ==
    /\ post[p] = "failed"
    /\ session' = None
    /\ injected' = None
    /\ idle' = {}
    /\ fresh' = [q \in Posters |-> FALSE]
    /\ attempt' = [attempt EXCEPT ![p] = @ + 1]
    /\ keys' = [keys EXCEPT ![p] = None]
    /\ post' = [post EXCEPT ![p] = "begin"]
    /\ sealed' = Forget(sealed)
    /\ replies' = Forget(replies)
    /\ UNCHANGED <<using, observed>>

MutRetryKeepsSession(p) ==
    /\ post[p] = "failed"
    /\ attempt[p] = 1
    /\ attempt' = [attempt EXCEPT ![p] = 2]
    /\ keys' = [keys EXCEPT ![p] = None]
    /\ post' = [post EXCEPT ![p] = "begin"]
    /\ UNCHANGED <<shared, fresh, ciphers, using, observed>>

\* invalidateSession drops what is shared, whoever uses it, and Post tries
\* once more.
Retry(p) ==
    /\ post[p] = "failed"
    /\ attempt[p] = 1
    /\ session' = None
    /\ injected' = None
    /\ idle' = {}
    /\ fresh' = [q \in Posters |-> FALSE]
    /\ attempt' = [attempt EXCEPT ![p] = 2]
    /\ keys' = [keys EXCEPT ![p] = None]
    /\ post' = [post EXCEPT ![p] = "begin"]
    /\ sealed' = Forget(sealed)
    /\ replies' = Forget(replies)
    /\ UNCHANGED <<using, observed>>

\* The second failure is Post's, and nothing is dropped.
PostFails(p) ==
    /\ post[p] = "failed"
    /\ attempt[p] = 2
    /\ attempt' = [attempt EXCEPT ![p] = 1]
    /\ keys' = [keys EXCEPT ![p] = None]
    /\ post' = [post EXCEPT ![p] = "error"]
    /\ UNCHANGED <<session, injected, using, fresh, observed>>
    /\ idle' = Pool(idle)
    /\ sealed' = Forget(sealed)
    /\ replies' = Forget(replies)

-----------------------------------------------------------------------------
(* The network *)

Hit(p) ==
    /\ Fault
    /\ disturbed' = [disturbed EXCEPT ![p] = TRUE]
    /\ post' = [post EXCEPT ![p] = "failed"]
    /\ using' = [using EXCEPT ![p] = None]
    /\ fresh' = [fresh EXCEPT ![p] = FALSE]

\* The request does not reach the host: no dial, no handshake, a connection
\* that was dead already.
LoseRequest(p) ==
    /\ Hit(p)
    /\ \/ /\ post[p] = "handshake"
          /\ UNCHANGED <<injected, idle, sealed>>
       \/ /\ post[p] = "sealed"
          /\ \E c \in Reach(p) : Takes(p, c)
          /\ sealed' = [sealed EXCEPT ![keys[p]] = Misses(p, @)]
    /\ UNCHANGED <<session, replies, attempt, keys, handled>>

\* The host handled the message and its reply does not arrive.
LoseReply(p) ==
    /\ post[p] \in {"asked", "promote"}
    /\ Hit(p)
    /\ replies' = [replies EXCEPT ![keys[p]] = Misses(p, @)]
    /\ UNCHANGED <<shared, sealed, attempt, keys, handled>>

\* The host closes a connection nobody uses, which is no failure.
IdleCloses(c) ==
    /\ c \in idle
    /\ idle' = idle \ {c}
    /\ UNCHANGED <<session, injected, ciphers, posting, observed>>

-----------------------------------------------------------------------------
\* The steps of a post that the host has no part in.
PostStep(p) ==
    \/ TakeSlowPath(p) \/ TakeFastPath(p)
    \/ Promote(p) \/ AskRefused(p)
    \/ ReadReply(p) \/ OpenReply(p)
    \/ Retry(p) \/ PostFails(p)

\* The steps at which the host handles the message.
HandledStep(p) == Handshake(p) \/ AskAccepted(p)

NetworkStep ==
    \/ \E p \in Posters : LoseRequest(p) \/ LoseReply(p)
    \/ \E c \in idle : IdleCloses(c)

-----------------------------------------------------------------------------
(* Properties *)

\* A post that no other one overlaps and the network does not fail succeeds,
\* whatever earlier posts left behind: dead or foreign connections, a session
\* out of step, a connection of another handshake (Post, postOnce,
\* invalidateSession).
AloneSucceeds == \A p \in Posters : post[p] = "error" => disturbed[p]

=============================================================================
