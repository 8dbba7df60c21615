------------------------- MODULE IpTransportProofs -------------------------
(***************************************************************************)
(* Proofs about the mutexes of the transport, for any number of threads    *)
(* that give commands: every path takes mutexes in the order of their      *)
(* ranks, and a notification that the manager may answer is given, and a   *)
(* socket call that may block is made, with none held.                     *)
(***************************************************************************)
EXTENDS IpTransport, Integers, TLAPS

(* The order in which mutexes are taken while others are held; those of    *)
(* rank 4 are taken for a moment only.                                     *)
Rank(l) ==
    CASE l = "_connMutex" -> 1
      [] l = "_brMutex" -> 2
      [] l = "hello" -> 3
      [] OTHER -> 4

(* One instruction turns the mutexes that its thread holds from before to  *)
(* after; r is the rank of what is held around the path, 0 for nothing.    *)
Does(r, ins, before, after) ==
    \/ /\ ins[1] = "lock"
       /\ r < Rank(ins[2])
       /\ \A l \in before : Rank(l) < Rank(ins[2])
       /\ after = before \cup {ins[2]}
    \/ /\ ins[1] = "unlock"
       /\ ins[2] \in before
       /\ after = before \ {ins[2]}
    \/ /\ ins[1] = "tell"
       /\ ins[2] \in Reacting => before = {} /\ r = 0
       /\ after = before
    \/ /\ ins = SocketCall
       /\ before = {} /\ r = 0
       /\ after = before

(* h[i] is what is held after i instructions, nothing at the end.          *)
Along(r, H, p, h) ==
    /\ h \in [0 .. Len(p) -> SUBSET Locks]
    /\ h[0] = H /\ h[Len(p)] = {}
    /\ \A i \in 0 .. Len(p) : \A l \in h[i] : r < Rank(l)
    /\ \A i \in 1 .. Len(p) : Does(r, p[i], h[i - 1], h[i])

Path(r, H, p) == p \in Seq(Instructions) /\ \E h : Along(r, H, p, h)

Tidy(r, P) == \A p \in P : Path(r, {}, p)

LEMMA RankType == \A l : Rank(l) \in 1 .. 4
BY DEF Rank

-----------------------------------------------------------------------------
(* Building paths.                                                         *)

LEMMA PathConcat ==
    ASSUME NEW r \in 0 .. 4, NEW H, NEW p, NEW q, Path(r, H, p), Path(r, {}, q)
    PROVE  Path(r, H, p \o q)
<1>1. PICK f : Along(r, H, p, f)
  BY DEF Path
<1>2. PICK g : Along(r, {}, q, g)
  BY DEF Path
<1>3. p \in Seq(Instructions) /\ q \in Seq(Instructions)
  BY DEF Path
<1> DEFINE m == Len(p)
           n == Len(q)
           pq == p \o q
           h == [i \in 0 .. Len(pq) |-> IF i <= m THEN f[i] ELSE g[i - m]]
<1>4. /\ pq \in Seq(Instructions) /\ Len(pq) = m + n /\ m \in Nat /\ n \in Nat
      /\ \A i \in 1 .. m : pq[i] = p[i]
      /\ \A i \in 1 .. n : pq[m + i] = q[i]
  BY <1>3
<1> HIDE DEF pq, m, n
<1>5. /\ f \in [0 .. m -> SUBSET Locks] /\ f[0] = H /\ f[m] = {}
      /\ \A i \in 0 .. m : \A l \in f[i] : r < Rank(l)
      /\ \A i \in 1 .. m : Does(r, p[i], f[i - 1], f[i])
  BY <1>1 DEF Along, m
<1>6. /\ g \in [0 .. n -> SUBSET Locks] /\ g[0] = {} /\ g[n] = {}
      /\ \A i \in 0 .. n : \A l \in g[i] : r < Rank(l)
      /\ \A i \in 1 .. n : Does(r, q[i], g[i - 1], g[i])
  BY <1>2 DEF Along, n
<1>7. \A i \in 0 .. m : h[i] = f[i]
  BY <1>4
<1>8. ASSUME NEW i \in 0 .. n PROVE h[m + i] = g[i]
  <2>1. CASE i = 0
    BY <2>1, <1>4, <1>5, <1>6
  <2>2. CASE i > 0
    <3>1. m + i \in 0 .. Len(pq) /\ ~(m + i <= m) /\ (m + i) - m = i
      BY <2>2, <1>4
    <3> QED
      BY <3>1
  <2> QED
    BY <2>1, <2>2
<1>9. h \in [0 .. Len(pq) -> SUBSET Locks] /\ h[0] = H /\ h[Len(pq)] = {}
  BY <1>4, <1>5, <1>6, <1>8
<1>10. \A i \in 0 .. Len(pq) : \A l \in h[i] : r < Rank(l)
  BY <1>4, <1>5, <1>6
<1> HIDE DEF h
<1>11. ASSUME NEW i \in 1 .. Len(pq) PROVE Does(r, pq[i], h[i - 1], h[i])
  <2>1. CASE i <= m
    <3>1. i \in 1 .. m /\ i \in 0 .. m /\ i - 1 \in 0 .. m
      BY <2>1, <1>4
    <3> QED
      BY <3>1, <1>4, <1>5, <1>7
  <2>2. CASE i > m
    <3>1. PICK k \in 1 .. n : i = m + k
      <4>1. i - m \in 1 .. n /\ i = m + (i - m)
        BY <2>2, <1>4
      <4> QED
        BY <4>1
    <3>2. k \in 0 .. n /\ k - 1 \in 0 .. n /\ i - 1 = m + (k - 1)
      BY <3>1, <1>4
    <3>3. pq[i] = q[k] /\ h[i] = g[k] /\ h[i - 1] = g[k - 1]
      BY <3>1, <3>2, <1>4, <1>8
    <3> QED
      BY <3>1, <3>3, <1>6
  <2> QED
    BY <2>1, <2>2, <1>4
<1>12. Along(r, H, pq, h)
  BY <1>9, <1>10, <1>11 DEF Along
<1> QED
  BY <1>4, <1>12 DEF Path, pq

LEMMA PathUnder ==
    ASSUME NEW r \in 0 .. 4, NEW l \in Locks, r < Rank(l), NEW p, Path(Rank(l), {}, p)
    PROVE  Path(r, {}, << <<"lock", l>> >> \o p \o << <<"unlock", l>> >>)
<1>1. PICK f : Along(Rank(l), {}, p, f)
  BY DEF Path
<1>2. p \in Seq(Instructions)
  BY DEF Path
<1>3. <<"lock", l>> \in Instructions /\ <<"unlock", l>> \in Instructions
  BY DEF Instructions
<1> DEFINE n == Len(p)
           s == << <<"lock", l>> >> \o p \o << <<"unlock", l>> >>
           h == [i \in 0 .. Len(s) |->
                   IF i = 0 \/ i = n + 2 THEN {} ELSE f[i - 1] \cup {l}]
<1>4. /\ s \in Seq(Instructions) /\ Len(s) = n + 2 /\ n \in Nat
      /\ s[1] = <<"lock", l>> /\ s[n + 2] = <<"unlock", l>>
      /\ \A i \in 1 .. n : s[i + 1] = p[i]
  BY <1>2, <1>3
<1> HIDE DEF s, n
<1>5. /\ f \in [0 .. n -> SUBSET Locks] /\ f[0] = {} /\ f[n] = {}
      /\ \A i \in 0 .. n : \A k \in f[i] : Rank(l) < Rank(k)
      /\ \A i \in 1 .. n : Does(Rank(l), p[i], f[i - 1], f[i])
  BY <1>1 DEF Along, n
<1>6. h[0] = {} /\ h[1] = {l} /\ h[n + 1] = {l} /\ h[n + 2] = {}
      /\ \A i \in 0 .. n : h[i + 1] = f[i] \cup {l}
  BY <1>4, <1>5
<1>7. h \in [0 .. Len(s) -> SUBSET Locks]
  BY <1>4, <1>5
<1>8. ASSUME NEW i \in 0 .. Len(s), NEW k \in h[i] PROVE r < Rank(k)
  <2>1. i - 1 \in 0 .. n /\ k \in f[i - 1] \cup {l}
    BY <1>4
  <2>2. k = l \/ Rank(l) < Rank(k)
    BY <2>1, <1>5
  <2> QED
    BY <2>2, RankType
<1> HIDE DEF h
<1>9. ASSUME NEW i \in 1 .. Len(s) PROVE Does(r, s[i], h[i - 1], h[i])
  <2>1. CASE i = 1
    BY <2>1, <1>4, <1>6 DEF Does
  <2>2. CASE i = n + 2
    BY <2>2, <1>4, <1>6 DEF Does
  <2>3. CASE i \in 2 .. n + 1
    <3>1. PICK k \in 1 .. n : i = k + 1
      <4>1. i - 1 \in 1 .. n /\ i = (i - 1) + 1
        BY <2>3, <1>4
      <4> QED
        BY <4>1
    <3>2. k \in 0 .. n /\ k - 1 \in 0 .. n /\ i - 1 = (k - 1) + 1
      BY <3>1, <1>4
    <3>3. s[i] = p[k] /\ h[i] = f[k] \cup {l} /\ h[i - 1] = f[k - 1] \cup {l}
      BY <3>1, <3>2, <1>4, <1>6
    <3>4. Does(Rank(l), p[k], f[k - 1], f[k])
      BY <3>1, <1>5
    <3>5. l \notin f[k - 1] /\ l \notin f[k] /\ r < Rank(l) /\ Rank(l) # 0
      BY <3>2, <1>5, RankType
    <3>6. CASE p[k][1] = "lock"
      <4>1. Rank(l) < Rank(p[k][2]) /\ f[k] = f[k - 1] \cup {p[k][2]}
            /\ \A x \in f[k - 1] : Rank(x) < Rank(p[k][2])
        BY <3>4, <3>6 DEF Does
      <4>2. r < Rank(p[k][2])
        BY <4>1, <3>5, RankType
      <4> QED
        BY <3>3, <3>6, <4>1, <4>2 DEF Does
    <3>7. CASE p[k][1] = "unlock"
      <4>1. p[k][2] \in f[k - 1] /\ f[k] = f[k - 1] \ {p[k][2]}
        BY <3>4, <3>7 DEF Does
      <4>2. h[i] = h[i - 1] \ {p[k][2]} /\ p[k][2] \in h[i - 1]
        BY <3>3, <3>5, <4>1
      <4> QED
        BY <3>3, <3>7, <4>2 DEF Does
    <3>8. CASE p[k][1] = "tell"
      BY <3>3, <3>4, <3>5, <3>8 DEF Does
    <3>9. Rank(l) # 0
      BY RankType
    <3> QED
      BY <3>4, <3>6, <3>7, <3>8, <3>9 DEF Does
  <2> QED
    BY <2>1, <2>2, <2>3, <1>4
<1>10. Along(r, {}, s, h)
  BY <1>4, <1>6, <1>7, <1>8, <1>9 DEF Along
<1> QED
  BY <1>4, <1>10 DEF Path, s

-----------------------------------------------------------------------------
(* Operators on sets of paths.                                             *)

LEMMA TidySkip == \A r \in 0 .. 4 : Tidy(r, Skip)
<1> SUFFICES ASSUME NEW r \in 0 .. 4 PROVE Path(r, {}, <<>>)
  BY DEF Tidy, Skip
<1> DEFINE h == [i \in 0 .. Len(<<>>) |-> {}]
<1>1. Along(r, {}, <<>>, h)
  BY DEF Along
<1> QED
  BY <1>1 DEF Path

(* A notification that the manager may answer is given outside.            *)
LEMMA TidyTell ==
    ASSUME NEW r \in 0 .. 4, NEW n \in Notices, n \in Reacting => r = 0
    PROVE  Tidy(r, Tell(n))
<1> DEFINE p == << <<"tell", n>> >>
           h == [i \in 0 .. 1 |-> {}]
<1>1. p \in Seq(Instructions) /\ Len(p) = 1 /\ p[1] = <<"tell", n>>
  BY DEF Instructions
<1>2. h \in [0 .. 1 -> SUBSET Locks] /\ h[0] = {} /\ h[1] = {}
  OBVIOUS
<1> HIDE DEF p, h
<1>3. Does(r, p[1], h[0], h[1])
  <2>1. p[1][1] = "tell" /\ p[1][2] = n
    BY <1>1
  <2> QED
    BY <1>2, <2>1 DEF Does
<1>4. Along(r, {}, p, h)
  BY <1>1, <1>2, <1>3 DEF Along
<1> QED
  BY <1>1, <1>4 DEF Path, Tidy, Tell, p

(* So is a socket call.                                                    *)
LEMMA TidyTransfer == Tidy(0, Transfer)
<1> DEFINE p == << SocketCall >>
           h == [i \in 0 .. 1 |-> {}]
<1>1. p \in Seq(Instructions) /\ Len(p) = 1 /\ p[1] = SocketCall
  BY DEF Instructions
<1>2. h \in [0 .. 1 -> SUBSET Locks] /\ h[0] = {} /\ h[1] = {}
  OBVIOUS
<1> HIDE DEF p, h
<1>3. Does(0, p[1], h[0], h[1])
  BY <1>1, <1>2 DEF Does
<1>4. Along(0, {}, p, h)
  BY <1>1, <1>2, <1>3 DEF Along
<1>5. Path(0, {}, p)
  BY <1>1, <1>4 DEF Path
<1> QED
  BY <1>5, TidySkip DEF Tidy, Transfer, p

LEMMA TidyUnion ==
    ASSUME NEW r, NEW P, NEW Q, Tidy(r, P), Tidy(r, Q)
    PROVE  Tidy(r, P \cup Q)
BY DEF Tidy

LEMMA TidyThen ==
    ASSUME NEW r \in 0 .. 4, NEW P, NEW Q, Tidy(r, P), Tidy(r, Q)
    PROVE  Tidy(r, Then(P, Q))
<1>1. SUFFICES ASSUME NEW s \in Then(P, Q) PROVE Path(r, {}, s)
  BY DEF Tidy
<1>2. PICK p \in P, q \in Q : s = p \o q
  BY <1>1, SMT DEF Then
<1> QED
  BY <1>2, PathConcat DEF Tidy

LEMMA TidyUnder ==
    ASSUME NEW r \in 0 .. 4, NEW l \in Locks, r < Rank(l), NEW P, Tidy(Rank(l), P)
    PROVE  Tidy(r, Under(l, P))
<1> SUFFICES ASSUME NEW p \in P
             PROVE  Path(r, {}, << <<"lock", l>> >> \o p \o << <<"unlock", l>> >>)
  BY DEF Tidy, Under
<1> QED
  BY PathUnder DEF Tidy

LEMMA TidyTouch ==
    ASSUME NEW r \in 0 .. 4, NEW l \in Locks, r < Rank(l)
    PROVE  Tidy(r, Touch(l))
BY TidyUnder, TidySkip, RankType DEF Touch

-----------------------------------------------------------------------------
(* The operations of the transport.  The manager gives no commands when it *)
(* is told of an error or of a lost session, which commands report while   *)
(* they hold _connMutex.                                                   *)
Calm == "Error" \notin Reacting /\ "SessionLost" \notin Reacting

LEMMA LockRanks ==
    /\ {"_connMutex", "_brMutex", "hello", "loop", "activeConnsMut_", "connToFdMut_",
        "sendQueueMut_"} \subseteq Locks
    /\ Rank("_connMutex") = 1 /\ Rank("_brMutex") = 2 /\ Rank("hello") = 3
    /\ \A l \in {"loop", "activeConnsMut_", "connToFdMut_", "sendQueueMut_"} : Rank(l) = 4
BY DEF Locks, Rank

LEMMA TidyTables ==
    ASSUME NEW r \in 0 .. 3
    PROVE  /\ Tidy(r, Loop)
           /\ Tidy(r, Touch("activeConnsMut_"))
           /\ Tidy(r, Touch("connToFdMut_"))
           /\ Tidy(r, Touch("sendQueueMut_"))
           /\ Tidy(r, Tables)
           /\ Tidy(r, Skip)
<1>1. r \in 0 .. 4 /\ r < 4
  OBVIOUS
<1>2. /\ Tidy(r, Loop)
      /\ Tidy(r, Touch("activeConnsMut_"))
      /\ Tidy(r, Touch("connToFdMut_"))
      /\ Tidy(r, Touch("sendQueueMut_"))
  BY <1>1, TidyTouch, LockRanks DEF Loop
<1>3. Tidy(r, Then(Touch("connToFdMut_"), Touch("sendQueueMut_")))
  BY <1>1, <1>2, TidyThen
<1>4. Tidy(r, Tables)
  BY <1>1, <1>2, <1>3, TidyThen DEF Tables
<1> QED
  BY <1>1, <1>2, <1>4, TidySkip

LEMMA TidyCloseFD ==
    ASSUME Calm, NEW r \in 0 .. 1
    PROVE  Tidy(r, CloseFD)
<1>1. r \in 0 .. 3 /\ r \in 0 .. 4
  OBVIOUS
<1>2. Tidy(r, Tell("SessionLost"))
  BY <1>1, TidyTell DEF Calm, Notices
<1>3. Tidy(r, Then(Tables, Tell("SessionLost")))
  BY <1>1, <1>2, TidyTables, TidyThen
<1>4. Tidy(r, Touch("activeConnsMut_") \cup Then(Tables, Tell("SessionLost")))
  BY <1>1, <1>3, TidyTables, TidyUnion
<1> QED
  BY <1>1, <1>4, TidyTables, TidyThen DEF CloseFD

LEMMA TidySend ==
    ASSUME NEW r \in 0 .. 1
    PROVE  Tidy(r, SendDone) /\ Tidy(r, Send)
<1>1. r \in 0 .. 3 /\ r \in 0 .. 4
  OBVIOUS
<1>2. Tidy(r, Then(Touch("sendQueueMut_"), Loop))
  BY <1>1, TidyTables, TidyThen
<1>3. Tidy(r, Then(Touch("sendQueueMut_"), Then(Touch("sendQueueMut_"), Loop)))
  BY <1>1, <1>2, TidyTables, TidyThen
<1>4. Tidy(r, Touch("sendQueueMut_")
              \cup Then(Touch("sendQueueMut_"), Then(Touch("sendQueueMut_"), Loop)))
  BY <1>1, <1>3, TidyTables, TidyUnion
<1>5. Tidy(r, SendDone)
  <2>1. Tidy(r, Then(Touch("activeConnsMut_"),
                     Touch("sendQueueMut_")
                     \cup Then(Touch("sendQueueMut_"), Then(Touch("sendQueueMut_"), Loop))))
    BY <1>1, <1>4, TidyTables, TidyThen
  <2> QED
    BY <1>1, <2>1, TidyTables, TidyUnion DEF SendDone
<1>6. Tidy(r, Then(Loop, SendDone))
  BY <1>1, <1>5, TidyTables, TidyThen
<1>7. Tidy(r, Skip \cup Loop \cup Then(Loop, SendDone))
  <2>1. Tidy(r, Skip \cup Loop)
    BY <1>1, TidyTables, TidyUnion
  <2> QED
    BY <2>1, <1>6, TidyUnion
<1>8. Tidy(r, SendMessageFd)
  BY <1>1, <1>7, TidyTables, TidyThen DEF SendMessageFd
<1>9. Tidy(r, Skip \cup SendMessageFd)
  BY <1>1, <1>8, TidyTables, TidyUnion
<1>10. Tidy(r, Then(Touch("sendQueueMut_"), Skip \cup SendMessageFd))
  BY <1>1, <1>9, TidyTables, TidyThen
<1>11. Tidy(r, Skip \cup Then(Touch("sendQueueMut_"), Skip \cup SendMessageFd))
  BY <1>1, <1>10, TidyTables, TidyUnion
<1>12. Tidy(r, Send)
  BY <1>1, <1>11, TidyTables, TidyThen DEF Send
<1> QED
  BY <1>5, <1>12

LEMMA TidyCommands == Calm => Tidy(0, Commands) /\ Tidy(0, CloseSession)
<1> SUFFICES ASSUME Calm PROVE Tidy(0, Commands) /\ Tidy(0, CloseSession)
  OBVIOUS
<1>1. 0 \in 0 .. 4 /\ 1 \in 0 .. 1 /\ 1 \in 0 .. 3 /\ 1 \in 0 .. 4 /\ 3 \in 0 .. 3
      /\ 2 \in 0 .. 4
  OBVIOUS
<1>2. Tidy(1, Tell("Error"))
  BY <1>1, TidyTell DEF Calm, Notices
<1>3. Tidy(1, OutgoingHelloExchange)
  <2>1. Tidy(1, Then(Loop, Tell("Error")))
    BY <1>1, <1>2, TidyTables, TidyThen
  <2> QED
    BY <1>1, <2>1, TidyTables, TidyUnion DEF OutgoingHelloExchange
<1>4. Tidy(1, GetAddress)
  <2>1. Tidy(2, Touch("hello"))
    BY <1>1, TidyTouch, LockRanks
  <2> QED
    BY <1>1, <2>1, TidyUnder, LockRanks DEF GetAddress
<1>5. Tidy(1, EstablishConnection)
  <2>1. Tidy(1, Then(Tell("Error"), OutgoingHelloExchange))
    BY <1>1, <1>2, <1>3, TidyThen
  <2>2. Tidy(1, Tell("Error") \cup OutgoingHelloExchange
                \cup Then(Tell("Error"), OutgoingHelloExchange))
    <3>1. Tidy(1, Tell("Error") \cup OutgoingHelloExchange)
      BY <1>2, <1>3, TidyUnion
    <3> QED
      BY <2>1, <3>1, TidyUnion
  <2>3. Tidy(1, Then(GetAddress, Tell("Error") \cup OutgoingHelloExchange
                                 \cup Then(Tell("Error"), OutgoingHelloExchange)))
    BY <1>1, <1>4, <2>2, TidyThen
  <2>4. Tidy(1, Tell("Error")
                \cup Then(GetAddress, Tell("Error") \cup OutgoingHelloExchange
                                      \cup Then(Tell("Error"), OutgoingHelloExchange)))
    BY <1>2, <2>3, TidyUnion
  <2> QED
    BY <1>1, <2>4, TidyTables, TidyThen DEF EstablishConnection
<1>6. Tidy(1, CloseConn)
  <2>1. Tidy(1, Skip \cup CloseFD)
    BY <1>1, TidyTables, TidyCloseFD, TidyUnion
  <2>2. Tidy(1, Then(Touch("connToFdMut_"), Skip \cup CloseFD))
    BY <1>1, <2>1, TidyTables, TidyThen
  <2> QED
    BY <1>1, <2>2, TidyThen DEF CloseConn
<1>7. Tidy(0, OpenSession)
  BY <1>1, <1>5, TidyUnder, LockRanks DEF OpenSession
<1>8. Tidy(0, CloseSession)
  BY <1>1, <1>6, TidyUnder, LockRanks DEF CloseSession
<1>9. Tidy(0, SendMessage)
  BY <1>1, TidySend, TidyUnder, LockRanks DEF SendMessage
<1>10. Tidy(0, OpenSession \cup CloseSession)
  BY <1>7, <1>8, TidyUnion
<1> QED
  BY <1>8, <1>9, <1>10, TidyUnion DEF Commands

LEMMA TidyProcessHello ==
    ASSUME NEW P, Tidy(0, P)
    PROVE  Tidy(0, ProcessHello(P))
<1>1. 0 \in 0 .. 4 /\ 0 \in 0 .. 3
  OBVIOUS
<1>2. Tidy(0, Touch("hello"))
  BY <1>1, TidyTouch, LockRanks
<1>3. Tidy(0, Then(Touch("hello"), Loop))
  BY <1>1, <1>2, TidyTables, TidyThen
<1>4. Tidy(0, Then(Touch("hello"), P))
  BY <1>1, <1>2, TidyThen
<1>5. Tidy(0, Then(Loop, Then(Touch("hello"), P)))
  BY <1>1, <1>4, TidyTables, TidyThen
<1>6. Tidy(0, Then(Touch("hello"), Then(Loop, Then(Touch("hello"), P))))
  BY <1>1, <1>2, <1>5, TidyThen
<1>7. Tidy(0, Touch("hello") \cup Then(Touch("hello"), Loop))
  BY <1>2, <1>3, TidyUnion
<1> QED
  BY <1>6, <1>7, TidyUnion DEF ProcessHello

LEMMA TidyCallbacks == Calm => Tidy(0, Callbacks)
<1> SUFFICES ASSUME Calm PROVE Tidy(0, Callbacks)
  OBVIOUS
<1>1. 0 \in 0 .. 4 /\ 0 \in 0 .. 3 /\ 0 \in 0 .. 1 /\ 3 \in 0 .. 3
  OBVIOUS
<1>2. \A n \in Notices : Tidy(0, Tell(n))
  BY <1>1, TidyTell
<1>3. /\ Tidy(0, Tell("Found")) /\ Tidy(0, Tell("NeighborLost")) /\ Tidy(0, Tell("Opened"))
      /\ Tidy(0, Tell("Error")) /\ Tidy(0, Tell("Received"))
  BY <1>2 DEF Notices
<1>4. Tidy(0, ProcessHello(Tell("Found"))) /\ Tidy(0, ProcessHello(Skip))
  BY <1>1, <1>3, TidyProcessHello, TidyTables
<1>5. Tidy(0, ProcessPeerLost)
  <2>1. Tidy(0, Under("hello", Loop))
    BY <1>1, TidyTables, TidyUnder, LockRanks
  <2>2. Tidy(0, Then(Under("hello", Loop), Tell("NeighborLost")))
    BY <1>1, <1>3, <2>1, TidyThen
  <2>3. Tidy(0, Touch("hello"))
    BY <1>1, TidyTouch, LockRanks
  <2> QED
    BY <2>2, <2>3, TidyUnion DEF ProcessPeerLost
<1>6. Tidy(0, ProcessNetworkUpdate)
  <2>1. Tidy(0, Then(CloseSession, Tell("NeighborLost")))
    BY <1>1, <1>3, TidyCommands, TidyThen
  <2> QED
    BY <1>1, <2>1, TidyTables, TidyUnion DEF ProcessNetworkUpdate
<1>7. Tidy(0, ReadDone)
  <2>1. Tidy(0, Then(Tell("Received"), Loop))
    BY <1>1, <1>3, TidyTables, TidyThen
  <2>2. Tidy(0, Skip \cup CloseFD)
    BY <1>1, TidyTables, TidyCloseFD, TidyUnion
  <2>3. Tidy(0, Skip \cup CloseFD \cup Then(Tell("Received"), Loop))
    BY <2>1, <2>2, TidyUnion
  <2> QED
    BY <1>1, <2>3, TidyTables, TidyThen DEF ReadDone
<1>8. Tidy(0, Handshake)
  <2>1. Tidy(0, Then(ProcessHello(Skip), Loop))
    BY <1>1, <1>4, TidyTables, TidyThen
  <2>2. Tidy(0, Then(Tell("Opened"), Loop)) /\ Tidy(0, Then(Loop, Tell("Opened")))
    BY <1>1, <1>3, TidyTables, TidyThen
  <2>3. /\ Tidy(0, Then(Tables, Then(Tell("Opened"), Loop)))
        /\ Tidy(0, Then(Tables, Then(Loop, Tell("Opened"))))
    BY <1>1, <2>2, TidyTables, TidyThen
  <2>4. Tidy(0, Skip \cup Tell("Error"))
    BY <1>1, <1>3, TidyTables, TidyUnion
  <2>5. Tidy(0, Skip \cup Tell("Error") \cup Then(ProcessHello(Skip), Loop))
    BY <2>1, <2>4, TidyUnion
  <2>6. Tidy(0, Skip \cup Tell("Error") \cup Then(ProcessHello(Skip), Loop)
                \cup Then(Tables, Then(Tell("Opened"), Loop)))
    BY <2>3, <2>5, TidyUnion
  <2> QED
    BY <2>3, <2>6, TidyUnion DEF Handshake
<1>9. Tidy(0, ProcData)
  <2>1. Tidy(0, ReadDone \cup SendDone)
    BY <1>1, <1>7, TidySend, TidyUnion
  <2>2. Tidy(0, ReadDone \cup SendDone \cup Handshake)
    BY <1>8, <2>1, TidyUnion
  <2>3. Tidy(0, Then(Loop, ReadDone \cup SendDone \cup Handshake))
    BY <1>1, <2>2, TidyTables, TidyThen
  <2>4. Tidy(0, Skip \cup Then(Loop, ReadDone \cup SendDone \cup Handshake))
    BY <1>1, <2>3, TidyTables, TidyUnion
  <2> QED
    BY <1>1, <2>4, TidyTransfer, TidyThen DEF ProcData
<1>10. Tidy(0, Skip \cup ProcessHello(Tell("Found")))
  BY <1>1, <1>4, TidyTables, TidyUnion
<1>11. Tidy(0, Skip \cup ProcessHello(Tell("Found")) \cup ProcessPeerLost)
  BY <1>5, <1>10, TidyUnion
<1>12. Tidy(0, Skip \cup ProcessHello(Tell("Found")) \cup ProcessPeerLost
               \cup ProcessNetworkUpdate)
  BY <1>6, <1>11, TidyUnion
<1>13. Tidy(0, Skip \cup ProcessHello(Tell("Found")) \cup ProcessPeerLost
               \cup ProcessNetworkUpdate \cup ProcData)
  BY <1>9, <1>12, TidyUnion
<1> QED
  BY <1>1, <1>13, TidyTables, TidyThen DEF Callbacks

-----------------------------------------------------------------------------
(* Following a path.                                                       *)

(* The first instruction of a path is done.                                *)
LEMMA PathTail ==
    ASSUME NEW H, NEW p, Path(0, H, p), p # <<>>
    PROVE  \E K : Does(0, Head(p), H, K) /\ Path(0, K, Tail(p))
<1>1. PICK f : Along(0, H, p, f)
  BY DEF Path
<1>2. p \in Seq(Instructions)
  BY DEF Path
<1> DEFINE n == Len(p)
           q == Tail(p)
           h == [i \in 0 .. Len(q) |-> f[i + 1]]
<1>3. /\ n \in Nat /\ n > 0 /\ Len(q) = n - 1 /\ q \in Seq(Instructions) /\ Head(p) = p[1]
      /\ \A i \in 1 .. n - 1 : q[i] = p[i + 1]
  BY <1>2
<1> HIDE DEF n, q
<1>4. /\ f \in [0 .. n -> SUBSET Locks] /\ f[0] = H /\ f[n] = {}
      /\ \A i \in 0 .. n : \A l \in f[i] : 0 < Rank(l)
      /\ \A i \in 1 .. n : Does(0, p[i], f[i - 1], f[i])
  BY <1>1 DEF Along, n
<1>5. /\ h \in [0 .. Len(q) -> SUBSET Locks]
      /\ h[0] = f[1] /\ h[Len(q)] = {}
      /\ \A i \in 0 .. Len(q) : h[i] = f[i + 1]
  BY <1>3, <1>4
<1>6. \A i \in 0 .. Len(q) : \A l \in h[i] : 0 < Rank(l)
  BY <1>3, <1>4
<1> HIDE DEF h
<1>7. ASSUME NEW i \in 1 .. Len(q) PROVE Does(0, q[i], h[i - 1], h[i])
  <2>1. i + 1 \in 1 .. n /\ i \in 0 .. Len(q) /\ i - 1 \in 0 .. Len(q)
        /\ (i + 1) - 1 = i /\ (i - 1) + 1 = i
    BY <1>3
  <2>2. Does(0, p[i + 1], f[i], f[i + 1])
    BY <1>4, <2>1
  <2>3. q[i] = p[i + 1] /\ h[i] = f[i + 1] /\ h[i - 1] = f[i]
    BY <1>3, <1>5, <2>1
  <2> QED
    BY <2>2, <2>3
<1>8. Along(0, f[1], q, h)
  BY <1>5, <1>6, <1>7 DEF Along
<1>9. Path(0, f[1], Tail(p))
  BY <1>3, <1>8 DEF Path, q
<1>10. Does(0, Head(p), H, f[1])
  BY <1>3, <1>4
<1> QED
  BY <1>9, <1>10

LEMMA PathEnd == \A H : Path(0, H, <<>>) <=> H = {}
<1>1. ASSUME NEW H, Path(0, H, <<>>) PROVE H = {}
  BY <1>1 DEF Path, Along
<1>2. Path(0, {}, <<>>)
  BY TidySkip DEF Tidy, Skip
<1> QED
  BY <1>1, <1>2

-----------------------------------------------------------------------------
(* What a thread holds is what its path says it holds at this point.       *)
Holds(t) == {l \in Locks : held[l] = t}

LocksInv ==
    /\ todo \in [Threads -> Seq(Instructions)]
    /\ held \in [Locks -> Threads \cup {None}]
    /\ \A t \in Threads : Path(0, Holds(t), todo[t])

LEMMA InitLocksInv == Init => LocksInv
<1> SUFFICES ASSUME Init PROVE LocksInv
  OBVIOUS
<1>1. \A t \in Threads : Holds(t) = {} /\ todo[t] = <<>>
  BY IpTransportAssumption DEF Init, Holds
<1>2. \A t \in Threads : Path(0, Holds(t), todo[t])
  BY <1>1, PathEnd
<1> QED
  BY <1>2 DEF Init, LocksInv

(* A thread that has done an instruction is on the rest of its path.       *)
LEMMA ProceedStep ==
    ASSUME LocksInv, NEW t \in Threads, todo[t] # <<>>
    PROVE  /\ Head(todo[t]) \in Instructions /\ Tail(todo[t]) \in Seq(Instructions)
           /\ \E K : Does(0, Head(todo[t]), Holds(t), K) /\ Path(0, K, Tail(todo[t]))
<1>1. todo[t] \in Seq(Instructions) /\ Path(0, Holds(t), todo[t])
  BY DEF LocksInv
<1> QED
  BY <1>1, PathTail

LEMMA NextLocksInv ==
    ASSUME Calm, LocksInv, [Next]_vars
    PROVE  LocksInv'
<1>1. ASSUME NEW t \in Threads, NEW P, Tidy(0, P), Begin(t, P), UNCHANGED held
      PROVE  LocksInv'
  <2>1. PICK p \in P : todo' = [todo EXCEPT ![t] = p]
    BY <1>1 DEF Begin
  <2>2. Path(0, {}, p) /\ p \in Seq(Instructions)
    BY <1>1 DEF Tidy, Path
  <2>3. Path(0, Holds(t), <<>>)
    BY <1>1 DEF LocksInv, Begin
  <2>4. Holds(t) = {}
    BY <2>3, PathEnd
  <2>5. \A u \in Threads : Holds(u)' = Holds(u)
    BY <1>1 DEF Holds
  <2>6. ASSUME NEW u \in Threads PROVE Path(0, Holds(u)', todo'[u])
    BY <2>1, <2>2, <2>4, <2>5 DEF LocksInv
  <2> QED
    BY <1>1, <2>1, <2>2, <2>6 DEF LocksInv
<1>2. ASSUME NEW t \in Threads, Lock(t) PROVE LocksInv'
  <2>1. todo[t] # <<>>
    BY <1>2 DEF Lock
  <2> DEFINE l == Head(todo[t])[2]
  <2>2. /\ Head(todo[t]) = <<"lock", l>> /\ held[l] = None /\ held' = [held EXCEPT ![l] = t]
        /\ todo' = [todo EXCEPT ![t] = Tail(@)]
    BY <1>2 DEF Lock, Proceed
  <2>3. Head(todo[t]) \in Instructions /\ Tail(todo[t]) \in Seq(Instructions)
    BY <2>1, ProceedStep
  <2>4. PICK K : Does(0, Head(todo[t]), Holds(t), K) /\ Path(0, K, Tail(todo[t]))
    BY <2>1, ProceedStep
  <2>5. l \in Locks
    BY <2>2, <2>3 DEF Instructions, SocketCall
  <2>6. Head(todo[t])[1] = "lock"
    BY <2>2
  <2>7. K = Holds(t) \cup {l}
    BY <2>4, <2>6 DEF Does, SocketCall
  <2> HIDE DEF l
  <2>8. Holds(t)' = K
    BY <2>2, <2>5, <2>7 DEF Holds, LocksInv
  <2>9. \A u \in Threads \ {t} : Holds(u)' = Holds(u)
    BY <2>2, <2>5, IpTransportAssumption DEF Holds, LocksInv
  <2>10. ASSUME NEW u \in Threads PROVE Path(0, Holds(u)', todo'[u])
    <3>1. CASE u = t
      BY <2>2, <2>4, <2>8, <3>1 DEF LocksInv
    <3>2. CASE u # t
      BY <2>2, <2>9, <3>2 DEF LocksInv
    <3> QED
      BY <3>1, <3>2
  <2> QED
    BY <2>2, <2>3, <2>5, <2>10 DEF LocksInv
<1>3. ASSUME NEW t \in Threads, Unlock(t) PROVE LocksInv'
  <2>1. todo[t] # <<>>
    BY <1>3 DEF Unlock
  <2> DEFINE l == Head(todo[t])[2]
  <2>2. /\ Head(todo[t]) = <<"unlock", l>> /\ held' = [held EXCEPT ![l] = None]
        /\ todo' = [todo EXCEPT ![t] = Tail(@)]
    BY <1>3 DEF Unlock, Proceed
  <2>3. Head(todo[t]) \in Instructions /\ Tail(todo[t]) \in Seq(Instructions)
    BY <2>1, ProceedStep
  <2>4. PICK K : Does(0, Head(todo[t]), Holds(t), K) /\ Path(0, K, Tail(todo[t]))
    BY <2>1, ProceedStep
  <2>5. Head(todo[t])[1] = "unlock"
    BY <2>2
  <2>6. K = Holds(t) \ {l} /\ l \in Holds(t)
    BY <2>4, <2>5 DEF Does, SocketCall
  <2> HIDE DEF l
  <2>7. l \in Locks /\ held[l] = t
    BY <2>6 DEF Holds
  <2>8. Holds(t)' = K
    BY <2>2, <2>6, <2>7, IpTransportAssumption DEF Holds, LocksInv
  <2>9. \A u \in Threads \ {t} : Holds(u)' = Holds(u)
    BY <2>2, <2>7, IpTransportAssumption DEF Holds, LocksInv
  <2>10. ASSUME NEW u \in Threads PROVE Path(0, Holds(u)', todo'[u])
    <3>1. CASE u = t
      BY <2>2, <2>4, <2>8, <3>1 DEF LocksInv
    <3>2. CASE u # t
      BY <2>2, <2>9, <3>2 DEF LocksInv
    <3> QED
      BY <3>1, <3>2
  <2> QED
    BY <2>2, <2>3, <2>7, <2>10 DEF LocksInv
<1>4. ASSUME NEW t \in Threads, Notify(t) PROVE LocksInv'
  <2>1. todo[t] # <<>> /\ Head(todo[t])[1] = "tell" /\ UNCHANGED held
    BY <1>4 DEF Notify
  <2>2. Head(todo[t]) \in Instructions /\ Tail(todo[t]) \in Seq(Instructions)
    BY <2>1, ProceedStep
  <2>3. PICK K : Does(0, Head(todo[t]), Holds(t), K) /\ Path(0, K, Tail(todo[t]))
    BY <2>1, ProceedStep
  <2>4. K = Holds(t) /\ (Head(todo[t])[2] \in Reacting => Holds(t) = {})
    BY <2>1, <2>3 DEF Does
  <2>5. \A u \in Threads : Holds(u)' = Holds(u)
    BY <2>1 DEF Holds
  <2>6. PICK q : todo' = [todo EXCEPT ![t] = q] /\ Path(0, Holds(t), q)
    <3>1. CASE Proceed(t)
      BY <2>3, <2>4, <3>1 DEF Proceed
    <3>2. CASE /\ Head(todo[t])[2] \in Reacting
               /\ \E p \in Commands : todo' = [todo EXCEPT ![t] = p \o Tail(@)]
      <4>1. PICK p \in Commands : todo' = [todo EXCEPT ![t] = p \o Tail(@)]
        BY <3>2
      <4>2. Path(0, {}, p)
        BY TidyCommands DEF Tidy
      <4>3. Path(0, {}, Tail(todo[t]))
        BY <2>3, <2>4, <3>2
      <4>4. Path(0, {}, p \o Tail(todo[t]))
        BY <4>2, <4>3, PathConcat
      <4>5. todo' = [todo EXCEPT ![t] = p \o Tail(todo[t])]
        BY <4>1 DEF LocksInv
      <4> QED
        BY <2>4, <3>2, <4>4, <4>5
    <3> QED
      BY <1>4, <3>1, <3>2 DEF Notify
  <2>7. q \in Seq(Instructions)
    BY <2>6 DEF Path
  <2>8. ASSUME NEW u \in Threads PROVE Path(0, Holds(u)', todo'[u])
    BY <2>5, <2>6 DEF LocksInv
  <2> QED
    BY <2>1, <2>6, <2>7, <2>8 DEF LocksInv
<1>5. ASSUME NEW t \in Users, Command(t) PROVE LocksInv'
  <2>1. t \in Threads /\ Tidy(0, Commands)
    BY TidyCommands DEF Threads
  <2> QED
    BY <1>1, <1>5, <2>1 DEF Command
<1>6. ASSUME Dispatch PROVE LocksInv'
  <2>1. Epoll \in Threads /\ Tidy(0, Callbacks)
    BY TidyCallbacks DEF Threads
  <2> QED
    BY <1>1, <1>6, <2>1 DEF Dispatch
<1>7. ASSUME NEW t \in Threads, CallReturns(t) PROVE LocksInv'
  <2>1. /\ todo[t] # <<>> /\ Head(todo[t]) = SocketCall /\ UNCHANGED held
        /\ todo' = [todo EXCEPT ![t] = Tail(@)]
    BY <1>7 DEF CallReturns, InSocketCall, Proceed
  <2>2. Head(todo[t]) \in Instructions /\ Tail(todo[t]) \in Seq(Instructions)
    BY <2>1, ProceedStep
  <2>3. PICK K : Does(0, Head(todo[t]), Holds(t), K) /\ Path(0, K, Tail(todo[t]))
    BY <2>1, ProceedStep
  <2>4. K = Holds(t)
    BY <2>1, <2>3 DEF Does, SocketCall
  <2>5. ASSUME NEW u \in Threads PROVE Path(0, Holds(u)', todo'[u])
    BY <2>1, <2>3, <2>4 DEF LocksInv, Holds
  <2> QED
    BY <2>1, <2>2, <2>5 DEF LocksInv
<1>8. ASSUME UNCHANGED <<todo, held>> PROVE LocksInv'
  BY <1>8 DEF LocksInv, Holds
<1> QED
  BY <1>2, <1>3, <1>4, <1>5, <1>6, <1>7, <1>8
     DEF Next, Start, Stop, RunReturns, RunFails, Join, vars

(* Whoever waits for a mutex waits for one of a higher rank than all that  *)
(* it holds, so ranks rise from thread to thread along a circle.           *)
LEMMA NoCircle == LocksInv => NoCircularWait
<1> SUFFICES ASSUME LocksInv,
                    NEW S \in SUBSET Threads, S # {}, \A t \in S : WaitsFor(t) \in S
             PROVE  FALSE
  BY DEF NoCircularWait
<1> DEFINE R(t) == Rank(Head(todo[t])[2])
<1>1. ASSUME NEW t \in S
      PROVE  /\ Head(todo[t])[1] = "lock" /\ todo[t] # <<>>
             /\ WaitsFor(t) = held[Head(todo[t])[2]]
             /\ Head(todo[t])[2] \in Locks
  <2>1. WaitsFor(t) # None
    BY <1>1, IpTransportAssumption
  <2>2. todo[t] # <<>> /\ Head(todo[t])[1] = "lock"
    BY <2>1 DEF WaitsFor
  <2>3. Head(todo[t]) \in Instructions
    BY <2>2, ProceedStep
  <2> QED
    BY <2>2, <2>3 DEF WaitsFor, Instructions, SocketCall
<1>2. ASSUME NEW t \in S PROVE R(t) < R(WaitsFor(t))
  <2>1. PICK u \in S : u = WaitsFor(t)
    BY <1>2
  <2>2. Head(todo[t])[2] \in Holds(u)
    BY <1>1, <2>1 DEF Holds
  <2>3. PICK K : Does(0, Head(todo[u]), Holds(u), K)
    BY <1>1, ProceedStep
  <2>4. Head(todo[u])[1] = "lock"
    BY <1>1
  <2>5. \A l \in Holds(u) : Rank(l) < Rank(Head(todo[u])[2])
    BY <2>3, <2>4 DEF Does
  <2> QED
    BY <2>1, <2>2, <2>5
<1>3. \A t \in S : WaitsFor(t) \in S /\ R(t) \in 1 .. 4 /\ R(t) < R(WaitsFor(t))
  BY <1>2, RankType
<1> HIDE DEF R
<1>4. \A t \in S : R(t) < 4
  BY <1>3
<1>5. \A t \in S : R(t) < 3
  BY <1>3, <1>4
<1>6. \A t \in S : R(t) < 2
  BY <1>3, <1>5
<1>7. \A t \in S : R(t) < 1
  BY <1>3, <1>6
<1> QED
  BY <1>3, <1>7

LEMMA ToldOutside == LocksInv => NotifiedUnlocked
<1> SUFFICES ASSUME LocksInv, NEW t \in Threads, todo[t] # <<>>,
                    Head(todo[t]) \in ({"tell"} \X Reacting) \cup {SocketCall},
                    NEW l \in Locks, held[l] = t
             PROVE  FALSE
  BY DEF NotifiedUnlocked
<1>1. PICK K : Does(0, Head(todo[t]), Holds(t), K)
  BY ProceedStep
<1>2. CASE Head(todo[t]) = SocketCall
  BY <1>1, <1>2 DEF Does, SocketCall, Holds
<1>3. CASE Head(todo[t])[1] = "tell" /\ Head(todo[t])[2] \in Reacting
  BY <1>1, <1>3 DEF Does, SocketCall, Holds
<1> QED
  BY <1>2, <1>3

(* No threads of the transport wait for each other in a circle, and none   *)
(* for itself, however many give commands, as long as the manager does not *)
(* answer an error or a lost session with a command.                       *)
THEOREM NeverCircular == ASSUME Calm PROVE Spec => []NoCircularWait
<1>1. Init => LocksInv
  BY InitLocksInv
<1>2. LocksInv /\ [Next]_vars => LocksInv'
  BY NextLocksInv
<1>3. LocksInv => NoCircularWait
  BY NoCircle
<1> QED
  BY <1>1, <1>2, <1>3, PTL DEF Spec

(* A manager that gives commands from within notifications is notified     *)
(* with no mutex held, and none is held in a socket call that may block.   *)
THEOREM AlwaysNotifiedUnlocked == ASSUME Calm PROVE Spec => []NotifiedUnlocked
<1>1. Init => LocksInv
  BY InitLocksInv
<1>2. LocksInv /\ [Next]_vars => LocksInv'
  BY NextLocksInv
<1>3. LocksInv => NotifiedUnlocked
  BY ToldOutside
<1> QED
  BY <1>1, <1>2, <1>3, PTL DEF Spec

-----------------------------------------------------------------------------
(* Start and destruction.                                                  *)

(* Commands are given while the transport is started, callbacks run while  *)
(* the loop does, and there is no way back.                                *)
LifeInv ==
    /\ todo = [t \in Threads |-> todo[t]]
    /\ stage # "started" => \A t \in Users : todo[t] = <<>>
    /\ loop # "running" => todo[Epoll] = <<>>
    /\ stage = "gone" => loop # "running"

LEMMA NextLifeInv == LifeInv /\ [Next]_vars => LifeInv'
<1> SUFFICES ASSUME LifeInv, [Next]_vars PROVE LifeInv'
  OBVIOUS
<1> USE DEF LifeInv
<1>0. Epoll \in Threads /\ Epoll \notin Users /\ Users \subseteq Threads
  BY IpTransportAssumption DEF Threads
<1>1. ASSUME NEW t \in Users, Command(t) PROVE LifeInv'
  BY <1>0, <1>1 DEF Command, Begin
<1>2. ASSUME Dispatch PROVE LifeInv'
  BY <1>0, <1>2 DEF Dispatch, Begin
<1>3. ASSUME NEW t \in Threads,
                    Lock(t) \/ Unlock(t) \/ Notify(t) \/ CallReturns(t)
      PROVE  LifeInv'
  <2>1. todo[t] # <<>> /\ UNCHANGED <<stage, loop>>
    BY <1>3 DEF Lock, Unlock, Notify, CallReturns, InSocketCall
  <2>2. \E q : todo' = [todo EXCEPT ![t] = q]
    BY <1>3 DEF Lock, Unlock, Notify, CallReturns, Proceed
  <2>3. t \in Users => stage = "started"
    BY <2>1
  <2>4. t = Epoll => loop = "running"
    BY <2>1
  <2>5. t \in Users \/ t = Epoll
    BY DEF Threads
  <2> QED
    BY <1>0, <2>1, <2>2, <2>3, <2>4, <2>5
<1>4. ASSUME Start \/ Stop \/ RunReturns \/ RunFails \/ Join PROVE LifeInv'
  BY <1>4 DEF Start, Stop, RunReturns, RunFails, Join
<1>5. ASSUME UNCHANGED vars PROVE LifeInv'
  BY <1>5 DEF vars
<1> QED
  BY <1>1, <1>2, <1>3, <1>4, <1>5 DEF Next

(* main.cpp destroys its manager after the transport: then no callback     *)
(* runs and no command is under way, whatever the manager does and whether *)
(* or not the start had succeeded.                                         *)
THEOREM ManagerAlwaysOutlives == Spec => []ManagerOutlivesCallbacks
<1>1. Init => LifeInv
  BY DEF Init, LifeInv, Threads
<1>2. LifeInv /\ [Next]_vars => LifeInv'
  BY NextLifeInv
<1>3. LifeInv => ManagerOutlivesCallbacks
  BY DEF LifeInv, ManagerOutlivesCallbacks, Threads
<1> QED
  BY <1>1, <1>2, <1>3, PTL DEF Spec
=============================================================================
