--------------------------- MODULE JsClientProofs ---------------------------
(***************************************************************************)
(* Proofs about JsClient: that the client does a request at most once for  *)
(* each try, that it loses no socket and mixes up no answers unless        *)
(* connections race or timers fire, and that its type invariant holds.     *)
(***************************************************************************)
EXTENDS JsClient, TLAPS, FiniteSetTheorems, SequenceTheorems

-----------------------------------------------------------------------------
(* The invariant *)

Attempts == [req : Requests, no : 0 .. maxRetries]
Pieces   == [req : Requests, piece : {"all", "first", "rest"}]

IsConn(c) ==
  /\ DOMAIN c = {"socket", "queue", "active", "buffer", "writes"}
  /\ c.socket \in {0} \cup Sockets
  /\ c.queue \in Seq(Attempts) /\ c.active \in Attempts \cup {NoAttempt}
  /\ c.buffer \in Seq(Pieces) /\ c.writes \in [Sockets -> Seq(Attempts)]

Types ==
  /\ JsTypeOK /\ IsConn(conn)
  /\ back \in [Sockets -> Seq(Pieces)] /\ executed \in [Requests -> Nat]
  /\ dial \in [Requests -> {0} \cup Sockets]
  /\ slipped \in BOOLEAN /\ mixed \in BOOLEAN /\ raced \in BOOLEAN

\* The socket in use is open, the one that fails is not yet closed, and every
\* request that connects has a socket of its own.
SocketInv ==
  /\ conn.socket # 0 => socks[conn.socket] = "open"
  /\ failing # 0 => socks[failing] \in {"open", "ending"}
  /\ \A r \in Requests : phase[r] = "connect" => dial[r] # 0 /\ socks[dial[r]] = "connecting"
  /\ \A q, r \in Requests : phase[q] = "connect" /\ phase[r] = "connect" /\ dial[q] = dial[r] => q = r
  /\ \A s \in Sockets : socks[s] \in {"unused", "connecting"} => conn.writes[s] = <<>> /\ back[s] = <<>>

\* The tries that have left their delay, each of which makes at most one socket.
AllTries == (Requests \X (1 .. maxRetries)) \cup {<<Auth, 0>>}

Spent ==
  {t \in AllTries : t[2] <= tries[t[1]] /\ ~(phase[t[1]] = "delay" /\ t[2] = tries[t[1]])}

Used == {s \in Sockets : socks[s] # "unused"}

Budget ==
  /\ \A r \in Requests : phase[r] = "delay" => <<r, tries[r]>> \in AllTries
  /\ Cardinality(Used) <= Cardinality(Spent)

\* The attempts that were handed to the connection and that no server has read.
Held(c) == ToSet(c.queue) \cup UNION {ToSet(c.writes[s]) : s \in Sockets}

\* None of them is there twice, and what is active has left the queue.
Unique(c) ==
  /\ \A i, j \in 1 .. Len(c.queue) : c.queue[i] = c.queue[j] => i = j
  /\ \A s, t \in Sockets : \A i \in 1 .. Len(c.writes[s]), j \in 1 .. Len(c.writes[t]) :
       c.writes[s][i] = c.writes[t][j] => s = t /\ i = j
  /\ \A i \in 1 .. Len(c.queue), s \in Sockets : \A j \in 1 .. Len(c.writes[s]) :
       c.queue[i] # c.writes[s][j]
  /\ \A i \in 1 .. Len(c.queue) : c.queue[i] # c.active

\* An attempt whose promise is pending, at phases ph and after tr retries.
Live(a, ph, tr) == ph[a.req] = "sent" /\ a.no = tr[a.req]

\* What is active or in the queue is pending.
Owned(c, ph, tr) ==
  /\ c.active # NoAttempt => Live(c.active, ph, tr)
  /\ \A i \in 1 .. Len(c.queue) : Live(c.queue[i], ph, tr)

\* How often request r was sent.
Started(r, ph, tr) == tr[r] + IF ph[r] \in {"new", "delay", "connect"} THEN 0 ELSE 1

Waiting(H, r) == {n \in 0 .. maxRetries : [req |-> r, no |-> n] \in H}

\* What was executed and what still may be are not more than was sent.
Counts(H, ph, tr, ex) ==
  /\ \A a \in H : a.no < Started(a.req, ph, tr)
  /\ \A r \in Requests : ex[r] + Cardinality(Waiting(H, r)) <= Started(r, ph, tr)

AttemptInv ==
  Unique(conn) /\ Owned(conn, phase, tries) /\ Counts(Held(conn), phase, tries, executed)

RaceInv ==
  ~raced =>
    /\ \A s, t \in Used : s = t
    /\ \A s \in Sockets : socks[s] = "open" => s = conn.socket \/ s = failing
    /\ (\A s \in Sockets : socks[s] \in {"unused", "connecting"})
         => conn.active = NoAttempt /\ conn.queue = <<>>

Piece(r, p) == [req |-> r, piece |-> p]

\* What the buffer and the network hold of the reply to r.
OneReply(r, buffer, coming) ==
  \/ buffer = <<>> /\ coming = <<Piece(r, "all")>>
  \/ buffer = <<Piece(r, "all")>> /\ coming = <<>>
  \/ /\ r \in LongReplies
     /\ \/ buffer = <<>> /\ coming = <<Piece(r, "first"), Piece(r, "rest")>>
        \/ buffer = <<Piece(r, "first")>> /\ coming = <<Piece(r, "rest")>>
        \/ buffer = <<Piece(r, "first"), Piece(r, "rest")>> /\ coming = <<>>

Lockstep(c, writes, coming) ==
  \/ c.active = NoAttempt /\ writes = <<>> /\ coming = <<>>
  \/ c.active # NoAttempt /\ writes = <<c.active>> /\ coming = <<>> /\ c.buffer = <<>>
  \/ c.active # NoAttempt /\ writes = <<>> /\ OneReply(c.active.req, c.buffer, coming)

AnswerInv ==
  ~slipped /\ ~raced =>
    /\ ~mixed
    /\ failing = 0 => \A s \in Sockets : socks[s] \in {"open", "ending"}
                        => Lockstep(conn, conn.writes[s], back[s])

JsInv == Types /\ SocketInv /\ Budget /\ AttemptInv /\ RaceInv /\ AnswerInv

-----------------------------------------------------------------------------
(* The constants *)

LEMMA Sets ==
  /\ \A r \in Requests : r \in Nat
  /\ \A s \in Sockets : s \in Nat /\ s # 0
  /\ Auth \in Requests /\ maxRetries \in Nat /\ NumRequests \in Nat
  /\ NoAttempt \notin Attempts
<1>1. NumRequests \in Nat /\ maxRetries \in Nat
  BY ClientAssumption
<1>2. (NumRequests + 1) * maxRetries \in Nat
  BY <1>1
<1>3. \A r \in Requests : r \in Nat
  BY <1>1 DEF Requests, Auth
<1>4. \A s \in Sockets : s \in Nat /\ s # 0
  BY <1>2 DEF Sockets
<1>5. Auth \in Requests
  BY <1>1 DEF Requests, Auth
<1>6. NoAttempt \notin Attempts
  <2>1. \A a \in Attempts : a.req \in Requests
    BY DEF Attempts
  <2>2. NoAttempt.req = -1 /\ -1 \notin Nat
    BY DEF NoAttempt
  <2>. QED BY <1>3, <2>1, <2>2
<1>. QED BY <1>1, <1>3, <1>4, <1>5, <1>6

-----------------------------------------------------------------------------
(* What the operations do to the connection *)

\* A request leaves the queue for the socket, or nothing happens.
Processed(c, d) ==
  /\ d.socket = c.socket
  /\ \/ /\ c.socket = 0 \/ c.active # NoAttempt \/ c.queue = <<>>
        /\ d.queue = c.queue /\ d.active = c.active /\ d.buffer = c.buffer /\ d.writes = c.writes
     \/ /\ c.socket # 0 /\ c.active = NoAttempt /\ c.queue # <<>>
        /\ d.queue = Tail(c.queue) /\ d.active = Head(c.queue) /\ d.buffer = <<>>
        /\ d.writes = [c.writes EXCEPT ![c.socket] = Append(@, Head(c.queue))]

LEMMA ProcessFacts ==
  ASSUME NEW c, IsConn(c)
  PROVE  IsConn(processQueue(c)) /\ Processed(c, processQueue(c))
<1>1. PICK d : d = processQueue(c)
  OBVIOUS
<1>2. CASE c.socket = 0 \/ c.active # NoAttempt \/ c.queue = <<>>
  BY <1>1, <1>2 DEF processQueue, Processed
<1>3. CASE ~(c.socket = 0 \/ c.active # NoAttempt \/ c.queue = <<>>)
  <2>1. PICK h, t : h = Head(c.queue) /\ t = Tail(c.queue)
    OBVIOUS
  <2>2. h \in Attempts /\ t \in Seq(Attempts)
    BY <1>3, <2>1, HeadTailProperties DEF IsConn
  <2>3. PICK w : w = [c.writes EXCEPT ![c.socket] = Append(@, h)]
    OBVIOUS
  <2>4. w \in [Sockets -> Seq(Attempts)]
    <3>1. c.writes \in [Sockets -> Seq(Attempts)] /\ c.socket \in Sockets
      BY <1>3 DEF IsConn
    <3>2. Append(c.writes[c.socket], h) \in Seq(Attempts)
      BY <2>2, <3>1, AppendProperties
    <3>. QED BY <2>3, <3>1, <3>2
  <2>5. d = [c EXCEPT !.active = h, !.queue = t, !.buffer = <<>>,
                      !.writes[c.socket] = Append(@, h)]
    BY <1>1, <1>3, <2>1 DEF processQueue
  <2>6. d = [c EXCEPT !.active = h, !.queue = t, !.buffer = <<>>, !.writes = w]
    BY <2>3, <2>5 DEF IsConn
  <2>7. /\ DOMAIN d = DOMAIN c /\ d.socket = c.socket /\ d.active = h /\ d.queue = t
        /\ d.buffer = <<>> /\ d.writes = w
    BY <2>6 DEF IsConn
  <2>8. IsConn(d)
    BY <2>2, <2>4, <2>7 DEF IsConn
  <2>9. Processed(c, d)
    BY <1>3, <2>1, <2>3, <2>7 DEF Processed
  <2>. QED BY <1>1, <2>8, <2>9
<1>. QED BY <1>2, <1>3

\* d is c without an active request.
Deactivated(c, d) ==
  /\ d.socket = c.socket /\ d.queue = c.queue /\ d.active = NoAttempt /\ d.buffer = <<>>
  /\ d.writes = c.writes

LEMMA DeactivateFacts ==
  ASSUME NEW c, IsConn(c)
  PROVE  IsConn(Deactivate(c)) /\ Deactivated(c, Deactivate(c))
BY DEF IsConn, Deactivate, Deactivated

\* d is c with the first n writes of socket s gone.
Dropped(c, d, s, n) ==
  /\ d.socket = c.socket /\ d.queue = c.queue /\ d.active = c.active /\ d.buffer = c.buffer
  /\ d.writes = [c.writes EXCEPT ![s] = SubSeq(@, n + 1, Len(@))]

LEMMA DropFacts ==
  ASSUME NEW c, IsConn(c), NEW s \in Sockets, NEW n \in 0 .. Len(c.writes[s])
  PROVE  LET d == [c EXCEPT !.writes[s] = SubSeq(@, n + 1, Len(@))]
         IN  IsConn(d) /\ Dropped(c, d, s, n)
<1>1. c.writes \in [Sockets -> Seq(Attempts)] /\ c.writes[s] \in Seq(Attempts)
      /\ Len(c.writes[s]) \in Nat
  BY DEF IsConn
<1>2. PICK u : u = SubSeq(c.writes[s], n + 1, Len(c.writes[s]))
  OBVIOUS
<1>3. u \in Seq(Attempts)
  BY <1>1, <1>2, SubSeqProperties
<1>4. PICK w : w = [c.writes EXCEPT ![s] = u]
  OBVIOUS
<1>5. w \in [Sockets -> Seq(Attempts)]
  BY <1>1, <1>3, <1>4
<1>6. PICK d : d = [c EXCEPT !.writes = w]
  OBVIOUS
<1>7. d = [c EXCEPT !.writes[s] = SubSeq(@, n + 1, Len(@))]
  BY <1>2, <1>4, <1>6 DEF IsConn
<1>8. /\ DOMAIN d = DOMAIN c /\ d.socket = c.socket /\ d.queue = c.queue /\ d.active = c.active
      /\ d.buffer = c.buffer /\ d.writes = w
  BY <1>6 DEF IsConn
<1>9. IsConn(d)
  BY <1>5, <1>8 DEF IsConn
<1>10. Dropped(c, d, s, n)
  BY <1>2, <1>4, <1>8 DEF Dropped
<1>. QED BY <1>7, <1>9, <1>10

\* d is c with attempt a at the end of the queue.
Queued(c, d, a) ==
  /\ d.socket = c.socket /\ d.queue = Append(c.queue, a) /\ d.active = c.active
  /\ d.buffer = c.buffer /\ d.writes = c.writes

LEMMA QueueFacts ==
  ASSUME NEW c, IsConn(c), NEW a \in Attempts
  PROVE  LET d == [c EXCEPT !.queue = Append(@, a)]
         IN  IsConn(d) /\ Queued(c, d, a) /\ Enqueue(c, a) = processQueue(d)
BY AppendProperties DEF IsConn, Queued, Enqueue

\* d is c with another socket.
Socketed(c, d, s) ==
  /\ d.socket = s /\ d.queue = c.queue /\ d.active = c.active /\ d.buffer = c.buffer
  /\ d.writes = c.writes

LEMMA SocketFacts ==
  ASSUME NEW c, IsConn(c), NEW s \in {0} \cup Sockets
  PROVE  LET d == [c EXCEPT !.socket = s] IN IsConn(d) /\ Socketed(c, d, s)
BY DEF IsConn, Socketed

-----------------------------------------------------------------------------
(* The sockets are enough *)

LEMMA TriesCount ==
  /\ IsFiniteSet(AllTries) /\ IsFiniteSet(Sockets)
  /\ Cardinality(AllTries) \in Nat /\ Cardinality(AllTries) = Cardinality(Sockets)
<1>1. PICK k \in Nat, m \in Nat : k = NumRequests + 1 /\ m = maxRetries
  BY Sets
<1>2. IsFiniteSet(Requests) /\ Cardinality(Requests) = k
  BY <1>1, Sets, FS_Interval DEF Requests, Auth
<1>3. IsFiniteSet(1 .. maxRetries) /\ Cardinality(1 .. maxRetries) = m
  <2>1. IsFiniteSet(1 .. m) /\ Cardinality(1 .. m) = m
    BY FS_Interval
  <2>. QED BY <1>1, <2>1
<1>4. PICK P : P = Requests \X (1 .. maxRetries)
  OBVIOUS
<1>5. IsFiniteSet(P) /\ Cardinality(P) = k * m
  BY <1>2, <1>3, <1>4, FS_Product
<1>6. <<Auth, 0>> \notin P
  BY <1>4
<1>7. k * m \in Nat
  BY <1>1
<1>8. IsFiniteSet(AllTries) /\ Cardinality(AllTries) = k * m + 1
  BY <1>4, <1>5, <1>6, FS_AddElement DEF AllTries
<1>9. Sockets = 1 .. 1 + k * m
  BY <1>1 DEF Sockets
<1>10. IsFiniteSet(Sockets) /\ Cardinality(Sockets) = k * m + 1
  <2>1. PICK n \in Nat : n = 1 + k * m
    BY <1>7
  <2>2. IsFiniteSet(1 .. n) /\ Cardinality(1 .. n) = n
    BY <2>1, FS_Interval
  <2>. QED BY <1>7, <1>9, <2>1, <2>2
<1>. QED BY <1>7, <1>8, <1>10

\* There is always a socket for the request that is about to connect.
LEMMA FreeSocket ==
  ASSUME JsInv, NEW r \in Requests, phase[r] = "delay"
  PROVE  \E s \in Sockets : socks[s] = "unused"
<1> SUFFICES ASSUME \A s \in Sockets : socks[s] # "unused" PROVE FALSE
  OBVIOUS
<1>1. Used = Sockets
  BY DEF Used
<1>2. PICK t : t = <<r, tries[r]>>
  OBVIOUS
<1>3. t \in AllTries /\ t \notin Spent /\ Spent \subseteq AllTries
  BY <1>2 DEF JsInv, Budget, Spent
<1>4. IsFiniteSet(AllTries \ {t}) /\ Cardinality(AllTries \ {t}) = Cardinality(AllTries) - 1
  BY <1>3, TriesCount, FS_RemoveElement
<1>5. Spent \in SUBSET (AllTries \ {t})
  BY <1>3
<1>6. Cardinality(Spent) <= Cardinality(AllTries \ {t}) /\ IsFiniteSet(Spent)
  BY <1>4, <1>5, FS_Subset
<1>7. Cardinality(Sockets) <= Cardinality(Spent)
  BY <1>1 DEF JsInv, Budget
<1>8. PICK c, d : c = Cardinality(AllTries) /\ d = Cardinality(Spent)
  OBVIOUS
<1>9. c \in Nat /\ d \in Nat
  BY <1>6, <1>8, TriesCount, FS_CardinalityType
<1>10. d <= c - 1 /\ c <= d
  BY <1>4, <1>6, <1>7, <1>8, TriesCount
<1>. QED BY <1>9, <1>10

-----------------------------------------------------------------------------
(* The steps of sendWithReconnect *)

\* A request at phase p after t retries moves on to phase p2.
Move(p, t, p2, t2) ==
  \/ p2 = p /\ t2 = t
  \/ p \in {"new", "sent"} /\ p2 = "delay" /\ t < maxRetries /\ t2 = t + 1
  \/ p \in {"new", "sent", "connect"} /\ p2 = "failed" /\ t2 = t
  \/ p \in {"new", "delay", "connect"} /\ p2 = "sent" /\ t2 = t
  \/ p = "delay" /\ p2 = "connect" /\ t2 = t
  \/ p = "sent" /\ p2 = "done" /\ t2 = t

Phases == {"new", "delay", "connect", "sent", "done", "failed"}

Moves ==
  /\ phase' \in [Requests -> Phases] /\ tries' \in [Requests -> 0 .. maxRetries]
  /\ \A r \in Requests : Move(phase[r], tries[r], phase'[r], tries'[r])

LEMMA PhaseTypes ==
  ASSUME Types
  PROVE  phase \in [Requests -> Phases] /\ tries \in [Requests -> 0 .. maxRetries]
BY DEF Types, JsTypeOK, Phases

\* The requests in A that were rejected have left phase "sent".
Rejected(A) ==
  \A r \in Requests :
    \/ phase'[r] = phase[r] /\ tries'[r] = tries[r] /\ ~(phase[r] = "sent" /\ Attempt(r) \in A)
    \/ phase[r] = "sent" /\ Attempt(r) \in A /\ phase'[r] # "sent"

LEMMA RejectFacts ==
  ASSUME Types, NEW A, Reject(A)
  PROVE  Moves /\ Rejected(A)
<1>1. phase \in [Requests -> Phases] /\ tries \in [Requests -> 0 .. maxRetries]
  BY PhaseTypes
<1>2. PICK hit : hit = {r \in Requests : phase[r] = "sent" /\ Attempt(r) \in A}
  OBVIOUS
<1>3. /\ phase' = [r \in Requests |-> IF r \notin hit THEN phase[r]
                                      ELSE IF MayRetry(r) THEN "delay" ELSE "failed"]
      /\ tries' = [r \in Requests |-> IF r \in hit /\ MayRetry(r) THEN tries[r] + 1
                                      ELSE tries[r]]
  BY <1>2 DEF Reject
<1>4. \A r \in Requests : tries[r] \in Nat /\ tries[r] <= maxRetries /\ maxRetries \in Nat
                          /\ (MayRetry(r) => tries[r] < maxRetries)
  BY <1>1, Sets DEF MayRetry
<1>5. phase' \in [Requests -> Phases]
  BY <1>1, <1>3 DEF Phases
<1>6. tries' \in [Requests -> 0 .. maxRetries]
  BY <1>3, <1>4
<1>7. ASSUME NEW r \in Requests PROVE Move(phase[r], tries[r], phase'[r], tries'[r])
  <2>1. CASE r \notin hit
    BY <1>3, <2>1 DEF Move
  <2>2. CASE r \in hit /\ MayRetry(r)
    BY <1>2, <1>3, <1>4, <2>2 DEF Move
  <2>3. CASE r \in hit /\ ~MayRetry(r)
    BY <1>2, <1>3, <2>3 DEF Move
  <2>. QED BY <2>1, <2>2, <2>3
<1>8. Rejected(A)
  BY <1>2, <1>3 DEF Rejected
<1>. QED BY <1>5, <1>6, <1>7, <1>8 DEF Moves

\* Request r alone moves, to phase p.
Only(r, p) ==
  /\ phase'[r] = p /\ \A q \in Requests : q # r => phase'[q] = phase[q]
  /\ \A q \in Requests : q # r => tries'[q] = tries[q]

\* Without a socket the request waits or has failed; otherwise it is enqueued.
Sent(c, r) ==
  \/ c.socket = 0 /\ conn' = c /\ (Only(r, "delay") \/ Only(r, "failed"))
  \/ c.socket # 0 /\ conn' = Enqueue(c, Attempt(r)) /\ Only(r, "sent") /\ tries' = tries

LEMMA SendFacts ==
  ASSUME Types, NEW c, NEW r \in Requests, Send(c, r),
         phase[r] = "new" \/ (phase[r] \in {"delay", "connect"} /\ c.socket # 0)
  PROVE  Moves /\ Sent(c, r)
<1>1. phase \in [Requests -> Phases] /\ tries \in [Requests -> 0 .. maxRetries]
  BY PhaseTypes
<1>2. tries[r] \in Nat /\ tries[r] <= maxRetries /\ maxRetries \in Nat
      /\ (MayRetry(r) => tries[r] < maxRetries)
  BY <1>1, Sets DEF MayRetry
<1>3. CASE c.socket = 0 /\ MayRetry(r)
  <2>1. /\ conn' = c /\ phase' = [phase EXCEPT ![r] = "delay"]
        /\ tries' = [tries EXCEPT ![r] = tries[r] + 1]
    BY <1>1, <1>3 DEF Send
  <2>2. phase' \in [Requests -> Phases] /\ tries' \in [Requests -> 0 .. maxRetries]
    BY <1>1, <1>2, <1>3, <2>1 DEF Phases
  <2>3. Only(r, "delay") /\ tries'[r] = tries[r] + 1
    BY <1>1, <2>1 DEF Only
  <2>4. \A q \in Requests : Move(phase[q], tries[q], phase'[q], tries'[q])
    BY <1>2, <1>3, <2>3 DEF Only, Move
  <2>. QED BY <1>3, <2>1, <2>2, <2>3, <2>4 DEF Moves, Sent
<1>4. CASE c.socket = 0 /\ ~MayRetry(r)
  <2>1. conn' = c /\ phase' = [phase EXCEPT ![r] = "failed"] /\ tries' = tries
    BY <1>1, <1>4 DEF Send
  <2>2. phase' \in [Requests -> Phases]
    BY <1>1, <2>1 DEF Phases
  <2>3. Only(r, "failed") /\ tries'[r] = tries[r]
    BY <1>1, <2>1 DEF Only
  <2>4. \A q \in Requests : Move(phase[q], tries[q], phase'[q], tries'[q])
    BY <1>4, <2>3 DEF Only, Move
  <2>. QED BY <1>1, <1>4, <2>1, <2>2, <2>3, <2>4 DEF Moves, Sent
<1>5. CASE c.socket # 0
  <2>1. conn' = Enqueue(c, Attempt(r)) /\ phase' = [phase EXCEPT ![r] = "sent"] /\ tries' = tries
    BY <1>5 DEF Send
  <2>2. phase' \in [Requests -> Phases]
    BY <1>1, <2>1 DEF Phases
  <2>3. Only(r, "sent") /\ tries'[r] = tries[r]
    BY <1>1, <2>1 DEF Only
  <2>4. \A q \in Requests : Move(phase[q], tries[q], phase'[q], tries'[q])
    BY <2>3 DEF Only, Move
  <2>. QED BY <1>1, <1>5, <2>1, <2>2, <2>3, <2>4 DEF Moves, Sent
<1>. QED BY <1>3, <1>4, <1>5

-----------------------------------------------------------------------------
(* What each step does to the connection *)

\* Attempt a joins the queue of c, and the queue is processed.
Enqueues(c, a) == \E d : IsConn(d) /\ Queued(c, d, a) /\ Processed(d, conn')

\* The request that is active in c is taken out, and the queue is processed.
Deactivates(c) == \E d : IsConn(d) /\ Deactivated(c, d) /\ Processed(d, conn')

LEMMA EnqueueFacts ==
  ASSUME NEW c, IsConn(c), NEW a \in Attempts, conn' = Enqueue(c, a)
  PROVE  IsConn(conn') /\ Enqueues(c, a)
<1>1. PICK d : d = [c EXCEPT !.queue = Append(@, a)]
  OBVIOUS
<1>2. IsConn(d) /\ Queued(c, d, a) /\ conn' = processQueue(d)
  BY <1>1, QueueFacts
<1>3. IsConn(conn') /\ Processed(d, conn')
  BY <1>2, ProcessFacts
<1>. QED BY <1>2, <1>3, Zenon DEF Enqueues

LEMMA DeactivatesFacts ==
  ASSUME NEW c, IsConn(c), conn' = processQueue(Deactivate(c))
  PROVE  IsConn(conn') /\ Deactivates(c)
<1>1. PICK d : d = Deactivate(c)
  OBVIOUS
<1>2. IsConn(d) /\ Deactivated(c, d)
  BY <1>1, DeactivateFacts
<1>3. IsConn(conn') /\ Processed(d, conn')
  BY <1>1, <1>2, ProcessFacts
<1>. QED BY <1>2, <1>3, Zenon DEF Deactivates

LEMMA AttemptType ==
  ASSUME Types, NEW r \in Requests
  PROVE  Attempt(r) \in Attempts /\ Attempt(r).req = r /\ Attempt(r).no = tries[r]
BY DEF Types, JsTypeOK, Attempt, Attempts

LEMMA CallFacts ==
  ASSUME JsInv, NEW r \in Requests, Call(r)
  PROVE  /\ phase[r] = "new" /\ Moves /\ Sent(conn, r) /\ IsConn(conn') /\ failing = 0
         /\ conn.socket # 0 => Enqueues(conn, Attempt(r))
<1>1. Types /\ IsConn(conn) /\ phase[r] = "new" /\ Send(conn, r) /\ failing = 0
  BY DEF JsInv, Types, Call
<1>2. Moves /\ Sent(conn, r)
  BY <1>1, SendFacts
<1>3. CASE conn.socket = 0
  BY <1>1, <1>2, <1>3 DEF Sent
<1>4. CASE conn.socket # 0
  <2>1. conn' = Enqueue(conn, Attempt(r))
    BY <1>2, <1>4 DEF Sent
  <2>. QED BY <1>1, <1>2, <2>1, AttemptType, EnqueueFacts
<1>. QED BY <1>3, <1>4

\* connect() that returns at once.
ConnectNow(r) ==
  /\ failing = 0 /\ phase[r] = "delay" /\ conn.socket # 0
  /\ Send(conn, r)
  /\ UNCHANGED <<socks, dial, raced, failing, left, net, slipped, mixed>>

\* connect() that makes socket s.
ConnectNew(r, s) ==
  /\ failing = 0 /\ phase[r] = "delay" /\ conn.socket = 0 /\ socks[s] = "unused"
  /\ socks' = [socks EXCEPT ![s] = "connecting"] /\ dial' = [dial EXCEPT ![r] = s]
  /\ raced' = (raced \/ \E t \in Sockets : socks[t] \in {"connecting", "ending"})
  /\ phase' = [phase EXCEPT ![r] = "connect"]
  /\ UNCHANGED <<conn, tries, failing, left, net, slipped, mixed>>

LEMMA ConnectCases ==
  ASSUME JsInv, NEW r \in Requests, connect(r)
  PROVE  ConnectNow(r) \/ \E s \in Sockets : ConnectNew(r, s)
<1>1. CASE conn.socket # 0
  BY <1>1 DEF connect, ConnectNow
<1>2. CASE conn.socket = 0
  <2>1. PICK s : s = CHOOSE t \in Sockets : socks[t] = "unused"
    OBVIOUS
  <2>2. phase[r] = "delay"
    BY DEF connect
  <2>3. s \in Sockets /\ socks[s] = "unused"
    BY <2>1, <2>2, FreeSocket
  <2>4. ConnectNew(r, s)
    BY <1>2, <2>1, <2>3 DEF connect, ConnectNew
  <2>. QED BY <2>3, <2>4
<1>. QED BY <1>1, <1>2

LEMMA ConnectNowFacts ==
  ASSUME JsInv, NEW r \in Requests, ConnectNow(r)
  PROVE  /\ Moves /\ Sent(conn, r) /\ IsConn(conn') /\ Enqueues(conn, Attempt(r))
<1>1. Types /\ IsConn(conn) /\ phase[r] = "delay" /\ Send(conn, r) /\ conn.socket # 0
  BY DEF JsInv, Types, ConnectNow
<1>2. Moves /\ Sent(conn, r)
  BY <1>1, SendFacts
<1>3. conn' = Enqueue(conn, Attempt(r))
  BY <1>1, <1>2 DEF Sent
<1>. QED BY <1>1, <1>2, <1>3, AttemptType, EnqueueFacts

LEMMA ConnectNewFacts ==
  ASSUME JsInv, NEW r \in Requests, NEW s \in Sockets, ConnectNew(r, s)
  PROVE  Moves /\ Only(r, "connect") /\ tries' = tries
<1>1. phase \in [Requests -> Phases] /\ tries \in [Requests -> 0 .. maxRetries]
  BY PhaseTypes DEF JsInv
<1>2. phase' = [phase EXCEPT ![r] = "connect"] /\ phase[r] = "delay" /\ tries' = tries
  BY DEF ConnectNew
<1>3. phase' \in [Requests -> Phases]
  BY <1>1, <1>2 DEF Phases
<1>4. Only(r, "connect")
  BY <1>1, <1>2 DEF Only
<1>5. \A q \in Requests : Move(phase[q], tries[q], phase'[q], tries'[q])
  BY <1>2, <1>4 DEF Only, Move
<1>. QED BY <1>1, <1>2, <1>3, <1>4, <1>5 DEF Moves

LEMMA ConnectedFacts ==
  ASSUME JsInv, NEW r \in Requests, Connected(r)
  PROVE  /\ Moves /\ IsConn(conn') /\ dial[r] \in Sockets /\ socks[dial[r]] = "connecting"
         /\ Only(r, "sent") /\ tries' = tries
         /\ \E c : IsConn(c) /\ Socketed(conn, c, dial[r]) /\ Enqueues(c, Attempt(r))
<1>1. PICK c : c = [conn EXCEPT !.socket = dial[r]]
  OBVIOUS
<1>2. Types /\ IsConn(conn) /\ phase[r] = "connect" /\ Send(c, r)
  BY <1>1 DEF JsInv, Types, Connected
<1>3. dial[r] \in Sockets /\ dial[r] # 0 /\ socks[dial[r]] = "connecting"
  BY <1>2, Sets DEF JsInv, SocketInv, Types
<1>4. IsConn(c) /\ Socketed(conn, c, dial[r]) /\ c.socket # 0
  <2>1. IsConn(c) /\ Socketed(conn, c, dial[r])
    BY <1>1, <1>2, <1>3, SocketFacts
  <2>. QED BY <1>3, <2>1 DEF Socketed
<1>5. Moves /\ Sent(c, r)
  BY <1>2, <1>4, SendFacts
<1>6. conn' = Enqueue(c, Attempt(r)) /\ Only(r, "sent") /\ tries' = tries
  BY <1>4, <1>5 DEF Sent
<1>7. IsConn(conn') /\ Enqueues(c, Attempt(r))
  BY <1>2, <1>4, <1>6, AttemptType, EnqueueFacts
<1>. QED BY <1>3, <1>4, <1>5, <1>6, <1>7, Zenon

LEMMA ConnectFailsFacts ==
  ASSUME JsInv, NEW r \in Requests, ConnectFails(r)
  PROVE  /\ Moves /\ Only(r, "failed") /\ dial[r] \in Sockets /\ socks[dial[r]] = "connecting"
         /\ tries' = tries
<1>1. phase \in [Requests -> Phases] /\ tries \in [Requests -> 0 .. maxRetries]
  BY PhaseTypes DEF JsInv
<1>2. phase' = [phase EXCEPT ![r] = "failed"] /\ phase[r] = "connect" /\ tries' = tries
  BY DEF ConnectFails
<1>3. phase' \in [Requests -> Phases]
  BY <1>1, <1>2 DEF Phases
<1>4. Only(r, "failed")
  BY <1>1, <1>2 DEF Only
<1>5. \A q \in Requests : Move(phase[q], tries[q], phase'[q], tries'[q])
  BY <1>2, <1>4 DEF Only, Move
<1>6. dial[r] \in Sockets /\ socks[dial[r]] = "connecting"
  BY <1>2, Sets DEF JsInv, SocketInv, Types
<1>. QED BY <1>1, <1>2, <1>3, <1>4, <1>5, <1>6 DEF Moves

LEMMA SettleFacts ==
  ASSUME JsInv, Settle
  PROVE  /\ conn.active \in Attempts /\ Moves /\ Only(conn.active.req, "done") /\ tries' = tries
         /\ IsConn(conn') /\ Deactivates(conn)
<1>1. phase \in [Requests -> Phases] /\ tries \in [Requests -> 0 .. maxRetries]
  BY PhaseTypes DEF JsInv
<1>2. conn.active \in Attempts /\ IsConn(conn) /\ Live(conn.active, phase, tries)
  BY DEF JsInv, Types, IsConn, Settle, AttemptInv, Owned
<1>3. PICK r \in Requests : r = conn.active.req
  BY <1>2 DEF Attempts
<1>4. phase' = [phase EXCEPT ![r] = "done"] /\ tries' = tries /\ phase[r] = "sent"
  BY <1>2, <1>3 DEF Settle, Live
<1>5. phase' \in [Requests -> Phases]
  BY <1>1, <1>4 DEF Phases
<1>6. Only(r, "done")
  BY <1>1, <1>4 DEF Only
<1>7. \A q \in Requests : Move(phase[q], tries[q], phase'[q], tries'[q])
  BY <1>4, <1>6 DEF Only, Move
<1>8. IsConn(conn') /\ Deactivates(conn)
  BY <1>2, DeactivatesFacts DEF Settle
<1>. QED BY <1>1, <1>2, <1>3, <1>4, <1>5, <1>6, <1>7, <1>8 DEF Moves

LEMMA TimeoutFacts ==
  ASSUME JsInv, Timeout
  PROVE  Moves /\ Rejected({conn.active}) /\ IsConn(conn') /\ Deactivates(conn)
<1>1. Types /\ IsConn(conn)
  BY DEF JsInv, Types
<1>2. IsConn(conn') /\ Deactivates(conn)
  BY <1>1, DeactivatesFacts DEF Timeout
<1>. QED BY <1>1, <1>2, RejectFacts DEF Timeout

\* The writes of socket s lose their first n.
LEMMA WrittenFacts ==
  ASSUME JsInv, NEW s \in Sockets, NEW n \in 0 .. Len(conn.writes[s]), conn' = Written(s, n)
  PROVE  IsConn(conn') /\ Dropped(conn, conn', s, n)
BY DropFacts DEF Written, JsInv, Types

LEMMA WriteErrorFacts ==
  ASSUME JsInv, WriteError
  PROVE  /\ failing \in Sockets /\ conn.writes[failing] # <<>>
         /\ Moves /\ Rejected({Head(conn.writes[failing])}) /\ IsConn(conn')
         /\ \E c : /\ IsConn(c) /\ Dropped(conn, c, failing, 1)
                   /\ \/ conn.active = NoAttempt /\ conn' = c
                      \/ conn.active # NoAttempt /\ Deactivates(c)
<1>1. /\ Types /\ IsConn(conn) /\ failing \in Sockets /\ conn.writes[failing] # <<>>
      /\ conn.writes[failing] \in Seq(Attempts)
  BY DEF JsInv, Types, JsTypeOK, IsConn, WriteError
<1>2. PICK c : c = [conn EXCEPT !.writes[failing] = Tail(@)]
  OBVIOUS
<1>3. /\ Reject({Head(conn.writes[failing])})
      /\ conn' = IF conn.active = NoAttempt THEN c ELSE processQueue(Deactivate(c))
  BY <1>2 DEF WriteError
<1>4. IsConn(c) /\ Dropped(conn, c, failing, 1)
  <2>1. Len(conn.writes[failing]) \in Nat /\ Len(conn.writes[failing]) >= 1
    BY <1>1, EmptySeq
  <2>2. Tail(conn.writes[failing]) = SubSeq(conn.writes[failing], 1 + 1, Len(conn.writes[failing]))
    BY <1>1, <2>1
  <2>3. c = [conn EXCEPT !.writes[failing] = SubSeq(@, 1 + 1, Len(@))]
    BY <1>1, <1>2, <2>2 DEF IsConn
  <2>4. 1 \in 0 .. Len(conn.writes[failing])
    BY <2>1
  <2>. QED BY <1>1, <2>3, <2>4, DropFacts
<1>5. Moves /\ Rejected({Head(conn.writes[failing])})
  BY <1>1, <1>3, RejectFacts
<1>6. CASE conn.active = NoAttempt
  BY <1>1, <1>3, <1>4, <1>5, <1>6
<1>7. CASE conn.active # NoAttempt
  <2>1. IsConn(conn') /\ Deactivates(c)
    BY <1>3, <1>4, <1>7, DeactivatesFacts
  <2>. QED BY <1>1, <1>4, <1>5, <1>7, <2>1
<1>. QED BY <1>6, <1>7

LEMMA CloseFacts ==
  ASSUME JsInv, Close
  PROVE  /\ failing \in Sockets /\ conn.writes[failing] = <<>>
         /\ Moves /\ Rejected(failPending(conn)) /\ IsConn(conn')
         /\ conn'.socket = 0 /\ conn'.queue = <<>> /\ conn'.active = NoAttempt
         /\ conn'.buffer = <<>> /\ conn'.writes = conn.writes
<1>1. Types /\ IsConn(conn) /\ failing \in Sockets /\ conn.writes[failing] = <<>>
  BY DEF JsInv, Types, JsTypeOK, Close
<1>2. Moves /\ Rejected(failPending(conn))
  BY <1>1, RejectFacts DEF Close
<1>3. PICK d : d = Deactivate(conn)
  OBVIOUS
<1>4. IsConn(d) /\ Deactivated(conn, d)
  BY <1>1, <1>3, DeactivateFacts
<1>5. conn' = [d EXCEPT !.socket = 0, !.queue = <<>>]
  BY <1>3 DEF Close
<1>6. /\ DOMAIN conn' = DOMAIN d /\ conn'.socket = 0 /\ conn'.queue = <<>>
      /\ conn'.active = d.active /\ conn'.buffer = d.buffer /\ conn'.writes = d.writes
  BY <1>4, <1>5 DEF IsConn
<1>7. IsConn(conn')
  BY <1>4, <1>6 DEF IsConn
<1>. QED BY <1>1, <1>2, <1>4, <1>6, <1>7 DEF Deactivated

-----------------------------------------------------------------------------
(* Types *)

SockStates == {"unused", "connecting", "open", "ending"}

RestTypes(sk, fl, bk, ex, dl, sl, mx, rc) ==
  /\ sk \in [Sockets -> SockStates] /\ fl \in {0} \cup Sockets
  /\ bk \in [Sockets -> Seq(Pieces)] /\ ex \in [Requests -> Nat]
  /\ dl \in [Requests -> {0} \cup Sockets]
  /\ sl \in BOOLEAN /\ mx \in BOOLEAN /\ rc \in BOOLEAN

LEMMA RestOfTypes ==
  ASSUME Types
  PROVE  RestTypes(socks, failing, back, executed, dial, slipped, mixed, raced)
BY DEF Types, JsTypeOK, RestTypes, SockStates

LEMMA TypesPrimed ==
  ASSUME IsConn(conn'), Moves,
         RestTypes(socks', failing', back', executed', dial', slipped', mixed', raced')
  PROVE  Types'
BY DEF IsConn, Moves, Phases, RestTypes, Types, JsTypeOK, SockStates, Sockets, Requests, Attempts,
       Pieces, NoAttempt, Auth

\* Nothing moves.
LEMMA StillMoves ==
  ASSUME Types, phase' = phase, tries' = tries
  PROVE  Moves
<1>1. phase \in [Requests -> Phases] /\ tries \in [Requests -> 0 .. maxRetries]
  BY PhaseTypes
<1>. QED BY <1>1 DEF Moves, Move

LEMMA ReplyTypes ==
  ASSUME NEW r \in Requests, NEW reply \in RepliesTo(r)
  PROVE  /\ reply \in Seq(Pieces)
         /\ \/ reply = <<Piece(r, "all")>>
            \/ r \in LongReplies /\ reply = <<Piece(r, "first"), Piece(r, "rest")>>
<1>1. \/ reply = <<Piece(r, "all")>>
      \/ r \in LongReplies /\ reply = <<Piece(r, "first"), Piece(r, "rest")>>
  BY DEF RepliesTo, Piece
<1>2. Piece(r, "all") \in Pieces /\ Piece(r, "first") \in Pieces /\ Piece(r, "rest") \in Pieces
  BY DEF Piece, Pieces
<1>3. PICK x, y, z : x = Piece(r, "all") /\ y = Piece(r, "first") /\ z = Piece(r, "rest")
  OBVIOUS
<1>4. <<x>> \in Seq(Pieces) /\ <<y, z>> \in Seq(Pieces)
  BY <1>2, <1>3
<1>5. reply \in Seq(Pieces)
  BY <1>1, <1>3, <1>4
<1>. QED BY <1>1, <1>5, Zenon

LEMMA ServeFacts ==
  ASSUME JsInv, NEW s \in Sockets, Serve(s)
  PROVE  /\ failing = 0 /\ socks[s] \in {"open", "ending"}
         /\ conn.writes[s] \in Seq(Attempts) /\ conn.writes[s] # <<>>
         /\ \E n \in 1 .. Len(conn.writes[s]) : Dropped(conn, conn', s, n)
         /\ IsConn(conn')
         /\ \E r \in Requests :
              /\ r = Head(conn.writes[s]).req
              /\ executed' = executed \/ executed' = [executed EXCEPT ![r] = @ + 1]
              /\ \E reply \in RepliesTo(r) : back' = [back EXCEPT ![s] = @ \o reply]
<1>1. conn.writes[s] \in Seq(Attempts) /\ IsConn(conn)
  BY DEF JsInv, Types, IsConn
<1>2. PICK n \in 1 .. Len(conn.writes[s]) : conn' = Written(s, n)
  BY DEF Serve
<1>3. Len(conn.writes[s]) \in Nat /\ n \in 0 .. Len(conn.writes[s]) /\ conn.writes[s] # <<>>
  BY <1>1, <1>2
<1>4. IsConn(conn') /\ Dropped(conn, conn', s, n)
  BY <1>2, <1>3, WrittenFacts
<1>5. PICK r : r = Head(conn.writes[s]).req
  OBVIOUS
<1>6. r \in Requests
  <2>1. PICK a \in Attempts : a = Head(conn.writes[s])
    BY <1>1, <1>3, HeadTailProperties
  <2>2. a.req \in Requests
    BY DEF Attempts
  <2>. QED BY <1>5, <2>1, <2>2
<1>7. /\ executed' = executed \/ executed' = [executed EXCEPT ![r] = @ + 1]
      /\ \E reply \in RepliesTo(r) : back' = [back EXCEPT ![s] = @ \o reply]
  BY <1>5 DEF Serve
<1>8. failing = 0 /\ socks[s] \in {"open", "ending"}
  BY DEF Serve
<1>. QED BY <1>1, <1>2, <1>3, <1>4, <1>5, <1>6, <1>7, <1>8

LEMMA TypesStep ==
  ASSUME JsInv, JsNext
  PROVE  Types'
<1>0. Types /\ RestTypes(socks, failing, back, executed, dial, slipped, mixed, raced)
  BY RestOfTypes DEF JsInv
<1>a. conn.socket \in {0} \cup Sockets /\ IsConn(conn)
  BY <1>0 DEF Types, IsConn
<1>1. ASSUME NEW r \in Requests, Call(r) PROVE Types'
  <2>1. RestTypes(socks', failing', back', executed', dial', slipped', mixed', raced')
    BY <1>0, <1>1 DEF Call, net, history
  <2>. QED BY <1>1, <2>1, CallFacts, TypesPrimed
<1>2. CASE Disconnect
  <2>1. RestTypes(socks', failing', back', executed', dial', slipped', mixed', raced')
    BY <1>0, <1>2, <1>a DEF Disconnect, net, history, RestTypes, SockStates
  <2>2. IsConn(conn')
    BY <1>2, <1>a, SocketFacts DEF Disconnect
  <2>3. Moves
    BY <1>0, <1>2, StillMoves DEF Disconnect
  <2>. QED BY <2>1, <2>2, <2>3, TypesPrimed
<1>3. ASSUME NEW r \in Requests, ConnectNow(r) PROVE Types'
  <2>1. RestTypes(socks', failing', back', executed', dial', slipped', mixed', raced')
    BY <1>0, <1>3 DEF ConnectNow, net
  <2>. QED BY <1>3, <2>1, ConnectNowFacts, TypesPrimed
<1>4. ASSUME NEW r \in Requests, NEW s \in Sockets, ConnectNew(r, s) PROVE Types'
  <2>1. RestTypes(socks', failing', back', executed', dial', slipped', mixed', raced')
    BY <1>0, <1>4 DEF ConnectNew, net, RestTypes, SockStates
  <2>2. IsConn(conn')
    BY <1>4, <1>a DEF ConnectNew
  <2>. QED BY <1>4, <2>1, <2>2, ConnectNewFacts, TypesPrimed
<1>5. ASSUME NEW r \in Requests, Connected(r) PROVE Types'
  <2>1. RestTypes(socks', failing', back', executed', dial', slipped', mixed', raced')
    BY <1>0, <1>5 DEF Connected, net, history, RestTypes, SockStates
  <2>. QED BY <1>5, <2>1, ConnectedFacts, TypesPrimed
<1>6. ASSUME NEW r \in Requests, ConnectFails(r) PROVE Types'
  <2>1. RestTypes(socks', failing', back', executed', dial', slipped', mixed', raced')
    BY <1>0, <1>6 DEF ConnectFails, net, history, RestTypes, SockStates
  <2>2. IsConn(conn')
    BY <1>6, <1>a DEF ConnectFails
  <2>. QED BY <1>6, <2>1, <2>2, ConnectFailsFacts, TypesPrimed
<1>7. ASSUME NEW s \in Sockets, Data(s) PROVE Types'
  <2>1. back[s] \in Seq(Pieces) /\ back[s] # <<>>
    BY <1>0, <1>7 DEF Data, RestTypes
  <2>2. Head(back[s]) \in Pieces /\ Tail(back[s]) \in Seq(Pieces)
    BY <2>1, HeadTailProperties
  <2>3. RestTypes(socks', failing', back', executed', dial', slipped', mixed', raced')
    BY <1>0, <1>7, <2>2 DEF Data, history, RestTypes
  <2>4. IsConn(conn')
    <3>1. Append(conn.buffer, Head(back[s])) \in Seq(Pieces)
      BY <1>a, <2>2, AppendProperties DEF IsConn
    <3>2. CASE conn.active = NoAttempt
      BY <1>7, <1>a, <3>2 DEF Data
    <3>3. CASE conn.active # NoAttempt
      <4>1. conn' = [conn EXCEPT !.buffer = Append(conn.buffer, Head(back[s]))]
        BY <1>7, <3>3 DEF Data
      <4>. QED BY <1>a, <3>1, <4>1 DEF IsConn
    <3>. QED BY <3>2, <3>3
  <2>5. Moves
    BY <1>0, <1>7, StillMoves DEF Data
  <2>. QED BY <2>3, <2>4, <2>5, TypesPrimed
<1>8. CASE Settle
  <2>1. RestTypes(socks', failing', back', executed', dial', slipped', mixed', raced')
    BY <1>0, <1>8 DEF Settle, net, RestTypes
  <2>. QED BY <1>8, <2>1, SettleFacts, TypesPrimed
<1>9. CASE Timeout
  <2>1. RestTypes(socks', failing', back', executed', dial', slipped', mixed', raced')
    BY <1>0, <1>9 DEF Timeout, net, RestTypes
  <2>. QED BY <1>9, <2>1, TimeoutFacts, TypesPrimed
<1>10. ASSUME NEW s \in Sockets, Break(s) \/ Ended(s) PROVE Types'
  <2>1. RestTypes(socks', failing', back', executed', dial', slipped', mixed', raced')
    BY <1>0, <1>10 DEF Break, Ended, net, history, RestTypes
  <2>2. PICK n \in 0 .. Len(conn.writes[s]) : conn' = Written(s, n)
    BY <1>10 DEF Break, Ended
  <2>3. IsConn(conn')
    BY <2>2, WrittenFacts
  <2>4. Moves
    BY <1>0, <1>10, StillMoves DEF Break, Ended
  <2>. QED BY <2>1, <2>3, <2>4, TypesPrimed
<1>11. CASE WriteError
  <2>1. RestTypes(socks', failing', back', executed', dial', slipped', mixed', raced')
    BY <1>0, <1>11 DEF WriteError, net, history
  <2>. QED BY <1>11, <2>1, WriteErrorFacts, TypesPrimed
<1>12. CASE Close
  <2>0. failing \in Sockets
    BY <1>12, CloseFacts
  <2>1. RestTypes(socks', failing', back', executed', dial', slipped', mixed', raced')
    BY <1>0, <1>12, <2>0 DEF Close, history, RestTypes, SockStates
  <2>. QED BY <1>12, <2>1, CloseFacts, TypesPrimed
<1>13. ASSUME NEW s \in Sockets, Serve(s) PROVE Types'
  <2>1. PICK r \in Requests :
              /\ executed' = executed \/ executed' = [executed EXCEPT ![r] = @ + 1]
              /\ \E reply \in RepliesTo(r) : back' = [back EXCEPT ![s] = @ \o reply]
    BY <1>13, ServeFacts
  <2>2. PICK reply \in RepliesTo(r) : back' = [back EXCEPT ![s] = @ \o reply]
    BY <2>1
  <2>3. reply \in Seq(Pieces) /\ back[s] \in Seq(Pieces)
    BY <1>0, ReplyTypes DEF RestTypes
  <2>4. back[s] \o reply \in Seq(Pieces)
    BY <2>3, ConcatProperties
  <2>5. back' \in [Sockets -> Seq(Pieces)]
    BY <1>0, <2>2, <2>4 DEF RestTypes
  <2>6. executed' \in [Requests -> Nat]
    BY <1>0, <2>1 DEF RestTypes
  <2>7. RestTypes(socks', failing', back', executed', dial', slipped', mixed', raced')
    BY <1>0, <1>13, <2>5, <2>6 DEF Serve, history, RestTypes
  <2>8. Moves
    BY <1>0, <1>13, StillMoves DEF Serve
  <2>. QED BY <1>13, <2>7, <2>8, ServeFacts, TypesPrimed
<1>. QED BY <1>1, <1>2, <1>3, <1>4, <1>5, <1>6, <1>7, <1>8, <1>9, <1>10, <1>11, <1>12, <1>13,
            ConnectCases
         DEF JsNext, Application, EventLoop, Network

-----------------------------------------------------------------------------
(* Sockets *)

\* What SocketInv says of socket states sk, writes w and replies bk.
Quiet(sk, w, bk) ==
  \A s \in Sockets : sk[s] \in {"unused", "connecting"} => w[s] = <<>> /\ bk[s] = <<>>

InUse(sk, cs, fl) ==
  /\ cs # 0 => sk[cs] = "open"
  /\ fl # 0 => sk[fl] \in {"open", "ending"}

Dialling(sk, ph, dl) ==
  /\ \A r \in Requests : ph[r] = "connect" => dl[r] # 0 /\ sk[dl[r]] = "connecting"
  /\ \A q, r \in Requests : ph[q] = "connect" /\ ph[r] = "connect" /\ dl[q] = dl[r] => q = r

LEMMA SocketParts ==
  /\ SocketInv <=> /\ Quiet(socks, conn.writes, back) /\ InUse(socks, conn.socket, failing)
                   /\ Dialling(socks, phase, dial)
  /\ SocketInv' <=> /\ Quiet(socks', conn'.writes, back') /\ InUse(socks', conn'.socket, failing')
                    /\ Dialling(socks', phase', dial')
BY DEF SocketInv, Quiet, InUse, Dialling, Sockets, Requests, Auth

\* A move that is not that of a connect() leaves the others where they were.
LEMMA SameDialling ==
  ASSUME Dialling(socks, phase, dial), dial' = dial,
         \A r \in Requests : phase'[r] = "connect" => phase[r] = "connect",
         \A s \in Sockets \cup {0} : socks[s] = "connecting" => socks'[s] = "connecting",
         dial \in [Requests -> {0} \cup Sockets]
  PROVE  Dialling(socks', phase', dial')
BY DEF Dialling

\* The writes after the queue was processed.
LEMMA ProcessedWrites ==
  ASSUME NEW c, NEW d, IsConn(c), Processed(c, d)
  PROVE  \A s \in Sockets : s # c.socket => d.writes[s] = c.writes[s]
BY DEF IsConn, Processed

LEMMA NotConnect ==
  ASSUME NEW p, NEW t, NEW p2, NEW t2, Move(p, t, p2, t2), p # "delay"
  PROVE  p2 = "connect" => p = "connect"
BY DEF Move

\* Rejections do not start a connect().
LEMMA RejectedNotConnect ==
  ASSUME Moves, NEW A, Rejected(A)
  PROVE  \A r \in Requests : phase'[r] = "connect" => phase[r] = "connect"
<1> SUFFICES ASSUME NEW r \in Requests, phase'[r] = "connect" PROVE phase[r] = "connect"
  OBVIOUS
<1>1. phase'[r] = phase[r] \/ phase[r] = "sent"
  BY DEF Rejected
<1>2. Move(phase[r], tries[r], phase'[r], tries'[r])
  BY DEF Moves
<1>. QED BY <1>1, <1>2, NotConnect

LEMMA SocketStep ==
  ASSUME JsInv, JsNext
  PROVE  SocketInv'
<1>0. /\ Quiet(socks, conn.writes, back) /\ InUse(socks, conn.socket, failing)
      /\ Dialling(socks, phase, dial)
  BY SocketParts DEF JsInv
<1>a. /\ conn.socket \in {0} \cup Sockets /\ IsConn(conn) /\ failing \in {0} \cup Sockets
      /\ socks \in [Sockets -> SockStates] /\ dial \in [Requests -> {0} \cup Sockets]
      /\ conn.writes \in [Sockets -> Seq(Attempts)] /\ back \in [Sockets -> Seq(Pieces)]
      /\ phase \in [Requests -> Phases] /\ 0 \notin Sockets
  BY Sets DEF JsInv, Types, JsTypeOK, IsConn, SockStates, Phases
<1>b. ASSUME NEW c, IsConn(c), c.writes = conn.writes, c.socket = 0 \/ socks'[c.socket] = "open",
             NEW a, Enqueues(c, a),
             \A s \in Sockets : socks'[s] \in {"unused", "connecting"}
                                  => socks[s] \in {"unused", "connecting"},
             back' = back
      PROVE  Quiet(socks', conn'.writes, back') /\ conn'.socket = c.socket
  <2>1. PICK d : IsConn(d) /\ Queued(c, d, a) /\ Processed(d, conn')
    BY <1>b DEF Enqueues
  <2>2. d.socket = c.socket /\ d.writes = conn.writes /\ conn'.socket = c.socket
    BY <1>b, <2>1 DEF Queued, Processed
  <2>3. \A s \in Sockets : s # c.socket => conn'.writes[s] = conn.writes[s]
    BY <2>1, <2>2, ProcessedWrites
  <2>. QED BY <1>0, <1>a, <1>b, <2>2, <2>3 DEF Quiet
<1>c. ASSUME NEW c, IsConn(c), Deactivates(c), c.socket = conn.socket, socks' = socks, back' = back,
             Quiet(socks, c.writes, back)
      PROVE  Quiet(socks', conn'.writes, back') /\ conn'.socket = conn.socket
  <2>1. PICK d : IsConn(d) /\ Deactivated(c, d) /\ Processed(d, conn')
    BY <1>c DEF Deactivates
  <2>2. d.socket = conn.socket /\ d.writes = c.writes /\ conn'.socket = conn.socket
    BY <1>c, <2>1 DEF Deactivated, Processed
  <2>3. \A s \in Sockets : s # conn.socket => conn'.writes[s] = c.writes[s]
    BY <2>1, <2>2, ProcessedWrites
  <2>. QED BY <1>0, <1>a, <1>c, <2>2, <2>3 DEF Quiet, InUse
<1>d. ASSUME NEW c, NEW s \in Sockets, NEW n \in 0 .. Len(conn.writes[s]), Dropped(conn, c, s, n),
             socks[s] \in {"open", "ending"}
      PROVE  Quiet(socks, c.writes, back) /\ c.socket = conn.socket
  <2>1. /\ c.socket = conn.socket
        /\ c.writes = [conn.writes EXCEPT ![s] = SubSeq(@, n + 1, Len(@))]
    BY <1>d DEF Dropped
  <2>2. \A t \in Sockets : t # s => c.writes[t] = conn.writes[t]
    BY <1>a, <2>1
  <2>. QED BY <1>0, <1>d, <2>1, <2>2 DEF Quiet
<1>1. ASSUME NEW r \in Requests, Call(r) PROVE SocketInv'
  <2>1. UNCHANGED <<socks, failing, dial, back>>
    BY <1>1 DEF Call, net
  <2>2. Quiet(socks', conn'.writes, back') /\ conn'.socket = conn.socket
    <3>1. CASE conn.socket = 0
      <4>1. conn' = conn
        BY <1>1, <3>1, CallFacts DEF Sent
      <4>. QED BY <1>0, <2>1, <4>1
    <3>2. CASE conn.socket # 0
      BY <1>0, <1>1, <1>a, <1>b, <2>1, <3>2, CallFacts DEF InUse
    <3>. QED BY <3>1, <3>2
  <2>3. InUse(socks', conn'.socket, failing')
    BY <1>0, <2>1, <2>2
  <2>4. \A q \in Requests : phase'[q] = "connect" => phase[q] = "connect"
    BY <1>1, CallFacts DEF Sent, Only
  <2>5. Dialling(socks', phase', dial')
    BY <1>0, <1>a, <2>1, <2>4, SameDialling
  <2>. QED BY <2>2, <2>3, <2>5, SocketParts
<1>2. CASE Disconnect
  <2>1. UNCHANGED <<failing, dial, back, phase>> /\ failing = 0
    BY <1>2 DEF Disconnect, net
  <2>2. conn'.socket = 0 /\ conn'.writes = conn.writes
    BY <1>2, <1>a, SocketFacts DEF Disconnect, Socketed
  <2>3. socks' = IF conn.socket = 0 THEN socks ELSE [socks EXCEPT ![conn.socket] = "ending"]
    BY <1>2 DEF Disconnect
  <2>4. InUse(socks', conn'.socket, failing')
    BY <2>1, <2>2 DEF InUse
  <2>5. Quiet(socks', conn'.writes, back')
    BY <1>0, <1>a, <2>1, <2>2, <2>3 DEF Quiet
  <2>6. \A s \in Sockets \cup {0} : socks[s] = "connecting" => socks'[s] = "connecting"
    BY <1>0, <1>a, <2>3 DEF InUse
  <2>7. Dialling(socks', phase', dial')
    BY <1>0, <1>a, <2>1, <2>6, SameDialling
  <2>. QED BY <2>4, <2>5, <2>7, SocketParts
<1>3. ASSUME NEW r \in Requests, ConnectNow(r) PROVE SocketInv'
  <2>1. UNCHANGED <<socks, failing, dial, back>> /\ conn.socket # 0
    BY <1>3 DEF ConnectNow, net
  <2>2. Quiet(socks', conn'.writes, back') /\ conn'.socket = conn.socket
    BY <1>0, <1>3, <1>a, <1>b, <2>1, ConnectNowFacts DEF InUse
  <2>3. InUse(socks', conn'.socket, failing')
    BY <1>0, <2>1, <2>2
  <2>4. \A q \in Requests : phase'[q] = "connect" => phase[q] = "connect"
    BY <1>3, <2>1, ConnectNowFacts DEF Sent, Only
  <2>5. Dialling(socks', phase', dial')
    BY <1>0, <1>a, <2>1, <2>4, SameDialling
  <2>. QED BY <2>2, <2>3, <2>5, SocketParts
<1>4. ASSUME NEW r \in Requests, NEW s \in Sockets, ConnectNew(r, s) PROVE SocketInv'
  <2>1. /\ conn' = conn /\ failing' = failing /\ back' = back /\ failing = 0 /\ conn.socket = 0
        /\ socks' = [socks EXCEPT ![s] = "connecting"] /\ dial' = [dial EXCEPT ![r] = s]
        /\ phase' = [phase EXCEPT ![r] = "connect"] /\ socks[s] = "unused"
    BY <1>4 DEF ConnectNew, net
  <2>2. InUse(socks', conn'.socket, failing')
    BY <2>1 DEF InUse
  <2>3. Quiet(socks', conn'.writes, back')
    BY <1>0, <1>a, <2>1 DEF Quiet
  <2>4. Dialling(socks', phase', dial')
    <3>1. ASSUME NEW q \in Requests, phase'[q] = "connect"
          PROVE  /\ dial'[q] # 0 /\ socks'[dial'[q]] = "connecting"
                 /\ q # r => dial'[q] # s /\ dial'[q] = dial[q] /\ phase[q] = "connect"
      <4>1. CASE q = r
        BY <1>a, <2>1, <4>1
      <4>2. CASE q # r
        <5>1. dial'[q] = dial[q] /\ phase[q] = "connect"
          BY <1>a, <2>1, <3>1, <4>2
        <5>2. dial[q] # 0 /\ socks[dial[q]] = "connecting" /\ dial[q] \in Sockets
          BY <1>0, <1>a, <5>1 DEF Dialling
        <5>. QED BY <1>a, <2>1, <4>2, <5>1, <5>2
      <4>. QED BY <4>1, <4>2
    <3>2. dial'[r] = s
      BY <1>a, <2>1
    <3>3. ASSUME NEW p \in Requests, NEW q \in Requests, phase'[p] = "connect",
                 phase'[q] = "connect", dial'[p] = dial'[q]
          PROVE  p = q
      BY <1>0, <3>1, <3>2, <3>3 DEF Dialling
    <3>. QED BY <3>1, <3>3 DEF Dialling
  <2>. QED BY <2>2, <2>3, <2>4, SocketParts
<1>5. ASSUME NEW r \in Requests, Connected(r) PROVE SocketInv'
  <2>1. /\ failing' = failing /\ back' = back /\ failing = 0
        /\ socks' = [socks EXCEPT ![dial[r]] = "open"] /\ dial' = [dial EXCEPT ![r] = 0]
        /\ phase[r] = "connect"
    BY <1>5 DEF Connected, net
  <2>2. /\ dial[r] \in Sockets /\ socks[dial[r]] = "connecting" /\ Only(r, "sent")
    BY <1>5, ConnectedFacts
  <2>3. PICK c : IsConn(c) /\ Socketed(conn, c, dial[r]) /\ Enqueues(c, Attempt(r))
    BY <1>5, ConnectedFacts
  <2>4. c.socket = dial[r] /\ c.writes = conn.writes
    BY <2>3 DEF Socketed
  <2>5. socks'[dial[r]] = "open" /\ \A s \in Sockets : s # dial[r] => socks'[s] = socks[s]
    BY <1>a, <2>1, <2>2
  <2>6. Quiet(socks', conn'.writes, back') /\ conn'.socket = dial[r]
    BY <1>b, <2>1, <2>3, <2>4, <2>5
  <2>7. InUse(socks', conn'.socket, failing')
    BY <2>1, <2>5, <2>6 DEF InUse
  <2>8. Dialling(socks', phase', dial')
    <3>1. ASSUME NEW q \in Requests, phase'[q] = "connect"
          PROVE  q # r /\ phase[q] = "connect" /\ dial'[q] = dial[q] /\ dial[q] # 0
                 /\ socks'[dial[q]] = "connecting"
      <4>1. q # r /\ phase[q] = "connect" /\ dial'[q] = dial[q]
        BY <1>a, <2>1, <2>2, <3>1 DEF Only
      <4>2. dial[q] # 0 /\ socks[dial[q]] = "connecting" /\ dial[q] # dial[r] /\ dial[q] \in Sockets
        BY <1>0, <1>a, <2>1, <4>1 DEF Dialling
      <4>. QED BY <2>5, <4>1, <4>2
    <3>. QED BY <1>0, <3>1 DEF Dialling
  <2>. QED BY <2>6, <2>7, <2>8, SocketParts
<1>6. ASSUME NEW r \in Requests, ConnectFails(r) PROVE SocketInv'
  <2>1. /\ failing' = failing /\ back' = back /\ failing = 0 /\ conn' = conn
        /\ socks' = [socks EXCEPT ![dial[r]] = "unused"] /\ dial' = [dial EXCEPT ![r] = 0]
        /\ phase[r] = "connect"
    BY <1>6 DEF ConnectFails, net
  <2>2. /\ dial[r] \in Sockets /\ socks[dial[r]] = "connecting" /\ Only(r, "failed")
    BY <1>6, ConnectFailsFacts
  <2>5. socks'[dial[r]] = "unused" /\ \A s \in Sockets : s # dial[r] => socks'[s] = socks[s]
    BY <1>a, <2>1, <2>2
  <2>6. Quiet(socks', conn'.writes, back')
    BY <1>0, <1>a, <2>1, <2>2, <2>5 DEF Quiet
  <2>7. InUse(socks', conn'.socket, failing')
    BY <1>0, <1>a, <2>1, <2>2, <2>5 DEF InUse
  <2>8. Dialling(socks', phase', dial')
    <3>1. ASSUME NEW q \in Requests, phase'[q] = "connect"
          PROVE  q # r /\ phase[q] = "connect" /\ dial'[q] = dial[q] /\ dial[q] # 0
                 /\ socks'[dial[q]] = "connecting"
      <4>1. q # r /\ phase[q] = "connect" /\ dial'[q] = dial[q]
        BY <1>a, <2>1, <2>2, <3>1 DEF Only
      <4>2. dial[q] # 0 /\ socks[dial[q]] = "connecting" /\ dial[q] # dial[r] /\ dial[q] \in Sockets
        BY <1>0, <1>a, <2>1, <4>1 DEF Dialling
      <4>. QED BY <2>5, <4>1, <4>2
    <3>. QED BY <1>0, <3>1 DEF Dialling
  <2>. QED BY <2>6, <2>7, <2>8, SocketParts
<1>7. ASSUME NEW s \in Sockets, Data(s) PROVE SocketInv'
  <2>1. /\ UNCHANGED <<socks, failing, phase, dial>> /\ socks[s] \in {"open", "ending"}
        /\ back' = [back EXCEPT ![s] = Tail(@)]
        /\ conn'.socket = conn.socket /\ conn'.writes = conn.writes
    BY <1>7, <1>a DEF Data, IsConn
  <2>2. Quiet(socks', conn'.writes, back')
    BY <1>0, <1>a, <2>1 DEF Quiet
  <2>. QED BY <1>0, <2>1, <2>2, SocketParts
<1>8. CASE Settle
  <2>1. UNCHANGED <<socks, failing, dial, back>>
    BY <1>8 DEF Settle, net
  <2>2. Quiet(socks', conn'.writes, back') /\ conn'.socket = conn.socket
    BY <1>0, <1>8, <1>a, <1>c, <2>1, SettleFacts
  <2>4. \A q \in Requests : phase'[q] = "connect" => phase[q] = "connect"
    BY <1>8, SettleFacts DEF Only
  <2>5. Dialling(socks', phase', dial')
    BY <1>0, <1>a, <2>1, <2>4, SameDialling
  <2>. QED BY <1>0, <2>1, <2>2, <2>5, SocketParts
<1>9. CASE Timeout
  <2>1. UNCHANGED <<socks, failing, dial, back>>
    BY <1>9 DEF Timeout, net
  <2>2. Quiet(socks', conn'.writes, back') /\ conn'.socket = conn.socket
    BY <1>0, <1>9, <1>a, <1>c, <2>1, TimeoutFacts
  <2>4. \A q \in Requests : phase'[q] = "connect" => phase[q] = "connect"
    BY <1>9, TimeoutFacts, RejectedNotConnect
  <2>5. Dialling(socks', phase', dial')
    BY <1>0, <1>a, <2>1, <2>4, SameDialling
  <2>. QED BY <1>0, <2>1, <2>2, <2>5, SocketParts
<1>10. ASSUME NEW s \in Sockets, Break(s) \/ Ended(s) PROVE SocketInv'
  <2>1. UNCHANGED <<socks, phase, dial, back>> /\ failing' = s /\ socks[s] \in {"open", "ending"}
    BY <1>10 DEF Break, Ended, net
  <2>2. PICK n \in 0 .. Len(conn.writes[s]) : conn' = Written(s, n)
    BY <1>10 DEF Break, Ended
  <2>3. Quiet(socks, conn'.writes, back) /\ conn'.socket = conn.socket
    BY <1>d, <2>1, <2>2, WrittenFacts
  <2>4. InUse(socks', conn'.socket, failing')
    BY <1>0, <2>1, <2>3 DEF InUse
  <2>. QED BY <1>0, <2>1, <2>3, <2>4, SocketParts
<1>11. CASE WriteError
  <2>1. UNCHANGED <<socks, failing, dial, back>> /\ failing # 0
    BY <1>11 DEF WriteError, net
  <2>2. PICK c : /\ IsConn(c) /\ Dropped(conn, c, failing, 1)
                 /\ \/ conn.active = NoAttempt /\ conn' = c
                    \/ conn.active # NoAttempt /\ Deactivates(c)
    BY <1>11, WriteErrorFacts
  <2>3. failing \in Sockets /\ socks[failing] \in {"open", "ending"}
        /\ 1 \in 0 .. Len(conn.writes[failing])
    <3>1. failing \in Sockets /\ conn.writes[failing] # <<>>
      BY <1>11, WriteErrorFacts
    <3>2. conn.writes[failing] \in Seq(Attempts)
      BY <1>a, <3>1
    <3>3. 1 \in 0 .. Len(conn.writes[failing])
      BY <3>1, <3>2, EmptySeq
    <3>. QED BY <1>0, <2>1, <3>1, <3>3 DEF InUse
  <2>4. Quiet(socks, c.writes, back) /\ c.socket = conn.socket
    BY <1>d, <2>2, <2>3
  <2>5. Quiet(socks', conn'.writes, back') /\ conn'.socket = conn.socket
    BY <1>c, <2>1, <2>2, <2>4
  <2>6. \A q \in Requests : phase'[q] = "connect" => phase[q] = "connect"
    BY <1>11, WriteErrorFacts, RejectedNotConnect
  <2>7. Dialling(socks', phase', dial')
    BY <1>0, <1>a, <2>1, <2>6, SameDialling
  <2>. QED BY <1>0, <2>1, <2>5, <2>7, SocketParts
<1>12. CASE Close
  <2>1. /\ dial' = dial /\ failing' = 0 /\ socks' = [socks EXCEPT ![failing] = "unused"]
        /\ back' = [back EXCEPT ![failing] = <<>>] /\ failing # 0
    BY <1>12 DEF Close
  <2>2. /\ failing \in Sockets /\ conn.writes[failing] = <<>>
        /\ conn'.socket = 0 /\ conn'.writes = conn.writes
    BY <1>12, CloseFacts
  <2>3. Quiet(socks', conn'.writes, back')
    BY <1>0, <1>a, <2>1, <2>2 DEF Quiet
  <2>4. InUse(socks', conn'.socket, failing')
    BY <2>1, <2>2 DEF InUse
  <2>5. \A q \in Requests : phase'[q] = "connect" => phase[q] = "connect"
    BY <1>12, CloseFacts, RejectedNotConnect
  <2>6. \A s \in Sockets \cup {0} : socks[s] = "connecting" => socks'[s] = "connecting"
    BY <1>0, <1>a, <2>1, <2>2 DEF InUse
  <2>7. Dialling(socks', phase', dial')
    BY <1>0, <1>a, <2>1, <2>5, <2>6, SameDialling
  <2>. QED BY <2>3, <2>4, <2>7, SocketParts
<1>13. ASSUME NEW s \in Sockets, Serve(s) PROVE SocketInv'
  <2>1. UNCHANGED <<socks, failing, phase, dial>>
    BY <1>13 DEF Serve
  <2>2. socks[s] \in {"open", "ending"} /\ conn.writes[s] \in Seq(Attempts)
    BY <1>13, ServeFacts
  <2>3. PICK n \in 1 .. Len(conn.writes[s]) : Dropped(conn, conn', s, n)
    BY <1>13, ServeFacts
  <2>4. n \in 0 .. Len(conn.writes[s])
    BY <2>2
  <2>5. Quiet(socks, conn'.writes, back) /\ conn'.socket = conn.socket
    BY <1>d, <2>2, <2>3, <2>4
  <2>6. \A t \in Sockets : t # s => back'[t] = back[t]
    BY <1>13, <1>a, ServeFacts
  <2>7. Quiet(socks', conn'.writes, back')
    BY <2>1, <2>2, <2>5, <2>6 DEF Quiet
  <2>. QED BY <1>0, <2>1, <2>5, <2>7, SocketParts
<1>. QED BY <1>1, <1>2, <1>3, <1>4, <1>5, <1>6, <1>7, <1>8, <1>9, <1>10, <1>11, <1>12, <1>13,
            ConnectCases
         DEF JsNext, Application, EventLoop, Network

-----------------------------------------------------------------------------
(* The budget of sockets *)

LEMMA MovesStep ==
  ASSUME JsInv, JsNext
  PROVE  Moves
<1>0. Types
  BY DEF JsInv
<1>1. CASE UNCHANGED <<phase, tries>>
  BY <1>0, <1>1, StillMoves
<1>2. CASE Disconnect \/ \E s \in Sockets : Ended(s) \/ Data(s) \/ Break(s) \/ Serve(s)
  BY <1>1, <1>2 DEF Disconnect, Ended, Data, Break, Serve
<1>3. CASE \E r \in Requests : connect(r)
  BY <1>3, ConnectCases, ConnectNowFacts, ConnectNewFacts
<1>4. CASE \E r \in Requests : Call(r) \/ Connected(r) \/ ConnectFails(r)
  BY <1>4, CallFacts, ConnectedFacts, ConnectFailsFacts
<1>5. CASE Settle \/ Timeout \/ WriteError \/ Close
  BY <1>5, SettleFacts, TimeoutFacts, WriteErrorFacts, CloseFacts
<1>. QED BY <1>2, <1>3, <1>4, <1>5 DEF JsNext, Application, EventLoop, Network

SpentOf(ph, tr) ==
  {t \in AllTries : t[2] <= tr[t[1]] /\ ~(ph[t[1]] = "delay" /\ t[2] = tr[t[1]])}

UsedOf(sk) == {s \in Sockets : sk[s] # "unused"}

LEMMA BudgetParts ==
  /\ Budget <=> /\ \A r \in Requests : phase[r] = "delay" => <<r, tries[r]>> \in AllTries
                /\ Cardinality(UsedOf(socks)) <= Cardinality(SpentOf(phase, tries))
  /\ Budget' <=> /\ \A r \in Requests : phase'[r] = "delay" => <<r, tries'[r]>> \in AllTries
                 /\ Cardinality(UsedOf(socks')) <= Cardinality(SpentOf(phase', tries'))
BY DEF Budget, Used, UsedOf, Spent, SpentOf, AllTries, Requests, Auth, Sockets

LEMMA BudgetSizes ==
  ASSUME NEW ph, NEW tr, NEW sk
  PROVE  /\ IsFiniteSet(SpentOf(ph, tr)) /\ Cardinality(SpentOf(ph, tr)) \in Nat
         /\ IsFiniteSet(UsedOf(sk)) /\ Cardinality(UsedOf(sk)) \in Nat
<1>1. SpentOf(ph, tr) \in SUBSET AllTries /\ UsedOf(sk) \in SUBSET Sockets
  BY DEF SpentOf, UsedOf
<1>2. IsFiniteSet(SpentOf(ph, tr)) /\ IsFiniteSet(UsedOf(sk))
  BY <1>1, TriesCount, FS_Subset
<1>. QED BY <1>2, FS_CardinalityType

\* What is spent stays spent, and a retry has a delay of its own.
LEMMA SpentGrows ==
  ASSUME JsInv, Moves
  PROVE  /\ SpentOf(phase, tries) \subseteq SpentOf(phase', tries')
         /\ \A r \in Requests : phase'[r] = "delay" => <<r, tries'[r]>> \in AllTries
<1>1. tries \in [Requests -> 0 .. maxRetries] /\ maxRetries \in Nat
  BY PhaseTypes, Sets DEF JsInv
<1>2. ASSUME NEW t \in SpentOf(phase, tries) PROVE t \in SpentOf(phase', tries')
  <2>1. t \in AllTries /\ t[1] \in Requests /\ t[2] \in Nat
    BY Sets DEF SpentOf, AllTries
  <2>2. PICK r \in Requests, n \in Nat : r = t[1] /\ n = t[2]
    BY <2>1
  <2>3. n <= tries[r] /\ ~(phase[r] = "delay" /\ n = tries[r]) /\ tries[r] \in Nat
    BY <1>1, <2>2 DEF SpentOf
  <2>4. Move(phase[r], tries[r], phase'[r], tries'[r])
    BY DEF Moves
  <2>5. n <= tries'[r] /\ ~(phase'[r] = "delay" /\ n = tries'[r])
    BY <2>3, <2>4 DEF Move
  <2>. QED BY <2>1, <2>2, <2>5 DEF SpentOf
<1>3. ASSUME NEW r \in Requests, phase'[r] = "delay" PROVE <<r, tries'[r]>> \in AllTries
  <2>1. Move(phase[r], tries[r], phase'[r], tries'[r]) /\ tries[r] \in 0 .. maxRetries
    BY <1>1 DEF Moves
  <2>2. CASE phase[r] = "delay" /\ tries'[r] = tries[r]
    BY <2>2 DEF JsInv, Budget
  <2>3. CASE tries[r] < maxRetries /\ tries'[r] = tries[r] + 1
    <3>1. tries'[r] \in 1 .. maxRetries
      BY <1>1, <2>1, <2>3
    <3>. QED BY <3>1 DEF AllTries
  <2>. QED BY <1>3, <2>1, <2>2, <2>3 DEF Move
<1>. QED BY <1>2, <1>3

LEMMA BudgetStep ==
  ASSUME JsInv, JsNext
  PROVE  Budget'
<1>0. /\ Moves /\ SpentOf(phase, tries) \subseteq SpentOf(phase', tries')
      /\ \A r \in Requests : phase'[r] = "delay" => <<r, tries'[r]>> \in AllTries
      /\ Cardinality(UsedOf(socks)) <= Cardinality(SpentOf(phase, tries))
  BY MovesStep, SpentGrows, BudgetParts DEF JsInv
<1>a. PICK u, v, w, x : /\ u = Cardinality(UsedOf(socks)) /\ v = Cardinality(SpentOf(phase, tries))
                        /\ w = Cardinality(UsedOf(socks'))
                        /\ x = Cardinality(SpentOf(phase', tries'))
  OBVIOUS
<1>b. u \in Nat /\ v \in Nat /\ w \in Nat /\ x \in Nat /\ u <= v
  BY <1>0, <1>a, BudgetSizes
<1>c. /\ socks \in [Sockets -> SockStates] /\ 0 \notin Sockets /\ failing \in {0} \cup Sockets
      /\ conn.socket \in {0} \cup Sockets
      /\ tries \in [Requests -> 0 .. maxRetries] /\ phase \in [Requests -> Phases]
  BY Sets, PhaseTypes DEF JsInv, Types, JsTypeOK, SockStates
<1>1. ASSUME \A s \in Sockets : socks[s] = "unused" => socks'[s] = "unused" PROVE Budget'
  <2>1. UsedOf(socks') \in SUBSET UsedOf(socks)
    BY <1>1 DEF UsedOf
  <2>2. w <= u /\ v <= x
    BY <1>0, <1>a, <2>1, BudgetSizes, FS_Subset
  <2>3. w <= x
    BY <1>b, <2>2
  <2>. QED BY <1>0, <1>a, <2>3, BudgetParts
<1>2. ASSUME NEW r \in Requests, NEW s \in Sockets, ConnectNew(r, s) PROVE Budget'
  <2>1. /\ socks' = [socks EXCEPT ![s] = "connecting"] /\ socks[s] = "unused"
        /\ phase[r] = "delay" /\ phase'[r] = "connect" /\ tries' = tries
    BY <1>2, <1>c DEF ConnectNew
  <2>a. <<r, tries[r]>>[1] = r /\ <<r, tries[r]>>[2] = tries[r]
    OBVIOUS
  <2>2. PICK t : t = <<r, tries[r]>> /\ t[1] = r /\ t[2] = tries[r]
    BY <2>a
  <2>3. t \in SpentOf(phase', tries') /\ t \notin SpentOf(phase, tries)
    <3>1. t \in AllTries
      BY <2>1, <2>2 DEF JsInv, Budget
    <3>2. tries[r] <= tries[r]
      BY <1>c, Sets
    <3>3. t \in SpentOf(phase', tries')
      BY <2>1, <2>2, <3>1, <3>2 DEF SpentOf
    <3>4. t \notin SpentOf(phase, tries)
      BY <2>1, <2>2 DEF SpentOf
    <3>. QED BY <3>3, <3>4
  <2>4. SpentOf(phase, tries) \cup {t} \in SUBSET SpentOf(phase', tries')
    BY <1>0, <2>3
  <2>5. Cardinality(SpentOf(phase, tries) \cup {t}) = v + 1
    BY <1>a, <2>3, BudgetSizes, FS_AddElement
  <2>6. v + 1 <= x
    BY <1>a, <2>4, <2>5, BudgetSizes, FS_Subset
  <2>7. UsedOf(socks') = UsedOf(socks) \cup {s} /\ s \notin UsedOf(socks)
    BY <1>c, <2>1 DEF UsedOf
  <2>8. w = u + 1
    BY <1>a, <2>7, BudgetSizes, FS_AddElement
  <2>9. w <= x
    BY <1>b, <2>6, <2>8
  <2>. QED BY <1>0, <1>a, <2>9, BudgetParts
<1>3. CASE \E r \in Requests : Call(r) \/ Connected(r) \/ ConnectFails(r) \/ ConnectNow(r)
  <2>1. PICK r \in Requests : Call(r) \/ Connected(r) \/ ConnectFails(r) \/ ConnectNow(r)
    BY <1>3
  <2>2. CASE Call(r) \/ ConnectNow(r)
    BY <1>1, <2>2 DEF Call, ConnectNow
  <2>3. CASE Connected(r)
    <3>1. dial[r] \in Sockets /\ socks[dial[r]] = "connecting"
      BY <2>3, ConnectedFacts
    <3>2. socks' = [socks EXCEPT ![dial[r]] = "open"]
      BY <2>3 DEF Connected
    <3>3. \A s \in Sockets : socks[s] = "unused" => socks'[s] = "unused"
      BY <1>c, <3>1, <3>2
    <3>. QED BY <1>1, <3>3
  <2>4. CASE ConnectFails(r)
    <3>1. socks' = [socks EXCEPT ![dial[r]] = "unused"]
      BY <2>4 DEF ConnectFails
    <3>2. \A s \in Sockets : socks[s] = "unused" => socks'[s] = "unused"
      BY <1>c, <3>1
    <3>. QED BY <1>1, <3>2
  <2>. QED BY <2>1, <2>2, <2>3, <2>4
<1>4. CASE Disconnect
  <2>1. conn.socket # 0 => socks[conn.socket] = "open"
    BY DEF JsInv, SocketInv
  <2>2. socks' = IF conn.socket = 0 THEN socks ELSE [socks EXCEPT ![conn.socket] = "ending"]
    BY <1>4 DEF Disconnect
  <2>3. \A s \in Sockets : socks[s] = "unused" => socks'[s] = "unused"
    BY <1>c, <2>1, <2>2
  <2>. QED BY <1>1, <2>3
<1>5. CASE Close
  <2>1. socks' = [socks EXCEPT ![failing] = "unused"]
    BY <1>5 DEF Close
  <2>2. \A s \in Sockets : socks[s] = "unused" => socks'[s] = "unused"
    BY <1>c, <2>1
  <2>. QED BY <1>1, <2>2
<1>6. CASE \/ Settle \/ Timeout \/ WriteError
           \/ \E s \in Sockets : Ended(s) \/ Data(s) \/ Break(s) \/ Serve(s)
  BY <1>1, <1>6 DEF Settle, Timeout, WriteError, Ended, Data, Break, Serve
<1>. QED BY <1>2, <1>3, <1>4, <1>5, <1>6, ConnectCases DEF JsNext, Application, EventLoop, Network

-----------------------------------------------------------------------------
(* Attempts *)

\* What c holds, by position.
LEMMA HeldBy ==
  ASSUME NEW c, IsConn(c), NEW a
  PROVE  a \in Held(c) <=> \/ \E i \in 1 .. Len(c.queue) : c.queue[i] = a
                           \/ \E s \in Sockets : \E i \in 1 .. Len(c.writes[s]) : c.writes[s][i] = a
<1>1. c.queue \in Seq(Attempts) /\ \A s \in Sockets : c.writes[s] \in Seq(Attempts)
  BY DEF IsConn
<1>2. DOMAIN c.queue = 1 .. Len(c.queue)
      /\ \A s \in Sockets : DOMAIN c.writes[s] = 1 .. Len(c.writes[s])
  BY <1>1
<1>. QED BY <1>2 DEF Held, ToSet

LEMMA HeldTypes ==
  ASSUME NEW c, IsConn(c)
  PROVE  /\ \A a \in Held(c) : a \in Attempts
         /\ \A i \in 1 .. Len(c.queue) : c.queue[i] \in Attempts /\ c.queue[i] \in Held(c)
         /\ \A s \in Sockets : \A i \in 1 .. Len(c.writes[s]) :
              c.writes[s][i] \in Attempts /\ c.writes[s][i] \in Held(c)
<1>1. c.queue \in Seq(Attempts) /\ \A s \in Sockets : c.writes[s] \in Seq(Attempts)
  BY DEF IsConn
<1>2. \A i \in 1 .. Len(c.queue) : c.queue[i] \in Attempts
  BY <1>1
<1>3. \A s \in Sockets : \A i \in 1 .. Len(c.writes[s]) : c.writes[s][i] \in Attempts
  BY <1>1
<1>. QED BY <1>2, <1>3, HeldBy

\* c and d have the same queue and the same writes.
LEMMA UniqueSame ==
  ASSUME NEW c, NEW d, IsConn(c), IsConn(d), Unique(c), d.queue = c.queue, d.writes = c.writes,
         d.active = c.active \/ d.active = NoAttempt
  PROVE  Unique(d) /\ Held(d) = Held(c)
<1>1. \A i \in 1 .. Len(c.queue) : c.queue[i] # NoAttempt
  BY HeldTypes, Sets
<1>2. Unique(d)
  BY <1>1 DEF Unique
<1>. QED BY <1>2 DEF Held

\* A request that goes from the queue to a socket.
LEMMA UniqueProcessed ==
  ASSUME NEW c, NEW d, IsConn(c), IsConn(d), Unique(c), Processed(c, d)
  PROVE  Unique(d) /\ Held(d) \subseteq Held(c)
<1>1. CASE d.queue = c.queue /\ d.active = c.active /\ d.writes = c.writes
  BY <1>1, UniqueSame
<1>2. CASE /\ c.socket # 0 /\ c.queue # <<>> /\ d.queue = Tail(c.queue) /\ d.active = Head(c.queue)
           /\ d.writes = [c.writes EXCEPT ![c.socket] = Append(@, Head(c.queue))]
  <2>1. PICK q, s, h, w : q = c.queue /\ s = c.socket /\ h = Head(q) /\ w = c.writes[s]
    OBVIOUS
  <2>2. q \in Seq(Attempts) /\ s \in Sockets /\ w \in Seq(Attempts) /\ q # <<>>
        /\ c.writes \in [Sockets -> Seq(Attempts)]
    BY <1>2, <2>1 DEF IsConn
  <2>3. Len(q) \in Nat /\ Len(q) >= 1 /\ h = q[1] /\ Len(w) \in Nat
    BY <2>1, <2>2, EmptySeq
  <2>4. /\ Len(d.queue) = Len(q) - 1
        /\ \A i \in 1 .. Len(q) - 1 : d.queue[i] = q[i + 1]
    BY <1>2, <2>1, <2>2
  <2>5. /\ Len(d.writes[s]) = Len(w) + 1 /\ d.writes[s][Len(w) + 1] = h
        /\ \A i \in 1 .. Len(w) : d.writes[s][i] = w[i]
    BY <1>2, <2>1, <2>2
  <2>6. \A t \in Sockets : t # s => d.writes[t] = c.writes[t]
    BY <1>2, <2>1, <2>2
  <2>7. /\ \A i, j \in 1 .. Len(q) : q[i] = q[j] => i = j
        /\ \A i \in 1 .. Len(q), t \in Sockets : \A j \in 1 .. Len(c.writes[t]) :
             q[i] # c.writes[t][j]
        /\ \A t, v \in Sockets : \A i \in 1 .. Len(c.writes[t]), j \in 1 .. Len(c.writes[v]) :
             c.writes[t][i] = c.writes[v][j] => t = v /\ i = j
    BY <2>1 DEF Unique
  <2>8. \* A write of d is a write of c, or the last one of s.
        ASSUME NEW t \in Sockets, NEW i \in 1 .. Len(d.writes[t])
        PROVE  \/ i \in 1 .. Len(c.writes[t]) /\ d.writes[t][i] = c.writes[t][i]
               \/ t = s /\ i = Len(w) + 1 /\ d.writes[t][i] = q[1]
    <3>1. CASE t = s
      <4>1. d.writes[t] = d.writes[s] /\ c.writes[t] = w
        BY <2>1, <3>1
      <4>2. i \in 1 .. Len(w) \/ i = Len(w) + 1
        BY <2>3, <2>5, <4>1
      <4>3. CASE i \in 1 .. Len(w)
        BY <2>5, <4>1, <4>3
      <4>4. CASE i = Len(w) + 1
        BY <2>3, <2>5, <3>1, <4>1, <4>4
      <4>. QED BY <4>2, <4>3, <4>4
    <3>2. CASE t # s
      BY <2>6, <3>2
    <3>. QED BY <3>1, <3>2
  <2>9. ASSUME NEW i \in 1 .. Len(d.queue)
        PROVE  i + 1 \in 1 .. Len(q) /\ d.queue[i] = q[i + 1] /\ i \in 1 .. Len(q) - 1
    BY <2>3, <2>4
  <2>10. \A i, j \in 1 .. Len(d.queue) : d.queue[i] = d.queue[j] => i = j
    BY <2>7, <2>9
  <2>11. 1 \in 1 .. Len(q)
    BY <2>3
  <2>12. ASSUME NEW t \in Sockets, NEW v \in Sockets, NEW i \in 1 .. Len(d.writes[t]),
                NEW j \in 1 .. Len(d.writes[v]), d.writes[t][i] = d.writes[v][j]
         PROVE  t = v /\ i = j
    BY <2>7, <2>8, <2>11, <2>12
  <2>13. ASSUME NEW i \in 1 .. Len(d.queue), NEW t \in Sockets, NEW j \in 1 .. Len(d.writes[t])
         PROVE  d.queue[i] # d.writes[t][j]
    <3>1. i + 1 \in 1 .. Len(q) /\ d.queue[i] = q[i + 1] /\ i + 1 # 1
      BY <2>9
    <3>. QED BY <2>7, <2>8, <2>11, <3>1
  <2>14. ASSUME NEW i \in 1 .. Len(d.queue) PROVE d.queue[i] # d.active
    <3>1. i + 1 \in 1 .. Len(q) /\ d.queue[i] = q[i + 1] /\ i + 1 # 1
      BY <2>9
    <3>2. d.active = q[1]
      BY <1>2, <2>1, <2>3
    <3>. QED BY <2>7, <2>11, <3>1, <3>2
  <2>15. Unique(d)
    BY <2>10, <2>12, <2>13, <2>14 DEF Unique
  <2>16. ASSUME NEW a \in Held(d) PROVE a \in Held(c)
    <3>1. CASE \E i \in 1 .. Len(d.queue) : d.queue[i] = a
      BY <2>1, <2>9, <3>1, HeldBy
    <3>2. CASE \E t \in Sockets : \E i \in 1 .. Len(d.writes[t]) : d.writes[t][i] = a
      <4>1. PICK t \in Sockets : \E i \in 1 .. Len(d.writes[t]) : d.writes[t][i] = a
        BY <3>2
      <4>2. PICK i \in 1 .. Len(d.writes[t]) : d.writes[t][i] = a
        BY <4>1
      <4>3. CASE i \in 1 .. Len(c.writes[t]) /\ c.writes[t][i] = a
        BY <4>3, HeldBy
      <4>4. CASE q[1] = a
        BY <2>1, <2>11, <4>4, HeldBy
      <4>. QED BY <2>8, <4>2, <4>3, <4>4
    <3>. QED BY <3>1, <3>2, HeldBy
  <2>. QED BY <2>15, <2>16
<1>. QED BY <1>1, <1>2 DEF Processed

\* A new attempt joins the queue.
LEMMA UniqueQueued ==
  ASSUME NEW c, NEW d, IsConn(c), IsConn(d), Unique(c), NEW a \in Attempts, Queued(c, d, a),
         a \notin Held(c), a # c.active
  PROVE  Unique(d) /\ Held(d) \subseteq Held(c) \cup {a}
<1>1. PICK q : q = c.queue
  OBVIOUS
<1>2. q \in Seq(Attempts) /\ d.queue = Append(q, a) /\ d.writes = c.writes /\ d.active = c.active
  BY <1>1 DEF IsConn, Queued
<1>3. /\ Len(q) \in Nat /\ Len(d.queue) = Len(q) + 1 /\ d.queue[Len(q) + 1] = a
      /\ \A i \in 1 .. Len(q) : d.queue[i] = q[i]
  BY <1>2
<1>4. /\ \A i \in 1 .. Len(q) : q[i] # a
      /\ \A s \in Sockets : \A j \in 1 .. Len(c.writes[s]) : c.writes[s][j] # a
  BY <1>1, HeldBy
<1>5. ASSUME NEW i \in 1 .. Len(d.queue)
      PROVE  \/ i \in 1 .. Len(q) /\ d.queue[i] = q[i]
             \/ i = Len(q) + 1 /\ d.queue[i] = a
  BY <1>3
<1>6. \A i, j \in 1 .. Len(d.queue) : d.queue[i] = d.queue[j] => i = j
  BY <1>1, <1>4, <1>5 DEF Unique
<1>7. \A i \in 1 .. Len(d.queue), s \in Sockets : \A j \in 1 .. Len(c.writes[s]) :
        d.queue[i] # c.writes[s][j]
  BY <1>1, <1>4, <1>5 DEF Unique
<1>8. \A i \in 1 .. Len(d.queue) : d.queue[i] # c.active
  BY <1>1, <1>5 DEF Unique
<1>9. Unique(d)
  BY <1>2, <1>6, <1>7, <1>8 DEF Unique
<1>10. ASSUME NEW x \in Held(d) PROVE x \in Held(c) \cup {a}
  <2>1. CASE \E i \in 1 .. Len(d.queue) : d.queue[i] = x
    BY <1>1, <1>5, <2>1, HeldBy
  <2>2. CASE \E t \in Sockets : \E i \in 1 .. Len(d.writes[t]) : d.writes[t][i] = x
    BY <1>2, <2>2, HeldBy
  <2>. QED BY <2>1, <2>2, HeldBy
<1>. QED BY <1>9, <1>10

\* The first writes of a socket are gone.
LEMMA UniqueDropped ==
  ASSUME NEW c, NEW d, IsConn(c), IsConn(d), Unique(c), NEW s \in Sockets,
         NEW n \in 0 .. Len(c.writes[s]), Dropped(c, d, s, n)
  PROVE  /\ Unique(d) /\ Held(d) \subseteq Held(c)
         /\ n # 0 => Head(c.writes[s]) \in Held(c) /\ Head(c.writes[s]) \notin Held(d)
<1>1. PICK w : w = c.writes[s]
  OBVIOUS
<1>2. /\ w \in Seq(Attempts) /\ Len(w) \in Nat /\ n \in Nat /\ n <= Len(w)
      /\ c.writes \in [Sockets -> Seq(Attempts)]
  BY <1>1 DEF IsConn
<1>3. /\ d.queue = c.queue /\ d.active = c.active
      /\ d.writes[s] = SubSeq(w, n + 1, Len(w))
      /\ \A t \in Sockets : t # s => d.writes[t] = c.writes[t]
  BY <1>1, <1>2 DEF Dropped
<1>4. Len(d.writes[s]) = Len(w) - n /\ \A i \in 1 .. Len(w) - n : d.writes[s][i] = w[i + n]
  BY <1>2, <1>3, SubSeqProperties
<1>5. ASSUME NEW t \in Sockets, NEW i \in 1 .. Len(d.writes[t])
      PROVE  \E j \in 1 .. Len(c.writes[t]) :
               d.writes[t][i] = c.writes[t][j] /\ j = (IF t = s THEN i + n ELSE i)
  <2>1. CASE t = s
    <3>1. i \in 1 .. Len(w) - n /\ i + n \in 1 .. Len(w)
      BY <1>2, <1>4, <2>1
    <3>. QED BY <1>1, <1>4, <2>1, <3>1
  <2>2. CASE t # s
    BY <1>3, <2>2
  <2>. QED BY <2>1, <2>2
<1>a. /\ \A i \in 1 .. Len(c.queue), t \in Sockets : \A j \in 1 .. Len(c.writes[t]) :
             c.queue[i] # c.writes[t][j]
      /\ \A t, v \in Sockets : \A i \in 1 .. Len(c.writes[t]), j \in 1 .. Len(c.writes[v]) :
             c.writes[t][i] = c.writes[v][j] => t = v /\ i = j
  BY DEF Unique
<1>6. ASSUME NEW t \in Sockets, NEW v \in Sockets, NEW i \in 1 .. Len(d.writes[t]),
             NEW j \in 1 .. Len(d.writes[v]), d.writes[t][i] = d.writes[v][j]
      PROVE  t = v /\ i = j
  <2>1. PICK x \in 1 .. Len(c.writes[t]) :
               d.writes[t][i] = c.writes[t][x] /\ x = (IF t = s THEN i + n ELSE i)
    BY <1>5
  <2>2. PICK y \in 1 .. Len(c.writes[v]) :
               d.writes[v][j] = c.writes[v][y] /\ y = (IF v = s THEN j + n ELSE j)
    BY <1>5
  <2>a. c.writes[t][x] = c.writes[v][y]
    BY <1>6, <2>1, <2>2
  <2>3. t = v /\ x = y
    BY <1>a, <2>a
  <2>4. i \in Int /\ j \in Int
    OBVIOUS
  <2>. QED BY <1>2, <2>1, <2>2, <2>3, <2>4
<1>7. \A i \in 1 .. Len(d.queue), t \in Sockets : \A j \in 1 .. Len(d.writes[t]) :
        d.queue[i] # d.writes[t][j]
  <2> SUFFICES ASSUME NEW i \in 1 .. Len(d.queue), NEW t \in Sockets,
                      NEW j \in 1 .. Len(d.writes[t])
               PROVE  d.queue[i] # d.writes[t][j]
    OBVIOUS
  <2>1. PICK y \in 1 .. Len(c.writes[t]) : d.writes[t][j] = c.writes[t][y]
    BY <1>5
  <2>2. i \in 1 .. Len(c.queue) /\ d.queue[i] = c.queue[i]
    BY <1>3
  <2>. QED BY <1>a, <2>1, <2>2
<1>8. Unique(d)
  BY <1>3, <1>6, <1>7 DEF Unique
<1>9. ASSUME NEW x \in Held(d) PROVE x \in Held(c)
  <2>1. CASE \E i \in 1 .. Len(d.queue) : d.queue[i] = x
    BY <1>3, <2>1, HeldBy
  <2>2. CASE \E t \in Sockets : \E i \in 1 .. Len(d.writes[t]) : d.writes[t][i] = x
    BY <1>5, <2>2, HeldBy
  <2>. QED BY <2>1, <2>2, HeldBy
<1>10. ASSUME n # 0 PROVE Head(w) \in Held(c) /\ Head(w) \notin Held(d)
  <2>1. Head(w) = w[1] /\ 1 \in 1 .. Len(w)
    BY <1>10, <1>2
  <2>2. w[1] \in Held(c)
    BY <1>1, <2>1, HeldBy
  <2>3. ASSUME NEW i \in 1 .. Len(d.queue) PROVE d.queue[i] # w[1]
    BY <1>1, <1>3, <2>1 DEF Unique
  <2>4. ASSUME NEW t \in Sockets, NEW i \in 1 .. Len(d.writes[t]), d.writes[t][i] = w[1]
        PROVE  FALSE
    <3>1. PICK x \in 1 .. Len(c.writes[t]) :
                 d.writes[t][i] = c.writes[t][x] /\ x = (IF t = s THEN i + n ELSE i)
      BY <1>5
    <3>2. t = s /\ x = 1
      BY <1>1, <2>1, <2>4, <3>1 DEF Unique
    <3>. QED BY <1>10, <1>2, <3>1, <3>2
  <2>. QED BY <2>1, <2>2, <2>3, <2>4, HeldBy
<1>. QED BY <1>1, <1>8, <1>9, <1>10

\* Processing the queue makes a pending request active.
LEMMA OwnedProcessed ==
  ASSUME NEW c, NEW d, IsConn(c), NEW ph, NEW tr, Owned(c, ph, tr), Processed(c, d)
  PROVE  Owned(d, ph, tr)
<1>1. CASE d.queue = c.queue /\ d.active = c.active
  BY <1>1 DEF Owned
<1>2. CASE c.queue # <<>> /\ d.queue = Tail(c.queue) /\ d.active = Head(c.queue)
  <2>1. PICK q : q = c.queue /\ q \in Seq(Attempts) /\ q # <<>>
    BY <1>2 DEF IsConn
  <2>2. Len(q) \in Nat /\ Len(q) >= 1 /\ d.active = q[1] /\ 1 \in 1 .. Len(q)
    BY <1>2, <2>1, EmptySeq
  <2>3. Len(d.queue) = Len(q) - 1 /\ \A i \in 1 .. Len(q) - 1 : d.queue[i] = q[i + 1]
    BY <1>2, <2>1
  <2>4. \A i \in 1 .. Len(q) : Live(q[i], ph, tr)
    BY <2>1 DEF Owned
  <2>5. Live(d.active, ph, tr)
    BY <2>2, <2>4
  <2>6. ASSUME NEW i \in 1 .. Len(d.queue) PROVE Live(d.queue[i], ph, tr)
    <3>1. i \in 1 .. Len(q) - 1 /\ i + 1 \in 1 .. Len(q)
      BY <2>2, <2>3
    <3>. QED BY <2>3, <2>4, <3>1
  <2>. QED BY <2>5, <2>6 DEF Owned
<1>. QED BY <1>1, <1>2 DEF Processed

\* A pending request is not touched by the move of one that is not.
LEMMA LiveOnly ==
  ASSUME NEW r \in Requests, NEW p, Only(r, p), NEW a \in Attempts, Live(a, phase, tries), a.req # r
  PROVE  Live(a, phase', tries')
BY DEF Only, Live, Attempts

LEMMA LiveRejected ==
  ASSUME Types, NEW A, Rejected(A), NEW a \in Attempts, Live(a, phase, tries), a \notin A
  PROVE  Live(a, phase', tries')
<1>1. PICK r \in Requests : r = a.req
  BY DEF Attempts
<1>2. a = Attempt(r)
  BY <1>1 DEF Live, Attempt, Attempts
<1>3. phase'[r] = phase[r] /\ tries'[r] = tries[r]
  BY <1>2 DEF Rejected
<1>. QED BY <1>1, <1>3 DEF Live

\* Two pending attempts of a request are the same one.
LEMMA LiveEqual ==
  ASSUME NEW a \in Attempts, NEW b \in Attempts, Live(a, phase, tries), Live(b, phase, tries),
         a.req = b.req
  PROVE  a = b
BY DEF Live, Attempts

\* Nothing is sent less often than before.
LEMMA StartedGrows ==
  ASSUME JsInv, Moves, NEW r \in Requests
  PROVE  /\ Started(r, phase, tries) \in Nat /\ Started(r, phase', tries') \in Nat
         /\ Started(r, phase, tries) <= Started(r, phase', tries')
<1>1. tries[r] \in Nat /\ tries'[r] \in Nat /\ Move(phase[r], tries[r], phase'[r], tries'[r])
  BY PhaseTypes, Sets DEF JsInv, Moves
<1>. QED BY <1>1 DEF Move, Started

LEMMA WaitingSize ==
  ASSUME NEW H, NEW r
  PROVE  IsFiniteSet(Waiting(H, r)) /\ Cardinality(Waiting(H, r)) \in Nat
<1>1. IsFiniteSet(0 .. maxRetries)
  BY Sets, FS_Interval
<1>2. Waiting(H, r) \in SUBSET (0 .. maxRetries)
  BY DEF Waiting
<1>3. IsFiniteSet(Waiting(H, r))
  BY <1>1, <1>2, FS_Subset
<1>. QED BY <1>3, FS_CardinalityType

\* Fewer attempts are held, and requests move on.
LEMMA CountsKeep ==
  ASSUME JsInv, Moves, NEW H, NEW H2, Counts(H, phase, tries, executed), H2 \subseteq H,
         \A a \in H : a \in Attempts
  PROVE  Counts(H2, phase', tries', executed)
<1>1. ASSUME NEW a \in H2 PROVE a.no < Started(a.req, phase', tries')
  <2>1. a \in H /\ a.req \in Requests /\ a.no \in Nat
    BY Sets DEF Attempts
  <2>2. a.no < Started(a.req, phase, tries)
    BY <2>1 DEF Counts
  <2>3. PICK x, y : x = Started(a.req, phase, tries) /\ y = Started(a.req, phase', tries')
    OBVIOUS
  <2>4. x \in Nat /\ y \in Nat /\ x <= y /\ a.no < x
    BY <2>1, <2>2, <2>3, StartedGrows
  <2>5. a.no < y
    BY <2>1, <2>4
  <2>. QED BY <2>3, <2>5
<1>2. ASSUME NEW r \in Requests
      PROVE  executed[r] + Cardinality(Waiting(H2, r)) <= Started(r, phase', tries')
  <2>1. Waiting(H2, r) \in SUBSET Waiting(H, r)
    BY DEF Waiting
  <2>2. Cardinality(Waiting(H2, r)) <= Cardinality(Waiting(H, r))
    BY <2>1, WaitingSize, FS_Subset
  <2>3. PICK u, v, x, y, e : /\ u = Cardinality(Waiting(H2, r)) /\ v = Cardinality(Waiting(H, r))
                             /\ x = Started(r, phase, tries) /\ y = Started(r, phase', tries')
                             /\ e = executed[r]
    OBVIOUS
  <2>4. e \in Nat
    BY <2>3 DEF JsInv, Types
  <2>5. u \in Nat /\ v \in Nat /\ x \in Nat /\ y \in Nat /\ u <= v /\ x <= y /\ e + v <= x
    BY <2>2, <2>3, WaitingSize, StartedGrows DEF Counts
  <2>6. e + u <= y
    BY <2>4, <2>5
  <2>. QED BY <2>3, <2>6
<1>. QED BY <1>1, <1>2 DEF Counts

\* A request is sent: one attempt more is held.
LEMMA CountsAdd ==
  ASSUME JsInv, NEW r \in Requests, phase[r] \in {"new", "delay", "connect"},
         Only(r, "sent"), Moves, tries' = tries,
         NEW H, NEW H2, Counts(H, phase, tries, executed), \A a \in H : a \in Attempts,
         H2 \subseteq H \cup {Attempt(r)}
  PROVE  Counts(H2, phase', tries', executed)
<1>0. PICK n \in Nat : n = tries[r] /\ n \in 0 .. maxRetries
  BY PhaseTypes, Sets DEF JsInv
<1>1. Started(r, phase, tries) = n /\ Started(r, phase', tries') = n + 1
  BY <1>0 DEF Started, Only
<1>2. \A q \in Requests : q # r => Started(q, phase', tries') = Started(q, phase, tries)
  BY DEF Started, Only
<1>3. Attempt(r) \in Attempts /\ Attempt(r).req = r /\ Attempt(r).no = n
  BY <1>0, AttemptType DEF JsInv
<1>4. ASSUME NEW a \in H2 PROVE a.no < Started(a.req, phase', tries')
  <2>1. CASE a = Attempt(r)
    BY <1>0, <1>1, <1>3, <2>1
  <2>2. CASE a \in H
    <3>1. a.req \in Requests /\ a.no \in Nat /\ a.no < Started(a.req, phase, tries)
      BY <2>2, Sets DEF Attempts, Counts
    <3>2. CASE a.req = r
      <4>1. a.no < n
        BY <1>1, <3>1, <3>2
      <4>2. a.no < n + 1
        BY <1>0, <3>1, <4>1
      <4>. QED BY <1>1, <3>2, <4>2
    <3>3. CASE a.req # r
      BY <1>2, <3>1, <3>3
    <3>. QED BY <3>2, <3>3
  <2>. QED BY <2>1, <2>2
<1>5. ASSUME NEW q \in Requests
      PROVE  executed[q] + Cardinality(Waiting(H2, q)) <= Started(q, phase', tries')
  <2>1. PICK u, v, e : /\ u = Cardinality(Waiting(H2, q)) /\ v = Cardinality(Waiting(H, q))
                       /\ e = executed[q]
    OBVIOUS
  <2>2. e \in Nat /\ u \in Nat /\ v \in Nat /\ e + v <= Started(q, phase, tries)
    BY <2>1, WaitingSize DEF JsInv, Types, Counts
  <2>3. CASE q # r
    <3>1. Waiting(H2, q) \in SUBSET Waiting(H, q)
      <4>1. ASSUME NEW k \in 0 .. maxRetries PROVE [req |-> q, no |-> k] # Attempt(r)
        BY <1>3, <2>3
      <4>. QED BY <4>1 DEF Waiting
    <3>2. u <= v
      BY <2>1, <3>1, WaitingSize, FS_Subset
    <3>3. Started(q, phase, tries) \in Nat /\ Started(q, phase', tries') = Started(q, phase, tries)
      BY <1>2, <2>3, StartedGrows
    <3>4. e + u <= Started(q, phase, tries)
      BY <2>2, <3>2, <3>3
    <3>. QED BY <2>1, <3>3, <3>4
  <2>4. CASE q = r
    <3>1. Waiting(H2, q) \in SUBSET (Waiting(H, q) \cup {n})
      <4>1. ASSUME NEW k \in Waiting(H2, q) PROVE k \in Waiting(H, q) \cup {n}
        <5>1. k \in 0 .. maxRetries /\ [req |-> q, no |-> k] \in H2
          BY DEF Waiting
        <5>2. CASE [req |-> q, no |-> k] \in H
          BY <5>1, <5>2 DEF Waiting
        <5>3. CASE [req |-> q, no |-> k] = Attempt(r)
          <6>1. [req |-> q, no |-> k].no = k
            OBVIOUS
          <6>. QED BY <1>3, <5>3, <6>1
        <5>. QED BY <5>1, <5>2, <5>3
      <4>. QED BY <4>1
    <3>2. /\ IsFiniteSet(Waiting(H, q) \cup {n})
          /\ Cardinality(Waiting(H, q) \cup {n}) <= v + 1
      <4>1. PICK W : W = Waiting(H, q) /\ IsFiniteSet(W) /\ Cardinality(W) = v
        BY <2>1, WaitingSize
      <4>2. /\ IsFiniteSet(W \cup {n})
            /\ Cardinality(W \cup {n}) = v \/ Cardinality(W \cup {n}) = v + 1
        BY <4>1, FS_AddElement
      <4>3. Cardinality(W \cup {n}) <= v + 1
        BY <2>2, <4>2
      <4>. QED BY <4>1, <4>2, <4>3
    <3>3. u <= Cardinality(Waiting(H, q) \cup {n}) /\ Cardinality(Waiting(H, q) \cup {n}) \in Nat
      BY <2>1, <3>1, <3>2, FS_Subset, FS_CardinalityType
    <3>4. e + v <= n
      BY <1>1, <2>2, <2>4
    <3>5. e + u <= n + 1
      BY <1>0, <2>2, <3>2, <3>3, <3>4
    <3>. QED BY <1>1, <2>1, <2>4, <3>5
  <2>. QED BY <2>3, <2>4
<1>. QED BY <1>4, <1>5 DEF Counts

\* The server does a request: one attempt less is held.
LEMMA CountsServe ==
  ASSUME JsInv, phase' = phase, tries' = tries,
         NEW H, NEW H2, Counts(H, phase, tries, executed), \A x \in H : x \in Attempts,
         NEW a \in H, H2 \subseteq H, a \notin H2,
         executed' = executed \/ executed' = [executed EXCEPT ![a.req] = @ + 1]
  PROVE  Counts(H2, phase', tries', executed')
<1>1. \A x \in H2 : x.no < Started(x.req, phase, tries)
  BY DEF Counts
<1>2. ASSUME NEW r \in Requests
      PROVE  executed'[r] + Cardinality(Waiting(H2, r)) <= Started(r, phase, tries)
  <2>1. PICK u, v, e, f, x : /\ u = Cardinality(Waiting(H2, r)) /\ v = Cardinality(Waiting(H, r))
                             /\ e = executed[r] /\ f = executed'[r] /\ x = Started(r, phase, tries)
    OBVIOUS
  <2>2. e \in Nat /\ u \in Nat /\ v \in Nat /\ e + v <= x
    BY <2>1, WaitingSize DEF JsInv, Types, Counts
  <2>3. x \in Nat
    <3>1. tries[r] \in Nat
      BY PhaseTypes, Sets DEF JsInv
    <3>. QED BY <2>1, <3>1 DEF Started
  <2>4. Waiting(H2, r) \in SUBSET Waiting(H, r)
    BY DEF Waiting
  <2>5. CASE r # a.req
    <3>1. f = e
      BY <2>1, <2>5 DEF JsInv, Types
    <3>2. u <= v
      BY <2>1, <2>4, WaitingSize, FS_Subset
    <3>3. f + u <= x
      BY <2>2, <2>3, <3>1, <3>2
    <3>. QED BY <2>1, <3>3
  <2>6. CASE r = a.req
    <3>1. f \in Nat /\ f <= e + 1
      BY <2>1, <2>2, <2>6 DEF JsInv, Types
    <3>2. a \in Attempts /\ a = [req |-> r, no |-> a.no] /\ a.no \in 0 .. maxRetries
      BY <2>6 DEF Attempts
    <3>3. a.no \in Waiting(H, r) /\ a.no \notin Waiting(H2, r)
      BY <3>2 DEF Waiting
    <3>4. Waiting(H2, r) \in SUBSET (Waiting(H, r) \ {a.no})
      BY <2>4, <3>3
    <3>5. /\ IsFiniteSet(Waiting(H, r) \ {a.no})
          /\ Cardinality(Waiting(H, r) \ {a.no}) = v - 1
      BY <2>1, <3>3, WaitingSize, FS_RemoveElement
    <3>6. u <= v - 1
      BY <2>1, <3>4, <3>5, FS_Subset
    <3>7. f + u <= x
      BY <2>2, <2>3, <3>1, <3>6
    <3>. QED BY <2>1, <3>7
  <2>. QED BY <2>5, <2>6
<1>. QED BY <1>1, <1>2 DEF Counts

AttemptOK(c, ph, tr, ex) == Unique(c) /\ Owned(c, ph, tr) /\ Counts(Held(c), ph, tr, ex)

LEMMA AttemptParts ==
  /\ AttemptInv <=> AttemptOK(conn, phase, tries, executed)
  /\ AttemptInv' <=> AttemptOK(conn', phase', tries', executed')
BY DEF AttemptInv, AttemptOK, Unique, Owned, Counts, Held, Waiting, Started, Live, Sockets,
       Requests, Auth, NoAttempt, ToSet

\* A request that was not pending is enqueued.
LEMMA AttemptEnqueue ==
  ASSUME JsInv, NEW r \in Requests, phase[r] \in {"new", "delay", "connect"},
         Only(r, "sent"), Moves, tries' = tries, executed' = executed, IsConn(conn'),
         NEW c, IsConn(c), Enqueues(c, Attempt(r)),
         c.queue = conn.queue, c.writes = conn.writes, c.active = conn.active
  PROVE  AttemptInv'
<1>0. IsConn(conn) /\ Unique(conn) /\ Owned(conn, phase, tries)
      /\ Counts(Held(conn), phase, tries, executed)
  BY DEF JsInv, Types, AttemptInv
<1>1. Unique(c) /\ Held(c) = Held(conn)
  BY <1>0, UniqueSame
<1>2. PICK a \in Attempts : a = Attempt(r) /\ a.req = r /\ a.no = tries[r]
  BY AttemptType DEF JsInv
<1>3. PICK d : IsConn(d) /\ Queued(c, d, a) /\ Processed(d, conn')
  BY <1>2 DEF Enqueues
<1>4. a \notin Held(c)
  <2>1. Started(r, phase, tries) = tries[r] + 0 /\ tries[r] \in Nat
    BY PhaseTypes, Sets DEF Started, JsInv
  <2>2. ~(tries[r] < tries[r] + 0)
    BY <2>1
  <2>. QED BY <1>0, <1>1, <1>2, <2>1, <2>2 DEF Counts
<1>5. \A b \in Attempts : Live(b, phase, tries) => b.req # r
  BY DEF Live
<1>6. a # c.active
  <2>1. a # NoAttempt
    BY <1>2, Sets
  <2>2. CASE conn.active # NoAttempt
    <3>1. conn.active \in Attempts /\ Live(conn.active, phase, tries)
      BY <1>0, <2>2 DEF IsConn, Owned
    <3>. QED BY <1>2, <1>5, <3>1
  <2>. QED BY <2>1, <2>2
<1>7. Unique(d) /\ Held(d) \subseteq Held(conn) \cup {a}
  BY <1>1, <1>3, <1>4, <1>6, UniqueQueued
<1>8. Owned(d, phase', tries')
  <2>1. d.active = conn.active /\ d.queue = Append(conn.queue, a) /\ conn.queue \in Seq(Attempts)
    BY <1>0, <1>3 DEF Queued, IsConn
  <2>2. Live(a, phase', tries')
    BY <1>2 DEF Live, Only
  <2>3. ASSUME conn.active # NoAttempt PROVE Live(conn.active, phase', tries')
    <3>1. conn.active \in Attempts /\ Live(conn.active, phase, tries)
      BY <1>0, <2>3 DEF IsConn, Owned
    <3>. QED BY <1>5, <3>1, LiveOnly
  <2>4. ASSUME NEW i \in 1 .. Len(d.queue) PROVE Live(d.queue[i], phase', tries')
    <3>1. /\ Len(conn.queue) \in Nat /\ Len(d.queue) = Len(conn.queue) + 1
          /\ d.queue[Len(conn.queue) + 1] = a
          /\ \A j \in 1 .. Len(conn.queue) : d.queue[j] = conn.queue[j]
      BY <2>1
    <3>2. CASE i \in 1 .. Len(conn.queue)
      <4>1. conn.queue[i] \in Attempts /\ Live(conn.queue[i], phase, tries)
        BY <1>0, <3>2, HeldTypes DEF Owned
      <4>2. Live(conn.queue[i], phase', tries')
        BY <1>5, <4>1, LiveOnly
      <4>. QED BY <3>1, <3>2, <4>2
    <3>3. CASE i = Len(conn.queue) + 1
      BY <2>2, <3>1, <3>3
    <3>. QED BY <3>1, <3>2, <3>3
  <2>. QED BY <2>1, <2>3, <2>4 DEF Owned
<1>9. Unique(conn') /\ Held(conn') \subseteq Held(conn) \cup {Attempt(r)}
  <2>1. Unique(conn') /\ Held(conn') \subseteq Held(d)
    BY <1>3, <1>7, UniqueProcessed
  <2>. QED BY <1>2, <1>7, <2>1
<1>10. Owned(conn', phase', tries')
  BY <1>3, <1>8, OwnedProcessed
<1>11. Counts(Held(conn'), phase', tries', executed')
  BY <1>0, <1>9, HeldTypes, CountsAdd
<1>. QED BY <1>9, <1>10, <1>11, AttemptParts DEF AttemptOK

\* The active request of c is taken out; those of the queue stay pending.
LEMMA AttemptDeactivate ==
  ASSUME JsInv, Moves, executed' = executed, IsConn(conn'),
         NEW c, IsConn(c), Unique(c), Held(c) \subseteq Held(conn), Deactivates(c),
         \A i \in 1 .. Len(c.queue) : Live(c.queue[i], phase', tries')
  PROVE  AttemptInv'
<1>1. PICK d : IsConn(d) /\ Deactivated(c, d) /\ Processed(d, conn')
  BY DEF Deactivates
<1>2. d.queue = c.queue /\ d.writes = c.writes /\ d.active = NoAttempt
  BY <1>1 DEF Deactivated
<1>3. Unique(d) /\ Held(d) = Held(c)
  BY <1>1, <1>2, UniqueSame
<1>4. Owned(d, phase', tries')
  BY <1>2 DEF Owned
<1>5. Unique(conn') /\ Held(conn') \subseteq Held(conn)
  BY <1>1, <1>3, UniqueProcessed
<1>6. Owned(conn', phase', tries')
  BY <1>1, <1>4, OwnedProcessed
<1>7. Counts(Held(conn'), phase', tries', executed')
  BY <1>5, CountsKeep, HeldTypes DEF JsInv, Types, AttemptInv
<1>. QED BY <1>5, <1>6, <1>7, AttemptParts DEF AttemptOK

\* Held and pending requests stay as they are, or less is held.
LEMMA AttemptKeep ==
  ASSUME JsInv, Moves, executed' = executed, Unique(conn'), Held(conn') \subseteq Held(conn),
         conn'.active = conn.active, conn'.queue = conn.queue,
         \A a \in Attempts : Live(a, phase, tries) => Live(a, phase', tries')
  PROVE  AttemptInv'
<1>0. IsConn(conn) /\ Owned(conn, phase, tries) /\ Counts(Held(conn), phase, tries, executed)
  BY DEF JsInv, Types, AttemptInv
<1>1. conn.active # NoAttempt => conn.active \in Attempts
  BY <1>0 DEF IsConn
<1>2. \A i \in 1 .. Len(conn.queue) : conn.queue[i] \in Attempts
  BY <1>0, HeldTypes
<1>3. Owned(conn', phase', tries')
  BY <1>0, <1>1, <1>2 DEF Owned
<1>4. Counts(Held(conn'), phase', tries', executed')
  BY <1>0, CountsKeep, HeldTypes
<1>. QED BY <1>3, <1>4, AttemptParts DEF AttemptOK

LEMMA AttemptStep ==
  ASSUME JsInv, JsNext
  PROVE  AttemptInv'
<1>0. /\ Types /\ IsConn(conn) /\ Unique(conn) /\ Owned(conn, phase, tries) /\ Moves
      /\ Counts(Held(conn), phase, tries, executed)
  BY MovesStep DEF JsInv, Types, AttemptInv
<1>a. /\ \A i \in 1 .. Len(conn.queue) : conn.queue[i] \in Attempts
      /\ \A i \in 1 .. Len(conn.queue) : Live(conn.queue[i], phase, tries)
      /\ \A i \in 1 .. Len(conn.queue) : conn.queue[i] # conn.active
  BY <1>0, HeldTypes DEF Owned, Unique
<1>b. ASSUME UNCHANGED <<phase, tries>>
      PROVE  \A a \in Attempts : Live(a, phase, tries) => Live(a, phase', tries')
  BY <1>b DEF Live
<1>c. ASSUME NEW r \in Requests, NEW p, Only(r, p), phase[r] # "sent"
      PROVE  \A a \in Attempts : Live(a, phase, tries) => Live(a, phase', tries')
  <2> SUFFICES ASSUME NEW a \in Attempts, Live(a, phase, tries) PROVE Live(a, phase', tries')
    OBVIOUS
  <2>1. a.req # r
    BY <1>c DEF Live
  <2>. QED BY <1>c, <2>1, LiveOnly
<1>d. ASSUME conn'.queue = conn.queue, conn'.writes = conn.writes, conn'.active = conn.active,
             IsConn(conn')
      PROVE  Unique(conn') /\ Held(conn') \subseteq Held(conn)
  BY <1>0, <1>d, UniqueSame
<1>e. IsConn(conn')
  <2>1. Types'
    BY TypesStep
  <2>. QED BY <2>1 DEF Types, IsConn, Attempts, Pieces, Sockets, Requests, Auth, NoAttempt
<1>1. ASSUME NEW r \in Requests, Call(r) PROVE AttemptInv'
  <2>1. phase[r] = "new" /\ Sent(conn, r) /\ executed' = executed
    BY <1>1, CallFacts DEF Call, net
  <2>2. CASE conn.socket = 0
    <3>1. conn' = conn /\ (Only(r, "delay") \/ Only(r, "failed"))
      BY <2>1, <2>2 DEF Sent
    <3>2. \A a \in Attempts : Live(a, phase, tries) => Live(a, phase', tries')
      BY <1>c, <2>1, <3>1
    <3>. QED BY <1>0, <1>d, <1>e, <2>1, <3>1, <3>2, AttemptKeep
  <2>3. CASE conn.socket # 0
    <3>1. Only(r, "sent") /\ tries' = tries /\ Enqueues(conn, Attempt(r))
      BY <1>1, <2>1, <2>3, CallFacts DEF Sent
    <3>. QED BY <1>0, <1>e, <2>1, <3>1, AttemptEnqueue
  <2>. QED BY <2>2, <2>3
<1>2. CASE Disconnect
  <2>1. conn'.queue = conn.queue /\ conn'.writes = conn.writes /\ conn'.active = conn.active
    BY <1>0, <1>2, SocketFacts DEF Disconnect, Socketed
  <2>2. UNCHANGED <<phase, tries, executed>>
    BY <1>2 DEF Disconnect, net
  <2>. QED BY <1>0, <1>b, <1>d, <1>e, <2>1, <2>2, AttemptKeep
<1>3. ASSUME NEW r \in Requests, ConnectNow(r) PROVE AttemptInv'
  <2>1. /\ phase[r] = "delay" /\ Sent(conn, r) /\ executed' = executed /\ conn.socket # 0
        /\ Enqueues(conn, Attempt(r))
    BY <1>3, ConnectNowFacts DEF ConnectNow, net
  <2>2. Only(r, "sent") /\ tries' = tries
    BY <2>1 DEF Sent
  <2>. QED BY <1>0, <1>e, <2>1, <2>2, AttemptEnqueue
<1>4. ASSUME NEW r \in Requests, NEW s \in Sockets, ConnectNew(r, s) PROVE AttemptInv'
  <2>1. conn' = conn /\ executed' = executed /\ phase[r] = "delay" /\ Only(r, "connect")
    BY <1>4, ConnectNewFacts DEF ConnectNew, net
  <2>2. \A a \in Attempts : Live(a, phase, tries) => Live(a, phase', tries')
    BY <1>c, <2>1
  <2>. QED BY <1>0, <1>d, <1>e, <2>1, <2>2, AttemptKeep
<1>5. ASSUME NEW r \in Requests, Connected(r) PROVE AttemptInv'
  <2>1. phase[r] = "connect" /\ executed' = executed /\ Only(r, "sent") /\ tries' = tries
    BY <1>5, ConnectedFacts DEF Connected, net
  <2>2. PICK c : IsConn(c) /\ Socketed(conn, c, dial[r]) /\ Enqueues(c, Attempt(r))
    BY <1>5, ConnectedFacts
  <2>3. c.queue = conn.queue /\ c.writes = conn.writes /\ c.active = conn.active
    BY <2>2 DEF Socketed
  <2>. QED BY <1>0, <1>e, <2>1, <2>2, <2>3, AttemptEnqueue
<1>6. ASSUME NEW r \in Requests, ConnectFails(r) PROVE AttemptInv'
  <2>1. conn' = conn /\ executed' = executed /\ phase[r] = "connect" /\ Only(r, "failed")
    BY <1>6, ConnectFailsFacts DEF ConnectFails, net
  <2>2. \A a \in Attempts : Live(a, phase, tries) => Live(a, phase', tries')
    BY <1>c, <2>1
  <2>. QED BY <1>0, <1>d, <1>e, <2>1, <2>2, AttemptKeep
<1>7. ASSUME NEW s \in Sockets, Data(s) PROVE AttemptInv'
  <2>1. conn'.queue = conn.queue /\ conn'.writes = conn.writes /\ conn'.active = conn.active
    BY <1>0, <1>7 DEF Data, IsConn
  <2>2. UNCHANGED <<phase, tries, executed>>
    BY <1>7 DEF Data
  <2>. QED BY <1>0, <1>b, <1>d, <1>e, <2>1, <2>2, AttemptKeep
<1>8. CASE Settle
  <2>1. /\ conn.active \in Attempts /\ Only(conn.active.req, "done") /\ Deactivates(conn)
        /\ executed' = executed
    BY <1>8, SettleFacts DEF Settle, net
  <2>2. Live(conn.active, phase, tries) /\ conn.active.req \in Requests
    BY <1>0, <2>1, Sets DEF Owned, Attempts
  <2>3. ASSUME NEW i \in 1 .. Len(conn.queue) PROVE Live(conn.queue[i], phase', tries')
    <3>1. conn.queue[i].req # conn.active.req
      BY <1>a, <2>1, <2>2, LiveEqual
    <3>. QED BY <1>a, <2>1, <2>2, <3>1, LiveOnly
  <2>. QED BY <1>0, <1>e, <2>1, <2>3, AttemptDeactivate
<1>9. CASE Timeout
  <2>1. Rejected({conn.active}) /\ Deactivates(conn) /\ executed' = executed
    BY <1>9, TimeoutFacts DEF Timeout, net
  <2>2. ASSUME NEW i \in 1 .. Len(conn.queue) PROVE Live(conn.queue[i], phase', tries')
    <3>1. conn.queue[i] \notin {conn.active}
      BY <1>a
    <3>. QED BY <1>0, <1>a, <2>1, <3>1, LiveRejected
  <2>. QED BY <1>0, <1>e, <2>1, <2>2, AttemptDeactivate
<1>10. ASSUME NEW s \in Sockets, Break(s) \/ Ended(s) PROVE AttemptInv'
  <2>1. PICK n \in 0 .. Len(conn.writes[s]) : conn' = Written(s, n)
    BY <1>10 DEF Break, Ended
  <2>2. Dropped(conn, conn', s, n)
    BY <2>1, WrittenFacts
  <2>3. conn'.active = conn.active /\ conn'.queue = conn.queue
    BY <2>2 DEF Dropped
  <2>4. UNCHANGED <<phase, tries, executed>>
    BY <1>10 DEF Break, Ended, net
  <2>5. Unique(conn') /\ Held(conn') \subseteq Held(conn)
    BY <1>0, <1>e, <2>2, UniqueDropped
  <2>. QED BY <1>0, <1>b, <2>3, <2>4, <2>5, AttemptKeep
<1>11. CASE WriteError
  <2>1. PICK c : /\ IsConn(c) /\ Dropped(conn, c, failing, 1)
                 /\ \/ conn.active = NoAttempt /\ conn' = c
                    \/ conn.active # NoAttempt /\ Deactivates(c)
    BY <1>11, WriteErrorFacts
  <2>2. PICK a : a = Head(conn.writes[failing])
    OBVIOUS
  <2>3. failing \in Sockets /\ conn.writes[failing] # <<>> /\ Rejected({a}) /\ executed' = executed
    BY <1>11, <2>2, WriteErrorFacts DEF WriteError, net
  <2>4. conn.writes[failing] \in Seq(Attempts)
    BY <1>0, <2>3 DEF IsConn
  <2>5. /\ 1 \in 0 .. Len(conn.writes[failing]) /\ 1 \in 1 .. Len(conn.writes[failing])
        /\ a = conn.writes[failing][1]
    BY <2>2, <2>3, <2>4, EmptySeq
  <2>6. Unique(c) /\ Held(c) \subseteq Held(conn)
    BY <1>0, <2>1, <2>3, <2>5, UniqueDropped
  <2>7. c.queue = conn.queue /\ c.active = conn.active
    BY <2>1 DEF Dropped
  <2>8. ASSUME NEW i \in 1 .. Len(conn.queue) PROVE Live(conn.queue[i], phase', tries')
    <3>1. conn.queue[i] \notin {a}
      BY <1>0, <2>3, <2>5 DEF Unique
    <3>. QED BY <1>0, <1>a, <2>3, <3>1, LiveRejected
  <2>9. CASE conn.active # NoAttempt /\ Deactivates(c)
    BY <1>0, <1>e, <2>1, <2>3, <2>6, <2>7, <2>8, <2>9, AttemptDeactivate
  <2>10. CASE conn.active = NoAttempt /\ conn' = c
    <3>1. Owned(conn', phase', tries')
      BY <2>7, <2>8, <2>10 DEF Owned
    <3>2. Counts(Held(conn'), phase', tries', executed')
      BY <1>0, <2>3, <2>6, <2>10, CountsKeep, HeldTypes
    <3>. QED BY <2>6, <2>10, <3>1, <3>2, AttemptParts DEF AttemptOK
  <2>. QED BY <2>1, <2>9, <2>10
<1>12. CASE Close
  <2>1. /\ conn'.queue = <<>> /\ conn'.active = NoAttempt /\ conn'.writes = conn.writes
        /\ executed' = executed
    BY <1>12, CloseFacts DEF Close
  <2>2. Len(conn'.queue) = 0
    BY <2>1
  <2>3. Unique(conn')
    BY <1>0, <2>1, <2>2 DEF Unique
  <2>4. Owned(conn', phase', tries')
    BY <2>1, <2>2 DEF Owned
  <2>5. Held(conn') \subseteq Held(conn)
    BY <1>0, <1>e, <2>1, <2>2, HeldBy
  <2>6. Counts(Held(conn'), phase', tries', executed')
    BY <1>0, <2>1, <2>5, CountsKeep, HeldTypes
  <2>. QED BY <2>3, <2>4, <2>6, AttemptParts DEF AttemptOK
<1>13. ASSUME NEW s \in Sockets, Serve(s) PROVE AttemptInv'
  <2>1. conn.writes[s] \in Seq(Attempts) /\ conn.writes[s] # <<>>
    BY <1>13, ServeFacts
  <2>2. PICK n \in 1 .. Len(conn.writes[s]) : Dropped(conn, conn', s, n)
    BY <1>13, ServeFacts
  <2>3. n \in 0 .. Len(conn.writes[s]) /\ n # 0
    BY <2>1
  <2>4. PICK a : a = Head(conn.writes[s])
    OBVIOUS
  <2>5. executed' = executed \/ executed' = [executed EXCEPT ![a.req] = @ + 1]
    BY <1>13, <2>4, ServeFacts
  <2>6. Unique(conn') /\ Held(conn') \subseteq Held(conn) /\ a \in Held(conn) /\ a \notin Held(conn')
    BY <1>0, <1>e, <2>2, <2>3, <2>4, UniqueDropped
  <2>7. conn'.active = conn.active /\ conn'.queue = conn.queue
    BY <2>2 DEF Dropped
  <2>8. phase' = phase /\ tries' = tries
    BY <1>13 DEF Serve
  <2>9. Owned(conn', phase', tries')
    BY <1>0, <2>7, <2>8 DEF Owned
  <2>10. Counts(Held(conn'), phase', tries', executed')
    BY <1>0, <2>5, <2>6, <2>8, CountsServe, HeldTypes
  <2>. QED BY <2>6, <2>9, <2>10, AttemptParts DEF AttemptOK
<1>. QED BY <1>1, <1>2, <1>3, <1>4, <1>5, <1>6, <1>7, <1>8, <1>9, <1>10, <1>11, <1>12, <1>13,
            ConnectCases
         DEF JsNext, Application, EventLoop, Network

-----------------------------------------------------------------------------
(* Races *)

\* What RaceInv says of connection c, socket states sk and failing socket fl.
Alone(c, sk, fl) ==
  /\ \A s, t \in Sockets : sk[s] # "unused" /\ sk[t] # "unused" => s = t
  /\ \A s \in Sockets : sk[s] = "open" => s = c.socket \/ s = fl
  /\ \/ \E s \in Sockets : sk[s] \in {"open", "ending"}
     \/ c.active = NoAttempt /\ c.queue = <<>>

LEMMA RaceParts ==
  ASSUME Types
  PROVE  RaceInv <=> (~raced => Alone(conn, socks, failing))
<1>1. ASSUME NEW s \in Sockets
      PROVE  socks[s] \notin {"unused", "connecting"} <=> socks[s] \in {"open", "ending"}
  BY DEF Types, JsTypeOK
<1>2. (\A s \in Sockets : socks[s] \in {"unused", "connecting"})
        <=> ~(\E s \in Sockets : socks[s] \in {"open", "ending"})
  BY <1>1
<1>3. (\A s, t \in Used : s = t)
        <=> \A s, t \in Sockets : socks[s] # "unused" /\ socks[t] # "unused" => s = t
  BY DEF Used
<1>. QED BY <1>2, <1>3 DEF RaceInv, Alone

\* The primed invariant, from its unprimed form.
LEMMA RacePrimed ==
  ASSUME Types', ~raced' => Alone(conn', socks', failing')
  PROVE  RaceInv'
<1>1. socks' \in [Sockets -> SockStates]
  BY DEF Types, JsTypeOK, Sockets, SockStates
<1>2. ASSUME NEW s \in Sockets
      PROVE  socks'[s] \notin {"unused", "connecting"} <=> socks'[s] \in {"open", "ending"}
  BY <1>1 DEF SockStates
<1>3. ASSUME ~raced',
             \A s \in Sockets : socks'[s] \in {"unused", "connecting"}
      PROVE  conn'.active = NoAttempt /\ conn'.queue = <<>>
  BY <1>2, <1>3 DEF Alone
<1>. QED BY <1>3 DEF RaceInv, Used, Alone, Sockets, NoAttempt

\* The sockets and those in use stay as they are, and one of them is not closed.
LEMMA AloneKeep ==
  ASSUME Alone(conn, socks, failing), socks' = socks, conn'.socket = conn.socket,
         failing' = failing \/ failing = 0,
         \/ conn'.active = conn.active /\ conn'.queue = conn.queue
         \/ conn.active # NoAttempt
         \/ \E s \in Sockets : socks[s] \in {"open", "ending"}
  PROVE  Alone(conn', socks', failing')
<1>0. 0 \notin Sockets
  BY Sets
<1>1. \A s \in Sockets : socks[s] = "open" => s = conn.socket \/ s = failing'
  BY <1>0 DEF Alone
<1>. QED BY <1>1 DEF Alone

LEMMA RaceStep ==
  ASSUME JsInv, JsNext
  PROVE  RaceInv'
<1>0. Types /\ IsConn(conn) /\ (~raced => Alone(conn, socks, failing)) /\ Types'
  BY RaceParts, TypesStep DEF JsInv, Types
<1>a. /\ socks \in [Sockets -> SockStates] /\ dial \in [Requests -> {0} \cup Sockets]
      /\ 0 \notin Sockets /\ conn.socket \in {0} \cup Sockets /\ failing \in {0} \cup Sockets
      /\ InUse(socks, conn.socket, failing)
  BY Sets, SocketParts DEF JsInv, Types, JsTypeOK, IsConn, SockStates
<1>b. ASSUME NEW c, IsConn(c), NEW a, Enqueues(c, a)
      PROVE  conn'.socket = c.socket
  BY <1>b DEF Enqueues, Queued, Processed
<1>c. ASSUME NEW c, IsConn(c), Deactivates(c)
      PROVE  conn'.socket = c.socket
  BY <1>c DEF Deactivates, Deactivated, Processed
<1>d. ASSUME raced' = raced, Alone(conn, socks, failing) => Alone(conn', socks', failing')
      PROVE  RaceInv'
  BY <1>0, <1>d, RacePrimed
<1>e. conn.socket # 0 => \E s \in Sockets : socks[s] \in {"open", "ending"}
  BY <1>a DEF InUse
<1>f. failing # 0 => \E s \in Sockets : socks[s] \in {"open", "ending"}
  BY <1>a DEF InUse
<1>1. ASSUME NEW r \in Requests, Call(r) PROVE RaceInv'
  <2>1. raced' = raced /\ socks' = socks /\ failing' = failing
    BY <1>1 DEF Call, history
  <2>2. CASE conn.socket = 0
    <3>1. conn' = conn
      BY <1>1, <2>2, CallFacts DEF Sent
    <3>. QED BY <1>d, <2>1, <3>1
  <2>3. CASE conn.socket # 0
    <3>1. conn'.socket = conn.socket
      BY <1>0, <1>1, <1>b, <2>3, CallFacts
    <3>. QED BY <1>d, <1>e, <2>1, <2>3, <3>1, AloneKeep
  <2>. QED BY <2>2, <2>3
<1>2. CASE Disconnect
  <2>1. /\ raced' = raced /\ failing' = 0 /\ failing = 0
        /\ socks' = IF conn.socket = 0 THEN socks ELSE [socks EXCEPT ![conn.socket] = "ending"]
    BY <1>2 DEF Disconnect, history
  <2>2. conn'.socket = 0 /\ conn'.active = conn.active /\ conn'.queue = conn.queue
    BY <1>0, <1>2, SocketFacts DEF Disconnect, Socketed
  <2>3. ASSUME Alone(conn, socks, failing) PROVE Alone(conn', socks', failing')
    <3>1. CASE conn.socket = 0
      BY <2>1, <2>2, <2>3, <3>1 DEF Alone
    <3>2. CASE conn.socket # 0
      <4>1. /\ conn.socket \in Sockets /\ socks'[conn.socket] = "ending"
            /\ \A s \in Sockets : s # conn.socket => socks'[s] = socks[s]
            /\ socks[conn.socket] = "open"
        BY <1>a, <2>1, <3>2 DEF InUse
      <4>2. \A s, t \in Sockets : socks'[s] # "unused" /\ socks'[t] # "unused" => s = t
        BY <2>3, <4>1 DEF Alone
      <4>3. \A s \in Sockets : socks'[s] # "open"
        BY <2>3, <4>1 DEF Alone
      <4>. QED BY <4>1, <4>2, <4>3 DEF Alone
    <3>. QED BY <3>1, <3>2
  <2>. QED BY <1>d, <2>1, <2>3
<1>3. ASSUME NEW r \in Requests, ConnectNow(r) PROVE RaceInv'
  <2>1. raced' = raced /\ socks' = socks /\ failing' = failing /\ conn.socket # 0
    BY <1>3 DEF ConnectNow
  <2>2. conn'.socket = conn.socket
    BY <1>0, <1>3, <1>b, ConnectNowFacts
  <2>. QED BY <1>d, <1>e, <2>1, <2>2, AloneKeep
<1>4. ASSUME NEW r \in Requests, NEW s \in Sockets, ConnectNew(r, s) PROVE RaceInv'
  <2>1. /\ conn' = conn /\ failing = 0 /\ conn.socket = 0 /\ socks[s] = "unused"
        /\ socks' = [socks EXCEPT ![s] = "connecting"] /\ failing' = failing
        /\ raced' = (raced \/ \E t \in Sockets : socks[t] \in {"connecting", "ending"})
    BY <1>4 DEF ConnectNew
  <2>2. ASSUME ~raced' PROVE Alone(conn', socks', failing')
    <3>1. Alone(conn, socks, failing) /\ \A t \in Sockets : socks[t] \notin {"connecting", "ending"}
      BY <1>0, <2>1, <2>2
    <3>2. \A t \in Sockets : socks[t] = "unused"
      BY <1>a, <2>1, <3>1 DEF Alone, SockStates
    <3>3. \A t \in Sockets : t # s => socks'[t] = "unused"
      BY <1>a, <2>1, <3>2
    <3>4. socks'[s] = "connecting"
      BY <1>a, <2>1
    <3>5. conn'.active = NoAttempt /\ conn'.queue = <<>>
      BY <2>1, <3>1, <3>2 DEF Alone
    <3>. QED BY <3>3, <3>4, <3>5 DEF Alone
  <2>. QED BY <1>0, <2>2, RacePrimed
<1>5. ASSUME NEW r \in Requests, Connected(r) PROVE RaceInv'
  <2>1. /\ raced' = raced /\ failing' = failing
        /\ socks' = [socks EXCEPT ![dial[r]] = "open"]
    BY <1>5 DEF Connected, history
  <2>2. dial[r] \in Sockets /\ socks[dial[r]] = "connecting"
    BY <1>5, ConnectedFacts
  <2>3. PICK c : IsConn(c) /\ Socketed(conn, c, dial[r]) /\ Enqueues(c, Attempt(r))
    BY <1>5, ConnectedFacts
  <2>4. conn'.socket = dial[r]
    BY <1>b, <2>3 DEF Socketed
  <2>5. socks'[dial[r]] = "open" /\ \A s \in Sockets : s # dial[r] => socks'[s] = socks[s]
    BY <1>a, <2>1, <2>2
  <2>6. ASSUME Alone(conn, socks, failing) PROVE Alone(conn', socks', failing')
    <3>1. \A s \in Sockets : s # dial[r] => socks'[s] = "unused"
      BY <2>2, <2>5, <2>6 DEF Alone
    <3>. QED BY <2>2, <2>4, <2>5, <3>1 DEF Alone
  <2>. QED BY <1>d, <2>1, <2>6
<1>6. ASSUME NEW r \in Requests, ConnectFails(r) PROVE RaceInv'
  <2>1. /\ raced' = raced /\ failing' = failing /\ conn' = conn
        /\ socks' = [socks EXCEPT ![dial[r]] = "unused"]
    BY <1>6 DEF ConnectFails, history
  <2>2. dial[r] \in Sockets /\ socks[dial[r]] = "connecting"
    BY <1>6, ConnectFailsFacts
  <2>3. socks'[dial[r]] = "unused" /\ \A s \in Sockets : s # dial[r] => socks'[s] = socks[s]
    BY <1>a, <2>1, <2>2
  <2>4. ASSUME Alone(conn, socks, failing) PROVE Alone(conn', socks', failing')
    <3>1. \A s \in Sockets : socks'[s] = "unused"
      BY <2>2, <2>3, <2>4 DEF Alone
    <3>2. \A s \in Sockets : socks[s] \notin {"open", "ending"}
      BY <2>2, <2>3, <3>1
    <3>. QED BY <2>1, <2>4, <3>1, <3>2 DEF Alone
  <2>. QED BY <1>d, <2>1, <2>4
<1>7. ASSUME NEW s \in Sockets, Data(s) PROVE RaceInv'
  <2>1. /\ raced' = raced /\ socks' = socks /\ failing' = failing
        /\ conn'.socket = conn.socket /\ conn'.active = conn.active /\ conn'.queue = conn.queue
    BY <1>0, <1>7 DEF Data, history, IsConn
  <2>. QED BY <1>d, <2>1, AloneKeep
<1>8. CASE Settle \/ Timeout
  <2>1. raced' = raced /\ socks' = socks /\ failing' = failing /\ conn.active # NoAttempt
    BY <1>8 DEF Settle, Timeout
  <2>2. conn'.socket = conn.socket
    BY <1>0, <1>8, <1>c, SettleFacts, TimeoutFacts
  <2>. QED BY <1>d, <2>1, <2>2, AloneKeep
<1>9. ASSUME NEW s \in Sockets, Break(s) \/ Ended(s) PROVE RaceInv'
  <2>1. PICK n \in 0 .. Len(conn.writes[s]) : conn' = Written(s, n)
    BY <1>9 DEF Break, Ended
  <2>2. conn'.socket = conn.socket /\ conn'.active = conn.active /\ conn'.queue = conn.queue
    BY <2>1, WrittenFacts DEF Dropped
  <2>3. raced' = raced /\ socks' = socks /\ failing = 0
    BY <1>9 DEF Break, Ended, history
  <2>. QED BY <1>d, <2>2, <2>3, AloneKeep
<1>10. CASE WriteError
  <2>1. raced' = raced /\ socks' = socks /\ failing' = failing /\ failing # 0
    BY <1>10 DEF WriteError, history
  <2>2. PICK c : /\ IsConn(c) /\ Dropped(conn, c, failing, 1)
                 /\ \/ conn.active = NoAttempt /\ conn' = c
                    \/ conn.active # NoAttempt /\ Deactivates(c)
    BY <1>10, WriteErrorFacts
  <2>3. conn'.socket = conn.socket
    BY <1>c, <2>2 DEF Dropped
  <2>. QED BY <1>d, <1>f, <2>1, <2>3, AloneKeep
<1>11. CASE Close
  <2>1. /\ raced' = raced /\ failing' = 0 /\ socks' = [socks EXCEPT ![failing] = "unused"]
        /\ failing # 0
    BY <1>11 DEF Close, history
  <2>2. failing \in Sockets /\ conn'.queue = <<>> /\ conn'.active = NoAttempt
    BY <1>11, CloseFacts
  <2>3. socks[failing] \in {"open", "ending"}
    BY <1>a, <2>1 DEF InUse
  <2>4. socks'[failing] = "unused" /\ \A s \in Sockets : s # failing => socks'[s] = socks[s]
    BY <1>a, <2>1, <2>2
  <2>5. ASSUME Alone(conn, socks, failing) PROVE Alone(conn', socks', failing')
    <3>1. \A s \in Sockets : socks'[s] = "unused"
      BY <2>2, <2>3, <2>4, <2>5 DEF Alone
    <3>. QED BY <2>2, <3>1 DEF Alone
  <2>. QED BY <1>d, <2>1, <2>5
<1>12. ASSUME NEW s \in Sockets, Serve(s) PROVE RaceInv'
  <2>1. raced' = raced /\ socks' = socks /\ failing' = failing
    BY <1>12 DEF Serve, history
  <2>2. conn'.socket = conn.socket /\ conn'.active = conn.active /\ conn'.queue = conn.queue
    BY <1>12, ServeFacts DEF Dropped
  <2>. QED BY <1>d, <2>1, <2>2, AloneKeep
<1>. QED BY <1>1, <1>2, <1>3, <1>4, <1>5, <1>6, <1>7, <1>8, <1>9, <1>10, <1>11, <1>12, ConnectCases
         DEF JsNext, Application, EventLoop, Network

-----------------------------------------------------------------------------
(* Answers *)

\* Every socket that is not closed carries one request, or one reply, or nothing.
InStep(c, sk, bk) ==
  \A s \in Sockets : sk[s] \in {"open", "ending"} => Lockstep(c, c.writes[s], bk[s])

LEMMA AnswerPrimed ==
  ASSUME ~slipped' /\ ~raced' => ~mixed' /\ (failing' = 0 => InStep(conn', socks', back'))
  PROVE  AnswerInv'
BY DEF AnswerInv, InStep, Lockstep, OneReply, Piece, Sockets, NoAttempt

\* The queue is processed.
LEMMA LockProcessed ==
  ASSUME NEW c, NEW d, IsConn(c), Processed(c, d), NEW s \in Sockets, NEW b,
         s = c.socket \/ c.socket = 0, Lockstep(c, c.writes[s], b)
  PROVE  Lockstep(d, d.writes[s], b)
<1>1. CASE d.active = c.active /\ d.buffer = c.buffer /\ d.writes = c.writes
  BY <1>1 DEF Lockstep
<1>2. CASE ~(d.active = c.active /\ d.buffer = c.buffer /\ d.writes = c.writes)
  <2>1. PICK h : h = Head(c.queue)
    OBVIOUS
  <2>2. /\ c.socket # 0 /\ c.active = NoAttempt /\ c.queue # <<>>
        /\ d.active = h /\ d.buffer = <<>>
        /\ d.writes = [c.writes EXCEPT ![c.socket] = Append(@, h)]
    BY <1>2, <2>1 DEF Processed
  <2>3. h \in Attempts /\ h # NoAttempt
    BY <2>1, <2>2, HeadTailProperties, Sets DEF IsConn
  <2>4. c.writes[s] = <<>> /\ b = <<>>
    BY <2>2 DEF Lockstep
  <2>5. d.writes[s] = Append(<<>>, h)
    BY <2>2, <2>4 DEF IsConn
  <2>6. d.writes[s] = <<h>>
    BY <2>5
  <2>. QED BY <2>2, <2>3, <2>4, <2>6 DEF Lockstep
<1>. QED BY <1>1, <1>2

LEMMA LockEnqueue ==
  ASSUME NEW c, IsConn(c), NEW a, Enqueues(c, a), NEW s \in Sockets, s = c.socket, NEW b,
         Lockstep(c, c.writes[s], b)
  PROVE  Lockstep(conn', conn'.writes[s], b)
<1>1. PICK d : IsConn(d) /\ Queued(c, d, a) /\ Processed(d, conn')
  BY DEF Enqueues
<1>2. d.socket = c.socket /\ d.active = c.active /\ d.buffer = c.buffer /\ d.writes = c.writes
  BY <1>1 DEF Queued
<1>3. Lockstep(d, d.writes[s], b)
  BY <1>2 DEF Lockstep
<1>. QED BY <1>1, <1>2, <1>3, LockProcessed

\* The whole answer has come and its request is settled.
LEMMA LockSettle ==
  ASSUME NEW r, NEW buffer, NEW coming, OneReply(r, buffer, coming), buffer # <<>>,
         Last(buffer).piece # "first"
  PROVE  buffer \in RepliesTo(r) /\ coming = <<>>
<1>1. CASE buffer = <<Piece(r, "all")>> /\ coming = <<>>
  BY <1>1 DEF RepliesTo, Piece
<1>2. CASE r \in LongReplies /\ buffer = <<Piece(r, "first"), Piece(r, "rest")>> /\ coming = <<>>
  BY <1>2 DEF RepliesTo, Piece
<1>3. CASE buffer = <<Piece(r, "first")>>
  <2>1. PICK p : p = Piece(r, "first")
    OBVIOUS
  <2>2. p.piece = "first"
    BY <2>1 DEF Piece
  <2>3. Last(<<p>>) = p
    BY DEF Last
  <2>. QED BY <1>3, <2>1, <2>2, <2>3
<1>. QED BY <1>1, <1>2, <1>3 DEF OneReply

LEMMA PairAppend ==
  ASSUME NEW a, NEW b
  PROVE  Append(<<a>>, b) = <<a, b>>
<1>1. PICK S : a \in S /\ b \in S
  <2>1. a \in {a, b} /\ b \in {a, b}
    OBVIOUS
  <2>. QED BY <2>1
<1>a. <<a>> \in Seq(S)
  BY <1>1
<1>b. <<a, b>> \in Seq(S)
  BY <1>1
<1>2. PICK u \in Seq(S) : u = <<a>>
  BY <1>a, Zenon
<1>3. PICK w \in Seq(S) : w = <<a, b>>
  BY <1>b, Zenon
<1>4. PICK v \in Seq(S) : v = Append(u, b)
  BY <1>1, AppendProperties
<1>5. Len(v) = Len(u) + 1 /\ v[Len(u) + 1] = b /\ \A i \in 1 .. Len(u) : v[i] = u[i]
  BY <1>1, <1>4, AppendProperties
<1>6. Len(u) = 1 /\ u[1] = a
  BY <1>2
<1>7. Len(w) = 2 /\ w[1] = a /\ w[2] = b
  BY <1>3
<1>8. v = w
  <2>1. Len(v) = 2 /\ v[1] = a /\ v[2] = b
    BY <1>5, <1>6
  <2>2. \A i \in 1 .. Len(v) : v[i] = w[i]
    BY <1>7, <2>1
  <2>. QED BY <1>7, <2>1, <2>2, SeqEqual
<1>. QED BY <1>2, <1>3, <1>4, <1>8

\* A piece of the reply arrives.
LEMMA LockData ==
  ASSUME NEW r, NEW buffer, NEW coming, OneReply(r, buffer, coming), coming # <<>>
  PROVE  OneReply(r, Append(buffer, Head(coming)), Tail(coming))
<1>1. PICK x, y, z : x = Piece(r, "all") /\ y = Piece(r, "first") /\ z = Piece(r, "rest")
  OBVIOUS
<1>2. ASSUME NEW v
      PROVE  Append(<<>>, v) = <<v>> /\ Head(<<v>>) = v /\ Tail(<<v>>) = <<>>
  OBVIOUS
<1>a. Head(<<y, z>>) = y
  OBVIOUS
<1>b. Tail(<<y, z>>) = <<z>>
  OBVIOUS
<1>c. Append(<<y>>, z) = <<y, z>>
  BY PairAppend
<1>3. CASE buffer = <<>> /\ coming = <<x>>
  BY <1>1, <1>2, <1>3 DEF OneReply
<1>4. CASE r \in LongReplies /\ buffer = <<>> /\ coming = <<y, z>>
  BY <1>1, <1>2, <1>4, <1>a, <1>b DEF OneReply
<1>5. CASE r \in LongReplies /\ buffer = <<y>> /\ coming = <<z>>
  BY <1>1, <1>2, <1>5, <1>c DEF OneReply
<1>. QED BY <1>1, <1>3, <1>4, <1>5 DEF OneReply

LEMMA AnswerStep ==
  ASSUME JsInv, JsNext
  PROVE  AnswerInv'
<1>0. /\ Types /\ IsConn(conn) /\ (~raced => Alone(conn, socks, failing))
      /\ ~slipped /\ ~raced => ~mixed /\ (failing = 0 => InStep(conn, socks, back))
  BY RaceParts DEF JsInv, Types, AnswerInv, InStep
<1>a. /\ socks \in [Sockets -> SockStates] /\ back \in [Sockets -> Seq(Pieces)]
      /\ 0 \notin Sockets /\ conn.socket \in {0} \cup Sockets /\ failing \in {0} \cup Sockets
      /\ conn.writes \in [Sockets -> Seq(Attempts)]
      /\ InUse(socks, conn.socket, failing) /\ Quiet(socks, conn.writes, back)
  BY Sets, SocketParts DEF JsInv, Types, JsTypeOK, IsConn, SockStates
<1>b. ASSUME failing = 0, conn.socket # 0, NEW a, Enqueues(conn, a),
             UNCHANGED <<socks, back, slipped, raced, mixed>>
      PROVE  AnswerInv'
  <2>1. ASSUME ~slipped, ~raced PROVE InStep(conn', socks', back')
    <3>1. Alone(conn, socks, failing) /\ InStep(conn, socks, back)
      BY <1>0, <1>b, <2>1
    <3>2. \A s \in Sockets : socks[s] \in {"open", "ending"} => s = conn.socket
      BY <1>a, <1>b, <3>1 DEF Alone, InUse
    <3>3. ASSUME NEW s \in Sockets, socks'[s] \in {"open", "ending"}
          PROVE  Lockstep(conn', conn'.writes[s], back'[s])
      <4>1. s = conn.socket /\ Lockstep(conn, conn.writes[s], back[s])
        BY <1>b, <3>1, <3>2, <3>3 DEF InStep
      <4>2. Lockstep(conn', conn'.writes[s], back[s])
        BY <1>0, <1>b, <4>1, LockEnqueue
      <4>. QED BY <1>b, <4>2
    <3>. QED BY <3>3 DEF InStep
  <2>. QED BY <1>0, <1>b, <2>1, AnswerPrimed
<1>1. ASSUME NEW r \in Requests, Call(r) PROVE AnswerInv'
  <2>1. UNCHANGED <<socks, back, slipped, raced, mixed, failing>> /\ failing = 0
    BY <1>1 DEF Call, history, net
  <2>2. CASE conn.socket = 0
    <3>1. conn' = conn
      BY <1>1, <2>2, CallFacts DEF Sent
    <3>. QED BY <1>0, <2>1, <3>1, AnswerPrimed
  <2>3. CASE conn.socket # 0
    BY <1>1, <1>b, <2>1, <2>3, CallFacts
  <2>. QED BY <2>2, <2>3
<1>2. CASE Disconnect
  <2>1. /\ UNCHANGED <<slipped, raced, mixed, back>> /\ failing = 0
        /\ socks' = IF conn.socket = 0 THEN socks ELSE [socks EXCEPT ![conn.socket] = "ending"]
    BY <1>2 DEF Disconnect, history, net
  <2>2. conn'.active = conn.active /\ conn'.buffer = conn.buffer /\ conn'.writes = conn.writes
    BY <1>0, <1>2, SocketFacts DEF Disconnect, Socketed
  <2>3. ASSUME NEW s \in Sockets, socks'[s] \in {"open", "ending"}
        PROVE  socks[s] \in {"open", "ending"}
    BY <1>a, <2>1, <2>3 DEF InUse
  <2>4. ASSUME InStep(conn, socks, back) PROVE InStep(conn', socks', back')
    <3>1. ASSUME NEW s \in Sockets, socks'[s] \in {"open", "ending"}
          PROVE  Lockstep(conn', conn'.writes[s], back'[s])
      <4>1. Lockstep(conn, conn.writes[s], back[s])
        BY <2>3, <2>4, <3>1 DEF InStep
      <4>. QED BY <2>1, <2>2, <4>1 DEF Lockstep
    <3>. QED BY <3>1 DEF InStep
  <2>. QED BY <1>0, <2>1, <2>4, AnswerPrimed
<1>3. ASSUME NEW r \in Requests, ConnectNow(r) PROVE AnswerInv'
  <2>1. /\ UNCHANGED <<socks, back, slipped, raced, mixed, failing>> /\ failing = 0
        /\ conn.socket # 0
    BY <1>3 DEF ConnectNow, net
  <2>. QED BY <1>3, <1>b, <2>1, ConnectNowFacts
<1>4. ASSUME NEW r \in Requests, NEW t \in Sockets, ConnectNew(r, t) PROVE AnswerInv'
  <2>1. /\ UNCHANGED <<conn, slipped, mixed, back>> /\ failing = 0
        /\ socks' = [socks EXCEPT ![t] = "connecting"] /\ (~raced' => ~raced)
    BY <1>4 DEF ConnectNew, net
  <2>2. ASSUME InStep(conn, socks, back) PROVE InStep(conn', socks', back')
    BY <1>a, <2>1, <2>2 DEF InStep
  <2>. QED BY <1>0, <2>1, <2>2, AnswerPrimed
<1>5. ASSUME NEW r \in Requests, Connected(r) PROVE AnswerInv'
  <2>1. /\ UNCHANGED <<back, slipped, mixed, raced>> /\ failing = 0
        /\ socks' = [socks EXCEPT ![dial[r]] = "open"]
    BY <1>5 DEF Connected, history, net
  <2>2. dial[r] \in Sockets /\ socks[dial[r]] = "connecting"
    BY <1>5, ConnectedFacts
  <2>3. PICK c : IsConn(c) /\ Socketed(conn, c, dial[r]) /\ Enqueues(c, Attempt(r))
    BY <1>5, ConnectedFacts
  <2>4. c.socket = dial[r] /\ c.active = conn.active /\ c.writes = conn.writes
    BY <2>3 DEF Socketed
  <2>5. ASSUME ~slipped, ~raced PROVE InStep(conn', socks', back')
    <3>1. Alone(conn, socks, failing)
      BY <1>0, <2>5
    <3>2. \A s \in Sockets : s # dial[r] => socks[s] = "unused" /\ socks'[s] = "unused"
      BY <1>a, <2>1, <2>2, <3>1 DEF Alone
    <3>3. conn.active = NoAttempt
      BY <2>2, <3>1, <3>2 DEF Alone
    <3>4. conn.writes[dial[r]] = <<>> /\ back[dial[r]] = <<>>
      BY <1>a, <2>2 DEF Quiet
    <3>5. Lockstep(c, c.writes[dial[r]], back[dial[r]])
      BY <2>4, <3>3, <3>4 DEF Lockstep
    <3>6. Lockstep(conn', conn'.writes[dial[r]], back[dial[r]])
      BY <2>2, <2>3, <2>4, <3>5, LockEnqueue
    <3>. QED BY <2>1, <3>2, <3>6 DEF InStep
  <2>. QED BY <1>0, <2>1, <2>5, AnswerPrimed
<1>6. ASSUME NEW r \in Requests, ConnectFails(r) PROVE AnswerInv'
  <2>1. /\ UNCHANGED <<conn, slipped, mixed, raced, back>> /\ failing = 0
        /\ socks' = [socks EXCEPT ![dial[r]] = "unused"]
    BY <1>6 DEF ConnectFails, history, net
  <2>2. ASSUME InStep(conn, socks, back) PROVE InStep(conn', socks', back')
    BY <1>a, <2>1, <2>2 DEF InStep
  <2>. QED BY <1>0, <2>1, <2>2, AnswerPrimed
<1>7. ASSUME NEW s \in Sockets, Data(s) PROVE AnswerInv'
  <2>1. /\ UNCHANGED <<socks, slipped, mixed, raced>> /\ failing = 0
        /\ back' = [back EXCEPT ![s] = Tail(@)] /\ back[s] # <<>>
        /\ socks[s] \in {"open", "ending"}
    BY <1>7 DEF Data, history
  <2>2. ASSUME ~slipped, ~raced PROVE InStep(conn', socks', back')
    <3>1. Alone(conn, socks, failing) /\ Lockstep(conn, conn.writes[s], back[s])
      BY <1>0, <2>1, <2>2 DEF InStep
    <3>2. /\ conn.active # NoAttempt /\ conn.writes[s] = <<>>
          /\ OneReply(conn.active.req, conn.buffer, back[s])
      BY <2>1, <3>1 DEF Lockstep
    <3>3. conn' = [conn EXCEPT !.buffer = Append(@, Head(back[s]))]
      BY <1>7, <3>2 DEF Data
    <3>4. /\ conn'.active = conn.active /\ conn'.writes = conn.writes
          /\ conn'.buffer = Append(conn.buffer, Head(back[s]))
      BY <1>0, <3>3 DEF IsConn
    <3>5. OneReply(conn.active.req, Append(conn.buffer, Head(back[s])), Tail(back[s]))
      BY <2>1, <3>2, LockData
    <3>6. back'[s] = Tail(back[s])
      BY <1>a, <2>1
    <3>7. Lockstep(conn', conn'.writes[s], back'[s])
      BY <3>2, <3>4, <3>5, <3>6 DEF Lockstep
    <3>8. \A t \in Sockets : socks'[t] \in {"open", "ending"} => t = s
      BY <2>1, <3>1 DEF Alone
    <3>. QED BY <3>7, <3>8 DEF InStep
  <2>. QED BY <1>0, <2>1, <2>2, AnswerPrimed
<1>8. CASE Settle
  <2>1. /\ UNCHANGED <<socks, back, raced>> /\ failing = 0 /\ conn.active # NoAttempt
        /\ conn.buffer # <<>>
        /\ mixed' = (mixed \/ conn.buffer \notin RepliesTo(conn.active.req))
        /\ slipped' = (slipped \/ Last(conn.buffer).piece = "first")
    BY <1>8 DEF Settle, net
  <2>2. ASSUME ~slipped', ~raced' PROVE ~mixed' /\ InStep(conn', socks', back')
    <3>1. Alone(conn, socks, failing) /\ InStep(conn, socks, back) /\ ~mixed
      BY <1>0, <2>1, <2>2
    <3>2. PICK s \in Sockets : socks[s] \in {"open", "ending"}
      BY <2>1, <3>1 DEF Alone
    <3>3. conn.writes[s] = <<>> /\ OneReply(conn.active.req, conn.buffer, back[s])
      BY <2>1, <3>1, <3>2 DEF InStep, Lockstep
    <3>4. conn.buffer \in RepliesTo(conn.active.req) /\ back[s] = <<>>
      BY <2>1, <2>2, <3>3, LockSettle
    <3>5. PICK d : IsConn(d) /\ Deactivated(conn, d) /\ Processed(d, conn')
      BY <1>8, SettleFacts DEF Deactivates
    <3>6. /\ d.socket = conn.socket /\ d.active = NoAttempt /\ d.writes = conn.writes
          /\ d.buffer = <<>>
      BY <3>5 DEF Deactivated
    <3>7. Lockstep(d, d.writes[s], back[s])
      BY <3>3, <3>4, <3>6 DEF Lockstep
    <3>8. s = conn.socket \/ conn.socket = 0
      BY <1>a, <3>1, <3>2 DEF Alone, InUse
    <3>9. Lockstep(conn', conn'.writes[s], back[s])
      BY <3>5, <3>6, <3>7, <3>8, LockProcessed
    <3>10. \A t \in Sockets : socks'[t] \in {"open", "ending"} => t = s
      BY <2>1, <3>1, <3>2 DEF Alone
    <3>11. InStep(conn', socks', back')
      BY <2>1, <3>9, <3>10 DEF InStep
    <3>. QED BY <2>1, <3>1, <3>4, <3>11
  <2>. QED BY <2>2, AnswerPrimed
<1>9. CASE Timeout
  BY <1>9, AnswerPrimed DEF Timeout
<1>10. ASSUME NEW s \in Sockets, Break(s) \/ Ended(s) PROVE AnswerInv'
  <2>1. UNCHANGED <<slipped, mixed, raced>> /\ failing' # 0
    BY <1>10, <1>a DEF Break, Ended, history
  <2>. QED BY <1>0, <2>1, AnswerPrimed
<1>11. CASE WriteError
  <2>1. UNCHANGED <<slipped, mixed, raced>> /\ failing' # 0
    BY <1>11 DEF WriteError, history
  <2>. QED BY <1>0, <2>1, AnswerPrimed
<1>12. CASE Close
  <2>1. /\ UNCHANGED <<slipped, mixed, raced>> /\ failing # 0
        /\ socks' = [socks EXCEPT ![failing] = "unused"]
    BY <1>12 DEF Close, history
  <2>2. ASSUME ~raced PROVE InStep(conn', socks', back')
    <3>1. Alone(conn, socks, failing)
      BY <1>0, <2>2
    <3>2. failing \in Sockets /\ socks[failing] # "unused"
      BY <1>a, <2>1 DEF InUse
    <3>3. \A s \in Sockets : socks'[s] = "unused"
      BY <1>a, <2>1, <3>1, <3>2 DEF Alone
    <3>. QED BY <3>3 DEF InStep
  <2>. QED BY <1>0, <2>1, <2>2, AnswerPrimed
<1>13. ASSUME NEW s \in Sockets, Serve(s) PROVE AnswerInv'
  <2>1. /\ UNCHANGED <<socks, slipped, mixed, raced>> /\ failing = 0
        /\ socks[s] \in {"open", "ending"}
    BY <1>13 DEF Serve, history
  <2>2. conn.writes[s] # <<>>
    BY <1>13, ServeFacts
  <2>3. PICK n \in 1 .. Len(conn.writes[s]) : Dropped(conn, conn', s, n)
    BY <1>13, ServeFacts
  <2>4. PICK r \in Requests : /\ r = Head(conn.writes[s]).req
                              /\ \E reply \in RepliesTo(r) : back' = [back EXCEPT ![s] = @ \o reply]
    BY <1>13, ServeFacts
  <2>5. PICK reply \in RepliesTo(r) : back' = [back EXCEPT ![s] = @ \o reply]
    BY <2>4
  <2>6. ASSUME ~slipped, ~raced PROVE InStep(conn', socks', back')
    <3>1. Alone(conn, socks, failing) /\ Lockstep(conn, conn.writes[s], back[s])
      BY <1>0, <2>1, <2>6 DEF InStep
    <3>2. PICK a : a = conn.active
      OBVIOUS
    <3>3. a # NoAttempt /\ conn.writes[s] = <<a>> /\ back[s] = <<>> /\ conn.buffer = <<>>
      BY <2>2, <3>1, <3>2 DEF Lockstep
    <3>4. n = 1 /\ r = a.req
      BY <2>4, <3>3
    <3>5. SubSeq(<<a>>, 1 + 1, Len(<<a>>)) = <<>>
      OBVIOUS
    <3>6. /\ conn'.active = a /\ conn'.buffer = <<>>
          /\ conn'.writes = [conn.writes EXCEPT ![s] = SubSeq(@, n + 1, Len(@))]
      BY <2>3, <3>2, <3>3 DEF Dropped
    <3>7. conn'.writes[s] = <<>>
      BY <1>a, <3>3, <3>4, <3>5, <3>6
    <3>8. reply \in Seq(Pieces) /\ OneReply(r, <<>>, reply)
      BY ReplyTypes DEF OneReply
    <3>9. back'[s] = reply
      BY <1>a, <2>5, <3>3, <3>8
    <3>10. Lockstep(conn', conn'.writes[s], back'[s])
      BY <3>3, <3>4, <3>6, <3>7, <3>8, <3>9 DEF Lockstep
    <3>11. \A t \in Sockets : socks'[t] \in {"open", "ending"} => t = s
      BY <2>1, <3>1 DEF Alone
    <3>. QED BY <3>10, <3>11 DEF InStep
  <2>. QED BY <1>0, <2>1, <2>6, AnswerPrimed
<1>. QED BY <1>1, <1>2, <1>3, <1>4, <1>5, <1>6, <1>7, <1>8, <1>9, <1>10, <1>11, <1>12, <1>13,
            ConnectCases
         DEF JsNext, Application, EventLoop, Network

-----------------------------------------------------------------------------
(* The theorems *)

LEMMA InitInv ==
  ASSUME JsInit
  PROVE  JsInv
<1>0. /\ Auth = 0 /\ Auth \in Requests /\ 0 \notin Sockets /\ maxRetries \in Nat
      /\ \A r \in Requests : r \in Nat
  BY Sets DEF Auth
<1>1. /\ DOMAIN conn = {"socket", "queue", "active", "buffer", "writes"}
      /\ conn.socket = 0 /\ conn.queue = <<>> /\ conn.active = NoAttempt /\ conn.buffer = <<>>
      /\ conn.writes = [s \in Sockets |-> <<>>]
  BY DEF JsInit
<1>2. /\ socks = [s \in Sockets |-> "unused"] /\ failing = 0 /\ back = [s \in Sockets |-> <<>>]
      /\ phase = [r \in Requests |-> IF r = Auth THEN "delay" ELSE "new"]
      /\ tries = [r \in Requests |-> 0] /\ dial = [r \in Requests |-> 0]
      /\ executed = [r \in Requests |-> 0] /\ ~slipped /\ ~mixed /\ ~raced
      /\ slipped \in BOOLEAN /\ mixed \in BOOLEAN /\ raced \in BOOLEAN
  BY DEF JsInit
<1>3. IsConn(conn)
  BY <1>1 DEF IsConn
<1>4. Types
  <2>1. JsTypeOK
    BY <1>0, <1>1, <1>2 DEF JsTypeOK
  <2>2. back \in [Sockets -> Seq(Pieces)]
    BY <1>2
  <2>3. executed \in [Requests -> Nat] /\ dial \in [Requests -> {0} \cup Sockets]
    BY <1>2
  <2>. QED BY <1>2, <1>3, <2>1, <2>2, <2>3 DEF Types
<1>5. SocketInv
  BY <1>1, <1>2 DEF SocketInv
<1>6. Budget
  <2>1. ASSUME NEW r \in Requests, phase[r] = "delay" PROVE <<r, tries[r]>> \in AllTries
    BY <1>2, <2>1 DEF AllTries
  <2>2. UsedOf(socks) = {}
    BY <1>2 DEF UsedOf
  <2>3. PICK u, v : u = Cardinality(UsedOf(socks)) /\ v = Cardinality(SpentOf(phase, tries))
    OBVIOUS
  <2>4. u = 0 /\ v \in Nat
    BY <2>2, <2>3, FS_EmptySet, BudgetSizes
  <2>5. u <= v
    BY <2>4
  <2>. QED BY <2>1, <2>3, <2>5, BudgetParts
<1>7. AttemptInv
  <2>1. Len(conn.queue) = 0 /\ \A s \in Sockets : Len(conn.writes[s]) = 0
    BY <1>1
  <2>2. Held(conn) = {}
    <3>1. \A a : a \notin Held(conn)
      BY <1>3, <2>1, HeldBy
    <3>. QED BY <3>1
  <2>3. Unique(conn)
    BY <2>1 DEF Unique
  <2>4. Owned(conn, phase, tries)
    BY <1>1, <2>1 DEF Owned
  <2>5. ASSUME NEW r \in Requests
        PROVE  executed[r] + Cardinality(Waiting({}, r)) <= Started(r, phase, tries)
    <3>1. Waiting({}, r) = {}
      BY DEF Waiting
    <3>2. Cardinality(Waiting({}, r)) = 0
      BY <3>1, FS_EmptySet
    <3>3. Started(r, phase, tries) = 0 /\ executed[r] = 0
      BY <1>2 DEF Started
    <3>. QED BY <3>2, <3>3
  <2>6. Counts(Held(conn), phase, tries, executed)
    BY <2>2, <2>5 DEF Counts
  <2>. QED BY <2>3, <2>4, <2>6 DEF AttemptInv
<1>8. RaceInv
  BY <1>1, <1>2 DEF RaceInv, Used
<1>9. AnswerInv
  BY <1>2 DEF AnswerInv
<1>. QED BY <1>4, <1>5, <1>6, <1>7, <1>8, <1>9 DEF JsInv

LEMMA StutterInv ==
  ASSUME JsInv, UNCHANGED jsVars
  PROVE  JsInv'
<1>1. /\ UNCHANGED <<conn, socks, failing, phase, tries, dial, left>>
      /\ UNCHANGED <<back, authed, executed, slipped, mixed, raced>>
  BY DEF jsVars, net, history
<1>2. Types'
  <2>1. Types /\ IsConn(conn)
    BY DEF JsInv, Types
  <2>. QED BY <1>1, <2>1, StillMoves, RestOfTypes, TypesPrimed
<1>3. SocketInv'
  BY <1>1, SocketParts DEF JsInv
<1>4. Budget'
  BY <1>1, BudgetParts DEF JsInv
<1>5. AttemptInv'
  BY <1>1, AttemptParts DEF JsInv
<1>6. RaceInv'
  <2>1. ~raced => Alone(conn, socks, failing)
    BY RaceParts DEF JsInv
  <2>. QED BY <1>1, <1>2, <2>1, RacePrimed
<1>7. AnswerInv'
  <2>1. ~slipped /\ ~raced => ~mixed /\ (failing = 0 => InStep(conn, socks, back))
    BY DEF JsInv, AnswerInv, InStep
  <2>. QED BY <1>1, <2>1, AnswerPrimed
<1>. QED BY <1>2, <1>3, <1>4, <1>5, <1>6, <1>7 DEF JsInv

\* The client's state, its sockets, the attempts it holds, the races and the
\* answers under way keep to the invariant, whatever the application, the event
\* loop, the network and the server do.
THEOREM JsInvariance == JsSpec => []JsInv
<1>1. JsInit => JsInv
  BY InitInv
<1>2. JsInv /\ [JsNext]_jsVars => JsInv'
  <2> SUFFICES ASSUME JsInv, [JsNext]_jsVars PROVE JsInv'
    OBVIOUS
  <2>1. CASE JsNext
    BY <2>1, TypesStep, SocketStep, BudgetStep, AttemptStep, RaceStep, AnswerStep DEF JsInv
  <2>2. CASE UNCHANGED jsVars
    BY <2>2, StutterInv
  <2>. QED BY <2>1, <2>2
<1>. QED BY <1>1, <1>2, PTL DEF JsSpec

\* The variables of the client keep their types; there always is a socket for a
\* request that connects, and no request is retried more than maxRetries times.
THEOREM JsTypesTheorem == JsSpec => []JsTypeOK
<1>1. JsInv => JsTypeOK
  BY DEF JsInv, Types
<1>. QED BY <1>1, JsInvariance, PTL

\* The server does a request at most once for each time sendWithReconnect sent
\* it: an attempt that was read is nowhere in the queue or on a socket any more.
THEOREM DoneOnceTheorem == JsSpec => []DoneOncePerTry
<1>1. ASSUME JsInv PROVE DoneOncePerTry
  <2>0. /\ executed \in [Requests -> Nat] /\ tries \in [Requests -> 0 .. maxRetries]
        /\ maxRetries \in Nat /\ Counts(Held(conn), phase, tries, executed)
    BY <1>1, Sets DEF JsInv, Types, JsTypeOK, AttemptInv
  <2>1. ASSUME NEW r \in Requests PROVE executed[r] <= tries[r] + 1
    <3>1. PICK w : w = Cardinality(Waiting(Held(conn), r))
      OBVIOUS
    <3>2. w \in Nat
      <4>1. Waiting(Held(conn), r) \in SUBSET (0 .. maxRetries)
        BY DEF Waiting
      <4>2. IsFiniteSet(0 .. maxRetries)
        BY <2>0, FS_Interval
      <4>3. IsFiniteSet(Waiting(Held(conn), r))
        BY <4>1, <4>2, FS_Subset
      <4>. QED BY <3>1, <4>3, FS_CardinalityType
    <3>3. executed[r] + w <= Started(r, phase, tries)
      BY <2>0, <3>1 DEF Counts
    <3>4. executed[r] \in Nat /\ tries[r] \in Nat
      BY <2>0
    <3>. QED BY <3>2, <3>3, <3>4 DEF Started
  <2>. QED BY <2>1 DEF DoneOncePerTry
<1>. QED BY <1>1, JsInvariance, PTL

\* Unless connections were made at the same time, the client has no open socket
\* but its own and the one whose failure is being reported.
THEOREM NoStrayTheorem == JsSpec => []NoStraySocket
<1>1. JsInv => NoStraySocket
  BY DEF JsInv, RaceInv, NoStraySocket
<1>. QED BY <1>1, JsInvariance, PTL

\* Until a request timed out, an answer was cut or connections were made at the
\* same time, a request is resolved with its own reply and no other.
THEOREM AnswersTheorem == JsSpec => []AnswersMatch
<1>1. JsInv => AnswersMatch
  BY DEF JsInv, AnswerInv, AnswersMatch
<1>. QED BY <1>1, JsInvariance, PTL
=============================================================================
