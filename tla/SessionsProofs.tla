--------------------------- MODULE SessionsProofs ---------------------------
(***************************************************************************)
(* Proofs about Sessions: descriptors, slots and rights; tokens and keys;  *)
(* whose rights a command is done with; and the framing of a client that   *)
(* waits for its replies.  Each part has an inductive invariant of its     *)
(* own, the later ones on top of the first.                                *)
(***************************************************************************)
EXTENDS Sessions, FiniteSetTheorems, SequenceTheorems, WellFoundedInduction, TLAPS

-----------------------------------------------------------------------------
(* Connections: descriptors, slots, backlog and events *)

\* Every key that the store can come to hold.
KeySet ==
  {FirstKeys[i] : i \in DOMAIN FirstKeys}
  \cup {[name |-> line.arg.name, role |-> line.arg.role, token |-> token] :
          line \in {l \in Lines : l.op = "ADD_KEY"}, token \in Tokens}

Levels     == {"NONE", "READONLY", "ADMIN"}
GrantNames == {"none"} \cup {key.name : key \in KeySet}
Grant      == [level : Levels, name : GrantNames]
SlotSet    == [fd : Conns, level : Levels, name : GrantNames]

ClientEvents == [fd : Conns, conn : Conns]

\* The types of what the connection manager and the loop hold.
ConnTypes ==
  /\ link \in [Conns -> {"new", "backlog", "open", "closed"}]
  /\ granted \in [Conns -> Grant]
  /\ backlog \in Seq(Conns)
  /\ DOMAIN fds \subseteq Conns /\ \A fd \in DOMAIN fds : fds[fd] \in Conns
  /\ slots \in Seq(SlotSet) /\ Len(slots) <= MaxClients
  /\ batch \subseteq ClientEvents \cup {ServerEvent, SignalEvent}
  /\ run \in {"running", "stopping", "down"}

\* The open connections are those with a descriptor, each with one.
DescriptorsOpen ==
  /\ \A c \in Conns : link[c] = "open" <=> \E fd \in DOMAIN fds : fds[fd] = c
  /\ \A fd1, fd2 \in DOMAIN fds : fds[fd1] = fds[fd2] => fd1 = fd2

SlotsDistinct == \A i, j \in DOMAIN slots : slots[i].fd = slots[j].fd => i = j
SlotsOfFds    == {slots[i].fd : i \in DOMAIN slots} = DOMAIN fds

\* A connection that is not open was granted nothing.
NoGrantUnopened == \A c \in Conns : link[c] # "open" => granted[c] = NoGrant

\* The connections that wait for accept are waiting there once.
BacklogWaits ==
  /\ \A i \in DOMAIN backlog : link[backlog[i]] = "backlog"
  /\ \A i, j \in DOMAIN backlog : backlog[i] = backlog[j] => i = j

\* accept is called only when a connection waits.
ServerEventReady == ServerEvent \in batch => backlog # <<>>

\* The descriptor that receive_data blocks on is open, and its event is done.
ReadingOpen ==
  reading # NoRead =>
    reading.fd \in DOMAIN fds /\ \A e \in batch : e.fd # reading.fd

\* The inductive invariant of the connections.  A descriptor's slot is right
\* because descriptors are not shared (DescriptorsOpen) and a connection takes
\* over a number without the rights of its last owner (NoGrantUnopened); an
\* event stays fresh because only its own handler closes its descriptor, which
\* needs ReadingOpen for the handler that blocked.
ConnInv ==
  /\ ConnTypes /\ DescriptorsOpen /\ SlotsDistinct /\ SlotsOfFds /\ LevelIsOwn
  /\ NoGrantUnopened /\ BacklogWaits /\ EventsFresh /\ ServerEventReady /\ ReadingOpen

-----------------------------------------------------------------------------
(* Tokens and keys *)

KeyTypes ==
  /\ keys \in Seq(KeySet) /\ Len(keys) <= AUTH_MAX_KEYS
  /\ \A t \in DOMAIN issued :
       DOMAIN issued[t] = {"name", "role", "live"} /\ issued[t].live \in BOOLEAN

KeysDistinct ==
  \A i, j \in DOMAIN keys :
    keys[i].name = keys[j].name \/ keys[i].token = keys[j].token => i = j

\* The keys in the store are those of the live tokens.
KeysLive ==
  /\ \A i \in DOMAIN keys :
       LET t == keys[i].token
       IN  /\ t \in DOMAIN issued /\ issued[t].live
           /\ issued[t].name = keys[i].name /\ issued[t].role = keys[i].role
  /\ \A t \in DOMAIN issued :
       issued[t].live => \E i \in DOMAIN keys : keys[i].token = t

\* The inductive invariant of the auth store: TokensHonoured is about what
\* auth_verify_ex finds, and rests on names and tokens that are distinct.
KeysInv == KeyTypes /\ KeysDistinct /\ KeysLive

-----------------------------------------------------------------------------
(* Framing *)

Fragment == [part : {"whole", "head", "tail"}, line : Lines]

FrameTypes ==
  /\ inbox \in [Conns -> Seq(Fragment)]
  /\ reading.buffer \in Seq(Fragment)
  /\ half \in [Conns -> Lines \cup {NoLine}]
  /\ owed \in [Conns -> Lines \cup {NoLine, Lost}]
  /\ lockstep \in [Conns -> BOOLEAN]
  /\ gone \in [Conns -> BOOLEAN]

-----------------------------------------------------------------------------
(* Numbers and sequences *)

\* A set of naturals that is not empty has a least member.
LEMMA LeastNatural ==
  ASSUME NEW T \in SUBSET Nat, T # {}
  PROVE  \E x \in T : \A y \in T : x <= y
<1> DEFINE R == OpToRel(<, Nat)
<1>1. IsWellFoundedOn(R, Nat)
  BY NatLessThanWellFounded
<1>2. \A x, y \in Nat : <<y, x>> \in R <=> y < x
  BY DEF OpToRel
<1> HIDE DEF R
<1>3. PICK x \in T : \A y \in T : ~(<<y, x>> \in R)
  BY <1>1, WFMin
<1>4. \A y \in T : x <= y
  <2>1. ASSUME NEW y \in T PROVE x <= y
    <3>1. x \in Nat /\ y \in Nat /\ ~(y < x)
      BY <1>2, <1>3
    <3>. QED BY <3>1
  <2>. QED BY <2>1
<1>. QED BY <1>4

\* A sequence without its i-th element: what is behind it has moved up.
LEMMA RemoveAtFacts ==
  ASSUME NEW S, NEW s \in Seq(S), NEW i \in 1 .. Len(s)
  PROVE  LET t == SubSeq(s, 1, i - 1) \o SubSeq(s, i + 1, Len(s))
         IN  /\ t \in Seq(S) /\ Len(t) = Len(s) - 1
             /\ \A j \in 1 .. Len(s) - 1 : t[j] = IF j < i THEN s[j] ELSE s[j + 1]
<1> DEFINE a == SubSeq(s, 1, i - 1)
           b == SubSeq(s, i + 1, Len(s))
<1>0. Len(s) \in Nat /\ i \in Nat /\ i >= 1 /\ i <= Len(s)
  OBVIOUS
<1>1. a \in Seq(S) /\ Len(a) = i - 1 /\ \A j \in 1 .. i - 1 : a[j] = s[j]
  BY <1>0
<1>2. b \in Seq(S) /\ Len(b) = Len(s) - i /\ \A j \in 1 .. Len(s) - i : b[j] = s[j + i]
  BY <1>0
<1> HIDE DEF a, b
<1>3. /\ a \o b \in Seq(S) /\ Len(a \o b) = Len(a) + Len(b)
      /\ \A j \in 1 .. Len(a) + Len(b) :
           (a \o b)[j] = IF j <= Len(a) THEN a[j] ELSE b[j - Len(a)]
  BY <1>1, <1>2, ConcatProperties
<1>4. Len(a) + Len(b) = Len(s) - 1
  BY <1>0, <1>1, <1>2
<1>5. ASSUME NEW j \in 1 .. Len(s) - 1
      PROVE  (a \o b)[j] = IF j < i THEN s[j] ELSE s[j + 1]
  <2>1. (a \o b)[j] = IF j <= i - 1 THEN a[j] ELSE b[j - (i - 1)]
    BY <1>1, <1>3, <1>4, <1>5
  <2>2. CASE j < i
    BY <1>0, <1>1, <1>5, <2>1, <2>2
  <2>3. CASE ~(j < i)
    <3>1. j - (i - 1) \in 1 .. Len(s) - i /\ (j - (i - 1)) + i = j + 1 /\ ~(j <= i - 1)
      BY <1>0, <1>5, <2>3
    <3>. QED BY <1>2, <2>1, <2>3, <3>1
  <2>. QED BY <2>2, <2>3
<1>. QED BY <1>3, <1>4, <1>5 DEF a, b

\* t holds the elements of s but the i-th, each in a place of its own.
HoldsOthers(t, s, i) ==
  /\ \A j \in DOMAIN t : \E m \in DOMAIN s \ {i} : t[j] = s[m]
  /\ \A m \in DOMAIN s \ {i} : \E j \in DOMAIN t : t[j] = s[m]
  /\ \A j1, j2 \in DOMAIN t : j1 # j2 =>
       \E m1, m2 \in DOMAIN s \ {i} : m1 # m2 /\ t[j1] = s[m1] /\ t[j2] = s[m2]

\* So it is when the i-th element is gone and those behind it have moved up.
LEMMA ShiftKeeps ==
  ASSUME NEW S, NEW s \in Seq(S), NEW i \in 1 .. Len(s), NEW t \in Seq(S),
         Len(t) = Len(s) - 1,
         \A j \in 1 .. Len(s) - 1 : t[j] = IF j < i THEN s[j] ELSE s[j + 1]
  PROVE  HoldsOthers(t, s, i)
<1>0. Len(s) \in Nat /\ i \in Nat /\ i >= 1 /\ i <= Len(s) /\ DOMAIN s = 1 .. Len(s)
  BY LenProperties
<1>1. \A j \in 1 .. Len(s) - 1 : t[j] = IF j < i THEN s[j] ELSE s[j + 1]
  OBVIOUS
<1>2. DOMAIN t = 1 .. Len(s) - 1
  BY LenProperties
<1> DEFINE at(j) == IF j < i THEN j ELSE j + 1
<1>3. ASSUME NEW j \in DOMAIN t PROVE at(j) \in DOMAIN s \ {i} /\ t[j] = s[at(j)]
  <2>1. j \in 1 .. Len(s) - 1
    BY <1>2
  <2>2. at(j) \in 1 .. Len(s) /\ at(j) # i
    BY <1>0, <2>1
  <2>. QED BY <1>0, <1>1, <2>1, <2>2
<1>4. ASSUME NEW m \in DOMAIN s \ {i} PROVE \E j \in DOMAIN t : t[j] = s[m]
  <2>1. CASE m < i
    <3>1. m \in 1 .. Len(s) - 1
      BY <1>0, <1>4, <2>1
    <3>. QED BY <1>1, <1>2, <2>1, <3>1
  <2>2. CASE ~(m < i)
    <3>1. m - 1 \in 1 .. Len(s) - 1 /\ ~(m - 1 < i) /\ (m - 1) + 1 = m
      BY <1>0, <1>4, <2>2
    <3>. QED BY <1>1, <1>2, <3>1
  <2>. QED BY <2>1, <2>2
<1>5. ASSUME NEW j1 \in DOMAIN t, NEW j2 \in DOMAIN t, j1 # j2 PROVE at(j1) # at(j2)
  <2>1. j1 \in Nat /\ j2 \in Nat
    BY <1>0, <1>2, <1>5
  <2>. QED BY <1>0, <1>5, <2>1
<1> HIDE DEF at
<1>6. \A j1, j2 \in DOMAIN t : j1 # j2 =>
        \E m1, m2 \in DOMAIN s \ {i} : m1 # m2 /\ t[j1] = s[m1] /\ t[j2] = s[m2]
  BY <1>3, <1>5
<1>7. \A j \in DOMAIN t : \E m \in DOMAIN s \ {i} : t[j] = s[m]
  BY <1>3
<1>. QED BY <1>4, <1>6, <1>7, Zenon DEF HoldsOthers

\* The same of RemoveAt and of auth_del_key.
LEMMA RemoveAtKeeps ==
  ASSUME NEW S, NEW s \in Seq(S), NEW i \in 1 .. Len(s), NEW t,
         t = SubSeq(s, 1, i - 1) \o SubSeq(s, i + 1, Len(s))
  PROVE  /\ t \in Seq(S) /\ Len(t) = Len(s) - 1
         /\ HoldsOthers(t, s, i)
<1>1. /\ t \in Seq(S) /\ Len(t) = Len(s) - 1
      /\ \A j \in 1 .. Len(s) - 1 : t[j] = IF j < i THEN s[j] ELSE s[j + 1]
  BY RemoveAtFacts
<1>. QED BY <1>1, ShiftKeeps

\* A sequence with its i-th element replaced.
LEMMA ExceptFacts ==
  ASSUME NEW S, NEW s \in Seq(S), NEW i \in DOMAIN s, NEW x \in S,
         NEW t, t = [s EXCEPT ![i] = x]
  PROVE  /\ t \in Seq(S) /\ Len(t) = Len(s) /\ DOMAIN t = DOMAIN s /\ t[i] = x
         /\ \A j \in DOMAIN s : j # i => t[j] = s[j]
<1>1. DOMAIN s = 1 .. Len(s)
  BY LenProperties
<1>2. [s EXCEPT ![i] = x] \in Seq(S) /\ Len([s EXCEPT ![i] = x]) = Len(s)
  BY <1>1, ExceptSeq
<1>. QED BY <1>1, <1>2

-----------------------------------------------------------------------------
(* The connections keep their invariant *)

\* The events that are not of a client.
LEMMA EventFacts ==
  /\ ServerEvent.fd = -1 /\ SignalEvent.fd = -2
  /\ ServerEvent # SignalEvent
  /\ \A e \in ClientEvents :
       e.fd \in Conns /\ e.fd > 0 /\ e.conn \in Conns /\ e # ServerEvent /\ e # SignalEvent
<1>1. ServerEvent.fd = -1 /\ SignalEvent.fd = -2
  BY DEF ServerEvent, SignalEvent
<1>2. ASSUME NEW e \in ClientEvents PROVE e.fd \in Conns /\ e.conn \in Conns /\ e.fd > 0
  BY DEF ClientEvents, Conns
<1>. QED BY <1>1, <1>2

\* While a connection waits for accept, a descriptor is free.
LEMMA FreeFdFacts ==
  ASSUME ConnInv, NEW c \in Conns, link[c] # "open"
  PROVE  FreeFd \in Conns /\ FreeFd \notin DOMAIN fds
<1> DEFINE free == Conns \ DOMAIN fds
<1>1. free # {}
  <2> SUFFICES ASSUME DOMAIN fds = Conns PROVE FALSE
    BY DEF ConnInv, ConnTypes
  <2> DEFINE f == [fd \in Conns |-> fds[fd]]
  <2>1. f \in [Conns -> Conns \ {c}]
    BY DEF ConnInv, ConnTypes, DescriptorsOpen
  <2>2. \A a, b \in Conns : f[a] = f[b] => a = b
    BY DEF ConnInv, DescriptorsOpen
  <2> HIDE DEF f
  <2>3. f \in Injection(Conns, Conns \ {c})
    BY <2>1, <2>2 DEF Injection, IsInjective
  <2>4. IsFiniteSet(Conns) /\ Cardinality(Conns) \in Nat
    BY SessionsAssumption, FS_Interval, FS_CardinalityType DEF Conns
  <2>5. IsFiniteSet(Conns \ {c}) /\ Cardinality(Conns \ {c}) = Cardinality(Conns) - 1
    BY <2>4, FS_RemoveElement
  <2>6. Cardinality(Conns) <= Cardinality(Conns \ {c})
    BY <2>3, <2>5, FS_Injection
  <2>. QED BY <2>4, <2>5, <2>6
<1>2. free \in SUBSET Nat
  BY SessionsAssumption DEF Conns
<1>3. PICK fd \in free : \A d \in free : fd <= d
  BY <1>1, <1>2, LeastNatural
<1>4. \A d \in 1 .. fd - 1 : d \in DOMAIN fds
  <2>1. ASSUME NEW d \in 1 .. fd - 1, d \notin DOMAIN fds PROVE FALSE
    <3>1. fd \in Nat /\ fd <= NumConns /\ NumConns \in Nat
      BY SessionsAssumption DEF Conns
    <3>2. d \in Conns
      BY <3>1 DEF Conns
    <3>. QED BY <1>3, <2>1, <3>1, <3>2
  <2>. QED BY <2>1
<1>5. fd \in 1 .. NumConns /\ fd \notin DOMAIN fds
  BY DEF Conns
<1>. QED BY <1>4, <1>5 DEF FreeFd, Conns

\* Nothing moves but events that are taken from the batch, and the read.
LEMMA BatchShrinks ==
  ASSUME ConnInv, batch' \subseteq batch, run' \in {"running", "stopping", "down"},
         link' = link, granted' = granted, backlog' = backlog, fds' = fds,
         slots' = slots, ReadingOpen'
  PROVE  ConnInv'
<1>1. ConnTypes'
  BY DEF ConnInv, ConnTypes
<1>2. DescriptorsOpen' /\ SlotsDistinct' /\ SlotsOfFds' /\ LevelIsOwn'
  BY DEF ConnInv, DescriptorsOpen, SlotsDistinct, SlotsOfFds, LevelIsOwn
<1>3. NoGrantUnopened' /\ BacklogWaits'
  BY DEF ConnInv, NoGrantUnopened, BacklogWaits
<1>4. EventsFresh' /\ ServerEventReady'
  BY DEF ConnInv, EventsFresh, ServerEventReady
<1>. QED BY <1>1, <1>2, <1>3, <1>4 DEF ConnInv

LEMMA ConnectKeeps ==
  ASSUME ConnInv, NEW c \in Conns, Connect(c)
  PROVE  ConnInv'
<1>0. /\ link[c] = "new" /\ link' = [link EXCEPT ![c] = "backlog"]
      /\ backlog' = Append(backlog, c)
      /\ granted' = granted /\ fds' = fds /\ slots' = slots /\ batch' = batch
      /\ reading' = reading /\ run' = run
  BY DEF Connect, server, session
<1>1. /\ link' \in [Conns -> {"new", "backlog", "open", "closed"}]
      /\ link'[c] = "backlog" /\ \A d \in Conns : d # c => link'[d] = link[d]
      /\ \A d \in Conns : link'[d] = "open" <=> link[d] = "open"
  BY <1>0 DEF ConnInv, ConnTypes
<1>2. /\ backlog' \in Seq(Conns) /\ Len(backlog') = Len(backlog) + 1
      /\ \A i \in 1 .. Len(backlog) : backlog'[i] = backlog[i]
      /\ backlog'[Len(backlog) + 1] = c /\ backlog' # <<>>
      /\ DOMAIN backlog' = 1 .. Len(backlog) + 1 /\ DOMAIN backlog = 1 .. Len(backlog)
      /\ Len(backlog) \in Nat
  BY <1>0, AppendProperties, LenProperties DEF ConnInv, ConnTypes
<1>3. ConnTypes'
  BY <1>0, <1>1, <1>2 DEF ConnInv, ConnTypes
<1>4. DescriptorsOpen'
  BY <1>0, <1>1 DEF ConnInv, DescriptorsOpen
<1>5. SlotsDistinct' /\ SlotsOfFds' /\ LevelIsOwn' /\ EventsFresh'
  BY <1>0 DEF ConnInv, SlotsDistinct, SlotsOfFds, LevelIsOwn, EventsFresh
<1>6. NoGrantUnopened'
  BY <1>0, <1>1 DEF ConnInv, NoGrantUnopened
<1>7. BacklogWaits'
  <2>1. \A i \in 1 .. Len(backlog) : backlog[i] \in Conns /\ backlog[i] # c
    BY <1>0, <1>2 DEF ConnInv, BacklogWaits, ConnTypes
  <2>2. ASSUME NEW i \in DOMAIN backlog' PROVE link'[backlog'[i]] = "backlog"
    <3>1. i \in 1 .. Len(backlog) \/ i = Len(backlog) + 1
      BY <1>2
    <3>. QED BY <1>1, <1>2, <2>1, <3>1 DEF ConnInv, BacklogWaits
  <2>3. ASSUME NEW i \in DOMAIN backlog', NEW j \in DOMAIN backlog', backlog'[i] = backlog'[j]
        PROVE  i = j
    <3>1. (i \in 1 .. Len(backlog) \/ i = Len(backlog) + 1)
          /\ (j \in 1 .. Len(backlog) \/ j = Len(backlog) + 1)
      BY <1>2
    <3>. QED BY <1>2, <2>1, <2>3, <3>1 DEF ConnInv, BacklogWaits
  <2>. QED BY <2>2, <2>3 DEF BacklogWaits
<1>8. ServerEventReady' /\ ReadingOpen'
  BY <1>0, <1>2 DEF ConnInv, ServerEventReady, ReadingOpen
<1>. QED BY <1>3, <1>4, <1>5, <1>6, <1>7, <1>8 DEF ConnInv

LEMMA WaitKeeps == ASSUME ConnInv, Wait PROVE ConnInv'
<1>0. /\ link' = link /\ granted' = granted /\ backlog' = backlog /\ fds' = fds
      /\ slots' = slots /\ reading' = reading /\ run' = run /\ reading = NoRead
  BY DEF Wait, session
<1>1. PICK signals \in SUBSET {SignalEvent} : batch' = Ready \cup signals
  BY DEF Wait
<1>2. ASSUME NEW e \in batch'
      PROVE  \/ e \in ClientEvents /\ e.fd \in DOMAIN fds /\ fds[e.fd] = e.conn
             \/ e = ServerEvent /\ backlog # <<>>
             \/ e = SignalEvent
  <2>1. CASE e \in signals
    BY <2>1
  <2>2. CASE e \in Ready
    <3>1. ASSUME NEW fd \in DOMAIN fds, e = [fd |-> fd, conn |-> fds[fd]]
          PROVE  e \in ClientEvents /\ e.fd \in DOMAIN fds /\ fds[e.fd] = e.conn
      BY <3>1 DEF ConnInv, ConnTypes, ClientEvents
    <3>. QED BY <2>2, <3>1 DEF Ready
  <2>. QED BY <1>1, <1>2, <2>1, <2>2
<1>3. ConnTypes'
  BY <1>0, <1>2 DEF ConnInv, ConnTypes
<1>4. EventsFresh'
  BY <1>0, <1>2, EventFacts DEF EventsFresh
<1>5. ServerEventReady'
  BY <1>0, <1>2, EventFacts DEF ServerEventReady
<1>6. DescriptorsOpen' /\ SlotsDistinct' /\ SlotsOfFds' /\ LevelIsOwn'
  BY <1>0 DEF ConnInv, DescriptorsOpen, SlotsDistinct, SlotsOfFds, LevelIsOwn
<1>7. NoGrantUnopened' /\ BacklogWaits' /\ ReadingOpen'
  BY <1>0 DEF ConnInv, NoGrantUnopened, BacklogWaits, ReadingOpen
<1>. QED BY <1>3, <1>4, <1>5, <1>6, <1>7 DEF ConnInv

\* What is left of the backlog when its first connection is taken.
LEMMA BacklogTail ==
  ASSUME ConnInv, backlog # <<>>
  PROVE  /\ Head(backlog) \in Conns /\ link[Head(backlog)] = "backlog"
         /\ Tail(backlog) \in Seq(Conns)
         /\ \A i \in DOMAIN Tail(backlog) :
              /\ i + 1 \in DOMAIN backlog /\ Tail(backlog)[i] = backlog[i + 1]
              /\ Tail(backlog)[i] # Head(backlog)
         /\ \A i, j \in DOMAIN Tail(backlog) : Tail(backlog)[i] = Tail(backlog)[j] => i = j
<1>1. backlog \in Seq(Conns) /\ Len(backlog) \in Nat /\ Len(backlog) >= 1
      /\ DOMAIN backlog = 1 .. Len(backlog) /\ Head(backlog) = backlog[1]
  BY LenProperties, EmptySeq DEF ConnInv, ConnTypes
<1>2. /\ Tail(backlog) \in Seq(Conns) /\ Len(Tail(backlog)) = Len(backlog) - 1
      /\ \A i \in 1 .. Len(Tail(backlog)) : Tail(backlog)[i] = backlog[i + 1]
      /\ DOMAIN Tail(backlog) = 1 .. Len(Tail(backlog))
  BY <1>1, HeadTailProperties, LenProperties
<1>3. ASSUME NEW i \in DOMAIN Tail(backlog)
      PROVE  i \in Nat /\ i + 1 \in DOMAIN backlog /\ i + 1 # 1
             /\ Tail(backlog)[i] = backlog[i + 1]
  BY <1>1, <1>2, <1>3
<1>4. 1 \in DOMAIN backlog
  BY <1>1
<1>5. \A i \in DOMAIN Tail(backlog) : Tail(backlog)[i] # Head(backlog)
  BY <1>1, <1>3, <1>4 DEF ConnInv, BacklogWaits
<1>6. ASSUME NEW i \in DOMAIN Tail(backlog), NEW j \in DOMAIN Tail(backlog),
             Tail(backlog)[i] = Tail(backlog)[j]
      PROVE  i = j
  <2>1. i + 1 = j + 1
    BY <1>3, <1>6 DEF ConnInv, BacklogWaits
  <2>. QED BY <1>3, <2>1
<1>. QED BY <1>1, <1>2, <1>3, <1>4, <1>5, <1>6 DEF ConnInv, BacklogWaits

\* accept gives the first connection of the backlog a descriptor and a slot.
LEMMA AcceptOpenKeeps ==
  ASSUME ConnInv, Handling(ServerEvent), NEW c, c = Head(backlog),
         slots' = add_client(slots, FreeFd), slots' # slots,
         fds' = [fd \in DOMAIN fds \cup {FreeFd} |-> IF fd = FreeFd THEN c ELSE fds[fd]],
         link' = [link EXCEPT ![c] = "open"], backlog' = Tail(backlog),
         granted' = granted, reading' = reading, run' = run
  PROVE  ConnInv'
<1>0. reading = NoRead /\ batch' = batch \ {ServerEvent} /\ backlog # <<>>
  BY DEF Handling, ConnInv, ServerEventReady
<1>1. /\ c \in Conns /\ link[c] = "backlog" /\ Tail(backlog) \in Seq(Conns)
      /\ \A i \in DOMAIN Tail(backlog) :
           i + 1 \in DOMAIN backlog /\ Tail(backlog)[i] = backlog[i + 1]
           /\ Tail(backlog)[i] # c
      /\ \A i, j \in DOMAIN Tail(backlog) : Tail(backlog)[i] = Tail(backlog)[j] => i = j
  BY <1>0, BacklogTail
<1> DEFINE new == FreeFd
<1>2. new \in Conns /\ new \notin DOMAIN fds
  BY <1>1, FreeFdFacts
<1> HIDE DEF new
<1>3. /\ DOMAIN fds' = DOMAIN fds \cup {new} /\ fds'[new] = c
      /\ \A fd \in DOMAIN fds : fds'[fd] = fds[fd]
  BY <1>2 DEF new
<1>4. Len(slots) < MaxClients /\ slots' = Append(slots, Slot(new, NoGrant))
      /\ slots \in Seq(SlotSet)
  BY SessionsAssumption, LenProperties DEF add_client, ConnInv, ConnTypes, new
<1>5. Slot(new, NoGrant) \in SlotSet
  BY <1>2 DEF Slot, SlotSet, NoGrant, Levels, GrantNames
<1>6. /\ slots' \in Seq(SlotSet) /\ Len(slots') = Len(slots) + 1
      /\ \A i \in 1 .. Len(slots) : slots'[i] = slots[i]
      /\ slots'[Len(slots) + 1] = Slot(new, NoGrant)
      /\ DOMAIN slots' = 1 .. Len(slots) + 1 /\ DOMAIN slots = 1 .. Len(slots)
      /\ Len(slots) \in Nat
  BY <1>4, <1>5, AppendProperties, LenProperties
<1>7. \A i \in DOMAIN slots' : i \in DOMAIN slots \/ i = Len(slots) + 1
  BY <1>6
<1>8. /\ link' \in [Conns -> {"new", "backlog", "open", "closed"}]
      /\ link'[c] = "open" /\ \A d \in Conns : d # c => link'[d] = link[d]
  BY <1>1 DEF ConnInv, ConnTypes
<1>9. ConnTypes'
  <2> DEFINE n == Len(slots)
             m == Len(slots')
  <2>0. n \in Nat /\ n < MaxClients /\ m = n + 1 /\ MaxClients \in Nat
    BY <1>4, <1>6, SessionsAssumption
  <2> HIDE DEF n, m
  <2>1. m <= MaxClients
    BY <2>0
  <2>. QED BY <1>0, <1>1, <1>2, <1>3, <1>6, <1>8, <2>1 DEF ConnInv, ConnTypes, m
<1>10. DescriptorsOpen'
  <2>1. \A fd \in DOMAIN fds : fds[fd] # c /\ fds[fd] \in Conns
    BY <1>1 DEF ConnInv, DescriptorsOpen, ConnTypes
  <2>2. ASSUME NEW d \in Conns
        PROVE  link'[d] = "open" <=> \E fd \in DOMAIN fds' : fds'[fd] = d
    BY <1>3, <1>8, <2>1 DEF ConnInv, DescriptorsOpen
  <2>3. \A fd1, fd2 \in DOMAIN fds' : fds'[fd1] = fds'[fd2] => fd1 = fd2
    BY <1>3, <2>1 DEF ConnInv, DescriptorsOpen
  <2>. QED BY <2>2, <2>3 DEF DescriptorsOpen
<1>11. \A i \in DOMAIN slots : slots'[i] = slots[i] /\ slots[i].fd \in DOMAIN fds
       /\ slots[i].fd # new
  BY <1>2, <1>6 DEF ConnInv, SlotsOfFds
<1>12. Len(slots) + 1 \in DOMAIN slots' /\ slots'[Len(slots) + 1].fd = new
       /\ slots'[Len(slots) + 1].level = "NONE" /\ slots'[Len(slots) + 1].name = "none"
  BY <1>6 DEF Slot, NoGrant
<1>13. SlotsDistinct'
  BY <1>7, <1>11, <1>12 DEF ConnInv, SlotsDistinct
<1>14. SlotsOfFds'
  <2>1. \A i \in DOMAIN slots' : slots'[i].fd \in DOMAIN fds'
    BY <1>3, <1>7, <1>11, <1>12
  <2>2. ASSUME NEW fd \in DOMAIN fds' PROVE \E i \in DOMAIN slots' : slots'[i].fd = fd
    <3>1. CASE fd = new
      BY <1>12, <3>1
    <3>2. CASE fd \in DOMAIN fds
      <4>1. PICK i \in DOMAIN slots : slots[i].fd = fd
        BY <3>2 DEF ConnInv, SlotsOfFds
      <4>2. i \in DOMAIN slots'
        BY <1>6
      <4>. QED BY <1>11, <4>1, <4>2
    <3>. QED BY <1>3, <3>1, <3>2
  <2>. QED BY <2>1, <2>2 DEF SlotsOfFds
<1>15. LevelIsOwn'
  <2>1. granted[c] = NoGrant
    BY <1>1 DEF ConnInv, NoGrantUnopened
  <2>2. ASSUME NEW i \in DOMAIN slots'
        PROVE  LET own == granted'[fds'[slots'[i].fd]]
               IN  slots'[i].level = own.level /\ slots'[i].name = own.name
    <3>1. CASE i \in DOMAIN slots
      BY <1>3, <1>11, <3>1 DEF ConnInv, LevelIsOwn
    <3>2. CASE i = Len(slots) + 1
      BY <1>3, <1>12, <2>1, <3>2 DEF NoGrant
    <3>. QED BY <1>7, <3>1, <3>2
  <2>. QED BY <2>2 DEF LevelIsOwn
<1>16. NoGrantUnopened'
  BY <1>8 DEF ConnInv, NoGrantUnopened
<1>17. BacklogWaits'
  BY <1>1, <1>8 DEF ConnInv, BacklogWaits, ConnTypes
<1>18. EventsFresh'
  BY <1>0, <1>3 DEF ConnInv, EventsFresh
<1>19. ServerEventReady' /\ ReadingOpen'
  BY <1>0 DEF ServerEventReady, ReadingOpen
<1>. QED BY <1>9, <1>10, <1>13, <1>14, <1>15, <1>16, <1>17, <1>18, <1>19 DEF ConnInv

\* accept closes the first connection of the backlog again.
LEMMA AcceptCloseKeeps ==
  ASSUME ConnInv, Handling(ServerEvent), NEW c, c = Head(backlog), Forget({c}),
         slots' = slots, fds' = fds, backlog' = Tail(backlog),
         reading' = reading, run' = run
  PROVE  ConnInv'
<1>0. reading = NoRead /\ batch' = batch \ {ServerEvent} /\ backlog # <<>>
  BY DEF Handling, ConnInv, ServerEventReady
<1>1. /\ c \in Conns /\ link[c] = "backlog" /\ Tail(backlog) \in Seq(Conns)
      /\ \A i \in DOMAIN Tail(backlog) :
           i + 1 \in DOMAIN backlog /\ Tail(backlog)[i] = backlog[i + 1]
           /\ Tail(backlog)[i] # c
      /\ \A i, j \in DOMAIN Tail(backlog) : Tail(backlog)[i] = Tail(backlog)[j] => i = j
  BY <1>0, BacklogTail
<1>2. /\ link' \in [Conns -> {"new", "backlog", "open", "closed"}]
      /\ link'[c] = "closed" /\ \A d \in Conns : d # c => link'[d] = link[d]
  BY <1>1 DEF Forget, ConnInv, ConnTypes
<1>3. granted' = granted
  <2>1. granted[c] = NoGrant /\ granted \in [Conns -> Grant]
    BY <1>1 DEF ConnInv, NoGrantUnopened, ConnTypes
  <2>2. granted' = [d \in Conns |-> IF d = c THEN NoGrant ELSE granted[d]]
    BY DEF Forget
  <2>3. \A d \in Conns : granted'[d] = granted[d]
    BY <2>1, <2>2
  <2>. QED BY <2>1, <2>2, <2>3
<1>4. ConnTypes'
  BY <1>0, <1>1, <1>2, <1>3 DEF ConnInv, ConnTypes
<1>5. DescriptorsOpen'
  BY <1>1, <1>2 DEF ConnInv, DescriptorsOpen
<1>6. SlotsDistinct' /\ SlotsOfFds' /\ LevelIsOwn'
  BY <1>3 DEF ConnInv, SlotsDistinct, SlotsOfFds, LevelIsOwn
<1>7. NoGrantUnopened'
  BY <1>1, <1>2, <1>3 DEF ConnInv, NoGrantUnopened
<1>8. BacklogWaits'
  BY <1>1, <1>2 DEF ConnInv, BacklogWaits, ConnTypes
<1>9. EventsFresh' /\ ServerEventReady' /\ ReadingOpen'
  BY <1>0 DEF ConnInv, EventsFresh, ServerEventReady, ReadingOpen
<1>. QED BY <1>4, <1>5, <1>6, <1>7, <1>8, <1>9 DEF ConnInv

LEMMA AcceptKeeps == ASSUME ConnInv, Accept PROVE ConnInv'
BY AcceptOpenKeeps, AcceptCloseKeeps DEF Accept

\* close_all_clients and the end of the process.
LEMMA ShutdownKeeps == ASSUME ConnInv, Shutdown PROVE ConnInv'
<1>0. /\ batch' = {} /\ reading' = NoRead /\ run' = "down" /\ slots' = <<>>
      /\ fds' = [fd \in {} |-> 0] /\ backlog' = <<>>
      /\ Forget({c \in Conns : link[c] # "new"})
  BY DEF Shutdown
<1>1. DOMAIN fds' = {} /\ DOMAIN slots' = {} /\ DOMAIN backlog' = {}
      /\ slots' \in Seq(SlotSet) /\ backlog' \in Seq(Conns) /\ Len(slots') = 0
  BY <1>0
<1>2. \A c \in Conns : link'[c] \in {"new", "closed"} /\ granted'[c] = NoGrant
  BY <1>0 DEF Forget, ConnInv, NoGrantUnopened
<1>3. ConnTypes'
  <2>1. link' \in [Conns -> {"new", "backlog", "open", "closed"}]
    BY <1>0, <1>2 DEF Forget
  <2>2. NoGrant \in Grant
    BY DEF NoGrant, Grant, Levels, GrantNames
  <2>3. granted' \in [Conns -> Grant]
    BY <1>0, <1>2, <2>2 DEF Forget
  <2>. QED BY <1>0, <1>1, <2>1, <2>3, SessionsAssumption DEF ConnTypes
<1>4. DescriptorsOpen' /\ SlotsDistinct' /\ SlotsOfFds' /\ LevelIsOwn'
  BY <1>1, <1>2 DEF DescriptorsOpen, SlotsDistinct, SlotsOfFds, LevelIsOwn
<1>5. NoGrantUnopened' /\ BacklogWaits'
  BY <1>1, <1>2 DEF NoGrantUnopened, BacklogWaits
<1>6. EventsFresh' /\ ServerEventReady' /\ ReadingOpen'
  BY <1>0 DEF EventsFresh, ServerEventReady, ReadingOpen
<1>. QED BY <1>3, <1>4, <1>5, <1>6 DEF ConnInv

\* The slot of an open descriptor, and only one.
LEMMA SlotOfFacts ==
  ASSUME ConnInv, NEW fd \in DOMAIN fds
  PROVE  /\ is_client(slots, fd)
         /\ SlotOf(slots, fd) \in DOMAIN slots /\ slots[SlotOf(slots, fd)].fd = fd
         /\ \A i \in DOMAIN slots : slots[i].fd = fd => i = SlotOf(slots, fd)
<1>1. \E i \in DOMAIN slots : slots[i].fd = fd
  BY DEF ConnInv, SlotsOfFds
<1>2. SlotOf(slots, fd) \in DOMAIN slots /\ slots[SlotOf(slots, fd)].fd = fd
  BY <1>1 DEF SlotOf
<1>3. is_client(slots, fd)
  BY <1>1 DEF is_client
<1>. QED BY <1>2, <1>3 DEF ConnInv, SlotsDistinct

\* A read takes the event of its descriptor, if it is not taken already.
LEMMA ReadsFacts ==
  ASSUME ConnInv, NEW fd \in DOMAIN fds, NEW buffer, Reads(fd, buffer)
  PROVE  /\ batch' \subseteq batch /\ \A e \in batch' : e.fd # fd
         /\ run # "down"
         /\ \/ reading = NoRead /\ buffer = <<>>
            \/ reading # NoRead /\ fd = reading.fd /\ buffer = reading.buffer
<1>1. CASE \E e \in batch : e.fd > 0 /\ fd = e.fd /\ buffer = <<>> /\ Handling(e)
  <2>1. PICK e \in batch : e.fd > 0 /\ fd = e.fd /\ buffer = <<>> /\ Handling(e)
    BY <1>1
  <2>2. batch' = batch \ {e} /\ run # "down" /\ reading = NoRead
    BY <2>1 DEF Handling
  <2>3. ASSUME NEW d \in batch', d.fd = fd PROVE FALSE
    <3>1. d \in ClientEvents /\ e \in ClientEvents /\ d # e
      BY <2>1, <2>2, <2>3, EventFacts DEF ConnInv, ConnTypes
    <3>2. d.conn = fds[fd] /\ e.conn = fds[fd]
      BY <2>1, <2>2, <2>3, <3>1, EventFacts DEF ConnInv, EventsFresh
    <3>. QED BY <2>1, <2>3, <3>1, <3>2 DEF ClientEvents
  <2>. QED BY <2>1, <2>2, <2>3
<1>2. CASE /\ run # "down" /\ reading # NoRead
           /\ fd = reading.fd /\ buffer = reading.buffer
           /\ UNCHANGED batch
  BY <1>2 DEF ConnInv, ReadingOpen
<1>. QED BY <1>1, <1>2 DEF Reads

\* remove_client and the close of the descriptor it was for.
LEMMA DropKeeps ==
  ASSUME ConnInv, NEW fd \in DOMAIN fds, Drop(fd),
         batch' \subseteq batch, \A e \in batch' : e.fd # fd
  PROVE  ConnInv'
<1> DEFINE c == fds[fd]
           at == SlotOf(slots, fd)
<1>0. /\ slots' = remove_client(slots, fd)
      /\ fds' = [d \in DOMAIN fds \ {fd} |-> fds[d]]
      /\ reading' = NoRead /\ backlog' = backlog /\ run' = run
  BY DEF Drop
<1>1. /\ is_client(slots, fd) /\ at \in DOMAIN slots /\ slots[at].fd = fd
      /\ \A i \in DOMAIN slots : slots[i].fd = fd => i = at
  BY SlotOfFacts
<1>2. c \in Conns /\ link[c] = "open"
  BY DEF ConnInv, ConnTypes, DescriptorsOpen
<1> HIDE DEF at
<1>3. slots \in Seq(SlotSet) /\ Len(slots) \in Nat /\ at \in 1 .. Len(slots)
      /\ DOMAIN slots = 1 .. Len(slots)
  BY <1>1, LenProperties DEF ConnInv, ConnTypes
<1>4. slots' = SubSeq(slots, 1, at - 1) \o SubSeq(slots, at + 1, Len(slots))
  BY <1>0, <1>1 DEF remove_client, RemoveAt, at
<1>5. slots' \in Seq(SlotSet) /\ Len(slots') = Len(slots) - 1 /\ HoldsOthers(slots', slots, at)
  BY <1>3, <1>4, RemoveAtKeeps
<1>6. /\ \A j \in DOMAIN slots' : \E m \in DOMAIN slots \ {at} : slots'[j] = slots[m]
      /\ \A m \in DOMAIN slots \ {at} : \E j \in DOMAIN slots' : slots'[j] = slots[m]
      /\ \A j1, j2 \in DOMAIN slots' : j1 # j2 =>
           \E m1, m2 \in DOMAIN slots \ {at} :
             m1 # m2 /\ slots'[j1] = slots[m1] /\ slots'[j2] = slots[m2]
  BY <1>5, Zenon DEF HoldsOthers
<1>7. /\ link' = [d \in Conns |-> IF d = c THEN "closed" ELSE link[d]]
      /\ granted' = [d \in Conns |-> IF d = c THEN NoGrant ELSE granted[d]]
  BY DEF Drop, Forget
<1> HIDE DEF c
<1>8. /\ link' \in [Conns -> {"new", "backlog", "open", "closed"}]
      /\ link'[c] = "closed" /\ \A d \in Conns : d # c => link'[d] = link[d]
      /\ granted' \in [Conns -> Grant]
      /\ granted'[c] = NoGrant /\ \A d \in Conns : d # c => granted'[d] = granted[d]
  <2>1. NoGrant \in Grant
    BY DEF NoGrant, Grant, Levels, GrantNames
  <2>. QED BY <1>2, <1>7, <2>1 DEF ConnInv, ConnTypes
<1>9. /\ DOMAIN fds' = DOMAIN fds \ {fd}
      /\ \A d \in DOMAIN fds' : fds'[d] = fds[d] /\ fds[d] # c /\ fds[d] \in Conns
  BY <1>0 DEF ConnInv, ConnTypes, DescriptorsOpen, c
<1>10. ConnTypes'
  <2> DEFINE n == Len(slots)
             m == Len(slots')
  <2>1. n \in Nat /\ m = n - 1 /\ n <= MaxClients /\ MaxClients \in Nat
    BY <1>3, <1>5, SessionsAssumption DEF ConnInv, ConnTypes
  <2> HIDE DEF n, m
  <2>2. m <= MaxClients
    BY <2>1
  <2>. QED BY <1>0, <1>5, <1>8, <1>9, <2>2 DEF ConnInv, ConnTypes, m
<1>11. DescriptorsOpen'
  <2>1. ASSUME NEW d \in Conns
        PROVE  link'[d] = "open" <=> \E e \in DOMAIN fds' : fds'[e] = d
    <3>1. CASE d = c
      BY <1>8, <1>9, <3>1
    <3>2. CASE d # c
      <4>1. link'[d] = link[d]
        BY <1>8, <3>2
      <4>2. \A e \in DOMAIN fds : fds[e] = d => e # fd
        BY <3>2 DEF c
      <4>. QED BY <1>9, <4>1, <4>2 DEF ConnInv, DescriptorsOpen
    <3>. QED BY <3>1, <3>2
  <2>2. \A fd1, fd2 \in DOMAIN fds' : fds'[fd1] = fds'[fd2] => fd1 = fd2
    BY <1>9 DEF ConnInv, DescriptorsOpen
  <2>. QED BY <2>1, <2>2 DEF DescriptorsOpen
<1>12. SlotsDistinct'
  BY <1>6 DEF ConnInv, SlotsDistinct
<1>13. \A i \in DOMAIN slots' : slots'[i].fd \in DOMAIN fds'
  BY <1>1, <1>6, <1>9 DEF ConnInv, SlotsOfFds
<1>14. SlotsOfFds'
  <2>1. ASSUME NEW d \in DOMAIN fds' PROVE \E i \in DOMAIN slots' : slots'[i].fd = d
    <3>1. PICK i \in DOMAIN slots : slots[i].fd = d
      BY <1>9 DEF ConnInv, SlotsOfFds
    <3>2. i \in DOMAIN slots \ {at}
      BY <1>1, <1>9, <3>1
    <3>. QED BY <1>6, <3>1, <3>2
  <2>. QED BY <1>13, <2>1 DEF SlotsOfFds
<1>15. LevelIsOwn'
  <2>1. ASSUME NEW i \in DOMAIN slots'
        PROVE  LET own == granted'[fds'[slots'[i].fd]]
               IN  slots'[i].level = own.level /\ slots'[i].name = own.name
    <3>1. PICK j \in DOMAIN slots \ {at} : slots'[i] = slots[j]
      BY <1>6
    <3>2. slots[j].fd \in DOMAIN fds' /\ slots[j].fd \in DOMAIN fds
      BY <1>9, <1>13, <3>1
    <3>3. fds'[slots[j].fd] = fds[slots[j].fd] /\ fds[slots[j].fd] # c
          /\ fds[slots[j].fd] \in Conns
      BY <1>9, <3>2
    <3>4. granted'[fds'[slots'[i].fd]] = granted[fds[slots[j].fd]]
      BY <1>8, <3>1, <3>3
    <3>. QED BY <3>1, <3>2, <3>4 DEF ConnInv, LevelIsOwn
  <2>. QED BY <2>1 DEF LevelIsOwn
<1>16. NoGrantUnopened'
  BY <1>8 DEF ConnInv, NoGrantUnopened
<1>17. BacklogWaits'
  BY <1>0, <1>2, <1>8 DEF ConnInv, BacklogWaits, ConnTypes
<1>18. EventsFresh' /\ ServerEventReady' /\ ReadingOpen'
  BY <1>0, <1>9 DEF ConnInv, EventsFresh, ServerEventReady, ReadingOpen
<1>. QED BY <1>10, <1>11, <1>12, <1>14, <1>15, <1>16, <1>17, <1>18 DEF ConnInv

\* What auth_verify_ex returns.
LEMMA VerifyGrants ==
  ASSUME KeyTypes, NEW token
  PROVE  auth_verify_ex(keys, token) \in Grant
<1> DEFINE hits  == {i \in DOMAIN keys : keys[i].token = token}
           first == CHOOSE i \in hits : \A j \in hits : i <= j
<1>1. keys \in Seq(KeySet) /\ DOMAIN keys = 1 .. Len(keys) /\ Len(keys) \in Nat
  BY LenProperties DEF KeyTypes
<1>2. CASE hits = {}
  BY <1>2 DEF auth_verify_ex, NoGrant, Grant, Levels, GrantNames
<1>3. CASE hits # {}
  <2>1. hits \in SUBSET Nat
    BY <1>1
  <2>2. \E i \in hits : \A j \in hits : i <= j
    BY <1>3, <2>1, LeastNatural
  <2>3. first \in hits
    BY <2>2
  <2>4. keys[first] \in KeySet
    BY <1>1, <2>3
  <2>5. auth_verify_ex(keys, token) =
          [level |-> IF keys[first].role = "admin" THEN "ADMIN" ELSE "READONLY",
           name  |-> keys[first].name]
    BY <1>3 DEF auth_verify_ex
  <2> HIDE DEF first
  <2>. QED BY <2>4, <2>5 DEF Grant, Levels, GrantNames
<1>. QED BY <1>2, <1>3

\* What the server does for a request leaves the descriptors alone, and changes
\* a slot only together with what its connection was granted.
LEMMA DispatchEffect ==
  ASSUME ConnInv, KeyTypes, NEW fd \in DOMAIN fds, NEW line, Dispatch(fds[fd], fd, line)
  PROVE  /\ run' \in {"running", "stopping", "down"}
         /\ \/ slots' = slots /\ granted' = granted
            \/ \E grant \in Grant :
                 /\ slots' = [slots EXCEPT ![SlotOf(slots, fd)] = Slot(fd, grant)]
                 /\ granted' = [granted EXCEPT ![fds[fd]] = grant]
<1>0. run \in {"running", "stopping", "down"} /\ is_client(slots, fd)
  BY SlotOfFacts DEF ConnInv, ConnTypes
<1>1. ASSUME NEW c, Reply(c) PROVE run' \in {"running", "stopping", "down"}
  BY <1>0, <1>1 DEF Reply
<1>2. CASE Starve(fds[fd])
  BY <1>0, <1>2 DEF Starve, session
<1>3. CASE UNCHANGED <<slots, session>> /\ Reply(fds[fd])
  BY <1>1, <1>3 DEF session
<1>4. CASE Authenticate(fds[fd], fd, line)
  <2> DEFINE grant == auth_verify_ex(keys, line.arg)
  <2>1. grant \in Grant
    BY VerifyGrants
  <2>2. /\ slots' = IF grant # NoGrant THEN set_client_auth(slots, fd, grant) ELSE slots
        /\ granted' = IF grant # NoGrant THEN [granted EXCEPT ![fds[fd]] = grant] ELSE granted
        /\ Reply(fds[fd])
    BY <1>4 DEF Authenticate
  <2> HIDE DEF grant
  <2>. QED BY <1>0, <1>1, <2>1, <2>2 DEF set_client_auth
<1>5. CASE UNCHANGED <<slots, granted>> /\ Reply(fds[fd])
  BY <1>1, <1>5
<1>. QED BY <1>2, <1>3, <1>4, <1>5 DEF Dispatch

\* A slot and what its connection was granted, set together.
LEMMA GrantKeeps ==
  ASSUME ConnInv, NEW fd \in DOMAIN fds, NEW grant \in Grant,
         slots' = [slots EXCEPT ![SlotOf(slots, fd)] = Slot(fd, grant)],
         granted' = [granted EXCEPT ![fds[fd]] = grant],
         batch' \subseteq batch, run' \in {"running", "stopping", "down"},
         link' = link, backlog' = backlog, fds' = fds, ReadingOpen'
  PROVE  ConnInv'
<1> DEFINE at == SlotOf(slots, fd)
           c  == fds[fd]
<1>1. /\ at \in DOMAIN slots /\ slots[at].fd = fd
      /\ \A i \in DOMAIN slots : slots[i].fd = fd => i = at
  BY SlotOfFacts
<1>2. c \in Conns /\ link[c] = "open" /\ fd \in Conns
  BY DEF ConnInv, ConnTypes, DescriptorsOpen
<1>3. slots \in Seq(SlotSet) /\ DOMAIN slots = 1 .. Len(slots) /\ Len(slots) \in Nat
  BY LenProperties DEF ConnInv, ConnTypes
<1>4. Slot(fd, grant) \in SlotSet /\ Slot(fd, grant).fd = fd
      /\ Slot(fd, grant).level = grant.level /\ Slot(fd, grant).name = grant.name
  BY <1>2 DEF Slot, SlotSet, Grant
<1>5. slots' = [slots EXCEPT ![at] = Slot(fd, grant)] /\ granted' = [granted EXCEPT ![c] = grant]
  OBVIOUS
<1> DEFINE after == slots'
           x     == Slot(fd, grant)
<1>a. x \in SlotSet /\ after = [slots EXCEPT ![at] = x]
  BY <1>4, <1>5
<1> HIDE DEF at, c, after, x
<1>b. /\ after \in Seq(SlotSet) /\ Len(after) = Len(slots) /\ DOMAIN after = DOMAIN slots
      /\ after[at] = x /\ \A i \in DOMAIN slots : i # at => after[i] = slots[i]
  BY <1>1, <1>3, <1>a, ExceptFacts
<1>6. /\ slots' \in Seq(SlotSet) /\ Len(slots') = Len(slots) /\ DOMAIN slots' = DOMAIN slots
      /\ slots'[at] = Slot(fd, grant)
      /\ \A i \in DOMAIN slots : i # at => slots'[i] = slots[i]
  BY <1>b DEF after, x
<1>7. /\ granted' \in [Conns -> Grant] /\ granted'[c] = grant
      /\ \A d \in Conns : d # c => granted'[d] = granted[d]
  BY <1>2, <1>5 DEF ConnInv, ConnTypes
<1>8. \A i \in DOMAIN slots : slots'[i].fd = slots[i].fd
  BY <1>1, <1>4, <1>6
<1>9. ConnTypes'
  BY <1>6, <1>7 DEF ConnInv, ConnTypes
<1>10. DescriptorsOpen' /\ BacklogWaits' /\ EventsFresh' /\ ServerEventReady'
  BY DEF ConnInv, DescriptorsOpen, BacklogWaits, EventsFresh, ServerEventReady
<1>11. SlotsDistinct'
  BY <1>6, <1>8 DEF ConnInv, SlotsDistinct
<1>12. SlotsOfFds'
  <2>1. {slots'[i].fd : i \in DOMAIN slots'} = {slots[i].fd : i \in DOMAIN slots}
    BY <1>6, <1>8
  <2>. QED BY <2>1 DEF ConnInv, SlotsOfFds
<1>13. LevelIsOwn'
  <2>1. ASSUME NEW i \in DOMAIN slots', slots'[i].fd \in DOMAIN fds
        PROVE  LET own == granted'[fds[slots'[i].fd]]
               IN  slots'[i].level = own.level /\ slots'[i].name = own.name
    <3>1. CASE i = at
      BY <1>4, <1>6, <1>7, <3>1 DEF c
    <3>2. CASE i # at
      <4>1. slots'[i] = slots[i] /\ i \in DOMAIN slots /\ slots[i].fd # fd
            /\ slots[i].fd \in DOMAIN fds
        BY <1>1, <1>6, <2>1, <3>2
      <4>2. fds[slots[i].fd] # c /\ fds[slots[i].fd] \in Conns
        BY <4>1 DEF ConnInv, ConnTypes, DescriptorsOpen, c
      <4>. QED BY <1>7, <4>1, <4>2 DEF ConnInv, LevelIsOwn
    <3>. QED BY <3>1, <3>2
  <2>. QED BY <2>1 DEF LevelIsOwn
<1>14. NoGrantUnopened'
  BY <1>2, <1>7 DEF ConnInv, NoGrantUnopened
<1>. QED BY <1>9, <1>10, <1>11, <1>12, <1>13, <1>14 DEF ConnInv

LEMMA ReceiveKeeps == ASSUME ConnInv, KeyTypes, receive_data PROVE ConnInv'
<1>1. PICK fd \in DOMAIN fds, buffer \in {<<>>, reading.buffer} :
        /\ Reads(fd, buffer)
        /\ LET c     == fds[fd]
               bytes == Filled(buffer, inbox[c])
           IN  \/ /\ HasLine(bytes)
                  /\ reading' = NoRead
                  /\ Dispatch(c, fd, FirstLine(bytes))
                  /\ UNCHANGED <<link, backlog, fds>>
               \/ /\ reading' = [fd |-> fd, buffer |-> bytes]
                  /\ UNCHANGED <<link, backlog, fds, slots, run, granted>>
               \/ Drop(fd)
  BY DEF receive_data, session
<1> DEFINE bytes == Filled(buffer, inbox[fds[fd]])
<1>2. batch' \subseteq batch /\ \A e \in batch' : e.fd # fd
  BY <1>1, ReadsFacts
<1>3. CASE /\ reading' = NoRead
           /\ Dispatch(fds[fd], fd, FirstLine(bytes))
           /\ UNCHANGED <<link, backlog, fds>>
  <2>1. ReadingOpen'
    BY <1>3 DEF ReadingOpen
  <2> HIDE DEF bytes
  <2>2. /\ run' \in {"running", "stopping", "down"}
        /\ \/ slots' = slots /\ granted' = granted
           \/ \E grant \in Grant :
                /\ slots' = [slots EXCEPT ![SlotOf(slots, fd)] = Slot(fd, grant)]
                /\ granted' = [granted EXCEPT ![fds[fd]] = grant]
    BY <1>3, DispatchEffect
  <2>3. CASE slots' = slots /\ granted' = granted
    BY <1>2, <1>3, <2>1, <2>2, <2>3, BatchShrinks
  <2>4. ASSUME NEW grant \in Grant,
               slots' = [slots EXCEPT ![SlotOf(slots, fd)] = Slot(fd, grant)],
               granted' = [granted EXCEPT ![fds[fd]] = grant]
        PROVE  ConnInv'
    BY <1>2, <1>3, <2>1, <2>2, <2>4, GrantKeeps
  <2>. QED BY <2>2, <2>3, <2>4
<1>4. CASE /\ reading' = [fd |-> fd, buffer |-> bytes]
           /\ UNCHANGED <<link, backlog, fds, slots, run, granted>>
  <2> HIDE DEF bytes
  <2>1. ReadingOpen'
    BY <1>2, <1>4 DEF ReadingOpen
  <2>2. run' \in {"running", "stopping", "down"}
    BY <1>4 DEF ConnInv, ConnTypes
  <2>. QED BY <1>2, <1>4, <2>1, <2>2, BatchShrinks
<1>5. CASE Drop(fd)
  BY <1>2, <1>5, DropKeeps
<1>. QED BY <1>1, <1>3, <1>4, <1>5

-----------------------------------------------------------------------------
(* The types of what clients send and receive_data holds *)

\* The first line of what a read completes.
LEMMA FirstLineFacts ==
  ASSUME NEW bytes \in Seq(Fragment), HasLine(bytes)
  PROVE  FirstLine(bytes) \in Lines \cup {Garbled}
<1>1. bytes # <<>>
  BY DEF HasLine
<1>2. Head(bytes) \in Fragment
  BY <1>1, HeadTailProperties
<1>. QED BY <1>2 DEF FirstLine, Fragment

\* What a read of an open descriptor finds.
LEMMA FilledFacts ==
  ASSUME ConnInv, FrameTypes, NEW fd \in DOMAIN fds, NEW buffer \in {<<>>, reading.buffer}
  PROVE  fds[fd] \in Conns /\ Filled(buffer, inbox[fds[fd]]) \in Seq(Fragment)
<1>1. fds[fd] \in Conns
  BY DEF ConnInv, ConnTypes
<1>2. buffer \in Seq(Fragment) /\ inbox[fds[fd]] \in Seq(Fragment)
  <2>1. <<>> \in Seq(Fragment)
    OBVIOUS
  <2>2. buffer \in Seq(Fragment)
    BY <2>1 DEF FrameTypes
  <2>. QED BY <1>1, <2>2 DEF FrameTypes
<1>. QED BY <1>1, <1>2, ConcatProperties DEF Filled

\* A fragment put into a socket.
LEMMA PutTypes ==
  ASSUME FrameTypes, NEW c \in Conns, NEW line \in Lines,
         NEW part \in {"whole", "head", "tail"}, Put(c, part, line)
  PROVE  /\ inbox' \in [Conns -> Seq(Fragment)]
         /\ reading'.buffer \in Seq(Fragment) /\ gone' \in [Conns -> BOOLEAN]
<1>1. [part |-> part, line |-> line] \in Fragment
  BY DEF Fragment
<1>2. Append(inbox[c], [part |-> part, line |-> line]) \in Seq(Fragment)
  BY <1>1, AppendProperties DEF FrameTypes
<1>. QED BY <1>2 DEF Put, FrameTypes

\* What a client does keeps the types of the framing.
LEMMA ClientFrameTypes == ASSUME FrameTypes, Client PROVE FrameTypes'
<1>1. PICK c \in Conns :
        \/ Connect(c) \/ SendTail(c) \/ Leave(c)
        \/ \E line \in Lines : SendLine(c, line) \/ SendHead(c, line)
  BY DEF Client
<1>2. CASE Connect(c)
  BY <1>2 DEF Connect, client, FrameTypes
<1>3. CASE SendTail(c)
  <2>1. half[c] \in Lines
    BY <1>3 DEF SendTail, FrameTypes
  <2>2. /\ inbox' \in [Conns -> Seq(Fragment)]
        /\ reading'.buffer \in Seq(Fragment) /\ gone' \in [Conns -> BOOLEAN]
    BY <1>3, <2>1, PutTypes DEF SendTail
  <2>. QED BY <1>3, <2>2 DEF SendTail, FrameTypes
<1>4. CASE Leave(c)
  BY <1>4 DEF Leave, FrameTypes
<1>5. ASSUME NEW line \in Lines, Ask(c, line), half' = half \/ half' = [half EXCEPT ![c] = line],
             NEW part \in {"whole", "head", "tail"}, Put(c, part, line)
      PROVE  FrameTypes'
  <2>1. /\ inbox' \in [Conns -> Seq(Fragment)]
        /\ reading'.buffer \in Seq(Fragment) /\ gone' \in [Conns -> BOOLEAN]
    BY <1>5, PutTypes
  <2>2. half' \in [Conns -> Lines \cup {NoLine}]
    BY <1>5 DEF FrameTypes
  <2>3. owed' \in [Conns -> Lines \cup {NoLine, Lost}] /\ lockstep' \in [Conns -> BOOLEAN]
    BY <1>5 DEF Ask, FrameTypes
  <2>. QED BY <2>1, <2>2, <2>3 DEF FrameTypes
<1>6. ASSUME NEW line \in Lines, SendLine(c, line) \/ SendHead(c, line) PROVE FrameTypes'
  BY <1>5, <1>6 DEF SendLine, SendHead
<1>. QED BY <1>1, <1>2, <1>3, <1>4, <1>6

LEMMA ForgetTypes ==
  ASSUME FrameTypes, NEW C, Forget(C), reading' \in {reading, NoRead}
  PROVE  FrameTypes'
<1>1. NoRead.buffer \in Seq(Fragment)
  BY DEF NoRead
<1>2. reading'.buffer \in Seq(Fragment)
  BY <1>1 DEF FrameTypes
<1>3. inbox' \in [Conns -> Seq(Fragment)]
  BY DEF Forget, FrameTypes
<1>4. half' \in [Conns -> Lines \cup {NoLine}] /\ owed' \in [Conns -> Lines \cup {NoLine, Lost}]
  BY DEF Forget, FrameTypes
<1>5. lockstep' \in [Conns -> BOOLEAN] /\ gone' \in [Conns -> BOOLEAN]
  BY DEF Forget, FrameTypes
<1>. QED BY <1>2, <1>3, <1>4, <1>5 DEF FrameTypes

\* So does what the server does.
LEMMA LoopFrameTypes == ASSUME ConnInv, FrameTypes, Loop PROVE FrameTypes'
<1>1. CASE Wait \/ HandleSignal \/ AcceptFails
  BY <1>1 DEF Wait, HandleSignal, AcceptFails, client, FrameTypes
<1>2. CASE Accept
  <2>1. CASE UNCHANGED <<inbox, owed, half, lockstep, gone, reading>>
    BY <2>1 DEF FrameTypes
  <2>2. ASSUME NEW c, Forget({c}), reading' = reading PROVE FrameTypes'
    BY <2>2, ForgetTypes
  <2>. QED BY <1>2, <2>1, <2>2 DEF Accept
<1>3. CASE Shutdown
  BY <1>3, ForgetTypes DEF Shutdown
<1>4. CASE receive_data
  <2>1. PICK fd \in DOMAIN fds, buffer \in {<<>>, reading.buffer} :
          LET c     == fds[fd]
              bytes == Filled(buffer, inbox[c])
          IN  \/ /\ inbox' = [inbox EXCEPT ![c] = <<>>]
                 /\ reading' = NoRead
                 /\ Dispatch(c, fd, FirstLine(bytes))
                 /\ UNCHANGED <<half, lockstep, gone>>
              \/ /\ inbox' = [inbox EXCEPT ![c] = <<>>]
                 /\ reading' = [fd |-> fd, buffer |-> bytes]
                 /\ UNCHANGED <<owed, half, lockstep, gone>>
              \/ Drop(fd)
    BY <1>4 DEF receive_data, client
  <2> DEFINE c     == fds[fd]
             bytes == Filled(buffer, inbox[c])
             line  == FirstLine(bytes)
  <2>2. c \in Conns /\ bytes \in Seq(Fragment)
    BY FilledFacts
  <2>3. /\ inbox' = [inbox EXCEPT ![c] = <<>>] /\ reading' = NoRead
        /\ Dispatch(c, fd, line) /\ UNCHANGED <<half, lockstep, gone>>
        => FrameTypes'
    <3>1. NoRead.buffer \in Seq(Fragment)
      BY DEF NoRead
    <3> HIDE DEF c, line
    <3>2. Dispatch(c, fd, line) =>
            owed' = [owed EXCEPT ![c] = NoLine] \/ owed' = [owed EXCEPT ![c] = Lost]
      BY DEF Dispatch, Starve, Authenticate, Reply
    <3> SUFFICES ASSUME inbox' = [inbox EXCEPT ![c] = <<>>], reading' = NoRead,
                        Dispatch(c, fd, line), UNCHANGED <<half, lockstep, gone>>
                 PROVE  FrameTypes'
      OBVIOUS
    <3>3. owed' \in [Conns -> Lines \cup {NoLine, Lost}]
      BY <2>2, <3>2 DEF FrameTypes
    <3>4. inbox' \in [Conns -> Seq(Fragment)]
      BY <2>2 DEF FrameTypes
    <3>. QED BY <3>1, <3>3, <3>4 DEF FrameTypes
  <2>4. /\ inbox' = [inbox EXCEPT ![c] = <<>>] /\ reading' = [fd |-> fd, buffer |-> bytes]
        /\ UNCHANGED <<owed, half, lockstep, gone>>
        => FrameTypes'
    <3> HIDE DEF c, bytes
    <3>. QED BY <2>2 DEF FrameTypes
  <2>5. CASE Drop(fd)
    BY <2>5, ForgetTypes DEF Drop
  <2>. QED BY <2>1, <2>3, <2>4, <2>5
<1>. QED BY <1>1, <1>2, <1>3, <1>4 DEF Loop

-----------------------------------------------------------------------------
(* The auth store keeps its invariant *)

LEMMA KeysUnchanged == ASSUME KeysInv, keys' = keys, issued' = issued PROVE KeysInv'
BY DEF KeysInv, KeyTypes, KeysDistinct, KeysLive

\* ADD_KEY: the new key has a name and a token that no other has.
LEMMA AddKeyKeeps ==
  ASSUME KeysInv, NEW line \in Lines, line.op = "ADD_KEY", AddKey(line)
  PROVE  KeysInv'
<1>1. PICK token \in Tokens \ DOMAIN issued, hashed \in BOOLEAN :
        LET key   == [name |-> line.arg.name, role |-> line.arg.role, token |-> token]
            added == auth_add_key(keys, key, hashed)
        IN  /\ keys' = added.keys
            /\ issued' = IF added.rc # 0 THEN issued
                         ELSE [t \in DOMAIN issued \cup {token} |->
                                 IF t = token
                                   THEN [name |-> line.arg.name, role |-> line.arg.role,
                                         live |-> TRUE]
                                   ELSE issued[t]]
  BY DEF AddKey
<1> DEFINE key   == [name |-> line.arg.name, role |-> line.arg.role, token |-> token]
           added == auth_add_key(keys, key, hashed)
           entry == [name |-> line.arg.name, role |-> line.arg.role, live |-> TRUE]
<1>2. key \in KeySet /\ key.name = line.arg.name /\ key.role = line.arg.role /\ key.token = token
  BY DEF KeySet
<1>3. entry.name = line.arg.name /\ entry.role = line.arg.role /\ entry.live = TRUE
      /\ DOMAIN entry = {"name", "role", "live"}
  OBVIOUS
<1>4. /\ keys' = added.keys
      /\ issued' = IF added.rc # 0 THEN issued
                   ELSE [t \in DOMAIN issued \cup {token} |->
                           IF t = token THEN entry ELSE issued[t]]
  BY <1>1
<1> HIDE DEF key, entry
<1>5. CASE Len(keys) >= AUTH_MAX_KEYS \/ HasKey(keys, key.name) \/ ~hashed
  <2>1. added = [rc |-> -1, keys |-> keys]
    BY <1>5 DEF auth_add_key
  <2>2. added.keys = keys /\ added.rc # 0
    BY <2>1
  <2>. QED BY <1>4, <2>2, KeysUnchanged
<1>6. CASE ~(Len(keys) >= AUTH_MAX_KEYS \/ HasKey(keys, key.name) \/ ~hashed)
  <2>1. added = [rc |-> 0, keys |-> Append(keys, key)]
    BY <1>6 DEF auth_add_key
  <2>2. added.keys = Append(keys, key) /\ added.rc = 0
    BY <2>1
  <2> HIDE DEF added
  <2>3. keys \in Seq(KeySet) /\ DOMAIN keys = 1 .. Len(keys) /\ Len(keys) \in Nat
    BY LenProperties DEF KeysInv, KeyTypes
  <2>4. keys' = Append(keys, key)
    BY <1>4, <2>2
  <2>5. /\ keys' \in Seq(KeySet) /\ Len(keys') = Len(keys) + 1
        /\ \A i \in 1 .. Len(keys) : keys'[i] = keys[i]
        /\ keys'[Len(keys) + 1] = key /\ DOMAIN keys' = 1 .. Len(keys) + 1
    BY <1>2, <2>3, <2>4, AppendProperties, LenProperties
  <2>6. /\ \A i \in DOMAIN keys : i \in DOMAIN keys' /\ keys'[i] = keys[i]
        /\ Len(keys) + 1 \in DOMAIN keys'
        /\ \A i \in DOMAIN keys' : i \in DOMAIN keys \/ i = Len(keys) + 1
    BY <2>3, <2>5
  <2>7. /\ DOMAIN issued' = DOMAIN issued \cup {token} /\ issued'[token] = entry
        /\ \A t \in DOMAIN issued : issued'[t] = issued[t]
    BY <1>1, <1>4, <2>2
  <2>8. \A i \in DOMAIN keys : keys[i].name # key.name /\ keys[i].token # token
    BY <1>1, <1>6 DEF HasKey, KeysInv, KeysLive
  <2>9. KeyTypes'
    <3> DEFINE n == Len(keys)
               m == Len(keys')
    <3>1. n \in Nat /\ m = n + 1 /\ ~(n >= AUTH_MAX_KEYS) /\ AUTH_MAX_KEYS \in Nat
      BY <1>6, <2>3, <2>5, KeysAssumption
    <3> HIDE DEF n, m
    <3>2. m <= AUTH_MAX_KEYS
      BY <3>1
    <3>3. \A t \in DOMAIN issued' :
            DOMAIN issued'[t] = {"name", "role", "live"} /\ issued'[t].live \in BOOLEAN
      BY <1>3, <2>7 DEF KeysInv, KeyTypes
    <3>. QED BY <2>5, <3>2, <3>3 DEF KeyTypes, m
  <2>10. KeysDistinct'
    BY <1>2, <2>5, <2>6, <2>8 DEF KeysInv, KeysDistinct
  <2>11. KeysLive'
    <3>1. ASSUME NEW i \in DOMAIN keys'
          PROVE  LET t == keys'[i].token
                 IN  /\ t \in DOMAIN issued' /\ issued'[t].live
                     /\ issued'[t].name = keys'[i].name /\ issued'[t].role = keys'[i].role
      <4>1. CASE i \in DOMAIN keys
        BY <2>6, <2>7, <4>1 DEF KeysInv, KeysLive
      <4>2. CASE i = Len(keys) + 1
        BY <1>2, <1>3, <2>5, <2>7, <4>2
      <4>. QED BY <2>6, <4>1, <4>2
    <3>2. ASSUME NEW t \in DOMAIN issued', issued'[t].live
          PROVE  \E i \in DOMAIN keys' : keys'[i].token = t
      <4>1. CASE t = token
        BY <1>2, <2>5, <2>6, <4>1
      <4>2. CASE t \in DOMAIN issued
        <5>1. PICK i \in DOMAIN keys : keys[i].token = t
          BY <2>7, <3>2, <4>2 DEF KeysInv, KeysLive
        <5>. QED BY <2>6, <5>1
      <4>. QED BY <2>7, <4>1, <4>2
    <3>. QED BY <3>1, <3>2 DEF KeysLive
  <2>. QED BY <2>9, <2>10, <2>11 DEF KeysInv
<1>. QED BY <1>5, <1>6

LEMMA DelKeyKeeps == ASSUME KeysInv, NEW line, DelKey(line) PROVE KeysInv'
<1> DEFINE name == line.arg
           at   == CHOOSE j \in DOMAIN keys : keys[j].name = name
<1>1. /\ keys' = auth_del_key(keys, name).keys
      /\ issued' = [t \in DOMAIN issued |->
                      [issued[t] EXCEPT !.live = @ /\ issued[t].name # name]]
  BY DEF DelKey
<1> HIDE DEF name
<1>2. keys \in Seq(KeySet) /\ DOMAIN keys = 1 .. Len(keys) /\ Len(keys) \in Nat
  BY LenProperties DEF KeysInv, KeyTypes
<1>3. /\ DOMAIN issued' = DOMAIN issued
      /\ \A t \in DOMAIN issued :
           /\ DOMAIN issued'[t] = {"name", "role", "live"} /\ issued'[t].live \in BOOLEAN
           /\ issued'[t].name = issued[t].name /\ issued'[t].role = issued[t].role
           /\ issued'[t].live <=> issued[t].live /\ issued[t].name # name
  BY <1>1 DEF KeysInv, KeyTypes
<1>4. ASSUME keys' \in Seq(KeySet), Len(keys') <= Len(keys),
             \A j \in DOMAIN keys' :
               \E m \in DOMAIN keys : keys[m].name # name /\ keys'[j] = keys[m],
             \A m \in DOMAIN keys :
               keys[m].name # name => \E j \in DOMAIN keys' : keys'[j] = keys[m],
             \A j1, j2 \in DOMAIN keys' : j1 # j2 =>
               \E m1, m2 \in DOMAIN keys :
                 m1 # m2 /\ keys'[j1] = keys[m1] /\ keys'[j2] = keys[m2]
      PROVE  KeysInv'
  <2>1. KeyTypes'
    <3> DEFINE n == Len(keys)
               m == Len(keys')
    <3>1. n \in Nat /\ m \in Nat /\ m <= n /\ n <= AUTH_MAX_KEYS /\ AUTH_MAX_KEYS \in Nat
      BY <1>2, <1>4, KeysAssumption, LenProperties DEF KeysInv, KeyTypes
    <3> HIDE DEF n, m
    <3>2. m <= AUTH_MAX_KEYS
      BY <3>1
    <3>. QED BY <1>3, <1>4, <3>2 DEF KeyTypes, m
  <2>2. KeysDistinct'
    <3>1. ASSUME NEW j1 \in DOMAIN keys', NEW j2 \in DOMAIN keys', j1 # j2,
                 keys'[j1].name = keys'[j2].name \/ keys'[j1].token = keys'[j2].token
          PROVE  FALSE
      <4>1. PICK m1 \in DOMAIN keys, m2 \in DOMAIN keys :
              m1 # m2 /\ keys'[j1] = keys[m1] /\ keys'[j2] = keys[m2]
        BY <1>4, <3>1
      <4>. QED BY <3>1, <4>1 DEF KeysInv, KeysDistinct
    <3>. QED BY <3>1 DEF KeysDistinct
  <2>3. ASSUME NEW j \in DOMAIN keys'
        PROVE  LET t == keys'[j].token
               IN  /\ t \in DOMAIN issued' /\ issued'[t].live
                   /\ issued'[t].name = keys'[j].name /\ issued'[t].role = keys'[j].role
    <3>1. PICK m \in DOMAIN keys : keys[m].name # name /\ keys'[j] = keys[m]
      BY <1>4
    <3>. QED BY <1>3, <3>1 DEF KeysInv, KeysLive
  <2>4. ASSUME NEW t \in DOMAIN issued', issued'[t].live
        PROVE  \E j \in DOMAIN keys' : keys'[j].token = t
    <3>1. t \in DOMAIN issued /\ issued[t].live /\ issued[t].name # name
      BY <1>3, <2>4
    <3>2. PICK m \in DOMAIN keys : keys[m].token = t
      BY <3>1 DEF KeysInv, KeysLive
    <3>3. keys[m].name # name
      BY <3>1, <3>2 DEF KeysInv, KeysLive
    <3>. QED BY <1>4, <3>2, <3>3
  <2>. QED BY <2>1, <2>2, <2>3, <2>4 DEF KeysInv, KeysLive
<1>5. CASE HasKey(keys, name)
  <2>1. at \in DOMAIN keys /\ keys[at].name = name
    BY <1>5 DEF HasKey
  <2>2. keys' = SubSeq(keys, 1, at - 1) \o SubSeq(keys, at + 1, Len(keys))
    BY <1>1, <1>5 DEF auth_del_key
  <2> HIDE DEF at
  <2>3. keys' \in Seq(KeySet) /\ Len(keys') = Len(keys) - 1 /\ HoldsOthers(keys', keys, at)
    BY <1>2, <2>1, <2>2, RemoveAtKeeps
  <2>4. \A m \in DOMAIN keys : m # at <=> keys[m].name # name
    BY <2>1 DEF KeysInv, KeysDistinct
  <2>5. /\ \A j \in DOMAIN keys' : \E m \in DOMAIN keys \ {at} : keys'[j] = keys[m]
        /\ \A m \in DOMAIN keys \ {at} : \E j \in DOMAIN keys' : keys'[j] = keys[m]
        /\ \A j1, j2 \in DOMAIN keys' : j1 # j2 =>
             \E m1, m2 \in DOMAIN keys \ {at} :
               m1 # m2 /\ keys'[j1] = keys[m1] /\ keys'[j2] = keys[m2]
    BY <2>3, Zenon DEF HoldsOthers
  <2>6. Len(keys') <= Len(keys)
    BY <1>2, <2>3
  <2>. QED BY <1>4, <2>3, <2>4, <2>5, <2>6
<1>6. CASE ~HasKey(keys, name)
  <2>1. keys' = keys
    BY <1>1, <1>6 DEF auth_del_key
  <2>2. \A m \in DOMAIN keys : keys[m].name # name
    BY <1>6 DEF HasKey
  <2>. QED BY <1>2, <1>4, <2>1, <2>2
<1>. QED BY <1>5, <1>6

\* What the server does for a request.
LEMMA DispatchKeys ==
  ASSUME KeysInv, NEW c, NEW fd, NEW line \in Lines \cup {Garbled}, Dispatch(c, fd, line)
  PROVE  KeysInv'
<1>1. CASE UNCHANGED <<keys, issued>>
  BY <1>1, KeysUnchanged
<1>2. CASE line.op \notin {"ERROR", "AUTH"} /\ Execute(line)
  <2>1. line \in Lines
    BY <1>2 DEF Garbled
  <2>. QED BY <1>1, <1>2, <2>1, AddKeyKeeps, DelKeyKeeps DEF Execute
<1>. QED BY <1>1, <1>2 DEF Dispatch, Starve, Authenticate, session

LEMMA NextKeys ==
  ASSUME ConnInv, FrameTypes, KeysInv, SessionsNext
  PROVE  KeysInv'
<1>1. CASE Client
  <2>1. UNCHANGED <<keys, issued>>
    BY <1>1 DEF Client, Connect, SendTail, Leave, SendLine, SendHead, Put, session
  <2>. QED BY <2>1, KeysUnchanged
<1>2. CASE Wait \/ HandleSignal \/ Accept \/ AcceptFails \/ Shutdown
  <2>1. UNCHANGED <<keys, issued>>
    BY <1>2 DEF Wait, HandleSignal, Accept, AcceptFails, Shutdown, session
  <2>. QED BY <2>1, KeysUnchanged
<1>3. CASE receive_data
  <2>1. PICK fd \in DOMAIN fds, buffer \in {<<>>, reading.buffer} :
          LET bytes == Filled(buffer, inbox[fds[fd]])
          IN  \/ HasLine(bytes) /\ Dispatch(fds[fd], fd, FirstLine(bytes))
              \/ UNCHANGED session
              \/ Drop(fd)
    BY <1>3 DEF receive_data
  <2> DEFINE bytes == Filled(buffer, inbox[fds[fd]])
  <2>2. bytes \in Seq(Fragment)
    BY FilledFacts
  <2> HIDE DEF bytes
  <2>3. CASE HasLine(bytes) /\ Dispatch(fds[fd], fd, FirstLine(bytes))
    BY <2>2, <2>3, FirstLineFacts, DispatchKeys
  <2>4. CASE UNCHANGED session \/ Drop(fd)
    BY <2>4, KeysUnchanged DEF session, Drop
  <2>. QED BY <2>1, <2>3, <2>4 DEF bytes
<1>. QED BY <1>1, <1>2, <1>3 DEF SessionsNext, Loop

-----------------------------------------------------------------------------
(* The invariant of the sessions, and what follows from it *)

SessionsInv == ConnInv /\ KeysInv /\ FrameTypes

LEMMA InitConn == ASSUME SessionsInit PROVE ConnInv
<1>1. /\ link = [c \in Conns |-> "new"] /\ granted = [c \in Conns |-> NoGrant]
      /\ backlog = <<>> /\ fds = [fd \in {} |-> 0] /\ slots = <<>>
      /\ batch = {} /\ reading = NoRead /\ run = "running"
  BY DEF SessionsInit
<1>2. DOMAIN fds = {} /\ DOMAIN slots = {} /\ DOMAIN backlog = {}
      /\ slots \in Seq(SlotSet) /\ backlog \in Seq(Conns) /\ Len(slots) = 0
  BY <1>1
<1>3. NoGrant \in Grant
  BY DEF NoGrant, Grant, Levels, GrantNames
<1>4. ConnTypes
  BY <1>1, <1>2, <1>3, SessionsAssumption DEF ConnTypes
<1>5. DescriptorsOpen /\ SlotsDistinct /\ SlotsOfFds /\ LevelIsOwn
  BY <1>1, <1>2 DEF DescriptorsOpen, SlotsDistinct, SlotsOfFds, LevelIsOwn
<1>6. NoGrantUnopened /\ BacklogWaits /\ EventsFresh /\ ServerEventReady /\ ReadingOpen
  BY <1>1, <1>2 DEF NoGrantUnopened, BacklogWaits, EventsFresh, ServerEventReady, ReadingOpen
<1>. QED BY <1>4, <1>5, <1>6 DEF ConnInv

LEMMA InitKeys == ASSUME SessionsInit PROVE KeysInv
<1> DEFINE toks  == {FirstKeys[i].token : i \in DOMAIN FirstKeys}
           at(t) == CHOOSE i \in DOMAIN FirstKeys : FirstKeys[i].token = t
<1>1. /\ keys = FirstKeys
      /\ issued = [t \in toks |-> [name |-> FirstKeys[at(t)].name,
                                   role |-> FirstKeys[at(t)].role, live |-> TRUE]]
  BY DEF SessionsInit
<1>2. ASSUME NEW t \in toks
      PROVE  at(t) \in DOMAIN FirstKeys /\ FirstKeys[at(t)].token = t
  <2>1. \E i \in DOMAIN FirstKeys : FirstKeys[i].token = t
    BY <1>2
  <2>. QED BY <2>1
<1>3. ASSUME NEW i \in DOMAIN FirstKeys
      PROVE  FirstKeys[i].token \in toks /\ at(FirstKeys[i].token) = i
  <2>1. FirstKeys[i].token \in toks
    OBVIOUS
  <2>2. FirstKeys[at(FirstKeys[i].token)].token = FirstKeys[i].token
        /\ at(FirstKeys[i].token) \in DOMAIN FirstKeys
    BY <1>2, <2>1
  <2> HIDE DEF at
  <2>. QED BY <2>1, <2>2, FirstKeysAssumption
<1> HIDE DEF toks, at
<1>4. /\ DOMAIN issued = toks
      /\ \A t \in toks : /\ DOMAIN issued[t] = {"name", "role", "live"} /\ issued[t].live = TRUE
                         /\ issued[t].name = FirstKeys[at(t)].name
                         /\ issued[t].role = FirstKeys[at(t)].role
  BY <1>1
<1>5. KeyTypes
  <2>1. FirstKeys \in Seq({FirstKeys[i] : i \in DOMAIN FirstKeys})
        /\ {FirstKeys[i] : i \in DOMAIN FirstKeys} \subseteq KeySet
    BY FirstKeysAssumption DEF KeySet
  <2>2. FirstKeys \in Seq(KeySet)
    BY <2>1
  <2>. QED BY <1>1, <1>4, <2>2, FirstKeysAssumption DEF KeyTypes
<1>6. KeysDistinct
  BY <1>1, FirstKeysAssumption DEF KeysDistinct
<1>7. KeysLive
  BY <1>1, <1>2, <1>3, <1>4 DEF KeysLive
<1>. QED BY <1>5, <1>6, <1>7 DEF KeysInv

LEMMA InitFrameTypes == ASSUME SessionsInit PROVE FrameTypes
<1>1. NoRead.buffer \in Seq(Fragment)
  BY DEF NoRead
<1>. QED BY <1>1 DEF SessionsInit, FrameTypes

LEMMA NextConn == ASSUME ConnInv, KeysInv, SessionsNext PROVE ConnInv'
<1>1. KeyTypes
  BY DEF KeysInv
<1>2. ASSUME UNCHANGED <<link, granted, backlog, fds, slots, reading>>,
             batch' \subseteq batch, run' \in {run, "stopping"}
      PROVE  ConnInv'
  <2>1. ReadingOpen'
    BY <1>2 DEF ConnInv, ReadingOpen
  <2>2. run' \in {"running", "stopping", "down"}
    BY <1>2 DEF ConnInv, ConnTypes
  <2>. QED BY <1>2, <2>1, <2>2, BatchShrinks
<1>3. CASE Client
  <2>1. ASSUME NEW c \in Conns, Connect(c) PROVE ConnInv'
    BY <2>1, ConnectKeeps
  <2>2. ASSUME NEW c \in Conns,
               \/ SendTail(c) \/ Leave(c)
               \/ \E line \in Lines : SendLine(c, line) \/ SendHead(c, line)
        PROVE  ConnInv'
    <3>1. UNCHANGED <<link, granted, backlog, fds, slots, reading, batch, run>>
      BY <2>2 DEF SendTail, Leave, SendLine, SendHead, Put, server, session
    <3>. QED BY <1>2, <3>1
  <2>. QED BY <1>3, <2>1, <2>2 DEF Client
<1>4. CASE HandleSignal \/ AcceptFails
  <2>1. /\ UNCHANGED <<link, granted, backlog, fds, slots, reading>>
        /\ batch' \subseteq batch /\ run' \in {run, "stopping"}
    BY <1>4 DEF HandleSignal, AcceptFails, Handling, session
  <2>. QED BY <1>2, <2>1
<1>. QED BY <1>1, <1>3, <1>4, WaitKeeps, AcceptKeeps, ShutdownKeeps, ReceiveKeeps
     DEF SessionsNext, Loop

LEMMA SessionsStutter == ASSUME SessionsInv, UNCHANGED sessionVars PROVE SessionsInv'
<1>1. UNCHANGED <<link, granted, backlog, fds, slots, reading, batch, run, keys, issued,
                  inbox, half, owed, lockstep, gone>>
  BY DEF sessionVars, client, server, session
<1>2. ReadingOpen' /\ run' \in {"running", "stopping", "down"}
  BY <1>1 DEF SessionsInv, ConnInv, ConnTypes, ReadingOpen
<1>3. ConnInv'
  BY <1>1, <1>2, BatchShrinks DEF SessionsInv
<1>4. KeysInv' /\ FrameTypes'
  BY <1>1, KeysUnchanged DEF SessionsInv, FrameTypes
<1>. QED BY <1>3, <1>4 DEF SessionsInv

\* The inductive invariant of the sessions: every step of a client and of the
\* loop keeps slots, descriptors and rights together, the auth store and the
\* tokens given out together, and the buffers made of fragments of lines.
THEOREM SessionsInvariance == SessionsSpec => []SessionsInv
<1>1. SessionsInit => SessionsInv
  BY InitConn, InitKeys, InitFrameTypes DEF SessionsInv
<1>2. SessionsInv /\ [SessionsNext]_sessionVars => SessionsInv'
  <2>1. ASSUME SessionsInv, SessionsNext PROVE SessionsInv'
    <3>1. ConnInv' /\ KeysInv'
      BY <2>1, NextConn, NextKeys DEF SessionsInv
    <3>2. FrameTypes'
      BY <2>1, ClientFrameTypes, LoopFrameTypes DEF SessionsInv, SessionsNext
    <3>. QED BY <3>1, <3>2 DEF SessionsInv
  <2>. QED BY <2>1, SessionsStutter
<1>. QED BY <1>1, <1>2, PTL DEF SessionsSpec

\* The slots and the keys stay within maxConnections and AUTH_MAX_KEYS, and
\* every descriptor of the loop is a connection's.
THEOREM SessionsTypesTheorem == SessionsSpec => []SessionsTypeOK
<1>1. SessionsInv => SessionsTypeOK
  <2> SUFFICES ASSUME SessionsInv PROVE SessionsTypeOK
    OBVIOUS
  <2>1. \A i \in DOMAIN slots : slots[i].level \in {"NONE", "READONLY", "ADMIN"}
    <3>1. ASSUME NEW i \in DOMAIN slots PROVE slots[i] \in SlotSet
      BY LenProperties DEF SessionsInv, ConnInv, ConnTypes
    <3>. QED BY <3>1 DEF SlotSet, Levels
  <2>. QED BY <2>1 DEF SessionsInv, ConnInv, ConnTypes, KeysInv, KeyTypes, SessionsTypeOK
<1>. QED BY <1>1, SessionsInvariance, PTL

\* No descriptor and no slot is leaked or shared, whatever order connections
\* are accepted, refused, dropped and closed in.
THEOREM SlotsTheorem == SessionsSpec => []SlotsMatchDescriptors
<1>1. SessionsInv => SlotsMatchDescriptors
  BY DEF SessionsInv, ConnInv, SlotsDistinct, SlotsOfFds, DescriptorsOpen, SlotsMatchDescriptors
<1>. QED BY <1>1, SessionsInvariance, PTL

\* A slot's level and name are what its own connection was granted, however the
\* slots shift and descriptors are reused.
THEOREM LevelTheorem == SessionsSpec => []LevelIsOwn
<1>1. SessionsInv => LevelIsOwn
  BY DEF SessionsInv, ConnInv
<1>. QED BY <1>1, SessionsInvariance, PTL

\* Every event left in a batch of epoll_wait still means the connection it was
\* reported for.
THEOREM EventsTheorem == SessionsSpec => []EventsFresh
<1>1. SessionsInv => EventsFresh
  BY DEF SessionsInv, ConnInv
<1>. QED BY <1>1, SessionsInvariance, PTL

\* What auth_verify_ex finds for a token that was given out.
LEMMA VerifyLive == ASSUME KeysInv PROVE TokensHonoured
<1> SUFFICES ASSUME NEW t \in DOMAIN issued
             PROVE  auth_verify_ex(keys, t) =
                      IF issued[t].live
                        THEN [level |-> IF issued[t].role = "admin" THEN "ADMIN" ELSE "READONLY",
                              name  |-> issued[t].name]
                        ELSE NoGrant
  BY DEF TokensHonoured
<1> DEFINE hits  == {i \in DOMAIN keys : keys[i].token = t}
           first == CHOOSE i \in hits : \A j \in hits : i <= j
<1>1. DOMAIN keys = 1 .. Len(keys) /\ Len(keys) \in Nat
  BY LenProperties DEF KeysInv, KeyTypes
<1>2. CASE hits = {}
  <2>1. ~issued[t].live
    BY <1>2 DEF KeysInv, KeysLive
  <2>. QED BY <1>2, <2>1 DEF auth_verify_ex
<1>3. CASE hits # {}
  <2>1. \E i \in hits : \A j \in hits : i <= j
    <3>1. hits \in SUBSET Nat
      BY <1>1
    <3>. QED BY <1>3, <3>1, LeastNatural
  <2>2. first \in DOMAIN keys /\ keys[first].token = t
    BY <2>1
  <2>3. auth_verify_ex(keys, t) =
          [level |-> IF keys[first].role = "admin" THEN "ADMIN" ELSE "READONLY",
           name  |-> keys[first].name]
    BY <1>3 DEF auth_verify_ex
  <2> HIDE DEF first
  <2>4. issued[t].live /\ issued[t].name = keys[first].name /\ issued[t].role = keys[first].role
    BY <2>2 DEF KeysInv, KeysLive
  <2>. QED BY <2>3, <2>4
<1>. QED BY <1>2, <1>3

\* A token opens what it was issued for until its key is deleted and nothing
\* afterwards, through any sequence of ADD_KEY and DEL_KEY.
THEOREM TokensTheorem == SessionsSpec => []TokensHonoured
<1>1. SessionsInv => TokensHonoured
  BY VerifyLive DEF SessionsInv
<1>. QED BY <1>1, SessionsInvariance, PTL

-----------------------------------------------------------------------------
(* What a read handles *)

\* What receive_data holds of a connection.
Held(c) == IF reading # NoRead /\ fds[reading.fd] = c THEN reading.buffer ELSE <<>>

LEMMA BufferedFacts ==
  ASSUME FrameTypes, NEW c \in Conns
  PROVE  /\ Held(c) \in Seq(Fragment) /\ inbox[c] \in Seq(Fragment)
         /\ Buffered(c) = Held(c) \o inbox[c] /\ Buffered(c) \in Seq(Fragment)
<1>1. Held(c) \in Seq(Fragment) /\ inbox[c] \in Seq(Fragment)
  <2>1. <<>> \in Seq(Fragment)
    OBVIOUS
  <2>. QED BY <2>1 DEF FrameTypes, Held
<1>2. Buffered(c) = Held(c) \o inbox[c]
  BY DEF Buffered, Held
<1>. QED BY <1>1, <1>2, ConcatProperties

\* A read handles what is buffered of its connection; of the others nothing is
\* held.
LEMMA ReadBuffered ==
  ASSUME ConnInv, FrameTypes, NEW fd \in DOMAIN fds, NEW buffer, Reads(fd, buffer)
  PROVE  /\ fds[fd] \in Conns /\ link[fds[fd]] = "open" /\ run # "down"
         /\ Filled(buffer, inbox[fds[fd]]) = Buffered(fds[fd])
         /\ \A d \in Conns : d # fds[fd] => Buffered(d) = inbox[d]
<1>1. \/ reading = NoRead /\ buffer = <<>>
      \/ reading # NoRead /\ fd = reading.fd /\ buffer = reading.buffer
  BY ReadsFacts
<1>2. fds[fd] \in Conns /\ link[fds[fd]] = "open" /\ run # "down"
  BY ReadsFacts DEF ConnInv, ConnTypes, DescriptorsOpen
<1>3. Held(fds[fd]) = buffer
  BY <1>1 DEF Held
<1>4. ASSUME NEW d \in Conns, d # fds[fd] PROVE Buffered(d) = inbox[d]
  <2>1. Held(d) = <<>>
    BY <1>1, <1>4 DEF Held
  <2>. QED BY <2>1, BufferedFacts, ConcatEmptySeq
<1>. QED BY <1>2, <1>3, <1>4, BufferedFacts DEF Filled

\* What is buffered of a connection once the read is over.
LEMMA BufferedAfter ==
  ASSUME FrameTypes', NEW c \in Conns, Held(c)' = <<>>
  PROVE  Buffered(c)' = inbox'[c]
<1>1. inbox'[c] \in Seq(Fragment)
  BY DEF FrameTypes
<1>2. Buffered(c)' = Held(c)' \o inbox'[c]
  BY DEF Buffered, Held
<1>. QED BY <1>1, <1>2, ConcatEmptySeq

\* The level of an open descriptor's slot is its connection's.
LEMMA OwnLevel ==
  ASSUME ConnInv, NEW fd \in DOMAIN fds
  PROVE  get_client_auth(slots, fd) = granted[fds[fd]].level
BY SlotOfFacts DEF get_client_auth, ConnInv, LevelIsOwn

-----------------------------------------------------------------------------
(* Rights *)

RightsStep ==
  queries' # queries \/ changes' # changes \/ keys' # keys
    => \E c \in Conns :
         /\ Buffered(c) # <<>> /\ Buffered(c)' = <<>>
         /\ granted[c].level # "NONE"
         /\ changes' # changes \/ keys' # keys => granted[c].level = "ADMIN"

\* A command that is done is done with the rights of the slot.
LEMMA DispatchRights ==
  ASSUME NEW c, NEW fd, NEW line, Dispatch(c, fd, line),
         queries' # queries \/ changes' # changes \/ keys' # keys
  PROVE  /\ get_client_auth(slots, fd) # "NONE"
         /\ changes' # changes \/ keys' # keys => get_client_auth(slots, fd) = "ADMIN"
<1>1. CASE UNCHANGED <<keys, queries, changes>>
  BY <1>1
<1>2. CASE /\ Permitted(get_client_auth(slots, fd), line.op) /\ Execute(line)
           /\ queries' = IF line.op \in ReadOps THEN ~queries ELSE queries
           /\ changes' = IF line.op \in ReadOps THEN changes ELSE ~changes
  <2>1. keys' # keys => line.op \in {"ADD_KEY", "DEL_KEY"}
    BY <1>2 DEF Execute
  <2>2. changes' # changes => line.op \notin ReadOps
    BY <1>2
  <2>3. changes' # changes \/ keys' # keys => line.op \notin ReadOps
    BY <2>1, <2>2 DEF ReadOps
  <2>. QED BY <1>2, <2>3 DEF Permitted
<1>. QED BY <1>1, <1>2 DEF Dispatch, Starve, Authenticate, session

LEMMA NextRights ==
  ASSUME SessionsInv, SessionsInv', SessionsNext
  PROVE  RightsStep
<1> SUFFICES ASSUME queries' # queries \/ changes' # changes \/ keys' # keys
             PROVE  \E c \in Conns :
                      /\ Buffered(c) # <<>> /\ Buffered(c)' = <<>>
                      /\ granted[c].level # "NONE"
                      /\ changes' # changes \/ keys' # keys => granted[c].level = "ADMIN"
  BY DEF RightsStep
<1>1. CASE Client
  BY <1>1 DEF Client, Connect, SendTail, Leave, SendLine, SendHead, Put, session
<1>2. CASE Wait \/ HandleSignal \/ Accept \/ AcceptFails \/ Shutdown
  BY <1>2 DEF Wait, HandleSignal, Accept, AcceptFails, Shutdown, session
<1>3. CASE receive_data
  <2>1. PICK fd \in DOMAIN fds, buffer \in {<<>>, reading.buffer} :
          /\ Reads(fd, buffer)
          /\ LET bytes == Filled(buffer, inbox[fds[fd]])
             IN  \/ /\ HasLine(bytes) /\ Dispatch(fds[fd], fd, FirstLine(bytes))
                    /\ inbox' = [inbox EXCEPT ![fds[fd]] = <<>>] /\ reading' = NoRead
                 \/ UNCHANGED session
                 \/ Drop(fd)
    BY <1>3 DEF receive_data
  <2>2. PICK c \in Conns : c = fds[fd] /\ Filled(buffer, inbox[c]) = Buffered(c)
    BY <2>1, ReadBuffered DEF SessionsInv
  <2> DEFINE bytes == Filled(buffer, inbox[c])
  <2>3. get_client_auth(slots, fd) = granted[c].level
    BY <2>2, OwnLevel DEF SessionsInv
  <2>4. ASSUME HasLine(bytes), Dispatch(c, fd, FirstLine(bytes)),
               inbox' = [inbox EXCEPT ![c] = <<>>], reading' = NoRead
        PROVE  /\ Buffered(c) # <<>> /\ Buffered(c)' = <<>>
               /\ granted[c].level # "NONE"
               /\ changes' # changes \/ keys' # keys => granted[c].level = "ADMIN"
    <3> HIDE DEF bytes
    <3>1. Buffered(c) # <<>>
      BY <2>2, <2>4 DEF HasLine, bytes
    <3>2. inbox'[c] = <<>> /\ Held(c)' = <<>>
      BY <2>2, <2>4 DEF SessionsInv, FrameTypes, Held
    <3>3. Buffered(c)' = <<>>
      BY <2>2, <3>2, BufferedAfter DEF SessionsInv
    <3>. QED BY <2>3, <2>4, <3>1, <3>3, DispatchRights
  <2>5. CASE UNCHANGED session \/ Drop(fd)
    BY <2>5 DEF session, Drop
  <2>. QED BY <2>1, <2>2, <2>4, <2>5
<1>. QED BY <1>1, <1>2, <1>3 DEF SessionsNext, Loop

\* A query or a command is done only for a connection whose line was read in
\* that step and that itself presented a token, an admin's for whatever changes
\* or lists: the level that the loop looks up in the slots is never another's.
THEOREM RightsTheorem == SessionsSpec => RightsHeld
<1>1. SessionsInv /\ SessionsInv' /\ [SessionsNext]_sessionVars => [RightsStep]_sessionVars
  BY NextRights
<1>2. SessionsSpec => [][RightsStep]_sessionVars
  BY <1>1, SessionsInvariance, PTL DEF SessionsSpec
<1>. QED BY <1>2 DEF RightsHeld, RightsStep

-----------------------------------------------------------------------------
(* Framing *)

Part(part, line) == [part |-> part, line |-> line]

\* What is buffered of a client that has always waited for its replies: the
\* line it is owed an answer for, as far as it has sent it, and nothing else.
Buffers(c) ==
  \/ /\ owed[c] \in Lines /\ half[c] = NoLine
     /\ \/ Buffered(c) = <<Part("whole", owed[c])>>
        \/ Buffered(c) = <<Part("head", owed[c]), Part("tail", owed[c])>>
  \/ /\ owed[c] \in Lines /\ half[c] = owed[c]
     /\ Buffered(c) = <<Part("head", owed[c])>>
  \/ /\ owed[c] \in {NoLine, Lost} /\ half[c] = NoLine
     /\ Buffered(c) = <<>>

Safe(c) == lockstep[c] /\ link[c] # "closed" /\ run # "down" => Buffers(c)

\* The inductive invariant of the framing.  LockstepLossless is about lines
\* that are owed; between two lines nothing may be left in the buffer.
FrameInv == ~mangled /\ \A c \in Conns : Safe(c)

LEMMA LineFacts == NoLine \notin Lines /\ Lost \notin Lines /\ NoLine # Lost
<1>1. NoLine.op = "none" /\ Lost.op = "lost"
  BY DEF NoLine, Lost
<1>. QED BY <1>1, SessionsAssumption

\* The lines in the buffers that FrameInv allows.
LEMMA PartFacts ==
  ASSUME NEW line \in Lines
  PROVE  /\ ~HasLine(<<>>)
         /\ <<Part("whole", line)>> # <<>> /\ HasLine(<<Part("whole", line)>>)
         /\ FirstLine(<<Part("whole", line)>>) = line
         /\ <<Part("head", line)>> # <<>> /\ ~HasLine(<<Part("head", line)>>)
         /\ FirstLine(<<Part("head", line)>>) = line
         /\ <<Part("head", line), Part("tail", line)>> # <<>>
         /\ HasLine(<<Part("head", line), Part("tail", line)>>)
         /\ FirstLine(<<Part("head", line), Part("tail", line)>>) = line
<1> DEFINE w == Part("whole", line)
           h == Part("head", line)
           t == Part("tail", line)
<1>1. w.part = "whole" /\ w.line = line /\ h.part = "head" /\ h.line = line /\ t.part = "tail"
  BY DEF Part
<1> HIDE DEF w, h, t
<1>2. ~HasLine(<<>>)
  BY DEF HasLine
<1>3. <<w>> # <<>> /\ HasLine(<<w>>) /\ FirstLine(<<w>>) = line
  BY <1>1 DEF HasLine, FirstLine
<1>4. <<h>> # <<>> /\ ~HasLine(<<h>>) /\ FirstLine(<<h>>) = line
  BY <1>1 DEF HasLine, FirstLine
<1>5. <<h, t>> # <<>> /\ HasLine(<<h, t>>) /\ FirstLine(<<h, t>>) = line
  <2>1. DOMAIN <<h, t>> = 1 .. 2 /\ <<h, t>>[2] = t /\ Head(<<h, t>>) = h
    OBVIOUS
  <2>2. 2 \in 1 .. 2
    OBVIOUS
  <2>. QED BY <1>1, <2>1, <2>2 DEF HasLine, FirstLine
<1>. QED BY <1>2, <1>3, <1>4, <1>5 DEF w, h, t

\* A complete line in the buffer is the line that is owed an answer.
LEMMA BuffersLine ==
  ASSUME NEW c, Buffers(c), HasLine(Buffered(c))
  PROVE  half[c] = NoLine /\ FirstLine(Buffered(c)) = owed[c]
<1>1. CASE owed[c] \in Lines
  <2> DEFINE line == owed[c]
  <2>1. /\ HasLine(<<Part("whole", line)>>) /\ FirstLine(<<Part("whole", line)>>) = line
        /\ ~HasLine(<<Part("head", line)>>)
        /\ FirstLine(<<Part("head", line), Part("tail", line)>>) = line
        /\ ~HasLine(<<>>)
    BY <1>1, PartFacts
  <2> HIDE DEF line
  <2>2. \/ half[c] = NoLine /\ Buffered(c) = <<Part("whole", line)>>
        \/ half[c] = NoLine /\ Buffered(c) = <<Part("head", line), Part("tail", line)>>
        \/ Buffered(c) = <<Part("head", line)>>
        \/ Buffered(c) = <<>>
    BY DEF Buffers, line
  <2>3. half[c] = NoLine /\ FirstLine(Buffered(c)) = line
    BY <2>1, <2>2, Zenon
  <2>. QED BY <2>3 DEF line
<1>2. CASE owed[c] \notin Lines
  <2>1. Buffered(c) = <<>>
    BY <1>2 DEF Buffers
  <2>. QED BY <2>1 DEF HasLine
<1>. QED BY <1>1, <1>2

LEMMA BuffersSame ==
  ASSUME NEW c, Buffers(c), Buffered(c)' = Buffered(c), owed'[c] = owed[c], half'[c] = half[c]
  PROVE  Buffers(c)'
BY DEF Buffers

LEMMA SafeSame ==
  ASSUME NEW c, Safe(c), lockstep'[c] = lockstep[c], link'[c] # "closed" => link[c] # "closed",
         run' # "down" => run # "down",
         Buffered(c)' = Buffered(c), owed'[c] = owed[c], half'[c] = half[c]
  PROVE  Safe(c)'
BY BuffersSame DEF Safe

LEMMA AppendBehind ==
  ASSUME NEW S, NEW p \in Seq(S), NEW s \in Seq(S), NEW x \in S
  PROVE  p \o Append(s, x) = Append(p \o s, x)
<1> DEFINE u == <<x>>
<1>1. u \in Seq(S) /\ p \o s \in Seq(S)
  BY ConcatProperties
<1>2. Append(s, x) = s \o u /\ Append(p \o s, x) = (p \o s) \o u
  BY <1>1, AppendIsConcat
<1> HIDE DEF u
<1>3. (p \o s) \o u = p \o (s \o u)
  BY <1>1, ConcatAssociative
<1>. QED BY <1>2, <1>3

LEMMA AppendTwo ==
  ASSUME NEW a, NEW b
  PROVE  Append(<<a>>, b) = <<a, b>>
<1> DEFINE s == <<a>>
           t == <<a, b>>
<1>1. s \in Seq({a, b}) /\ Len(s) = 1 /\ s[1] = a
  OBVIOUS
<1>2. t \in Seq({a, b}) /\ Len(t) = 2 /\ t[1] = a /\ t[2] = b
  OBVIOUS
<1> HIDE DEF s, t
<1>3. /\ Append(s, b) \in Seq({a, b}) /\ Len(Append(s, b)) = 2
      /\ Append(s, b)[1] = a /\ Append(s, b)[2] = b
  <2> DEFINE S == {a, b}
             u == Append(s, b)
  <2>1. s \in Seq(S) /\ b \in S
    BY <1>1
  <2> HIDE DEF S
  <2>2. /\ u \in Seq(S) /\ Len(u) = Len(s) + 1 /\ u[Len(s) + 1] = b
        /\ \A i \in 1 .. Len(s) : u[i] = s[i]
    BY <2>1, AppendProperties
  <2> HIDE DEF u
  <2>. QED BY <1>1, <2>2 DEF S, u
<1>4. \A i \in 1 .. Len(t) : Append(s, b)[i] = t[i]
  BY <1>2, <1>3
<1>5. Append(s, b) = t
  BY <1>2, <1>3, <1>4, SeqEqual
<1>. QED BY <1>5 DEF s, t

\* A fragment arrives behind what is buffered of its connection.
LEMMA PutBuffered ==
  ASSUME FrameTypes, NEW c \in Conns, NEW part \in {"whole", "head", "tail"},
         NEW line \in Lines, Put(c, part, line)
  PROVE  /\ Buffered(c)' = Append(Buffered(c), Part(part, line))
         /\ \A d \in Conns : d # c => Buffered(d)' = Buffered(d)
<1>1. Part(part, line) \in Fragment
  BY DEF Part, Fragment
<1> DEFINE x == Part(part, line)
<1>2. /\ inbox' = [inbox EXCEPT ![c] = Append(@, x)]
      /\ reading' = reading /\ fds' = fds
  BY DEF Put, Part, server
<1> HIDE DEF x
<1>3. \A d \in Conns : Held(d)' = Held(d)
  BY <1>2 DEF Held
<1>4. \A d \in Conns : Buffered(d)' = Held(d)' \o inbox'[d]
  BY DEF Buffered, Held
<1>5. ASSUME NEW d \in Conns, d # c PROVE Buffered(d)' = Buffered(d)
  <2>1. inbox'[d] = inbox[d]
    BY <1>2, <1>5 DEF FrameTypes
  <2>. QED BY <1>3, <1>4, <2>1, BufferedFacts
<1>6. Buffered(c)' = Append(Buffered(c), x)
  <2>1. inbox'[c] = Append(inbox[c], x)
    BY <1>2 DEF FrameTypes
  <2>2. Held(c) \in Seq(Fragment) /\ inbox[c] \in Seq(Fragment) /\ x \in Fragment
    BY <1>1, BufferedFacts DEF x
  <2>3. Held(c) \o Append(inbox[c], x) = Append(Held(c) \o inbox[c], x)
    BY <2>2, AppendBehind
  <2>. QED BY <1>3, <1>4, <2>1, <2>3, BufferedFacts
<1>. QED BY <1>5, <1>6 DEF x

\* A client that has always waited for its replies and sends a line, or its
\* head, has nothing else buffered; a tail follows its head.
LEMMA ClientFrames == ASSUME SessionsInv, FrameInv, Client PROVE FrameInv'
<1>0. FrameTypes
  BY DEF SessionsInv
<1>1. PICK c \in Conns :
        \/ Connect(c) \/ SendTail(c) \/ Leave(c)
        \/ \E line \in Lines : SendLine(c, line) \/ SendHead(c, line)
  BY DEF Client
<1>2. CASE Connect(c) \/ Leave(c)
  <2>1. /\ UNCHANGED <<inbox, reading, fds, owed, half, lockstep, run, mangled>>
        /\ \/ link' = link
           \/ link' = [link EXCEPT ![c] = "backlog"] /\ link[c] = "new"
    BY <1>2 DEF Connect, Leave, client, server
  <2>2. \A d \in Conns : link'[d] # "closed" => link[d] # "closed"
    BY <2>1 DEF SessionsInv, ConnInv, ConnTypes
  <2>3. \A d \in Conns : Buffered(d)' = Buffered(d)
    BY <2>1 DEF Buffered
  <2>4. ASSUME NEW d \in Conns PROVE Safe(d)'
    BY <2>1, <2>2, <2>3, SafeSame DEF FrameInv
  <2>. QED BY <2>1, <2>4 DEF FrameInv
<1>3. CASE SendTail(c)
  <2>1. /\ half[c] # NoLine /\ Put(c, "tail", half[c])
        /\ half' = [half EXCEPT ![c] = NoLine] /\ UNCHANGED <<owed, lockstep>>
        /\ UNCHANGED <<link, run, mangled>> /\ link[c] \in {"backlog", "open"} /\ run # "down"
    BY <1>3 DEF SendTail, Put, server
  <2>2. half[c] \in Lines /\ half'[c] = NoLine /\ \A d \in Conns : d # c => half'[d] = half[d]
    BY <1>0, <2>1 DEF FrameTypes
  <2>3. /\ Buffered(c)' = Append(Buffered(c), Part("tail", half[c]))
        /\ \A d \in Conns : d # c => Buffered(d)' = Buffered(d)
    BY <1>0, <2>1, <2>2, PutBuffered
  <2>4. ASSUME NEW d \in Conns, d # c PROVE Safe(d)'
    BY <2>1, <2>2, <2>3, <2>4, SafeSame DEF FrameInv
  <2>5. ASSUME lockstep'[c] PROVE Buffers(c)'
    <3>1. Buffers(c)
      BY <2>1, <2>5 DEF FrameInv, Safe
    <3>2. owed[c] \in Lines /\ half[c] = owed[c] /\ Buffered(c) = <<Part("head", owed[c])>>
      BY <2>1, <3>1 DEF Buffers
    <3>3. Buffered(c)' = <<Part("head", owed[c]), Part("tail", owed[c])>>
      <4> DEFINE h == Part("head", owed[c])
                 t == Part("tail", owed[c])
      <4>1. Buffered(c)' = Append(Buffered(c), t) /\ Buffered(c) = <<h>>
        BY <2>3, <3>2
      <4> HIDE DEF h, t
      <4>2. Append(<<h>>, t) = <<h, t>>
        BY AppendTwo
      <4>3. Buffered(c)' = <<h, t>>
        BY <4>1, <4>2
      <4>. QED BY <4>3 DEF h, t
    <3>. QED BY <2>1, <2>2, <3>2, <3>3 DEF Buffers
  <2>. QED BY <2>1, <2>4, <2>5 DEF FrameInv, Safe
<1>4. ASSUME NEW line \in Lines, Ask(c, line), NEW part \in {"whole", "head"},
             Put(c, part, line),
             \/ part = "whole" /\ half' = half
             \/ part = "head" /\ half' = [half EXCEPT ![c] = line]
      PROVE  FrameInv'
  <2>1. /\ half[c] = NoLine /\ owed' = [owed EXCEPT ![c] = line]
        /\ lockstep' = [lockstep EXCEPT ![c] = @ /\ owed[c] = NoLine]
        /\ UNCHANGED <<link, run, mangled>> /\ link[c] \in {"backlog", "open"} /\ run # "down"
    BY <1>4 DEF Ask, Put, server
  <2>2. /\ owed'[c] = line /\ (lockstep'[c] <=> lockstep[c] /\ owed[c] = NoLine)
        /\ half'[c] = IF part = "whole" THEN NoLine ELSE line
        /\ \A d \in Conns : d # c =>
             owed'[d] = owed[d] /\ lockstep'[d] = lockstep[d] /\ half'[d] = half[d]
    BY <1>0, <1>4, <2>1 DEF FrameTypes
  <2>3. /\ Buffered(c)' = Append(Buffered(c), Part(part, line))
        /\ \A d \in Conns : d # c => Buffered(d)' = Buffered(d)
    BY <1>0, <1>4, PutBuffered
  <2>4. ASSUME NEW d \in Conns, d # c PROVE Safe(d)'
    BY <2>1, <2>2, <2>3, <2>4, SafeSame DEF FrameInv
  <2>5. ASSUME lockstep'[c] PROVE Buffers(c)'
    <3>1. Buffers(c) /\ owed[c] = NoLine
      BY <2>1, <2>2, <2>5 DEF FrameInv, Safe
    <3>2. Buffered(c) = <<>>
      BY <3>1, LineFacts DEF Buffers
    <3>3. Buffered(c)' = <<Part(part, line)>>
      BY <2>3, <3>2
    <3>. QED BY <1>4, <2>2, <3>3 DEF Buffers
  <2>. QED BY <2>1, <2>4, <2>5 DEF FrameInv, Safe
<1>5. ASSUME NEW line \in Lines, SendLine(c, line) \/ SendHead(c, line) PROVE FrameInv'
  BY <1>4, <1>5 DEF SendLine, SendHead
<1>. QED BY <1>1, <1>2, <1>3, <1>5

\* Connections that are closed promise nothing; what the others hold is left.
LEMMA ForgetFrames ==
  ASSUME SessionsInv, FrameInv, NEW C, Forget(C), mangled' = mangled, run # "down",
         \A d \in Conns : d \notin C => Buffered(d)' = Buffered(d)
  PROVE  FrameInv'
<1>1. ASSUME NEW d \in Conns PROVE Safe(d)'
  <2>1. CASE d \in C
    BY <2>1 DEF Forget, Safe
  <2>2. CASE d \notin C
    <3>1. /\ link'[d] = link[d] /\ owed'[d] = owed[d] /\ half'[d] = half[d]
          /\ lockstep'[d] = lockstep[d]
      BY <2>2 DEF Forget, SessionsInv, FrameTypes
    <3>. QED BY <2>2, <3>1, SafeSame DEF FrameInv
  <2>. QED BY <2>1, <2>2
<1>. QED BY <1>1 DEF FrameInv

\* receive_data handles the line that is owed an answer, holds its head, or
\* removes the client.
LEMMA ReceiveFrames == ASSUME SessionsInv, FrameInv, receive_data, FrameTypes' PROVE FrameInv'
<1>0. ConnInv /\ FrameTypes
  BY DEF SessionsInv
<1>1. PICK fd \in DOMAIN fds, buffer \in {<<>>, reading.buffer} :
        /\ Reads(fd, buffer)
        /\ LET c     == fds[fd]
               bytes == Filled(buffer, inbox[c])
           IN  \/ /\ HasLine(bytes)
                  /\ inbox' = [inbox EXCEPT ![c] = <<>>]
                  /\ reading' = NoRead
                  /\ Dispatch(c, fd, FirstLine(bytes))
                  /\ mangled' = (mangled \/ (lockstep[c] /\ FirstLine(bytes) # owed[c]))
                  /\ UNCHANGED <<link, half, lockstep, fds>>
               \/ /\ inbox' = [inbox EXCEPT ![c] = <<>>]
                  /\ reading' = [fd |-> fd, buffer |-> bytes]
                  /\ UNCHANGED <<link, owed, half, lockstep, mangled, fds, run>>
               \/ Drop(fd)
  BY DEF receive_data, client
<1>2. PICK c \in Conns : c = fds[fd]
  BY <1>0, <1>1, ReadBuffered
<1>3. /\ link[c] = "open" /\ run # "down" /\ Filled(buffer, inbox[c]) = Buffered(c)
      /\ \A d \in Conns : d # c => Buffered(d) = inbox[d]
  BY <1>0, <1>1, <1>2, ReadBuffered
<1> DEFINE bytes == Filled(buffer, inbox[c])
           line  == FirstLine(bytes)
<1>4. ASSUME HasLine(bytes), inbox' = [inbox EXCEPT ![c] = <<>>], reading' = NoRead,
             Dispatch(c, fd, line),
             mangled' = (mangled \/ (lockstep[c] /\ line # owed[c])),
             UNCHANGED <<link, half, lockstep, fds>>
      PROVE  FrameInv'
  <2>1. ASSUME NEW d \in Conns PROVE Buffered(d)' = inbox'[d]
    <3>1. Held(d)' = <<>>
      BY <1>4 DEF Held
    <3>. QED BY <3>1, BufferedAfter
  <2>2. inbox'[c] = <<>> /\ \A d \in Conns : d # c => inbox'[d] = inbox[d]
    BY <1>0, <1>4 DEF FrameTypes
  <2> HIDE DEF bytes, line
  <2>3. owed' = [owed EXCEPT ![c] = NoLine] \/ owed' = [owed EXCEPT ![c] = Lost]
    BY <1>4 DEF Dispatch, Starve, Authenticate, Reply
  <2>4. owed'[c] \in {NoLine, Lost} /\ \A d \in Conns : d # c => owed'[d] = owed[d]
    BY <1>0, <2>3 DEF FrameTypes
  <2>5. ASSUME lockstep[c] PROVE half[c] = NoLine /\ line = owed[c]
    <3>1. Buffers(c) /\ HasLine(Buffered(c)) /\ line = FirstLine(Buffered(c))
      BY <1>3, <1>4, <2>5 DEF FrameInv, Safe, bytes, line
    <3>. QED BY <3>1, BuffersLine
  <2>6. Safe(c)'
    <3>1. ASSUME lockstep'[c] PROVE Buffers(c)'
      <4>1. half'[c] = NoLine /\ Buffered(c)' = <<>>
        BY <1>4, <2>1, <2>2, <2>5, <3>1
      <4>. QED BY <2>4, <4>1 DEF Buffers
    <3>. QED BY <3>1 DEF Safe
  <2>7. ASSUME NEW d \in Conns, d # c PROVE Safe(d)'
    <3>1. Buffered(d)' = Buffered(d)
      BY <1>3, <2>1, <2>2, <2>7
    <3>. QED BY <1>3, <1>4, <2>4, <2>7, <3>1, SafeSame DEF FrameInv
  <2>8. ~mangled'
    BY <1>4, <2>5 DEF FrameInv
  <2>. QED BY <2>6, <2>7, <2>8 DEF FrameInv
<1>5. ASSUME inbox' = [inbox EXCEPT ![c] = <<>>], reading' = [fd |-> fd, buffer |-> bytes],
             UNCHANGED <<link, owed, half, lockstep, mangled, fds, run>>
      PROVE  FrameInv'
  <2>1. inbox'[c] = <<>> /\ \A d \in Conns : d # c => inbox'[d] = inbox[d]
    BY <1>0, <1>5 DEF FrameTypes
  <2>2. bytes = Buffered(c) /\ bytes \in Seq(Fragment)
    BY <1>0, <1>3, BufferedFacts
  <2> HIDE DEF bytes
  <2>3. reading' # NoRead /\ fds'[reading'.fd] = c /\ reading'.buffer = bytes
    <3>1. fd \in Nat /\ fd # 0
      BY <1>0, SessionsAssumption DEF ConnInv, ConnTypes, Conns
    <3>2. reading'.fd = fd /\ reading'.buffer = bytes /\ NoRead.fd = 0
      BY <1>5 DEF NoRead
    <3>. QED BY <1>2, <1>5, <3>1, <3>2
  <2>4. Buffered(c)' = Buffered(c)
    <3>1. Buffered(c)' = bytes \o <<>>
      BY <2>1, <2>3 DEF Buffered
    <3>. QED BY <2>2, <3>1, ConcatEmptySeq
  <2>5. ASSUME NEW d \in Conns, d # c PROVE Buffered(d)' = Buffered(d)
    <3>1. Held(d)' = <<>>
      BY <2>3, <2>5 DEF Held
    <3>. QED BY <1>3, <2>1, <2>5, <3>1, BufferedAfter
  <2>6. ASSUME NEW d \in Conns PROVE Safe(d)'
    BY <1>5, <2>4, <2>5, SafeSame DEF FrameInv
  <2>. QED BY <1>5, <2>6 DEF FrameInv
<1>6. CASE Drop(fd)
  <2>1. Forget({c}) /\ reading' = NoRead /\ mangled' = mangled
    BY <1>2, <1>6 DEF Drop
  <2>2. ASSUME NEW d \in Conns, d \notin {c} PROVE Buffered(d)' = Buffered(d)
    <3>1. Held(d)' = <<>> /\ inbox'[d] = inbox[d]
      BY <2>1, <2>2 DEF Held, Forget
    <3>. QED BY <1>3, <2>2, <3>1, BufferedAfter
  <2>. QED BY <1>3, <2>1, <2>2, ForgetFrames
<1>. QED BY <1>1, <1>2, <1>4, <1>5, <1>6

LEMMA LoopFrames == ASSUME SessionsInv, FrameInv, Loop, FrameTypes' PROVE FrameInv'
<1>0. FrameTypes
  BY DEF SessionsInv
<1>1. CASE Wait \/ HandleSignal \/ AcceptFails
  <2>1. UNCHANGED <<link, inbox, reading, fds, owed, half, lockstep, mangled>> /\ run # "down"
    BY <1>1 DEF Wait, HandleSignal, AcceptFails, Handling, client
  <2>2. \A d \in Conns : Buffered(d)' = Buffered(d)
    BY <2>1 DEF Buffered
  <2>3. ASSUME NEW d \in Conns PROVE Safe(d)'
    BY <2>1, <2>2, SafeSame DEF FrameInv
  <2>. QED BY <2>1, <2>3 DEF FrameInv
<1>2. CASE Accept
  <2>1. reading = NoRead /\ reading' = NoRead /\ mangled' = mangled /\ run' = run
        /\ run # "down" /\ ServerEvent \in batch
    BY <1>2 DEF Accept, Handling
  <2>2. PICK c \in Conns : c = Head(backlog) /\ link[c] = "backlog"
    BY <2>1, BacklogTail DEF SessionsInv, ConnInv, ServerEventReady
  <2>3. \A d \in Conns : inbox'[d] = inbox[d] => Buffered(d)' = Buffered(d)
    BY <2>1 DEF Buffered
  <2>4. CASE link' = [link EXCEPT ![c] = "open"] /\ UNCHANGED <<inbox, owed, half, lockstep>>
    <3>1. \A d \in Conns : link'[d] # "closed" => link[d] # "closed"
      BY <2>2, <2>4 DEF SessionsInv, ConnInv, ConnTypes
    <3>2. ASSUME NEW d \in Conns PROVE Safe(d)'
      BY <2>1, <2>3, <2>4, <3>1, SafeSame DEF FrameInv
    <3>. QED BY <2>1, <3>2 DEF FrameInv
  <2>5. CASE Forget({c})
    <3>1. \A d \in Conns : d \notin {c} => Buffered(d)' = Buffered(d)
      BY <2>3, <2>5 DEF Forget
    <3>. QED BY <2>1, <2>5, <3>1, ForgetFrames
  <2>. QED BY <1>2, <2>2, <2>4, <2>5 DEF Accept
<1>3. CASE Shutdown
  BY <1>3 DEF Shutdown, FrameInv, Safe
<1>. QED BY <1>1, <1>2, <1>3, ReceiveFrames DEF Loop

\* The inductive invariant of the framing, on top of the sessions'.
THEOREM FrameInvariance == SessionsSpec => [](SessionsInv /\ FrameInv)
<1>1. SessionsInit => FrameInv
  <2> SUFFICES ASSUME SessionsInit PROVE FrameInv
    OBVIOUS
  <2>1. ASSUME NEW c \in Conns PROVE Buffers(c)
    <3>1. owed[c] = NoLine /\ half[c] = NoLine /\ Buffered(c) = <<>> \o <<>>
      BY DEF SessionsInit, Buffered
    <3>2. Buffered(c) = <<>>
      BY <3>1
    <3>. QED BY <3>1, <3>2 DEF Buffers
  <2>. QED BY <2>1 DEF SessionsInit, FrameInv, Safe
<1>2. SessionsInv /\ SessionsInv' /\ FrameInv /\ [SessionsNext]_sessionVars => FrameInv'
  <2>1. ASSUME SessionsInv, SessionsInv', FrameInv, SessionsNext PROVE FrameInv'
    BY <2>1, ClientFrames, LoopFrames DEF SessionsNext, SessionsInv
  <2>2. ASSUME FrameInv, UNCHANGED sessionVars PROVE FrameInv'
    <3>1. UNCHANGED <<link, inbox, reading, fds, owed, half, lockstep, mangled, run>>
      BY <2>2 DEF sessionVars, client, server
    <3>2. \A d \in Conns : Buffered(d)' = Buffered(d)
      BY <3>1 DEF Buffered
    <3>3. ASSUME NEW d \in Conns PROVE Safe(d)'
      BY <2>2, <3>1, <3>2, SafeSame DEF FrameInv
    <3>. QED BY <2>2, <3>1, <3>3 DEF FrameInv
  <2>. QED BY <2>1, <2>2
<1>. QED BY <1>1, <1>2, SessionsInvariance, PTL DEF SessionsSpec

\* The line of a client that waits for each reply is neither lost nor handled
\* as another, although receive_data drops what a read has behind the newline.
THEOREM LockstepTheorem == SessionsSpec => []LockstepLossless
<1>1. FrameInv => LockstepLossless
  <2> SUFFICES ASSUME FrameInv PROVE LockstepLossless
    OBVIOUS
  <2>1. ASSUME NEW c \in Conns, lockstep[c], owed[c] \in Lines, link[c] \in {"backlog", "open"},
               run # "down"
        PROVE  /\ Buffered(c) # <<>> /\ FirstLine(Buffered(c)) = owed[c]
               /\ HasLine(Buffered(c)) <=> half[c] = NoLine
    <3> DEFINE line == owed[c]
    <3>1. Buffers(c)
      BY <2>1 DEF FrameInv, Safe
    <3>2. owed[c] \notin {NoLine, Lost}
      BY <2>1, LineFacts
    <3>3. \/ half[c] = NoLine /\ Buffered(c) = <<Part("whole", line)>>
          \/ half[c] = NoLine /\ Buffered(c) = <<Part("head", line), Part("tail", line)>>
          \/ half[c] # NoLine /\ Buffered(c) = <<Part("head", line)>>
      BY <3>1, <3>2 DEF Buffers
    <3>4. line \in Lines
      BY <2>1
    <3> HIDE DEF line
    <3>5. /\ Buffered(c) # <<>> /\ FirstLine(Buffered(c)) = line
          /\ HasLine(Buffered(c)) <=> half[c] = NoLine
      BY <3>3, <3>4, PartFacts, Zenon
    <3>. QED BY <3>5 DEF line
  <2>. QED BY <2>1 DEF FrameInv, LockstepLossless
<1>. QED BY <1>1, FrameInvariance, PTL
=============================================================================
