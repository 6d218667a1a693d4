------------------------------ MODULE Sessions ------------------------------
(***************************************************************************)
(* Connections and their rights: the event loop of src/main.c, the         *)
(* connection manager (src/connection_manager.c), the framing of requests  *)
(* (src/net.c) and the key commands.                                       *)
(*                                                                         *)
(* A connection is a number; the server knows it only by its descriptor,   *)
(* which the kernel reuses.  Bytes are fragments of lines: a client sends  *)
(* a line whole, or its head and later its tail with the newline.  A tail  *)
(* read without its head parses to an error (a tail that spells a command  *)
(* is that line, sent whole).  Every reply fits the socket's send buffer.  *)
(***************************************************************************)
EXTENDS Auth, FiniteSets, SequencesExt

CONSTANTS
  NumConns,    \* connections made in a behaviour
  MaxLines,    \* lines sent in a behaviour
  MaxClients,  \* config.maxConnections
  FirstKeys,   \* the auth store at the start
  Tokens,      \* tokens that ADD_KEY may generate: as many as it is called
  Lines,       \* requests: records of op and arg
  SplitLines   \* the requests that may arrive in two parts

ASSUME SessionsAssumption ==
  /\ NumConns \in Nat /\ MaxLines \in Nat /\ MaxClients \in Nat \ {0}
  /\ SplitLines \subseteq Lines
  /\ \A line \in Lines : line.op \notin {"none", "lost"}

\* auth_add_key made the keys of the start: they fit the store, their names are
\* distinct, and so are the random tokens, old and new.
ASSUME FirstKeysAssumption ==
  /\ FirstKeys \in Seq({FirstKeys[i] : i \in DOMAIN FirstKeys})
  /\ Len(FirstKeys) <= AUTH_MAX_KEYS
  /\ \A i, j \in DOMAIN FirstKeys :
       FirstKeys[i].name = FirstKeys[j].name \/ FirstKeys[i].token = FirstKeys[j].token
         => i = j
  /\ {FirstKeys[i].token : i \in DOMAIN FirstKeys} \cap Tokens = {}

VARIABLES
  link,     \* of each connection: "new", "backlog", "open" or "closed"
  gone,     \* whether its client has closed its end
  inbox,    \* fragments in its socket
  half,     \* the line whose head the client has sent
  backlog,  \* connections waiting for accept
  fds,      \* the open descriptors and their connections
  slots,    \* the connection manager: clients, client_auth, client_names
  batch,    \* events of epoll_wait not yet handled
  reading,  \* the receive_data in progress
  run,      \* "running", "stopping" or "down"
  keys,     \* g_auth_store
  sent,     \* lines sent so far
  owed,     \* history: the line whose reply the client waits for
  lockstep, \* history: the client has always waited for the reply
  granted,  \* history: what its last accepted AUTH gave to a connection
  issued,   \* history: the tokens given out, and whether they are live
  mangled,  \* history: a client in lockstep had another line handled than it sent
  queries,  \* history: flips when a query is done
  changes   \* history: flips when another command is done

client  == <<half, sent, lockstep, gone, mangled>>
server  == <<fds, slots, batch, run>>
session == <<keys, granted, issued, queries, changes>>
sessionVars == <<link, inbox, backlog, reading, owed, client, server, session>>

Conns   == 1 .. NumConns
NoLine  == [op |-> "none", arg |-> "none"]
Lost    == [op |-> "lost", arg |-> "none"]
Garbled == [op |-> "ERROR", arg |-> "garbled"]
NoRead  == [fd |-> 0, buffer |-> <<>>]

ServerEvent == [fd |-> -1, conn |-> 0]
SignalEvent == [fd |-> -2, conn |-> 0]

SessionsInit ==
  /\ link = [c \in Conns |-> "new"] /\ gone = [c \in Conns |-> FALSE]
  /\ inbox = [c \in Conns |-> <<>>] /\ half = [c \in Conns |-> NoLine]
  /\ backlog = <<>> /\ fds = [fd \in {} |-> 0] /\ slots = <<>>
  /\ batch = {} /\ reading = NoRead /\ run = "running"
  /\ keys = FirstKeys /\ sent = 0
  /\ owed = [c \in Conns |-> NoLine] /\ lockstep = [c \in Conns |-> TRUE]
  /\ granted = [c \in Conns |-> NoGrant]
  /\ issued = [t \in {FirstKeys[i].token : i \in DOMAIN FirstKeys} |->
                 LET key == FirstKeys[CHOOSE i \in DOMAIN FirstKeys : FirstKeys[i].token = t]
                 IN  [name |-> key.name, role |-> key.role, live |-> TRUE]]
  /\ queries = FALSE /\ changes = FALSE /\ mangled = FALSE

-----------------------------------------------------------------------------
(* The connection manager *)

Slot(fd, grant) == [fd |-> fd, level |-> grant.level, name |-> grant.name]

is_client(ss, fd) == \E i \in DOMAIN ss : ss[i].fd = fd

SlotOf(ss, fd) == CHOOSE i \in DOMAIN ss : ss[i].fd = fd

\* A mutant: the capacity test is off by one.
add_client_OffByOne(ss, fd) ==
  IF Len(ss) > MaxClients THEN ss ELSE Append(ss, Slot(fd, NoGrant))

\* The slots, unchanged when they are all taken.
add_client(ss, fd) ==
  IF Len(ss) >= MaxClients THEN ss ELSE Append(ss, Slot(fd, NoGrant))

\* A mutant: the descriptors move up and the levels and names stay.
remove_client_LevelsStay(ss, fd) ==
  IF ~is_client(ss, fd) THEN ss
  ELSE [i \in 1 .. Len(ss) - 1 |->
          [ss[i] EXCEPT !.fd = RemoveAt(ss, SlotOf(ss, fd))[i].fd]]

remove_client(ss, fd) ==
  IF is_client(ss, fd) THEN RemoveAt(ss, SlotOf(ss, fd)) ELSE ss

get_client_auth(ss, fd) ==
  IF is_client(ss, fd) THEN ss[SlotOf(ss, fd)].level ELSE "NONE"

\* set_client_auth and set_client_name.
set_client_auth(ss, fd, grant) ==
  IF is_client(ss, fd) THEN [ss EXCEPT ![SlotOf(ss, fd)] = Slot(fd, grant)] ELSE ss

-----------------------------------------------------------------------------
(* Clients *)

Connect(c) ==
  /\ run # "down" /\ link[c] = "new"
  /\ \A d \in 1 .. c - 1 : link[d] # "new"
  /\ link' = [link EXCEPT ![c] = "backlog"]
  /\ backlog' = Append(backlog, c)
  /\ UNCHANGED <<inbox, reading, owed, client, server, session>>

\* A fragment reaches the socket; the client owes itself to wait for the reply
\* to its last line.
Put(c, part, line) ==
  /\ run # "down" /\ link[c] \in {"backlog", "open"} /\ ~gone[c]
  /\ inbox' = [inbox EXCEPT ![c] = Append(@, [part |-> part, line |-> line])]
  /\ UNCHANGED <<link, backlog, reading, gone, mangled, server, session>>

Ask(c, line) ==
  /\ half[c] = NoLine /\ sent < MaxLines
  /\ sent' = sent + 1
  /\ owed' = [owed EXCEPT ![c] = line]
  /\ lockstep' = [lockstep EXCEPT ![c] = @ /\ owed[c] = NoLine]

SendLine(c, line) == Ask(c, line) /\ Put(c, "whole", line) /\ UNCHANGED half

SendHead(c, line) ==
  /\ line \in SplitLines
  /\ Ask(c, line) /\ Put(c, "head", line)
  /\ half' = [half EXCEPT ![c] = line]

SendTail(c) ==
  /\ half[c] # NoLine
  /\ Put(c, "tail", half[c])
  /\ half' = [half EXCEPT ![c] = NoLine]
  /\ UNCHANGED <<sent, owed, lockstep>>

Leave(c) ==
  /\ run # "down" /\ link[c] \in {"backlog", "open"} /\ ~gone[c]
  /\ gone' = [gone EXCEPT ![c] = TRUE]
  /\ UNCHANGED <<link, inbox, backlog, reading, owed, half, sent, lockstep, mangled, server, session>>

-----------------------------------------------------------------------------
(* The event loop *)

\* A mutant: new connections are served before all others.
Ready_ServerFirst ==
  IF backlog # <<>> THEN {ServerEvent}
  ELSE {[fd |-> fd, conn |-> fds[fd]] :
          fd \in {d \in DOMAIN fds : inbox[fds[d]] # <<>> \/ gone[fds[d]]}}

\* A socket is readable when it holds bytes or its client has left.
Ready ==
  {[fd |-> fd, conn |-> fds[fd]] :
     fd \in {d \in DOMAIN fds : inbox[fds[d]] # <<>> \/ gone[fds[d]]}}
  \cup {e \in {ServerEvent} : backlog # <<>>}

\* epoll_wait reports every ready descriptor: events has room for all of them.
\* When the time is up and none is ready, nothing happens.
Wait ==
  /\ run = "running" /\ batch = {} /\ reading = NoRead
  /\ \E signals \in SUBSET {SignalEvent} : batch' = Ready \cup signals
  /\ UNCHANGED <<link, inbox, backlog, reading, owed, client, fds, slots, run, session>>

Handling(e) == run # "down" /\ reading = NoRead /\ e \in batch /\ batch' = batch \ {e}

HandleSignal ==
  /\ Handling(SignalEvent)
  /\ run' = "stopping"
  /\ UNCHANGED <<link, inbox, backlog, reading, owed, client, fds, slots, session>>

\* What is left of the connections in C once they are closed.
Forget(C) ==
  /\ link' = [c \in Conns |-> IF c \in C THEN "closed" ELSE link[c]]
  /\ inbox' = [c \in Conns |-> IF c \in C THEN <<>> ELSE inbox[c]]
  /\ half' = [c \in Conns |-> IF c \in C THEN NoLine ELSE half[c]]
  /\ owed' = [c \in Conns |-> IF c \in C THEN NoLine ELSE owed[c]]
  /\ lockstep' = [c \in Conns |-> lockstep[c] \/ c \in C]
  /\ gone' = [c \in Conns |-> gone[c] /\ c \notin C]
  /\ granted' = [c \in Conns |-> IF c \in C THEN NoGrant ELSE granted[c]]

\* The kernel hands out the lowest descriptor that is free.
FreeFd == CHOOSE fd \in 1 .. NumConns :
            fd \notin DOMAIN fds /\ \A d \in 1 .. fd - 1 : d \in DOMAIN fds

\* A mutant: at capacity the oldest client makes room.
Accept_Evicts ==
  /\ Handling(ServerEvent)
  /\ LET c    == Head(backlog)
         full == Len(slots) >= MaxClients
         out  == IF full THEN {slots[1].fd} ELSE {}
         kept == IF full THEN Tail(slots) ELSE slots
     IN  /\ slots' = add_client(kept, FreeFd)
         /\ fds' = FreeFd :> c @@ [fd \in DOMAIN fds \ out |-> fds[fd]]
         /\ link' = [d \in Conns |-> IF d = c THEN "open"
                                     ELSE IF d \in {fds[fd] : fd \in out} THEN "closed"
                                     ELSE link[d]]
         /\ backlog' = Tail(backlog)
         /\ UNCHANGED <<inbox, reading, owed, client, run, session>>

\* A mutant: a connection that finds no slot is not closed.
Accept_Leaks ==
  /\ Handling(ServerEvent)
  /\ LET c == Head(backlog)
     IN  /\ slots' = add_client(slots, FreeFd)
         /\ fds' = FreeFd :> c @@ fds
         /\ link' = [link EXCEPT ![c] = "open"]
         /\ backlog' = Tail(backlog)
         /\ UNCHANGED <<inbox, reading, owed, client, run, session>>

\* A connection that finds no slot, or that epoll_ctl refuses, is closed.
Accept ==
  /\ Handling(ServerEvent)
  /\ LET c == Head(backlog)
     IN  /\ \/ /\ slots' = add_client(slots, FreeFd)
               /\ slots' # slots
               /\ fds' = [fd \in DOMAIN fds \cup {FreeFd} |->
                            IF fd = FreeFd THEN c ELSE fds[fd]]
               /\ link' = [link EXCEPT ![c] = "open"]
               /\ UNCHANGED <<inbox, owed, half, lockstep, gone, granted>>
            \/ Forget({c}) /\ UNCHANGED <<slots, fds>>
         /\ backlog' = Tail(backlog)
  /\ UNCHANGED <<reading, sent, mangled, run, keys, issued, queries, changes>>

\* accept returns -1.
AcceptFails ==
  /\ Handling(ServerEvent)
  /\ UNCHANGED <<link, inbox, backlog, reading, owed, client, fds, slots, run, session>>

\* The caller of remove_client closes nothing but this descriptor.
Drop(fd) ==
  /\ slots' = remove_client(slots, fd)
  /\ fds' = [d \in DOMAIN fds \ {fd} |-> fds[d]]
  /\ Forget({fds[fd]})
  /\ reading' = NoRead
  /\ UNCHANGED <<backlog, sent, mangled, run, keys, issued, queries, changes>>

\* main ends: close_all_clients, and the process with its listening socket.
Shutdown ==
  /\ run = "stopping" /\ batch = {} /\ reading = NoRead
  /\ run' = "down"
  /\ slots' = <<>> /\ fds' = [fd \in {} |-> 0]
  /\ Forget({c \in Conns : link[c] # "new"})
  /\ backlog' = <<>>
  /\ UNCHANGED <<reading, sent, mangled, batch, keys, issued, queries, changes>>

-----------------------------------------------------------------------------
(* Requests *)

ReadOps == {"GET", "GET_ALL", "SEARCH", "COUNT", "WHOAMI"}

\* A mutant: a level above NONE is enough for DEL_KEY.
Permitted_DelKey(level, op) ==
  level = "ADMIN" \/ (level = "READONLY" /\ op \in ReadOps \cup {"DEL_KEY"})

Permitted(level, op) ==
  level = "ADMIN" \/ (level = "READONLY" /\ op \in ReadOps)

\* SIGPIPE may end the process when the client has left.
Reply(c) ==
  /\ owed' = [owed EXCEPT ![c] = NoLine]
  /\ run' \in {run} \cup {r \in {"down"} : gone[c]}

\* No memory for the command or for its result: nothing is done or sent.
Starve(c) ==
  /\ owed' = [owed EXCEPT ![c] = Lost]
  /\ UNCHANGED <<slots, run, session>>

Authenticate(c, fd, line) ==
  LET grant == auth_verify_ex(keys, line.arg)
      known == grant # NoGrant
  IN  /\ slots' = IF known THEN set_client_auth(slots, fd, grant) ELSE slots
      /\ granted' = IF known THEN [granted EXCEPT ![c] = grant] ELSE granted
      /\ Reply(c)
      /\ UNCHANGED <<keys, issued, queries, changes>>

\* ADD_KEY makes a new token for a name and a role.
AddKey(line) ==
  \E token \in Tokens \ DOMAIN issued, hashed \in BOOLEAN :
    LET name  == line.arg.name
        role  == line.arg.role
        added == auth_add_key(keys, [name |-> name, role |-> role, token |-> token], hashed)
    IN  /\ keys' = added.keys
        /\ issued' = IF added.rc # 0 THEN issued
                     ELSE [t \in DOMAIN issued \cup {token} |->
                             IF t = token THEN [name |-> name, role |-> role, live |-> TRUE]
                             ELSE issued[t]]

DelKey(line) ==
  /\ keys' = auth_del_key(keys, line.arg).keys
  /\ issued' = [t \in DOMAIN issued |->
                  [issued[t] EXCEPT !.live = @ /\ issued[t].name # line.arg]]

\* The other commands leave the keys alone.
Execute(line) ==
  \/ line.op = "ADD_KEY" /\ AddKey(line)
  \/ line.op = "DEL_KEY" /\ DelKey(line)
  \/ line.op \notin {"ADD_KEY", "DEL_KEY"} /\ UNCHANGED <<keys, issued>>

\* AUTH is always permitted, everything else by the level of the slot.
Dispatch(c, fd, line) ==
  \/ Starve(c)
  \/ /\ line.op = "ERROR"
     /\ Reply(c)
     /\ UNCHANGED <<slots, session>>
  \/ line.op = "AUTH" /\ Authenticate(c, fd, line)
  \/ /\ line.op \notin {"ERROR", "AUTH"}
     /\ ~Permitted(get_client_auth(slots, fd), line.op)
     /\ Reply(c)
     /\ UNCHANGED <<slots, session>>
  \/ /\ line.op \notin {"ERROR", "AUTH"}
     /\ Permitted(get_client_auth(slots, fd), line.op)
     /\ Execute(line) /\ Reply(c)
     /\ queries' = IF line.op \in ReadOps THEN ~queries ELSE queries
     /\ changes' = IF line.op \in ReadOps THEN changes ELSE ~changes
     /\ UNCHANGED <<slots, granted>>

-----------------------------------------------------------------------------
(* Framing *)

HasLine(bytes) == \E i \in DOMAIN bytes : bytes[i].part # "head"

\* What parse_command makes of the bytes before the first newline.
FirstLine(bytes) == IF Head(bytes).part = "tail" THEN Garbled ELSE Head(bytes).line

\* A mutant: every read fills the buffer from its start.
Filled_Overwrites(buffer, bytes) == IF bytes = <<>> THEN buffer ELSE bytes

\* The buffer of receive_data after a read.
Filled(buffer, bytes) == buffer \o bytes

\* The read that a receive_data is about to do: for an event of the batch, or
\* again after a part of a line.
Reads(fd, buffer) ==
  \/ \E e \in batch : e.fd > 0 /\ fd = e.fd /\ buffer = <<>> /\ Handling(e)
  \/ /\ run # "down" /\ reading # NoRead
     /\ fd = reading.fd /\ buffer = reading.buffer
     /\ UNCHANGED batch

\* The line up to the first newline is handled and the rest of the buffer
\* dropped; without a newline the call blocks for more.  At the end of the
\* stream, and when a read fails, memory is short or the request is beyond
\* MAX_RECIEVE_SIZE, which may be at any read, the client is removed.
receive_data ==
  \E fd \in DOMAIN fds, buffer \in {<<>>, reading.buffer} :
    /\ Reads(fd, buffer)
    /\ LET c     == fds[fd]
           bytes == Filled(buffer, inbox[c])
       IN  \/ /\ HasLine(bytes)
              /\ inbox' = [inbox EXCEPT ![c] = <<>>]
              /\ reading' = NoRead
              /\ Dispatch(c, fd, FirstLine(bytes))
              /\ mangled' = (mangled \/ (lockstep[c] /\ FirstLine(bytes) # owed[c]))
              /\ UNCHANGED <<link, backlog, half, sent, lockstep, gone, fds>>
           \/ /\ ~HasLine(bytes) /\ inbox[c] # <<>>
              /\ inbox' = [inbox EXCEPT ![c] = <<>>]
              /\ reading' = [fd |-> fd, buffer |-> bytes]
              /\ UNCHANGED <<link, backlog, owed, client, fds, slots, run, session>>
           \/ (inbox[c] # <<>> \/ gone[c]) /\ Drop(fd)

-----------------------------------------------------------------------------

Client ==
  \E c \in Conns :
    \/ Connect(c) \/ SendTail(c) \/ Leave(c)
    \/ \E line \in Lines : SendLine(c, line) \/ SendHead(c, line)

Loop == Wait \/ HandleSignal \/ Accept \/ AcceptFails \/ receive_data \/ Shutdown

SessionsNext == Client \/ Loop

\* The loop keeps turning; clients owe nothing.
SessionsSpec ==
  SessionsInit /\ [][SessionsNext]_sessionVars /\ WF_sessionVars(Loop)

-----------------------------------------------------------------------------
(* Properties *)

\* The type invariant of the sessions.
SessionsTypeOK ==
  /\ link \in [Conns -> {"new", "backlog", "open", "closed"}]
  /\ DOMAIN fds \subseteq Conns /\ \A fd \in DOMAIN fds : fds[fd] \in Conns
  /\ Len(slots) <= MaxClients /\ Len(keys) <= AUTH_MAX_KEYS
  /\ \A i \in DOMAIN slots : slots[i].level \in {"NONE", "READONLY", "ADMIN"}
  /\ run \in {"running", "stopping", "down"}

\* Every open descriptor has exactly one slot and every slot an open
\* descriptor: clients that come and go leak neither (accept at capacity,
\* remove_client).
SlotsMatchDescriptors ==
  /\ \A i, j \in DOMAIN slots : slots[i].fd = slots[j].fd => i = j
  /\ {slots[i].fd : i \in DOMAIN slots} = DOMAIN fds
  /\ \A c \in Conns : link[c] = "open" <=> \E fd \in DOMAIN fds : fds[fd] = c

\* A level and a name belong to the connection that presented the token, and
\* stay with it when slots shift, when the key is revoked and when its
\* descriptor number had another owner before.
LevelIsOwn ==
  \A i \in DOMAIN slots :
    slots[i].fd \in DOMAIN fds =>
      LET own == granted[fds[slots[i].fd]]
      IN  slots[i].level = own.level /\ slots[i].name = own.name

\* The bytes of a connection that are read or can be read.
Buffered(c) ==
  (IF reading # NoRead /\ fds[reading.fd] = c THEN reading.buffer ELSE <<>>) \o inbox[c]

\* Only a connection that itself presented an admin token, live at that time,
\* has a command done that changes tables or keys or lists the keys; only one
\* that presented some token, a query.
RightsHeld ==
  [][queries' # queries \/ changes' # changes \/ keys' # keys
     => \E c \in Conns :
          /\ Buffered(c) # <<>> /\ Buffered(c)' = <<>>
          /\ granted[c].level # "NONE"
          /\ changes' # changes \/ keys' # keys => granted[c].level = "ADMIN"]_sessionVars

\* A token opens the name and the role it was issued for until its key is
\* deleted, and nothing afterwards, whatever other keys come and go.
TokensHonoured ==
  \A t \in DOMAIN issued :
    auth_verify_ex(keys, t) =
      IF issued[t].live
        THEN [level |-> IF issued[t].role = "admin" THEN "ADMIN" ELSE "READONLY",
              name  |-> issued[t].name]
        ELSE NoGrant

\* An event of the batch still means the connection it was reported for, so
\* that the loop's "unknown event" branch is never taken and no request is
\* read from a connection that took over the descriptor.
EventsFresh ==
  \A e \in batch : e.fd > 0 => e.fd \in DOMAIN fds /\ fds[e.fd] = e.conn

\* A client that waits for each reply before its next line never loses one:
\* until it is answered, what receive_data holds and the socket holds is that
\* line, or its head, and it is that line that is handled (framing drops the
\* rest of a read).
LockstepLossless ==
  /\ ~mangled
  /\ \A c \in Conns :
       lockstep[c] /\ owed[c] \in Lines /\ link[c] \in {"backlog", "open"} /\ run # "down" =>
         /\ Buffered(c) # <<>> /\ FirstLine(Buffered(c)) = owed[c]
         /\ HasLine(Buffered(c)) <=> half[c] = NoLine

Waits(c) == link[c] = "open" /\ lockstep[c] /\ half[c] = NoLine /\ owed[c] \in Lines

\* A complete line of such a client is handled or its connection closed,
\* unless another client has sent a part of a line and holds the loop.
Served ==
  <>[](reading # NoRead) \/ \A c \in Conns : Waits(c) ~> ~Waits(c) \/ run = "down"
=============================================================================
