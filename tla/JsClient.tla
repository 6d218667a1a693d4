------------------------------ MODULE JsClient ------------------------------
(***************************************************************************)
(* The JavaScript client (js-client/src/client.ts, net/connection.ts): the *)
(* request queue with its timers, the socket events, and the loop that     *)
(* repeats a failed request on a new connection.                           *)
(*                                                                         *)
(* One action is one callback of the JavaScript event loop with the        *)
(* promise continuations that follow it.  The server is what net.c and     *)
(* main.c do on a connection: it handles the first line of what it reads   *)
(* and drops the rest, and refuses every command before AUTH.  A reply     *)
(* arrives whole or in two pieces.                                         *)
(***************************************************************************)
EXTENDS Integers, Sequences, SequencesExt

CONSTANTS
  NumRequests,       \* calls of the application after connect()
  reconnectEnabled,  \* options.reconnect.enabled
  maxRetries,        \* options.reconnect.maxRetries
  LongReplies        \* the requests whose reply, a table, may come in two pieces

ASSUME ClientAssumption ==
  /\ NumRequests \in Nat /\ reconnectEnabled \in BOOLEAN /\ maxRetries \in Nat
  /\ LongReplies \subseteq 1 .. NumRequests

VARIABLES
  conn,     \* the PoudbConnection: socket, queue, active, buffer, writes
  socks,    \* the state of every socket; one that is closed is unused again
  failing,  \* the socket whose failure is being reported, or 0
  back,     \* pieces of replies on their way to the client
  phase,    \* of each request: where sendWithReconnect is
  tries,    \* its attempts counter
  dial,     \* the socket it is connecting, or 0
  left,     \* the application has called disconnect()
  authed,   \* the sockets on which the server accepted AUTH
  executed, \* history: how often the server did the request
  slipped,  \* history: a request timed out or its answer was cut
  mixed,    \* history: a request was resolved with another reply than its own
  raced     \* history: two connections were made at once, or one was made
            \* while another waited for its close event

net     == <<back, authed, executed>>
history == <<slipped, mixed, raced>>
jsVars  == <<conn, socks, failing, phase, tries, dial, left, net, history>>

Auth     == 0                        \* the request that connect() makes
Requests == Auth .. NumRequests
Sockets  == 1 .. 1 + (NumRequests + 1) * maxRetries

Attempt(r) == [req |-> r, no |-> tries[r]]
NoAttempt  == [req |-> -1, no |-> 0]

\* A reply comes whole, or in two pieces.
RepliesTo(r) ==
  {<<[req |-> r, piece |-> "all"]>>} \cup
  IF r \in LongReplies THEN {<<[req |-> r, piece |-> "first"], [req |-> r, piece |-> "rest"]>>}
  ELSE {}

JsInit ==
  /\ conn = [socket |-> 0, queue |-> <<>>, active |-> NoAttempt, buffer |-> <<>>,
             writes |-> [s \in Sockets |-> <<>>]]
  /\ socks = [s \in Sockets |-> "unused"] /\ failing = 0
  /\ back = [s \in Sockets |-> <<>>]
  /\ phase = [r \in Requests |-> IF r = Auth THEN "delay" ELSE "new"]
  /\ tries = [r \in Requests |-> 0] /\ dial = [r \in Requests |-> 0]
  /\ left = FALSE
  /\ authed = {} /\ executed = [r \in Requests |-> 0]
  /\ slipped = FALSE /\ mixed = FALSE /\ raced = FALSE

-----------------------------------------------------------------------------
(* PoudbConnection *)

\* A mutant: the request that is written stays in the queue.
processQueue_Peeks(c) ==
  IF c.socket = 0 \/ c.active # NoAttempt \/ c.queue = <<>> THEN c
  ELSE [c EXCEPT !.active = Head(c.queue), !.buffer = <<>>,
                 !.writes[c.socket] = Append(@, Head(c.queue))]

\* A mutant: a request is written while another waits for its reply.
processQueue_Pipelines(c) ==
  IF c.socket = 0 \/ c.queue = <<>> THEN c
  ELSE [c EXCEPT !.active = Head(c.queue), !.queue = Tail(@), !.buffer = <<>>,
                 !.writes[c.socket] = Append(@, Head(c.queue))]

\* The next request becomes active, with its timer, and is written.
processQueue(c) ==
  IF c.socket = 0 \/ c.active # NoAttempt \/ c.queue = <<>> THEN c
  ELSE [c EXCEPT !.active = Head(c.queue), !.queue = Tail(@), !.buffer = <<>>,
                 !.writes[c.socket] = Append(@, Head(c.queue))]

Enqueue(c, a) == processQueue([c EXCEPT !.queue = Append(@, a)])

\* The request that waits leaves active, its timers are cleared.
Deactivate(c) == [c EXCEPT !.active = NoAttempt, !.buffer = <<>>]

\* A mutant: one retry more than maxRetries.
MayRetry_OneMore(r) == reconnectEnabled /\ tries[r] <= maxRetries

MayRetry(r) == reconnectEnabled /\ tries[r] < maxRetries

\* The promises of the attempts in A are rejected, which does nothing to those
\* that are settled; sendWithReconnect waits to try again, or throws.
Reject(A) ==
  LET hit == {r \in Requests : phase[r] = "sent" /\ Attempt(r) \in A}
  IN  /\ phase' = [r \in Requests |-> IF r \notin hit THEN phase[r]
                                      ELSE IF MayRetry(r) THEN "delay" ELSE "failed"]
      /\ tries' = [r \in Requests |-> IF r \in hit /\ MayRetry(r) THEN tries[r] + 1
                                      ELSE tries[r]]

\* connection.send: at once rejected without a socket.
Send(c, r) ==
  IF c.socket = 0
    THEN /\ conn' = c
         /\ phase' = [phase EXCEPT ![r] = IF MayRetry(r) THEN "delay" ELSE "failed"]
         /\ tries' = [tries EXCEPT ![r] = IF MayRetry(r) THEN @ + 1 ELSE @]
    ELSE /\ conn' = Enqueue(c, Attempt(r))
         /\ phase' = [phase EXCEPT ![r] = "sent"]
         /\ UNCHANGED tries

-----------------------------------------------------------------------------
(* The application *)

\* A call of an operation, once connect() has resolved.
Call(r) ==
  /\ failing = 0 /\ phase[r] = "new" /\ phase[Auth] = "done"
  /\ \A q \in 0 .. r - 1 : phase[q] # "new"
  /\ Send(conn, r)
  /\ UNCHANGED <<socks, failing, dial, left, net, history>>

\* disconnect(): end() flushes what is written; the close event comes later.
Disconnect ==
  /\ failing = 0 /\ ~left /\ phase[Auth] = "done"
  /\ left' = TRUE
  /\ conn' = [conn EXCEPT !.socket = 0]
  /\ socks' = IF conn.socket = 0 THEN socks ELSE [socks EXCEPT ![conn.socket] = "ending"]
  /\ UNCHANGED <<failing, phase, tries, dial, net, history>>

-----------------------------------------------------------------------------
(* Connecting *)

\* A mutant: connect() makes a socket also when there is one.
connect_Always(r) ==
  /\ failing = 0 /\ phase[r] = "delay"
  /\ LET s == CHOOSE s \in Sockets : socks[s] = "unused"
     IN  /\ socks' = [socks EXCEPT ![s] = "connecting"]
         /\ dial' = [dial EXCEPT ![r] = s]
  /\ raced' = (raced \/ \E s \in Sockets : socks[s] \in {"connecting", "ending"})
  /\ phase' = [phase EXCEPT ![r] = "connect"]
  /\ UNCHANGED <<conn, failing, tries, left, net, slipped, mixed>>

\* The delay is over: connect() returns at once when connected, and otherwise
\* makes a socket; nothing keeps two requests from connecting at once.
connect(r) ==
  /\ failing = 0 /\ phase[r] = "delay"
  /\ \/ /\ conn.socket # 0
        /\ Send(conn, r)
        /\ UNCHANGED <<socks, dial, raced>>
     \/ /\ conn.socket = 0
        /\ LET s == CHOOSE s \in Sockets : socks[s] = "unused"
           IN  /\ socks' = [socks EXCEPT ![s] = "connecting"]
               /\ dial' = [dial EXCEPT ![r] = s]
        /\ raced' = (raced \/ \E s \in Sockets : socks[s] \in {"connecting", "ending"})
        /\ phase' = [phase EXCEPT ![r] = "connect"]
        /\ UNCHANGED <<conn, tries>>
  /\ UNCHANGED <<failing, left, net, slipped, mixed>>

\* The socket replaces the current one, if any; the request is sent.  The
\* AUTH of connect() is sent on the first connection only.
Connected(r) ==
  /\ failing = 0 /\ phase[r] = "connect"
  /\ socks' = [socks EXCEPT ![dial[r]] = "open"]
  /\ dial' = [dial EXCEPT ![r] = 0]
  /\ Send([conn EXCEPT !.socket = dial[r]], r)
  /\ UNCHANGED <<failing, left, net, history>>

\* The error of connect() leaves sendWithReconnect.
ConnectFails(r) ==
  /\ failing = 0 /\ phase[r] = "connect"
  /\ socks' = [socks EXCEPT ![dial[r]] = "unused"]
  /\ dial' = [dial EXCEPT ![r] = 0]
  /\ phase' = [phase EXCEPT ![r] = "failed"]
  /\ UNCHANGED <<conn, failing, tries, left, net, history>>

-----------------------------------------------------------------------------
(* Socket events and timers *)

\* "data": a chunk is added to the buffer of the request that is active, and
\* lost when there is none; the settle timer starts again.
Data(s) ==
  /\ failing = 0 /\ socks[s] \in {"open", "ending"} /\ back[s] # <<>>
  /\ back' = [back EXCEPT ![s] = Tail(@)]
  /\ conn' = IF conn.active = NoAttempt THEN conn
             ELSE [conn EXCEPT !.buffer = Append(@, Head(back[s]))]
  /\ UNCHANGED <<socks, failing, phase, tries, dial, left,
                 authed, executed, history>>

\* The settle timer: settleTimeMs without data end the answer.
Settle ==
  /\ failing = 0 /\ conn.active # NoAttempt /\ conn.buffer # <<>>
  /\ phase' = [phase EXCEPT ![conn.active.req] = "done"]
  /\ mixed' = (mixed \/ conn.buffer \notin RepliesTo(conn.active.req))
  /\ conn' = processQueue(Deactivate(conn))
  /\ slipped' = (slipped \/ Last(conn.buffer).piece = "first")
  /\ UNCHANGED <<socks, failing, tries, dial, left, net, raced>>

\* The timeout of the active request; its reply may still come.
Timeout ==
  /\ failing = 0 /\ conn.active # NoAttempt
  /\ Reject({conn.active})
  /\ conn' = processQueue(Deactivate(conn))
  /\ slipped' = TRUE
  /\ UNCHANGED <<socks, failing, dial, left, net, mixed, raced>>

\* The first n writes of the socket are done, their callbacks do nothing.
Written(s, n) == [conn EXCEPT !.writes[s] = SubSeq(@, n + 1, Len(@))]

\* The connection is lost, with what was written and not yet read by the
\* server: the callbacks of the other writes come first, then "error" and
\* "close".
Break(s) ==
  /\ failing = 0 /\ socks[s] = "open"
  /\ failing' = s
  /\ \E n \in 0 .. Len(conn.writes[s]) : conn' = Written(s, n)
  /\ UNCHANGED <<socks, phase, tries, dial, left, net, history>>

\* The server answers the end of the stream with its own, or the connection is
\* lost before it does.
Ended(s) ==
  /\ failing = 0 /\ socks[s] = "ending"
  /\ failing' = s
  /\ \E n \in 0 .. Len(conn.writes[s]) : conn' = Written(s, n)
  /\ UNCHANGED <<socks, phase, tries, dial, left, net, history>>

\* A write callback with an error rejects its own request, and takes whatever
\* request is active out of the way.
WriteError ==
  /\ failing # 0 /\ conn.writes[failing] # <<>>
  /\ LET a      == Head(conn.writes[failing])
         popped == [conn EXCEPT !.writes[failing] = Tail(@)]
     IN  /\ Reject({a})
         /\ conn' = IF conn.active = NoAttempt THEN popped
                    ELSE processQueue(Deactivate(popped))
  /\ UNCHANGED <<socks, failing, dial, left, net, history>>

\* A mutant: requests that wait in the queue are not rejected.
failPending_ActiveOnly(c) == {c.active}

\* The attempts that the close of a socket rejects: all that are pending.
failPending(c) == {c.active} \cup ToSet(c.queue)

\* "close", for this socket or for one that was replaced.
Close ==
  /\ failing # 0 /\ conn.writes[failing] = <<>>
  /\ Reject(failPending(conn))
  /\ conn' = [Deactivate(conn) EXCEPT !.socket = 0, !.queue = <<>>]
  /\ socks' = [socks EXCEPT ![failing] = "unused"]
  /\ back' = [back EXCEPT ![failing] = <<>>]
  /\ authed' = authed \ {failing}
  /\ failing' = 0
  /\ UNCHANGED <<dial, left, executed, history>>

-----------------------------------------------------------------------------
(* The server *)

\* The server reads one line or several that came together; it handles the
\* first and drops the rest.
Serve(s) ==
  /\ failing = 0 /\ socks[s] \in {"open", "ending"}
  /\ \E n \in 1 .. Len(conn.writes[s]) : conn' = Written(s, n)
  /\ LET r == Head(conn.writes[s]).req
     IN  /\ authed' = IF r = Auth THEN authed \cup {s} ELSE authed
         /\ executed' = IF s \in authed' THEN [executed EXCEPT ![r] = @ + 1] ELSE executed
         /\ \E reply \in RepliesTo(r) : back' = [back EXCEPT ![s] = @ \o reply]
  /\ UNCHANGED <<socks, failing, phase, tries, dial, left, history>>

-----------------------------------------------------------------------------

Application == Disconnect \/ \E r \in Requests : Call(r)

EventLoop ==
  \/ Settle \/ Timeout \/ WriteError \/ Close
  \/ \E r \in Requests : connect(r) \/ Connected(r) \/ ConnectFails(r)

Network == \E s \in Sockets : Data(s) \/ Break(s) \/ Ended(s) \/ Serve(s)

JsNext == Application \/ EventLoop \/ Network

\* Timers fire, connection attempts end, and the callbacks of a socket that
\* was lost or closed are run.  The server and the network owe nothing: no
\* reply, and no answer to the end of the stream.
JsSpec == JsInit /\ [][JsNext]_jsVars /\ WF_jsVars(EventLoop)

-----------------------------------------------------------------------------
(* Properties *)

\* The type invariant of the client.
JsTypeOK ==
  /\ conn.socket \in {0} \cup Sockets /\ failing \in {0} \cup Sockets
  /\ socks \in [Sockets -> {"unused", "connecting", "open", "ending"}]
  /\ phase \in [Requests -> {"new", "delay", "connect", "sent", "done", "failed"}]
  /\ tries \in [Requests -> 0 .. maxRetries]

\* Until a request has timed out, an answer was cut or two connections were
\* made at once, a request is resolved with its own reply and no other.
AnswersMatch == ~slipped /\ ~raced => ~mixed

\* The server does a request at most once for each time sendWithReconnect
\* sent it, whatever was timed out, dropped, rejected or left in a queue.
DoneOncePerTry == \A r \in Requests : executed[r] <= tries[r] + 1

\* Unless two requests reconnect at the same time, or one reconnects while
\* disconnect() waits for the close event, the client has no open
\* socket but the one it uses: what disconnect() finds open, it ends.  A
\* request in the delay before a retry makes a new one afterwards.
NoStraySocket ==
  ~raced => \A s \in Sockets : socks[s] = "open" => s = conn.socket \/ s = failing

\* The promise of a request that nothing will settle: it is neither active nor
\* in the queue.
Forgotten(r) ==
  phase[r] = "sent" /\ Attempt(r) \notin {conn.active} \cup ToSet(conn.queue)

\* A request left in the queue by disconnect(): it has no timer, and is
\* rejected when the socket closes, or sent when another request reconnects.
Stranded(r) ==
  /\ conn.socket = 0 /\ conn.active = NoAttempt
  /\ phase[r] = "sent" /\ Attempt(r) \in ToSet(conn.queue)
  /\ \E s \in Sockets : socks[s] = "ending"

\* Every call ends with an answer or an error (connection.ts), whatever the
\* server does, but for two windows that it may be in for ever.  It was active
\* on one socket when a write on another, that was replaced or was ending,
\* failed: then its timers are gone.  Or it waited behind another request at
\* disconnect(), and the server never answers the end of the stream.
CallsEnd ==
  \A r \in Requests :
    phase[r] # "new" ~>
      phase[r] \in {"done", "failed"} \/ []((raced /\ Forgotten(r)) \/ Stranded(r))

-----------------------------------------------------------------------------
(* Statements of the repository that the code does not keep *)

\* types.ts: the client authenticates after connecting.
AlwaysAuthenticated ==
  \A s \in Sockets : conn.writes[s] # <<>> /\ s \notin authed => Head(conn.writes[s]).req = Auth
=============================================================================
