-------------------------------- MODULE Sockets -------------------------------
(***************************************************************************)
(* The socket wrappers: what Async<T> does to a descriptor, from the call  *)
(* that makes one to the drop that closes it, and the operations of        *)
(* Async<TcpListener>, Async<TcpStream> and Async<UdpSocket>.              *)
(*                                                                         *)
(* The state of AsyncIo is extended with the sockets, which are external:  *)
(* what poll(2) reports, and whether a system call blocks, follows from    *)
(* what has arrived, whether the peer takes what is sent, and how far the  *)
(* connection is.  Steps of the kernel come between any two steps here.    *)
(*                                                                         *)
(* A stream that accept() returns has a descriptor of its own.  As the     *)
(* listener knows nothing more of it, it is made by Accepted, as if by a   *)
(* listener that is not one of Sources.                                    *)
(***************************************************************************)
EXTENDS Naturals, AsyncIo

CONSTANT MaxInbox        \* bound on what waits to be received

ASSUME SocketsAssumption ==
  /\ MaxInbox \in Nat \ {0}
  /\ Dirs = {"read", "write"}

VARIABLES
  sock,            \* sock[s]: the socket, in the kernel
  owner,           \* owner[s]: who has the descriptor
  stage            \* stage[s]: how far TcpStream::connect is

socketVars == <<sock, owner, stage>>
allVars == <<vars, socketVars>>

\* A socket: what waits in it, whether its buffer for sending is full, and how
\* its connection is; a listener and a UDP socket count as connected.
Socket(kind, conn, nonblocking) ==
  [kind |-> kind, conn |-> conn, nonblocking |-> nonblocking,
   inbox |-> 0, full |-> FALSE]

Closed == Socket("closed", "none", FALSE)

SocketStates ==
  [kind : {"closed", "listener", "stream", "udp"},
   conn : {"none", "idle", "progress", "up", "eof", "failed"},
   nonblocking : BOOLEAN, inbox : 0..MaxInbox, full : BOOLEAN]

\* What poll(2) reports of a socket.
PollState(x) ==
  CASE x.conn \in {"none", "progress"} -> {}
    [] x.conn = "idle"                 -> {"OUT", "HUP"}
    [] x.conn = "failed"               -> PollFlags
    [] OTHER -> (IF x.inbox > 0 \/ x.conn = "eof" THEN {"IN"} ELSE {})
                  \cup (IF x.kind = "listener" \/ x.full THEN {} ELSE {"OUT"})

\* The socket of s becomes x.
Sets(s, x) ==
  /\ sock' = [sock EXCEPT ![s] = x]
  /\ Becomes(s, PollState(x))

SocketsInit ==
  /\ Init
  /\ sock = [s \in Sources |-> Closed]
  /\ owner = [s \in Sources |-> "none"]
  /\ stage = [s \in Sources |-> "none"]

\* The variables have values that the program can give them, and what poll(2)
\* reports is what the sockets say.
SocketsTypeOK ==
  /\ TypeOK
  /\ sock \in [Sources -> SocketStates]
  /\ owner \in [Sources -> {"none", "user", "async", "lent", "dropping"}]
  /\ stage \in [Sources -> {"none", "start", "wait", "drop", "ok", "err"}]
  /\ ready = [s \in Sources |-> PollState(sock[s])]

-------------------------------------------------------------------------------
(* The kernel and the peers                                                *)

\* What was sent leaves; something arrives; the connection is established,
\* refused or reset, or is closed by the peer.
Sent(x) == [x EXCEPT !.full = FALSE]
Arrived(x) == [x EXCEPT !.inbox = IF @ < MaxInbox THEN @ + 1 ELSE @]
Failed(x) == [x EXCEPT !.conn = "failed", !.inbox = 0, !.full = FALSE]

KernelMoves(x) ==
  CASE x.conn = "progress" -> {[x EXCEPT !.conn = "up"], Failed(x)}
    [] x.conn = "eof"      -> {Sent(x), Failed(x)}
    [] x.conn = "up"       ->
         {Sent(x), Arrived(x)}
           \cup (IF x.kind = "stream" THEN {[x EXCEPT !.conn = "eof"], Failed(x)} ELSE {})
    [] OTHER -> {}

KernelStep(s) ==
  /\ \E x \in KernelMoves(sock[s]) \ {sock[s]} : Sets(s, x)
  /\ UNCHANGED <<special, event_sources, enabled, waker, opVars, pc, owner, stage>>

-------------------------------------------------------------------------------
(* Making an Async                                                         *)

\* The thread is in the middle of a drop, or of a poll of connect().
Midway(s) ==
  \/ owner[s] = "dropping"
  \/ stage[s] \in {"start", "ok", "err", "drop"}
  \/ stage[s] = "wait" /\ Unused(s)

Settled == \A s \in Sources : ~Midway(s)

Running == pc = "run" /\ Settled

\* The user opens a socket with the standard library.
Open(s) ==
  /\ Running
  /\ owner[s] = "none"
  /\ \E kind \in {"listener", "stream", "udp"} : Sets(s, Socket(kind, "up", FALSE))
  /\ owner' = [owner EXCEPT ![s] = "user"]
  /\ UNCHANGED <<special, event_sources, enabled, waker, opVars, pc, stage>>

\* The user closes one, or Async::new fails to set its mode and drops it.
UserClose(s) ==
  /\ Running
  /\ owner[s] = "user"
  /\ Sets(s, Closed)
  /\ owner' = [owner EXCEPT ![s] = "none"]
  /\ UNCHANGED <<special, event_sources, enabled, waker, opVars, pc, stage>>

\* Async::without_nonblocking, for a socket x that no Async is built on yet.
without_nonblocking(s, x, how) ==
  /\ Running
  /\ s \notin event_sources
  /\ register_event(s)
  /\ Sets(s, x)
  /\ owner' = [owner EXCEPT ![s] = how]
  /\ UNCHANGED <<special, opVars, pc>>

\* set_nonblocking
set_nonblocking(x) == [x EXCEPT !.nonblocking = TRUE]

\* Async::new, around a socket or around a reference to one.  On a socket that is
\* already in non-blocking mode this is also what without_nonblocking does when
\* the user calls it; that the mode was set is then up to the caller.
NewAsync(s) ==
  /\ owner[s] = "user"
  /\ \E how \in {"async", "lent"} :
       without_nonblocking(s, set_nonblocking(sock[s]), how)
  /\ UNCHANGED stage

\* Async::new around a reference to a socket that is in an Async.
NewAsyncAgain(s) ==
  /\ Running
  /\ owner[s] \in {"async", "lent"}
  /\ stage[s] = "none"
  /\ NewAgain(s)
  /\ UNCHANGED socketVars

\* Async::<TcpListener>::bind and Async::<UdpSocket>::bind.  If the socket
\* cannot be made or set up, nothing remains of it.
bind(s, kind) ==
  /\ owner[s] = "none"
  /\ without_nonblocking(s, set_nonblocking(Socket(kind, "up", FALSE)), "async")
  /\ UNCHANGED stage

\* Mutant: the stream is not set to non-blocking mode.
AcceptedBlocking(s) ==
  /\ owner[s] = "none"
  /\ without_nonblocking(s, Socket("stream", "up", FALSE), "async")
  /\ UNCHANGED stage

\* The closure of poll_accept makes an Async of the stream that was accepted.
Accepted(s) ==
  /\ owner[s] = "none"
  /\ without_nonblocking(s, set_nonblocking(Socket("stream", "up", FALSE)), "async")
  /\ UNCHANGED stage

-------------------------------------------------------------------------------
(* The end of an Async                                                     *)

\* The user may use the Async: it is not in the future of connect().
Usable(s) == owner[s] \in {"async", "lent"} /\ stage[s] = "none"

\* Mutant: inner is dropped before source.
DropSourceLate(s) ==
  /\ (Running /\ Usable(s)) \/ stage[s] \in {"drop", "err"}
  /\ s \in event_sources /\ Unused(s)
  /\ Sets(s, IF owner[s] = "lent" THEN sock[s] ELSE Closed)
  /\ owner' = [owner EXCEPT ![s] = IF @ = "lent" THEN "user" ELSE "dropping"]
  /\ stage' = [stage EXCEPT ![s] = "none"]
  /\ UNCHANGED <<special, event_sources, enabled, waker, opVars, pc>>

\* Drop of an Async, first half: GuardedSource deregisters the descriptor.
DropSource(s) ==
  /\ (Running /\ Usable(s)) \/ stage[s] \in {"drop", "err"}
  /\ Deregister(s)
  /\ owner' = [owner EXCEPT ![s] = IF @ = "lent" THEN "user" ELSE "dropping"]
  /\ stage' = [stage EXCEPT ![s] = "none"]
  /\ UNCHANGED sock

\* Drop of an Async, second half: inner is dropped, which closes the descriptor.
\* Its number may then be used again.
DropInner(s) ==
  /\ owner[s] = "dropping"
  /\ Sets(s, Closed)
  /\ owner' = [owner EXCEPT ![s] = "none"]
  /\ UNCHANGED <<special, event_sources, enabled, waker, opVars, pc, stage>>

\* Async::into_inner: the socket is given back, source is dropped.
into_inner(s) ==
  /\ Running
  /\ Usable(s) /\ owner[s] = "async"
  /\ Deregister(s)
  /\ owner' = [owner EXCEPT ![s] = "user"]
  /\ UNCHANGED <<sock, stage>>

-------------------------------------------------------------------------------
(* The operations                                                          *)

\* An operation of a kind of socket: the direction that it enables when the call
\* would block, and what the call does: it takes what waits in the socket, looks
\* at it, sends, or does not use the socket.
Operation(kind, dir, does) == [kind |-> kind, dir |-> dir, does |-> does]

\* What the user passes a closure to, with a shared and with an exclusive
\* reference to the Async.
poll_read_with(kind, does) == Operation(kind, "read", does)
poll_read_with_mut(kind, does) == Operation(kind, "read", does)
poll_write_with(kind, does) == Operation(kind, "write", does)
poll_write_with_mut(kind, does) == Operation(kind, "write", does)

UserReads(kind) ==
  {poll_read_with(kind, does) : does \in {"take", "look", "nothing"}}
    \cup {poll_read_with_mut(kind, does) : does \in {"take", "look", "nothing"}}

UserWrites(kind) ==
  {poll_write_with(kind, does) : does \in {"send", "nothing"}}
    \cup {poll_write_with_mut(kind, does) : does \in {"send", "nothing"}}

\* AsyncRead and AsyncWrite of Async<T> and of &Async<T>.  A stream has nothing
\* to do on flush, nor on close.
poll_read      == Operation("stream", "read", "take")
poll_read_ref  == Operation("stream", "read", "take")
poll_write     == Operation("stream", "write", "send")
poll_write_ref == Operation("stream", "write", "send")
poll_flush     == Operation("stream", "write", "nothing")
poll_flush_ref == Operation("stream", "write", "nothing")
poll_close     == poll_flush
poll_close_ref == poll_flush_ref

\* A BufRead may still have data in its own buffer.
poll_fill_buf(buffered) ==
  Operation("stream", "read", IF buffered THEN "nothing" ELSE "take")

\* TcpListener and TcpStream; accept() and the stream of incoming() call
\* poll_accept.
poll_accept == Operation("listener", "read", "take")
accept      == poll_accept
poll_next   == poll_accept
peek        == Operation("stream", "read", "look")

\* UdpSocket; the last three are for one that is connected.
recv_from == poll_read_with("udp", "take")
peek_from == poll_read_with("udp", "look")
send_to   == poll_write_with("udp", "send")
recv      == poll_read_with("udp", "take")
udp_peek  == poll_read_with("udp", "look")
send      == poll_write_with("udp", "send")

\* HyperIo, of the example hyper, around an Async<TcpStream>.
hyper_write    == poll_write
hyper_flush    == poll_flush
hyper_shutdown == poll_close
hyper_read     == poll_read

\* All of them.
Operations ==
  UNION {{poll_read, poll_read_ref, poll_write, poll_write_ref, poll_flush,
          poll_flush_ref, poll_close, poll_close_ref, accept, poll_next, peek,
          recv_from, peek_from, send_to, recv, udp_peek, send, hyper_write,
          hyper_flush, hyper_shutdown, hyper_read},
         {poll_fill_buf(buffered) : buffered \in BOOLEAN},
         UserReads("stream"), UserWrites("stream")}

\* The system call would block.
Blocks(x, o) == o.does # "nothing" /\ PollState(x) \cap Flags(o.dir) = {}

\* What it leaves of the socket otherwise, when it succeeds or fails.
After(x, o) ==
  CASE o.does = "take" /\ x.inbox > 0   -> {[x EXCEPT !.inbox = @ - 1]}
    [] o.does = "send" /\ x.conn = "up" -> {x, [x EXCEPT !.full = TRUE]}
    [] OTHER -> {x}

\* Mutant: a call that would block is not remembered in the reactor.
OperateSilently(s, o, w) ==
  /\ Running
  /\ Usable(s) /\ sock[s].kind = o.kind
  /\ \/ /\ Blocks(sock[s], o)
        /\ op[<<s, o.dir>>] \in {"none", "io"}
        /\ op' = [op EXCEPT ![<<s, o.dir>>] = "io"]
        /\ UNCHANGED <<ready, special, event_sources, enabled, waker, cx, seen,
                       todo, pc, sock>>
     \/ /\ ~Blocks(sock[s], o)
        /\ poll_event(<<s, o.dir>>, w, FALSE)
        /\ \E x \in After(sock[s], o) : Sets(s, x)
  /\ UNCHANGED <<owner, stage>>

\* An operation is polled.
Operate(s, o, w) ==
  /\ Running
  /\ Usable(s) /\ sock[s].kind = o.kind
  /\ \/ /\ Blocks(sock[s], o)
        /\ poll_event(<<s, o.dir>>, w, TRUE)
        /\ UNCHANGED <<ready, seen, sock>>
     \/ /\ ~Blocks(sock[s], o)
        /\ poll_event(<<s, o.dir>>, w, FALSE)
        /\ \E x \in After(sock[s], o) : Sets(s, x)
  /\ UNCHANGED <<owner, stage>>

\* The future of an operation is dropped.
CancelOperation(e) ==
  /\ Running
  /\ Usable(e[1])
  /\ Cancel(e)
  /\ UNCHANGED socketVars

\* readable() and writable() are polled a first time, and again.
Await(e, w) ==
  /\ Running
  /\ Usable(e[1])
  /\ WaitReadyFirst(e, w)
  /\ UNCHANGED socketVars

AwaitAgain(e, w) ==
  /\ Running
  /\ Usable(e[1])
  /\ WaitReadyAgain(e, w)
  /\ UNCHANGED socketVars

-------------------------------------------------------------------------------
(* Async::<TcpStream>::connect                                             *)

tcp_socket == Socket("stream", "idle", TRUE)

\* The system call connect(): the connection is there, is under way, or fails.
Connecting == {[tcp_socket EXCEPT !.conn = c] : c \in {"up", "progress", "failed"}}

\* The socket is made, put into an Async and connected.
ConnectStart(s) ==
  /\ owner[s] = "none"
  /\ \E x \in Connecting :
       /\ without_nonblocking(s, x, "async")
       /\ stage' = [stage EXCEPT ![s] = IF x.conn = "failed" THEN "err" ELSE "start"]

\* Mutant: connect() waits until the stream is readable.
ConnectWaitRead(s, w) ==
  /\ stage[s] = "start"
  /\ WaitReadyFirst(<<s, "read">>, w)
  /\ stage' = [stage EXCEPT ![s] = "wait"]
  /\ UNCHANGED <<sock, owner>>

\* connect() waits until the stream is writable.
ConnectWait(s, w) ==
  /\ stage[s] = "start"
  /\ WaitReadyFirst(<<s, "write">>, w)
  /\ stage' = [stage EXCEPT ![s] = "wait"]
  /\ UNCHANGED <<sock, owner>>

ConnectPoll(s, w) ==
  /\ Running
  /\ stage[s] = "wait"
  /\ \E d \in Dirs : WaitReadyAgain(<<s, d>>, w)
  /\ UNCHANGED socketVars

\* Mutant: the peer's address is not asked for.
ConnectUnchecked(s) ==
  /\ stage[s] = "wait" /\ Unused(s)
  /\ stage' = [stage EXCEPT ![s] = "ok"]
  /\ UNCHANGED <<vars, sock, owner>>

\* The wait is over: whether there is a peer tells whether the connection was
\* established.  If it was not, the stream is dropped.
ConnectCheck(s) ==
  /\ stage[s] = "wait" /\ Unused(s)
  /\ stage' = [stage EXCEPT ![s] =
                 IF sock[s].conn \in {"up", "eof"} THEN "ok" ELSE "err"]
  /\ UNCHANGED <<vars, sock, owner>>

\* connect() returns the stream.
ConnectReturn(s) ==
  /\ stage[s] = "ok"
  /\ stage' = [stage EXCEPT ![s] = "none"]
  /\ UNCHANGED <<vars, sock, owner>>

\* The future of connect() is dropped, and the stream with it.
ConnectCancel(s) ==
  /\ Running
  /\ stage[s] = "wait"
  /\ \E d \in Dirs : Cancel(<<s, d>>)
  /\ stage' = [stage EXCEPT ![s] = "drop"]
  /\ UNCHANGED <<sock, owner>>

-------------------------------------------------------------------------------

Make(s) ==
  \/ Open(s) \/ UserClose(s) \/ NewAsync(s) \/ NewAsyncAgain(s) \/ Accepted(s)
  \/ \E kind \in {"listener", "udp"} : bind(s, kind)

DropAsync(s) == DropSource(s) \/ DropInner(s) \/ into_inner(s)

Connect(s) ==
  \/ ConnectStart(s) \/ ConnectCheck(s) \/ ConnectReturn(s) \/ ConnectCancel(s)
  \/ \E w \in Wakers : ConnectWait(s, w) \/ ConnectPoll(s, w)

\* Reactor::wait, called by block_on.
Reactor ==
  /\ Settled
  /\ Wait
  /\ UNCHANGED socketVars

SocketsNext ==
  \/ \E s \in Sources :
       \/ KernelStep(s) \/ Make(s) \/ DropAsync(s) \/ Connect(s)
       \/ \E o \in Operations, w \in Wakers : Operate(s, o, w)
  \/ \E e \in Ends :
       \/ CancelOperation(e)
       \/ \E w \in Wakers : Await(e, w) \/ AwaitAgain(e, w)
  \/ Reactor
  \/ \E x \in Specials : SpecialReady(x) /\ UNCHANGED socketVars

\* A poll of the operation that is under way on e.
Again(e) == \E w \in Wakers :
  \/ AwaitAgain(e, w) \/ ConnectPoll(e[1], w)
  \/ \E o \in Operations : o.dir = e[2] /\ Operate(e[1], o, w)

\* The thread goes on with a drop or a poll of connect().
GoOn(s) ==
  /\ Midway(s)
  /\ \/ DropSource(s) \/ DropInner(s) \/ ConnectCheck(s) \/ ConnectReturn(s)
     \/ \E w \in Wakers : ConnectWait(s, w)

\* The thread runs, woken operations are polled, block_on waits again and again
\* and is idle again and again, and poll(2) returns when it has something to
\* report, not always with an error.
Fairness ==
  /\ \A s \in Sources : WF_allVars(GoOn(s))
  /\ \A e \in Ends : SF_allVars(e \in todo /\ Again(e))
  /\ SF_allVars(Reactor /\ WaitSkip)
  /\ SF_allVars(Reactor /\ WaitPoll)
  /\ SF_allVars(Reactor /\ Poll)
  /\ SF_allVars(Reactor /\ PollSources)

SocketsSpec == SocketsInit /\ [][SocketsNext]_allVars
FairSpec == SocketsSpec /\ Fairness

-------------------------------------------------------------------------------
(* Properties                                                              *)

\* The reactor has an entry for exactly the descriptors that an Async guards, so
\* that no expect() of its lookups panics, and each of them is open: "Closing the
\* I/O before deregistering leads to the reactor holding a dangling I/O handle".
GuardsRegistered ==
  /\ event_sources = {s \in Sources : owner[s] \in {"async", "lent"}}
  /\ \A s \in event_sources : sock[s].kind # "closed"

\* No system call of an operation blocks the thread: whatever way an Async was
\* made, its socket is in non-blocking mode.  A user who calls without_nonblocking
\* on a socket in blocking mode breaks what its documentation asks of the caller,
\* and is left out.
NeverBlocks == \A s \in event_sources : sock[s].nonblocking

\* connect() returns a stream only if its connection was established, and gives
\* up only if it was not: never while it is still under way.
ConnectHonest ==
  [][\A s \in Sources : stage[s] = "wait" =>
       /\ stage'[s] = "ok" => sock[s].conn \in {"up", "eof"}
       /\ stage'[s] = "err" => sock[s].conn = "failed"]_allVars

\* connect() returns once the kernel knows how the connection is, or is dropped.
ConnectReturns ==
  \A s \in Sources : stage[s] = "wait" /\ sock[s].conn # "progress" ~>
    stage[s] # "wait" \/ pc = "panic"

\* An operation that waits for a source that stays ready returns.
IoReturns ==
  \A e \in Ends : op[e] # "none" /\ Ready(e) ~>
    op[e] = "none" \/ ~Ready(e) \/ pc = "panic"

\* What AsyncIo says of any descriptors holds of these: each step is one of its
\* steps, or changes nothing that it knows of.
ImplementsAsyncIo == Spec
===============================================================================
