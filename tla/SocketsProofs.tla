----------------------------- MODULE SocketsProofs ----------------------------
(***************************************************************************)
(* Sockets implements AsyncIo, so that the theorems of AsyncIoProofs hold  *)
(* of it, the registration of descriptors is right, and connect() tells    *)
(* the truth: for any number of sources, any wakers and any bound on what  *)
(* waits in a socket.                                                      *)
(***************************************************************************)
EXTENDS Sockets, AsyncIoProofs

\* Every operation reads or writes.
LEMMA OperationDirs == \A o \in Operations : o.dir \in {"read", "write"}
<1>1. ASSUME NEW kind, NEW o \in UserReads(kind) \cup UserWrites(kind)
      PROVE  o.dir \in {"read", "write"}
  BY DEF UserReads, UserWrites, Operation, poll_read_with, poll_write_with,
     poll_read_with_mut, poll_write_with_mut
<1>2. \A o \in {poll_read, poll_read_ref, poll_write, poll_write_ref, poll_flush,
               poll_flush_ref, poll_close, poll_close_ref, accept, poll_next, peek,
               recv_from, peek_from, send_to, recv, udp_peek, send, hyper_write,
               hyper_flush, hyper_shutdown, hyper_read} : o.dir \in {"read", "write"}
  BY DEF Operation, poll_read_with, poll_write_with, poll_accept,
     poll_read, poll_read_ref, poll_write, poll_write_ref, poll_flush,
     poll_flush_ref, poll_close, poll_close_ref, accept, poll_next, peek,
     recv_from, peek_from, send_to, recv, udp_peek, send, hyper_write,
     hyper_flush, hyper_shutdown, hyper_read
<1>3. \A buffered \in BOOLEAN : poll_fill_buf(buffered).dir \in {"read", "write"}
  BY DEF Operation, poll_fill_buf
<1> QED
  BY <1>1, <1>2, <1>3 DEF Operations

\* poll(2) reports flags of PollFlags.
LEMMA PollStateFlags == ASSUME NEW x PROVE PollState(x) \in SUBSET PollFlags
<1>1. CASE x.conn \in {"none", "progress"}
  BY <1>1 DEF PollState
<1>2. CASE x.conn = "idle"
  BY <1>2 DEF PollState, PollFlags
<1>3. CASE x.conn = "failed"
  BY <1>3 DEF PollState
<1>4. CASE x.conn \notin {"none", "progress", "idle", "failed"}
  BY <1>4 DEF PollState, PollFlags
<1> QED
  BY <1>1, <1>2, <1>3, <1>4

\* A step of Becomes and nothing else is one of the kernel.
LEMMA KernelOnly ==
  ASSUME NEW s \in Sources, NEW x, Sets(s, x),
         UNCHANGED <<special, event_sources, enabled, waker, opVars, pc>>
  PROVE  Next
<1>1. PollState(x) \in SUBSET PollFlags
  BY PollStateFlags
<1>2. KernelChange(s, PollState(x))
  BY DEF KernelChange, Sets
<1> QED
  BY <1>1, <1>2 DEF Next

\* Making an Async is New.
LEMMA MakeNew ==
  ASSUME NEW s \in Sources, NEW x, NEW how, without_nonblocking(s, x, how)
  PROVE  Next
<1>1. PollState(x) \in SUBSET PollFlags
  BY PollStateFlags
<1>2. New(s, PollState(x))
  BY DEF without_nonblocking, Running, New, Sets
<1> QED
  BY <1>1, <1>2 DEF Next

\* Every step of Sockets is one of AsyncIo, or changes nothing that it knows of.
LEMMA StepImplements == [SocketsNext]_allVars => [Next]_vars
<1> SUFFICES ASSUME [SocketsNext]_allVars PROVE [Next]_vars
  OBVIOUS
<1>1. ASSUME NEW s \in Sources, KernelStep(s) PROVE Next
  BY <1>1, KernelOnly DEF KernelStep
<1>2. ASSUME NEW s \in Sources, Make(s) PROVE Next
  <2>1. CASE Open(s)
    BY <2>1, KernelOnly DEF Open
  <2>2. CASE UserClose(s)
    BY <2>2, KernelOnly DEF UserClose
  <2>3. CASE NewAsync(s)
    BY <2>3, MakeNew DEF NewAsync
  <2>4. CASE NewAsyncAgain(s)
    BY <2>4 DEF NewAsyncAgain, Next
  <2>5. CASE Accepted(s)
    BY <2>5, MakeNew DEF Accepted
  <2>6. ASSUME NEW kind \in {"listener", "udp"}, bind(s, kind) PROVE Next
    BY <2>6, MakeNew DEF bind
  <2> QED
    BY <1>2, <2>1, <2>2, <2>3, <2>4, <2>5, <2>6 DEF Make
<1>3. ASSUME NEW s \in Sources, DropAsync(s) PROVE Next
  <2>1. CASE DropSource(s)
    BY <2>1 DEF DropSource, Next
  <2>2. CASE DropInner(s)
    BY <2>2, KernelOnly DEF DropInner
  <2>3. CASE into_inner(s)
    BY <2>3 DEF into_inner, Next
  <2> QED
    BY <1>3, <2>1, <2>2, <2>3 DEF DropAsync
<1>4. ASSUME NEW s \in Sources, Connect(s) PROVE [Next]_vars
  <2>1. CASE ConnectStart(s)
    BY <2>1, MakeNew DEF ConnectStart
  <2>2. CASE ConnectCheck(s) \/ ConnectReturn(s)
    BY <2>2 DEF ConnectCheck, ConnectReturn
  <2>3. CASE ConnectCancel(s)
    BY <2>3 DEF ConnectCancel, Next, Ends
  <2>4. ASSUME NEW w \in Wakers, ConnectWait(s, w) PROVE Next
    BY <2>4, SocketsAssumption DEF ConnectWait, Next, PollOp, Ends
  <2>5. ASSUME NEW w \in Wakers, ConnectPoll(s, w) PROVE Next
    BY <2>5 DEF ConnectPoll, Next, PollOp, Ends
  <2> QED
    BY <1>4, <2>1, <2>2, <2>3, <2>4, <2>5 DEF Connect
<1>5. ASSUME NEW s \in Sources, NEW o \in Operations, NEW w \in Wakers,
             Operate(s, o, w)
      PROVE  Next
  <2>1. <<s, o.dir>> \in Ends /\ <<s, o.dir>>[1] = s
    BY SocketsAssumption, OperationDirs DEF Ends
  <2>2. \E flags \in SUBSET PollFlags : PollEvent(<<s, o.dir>>, w, flags)
    <3>1. CASE poll_event(<<s, o.dir>>, w, TRUE) /\ UNCHANGED <<ready, seen>>
      BY <3>1 DEF PollEvent
    <3>2. ASSUME poll_event(<<s, o.dir>>, w, FALSE), NEW x, Sets(s, x)
          PROVE  PollEvent(<<s, o.dir>>, w, PollState(x))
      BY <2>1, <3>2 DEF PollEvent, Sets
    <3> QED
      BY <1>5, <3>1, <3>2, PollStateFlags DEF Operate
  <2> QED
    BY <2>1, <2>2 DEF Next
<1>6. ASSUME NEW e \in Ends, NEW w \in Wakers, Await(e, w) \/ AwaitAgain(e, w)
      PROVE  Next
  BY <1>6 DEF Await, AwaitAgain, Next, PollOp
<1>7. ASSUME NEW e \in Ends, CancelOperation(e) PROVE Next
  BY <1>7 DEF CancelOperation, Next
<1>8. CASE Reactor
  BY <1>8 DEF Reactor, Next
<1>9. ASSUME NEW x \in Specials, SpecialReady(x) PROVE Next
  BY <1>9 DEF Next
<1>10. CASE UNCHANGED allVars
  BY <1>10 DEF allVars
<1> QED
  BY <1>1, <1>2, <1>3, <1>4, <1>5, <1>6, <1>7, <1>8, <1>9, <1>10 DEF SocketsNext

\* The socket wrappers use the reactor as AsyncIo says, whatever the sockets do.
THEOREM SocketsImplementAsyncIo == SocketsSpec => ImplementsAsyncIo
<1>1. SocketsInit => Init
  BY DEF SocketsInit
<1> QED
  BY <1>1, StepImplements, PTL DEF SocketsSpec, ImplementsAsyncIo, Spec

-------------------------------------------------------------------------------
(* Registration                                                            *)

Owners == {"none", "user", "async", "lent", "dropping"}

\* The descriptors of the user are open.
UserOpen == \A s \in Sources : owner[s] = "user" => sock[s].kind # "closed"

SInv ==
  /\ sock \in [Sources -> SocketStates]
  /\ owner \in [Sources -> Owners]
  /\ event_sources \subseteq Sources
  /\ UserOpen /\ GuardsRegistered /\ NeverBlocks

\* x and y are sockets of the same kind and mode.
SameSocket(x, y) ==
  /\ y \in SocketStates
  /\ y.kind = x.kind
  /\ y.nonblocking = x.nonblocking

\* The kernel does not change what a socket is.
LEMMA MovesKeep ==
  ASSUME NEW x \in SocketStates, NEW y \in KernelMoves(x)
  PROVE  SameSocket(x, y)
<1>1. /\ SameSocket(x, [x EXCEPT !.conn = "up"])
      /\ SameSocket(x, [x EXCEPT !.conn = "eof"])
      /\ SameSocket(x, Sent(x))
      /\ SameSocket(x, Failed(x))
  <2>1. SameSocket(x, [x EXCEPT !.conn = "up"])
    BY DEF SameSocket, SocketStates
  <2>2. SameSocket(x, [x EXCEPT !.conn = "eof"])
    BY DEF SameSocket, SocketStates
  <2>3. SameSocket(x, Sent(x))
    BY DEF SameSocket, SocketStates, Sent
  <2>4. SameSocket(x, Failed(x))
    <3>1. 0 \in 0..MaxInbox
      BY SocketsAssumption
    <3> QED
      BY <3>1 DEF SameSocket, SocketStates, Failed
  <2> QED
    BY <2>1, <2>2, <2>3, <2>4
<1>2. SameSocket(x, Arrived(x))
  <2>1. (IF x.inbox < MaxInbox THEN x.inbox + 1 ELSE x.inbox) \in 0..MaxInbox
    BY SocketsAssumption DEF SocketStates
  <2> QED
    BY <2>1 DEF SameSocket, SocketStates, Arrived
<1>3. \/ y = [x EXCEPT !.conn = "up"] \/ y = [x EXCEPT !.conn = "eof"]
      \/ y = Sent(x) \/ y = Failed(x) \/ y = Arrived(x)
  <2>1. CASE x.conn = "progress"
    BY <2>1 DEF KernelMoves
  <2>2. CASE x.conn = "eof"
    BY <2>2 DEF KernelMoves
  <2>3. CASE x.conn = "up"
    BY <2>3 DEF KernelMoves
  <2>4. CASE x.conn \notin {"progress", "eof", "up"}
    BY <2>4 DEF KernelMoves
  <2> QED
    BY <2>1, <2>2, <2>3, <2>4
<1> QED
  BY <1>1, <1>2, <1>3

\* Neither does an operation.
LEMMA AfterKeep ==
  ASSUME NEW x \in SocketStates, NEW o, NEW y \in After(x, o)
  PROVE  SameSocket(x, y)
<1>1. CASE o.does = "take" /\ x.inbox > 0
  <2>1. x.inbox - 1 \in 0..MaxInbox
    BY <1>1, SocketsAssumption DEF SocketStates
  <2>2. y = [x EXCEPT !.inbox = x.inbox - 1]
    BY <1>1 DEF After
  <2> QED
    BY <2>1, <2>2 DEF SameSocket, SocketStates
<1>2. CASE ~(o.does = "take" /\ x.inbox > 0)
  <2>1. y = x \/ y = [x EXCEPT !.full = TRUE]
    BY <1>2 DEF After
  <2> QED
    BY <2>1 DEF SameSocket, SocketStates
<1> QED
  BY <1>1, <1>2

\* A step that changes the state of a socket, not what it is or whose it is.
LEMMA KeepsSInv ==
  ASSUME SInv, NEW s \in Sources, NEW x, SameSocket(sock[s], x), Sets(s, x),
         UNCHANGED <<event_sources, owner>>
  PROVE  SInv'
<1>1. sock' = [sock EXCEPT ![s] = x]
  BY DEF Sets
<1>2. sock' \in [Sources -> SocketStates]
  BY <1>1 DEF SInv, SameSocket
<1>3. \A r \in Sources : /\ sock'[r].kind = sock[r].kind
                         /\ sock'[r].nonblocking = sock[r].nonblocking
  BY <1>1 DEF SInv, SameSocket
<1> QED
  BY <1>2, <1>3 DEF SInv, UserOpen, GuardsRegistered, NeverBlocks

\* An Async is made of an open socket in non-blocking mode.
LEMMA MakeSInv ==
  ASSUME SInv, NEW s \in Sources, NEW x \in SocketStates, NEW how \in {"async", "lent"},
         x.kind # "closed", x.nonblocking, without_nonblocking(s, x, how)
  PROVE  SInv'
<1>1. /\ sock' = [sock EXCEPT ![s] = x]
      /\ owner' = [owner EXCEPT ![s] = how]
      /\ event_sources' = event_sources \cup {s}
  BY DEF without_nonblocking, register_event, Sets
<1>2. sock' \in [Sources -> SocketStates] /\ owner' \in [Sources -> Owners]
  BY <1>1 DEF SInv, Owners
<1>3. \A r \in Sources : r # s => sock'[r] = sock[r] /\ owner'[r] = owner[r]
  BY <1>1 DEF SInv
<1>4. sock'[s] = x /\ owner'[s] = how
  BY <1>1 DEF SInv
<1> QED
  BY <1>1, <1>2, <1>3, <1>4 DEF SInv, UserOpen, GuardsRegistered, NeverBlocks

\* A step on a descriptor that no Async guards before or after it.
LEMMA UnguardedSInv ==
  ASSUME SInv, NEW s \in Sources, NEW x \in SocketStates,
         NEW to \in {"none", "user", "dropping"},
         owner[s] \in {"none", "user", "dropping"},
         to = "user" => x.kind # "closed",
         Sets(s, x), owner' = [owner EXCEPT ![s] = to], UNCHANGED event_sources
  PROVE  SInv'
<1>1. sock' = [sock EXCEPT ![s] = x]
  BY DEF Sets
<1>2. sock' \in [Sources -> SocketStates] /\ owner' \in [Sources -> Owners]
  BY <1>1 DEF SInv, Owners
<1>3. \A r \in Sources : r # s => sock'[r] = sock[r] /\ owner'[r] = owner[r]
  BY <1>1 DEF SInv
<1>4. sock'[s] = x /\ owner'[s] = to
  BY <1>1 DEF SInv
<1> QED
  BY <1>1, <1>2, <1>3, <1>4 DEF SInv, UserOpen, GuardsRegistered, NeverBlocks

\* The Async of an open socket ends.
LEMMA EndSInv ==
  ASSUME SInv, NEW s \in Sources, NEW to \in {"user", "dropping"}, Deregister(s),
         owner' = [owner EXCEPT ![s] = to], UNCHANGED sock
  PROVE  SInv'
<1>1. event_sources' = event_sources \ {s} /\ s \in event_sources
  BY DEF Deregister, deregister_event
<1>2. owner' \in [Sources -> Owners] /\ owner'[s] = to
  BY DEF SInv, Owners
<1>3. \A r \in Sources : r # s => owner'[r] = owner[r]
  BY DEF SInv
<1> QED
  BY <1>1, <1>2, <1>3 DEF SInv, UserOpen, GuardsRegistered, NeverBlocks

\* The invariant holds initially.
LEMMA InitSInv == SocketsInit => SInv
<1> SUFFICES ASSUME SocketsInit PROVE SInv
  OBVIOUS
<1>1. Closed \in SocketStates
  BY SocketsAssumption DEF Closed, Socket, SocketStates
<1> QED
  BY <1>1 DEF SocketsInit, Init, SInv, Owners, UserOpen, GuardsRegistered, NeverBlocks

\* Every step preserves it.
LEMMA NextSInv == SInv /\ [SocketsNext]_allVars => SInv'
<1> SUFFICES ASSUME SInv, [SocketsNext]_allVars PROVE SInv'
  OBVIOUS
<1>1. \A kind \in {"listener", "stream", "udp"}, nonblocking \in BOOLEAN :
        \A conn \in {"up", "idle"} :
        LET x == Socket(kind, conn, nonblocking) IN
          x \in SocketStates /\ x.kind # "closed" /\ x.nonblocking = nonblocking
  BY SocketsAssumption DEF Socket, SocketStates
<1>2. Closed \in SocketStates
  BY SocketsAssumption DEF Closed, Socket, SocketStates
<1>3. \A x \in SocketStates : /\ set_nonblocking(x) \in SocketStates
                              /\ set_nonblocking(x).nonblocking
                              /\ set_nonblocking(x).kind = x.kind
  BY DEF set_nonblocking, SocketStates
<1>4. ASSUME NEW s \in Sources, KernelStep(s) PROVE SInv'
  <2>1. sock[s] \in SocketStates
    BY DEF SInv
  <2>2. PICK x \in KernelMoves(sock[s]) : Sets(s, x)
    BY <1>4 DEF KernelStep
  <2>3. UNCHANGED <<event_sources, owner>>
    BY <1>4 DEF KernelStep
  <2> QED
    BY <2>1, <2>2, <2>3, MovesKeep, KeepsSInv
<1>5. ASSUME NEW s \in Sources, Make(s) PROVE SInv'
  <2>1. CASE Open(s)
    <3>1. PICK kind \in {"listener", "stream", "udp"} : Sets(s, Socket(kind, "up", FALSE))
      BY <2>1 DEF Open
    <3>2. owner[s] = "none" /\ owner' = [owner EXCEPT ![s] = "user"] /\ UNCHANGED event_sources
      BY <2>1 DEF Open
    <3> QED
      BY <1>1, <3>1, <3>2, UnguardedSInv
  <2>2. CASE UserClose(s)
    BY <1>2, <2>2, UnguardedSInv DEF UserClose
  <2>3. CASE NewAsync(s)
    <3>1. PICK how \in {"async", "lent"} :
            without_nonblocking(s, set_nonblocking(sock[s]), how)
      BY <2>3 DEF NewAsync
    <3>2. sock[s] \in SocketStates /\ sock[s].kind # "closed"
      BY <2>3 DEF NewAsync, SInv, UserOpen
    <3> QED
      BY <1>3, <3>1, <3>2, MakeSInv
  <2>4. CASE NewAsyncAgain(s)
    BY <2>4 DEF NewAsyncAgain, NewAgain, register_again, socketVars, SInv, UserOpen,
                GuardsRegistered, NeverBlocks
  <2>5. CASE Accepted(s)
    BY <1>1, <1>3, <2>5, MakeSInv DEF Accepted
  <2>6. ASSUME NEW kind \in {"listener", "udp"}, bind(s, kind) PROVE SInv'
    BY <1>1, <1>3, <2>6, MakeSInv DEF bind
  <2> QED
    BY <1>5, <2>1, <2>2, <2>3, <2>4, <2>5, <2>6 DEF Make
<1>6. ASSUME NEW s \in Sources, DropAsync(s) PROVE SInv'
  <2>1. CASE DropSource(s)
    BY <2>1, EndSInv DEF DropSource
  <2>2. CASE DropInner(s)
    BY <1>2, <2>2, UnguardedSInv DEF DropInner
  <2>3. CASE into_inner(s)
    BY <2>3, EndSInv DEF into_inner
  <2> QED
    BY <1>6, <2>1, <2>2, <2>3 DEF DropAsync
<1>7. ASSUME UNCHANGED <<event_sources, sock, owner>> PROVE SInv'
  BY <1>7 DEF SInv, UserOpen, GuardsRegistered, NeverBlocks
<1>8. ASSUME NEW s \in Sources, Connect(s) PROVE SInv'
  <2>1. CASE ConnectStart(s)
    <3>1. PICK x \in Connecting : without_nonblocking(s, x, "async")
      BY <2>1 DEF ConnectStart
    <3>2. x \in SocketStates /\ x.kind # "closed" /\ x.nonblocking
      <4>1. PICK c \in {"up", "progress", "failed"} : x = [tcp_socket EXCEPT !.conn = c]
        BY DEF Connecting
      <4>2. tcp_socket \in SocketStates
        BY <1>1 DEF tcp_socket
      <4>3. tcp_socket.kind = "stream" /\ tcp_socket.nonblocking = TRUE
        BY DEF tcp_socket, Socket
      <4> QED
        BY <4>1, <4>2, <4>3 DEF SocketStates
    <3> QED
      BY <3>1, <3>2, MakeSInv
  <2>2. CASE ConnectCheck(s) \/ ConnectReturn(s)
    BY <1>7, <2>2 DEF ConnectCheck, ConnectReturn, vars
  <2>3. CASE ConnectCancel(s)
    BY <1>7, <2>3 DEF ConnectCancel, Cancel
  <2>4. ASSUME NEW w \in Wakers, ConnectWait(s, w) PROVE SInv'
    BY <1>7, <2>4 DEF ConnectWait, WaitReadyFirst
  <2>5. ASSUME NEW w \in Wakers, ConnectPoll(s, w) PROVE SInv'
    BY <1>7, <2>5 DEF ConnectPoll, WaitReadyAgain, socketVars
  <2> QED
    BY <1>8, <2>1, <2>2, <2>3, <2>4, <2>5 DEF Connect
<1>9. ASSUME NEW s \in Sources, NEW o \in Operations, NEW w \in Wakers,
             Operate(s, o, w)
      PROVE  SInv'
  <2>1. UNCHANGED <<event_sources, owner>>
    BY <1>9 DEF Operate, poll_event
  <2>2. sock[s] \in SocketStates
    BY DEF SInv
  <2>3. UNCHANGED sock \/ \E x \in After(sock[s], o) : Sets(s, x)
    BY <1>9 DEF Operate
  <2> QED
    BY <1>7, <2>1, <2>2, <2>3, AfterKeep, KeepsSInv
<1>10. ASSUME NEW e \in Ends, NEW w \in Wakers, Await(e, w) \/ AwaitAgain(e, w)
       PROVE  SInv'
  BY <1>7, <1>10 DEF Await, AwaitAgain, WaitReadyFirst, WaitReadyAgain, socketVars
<1>11. ASSUME NEW e \in Ends, CancelOperation(e) PROVE SInv'
  BY <1>7, <1>11 DEF CancelOperation, Cancel, socketVars
<1>12. CASE Reactor
  BY <1>7, <1>12 DEF Reactor, Wait, Poll, WaitSkip, WaitPoll, PollSources,
                     PollSpecials, PollBoth, PollFails, socketVars
<1>13. ASSUME NEW x \in Specials, SpecialReady(x), UNCHANGED socketVars PROVE SInv'
  BY <1>7, <1>13 DEF SpecialReady, socketVars
<1>14. CASE UNCHANGED allVars
  BY <1>7, <1>14 DEF allVars, vars, socketVars
<1> QED
  BY <1>4, <1>5, <1>6, <1>8, <1>9, <1>10, <1>11, <1>12, <1>13, <1>14 DEF SocketsNext

\* I/O safety: the reactor has an entry for exactly the descriptors that an Async
\* guards, and no entry outlives the descriptor.
THEOREM SocketsGuarded == SocketsSpec => []GuardsRegistered
<1>1. SInv => GuardsRegistered
  BY DEF SInv
<1> QED
  BY <1>1, InitSInv, NextSInv, PTL DEF SocketsSpec

\* No operation on an Async blocks the thread.
THEOREM SocketsNeverBlock == SocketsSpec => []NeverBlocks
<1>1. SInv => NeverBlocks
  BY DEF SInv
<1> QED
  BY <1>1, InitSInv, NextSInv, PTL DEF SocketsSpec

-------------------------------------------------------------------------------
(* connect()                                                               *)

Stages == {"none", "start", "wait", "drop", "ok", "err"}

\* poll(2) reports what the sockets say.
Agrees == ready = [s \in Sources |-> PollState(sock[s])]

\* connect() owns the stream, which is being connected.  It waits on the end for
\* writing, and while the connection is under way nothing was reported there.
Connects(s) ==
  stage[s] # "none" =>
    /\ owner[s] = "async"
    /\ stage[s] = "start" => Unused(s)
    /\ stage[s] \in {"start", "wait"} =>
         sock[s].conn \in {"progress", "up", "eof", "failed"}
    /\ stage[s] = "wait" => op[<<s, "read">>] = "none"
    /\ stage[s] = "wait" /\ sock[s].conn = "progress" =>
         op[<<s, "write">>] = "ready" /\ ~seen[<<s, "write">>]

CInv ==
  /\ stage \in [Sources -> Stages]
  /\ Agrees
  /\ \A s \in Sources : Connects(s)

\* A step that leaves alone what belongs to the connect() of r.
Kept(r) ==
  /\ stage'[r] = stage[r] /\ owner'[r] = owner[r] /\ sock'[r] = sock[r]
  /\ \A d \in Dirs : op'[<<r, d>>] = op[<<r, d>>]
  /\ seen'[<<r, "write">>] => seen[<<r, "write">>]

\* Such a step keeps the invariant.
LEMMA KeptConnects ==
  ASSUME NEW r \in Sources, Connects(r), Kept(r)
  PROVE  Connects(r)'
BY SocketsAssumption DEF Connects, Kept, Unused

\* The ends of a source.
LEMMA BothEnds ==
  ASSUME NEW s \in Sources
  PROVE  /\ <<s, "read">> \in Ends
         /\ <<s, "write">> \in Ends /\ <<s, "write">>[1] = s
BY SocketsAssumption DEF Ends

\* A socket that changes is that of s.
LEMMA SetsKeep ==
  ASSUME SInv, TypeOK, NEW s \in Sources, NEW x, Sets(s, x)
  PROVE  /\ sock'[s] = x
         /\ \A r \in Sources : r # s =>
              sock'[r] = sock[r] /\ (seen'[<<r, "write">>] => seen[<<r, "write">>])
<1>1. sock' = [sock EXCEPT ![s] = x]
  BY DEF Sets
<1>2. ASSUME NEW r \in Sources, r # s, seen'[<<r, "write">>] PROVE seen[<<r, "write">>]
  <2>1. <<r, "write">> \in Ends /\ <<r, "write">>[1] = r
    BY BothEnds, Zenon
  <2>2. ASSUME NEW e \in Ends, e[1] # s, seen'[e] PROVE seen[e]
    <3>1. \/ seen[e]
          \/ e[1] = s /\ op[e] = "ready" /\ PollState(x) \cap Flags(e[2]) # {}
      BY <2>2, Zenon DEF Sets, Becomes
    <3> QED
      BY <2>2, <3>1
  <2> QED
    BY <1>2, <2>1, <2>2
<1> QED
  BY <1>1, <1>2 DEF SInv

\* An operation that changes is that of e.
LEMMA OpKeeps ==
  ASSUME NEW s \in Sources, NEW d \in Dirs, NEW kind, op' = [op EXCEPT ![<<s, d>>] = kind]
  PROVE  \A r \in Sources, c \in Dirs : r # s \/ c # d => op'[<<r, c>>] = op[<<r, c>>]
BY DEF Ends

\* A step on a source that connect() does not use, and that stays so.
LEMMA AsideConnects ==
  ASSUME CInv, NEW s \in Sources, stage'[s] = "none",
         \A r \in Sources : r # s => Kept(r)
  PROVE  \A r \in Sources : Connects(r)'
<1>1. Connects(s)'
  BY DEF Connects
<1> QED
  BY <1>1, KeptConnects DEF CInv

\* poll(2) goes on to report what the sockets say.
LEMMA AgreesNext ==
  ASSUME TypeOK, SInv, Agrees,
         UNCHANGED <<ready, sock>> \/ \E s \in Sources : \E x : Sets(s, x)
  PROVE  Agrees'
<1>1. CASE UNCHANGED <<ready, sock>>
  BY <1>1 DEF Agrees
<1>2. ASSUME NEW s \in Sources, NEW x, Sets(s, x) PROVE Agrees'
  <2>1. /\ sock' = [sock EXCEPT ![s] = x]
        /\ ready' = [ready EXCEPT ![s] = PollState(x)]
    BY <1>2 DEF Sets, Becomes
  <2>2. ready' \in [Sources -> SUBSET PollFlags]
    BY <2>1, PollStateFlags DEF TypeOK
  <2>3. \A r \in Sources : ready'[r] = PollState(sock'[r])
    BY <2>1 DEF TypeOK, SInv, Agrees
  <2> QED
    BY <2>2, <2>3 DEF Agrees
<1> QED
  BY <1>1, <1>2

\* The kernel ends the attempt to connect, and does not begin one.
LEMMA MovesConnect ==
  ASSUME NEW x \in SocketStates, NEW y \in KernelMoves(x)
  PROVE  y.conn \in {"up", "eof", "failed"}
<1>1. /\ [x EXCEPT !.conn = "up"].conn = "up"
      /\ [x EXCEPT !.conn = "eof"].conn = "eof"
  BY DEF SocketStates
<1>2. Sent(x).conn = x.conn /\ Arrived(x).conn = x.conn
  BY DEF SocketStates, Sent, Arrived
<1>3. Failed(x).conn = "failed"
  BY DEF SocketStates, Failed
<1>4. CASE x.conn = "progress"
  <2>1. y = [x EXCEPT !.conn = "up"] \/ y = Failed(x)
    BY <1>4 DEF KernelMoves
  <2> QED
    BY <1>1, <1>3, <2>1, Zenon
<1>5. CASE x.conn = "eof"
  BY <1>2, <1>3, <1>5 DEF KernelMoves
<1>6. CASE x.conn = "up"
  <2>1. \/ y = [x EXCEPT !.conn = "eof"] \/ y = Failed(x)
        \/ y = Sent(x) \/ y = Arrived(x)
    BY <1>6 DEF KernelMoves
  <2> QED
    BY <1>1, <1>2, <1>3, <1>6, <2>1, Zenon
<1>7. CASE x.conn \notin {"progress", "eof", "up"}
  BY <1>7 DEF KernelMoves
<1> QED
  BY <1>4, <1>5, <1>6, <1>7

\* The first poll of writable(): nothing is reported while the connection is under
\* way.
LEMMA ConnectWaitConnects ==
  ASSUME IInv, SInv, CInv, NEW s \in Sources, NEW w \in Wakers, ConnectWait(s, w)
  PROVE  \A r \in Sources : Connects(r)'
<1>1. /\ stage[s] = "start" /\ stage' = [stage EXCEPT ![s] = "wait"]
      /\ op' = [op EXCEPT ![<<s, "write">>] = "ready"]
      /\ seen' = [seen EXCEPT ![<<s, "write">>] = Ready(<<s, "write">>)]
      /\ UNCHANGED <<sock, owner>>
  BY DEF ConnectWait, WaitReadyFirst, Suspend
<1>2. ASSUME NEW r \in Sources, r # s PROVE Kept(r)
  <2>1. \A d \in Dirs : op'[<<r, d>>] = op[<<r, d>>]
    BY <1>1, <1>2, OpKeeps, SocketsAssumption
  <2>2. seen'[<<r, "write">>] = seen[<<r, "write">>]
    BY <1>1, <1>2, BothEnds DEF IInv, TypeOK
  <2>3. stage'[r] = stage[r]
    BY <1>1, <1>2 DEF CInv
  <2> QED
    BY <1>1, <2>1, <2>2, <2>3 DEF Kept
<1>3. Connects(s)'
  <2>1. /\ owner[s] = "async" /\ op[<<s, "read">>] = "none"
        /\ sock[s].conn \in {"progress", "up", "eof", "failed"}
    BY <1>1, SocketsAssumption DEF CInv, Connects, Unused
  <2>2. stage'[s] = "wait"
    BY <1>1 DEF CInv
  <2>3. op'[<<s, "write">>] = "ready" /\ op'[<<s, "read">>] = "none"
    BY <1>1, <2>1, BothEnds, OpKeeps, SocketsAssumption DEF IInv, TypeOK
  <2>4. sock[s].conn = "progress" => ~Ready(<<s, "write">>)
    BY DEF CInv, Agrees, Ready, PollState
  <2>5. sock[s].conn = "progress" => ~seen'[<<s, "write">>]
    BY <1>1, <2>4, BothEnds, Zenon DEF IInv, TypeOK
  <2> QED
    BY <1>1, <2>1, <2>2, <2>3, <2>5 DEF Connects
<1> QED
  BY <1>2, <1>3, KeptConnects DEF CInv

\* A later one: it does not return while the connection is under way.
LEMMA ConnectPollConnects ==
  ASSUME IInv, SInv, CInv, NEW s \in Sources, NEW w \in Wakers, ConnectPoll(s, w)
  PROVE  \A r \in Sources : Connects(r)'
<1>1. stage[s] = "wait" /\ UNCHANGED <<stage, sock, owner>>
  BY DEF ConnectPoll, socketVars
<1>2. /\ owner[s] = "async" /\ op[<<s, "read">>] = "none"
      /\ sock[s].conn \in {"progress", "up", "eof", "failed"}
      /\ sock[s].conn = "progress" => ~seen[<<s, "write">>]
  BY <1>1 DEF CInv, Connects
<1>3. WaitReadyAgain(<<s, "write">>, w)
  <2>1. PICK d \in Dirs : WaitReadyAgain(<<s, d>>, w)
    BY DEF ConnectPoll
  <2>2. op[<<s, d>>] = "ready"
    BY <2>1 DEF WaitReadyAgain
  <2>3. d = "write"
    BY <1>2, <2>2, SocketsAssumption
  <2> QED
    BY <2>1, <2>3
<1>4. PICK kind \in {"none", "ready"} : /\ op' = [op EXCEPT ![<<s, "write">>] = kind]
                                        /\ kind = "none" => ~enabled[<<s, "write">>]
  BY <1>3 DEF WaitReadyAgain, End, Suspend, is_event_ready
<1>5. op'[<<s, "write">>] = kind /\ op'[<<s, "read">>] = "none"
  BY <1>2, <1>4, BothEnds, OpKeeps, SocketsAssumption DEF IInv, TypeOK
<1>6. \A e \in Ends : seen'[e] => seen[e]
  BY <1>3, BothEnds, Zenon DEF WaitReadyAgain, IInv, TypeOK
<1>7. kind = "none" => seen[<<s, "write">>]
  <2>1. op[<<s, "write">>] = "ready" /\ <<s, "write">> \in Ends
    BY <1>3, BothEnds, Zenon DEF WaitReadyAgain
  <2> QED
    BY <1>4, <2>1 DEF IInv, ReadyHonest
<1>8. Connects(s)'
  BY <1>1, <1>2, <1>5, <1>6, <1>7, BothEnds DEF Connects
<1>9. ASSUME NEW r \in Sources, r # s PROVE Kept(r)
  <2>1. \A d \in Dirs : op'[<<r, d>>] = op[<<r, d>>]
    BY <1>4, <1>9, OpKeeps, SocketsAssumption
  <2>2. seen'[<<r, "write">>] => seen[<<r, "write">>]
    BY <1>6, BothEnds, Zenon
  <2> QED
    BY <1>1, <2>1, <2>2 DEF Kept
<1> QED
  BY <1>8, <1>9, KeptConnects DEF CInv

\* An operation of the user is on a source that connect() does not use.
LEMMA UserConnects ==
  ASSUME IInv, SInv, CInv, NEW s \in Sources, NEW d \in Dirs, NEW kind, stage[s] = "none",
         op' = [op EXCEPT ![<<s, d>>] = kind], UNCHANGED <<owner, stage>>,
         \/ UNCHANGED sock /\ \A e \in Ends : e # <<s, d>> => seen'[e] = seen[e]
         \/ \E x : Sets(s, x)
  PROVE  \A r \in Sources : Connects(r)'
<1>1. ASSUME NEW r \in Sources, r # s PROVE Kept(r)
  <2>1. \A c \in Dirs : op'[<<r, c>>] = op[<<r, c>>]
    BY <1>1, OpKeeps
  <2>2. sock'[r] = sock[r] /\ (seen'[<<r, "write">>] => seen[<<r, "write">>])
    <3>1. CASE \E x : Sets(s, x)
      BY <1>1, <3>1, SetsKeep DEF IInv
    <3>2. CASE UNCHANGED sock /\ \A e \in Ends : e # <<s, d>> => seen'[e] = seen[e]
      <4>1. <<r, "write">> \in Ends
        BY BothEnds, Zenon
      <4>2. <<r, "write">> # <<s, d>>
        BY <1>1, Zenon
      <4> QED
        BY <3>2, <4>1, <4>2, Zenon
    <3> QED
      BY <3>1, <3>2
  <2> QED
    BY <2>1, <2>2 DEF Kept
<1> QED
  BY <1>1, AsideConnects

\* A socket changes, or changes hands, that connect() does not use.
LEMMA SocketConnects ==
  ASSUME IInv, SInv, CInv, NEW s \in Sources, NEW x, Sets(s, x), stage[s] = "none",
         NEW to, owner' = [owner EXCEPT ![s] = to], UNCHANGED <<op, stage>>
  PROVE  \A r \in Sources : Connects(r)'
<1>1. ASSUME NEW r \in Sources, r # s PROVE Kept(r)
  <2>1. sock'[r] = sock[r] /\ (seen'[<<r, "write">>] => seen[<<r, "write">>])
    BY <1>1, SetsKeep DEF IInv
  <2>2. owner'[r] = owner[r]
    BY <1>1 DEF SInv
  <2> QED
    BY <2>1, <2>2 DEF Kept
<1> QED
  BY <1>1, AsideConnects

\* The Async of s ends, which connect() does not use or gives up.
LEMMA EndConnects ==
  ASSUME SInv, CInv, NEW s \in Sources, NEW to, owner' = [owner EXCEPT ![s] = to],
         stage' = [stage EXCEPT ![s] = "none"], UNCHANGED <<op, seen, sock>>
  PROVE  \A r \in Sources : Connects(r)'
<1>1. ASSUME NEW r \in Sources, r # s PROVE Kept(r)
  BY <1>1 DEF SInv, CInv, Kept
<1>2. stage'[s] = "none"
  BY DEF CInv
<1> QED
  BY <1>1, <1>2, AsideConnects

\* A step of connect() that touches nothing but its stage and who waits.
LEMMA StageConnects ==
  ASSUME SInv, CInv, NEW s \in Sources, stage[s] # "none", NEW to \in {"none", "ok", "err", "drop"},
         stage' = [stage EXCEPT ![s] = to], UNCHANGED <<owner, sock>>,
         \A r \in Sources : r # s =>
           /\ \A d \in Dirs : op'[<<r, d>>] = op[<<r, d>>]
           /\ seen'[<<r, "write">>] => seen[<<r, "write">>]
  PROVE  \A r \in Sources : Connects(r)'
<1>1. ASSUME NEW r \in Sources, r # s PROVE Kept(r)
  <2>1. stage'[r] = stage[r]
    BY <1>1 DEF CInv
  <2> QED
    BY <1>1, <2>1 DEF Kept
<1>2. Connects(s)'
  <2>1. stage'[s] = to
    BY DEF CInv
  <2>2. Connects(s)
    BY Zenon DEF CInv
  <2>3. owner[s] = "async"
    BY <2>2, Zenon DEF Connects
  <2> QED
    BY <2>1, <2>3 DEF Connects
<1> QED
  BY <1>1, <1>2, KeptConnects DEF CInv

\* Every step of Sockets keeps what connect() relies on.
LEMMA ConnectsNext ==
  ASSUME IInv, SInv, CInv, [SocketsNext]_allVars
  PROVE  \A r \in Sources : Connects(r)'
<1> USE DEF socketVars, opVars
<1>1. ASSUME UNCHANGED <<op, seen, sock, owner, stage>>
      PROVE  \A r \in Sources : Connects(r)'
  <2>1. \A r \in Sources : Kept(r)
    BY <1>1 DEF Kept
  <2> QED
    BY <2>1, KeptConnects DEF CInv
<1>2. \A s \in Sources : owner[s] # "async" => stage[s] = "none"
  BY Zenon DEF CInv, Connects
<1>3. ASSUME NEW s \in Sources, KernelStep(s) PROVE \A r \in Sources : Connects(r)'
  <2>1. PICK x \in KernelMoves(sock[s]) : Sets(s, x)
    BY <1>3 DEF KernelStep
  <2>2. UNCHANGED <<op, owner, stage>>
    BY <1>3 DEF KernelStep
  <2>3. sock'[s] = x
    BY <2>1, SetsKeep DEF IInv
  <2>4. x.conn \in {"up", "eof", "failed"}
    BY <2>1, MovesConnect DEF SInv
  <2>5. Connects(s)'
    BY <2>2, <2>3, <2>4 DEF CInv, Connects, Unused
  <2>6. \A r \in Sources : r # s => Kept(r)
    BY <2>1, <2>2, SetsKeep DEF IInv, Kept
  <2> QED
    BY <2>5, <2>6, KeptConnects DEF CInv
<1>4. ASSUME NEW s \in Sources, NEW x, NEW how, without_nonblocking(s, x, how),
             UNCHANGED stage, owner[s] \in {"none", "user"}
      PROVE  \A r \in Sources : Connects(r)'
  <2>1. stage[s] = "none"
    BY <1>2, <1>4
  <2>2. Sets(s, x) /\ owner' = [owner EXCEPT ![s] = how] /\ UNCHANGED op
    BY <1>4 DEF without_nonblocking
  <2> QED
    BY <1>4, <2>1, <2>2, SocketConnects, Zenon
<1>5. ASSUME NEW s \in Sources, Make(s) PROVE \A r \in Sources : Connects(r)'
  <2>1. CASE Open(s)
    <3>1. PICK kind \in {"listener", "stream", "udp"} : Sets(s, Socket(kind, "up", FALSE))
      BY <2>1, Zenon DEF Open
    <3>2. /\ stage[s] = "none" /\ owner' = [owner EXCEPT ![s] = "user"]
          /\ UNCHANGED <<op, stage>>
      BY <1>2, <2>1 DEF Open
    <3> QED
      BY <3>1, <3>2, SocketConnects, Zenon
  <2>2. CASE UserClose(s)
    <3>1. /\ stage[s] = "none" /\ owner' = [owner EXCEPT ![s] = "none"]
          /\ UNCHANGED <<op, stage>>
      BY <1>2, <2>2 DEF UserClose
    <3> QED
      BY <2>2, <3>1, SocketConnects, Zenon DEF UserClose
  <2>3. CASE NewAsync(s) \/ Accepted(s) \/ \E kind \in {"listener", "udp"} : bind(s, kind)
    BY <1>4, <2>3, Zenon DEF NewAsync, Accepted, bind
  <2>4. CASE NewAsyncAgain(s)
    BY <1>1, <2>4 DEF NewAsyncAgain, NewAgain
  <2> QED
    BY <1>5, <2>1, <2>2, <2>3, <2>4 DEF Make
<1>6. ASSUME NEW s \in Sources, DropAsync(s) PROVE \A r \in Sources : Connects(r)'
  <2>1. CASE DropSource(s)
    <3>1. UNCHANGED <<op, seen, sock>> /\ stage' = [stage EXCEPT ![s] = "none"]
      BY <2>1 DEF DropSource, Deregister
    <3> QED
      BY <2>1, <3>1, EndConnects, Zenon DEF DropSource
  <2>2. CASE DropInner(s)
    <3>1. /\ stage[s] = "none" /\ owner' = [owner EXCEPT ![s] = "none"]
          /\ UNCHANGED <<op, stage>>
      BY <1>2, <2>2 DEF DropInner
    <3> QED
      BY <2>2, <3>1, SocketConnects, Zenon DEF DropInner
  <2>3. CASE into_inner(s)
    <3>1. stage[s] = "none" /\ UNCHANGED <<stage, op, seen, sock>>
      BY <2>3 DEF into_inner, Usable, Deregister
    <3>2. \A r \in Sources : r # s => Kept(r)
      BY <2>3, <3>1 DEF into_inner, Kept, SInv
    <3> QED
      BY <3>1, <3>2, AsideConnects
  <2> QED
    BY <1>6, <2>1, <2>2, <2>3 DEF DropAsync
<1>7. ASSUME NEW s \in Sources, ConnectStart(s) PROVE \A r \in Sources : Connects(r)'
  <2>1. PICK x \in Connecting :
          /\ without_nonblocking(s, x, "async")
          /\ stage' = [stage EXCEPT ![s] = IF x.conn = "failed" THEN "err" ELSE "start"]
    BY <1>7, Zenon DEF ConnectStart
  <2>2. x.conn \in {"up", "progress", "failed"}
    BY DEF Connecting, tcp_socket, Socket
  <2>3. /\ s \notin event_sources /\ Sets(s, x) /\ UNCHANGED op
        /\ owner' = [owner EXCEPT ![s] = "async"]
    BY <2>1 DEF without_nonblocking
  <2>4. Unused(s)
    <3>1. ASSUME NEW d \in Dirs PROVE op[<<s, d>>] = "none"
      <4>1. <<s, d>> \in Ends /\ <<s, d>>[1] = s
        BY DEF Ends
      <4> QED
        BY <2>3, <4>1, Zenon DEF IInv, UsedRegistered
    <3> QED
      BY <3>1 DEF Unused
  <2>5. /\ sock'[s] = x /\ owner'[s] = "async" /\ stage'[s] \in {"err", "start"}
    BY <2>1, <2>3, SetsKeep DEF IInv, SInv, CInv
  <2>6. Connects(s)'
    BY <2>2, <2>3, <2>4, <2>5 DEF Connects, Unused
  <2>7. ASSUME NEW r \in Sources, r # s PROVE Kept(r)
    <3>1. stage'[r] = stage[r] /\ owner'[r] = owner[r]
      BY <2>1, <2>3, <2>7 DEF CInv, SInv
    <3> QED
      BY <2>3, <2>7, <3>1, SetsKeep DEF IInv, Kept
  <2> QED
    BY <2>6, <2>7, KeptConnects DEF CInv
<1>8. ASSUME NEW s \in Sources, ConnectCheck(s) \/ ConnectReturn(s)
      PROVE  \A r \in Sources : Connects(r)'
  BY <1>8, StageConnects DEF ConnectCheck, ConnectReturn, vars
<1>9. ASSUME NEW s \in Sources, ConnectCancel(s) PROVE \A r \in Sources : Connects(r)'
  <2>1. PICK d \in Dirs : Cancel(<<s, d>>)
    BY <1>9 DEF ConnectCancel
  <2>2. /\ op' = [op EXCEPT ![<<s, d>>] = "none"]
        /\ seen' = [seen EXCEPT ![<<s, d>>] = FALSE]
    BY <2>1 DEF Cancel, End
  <2>3. ASSUME NEW r \in Sources, r # s
        PROVE  /\ \A c \in Dirs : op'[<<r, c>>] = op[<<r, c>>]
               /\ seen'[<<r, "write">>] => seen[<<r, "write">>]
    <3>1. <<r, "write">> # <<s, d>>
      BY <2>3, Zenon
    <3>2. <<r, "write">> \in Ends
      BY BothEnds, Zenon
    <3>3. seen'[<<r, "write">>] = seen[<<r, "write">>]
      BY <2>2, <3>1, <3>2, Zenon DEF IInv, TypeOK
    <3> QED
      BY <2>2, <2>3, <3>3, OpKeeps
  <2>4. /\ stage[s] # "none" /\ stage' = [stage EXCEPT ![s] = "drop"]
        /\ UNCHANGED <<owner, sock>>
    BY <1>9 DEF ConnectCancel
  <2> QED
    BY <2>3, <2>4, StageConnects, Zenon
<1>10. ASSUME NEW s \in Sources, NEW w \in Wakers, ConnectWait(s, w) \/ ConnectPoll(s, w)
       PROVE  \A r \in Sources : Connects(r)'
  BY <1>10, ConnectWaitConnects, ConnectPollConnects
<1>11. ASSUME NEW s \in Sources, NEW o \in Operations, NEW w \in Wakers, Operate(s, o, w)
       PROVE  \A r \in Sources : Connects(r)'
  <2>1. o.dir \in Dirs
    BY SocketsAssumption, OperationDirs
  <2>2. stage[s] = "none" /\ UNCHANGED <<owner, stage>>
    BY <1>11 DEF Operate, Usable
  <2>3. PICK kind : op' = [op EXCEPT ![<<s, o.dir>>] = kind]
    BY <1>11 DEF Operate, poll_event, Suspend, End
  <2>4. UNCHANGED <<sock, seen>> \/ \E x : Sets(s, x)
    BY <1>11, Zenon DEF Operate
  <2> QED
    BY <2>1, <2>2, <2>3, <2>4, UserConnects, Zenon
<1>12. ASSUME NEW e \in Ends,
              \/ CancelOperation(e)
              \/ \E w \in Wakers : Await(e, w) \/ AwaitAgain(e, w)
       PROVE  \A r \in Sources : Connects(r)'
  <2>1. PICK s \in Sources, d \in Dirs : e = <<s, d>>
    BY EndsPairs
  <2>2. stage[s] = "none" /\ UNCHANGED <<owner, stage, sock>>
    BY <1>12, <2>1 DEF Await, AwaitAgain, CancelOperation, Usable
  <2>3. PICK kind : op' = [op EXCEPT ![<<s, d>>] = kind]
    BY <1>12, <2>1, Zenon DEF Await, AwaitAgain, CancelOperation, WaitReadyFirst,
       WaitReadyAgain, Cancel, Suspend, End
  <2>4. \A f \in Ends : f # <<s, d>> => seen'[f] = seen[f]
    BY <1>12, <2>1, Zenon DEF Await, AwaitAgain, CancelOperation, WaitReadyFirst,
       WaitReadyAgain, Cancel, IInv, TypeOK
  <2> QED
    BY <2>2, <2>3, <2>4, UserConnects, Zenon
<1>13. CASE Reactor
  BY <1>1, <1>13 DEF Reactor, Wait, Poll, WaitSkip, WaitPoll, PollSources,
                     PollSpecials, PollBoth, PollFails
<1>14. ASSUME NEW x \in Specials, SpecialReady(x), UNCHANGED socketVars
       PROVE  \A r \in Sources : Connects(r)'
  BY <1>1, <1>14 DEF SpecialReady
<1>15. CASE UNCHANGED allVars
  BY <1>1, <1>15 DEF allVars, vars
<1> QED
  BY <1>3, <1>5, <1>6, <1>7, <1>8, <1>9, <1>10, <1>11, <1>12, <1>13, <1>14, <1>15
  DEF SocketsNext, Connect

\* connect() goes through its stages.
LEMMA StageNext ==
  ASSUME CInv, [SocketsNext]_allVars
  PROVE  stage' \in [Sources -> Stages]
<1>1. CASE UNCHANGED stage
  BY <1>1 DEF CInv
<1>2. ASSUME NEW s \in Sources, NEW to \in Stages, stage' = [stage EXCEPT ![s] = to]
      PROVE  stage' \in [Sources -> Stages]
  BY <1>2 DEF CInv
<1>3. ASSUME NEW s \in Sources, Make(s) \/ DropAsync(s) \/ KernelStep(s)
      PROVE  stage' \in [Sources -> Stages]
  <2>1. UNCHANGED stage \/ stage' = [stage EXCEPT ![s] = "none"]
    BY <1>3, Zenon DEF Make, DropAsync, KernelStep, Open, UserClose, NewAsync,
       NewAsyncAgain, Accepted, bind, DropSource, DropInner, into_inner, socketVars
  <2> QED
    BY <1>1, <1>2, <2>1 DEF Stages
<1>4. ASSUME NEW s \in Sources, Connect(s) PROVE stage' \in [Sources -> Stages]
  <2>1. \/ UNCHANGED stage
        \/ \E to \in Stages : stage' = [stage EXCEPT ![s] = to]
    BY <1>4 DEF Connect, ConnectStart, ConnectCheck, ConnectReturn, ConnectCancel,
       ConnectWait, ConnectPoll, socketVars, Stages
  <2> QED
    BY <1>1, <1>2, <2>1
<1> QED
  BY <1>1, <1>3, <1>4, Zenon
  DEF SocketsNext, Operate, CancelOperation, Await, AwaitAgain, Reactor, socketVars,
      allVars

\* poll(2) goes on to report what the sockets say.
LEMMA SocketsAgree ==
  ASSUME IInv, SInv, Agrees, [SocketsNext]_allVars
  PROVE  Agrees'
<1> SUFFICES UNCHANGED <<ready, sock>> \/ \E s \in Sources : \E x : Sets(s, x)
  BY AgreesNext DEF IInv
<1>1. ASSUME NEW s \in Sources, Make(s) \/ DropAsync(s) \/ KernelStep(s)
      PROVE  UNCHANGED <<ready, sock>> \/ \E x : Sets(s, x)
  BY <1>1, Zenon
  DEF Make, DropAsync, KernelStep, Open, UserClose, NewAsync, NewAsyncAgain, NewAgain,
      Accepted, bind, without_nonblocking, DropSource, DropInner, into_inner,
      Deregister, socketVars
<1>2. ASSUME NEW s \in Sources, Connect(s)
      PROVE  UNCHANGED <<ready, sock>> \/ \E x : Sets(s, x)
  BY <1>2, Zenon
  DEF Connect, ConnectStart, ConnectCheck, ConnectReturn, ConnectCancel, ConnectWait,
      ConnectPoll, WaitReadyFirst, WaitReadyAgain, Cancel, without_nonblocking,
      socketVars, vars
<1>3. ASSUME NEW s \in Sources, NEW o \in Operations, NEW w \in Wakers, Operate(s, o, w)
      PROVE  UNCHANGED <<ready, sock>> \/ \E x : Sets(s, x)
  BY <1>3, Zenon DEF Operate
<1>4. ASSUME NEW e \in Ends,
             \/ CancelOperation(e)
             \/ \E w \in Wakers : Await(e, w) \/ AwaitAgain(e, w)
      PROVE  UNCHANGED <<ready, sock>>
  BY <1>4 DEF CancelOperation, Await, AwaitAgain, Cancel, WaitReadyFirst, WaitReadyAgain,
     socketVars
<1>5. CASE Reactor \/ (\E x \in Specials : SpecialReady(x) /\ UNCHANGED socketVars)
  BY <1>5 DEF Reactor, Wait, Poll, WaitSkip, WaitPoll, PollSources, PollSpecials,
     PollBoth, PollFails, SpecialReady, socketVars
<1> QED
  BY <1>1, <1>2, <1>3, <1>4, <1>5 DEF SocketsNext, allVars, vars, socketVars

\* The three invariants together.
LEMMA ConnectInvariant == SocketsSpec => [](IInv /\ SInv /\ CInv)
<1>1. SocketsInit => CInv
  <2> SUFFICES ASSUME SocketsInit PROVE CInv
    OBVIOUS
  <2>1. stage \in [Sources -> Stages] /\ \A s \in Sources : stage[s] = "none"
    BY DEF SocketsInit, Stages
  <2>2. PollState(Closed) = {}
    BY DEF PollState, Closed, Socket
  <2>3. Agrees
    BY <2>2 DEF SocketsInit, Init, Agrees
  <2> QED
    BY <2>1, <2>3 DEF CInv, Connects
<1>2. IInv /\ SInv /\ CInv /\ [SocketsNext]_allVars => CInv'
  BY ConnectsNext, StageNext, SocketsAgree DEF CInv
<1>3. SocketsInit => Init
  BY DEF SocketsInit
<1> QED
  BY <1>1, <1>2, <1>3, InitIInv, NextIInv, StepImplements, InitSInv, NextSInv, PTL
  DEF SocketsSpec

\* What the variables of the sockets, of Async and of the reactor hold; poll(2)
\* reports of a socket what its state calls for.
THEOREM SocketsTypes == SocketsSpec => []SocketsTypeOK
<1>1. IInv /\ SInv /\ CInv => SocketsTypeOK
  BY DEF IInv, SInv, CInv, SocketsTypeOK, Owners, Stages, Agrees
<1> QED
  BY <1>1, ConnectInvariant, PTL

\* connect() tells the truth about the connection, and never gives up while it is
\* under way: it goes on only if the end for writing was reported, and that is
\* not before the kernel knows.
THEOREM ConnectIsHonest == SocketsSpec => ConnectHonest
<1>1. IInv /\ SInv /\ CInv /\ [SocketsNext]_allVars =>
        [\A s \in Sources : stage[s] = "wait" =>
           /\ stage'[s] = "ok" => sock[s].conn \in {"up", "eof"}
           /\ stage'[s] = "err" => sock[s].conn = "failed"]_allVars
  <2> SUFFICES ASSUME IInv, SInv, CInv, [SocketsNext]_allVars, NEW s \in Sources,
                      stage[s] = "wait", stage'[s] \in {"ok", "err"}
               PROVE  /\ stage'[s] = "ok" => sock[s].conn \in {"up", "eof"}
                      /\ stage'[s] = "err" => sock[s].conn = "failed"
    BY DEF allVars
  <2>1. CASE ConnectCheck(s)
    <3>1. stage'[s] = IF sock[s].conn \in {"up", "eof"} THEN "ok" ELSE "err"
      BY <2>1 DEF ConnectCheck, CInv
    <3>2. op[<<s, "write">>] = "none"
      BY <2>1, SocketsAssumption DEF ConnectCheck, Unused
    <3>3. Connects(s)
      BY Zenon DEF CInv
    <3>4. sock[s].conn \in {"up", "eof", "failed"}
      BY <3>2, <3>3 DEF Connects
    <3> QED
      BY <3>1, <3>4
  <2>2. ASSUME NEW r \in Sources, NEW to, stage' = [stage EXCEPT ![r] = to],
               r # s \/ to \notin {"ok", "err"}
        PROVE  FALSE
    BY <2>2 DEF CInv
  <2>3. CASE UNCHANGED stage
    BY <2>3
  <2>4. ASSUME NEW r \in Sources, Make(r) \/ DropAsync(r) \/ KernelStep(r) PROVE FALSE
    <3>1. UNCHANGED stage \/ stage' = [stage EXCEPT ![r] = "none"]
      BY <2>4, Zenon DEF Make, DropAsync, KernelStep, Open, UserClose, NewAsync,
         NewAsyncAgain, Accepted, bind, DropSource, DropInner, into_inner, socketVars
    <3> QED
      BY <2>2, <2>3, <3>1
  <2>5. ASSUME NEW r \in Sources, Connect(r), ~ConnectCheck(s) PROVE FALSE
    <3>1. CASE ConnectCheck(r)
      <4>1. r # s
        BY <2>5, <3>1
      <4> QED
        BY <2>2, <3>1, <4>1, Zenon DEF ConnectCheck
    <3>2. CASE ConnectStart(r)
      <4>1. owner[s] = "async"
        <5>1. Connects(s)
          BY Zenon DEF CInv
        <5> QED
          BY <5>1, Zenon DEF Connects
      <4>2. owner[r] = "none"
        BY <3>2 DEF ConnectStart
      <4> QED
        BY <2>2, <3>2, <4>1, <4>2, Zenon DEF ConnectStart
    <3>3. CASE \/ ConnectReturn(r) \/ ConnectCancel(r)
               \/ \E w \in Wakers : ConnectWait(r, w) \/ ConnectPoll(r, w)
      BY <2>2, <2>3, <3>3 DEF ConnectReturn, ConnectCancel, ConnectWait, ConnectPoll,
         socketVars
    <3> QED
      BY <2>5, <3>1, <3>2, <3>3 DEF Connect
  <2> QED
    BY <2>1, <2>3, <2>4, <2>5, Zenon
    DEF SocketsNext, Operate, CancelOperation, Await, AwaitAgain, Reactor, socketVars,
        allVars
<1> QED
  BY <1>1, ConnectInvariant, PTL DEF SocketsSpec, ConnectHonest
===============================================================================
