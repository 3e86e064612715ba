-------------------------- MODULE SshServerProofs --------------------------
(***************************************************************************)
(* Proofs about SshServer, for every set of clients, every length of the   *)
(* backlog, every number of handshake attempts and of failures.            *)
(***************************************************************************)
EXTENDS SshServer, TLAPS

-----------------------------------------------------------------------------
(* The inductive invariant                                                 *)

Occupied == {"new"} \cup Serving

\* What the server task holds at each place of its start and of its loop.
Holdings ==
    /\ tasks = IF server = "none" THEN 0 ELSE 1
    /\ ~startRequested => server = "none"
    /\ server \in {"none", "load", "library"} => held = {}
    /\ server = "context" => held = {"library"}
    /\ server = "socket" => held = {"library", "context"}
    /\ server = "bind" => held = {"library", "context", "socket"}
    /\ server = "accept" => held = Started
    /\ server = "new" => held = Started \cup {"connection"}
    /\ server \in Serving => held = Started \cup {"connection", "session"}

\* What is known of the client at each place of the loop.  `asked` and
\* g_shellRequestAccepted may be those of the client before until the places
\* named here.
Progress ==
    /\ client = NoClient <=> server \notin Occupied
    /\ server = "handshake" => attempts < MaxAttempts
    /\ server \in Occupied /\ asked => client.wants = "shell"
    /\ server \in Serving /\ shellRequested => asked
    /\ server \in {"worker", "session", "sftp"} => UserAuth(client)
    /\ server = "session" => shellRequested

IInv == TypeOK /\ Holdings /\ Progress

\* The two halves of TypeOK: the flags, and the rest.
Flags == /\ provisioned \in BOOLEAN /\ startRequested \in BOOLEAN
         /\ shellRequested \in BOOLEAN /\ sent \in BOOLEAN /\ asked \in BOOLEAN
Others ==
    /\ tasks \in 0..1
    /\ server \in {"none", "load", "library", "context", "socket", "bind", "accept",
                   "new"} \cup Serving
    /\ held \subseteq Started \cup {"connection", "session"}
    /\ client \in Clients \cup {NoClient}
    /\ attempts \in 0..MaxAttempts
    /\ backlog \in Seq(Clients) /\ Len(backlog) <= Backlog
    /\ open \subseteq Clients
    /\ failures \in 0..MaxFailures

LEMMA IInvInit == Init => IInv
<1> SUFFICES ASSUME Init PROVE IInv OBVIOUS
<1> USE SshAssumption DEF Init, Occupied, Serving, Started
<1>1. TypeOK
  <2>1. Flags BY DEF Flags
  <2>2. Others BY DEF Others
  <2> QED BY <2>1, <2>2 DEF TypeOK, Flags, Others
<1>2. Holdings BY DEF Holdings
<1>3. Progress BY DEF Progress
<1> QED BY <1>1, <1>2, <1>3 DEF IInv

\* The steps of the start: each acquires or gives back, and there is no client yet.
LEMMA StartStep == IInv /\ (GotIp \/ StartUp) => IInv'
<1> SUFFICES ASSUME IInv, GotIp \/ StartUp PROVE IInv' OBVIOUS
<1> USE SshAssumption DEF IInv, TypeOK, Holdings, Progress, Occupied, Serving, Started,
        start, peers, Fails, UserAuth
<1>1. CASE GotIp BY <1>1 DEF GotIp
<1>2. CASE LoadAuth
  <2>1. TypeOK'
    <3>1. held = {} BY <1>2 DEF LoadAuth
    <3>2. CASE provisioned BY <1>2, <3>1, <3>2 DEF LoadAuth
    <3>3. CASE ~provisioned BY <1>2, <3>1, <3>3 DEF LoadAuth, End
    <3> QED BY <3>2, <3>3
  <2>2. Holdings' BY <1>2 DEF LoadAuth, End
  <2>3. Progress' BY <1>2 DEF LoadAuth, End
  <2> QED BY <2>1, <2>2, <2>3
<1>3. CASE StartLibrary BY <1>3 DEF StartLibrary, Acquire
<1>4. CASE LibraryFails BY <1>4 DEF LibraryFails, Abandon, End
<1>5. CASE NewContext BY <1>5 DEF NewContext, Acquire
<1>6. CASE ContextFails BY <1>6 DEF ContextFails, Abandon, End
<1>7. CASE NewListener BY <1>7 DEF NewListener, Acquire
<1>8. CASE ListenerFails BY <1>8 DEF ListenerFails, Abandon, End
<1>9. CASE Listen BY <1>9 DEF Listen, Acquire
<1>10. CASE BindFails BY <1>10 DEF BindFails, Abandon, End
<1> QED BY <1>1, <1>2, <1>3, <1>4, <1>5, <1>6, <1>7, <1>8, <1>9, <1>10 DEF StartUp

\* The steps of one client's turn.
LEMMA ServeStep == IInv /\ Serve => IInv'
<1> SUFFICES ASSUME IInv, Serve PROVE IInv' OBVIOUS
<1> USE SshAssumption DEF IInv, TypeOK, Holdings, Progress, Occupied, Serving, Started,
        start, peers, Fails, UserAuth, ServerOnly, Read, Readable, Here
<1>1. CASE AcceptClient
  <2>1. TypeOK'
    <3>1. Flags' BY <1>1 DEF Flags, AcceptClient
    <3>2. Others' BY <1>1 DEF Others, AcceptClient
    <3> QED BY <3>1, <3>2 DEF Flags, Others
  <2>2. Holdings' BY <1>1 DEF AcceptClient
  <2>3. Progress' BY <1>1 DEF AcceptClient
  <2> QED BY <2>1, <2>2, <2>3
<1>2. CASE NewSession
  <2>1. TypeOK'
    <3>1. Flags' BY <1>2 DEF Flags, NewSession
    <3>2. Others' BY <1>2 DEF Others, NewSession
    <3> QED BY <3>1, <3>2 DEF Flags, Others
  <2>2. Holdings' BY <1>2 DEF NewSession
  <2>3. Progress' BY <1>2 DEF NewSession
  <2> QED BY <2>1, <2>2, <2>3
<1>3. CASE SessionFails BY <1>3 DEF SessionFails
<1>4. CASE HandshakePending
  <2>1. TypeOK'
    <3>1. Flags' BY <1>4 DEF Flags, HandshakePending
    <3>2. Others' BY <1>4 DEF Others, HandshakePending
    <3> QED BY <3>1, <3>2 DEF Flags, Others
  <2>2. Holdings' BY <1>4 DEF HandshakePending
  <2>3. Progress' BY <1>4 DEF HandshakePending
  <2> QED BY <2>1, <2>2, <2>3
<1>5. CASE HandshakeDone
  <2>1. TypeOK'
    <3>1. Flags' BY <1>5 DEF Flags, HandshakeDone, ShellRequest
    <3>2. Others' BY <1>5 DEF Others, HandshakeDone
    <3> QED BY <3>1, <3>2 DEF Flags, Others
  <2>2. Holdings' BY <1>5 DEF HandshakeDone
  <2>3. Progress' BY <1>5 DEF HandshakeDone, ShellRequest
  <2> QED BY <2>1, <2>2, <2>3
<1>6. CASE HandshakeRejected BY <1>6 DEF HandshakeRejected
<1>7. CASE Worker BY <1>7 DEF Worker, ShellRequest
<1>8. CASE WorkerFails BY <1>8 DEF WorkerFails
<1>9. CASE StartSession BY <1>9 DEF StartSession
<1>10. CASE SessionEnds
  <2>1. TypeOK'
    <3>1. Flags' BY <1>10 DEF Flags, SessionEnds
    <3>2. Others' BY <1>10 DEF Others, SessionEnds
    <3> QED BY <3>1, <3>2 DEF Flags, Others
  <2>2. Holdings' BY <1>10 DEF SessionEnds
  <2>3. Progress' BY <1>10 DEF SessionEnds
  <2> QED BY <2>1, <2>2, <2>3
<1>11. CASE SessionReads BY <1>11 DEF SessionReads
<1>12. CASE SftpReads BY <1>12 DEF SftpReads
<1>13. CASE SftpEnds
  <2>1. TypeOK'
    <3>1. Flags' BY <1>13 DEF Flags, SftpEnds
    <3>2. Others' BY <1>13 DEF Others, SftpEnds
    <3> QED BY <3>1, <3>2 DEF Flags, Others
  <2>2. Holdings' BY <1>13 DEF SftpEnds
  <2>3. Progress' BY <1>13 DEF SftpEnds
  <2> QED BY <2>1, <2>2, <2>3
<1>14. CASE Close BY <1>14 DEF Close
<1> QED BY <1>1, <1>2, <1>3, <1>4, <1>5, <1>6, <1>7, <1>8, <1>9, <1>10, <1>11, <1>12, <1>13,
           <1>14
        DEF Serve

\* The steps of the clients, which never move the server.
LEMMA ClientStep ==
    IInv /\ (Send \/ \E c \in Clients : Connect(c) \/ Leave(c)) => IInv'
<1> SUFFICES ASSUME IInv, Send \/ \E c \in Clients : Connect(c) \/ Leave(c) PROVE IInv'
    OBVIOUS
<1> USE SshAssumption DEF IInv, TypeOK, Holdings, Progress, Occupied, Serving, Started,
        start, peers, UserAuth
<1>1. CASE Send BY <1>1 DEF Send
<1>2. ASSUME NEW c \in Clients, Connect(c) PROVE IInv' BY <1>2 DEF Connect
<1>3. ASSUME NEW c \in Clients, Leave(c) PROVE IInv' BY <1>3 DEF Leave
<1> QED BY <1>1, <1>2, <1>3

LEMMA IInvStep == IInv /\ [Next]_vars => IInv'
<1> SUFFICES ASSUME IInv, [Next]_vars PROVE IInv' OBVIOUS
<1>1. CASE UNCHANGED vars
      BY <1>1 DEF vars, start, peers, IInv, TypeOK, Holdings, Progress, Occupied, UserAuth
<1>2. CASE Next BY <1>2, StartStep, ServeStep, ClientStep DEF Next
<1> QED BY <1>1, <1>2

-----------------------------------------------------------------------------
(* Theorems                                                                *)

\* The invariant behind the others, kept by the event loop, the server task and
\* the clients.
THEOREM Inductive == Spec => []IInv
BY IInvInit, IInvStep, PTL DEF Spec

\* Type correctness, with every bound: at most one server task, at most Backlog
\* clients waiting, at most MaxAttempts handshake calls (ssh_server_task()).
THEOREM TypeCorrect == Spec => []TypeOK
<1>1. IInv => TypeOK BY DEF IInv
<1> QED BY <1>1, Inductive, PTL

\* Whatever fails, and wherever the server gives up, it has given back what it
\* had acquired; between two clients it holds the listener and nothing else
\* (ssh_server_task(), close_session()).
THEOREM Releases == Spec => []NothingLeaks
<1>1. IInv => NothingLeaks
  <2> SUFFICES ASSUME IInv PROVE NothingLeaks OBVIOUS
  <2>1. Holdings /\ (client = NoClient <=> server \notin Occupied) BY DEF IInv, Progress
  <2> QED BY <2>1 DEF Holdings, NothingLeaks, Occupied, Serving
<1> QED BY <1>1, Inductive, PTL

\* However many clients of whatever kind came before, and whatever they asked for,
\* a client gets a shell or files only by its own credentials and a shell only
\* at its own request (user_auth(), serve_shell(), serve_sftp()).
THEOREM ServesAsAsked == Spec => []ServedAsAsked
<1>1. IInv => ServedAsAsked
      BY DEF IInv, Progress, ServedAsAsked, UserAuth, Occupied, Serving
<1> QED BY <1>1, Inductive, PTL
=============================================================================
