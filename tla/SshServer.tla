----------------------------- MODULE SshServer -----------------------------
(***************************************************************************)
(* The SSH server (src/firmware/esp-idf/main/ssh_server.cpp).  The got-IP  *)
(* event starts one server task; the task acquires its resources one after *)
(* the other, giving back what it has when the next one fails, and then    *)
(* serves one client at a time on blocking sockets: it reads only when the *)
(* client has sent something or has gone.  wolfSSH, the sockets and the    *)
(* clients are external.                                                   *)
(***************************************************************************)
EXTENDS Naturals, Sequences

CONSTANTS
    Clients,      \* records: what a client offers, and what it asks for
    User,         \* the account in NVS: [name, password]
    NoClient,
    Backlog,      \* clients that wait for accept()
    MaxAttempts,  \* wolfSSH_accept() calls for one client, 300
    MaxFailures   \* bound on the allocations that fail

ASSUME SshAssumption ==
    /\ \A c \in Clients :
           DOMAIN c = {"method", "name", "password", "wants"} /\ c.wants \in {"shell", "sftp"}
    /\ NoClient \notin Clients
    /\ Backlog \in Nat \ {0} /\ MaxAttempts \in Nat \ {0} /\ MaxFailures \in Nat

VARIABLES
    provisioned,      \* NVS holds name, password digest and host key
    startRequested,   \* g_startRequested
    tasks,            \* server tasks alive: g_task is not null
    server,           \* where the server task is
    held,             \* what it has acquired
    client,           \* whom it serves
    attempts,         \* handshakeAttempts
    shellRequested,   \* g_shellRequestAccepted
    backlog,
    sent,             \* the served client sent something not yet read
    asked,            \* it asked for a shell
    open,             \* the clients with an open connection
    failures

start == <<provisioned, startRequested, tasks>>
peers == <<backlog, sent, asked, open>>
vars == <<start, server, held, client, attempts, shellRequested, peers, failures>>

\* user_auth()
UserAuth_NameOnly(c) == c.method = "password" /\ c.name = User.name

UserAuth(c) ==
    /\ c.method = "password"
    /\ c.name = User.name
    /\ c.password = User.password

Init ==
    /\ provisioned \in BOOLEAN
    /\ startRequested = FALSE /\ tasks = 0
    /\ server = "none" /\ held = {}
    /\ client = NoClient /\ attempts = 0 /\ shellRequested = FALSE
    /\ backlog = << >> /\ sent = FALSE /\ asked = FALSE /\ open = {}
    /\ failures = 0

Fails == failures < MaxFailures /\ failures' = failures + 1

-----------------------------------------------------------------------------
(* esp32shell_ssh_start_after_wifi(), run by the event loop at every       *)
(* IP_EVENT_STA_GOT_IP.                                                    *)

\* Variant: the request is not remembered.
GotIp_EveryTime ==
    /\ startRequested' = TRUE
    /\ \/ tasks' = tasks + 1 /\ server' = "load" /\ UNCHANGED failures
       \/ Fails /\ UNCHANGED <<tasks, server>>
    /\ UNCHANGED <<provisioned, held, client, attempts, shellRequested, peers>>

GotIp ==
    /\ ~startRequested /\ tasks = 0
    /\ startRequested' = TRUE
    /\ \/ tasks' = tasks + 1 /\ server' = "load" /\ UNCHANGED failures
       \/ Fails /\ UNCHANGED <<tasks, server>>
    /\ UNCHANGED <<provisioned, held, client, attempts, shellRequested, peers>>

-----------------------------------------------------------------------------
(* ssh_server_task(): start                                                *)

\* The task deletes itself.  The code after the accept loop does the same, but is
\* never reached: nothing resets g_startRequested.
End(released) ==
    /\ server' = "none" /\ tasks' = 0
    /\ held' = held \ released

Acquire(from, resource, to) ==
    /\ server = from
    /\ server' = to /\ held' = held \cup {resource}
    /\ UNCHANGED <<start, client, attempts, shellRequested, peers, failures>>

Abandon(from, released) ==
    /\ server = from
    /\ End(released)
    /\ UNCHANGED <<provisioned, startRequested, client, attempts, shellRequested, peers>>

\* load_auth_config()
LoadAuth ==
    /\ server = "load"
    /\ IF provisioned
       THEN server' = "library" /\ UNCHANGED <<tasks, held>>
       ELSE End({})
    /\ UNCHANGED <<provisioned, startRequested, client, attempts, shellRequested,
                   peers, failures>>

StartLibrary == Acquire("library", "library", "context")
LibraryFails == Fails /\ Abandon("library", {})

NewContext == Acquire("context", "context", "socket")
ContextFails == Fails /\ Abandon("context", {"library"})

NewListener == Acquire("socket", "socket", "bind")
ListenerFails == Fails /\ Abandon("socket", {"context", "library"})

Listen == Acquire("bind", "port", "accept")

\* Variant: the socket stays open.
BindFails_Leaks == Fails /\ Abandon("bind", {"context", "library"})

BindFails == Fails /\ Abandon("bind", {"socket", "context", "library"})

-----------------------------------------------------------------------------
(* ssh_server_task(): one client                                           *)

ServerOnly == UNCHANGED <<start, backlog, open, asked>>

AcceptClient ==
    /\ server = "accept" /\ backlog # << >>
    /\ client' = Head(backlog) /\ backlog' = Tail(backlog)
    /\ held' = held \cup {"connection"}
    /\ server' = "new"
    /\ sent' = FALSE /\ asked' = FALSE
    /\ UNCHANGED <<start, attempts, shellRequested, open, failures>>

\* Variant: the flag of the last client's shell is kept.
NewSession_KeepsRequest ==
    /\ server = "new"
    /\ held' = held \cup {"session"}
    /\ attempts' = 0
    /\ server' = "handshake"
    /\ ServerOnly /\ UNCHANGED <<client, shellRequested, sent, failures>>

NewSession ==
    /\ server = "new"
    /\ held' = held \cup {"session"}
    /\ shellRequested' = FALSE /\ attempts' = 0
    /\ server' = "handshake"
    /\ ServerOnly /\ UNCHANGED <<client, sent, failures>>

SessionFails ==
    /\ server = "new"
    /\ Fails
    /\ held' = held \ {"connection"} /\ client' = NoClient /\ open' = open \ {client}
    /\ server' = "accept"
    /\ UNCHANGED <<start, attempts, shellRequested, backlog, sent, asked>>

\* A blocking read ends when the client has sent something or has gone.
Readable == sent \/ client \notin open
Read == Readable /\ sent' = FALSE
Here == client \in open

\* shell_request(), called by wolfSSH when the request for a shell is among what
\* has been read.
ShellRequest == shellRequested' = (shellRequested \/ asked)

\* wolfSSH_accept() wants more; the loop counts its calls.
HandshakePending ==
    /\ server = "handshake" /\ Read /\ Here
    /\ attempts' = attempts + 1
    /\ server' = IF attempts + 1 < MaxAttempts THEN "handshake" ELSE "close"
    /\ ServerOnly /\ UNCHANGED <<held, client, shellRequested, failures>>

\* wolfSSH_accept() is through: the client is authenticated, and asks for the
\* SFTP subsystem, or has opened a channel and may have asked for the shell.
HandshakeDone ==
    /\ server = "handshake" /\ Read /\ Here
    /\ UserAuth(client)
    /\ server' = IF client.wants = "sftp" THEN "sftp" ELSE "worker"
    /\ ShellRequest
    /\ ServerOnly /\ UNCHANGED <<held, client, attempts, failures>>

\* The client is refused, has gone, or breaks the protocol.
HandshakeRejected ==
    /\ server = "handshake" /\ Read
    /\ server' = "close"
    /\ ServerOnly /\ UNCHANGED <<held, client, attempts, shellRequested, failures>>

\* serve_shell(): the loop until the shell request has arrived.
Worker ==
    /\ server = "worker" /\ ~shellRequested /\ Read /\ Here
    /\ ShellRequest
    /\ ServerOnly /\ UNCHANGED <<server, held, client, attempts, failures>>

\* The client has gone, or wolfSSH_worker() reports an error on what it sent.
WorkerFails ==
    /\ server = "worker" /\ ~shellRequested /\ Read
    /\ server' = "close"
    /\ ServerOnly /\ UNCHANGED <<held, client, attempts, shellRequested, failures>>

StartSession ==
    /\ server = "worker" /\ shellRequested
    /\ server' = "session"
    /\ ServerOnly /\ UNCHANGED <<held, client, attempts, shellRequested, sent, failures>>

\* ShellSession::run() returns: no memory for the line, `exit`, or the client
\* has gone.
SessionEnds ==
    /\ server = "session"
    /\ \/ Fails /\ UNCHANGED sent
       \/ Read /\ UNCHANGED failures
    /\ server' = "close"
    /\ ServerOnly /\ UNCHANGED <<held, client, attempts, shellRequested>>

SessionReads ==
    /\ server = "session" /\ Read /\ Here
    /\ ServerOnly /\ UNCHANGED <<server, held, client, attempts, shellRequested, failures>>

\* serve_sftp(): the loop goes on until the channel is closed or breaks.
SftpReads ==
    /\ server = "sftp" /\ Read /\ Here
    /\ ServerOnly /\ UNCHANGED <<server, held, client, attempts, shellRequested, failures>>

\* Variant: that the connection is gone is taken for a read that waits.
SftpEnds_Ignored ==
    /\ server = "sftp" /\ Read /\ Here
    /\ server' = "close"
    /\ ServerOnly /\ UNCHANGED <<held, client, attempts, shellRequested, failures>>

\* The client has gone, or has closed the channel and not the connection, or
\* what it sent broke the protocol; or there is no memory for its request.
SftpEnds ==
    /\ server = "sftp"
    /\ \/ Fails /\ UNCHANGED sent
       \/ Read /\ UNCHANGED failures
    /\ server' = "close"
    /\ ServerOnly /\ UNCHANGED <<held, client, attempts, shellRequested>>

\* Variant: the end of a client ends the loop.
Close_LeavesLoop ==
    /\ server = "close"
    /\ End(held)
    /\ client' = NoClient /\ open' = open \ {client}
    /\ UNCHANGED <<provisioned, startRequested, attempts, shellRequested, backlog, sent,
                   asked, failures>>

\* close_session()
Close ==
    /\ server = "close"
    /\ held' = held \ {"session", "connection"}
    /\ client' = NoClient /\ open' = open \ {client}
    /\ server' = "accept"
    /\ UNCHANGED <<start, attempts, shellRequested, backlog, sent, asked, failures>>

-----------------------------------------------------------------------------
(* Clients                                                                 *)

Connect(c) ==
    /\ "port" \in held /\ Len(backlog) < Backlog
    /\ c \notin open /\ c # client /\ \A i \in 1..Len(backlog) : backlog[i] # c
    /\ open' = open \cup {c}
    /\ backlog' = Append(backlog, c)
    /\ UNCHANGED <<start, server, held, client, attempts, shellRequested, sent, asked,
                   failures>>

\* The served client sends something, its request for a shell perhaps.
Send ==
    /\ client \in open /\ ~sent
    /\ sent' = TRUE
    /\ asked' \in {asked, asked \/ client.wants = "shell"}
    /\ UNCHANGED <<start, server, held, client, attempts, shellRequested, backlog, open,
                   failures>>

Leave(c) ==
    /\ c \in open
    /\ open' = open \ {c}
    /\ UNCHANGED <<start, server, held, client, attempts, shellRequested, backlog, sent,
                   asked, failures>>

-----------------------------------------------------------------------------
StartUp ==
    \/ LoadAuth \/ StartLibrary \/ LibraryFails \/ NewContext \/ ContextFails
    \/ NewListener \/ ListenerFails \/ Listen \/ BindFails

Serve ==
    \/ AcceptClient \/ NewSession \/ SessionFails
    \/ HandshakePending \/ HandshakeDone \/ HandshakeRejected
    \/ Worker \/ WorkerFails \/ StartSession \/ SessionEnds \/ SessionReads
    \/ SftpReads \/ SftpEnds \/ Close

Next ==
    \/ GotIp \/ StartUp \/ Serve
    \/ \E c \in Clients : Connect(c) \/ Leave(c)
    \/ Send

Spec == Init /\ [][Next]_vars

\* The event loop and the server task run; the station gets an address; every
\* client that is served leaves some day.
FairSpec == Spec /\ WF_vars(GotIp) /\ WF_vars(StartUp) /\ WF_vars(Serve)
            /\ WF_vars(Leave(client))

-----------------------------------------------------------------------------
(* Properties                                                              *)

Started == {"library", "context", "socket", "port"}
Serving == {"handshake", "worker", "session", "sftp", "close"}

TypeOK ==
    /\ provisioned \in BOOLEAN /\ startRequested \in BOOLEAN /\ tasks \in 0..1
    /\ server \in {"none", "load", "library", "context", "socket", "bind", "accept",
                   "new"} \cup Serving
    /\ held \subseteq Started \cup {"connection", "session"}
    /\ client \in Clients \cup {NoClient}
    /\ attempts \in 0..MaxAttempts
    /\ shellRequested \in BOOLEAN
    /\ backlog \in Seq(Clients) /\ Len(backlog) <= Backlog
    /\ sent \in BOOLEAN /\ asked \in BOOLEAN
    /\ open \subseteq Clients
    /\ failures \in 0..MaxFailures

\* On no path, early returns included, does the server keep what it does not
\* need: a task that ended holds nothing, and between two clients only the
\* listener is held.
NothingLeaks ==
    /\ server = "none" => tasks = 0 /\ held = {}
    /\ server = "accept" => held = Started /\ client = NoClient
    /\ server = "new" => held = Started \cup {"connection"}
    /\ server \in Serving => held = Started \cup {"connection", "session"}

\* A shell runs, or files are served, only for a client that authenticated with
\* the stored name and password, and a shell only if this very client asked.
ServedAsAsked ==
    /\ server \in {"worker", "session", "sftp"} =>
           client.name = User.name /\ client.password = User.password
    /\ server = "session" => asked /\ client.wants = "shell"

\* A client that waits is accepted, whatever those before it do but stay: none
\* of them wedges the server.
NextClientServed == \A c \in Clients :
    (\E i \in 1..Len(backlog) : backlog[i] = c) ~> client = c

\* Once the station has an address and the credentials are there, the listener
\* comes up and stays, unless something fails.
ListensUnlessFailed ==
    provisioned /\ [](failures = 0) => <>[]("port" \in held)
=============================================================================
