--------------------------- MODULE ServerLifecycle ---------------------------
(***************************************************************************)
(* broker/server.py: Server.serve_forever from its start to its end, over  *)
(* the stack of authenticators that scripts/broker.py builds               *)
(* (broker/auth/multi.py), the exporter of metrics (prometheus.py), the    *)
(* endpoints and the watchers of their certificates.                       *)
(*                                                                         *)
(* serve_forever is a task that may be cancelled wherever it awaits; `at`  *)
(* is where it is.  Clients come, have their identity looked up and leave. *)
(* aionotify is installed, so that files are watched: the JSON store is    *)
(* empty until its watcher has loaded the file, which may be long after    *)
(* clients were accepted.  The file names the same users whenever it is    *)
(* loaded (JsonAuth is about a file that changes).  There always is an     *)
(* exporter: _parse_endpoint gives (None, None) for none, which is true.   *)
(***************************************************************************)
EXTENDS Naturals, Sequences

CONSTANTS Stack,       \* the kinds of authenticators, in order
          Endpoints,   \* the kinds of endpoints, in order: "tcp" or "tls"
          Clients, Users,
          Knows,       \* the users of each kind of authenticator
          WaitsForConnections,  \* wait_closed() does, as from Python 3.12
          MaxCancels   \* bound: calls of cancel() on the task

ASSUME KindsAssumption ==
  /\ Stack \in Seq({"json", "sqlite", "mongo", "database", "env", "memory"})
  /\ Endpoints \in Seq({"tcp", "tls"})
  /\ Knows \in [{Stack[i] : i \in DOMAIN Stack} -> SUBSET Users] /\ "none" \notin Users
  /\ WaitsForConnections \in BOOLEAN /\ MaxCancels \in Nat

VARIABLES
  at,          \* where serve_forever is
  stack,       \* Multi: self.stack
  finalizers,  \* Multi: self.close_fn
  open,        \* the authenticators that were not closed
  watched,     \* whose files have a watching task: an endpoint's number, JSON
  loaded,      \* the JSON store's self.db holds the users of its file
  collector,   \* the collector is registered
  exporter,    \* the exporter's site
  next,        \* the endpoint that is next
  listening,   \* endpoints whose socket listens
  bound,       \* `servers` has been assigned
  servers,     \* the endpoints on the list `servers`
  cleanups,    \* self.cleanups that are still to be awaited
  started,     \* self.when_started is resolved
  client,      \* each client: the endpoint it is connected to, or 0
  answer,      \* the user it named, and the number of the authenticator that
               \* answered, or 0
  cancels

authVars     == <<stack, finalizers, open, loaded>>
metricsVars  == <<collector, exporter>>
endpointVars == <<next, listening, bound, servers, cleanups, started>>
clientVars   == <<client, answer>>
vars == <<at, authVars, watched, metricsVars, endpointVars, clientVars, cancels>>

Numbers == DOMAIN Endpoints
TLS     == {n \in Numbers : Endpoints[n] = "tls"}
Kinds   == {Stack[i] : i \in DOMAIN Stack}

JSON    == 0

\* The kinds whose get_authkey is a coroutine function, and those whose start()
\* returns a finalizer.
Late      == {"mongo", "database"}
Finalized == {"json", "sqlite"}

\* How serve_forever ends: out of its last line, cancelled while it cleaned up,
\* or with an exception at the first line of its clean-up.
Ends == {"through", "interrupted", "crashed"}

TypeOK ==
  /\ at \in {"new", "metrics", "endpoint", "created", "serving", "finally", "cleanup",
             "waiting", "stop metrics", "close auth"} \cup Ends
  /\ stack \in {Stack, << >>} /\ finalizers \subseteq Kinds /\ open \subseteq Kinds
  /\ loaded \in BOOLEAN
  /\ watched \subseteq {JSON} \cup TLS /\ collector \in BOOLEAN
  /\ exporter \in {"off", "listens", "closed"}
  /\ next \in 1 .. Len(Endpoints) + 1 /\ bound \in BOOLEAN /\ started \in BOOLEAN
  /\ servers \subseteq 1 .. next - 1 /\ listening \subseteq 1 .. next
  /\ cleanups \subseteq TLS /\ (at # "cleanup" => cleanups \subseteq watched)
  /\ client \in [Clients -> {0} \cup Numbers]
  /\ answer \in [Clients -> [user : Users \cup {"none"}, by : 0 .. Len(Stack)]]
  /\ cancels \in 0 .. MaxCancels

\* Multi is given its authenticators; sqlite's opens its database at once.
Init ==
  /\ at = "new"
  /\ stack = Stack /\ finalizers = {} /\ open = Kinds /\ watched = {} /\ loaded = FALSE
  /\ collector = FALSE /\ exporter = "off"
  /\ next = 1 /\ listening = {} /\ bound = FALSE /\ servers = {} /\ cleanups = {}
  /\ started = FALSE
  /\ client = [c \in Clients |-> 0]
  /\ answer = [c \in Clients |-> [user |-> "none", by |-> 0]]
  /\ cancels = 0

Goto(from, to) == at = from /\ at' = to
-----------------------------------------------------------------------------
(* Starting *)

\* Multi.start(): each authenticator's start() in turn, none of which suspends
\* or raises.
AuthStarted ==
  /\ finalizers' = Kinds \cap Finalized
  /\ watched' = watched \cup {JSON : k \in Kinds \cap {"json"}}

\* The task runs until start_metrics_server awaits the site.
Start ==
  /\ Goto("new", "metrics")
  /\ AuthStarted
  /\ collector' = TRUE
  /\ UNCHANGED <<stack, open, loaded, exporter, endpointVars, clientVars, cancels>>

\* `servers` is assigned after this.
MetricsListen ==
  /\ Goto("metrics", "endpoint")
  /\ exporter' = "listens" /\ bound' = TRUE
  /\ UNCHANGED <<authVars, watched, collector, next, listening, servers, cleanups, started,
                 clientVars, cancels>>

MetricsFail ==
  /\ Goto("metrics", "finally")
  /\ UNCHANGED <<authVars, watched, metricsVars, endpointVars, clientVars, cancels>>

\* A bug: the default certificate is watched for any endpoint.
SecuredAlways == watched' = watched \cup {next} /\ cleanups' = cleanups \cup {next}

\* create_ssl_context: tasks that watch, and load, the certificate and the key.
Secured ==
  IF next \in TLS THEN watched' = watched \cup {next} /\ cleanups' = cleanups \cup {next}
  ELSE UNCHANGED <<watched, cleanups>>

\* The socket is bound and create_server listens on it, before it awaits.
Listen ==
  /\ Goto("endpoint", "created") /\ next <= Len(Endpoints)
  /\ Secured
  /\ listening' = listening \cup {next}
  /\ UNCHANGED <<authVars, metricsVars, next, bound, servers, started, clientVars, cancels>>

\* The socket cannot be bound.
ListenFails ==
  /\ Goto("endpoint", "finally") /\ next <= Len(Endpoints)
  /\ Secured
  /\ UNCHANGED <<authVars, metricsVars, next, listening, bound, servers, started,
                 clientVars, cancels>>

Created ==
  /\ Goto("created", "endpoint")
  /\ servers' = servers \cup {next} /\ next' = next + 1
  /\ UNCHANGED <<authVars, watched, metricsVars, listening, bound, cleanups, started,
                 clientVars, cancels>>

Serve ==
  /\ Goto("endpoint", "serving") /\ next > Len(Endpoints)
  /\ started' = TRUE
  /\ UNCHANGED <<authVars, watched, metricsVars, next, listening, bound, servers, cleanups,
                 clientVars, cancels>>
-----------------------------------------------------------------------------
(* The finally block *)

\* Close the servers.  NameError if there is no list of them yet: nothing else
\* is cleaned up.
CloseServers ==
  /\ Goto("finally", IF bound THEN "cleanup" ELSE "crashed")
  /\ listening' = listening \ servers
  /\ UNCHANGED <<authVars, watched, metricsVars, next, bound, servers, cleanups, started,
                 clientVars, cancels>>

\* A watching task was cancelled and has ended (supervise.close).
CleanUp ==
  /\ at = "cleanup" /\ UNCHANGED at
  /\ \E n \in cleanups : /\ \A m \in cleanups : n <= m
                         /\ cleanups' = cleanups \ {n} /\ watched' = watched \ {n}
  /\ UNCHANGED <<authVars, metricsVars, next, listening, bound, servers, started,
                 clientVars, cancels>>

CleanedUp ==
  /\ Goto("cleanup", "waiting") /\ cleanups = {}
  /\ UNCHANGED <<authVars, watched, metricsVars, endpointVars, clientVars, cancels>>

Held == WaitsForConnections /\ \E c \in Clients : client[c] \in servers

\* wait_closed() of each server: nobody closes its connections.
WaitClosed ==
  /\ Goto("waiting", "stop metrics") /\ ~Held
  /\ UNCHANGED <<authVars, watched, metricsVars, endpointVars, clientVars, cancels>>

StopMetrics ==
  /\ Goto("stop metrics", "close auth")
  /\ exporter' = "closed" /\ collector' = FALSE
  /\ UNCHANGED <<authVars, watched, endpointVars, clientVars, cancels>>

\* Multi._close calls the finalizers without awaiting: json's is a coroutine
\* function, which does nothing so.  Nobody is asked any more.
StackClosed == open' = open \ (finalizers \cap {"sqlite"}) /\ stack' = << >>

\* _close returns None, and awaiting that raises: the task ends either way.
CloseAuth ==
  /\ Goto("close auth", "through")
  /\ StackClosed
  /\ finalizers' = {}
  /\ UNCHANGED <<loaded, watched, metricsVars, endpointVars, clientVars, cancels>>

\* A bug: a watcher's clean-up lets the cancellation of its caller through.
CancelledPasses ==
  CASE at \in {"metrics", "created", "serving"} -> at' = "finally" /\ UNCHANGED <<exporter, collector>>
    [] OTHER -> at' = "interrupted" /\ UNCHANGED <<exporter, collector>>

\* A bug: CancelledError is caught where the broker serves.
CancelledIgnored == UNCHANGED <<at, exporter, collector>>

\* What a cancellation does where the task awaits.  Start-up ends, with a socket
\* that may listen already; supervise.close takes it for its own task's; the
\* clean-up of the metrics still unregisters the collector.
Cancelled ==
  \/ /\ at = "metrics" /\ at' = "finally"
     /\ exporter' \in {"off", "listens"} /\ UNCHANGED collector
  \/ at \in {"created", "serving"} /\ at' = "finally" /\ UNCHANGED <<exporter, collector>>
  \/ at = "cleanup" /\ UNCHANGED <<at, exporter, collector>>
  \/ at = "waiting" /\ at' = "interrupted" /\ UNCHANGED <<exporter, collector>>
  \/ /\ at = "stop metrics" /\ at' = "interrupted"
     /\ exporter' \in {"listens", "closed"} /\ collector' = FALSE

Cancel ==
  /\ \/ at \in {"metrics", "created", "serving", "stop metrics"}
     \/ at = "cleanup" /\ cleanups # {}
     \/ at = "waiting" /\ Held
  /\ cancels < MaxCancels /\ cancels' = cancels + 1
  /\ Cancelled
  /\ UNCHANGED <<authVars, watched, endpointVars, clientVars>>
-----------------------------------------------------------------------------
(* The JSON store *)

\* A bug: a load that fails leaves the store empty.
ReloadedOrEmpty == loaded' \in BOOLEAN

\* load(): whatever fails, self.db stays what it is.
Reloaded == loaded' \in {loaded, TRUE}

\* The watching task loads the file, the first time it runs and whenever the file
\* changes; it is never closed.
Load ==
  /\ JSON \in watched
  /\ Reloaded
  /\ UNCHANGED <<at, stack, finalizers, open, watched, metricsVars, endpointVars, clientVars,
                 cancels>>
-----------------------------------------------------------------------------
(* Clients *)

Accept(c) ==
  /\ client[c] = 0 /\ answer[c].user = "none"
  /\ \E n \in listening : client' = [client EXCEPT ![c] = n]
  /\ UNCHANGED <<at, authVars, watched, metricsVars, endpointVars, answer, cancels>>

Leave(c) ==
  /\ client[c] # 0 /\ client' = [client EXCEPT ![c] = 0]
  /\ UNCHANGED <<at, authVars, watched, metricsVars, endpointVars, answer, cancels>>

\* A kind of authenticator that has the user, as far as it has loaded.
Has(k, u) == u \in Knows[k] /\ (k = "json" => loaded)

\* Those whose result is true.  A coroutine is, whatever it will return.
Hits(u) == {i \in DOMAIN stack : Has(stack[i], u) \/ stack[i] \in Late}

\* Multi.get_authkey: the first result that is true.
Lookup(c, u) ==
  /\ client[c] # 0
  /\ answer' = [answer EXCEPT ![c] =
       [user |-> u,
        by |-> IF Hits(u) = {} THEN 0 ELSE CHOOSE i \in Hits(u) : \A j \in Hits(u) : i <= j]]
  /\ UNCHANGED <<at, authVars, watched, metricsVars, endpointVars, client, cancels>>
-----------------------------------------------------------------------------
Task == \/ Start \/ MetricsListen \/ MetricsFail \/ Listen \/ ListenFails \/ Created \/ Serve
        \/ CloseServers \/ CleanUp \/ CleanedUp \/ WaitClosed \/ StopMetrics \/ CloseAuth

Next == \/ Task \/ Cancel \/ Load
        \/ \E c \in Clients : \/ Accept(c) \/ Leave(c)
                              \/ \E u \in Users : Lookup(c, u)

Spec == Init /\ [][Next]_vars

\* The event loop runs the task; clients need do nothing.
FairSpec == Spec /\ WF_vars(Task)
-----------------------------------------------------------------------------
(* Properties *)

\* Whichever step of serve_forever fails or is cancelled, also while it cleans
\* up: once it has a list of servers none of them is left listening and no
\* certificate is left watched; and if it got through, the exporter, its
\* collector and the database are closed.  (Not so before it has the list, and
\* not so the watcher of the JSON file, and a server whose creation was
\* cancelled: see the README.)
Released ==
  /\ at \in Ends /\ bound => servers \cap listening = {} /\ watched \cap TLS = {}
  /\ at = "through" => exporter = "closed" /\ ~collector /\ "sqlite" \notin open

\* A user who was found once, by whichever authenticator, for whichever client, is
\* found by every later lookup: by the same authenticator, or by the JSON store if
\* that comes before it and was empty then.
FoundAgain(c, d) ==
  answer'[d] # answer[d] /\ answer'[d].user = answer[c].user /\ answer[c].by # 0 =>
    \/ answer'[d].by = answer[c].by
    \/ answer'[d].by \in 1 .. answer[c].by - 1 /\ Stack[answer'[d].by] = "json"

\* So it is until authentication is closed, whatever fails, loads, is cancelled or
\* is cleaned up in between; and although clients outlive the servers, none ever
\* makes the broker ask an authenticator that was closed.
UsersAreFound ==
  /\ [](\A i \in DOMAIN stack : stack[i] \in open)
  /\ [][stack # << >> => \A c, d \in Clients : FoundAgain(c, d)]_vars

Over == /\ at \in Ends \/ (at = "waiting" /\ Held)
        /\ bound => servers \cap listening = {}

\* A serve_forever that fails or is cancelled ends, or waits for clients to
\* leave; in any case its servers are closed.
Stops == (cancels > 0 \/ at = "finally") ~> Over
=============================================================================
