-------------------------- MODULE SidecarTransport --------------------------
(***************************************************************************)
(* The Bun sidecar transport (bun_transport.go, bun_sidecar.ts).           *)
(*                                                                         *)
(* Concurrent upstream requests share one sidecar process.  The first      *)
(* request starts it while it holds bunMu; later ones reuse its endpoint.  *)
(* A request that finds the sidecar's port closed invalidates the shared   *)
(* sidecar, starts another and forwards once more.                         *)
(*                                                                         *)
(* Sidecars are numbered in the order they are spawned: the number stands  *)
(* for the process, its port and the write end of its stdin pipe.  The     *)
(* contents of the envelope are not modelled.                              *)
(***************************************************************************)
EXTENDS Naturals

CONSTANTS
  Requests,    \* upstream requests, each in a goroutine of its own
  NoRequest,   \* nobody holds bunMu
  MaxStarts,   \* bound: sidecars that can be spawned
  MaxCrashes   \* bound: sidecars that die on their own

ASSUME BoundsAssumption == /\ MaxStarts \in Nat
                           /\ MaxCrashes \in Nat
                           /\ NoRequest \notin Requests

NoSidecar == 0
Sidecars == 1..MaxStarts
Endpoints == Sidecars \cup {NoSidecar}

VARIABLES
  \* The sidecar processes and what the operating system keeps for them.
  proc,            \* each process: "unborn", "booting", "up" or "dead"
  listened,        \* the sidecars that have printed their port line
  openPipes,       \* the sidecars whose stdin the proxy still holds open
  accepted,        \* <<request, sidecar>>: taken off the socket, not yet fetched
  sent,            \* how often the upstream has received each request
  spawned,         \* number of processes spawned so far
  crashes,         \* number of crashes so far
  \* Package-level variables, guarded by bunMu.
  bunMu,           \* the request that holds bunMu across a start
  bunEndpoint,
  bunStdin,
  bunStartErr,
  child,           \* the process startBunSidecar is waiting for
  \* The shared transport: its endpoint field, NoSidecar while bunClient is nil.
  clientEndpoint,
  \* Each request's goroutine.
  pc,
  attempt,         \* forward calls begun
  got,             \* the endpoint bunSidecarEndpoint returned
  target,          \* the endpoint forward read
  outcome

osVars      == <<proc, listened, openPipes, accepted, sent, spawned, crashes>>
bunVars     == <<bunMu, bunEndpoint, bunStdin, bunStartErr, child>>
requestVars == <<pc, attempt, got, target, outcome>>
vars == <<osVars, bunVars, clientEndpoint, requestVars>>

\* Inside startBunSidecar: waiting for the port line, between two health checks,
\* waiting for the answer to one, waiting for the end of the process.
StartPC == {"starting", "checking", "probing", "reaping"}

PC == StartPC \cup
      {"acquire", "install", "forward", "dial", "inflight", "invalidate",
       "reacquire", "set", "utls", "done"}

TypeOK ==
  /\ proc \in [Sidecars -> {"unborn", "booting", "up", "dead"}]
  /\ listened \subseteq Sidecars
  /\ openPipes \subseteq Sidecars
  /\ accepted \subseteq Requests \X Sidecars
  /\ sent \in [Requests -> Nat]
  /\ spawned \in 0..MaxStarts
  /\ crashes \in 0..MaxCrashes
  /\ bunMu \in Requests \cup {NoRequest}
  /\ bunEndpoint \in Endpoints
  /\ bunStdin \in Endpoints
  /\ bunStartErr \in BOOLEAN
  /\ child \in Endpoints
  /\ clientEndpoint \in Endpoints
  /\ pc \in [Requests -> PC]
  /\ attempt \in [Requests -> 0..2]
  /\ got \in [Requests -> Endpoints]
  /\ target \in [Requests -> Endpoints]
  /\ outcome \in [Requests -> {"none", "ok", "error"}]

Init ==
  /\ proc = [s \in Sidecars |-> "unborn"]
  /\ listened = {}
  /\ openPipes = {}
  /\ accepted = {}
  /\ sent = [r \in Requests |-> 0]
  /\ spawned = 0
  /\ crashes = 0
  /\ bunMu = NoRequest
  /\ bunEndpoint = NoSidecar
  /\ bunStdin = NoSidecar
  /\ bunStartErr = FALSE
  /\ child = NoSidecar
  /\ clientEndpoint = NoSidecar
  /\ pc = [r \in Requests |-> "acquire"]
  /\ attempt = [r \in Requests |-> 0]
  /\ got = [r \in Requests |-> NoSidecar]
  /\ target = [r \in Requests |-> NoSidecar]
  /\ outcome = [r \in Requests |-> "none"]

-----------------------------------------------------------------------------
(***************************************************************************)
(* bunSidecarEndpoint.  It is called first from upstreamHTTPClient and     *)
(* again from RoundTrip after an invalidation; attempt tells which.        *)
(***************************************************************************)
Goto(r, label) == pc' = [pc EXCEPT ![r] = label]

Finish(r, result) ==
  /\ Goto(r, "done")
  /\ outcome' = [outcome EXCEPT ![r] = result]

\* bunSidecarEndpoint returns an endpoint: upstreamHTTPClient goes on to the
\* shared client, RoundTrip to setEndpoint.
EndpointReady(r, s) ==
  /\ got' = [got EXCEPT ![r] = s]
  /\ Goto(r, IF attempt[r] = 0 THEN "install" ELSE "set")
  /\ UNCHANGED <<attempt, target, outcome>>

\* Mutant: RoundTrip goes on with the endpoint that came with the error.
EndpointFailedIgnored(r) ==
  /\ got' = [got EXCEPT ![r] = NoSidecar]
  /\ Goto(r, IF attempt[r] = 0 THEN "utls" ELSE "set")
  /\ UNCHANGED <<attempt, target, outcome>>

\* bunSidecarEndpoint returns an error: upstreamHTTPClient falls back to the
\* uTLS client, RoundTrip returns the error of the first forward.
EndpointFailed(r) ==
  /\ Goto(r, IF attempt[r] = 0 THEN "utls" ELSE "done")
  /\ outcome' = [outcome EXCEPT ![r] = IF attempt[r] = 0 THEN "none" ELSE "error"]
  /\ UNCHANGED <<attempt, got, target>>

Acquiring(r) == pc[r] \in {"acquire", "reacquire"} /\ bunMu = NoRequest

AcquireCached(r) ==
  /\ Acquiring(r)
  /\ bunEndpoint # NoSidecar
  /\ EndpointReady(r, bunEndpoint)
  /\ UNCHANGED <<osVars, bunVars, clientEndpoint>>

\* A failed start is remembered: it is not tried again until an invalidation.
AcquireStartErr(r) ==
  /\ Acquiring(r)
  /\ bunEndpoint = NoSidecar
  /\ bunStartErr
  /\ EndpointFailed(r)
  /\ UNCHANGED <<osVars, bunVars, clientEndpoint>>

\* No binary, no script file, no pipe or no process.
SpawnFails(r) ==
  /\ Acquiring(r)
  /\ bunEndpoint = NoSidecar
  /\ ~bunStartErr
  /\ bunStartErr' = TRUE
  /\ EndpointFailed(r)
  /\ UNCHANGED <<osVars, bunMu, bunEndpoint, bunStdin, child, clientEndpoint>>

Spawn(r) ==
  /\ Acquiring(r)
  /\ bunEndpoint = NoSidecar
  /\ ~bunStartErr
  /\ spawned < MaxStarts
  /\ spawned' = spawned + 1
  /\ child' = spawned + 1
  /\ proc' = [proc EXCEPT ![spawned + 1] = "booting"]
  /\ openPipes' = openPipes \cup {spawned + 1}
  /\ bunMu' = r
  /\ Goto(r, "starting")
  /\ UNCHANGED <<listened, accepted, sent, crashes, bunEndpoint, bunStdin, bunStartErr,
                 clientEndpoint, attempt, got, target, outcome>>

\* The port line has come: the health check begins.  The process may have died
\* since it printed it.
ReadPort(r) ==
  /\ pc[r] = "starting"
  /\ child \in listened
  /\ Goto(r, "checking")
  /\ UNCHANGED <<osVars, bunVars, clientEndpoint, attempt, got, target, outcome>>

StartFailed(r) ==
  /\ child' = NoSidecar
  /\ bunStartErr' = TRUE
  /\ bunMu' = NoRequest
  /\ EndpointFailed(r)
  /\ UNCHANGED <<bunEndpoint, bunStdin, clientEndpoint>>

\* Mutant: no timer, only the end of the process ends the wait.
StartTimeoutNever(r) ==
  /\ pc[r] = "starting"
  /\ proc[child] = "dead"
  /\ openPipes' = openPipes \ {child}
  /\ StartFailed(r)
  /\ UNCHANGED <<proc, listened, accepted, sent, spawned, crashes>>

\* 15 s have passed and no port line was received: the pipe is closed and the
\* process killed, whatever it does by now.
StartTimeout(r) ==
  /\ pc[r] = "starting"
  /\ proc' = [proc EXCEPT ![child] = "dead"]
  /\ openPipes' = openPipes \ {child}
  /\ StartFailed(r)
  /\ UNCHANGED <<listened, accepted, sent, spawned, crashes>>

\* The pipe is closed and cmd.Wait blocks, bunMu still held, until the process
\* has ended: it is not killed.
GiveUp(r) ==
  /\ openPipes' = openPipes \ {child}
  /\ Goto(r, "reaping")
  /\ UNCHANGED <<proc, listened, accepted, sent, spawned, crashes, bunVars,
                 clientEndpoint, attempt, got, target, outcome>>

\* Its stdout ended without a port line.
EndedEarly(r) ==
  /\ pc[r] = "starting"
  /\ proc[child] = "dead"
  /\ child \notin listened
  /\ GiveUp(r)

\* waitForSidecar, before its deadline: a Get without a time limit.
Probe(r) ==
  /\ pc[r] = "checking"
  /\ Goto(r, "probing")
  /\ UNCHANGED <<osVars, bunVars, clientEndpoint, attempt, got, target, outcome>>

\* The deadline is only tested here, between two Gets.
DeadlinePassed(r) ==
  /\ pc[r] = "checking"
  /\ GiveUp(r)

\* /healthz answered: the endpoint is published.
StartReady(r) ==
  /\ pc[r] = "probing"
  /\ proc[child] = "up"
  /\ bunStdin' = child
  /\ bunEndpoint' = child
  /\ child' = NoSidecar
  /\ bunMu' = NoRequest
  /\ EndpointReady(r, child)
  /\ UNCHANGED <<osVars, bunStartErr, clientEndpoint>>

\* Any error of the Get: once more, after 50 ms.
ProbeFails(r) ==
  /\ pc[r] = "probing"
  /\ Goto(r, "checking")
  /\ UNCHANGED <<osVars, bunVars, clientEndpoint, attempt, got, target, outcome>>

Reap(r) ==
  /\ pc[r] = "reaping"
  /\ proc[child] = "dead"
  /\ StartFailed(r)
  /\ UNCHANGED osVars

-----------------------------------------------------------------------------
(***************************************************************************)
(* upstreamHTTPClient and RoundTrip.                                       *)
(***************************************************************************)

\* The transport is created once; a later endpoint does not replace its own.
InstallClient(r) ==
  /\ pc[r] = "install"
  /\ clientEndpoint' = IF clientEndpoint = NoSidecar THEN got[r] ELSE clientEndpoint
  /\ Goto(r, "forward")
  /\ UNCHANGED <<osVars, bunVars, attempt, got, target, outcome>>

\* forward builds its request from getEndpoint.
ReadEndpoint(r) ==
  /\ pc[r] = "forward"
  /\ target' = [target EXCEPT ![r] = clientEndpoint]
  /\ attempt' = [attempt EXCEPT ![r] = @ + 1]
  /\ Goto(r, "dial")
  /\ UNCHANGED <<osVars, bunVars, clientEndpoint, got, outcome>>

\* The sidecar takes the envelope; the request waits for its answer.
DialAccepted(r) ==
  /\ pc[r] = "dial"
  /\ proc[target[r]] = "up"
  /\ accepted' = accepted \cup {<<r, target[r]>>}
  /\ Goto(r, "inflight")
  /\ UNCHANGED <<proc, listened, openPipes, sent, spawned, crashes, bunVars,
                 clientEndpoint, attempt, got, target, outcome>>

\* Mutant: every refused connection is followed by a restart.
DialRefusedForever(r) ==
  /\ pc[r] = "dial"
  /\ proc[target[r]] = "dead"
  /\ Goto(r, "invalidate")
  /\ UNCHANGED <<osVars, bunVars, clientEndpoint, attempt, got, target, outcome>>

\* ECONNREFUSED: the first forward is followed by a restart, the second is not.
DialRefused(r) ==
  /\ pc[r] = "dial"
  /\ proc[target[r]] = "dead"
  /\ Goto(r, IF attempt[r] = 1 THEN "invalidate" ELSE "done")
  /\ outcome' = [outcome EXCEPT ![r] = IF attempt[r] = 1 THEN "none" ELSE "error"]
  /\ UNCHANGED <<osVars, bunVars, clientEndpoint, attempt, got, target>>

\* Mutant: every error of the first forward is retried.
ForwardFailsRetried(r) ==
  /\ \/ pc[r] = "inflight"
     \/ pc[r] = "dial" /\ proc[target[r]] = "dead"
  /\ Goto(r, IF attempt[r] = 1 THEN "invalidate" ELSE "done")
  /\ outcome' = [outcome EXCEPT ![r] = IF attempt[r] = 1 THEN "none" ELSE "error"]
  /\ UNCHANGED <<osVars, bunVars, clientEndpoint, attempt, got, target>>

\* Any other error of forward is returned as it is: a pooled connection to a
\* dead sidecar, an x-zen-sidecar-error answer, a cancelled context, a
\* connection cut in the middle.
ForwardFails(r) ==
  /\ \/ pc[r] = "inflight"
     \/ pc[r] = "dial" /\ proc[target[r]] = "dead"
  /\ Finish(r, "error")
  /\ UNCHANGED <<osVars, bunVars, clientEndpoint, attempt, got, target>>

\* Mutant: an answer the sidecar made up itself, without the upstream's,
\* passes for a response.
AnswerUnfetched(r) ==
  /\ pc[r] = "inflight"
  /\ proc[target[r]] = "up"
  /\ Finish(r, "ok")
  /\ UNCHANGED <<osVars, bunVars, clientEndpoint, attempt, got, target>>

\* The upstream's response has come back through the sidecar.
Answer(r) ==
  /\ pc[r] = "inflight"
  /\ <<r, target[r]>> \notin accepted
  /\ proc[target[r]] = "up"
  /\ Finish(r, "ok")
  /\ UNCHANGED <<osVars, bunVars, clientEndpoint, attempt, got, target>>

\* Mutant: the sidecar is forgotten, its pipe is not closed.
InvalidateSidecarLeak(r) ==
  /\ pc[r] = "invalidate"
  /\ bunMu = NoRequest
  /\ bunStdin' = NoSidecar
  /\ bunEndpoint' = NoSidecar
  /\ bunStartErr' = FALSE
  /\ Goto(r, "reacquire")
  /\ UNCHANGED <<osVars, bunMu, child, clientEndpoint, attempt, got, target,
                 outcome>>

\* invalidateBunSidecar closes the pipe of whatever sidecar is current.
InvalidateSidecar(r) ==
  /\ pc[r] = "invalidate"
  /\ bunMu = NoRequest
  /\ openPipes' = openPipes \ {bunStdin}
  /\ bunStdin' = NoSidecar
  /\ bunEndpoint' = NoSidecar
  /\ bunStartErr' = FALSE
  /\ Goto(r, "reacquire")
  /\ UNCHANGED <<proc, listened, accepted, sent, spawned, crashes, bunMu, child,
                 clientEndpoint, attempt, got, target, outcome>>

SetEndpoint(r) ==
  /\ pc[r] = "set"
  /\ clientEndpoint' = got[r]
  /\ Goto(r, "forward")
  /\ UNCHANGED <<osVars, bunVars, attempt, got, target, outcome>>

\* The fallback client sends the request itself, once.
UtlsRoundTrip(r) ==
  /\ pc[r] = "utls"
  /\ \E n \in {0, 1}, result \in {"ok", "error"} :
       /\ result = "ok" => n = 1
       /\ sent' = [sent EXCEPT ![r] = @ + n]
       /\ Finish(r, result)
  /\ UNCHANGED <<proc, listened, openPipes, accepted, spawned, crashes, bunVars,
                 clientEndpoint, attempt, got, target>>

-----------------------------------------------------------------------------
(***************************************************************************)
(* The sidecar processes.                                                  *)
(***************************************************************************)

\* Bun.serve listens and the port line is printed.
Listen(s) ==
  /\ proc[s] = "booting"
  /\ proc' = [proc EXCEPT ![s] = "up"]
  /\ listened' = listened \cup {s}
  /\ UNCHANGED <<openPipes, accepted, sent, spawned, crashes, bunVars,
                 clientEndpoint, requestVars>>

\* The sidecar fetches an accepted envelope, whether or not the proxy still
\* waits for the answer.
Fetch(r, s) ==
  /\ <<r, s>> \in accepted
  /\ proc[s] = "up"
  /\ accepted' = accepted \ {<<r, s>>}
  /\ sent' = [sent EXCEPT ![r] = @ + 1]
  /\ UNCHANGED <<proc, listened, openPipes, spawned, crashes, bunVars, clientEndpoint,
                 requestVars>>

\* End of file on stdin ends the process.
Exit(s) ==
  /\ proc[s] \in {"booting", "up"}
  /\ s \notin openPipes
  /\ proc' = [proc EXCEPT ![s] = "dead"]
  /\ UNCHANGED <<listened, openPipes, accepted, sent, spawned, crashes, bunVars,
                 clientEndpoint, requestVars>>

Crash(s) ==
  /\ crashes < MaxCrashes
  /\ proc[s] \in {"booting", "up"}
  /\ crashes' = crashes + 1
  /\ proc' = [proc EXCEPT ![s] = "dead"]
  /\ UNCHANGED <<listened, openPipes, accepted, sent, spawned, bunVars, clientEndpoint,
                 requestVars>>

-----------------------------------------------------------------------------
Acquire(r) ==
  AcquireCached(r) \/ AcquireStartErr(r) \/ SpawnFails(r) \/ Spawn(r)

\* What startBunSidecar does by itself, and what it waits for in a health check.
Start(r) == ReadPort(r) \/ StartTimeout(r) \/ EndedEarly(r) \/ Reap(r)

ProbeEnds(r) == StartReady(r) \/ ProbeFails(r)

Dial(r) == DialAccepted(r) \/ DialRefused(r)

RequestStep(r) ==
  \/ Acquire(r) \/ Start(r)
  \/ Probe(r) \/ ProbeEnds(r) \/ DeadlinePassed(r)
  \/ InstallClient(r) \/ ReadEndpoint(r) \/ Dial(r)
  \/ ForwardFails(r) \/ Answer(r)
  \/ InvalidateSidecar(r) \/ SetEndpoint(r) \/ UtlsRoundTrip(r)

SidecarStep(s) ==
  \/ Listen(s) \/ Exit(s) \/ Crash(s)
  \/ \E r \in Requests : Fetch(r, s)

Next == \/ \E r \in Requests : RequestStep(r)
        \/ \E s \in Sidecars : SidecarStep(s)

Spec == Init /\ [][Next]_vars

(***************************************************************************)
(* Goroutines keep running, Go hands a contended mutex to its waiters,     *)
(* both timers of a start go off, and a connection to a process that has   *)
(* died does not stay open.  Nothing is assumed of a live sidecar: it need *)
(* not become ready, answer a health check, fetch or answer, nor exit when *)
(* its stdin ends.                                                         *)
(***************************************************************************)
Fairness ==
  \A r \in Requests :
    /\ SF_vars(Acquire(r)) /\ SF_vars(InvalidateSidecar(r))
    /\ WF_vars(Start(r))
    /\ WF_vars(Probe(r)) /\ SF_vars(DeadlinePassed(r))
    /\ WF_vars(ProbeFails(r) /\ proc[child] = "dead")
    /\ WF_vars(InstallClient(r)) /\ WF_vars(ReadEndpoint(r))
    /\ WF_vars(Dial(r)) /\ WF_vars(SetEndpoint(r))

FairSpec == Spec /\ Fairness

-----------------------------------------------------------------------------
(***************************************************************************)
(* Properties.                                                             *)
(***************************************************************************)

\* The upstream receives each request at most once, however many sidecars die
\* and whichever client carries it: RoundTrip retries only what was refused,
\* and the uTLS fallback only what never reached a sidecar.
SentAtMostOnce == \A r \in Requests : sent[r] <= 1

\* The transport, sidecar or fallback, delivers as Delivery promises: "ok" is
\* only told for a request the upstream has received, once.
Abstract == INSTANCE Delivery
DeliverySpec == Abstract!Spec

\* No sidecar is orphaned: at any time at most one process may outlive its
\* stdin, the published one or the one being started, and a later
\* invalidation or the failing start still holds the pipe that ends it.
OneOwnedSidecar ==
  /\ openPipes = {bunStdin, child} \ {NoSidecar}
     \/ (bunMu # NoRequest /\ pc[bunMu] = "reaping" /\ openPipes = {})
  /\ bunStdin = NoSidecar \/ child = NoSidecar
  /\ bunStdin = bunEndpoint

\* Every endpoint a request is forwarded to is the port some sidecar has
\* printed, also after a restart that failed: a request is refused because its
\* sidecar died, never because it is not there yet or never was.
Forwardable(s) == s # NoSidecar => s \in listened

EndpointsHaveListened ==
  /\ Forwardable(bunEndpoint)
  /\ Forwardable(clientEndpoint)
  /\ \A r \in Requests : /\ Forwardable(got[r])
                         /\ Forwardable(target[r])
                         /\ pc[r] = "dial" => target[r] # NoSidecar

\* What a start needs of the sidecar beyond its timers: every health check is
\* answered or fails, and a sidecar whose stdin has ended exits.
SidecarsRespond ==
  /\ \A r \in Requests : WF_vars(ProbeEnds(r))
  /\ \A s \in Sidecars : WF_vars(Exit(s))

\* As long as sidecars respond, one that never becomes ready, crashes or is
\* restarted under it does not block a request: it reaches a sidecar, the
\* fallback, or an error.
NoRequestStuck ==
  SidecarsRespond =>
    \A r \in Requests :
      pc[r] # "done" ~> pc[r] \in {"inflight", "utls", "done"}

\* waitForSidecar(endpoint, timeout) returns "bun sidecar health check timed out"
\* (bun_transport.go:231-246), and the request then "falls back to the uTLS
\* dialer" (48): a health check ends whatever the sidecar does.
HealthCheckTimesOut ==
  \A r \in Requests :
    pc[r] \in {"checking", "probing"} ~> pc[r] \notin {"checking", "probing"}

\* The comment at bun_transport.go:354, "The sidecar died (crash, kill, or
\* pipe close); restart it once": a restart closes the pipe of a sidecar that
\* died, never of one that still serves other requests.
OnlyDeadSidecarsReplaced ==
  [][bunStdin # NoSidecar /\ bunStdin' # bunStdin => proc[bunStdin] = "dead"]_vars

=============================================================================
