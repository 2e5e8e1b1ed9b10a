----------------------- MODULE SidecarTransport_proofs -----------------------
(***************************************************************************)
(* For any set of requests and any number of starts and crashes: the       *)
(* transport delivers each request at most once (it implements Delivery)   *)
(* and leaves no sidecar orphaned.                                         *)
(***************************************************************************)
EXTENDS SidecarTransport, TLAPS

(***************************************************************************)
(* What each point of a request's goroutine knows: how many forwards it    *)
(* has begun, that it has an endpoint, that it holds bunMu.                *)
(***************************************************************************)
ControlInv ==
  /\ \A r \in Requests :
       /\ pc[r] \in StartPC \cup {"acquire", "install", "forward"} =>
            attempt[r] \in {0, 1}
       /\ pc[r] \in {"invalidate", "reacquire", "set"} => attempt[r] = 1
       /\ pc[r] \in {"install", "set"} => got[r] # NoSidecar
       /\ pc[r] = "forward" => clientEndpoint # NoSidecar
       /\ pc[r] \in {"dial", "inflight"} => target[r] # NoSidecar
       /\ pc[r] \in StartPC => bunMu = r
  /\ bunMu # NoRequest => child # NoSidecar

\* Who holds bunMu, and what bunMu protects.
OwnershipInv ==
  /\ bunMu = NoRequest => child = NoSidecar
  /\ bunMu # NoRequest => /\ pc[bunMu] \in StartPC
                          /\ bunEndpoint = NoSidecar
  /\ bunStdin = bunEndpoint
  /\ openPipes = IF bunMu # NoRequest /\ pc[bunMu] = "reaping" THEN {}
                 ELSE {bunStdin, child} \ {NoSidecar}

(***************************************************************************)
(* Why a request is sent at most once: as long as RoundTrip or             *)
(* upstreamHTTPClient may still send it, nobody has it and nobody had it;  *)
(* once a sidecar has taken it, RoundTrip does not send it again.          *)
(***************************************************************************)
DeliveryInv ==
  \A r \in Requests :
    /\ sent[r] \in {0, 1}
    /\ pc[r] \notin {"inflight", "done"} =>
         sent[r] = 0 /\ \A s \in Sidecars : <<r, s>> \notin accepted
    /\ \A s \in Sidecars : <<r, s>> \in accepted =>
         sent[r] = 0 /\ outcome[r] # "ok" /\ s = target[r]
    /\ pc[r] = "inflight" /\ <<r, target[r]>> \notin accepted => sent[r] = 1
    /\ outcome[r] = "none" <=> pc[r] # "done"
    /\ outcome[r] = "ok" => sent[r] = 1

\* A sidecar is up only after it has printed its port.
UpInv == \A s \in Sidecars : proc[s] = "up" => s \in listened

\* EndpointsHaveListened is inductive with UpInv: a sidecar that answers a health
\* check, and whose endpoint is then published, is up.
EndpointInv == UpInv /\ EndpointsHaveListened

-----------------------------------------------------------------------------
\* The type invariant is inductive only together with ControlInv: a forward is
\* counted, and an endpoint dereferenced, where ControlInv says it may be.
LEMMA TypeAndControl == Spec => [](TypeOK /\ ControlInv)
<1> USE BoundsAssumption
<1>1. Init => TypeOK /\ ControlInv
  <2> SUFFICES ASSUME Init PROVE TypeOK /\ ControlInv
    OBVIOUS
  <2> USE DEF Init, NoSidecar
  <2>1. spawned \in 0..MaxStarts /\ crashes \in 0..MaxCrashes
    OBVIOUS
  <2>2. /\ accepted \subseteq Requests \X Sidecars
        /\ openPipes \subseteq Sidecars
        /\ listened \subseteq Sidecars
        /\ proc \in [Sidecars -> {"unborn", "booting", "up", "dead"}]
    OBVIOUS
  <2>3. pc \in [Requests -> PC] /\ ControlInv
    BY DEF PC, StartPC, ControlInv
  <2>4. /\ sent \in [Requests -> Nat]
        /\ attempt \in [Requests -> 0..2]
        /\ outcome \in [Requests -> {"none", "ok", "error"}]
    OBVIOUS
  <2>5. /\ got \in [Requests -> Endpoints]
        /\ target \in [Requests -> Endpoints]
        /\ bunEndpoint \in Endpoints /\ bunStdin \in Endpoints
        /\ child \in Endpoints /\ clientEndpoint \in Endpoints
    BY DEF Endpoints
  <2> QED
    BY <2>1, <2>2, <2>3, <2>4, <2>5 DEF TypeOK
<1>2. TypeOK /\ ControlInv /\ [Next]_vars => TypeOK' /\ ControlInv'
  <2> SUFFICES ASSUME TypeOK, ControlInv, [Next]_vars
               PROVE  TypeOK' /\ ControlInv'
    OBVIOUS
  <2> USE DEF TypeOK, ControlInv, Endpoints, Sidecars, NoSidecar, PC, StartPC,
              vars, osVars, bunVars, requestVars
  <2>1. ASSUME NEW r \in Requests, AcquireCached(r)
        PROVE  TypeOK' /\ ControlInv'
    BY <2>1 DEF AcquireCached, Acquiring, EndpointReady, Goto
  <2>2. ASSUME NEW r \in Requests, AcquireStartErr(r)
        PROVE  TypeOK' /\ ControlInv'
    BY <2>2 DEF AcquireStartErr, Acquiring, EndpointFailed, Finish, Goto
  <2>3. ASSUME NEW r \in Requests, SpawnFails(r)
        PROVE  TypeOK' /\ ControlInv'
    BY <2>3 DEF SpawnFails, Acquiring, EndpointFailed, Finish, Goto
  <2>4. ASSUME NEW r \in Requests, Spawn(r)
        PROVE  TypeOK' /\ ControlInv'
    BY <2>4 DEF Spawn, Acquiring, Goto
  <2>5. ASSUME NEW r \in Requests, StartReady(r)
        PROVE  TypeOK' /\ ControlInv'
    BY <2>5 DEF StartReady, EndpointReady, Goto
  <2>6. ASSUME NEW r \in Requests, StartTimeout(r)
        PROVE  TypeOK' /\ ControlInv'
    BY <2>6 DEF StartTimeout, StartFailed, EndpointFailed, Finish, Goto
  <2>7. ASSUME NEW r \in Requests, ReadPort(r)
        PROVE  TypeOK' /\ ControlInv'
    BY <2>7 DEF ReadPort, Goto
  <2>8. ASSUME NEW r \in Requests, Reap(r)
        PROVE  TypeOK' /\ ControlInv'
    BY <2>8 DEF Reap, StartFailed, EndpointFailed, Finish, Goto
  <2>9. ASSUME NEW r \in Requests, InstallClient(r)
        PROVE  TypeOK' /\ ControlInv'
    BY <2>9 DEF InstallClient, Goto
  <2>10. ASSUME NEW r \in Requests, ReadEndpoint(r)
        PROVE  TypeOK' /\ ControlInv'
    <3> USE <2>10 DEF ReadEndpoint, Goto
    <3>1. attempt[r] \in {0, 1} /\ clientEndpoint # NoSidecar
      OBVIOUS
    <3>2. attempt' = [attempt EXCEPT ![r] = attempt[r] + 1] /\ attempt[r] + 1 \in 0..2
      BY <3>1
    <3>3. attempt' \in [Requests -> 0..2]
      BY <3>2
    <3> QED
      BY <3>1, <3>3
  <2>11. ASSUME NEW r \in Requests, DialAccepted(r)
        PROVE  TypeOK' /\ ControlInv'
    BY <2>11 DEF DialAccepted, Goto
  <2>12. ASSUME NEW r \in Requests, DialRefused(r)
        PROVE  TypeOK' /\ ControlInv'
    BY <2>12 DEF DialRefused, Finish, Goto
  <2>13. ASSUME NEW r \in Requests, ForwardFails(r)
        PROVE  TypeOK' /\ ControlInv'
    BY <2>13 DEF ForwardFails, Finish, Goto
  <2>14. ASSUME NEW r \in Requests, Answer(r)
        PROVE  TypeOK' /\ ControlInv'
    BY <2>14 DEF Answer, Finish, Goto
  <2>15. ASSUME NEW r \in Requests, InvalidateSidecar(r)
        PROVE  TypeOK' /\ ControlInv'
    BY <2>15 DEF InvalidateSidecar, Goto
  <2>16. ASSUME NEW r \in Requests, SetEndpoint(r)
        PROVE  TypeOK' /\ ControlInv'
    BY <2>16 DEF SetEndpoint, Goto
  <2>17. ASSUME NEW r \in Requests, UtlsRoundTrip(r)
        PROVE  TypeOK' /\ ControlInv'
    BY <2>17 DEF UtlsRoundTrip, Finish, Goto
  <2>18. ASSUME NEW s \in Sidecars, Listen(s)
        PROVE  TypeOK' /\ ControlInv'
    BY <2>18 DEF Listen
  <2>19. ASSUME NEW s \in Sidecars, Exit(s)
        PROVE  TypeOK' /\ ControlInv'
    BY <2>19 DEF Exit
  <2>20. ASSUME NEW s \in Sidecars, Crash(s)
        PROVE  TypeOK' /\ ControlInv'
    BY <2>20 DEF Crash
  <2>21. ASSUME NEW r \in Requests, NEW s \in Sidecars, Fetch(r, s)
        PROVE  TypeOK' /\ ControlInv'
    BY <2>21 DEF Fetch
  <2>23. ASSUME NEW r \in Requests, EndedEarly(r)
        PROVE  TypeOK' /\ ControlInv'
    BY <2>23 DEF EndedEarly, GiveUp, Goto
  <2>24. ASSUME NEW r \in Requests, Probe(r)
        PROVE  TypeOK' /\ ControlInv'
    BY <2>24 DEF Probe, Goto
  <2>25. ASSUME NEW r \in Requests, DeadlinePassed(r)
        PROVE  TypeOK' /\ ControlInv'
    BY <2>25 DEF DeadlinePassed, GiveUp, Goto
  <2>26. ASSUME NEW r \in Requests, ProbeFails(r)
        PROVE  TypeOK' /\ ControlInv'
    BY <2>26 DEF ProbeFails, Goto
  <2>22. CASE UNCHANGED vars
    BY <2>22 DEF vars
  <2>27. ASSUME NEW r \in Requests, RequestStep(r)
        PROVE  TypeOK' /\ ControlInv'
    <3>1. \/ Acquire(r) \/ Start(r)
          \/ Probe(r) \/ ProbeEnds(r) \/ DeadlinePassed(r)
          \/ InstallClient(r) \/ ReadEndpoint(r) \/ Dial(r)
          \/ ForwardFails(r) \/ Answer(r)
          \/ InvalidateSidecar(r) \/ SetEndpoint(r) \/ UtlsRoundTrip(r)
      BY Zenon, <2>27 DEF RequestStep
    <3>2. CASE Acquire(r)
      BY Zenon, <3>2, <2>1, <2>2, <2>3, <2>4 DEF Acquire
    <3>3. CASE Start(r)
      BY Zenon, <3>3, <2>6, <2>7, <2>8, <2>23 DEF Start
    <3>4. CASE ProbeEnds(r)
      BY Zenon, <3>4, <2>5, <2>26 DEF ProbeEnds
    <3>5. CASE Dial(r)
      BY Zenon, <3>5, <2>11, <2>12 DEF Dial
    <3> QED
      BY Zenon, <3>1, <3>2, <3>3, <3>4, <3>5, <2>9, <2>10, <2>13, <2>14, <2>15,
         <2>16, <2>17, <2>24, <2>25
  <2>28. ASSUME NEW s \in Sidecars, SidecarStep(s)
        PROVE  TypeOK' /\ ControlInv'
    BY Zenon, <2>28, <2>18, <2>19, <2>20, <2>21 DEF SidecarStep
  <2> QED
    BY Zenon, <2>22, <2>27, <2>28 DEF Next
<1> QED
  BY <1>1, <1>2, PTL DEF Spec

\* bunMu is held exactly while a start is under way, and every open pipe is
\* that start's or the published sidecar's.
LEMMA Ownership == Spec => []OwnershipInv
<1> USE BoundsAssumption
<1>1. Init => OwnershipInv
  BY DEF Init, OwnershipInv, NoSidecar
<1>2. TypeOK /\ ControlInv /\ OwnershipInv /\ [Next]_vars => OwnershipInv'
  <2> SUFFICES ASSUME TypeOK, ControlInv, OwnershipInv, [Next]_vars
               PROVE  OwnershipInv'
    OBVIOUS
  <2> USE DEF OwnershipInv, TypeOK, ControlInv, Endpoints, Sidecars, NoSidecar, PC, StartPC,
              vars, osVars, bunVars, requestVars
  <2>1. ASSUME NEW r \in Requests, AcquireCached(r)
        PROVE  OwnershipInv'
    BY <2>1 DEF AcquireCached, Acquiring, EndpointReady, Goto
  <2>2. ASSUME NEW r \in Requests, AcquireStartErr(r)
        PROVE  OwnershipInv'
    BY <2>2 DEF AcquireStartErr, Acquiring, EndpointFailed, Finish, Goto
  <2>3. ASSUME NEW r \in Requests, SpawnFails(r)
        PROVE  OwnershipInv'
    BY <2>3 DEF SpawnFails, Acquiring, EndpointFailed, Finish, Goto
  <2>4. ASSUME NEW r \in Requests, Spawn(r)
        PROVE  OwnershipInv'
    BY <2>4 DEF Spawn, Acquiring, Goto
  <2>5. ASSUME NEW r \in Requests, StartReady(r)
        PROVE  OwnershipInv'
    BY <2>5 DEF StartReady, EndpointReady, Goto
  <2>6. ASSUME NEW r \in Requests, StartTimeout(r)
        PROVE  OwnershipInv'
    BY <2>6 DEF StartTimeout, StartFailed, EndpointFailed, Finish, Goto
  <2>7. ASSUME NEW r \in Requests, ReadPort(r)
        PROVE  OwnershipInv'
    BY <2>7 DEF ReadPort, Goto
  <2>8. ASSUME NEW r \in Requests, Reap(r)
        PROVE  OwnershipInv'
    BY <2>8 DEF Reap, StartFailed, EndpointFailed, Finish, Goto
  <2>9. ASSUME NEW r \in Requests, InstallClient(r)
        PROVE  OwnershipInv'
    BY <2>9 DEF InstallClient, Goto
  <2>10. ASSUME NEW r \in Requests, ReadEndpoint(r)
        PROVE  OwnershipInv'
    BY <2>10 DEF ReadEndpoint, Goto
  <2>11. ASSUME NEW r \in Requests, DialAccepted(r)
        PROVE  OwnershipInv'
    BY <2>11 DEF DialAccepted, Goto
  <2>12. ASSUME NEW r \in Requests, DialRefused(r)
        PROVE  OwnershipInv'
    BY <2>12 DEF DialRefused, Finish, Goto
  <2>13. ASSUME NEW r \in Requests, ForwardFails(r)
        PROVE  OwnershipInv'
    BY <2>13 DEF ForwardFails, Finish, Goto
  <2>14. ASSUME NEW r \in Requests, Answer(r)
        PROVE  OwnershipInv'
    BY <2>14 DEF Answer, Finish, Goto
  <2>15. ASSUME NEW r \in Requests, InvalidateSidecar(r)
        PROVE  OwnershipInv'
    BY <2>15 DEF InvalidateSidecar, Goto
  <2>16. ASSUME NEW r \in Requests, SetEndpoint(r)
        PROVE  OwnershipInv'
    BY <2>16 DEF SetEndpoint, Goto
  <2>17. ASSUME NEW r \in Requests, UtlsRoundTrip(r)
        PROVE  OwnershipInv'
    BY <2>17 DEF UtlsRoundTrip, Finish, Goto
  <2>18. ASSUME NEW s \in Sidecars, Listen(s)
        PROVE  OwnershipInv'
    BY <2>18 DEF Listen
  <2>19. ASSUME NEW s \in Sidecars, Exit(s)
        PROVE  OwnershipInv'
    BY <2>19 DEF Exit
  <2>20. ASSUME NEW s \in Sidecars, Crash(s)
        PROVE  OwnershipInv'
    BY <2>20 DEF Crash
  <2>21. ASSUME NEW r \in Requests, NEW s \in Sidecars, Fetch(r, s)
        PROVE  OwnershipInv'
    BY <2>21 DEF Fetch
  <2>23. ASSUME NEW r \in Requests, EndedEarly(r)
        PROVE  OwnershipInv'
    BY <2>23 DEF EndedEarly, GiveUp, Goto
  <2>24. ASSUME NEW r \in Requests, Probe(r)
        PROVE  OwnershipInv'
    BY <2>24 DEF Probe, Goto
  <2>25. ASSUME NEW r \in Requests, DeadlinePassed(r)
        PROVE  OwnershipInv'
    BY <2>25 DEF DeadlinePassed, GiveUp, Goto
  <2>26. ASSUME NEW r \in Requests, ProbeFails(r)
        PROVE  OwnershipInv'
    BY <2>26 DEF ProbeFails, Goto
  <2>22. CASE UNCHANGED vars
    BY <2>22 DEF vars
  <2>27. ASSUME NEW r \in Requests, RequestStep(r)
        PROVE  OwnershipInv'
    <3>1. \/ Acquire(r) \/ Start(r)
          \/ Probe(r) \/ ProbeEnds(r) \/ DeadlinePassed(r)
          \/ InstallClient(r) \/ ReadEndpoint(r) \/ Dial(r)
          \/ ForwardFails(r) \/ Answer(r)
          \/ InvalidateSidecar(r) \/ SetEndpoint(r) \/ UtlsRoundTrip(r)
      BY Zenon, <2>27 DEF RequestStep
    <3>2. CASE Acquire(r)
      BY Zenon, <3>2, <2>1, <2>2, <2>3, <2>4 DEF Acquire
    <3>3. CASE Start(r)
      BY Zenon, <3>3, <2>6, <2>7, <2>8, <2>23 DEF Start
    <3>4. CASE ProbeEnds(r)
      BY Zenon, <3>4, <2>5, <2>26 DEF ProbeEnds
    <3>5. CASE Dial(r)
      BY Zenon, <3>5, <2>11, <2>12 DEF Dial
    <3> QED
      BY Zenon, <3>1, <3>2, <3>3, <3>4, <3>5, <2>9, <2>10, <2>13, <2>14, <2>15,
         <2>16, <2>17, <2>24, <2>25
  <2>28. ASSUME NEW s \in Sidecars, SidecarStep(s)
        PROVE  OwnershipInv'
    BY Zenon, <2>28, <2>18, <2>19, <2>20, <2>21 DEF SidecarStep
  <2> QED
    BY Zenon, <2>22, <2>27, <2>28 DEF Next
<1> QED
  BY <1>1, <1>2, TypeAndControl, PTL DEF Spec

\* A request is either still the proxy's to send or has been handed over.
LEMMA DeliveryInvariant == Spec => []DeliveryInv
<1> USE BoundsAssumption
<1>1. Init => DeliveryInv
  BY ZenonT(60) DEF Init, DeliveryInv
<1>2. TypeOK /\ ControlInv /\ DeliveryInv /\ [Next]_vars => DeliveryInv'
  <2> SUFFICES ASSUME TypeOK, ControlInv, DeliveryInv, [Next]_vars
               PROVE  DeliveryInv'
    OBVIOUS
  <2> USE DEF DeliveryInv, TypeOK, ControlInv, Endpoints, Sidecars, NoSidecar, PC, StartPC,
              vars, osVars, bunVars, requestVars
  <2>1. ASSUME NEW r \in Requests, AcquireCached(r)
        PROVE  DeliveryInv'
    BY <2>1 DEF AcquireCached, Acquiring, EndpointReady, Goto
  <2>2. ASSUME NEW r \in Requests, AcquireStartErr(r)
        PROVE  DeliveryInv'
    BY <2>2 DEF AcquireStartErr, Acquiring, EndpointFailed, Finish, Goto
  <2>3. ASSUME NEW r \in Requests, SpawnFails(r)
        PROVE  DeliveryInv'
    BY <2>3 DEF SpawnFails, Acquiring, EndpointFailed, Finish, Goto
  <2>4. ASSUME NEW r \in Requests, Spawn(r)
        PROVE  DeliveryInv'
    BY <2>4 DEF Spawn, Acquiring, Goto
  <2>5. ASSUME NEW r \in Requests, StartReady(r)
        PROVE  DeliveryInv'
    BY <2>5 DEF StartReady, EndpointReady, Goto
  <2>6. ASSUME NEW r \in Requests, StartTimeout(r)
        PROVE  DeliveryInv'
    BY <2>6 DEF StartTimeout, StartFailed, EndpointFailed, Finish, Goto
  <2>7. ASSUME NEW r \in Requests, ReadPort(r)
        PROVE  DeliveryInv'
    BY <2>7 DEF ReadPort, Goto
  <2>8. ASSUME NEW r \in Requests, Reap(r)
        PROVE  DeliveryInv'
    BY <2>8 DEF Reap, StartFailed, EndpointFailed, Finish, Goto
  <2>9. ASSUME NEW r \in Requests, InstallClient(r)
        PROVE  DeliveryInv'
    BY <2>9 DEF InstallClient, Goto
  <2>10. ASSUME NEW r \in Requests, ReadEndpoint(r)
        PROVE  DeliveryInv'
    BY ZenonT(60), <2>10 DEF ReadEndpoint, Goto
  <2>11. ASSUME NEW r \in Requests, DialAccepted(r)
        PROVE  DeliveryInv'
    BY <2>11 DEF DialAccepted, Goto
  <2>12. ASSUME NEW r \in Requests, DialRefused(r)
        PROVE  DeliveryInv'
    BY <2>12 DEF DialRefused, Finish, Goto
  <2>13. ASSUME NEW r \in Requests, ForwardFails(r)
        PROVE  DeliveryInv'
    BY <2>13 DEF ForwardFails, Finish, Goto
  <2>14. ASSUME NEW r \in Requests, Answer(r)
        PROVE  DeliveryInv'
    BY <2>14 DEF Answer, Finish, Goto
  <2>15. ASSUME NEW r \in Requests, InvalidateSidecar(r)
        PROVE  DeliveryInv'
    BY <2>15 DEF InvalidateSidecar, Goto
  <2>16. ASSUME NEW r \in Requests, SetEndpoint(r)
        PROVE  DeliveryInv'
    BY <2>16 DEF SetEndpoint, Goto
  <2>17. ASSUME NEW r \in Requests, UtlsRoundTrip(r)
        PROVE  DeliveryInv'
    <3>1. PICK n \in {0, 1}, result \in {"ok", "error"} :
            /\ result = "ok" => n = 1
            /\ sent' = [sent EXCEPT ![r] = @ + n]
            /\ pc' = [pc EXCEPT ![r] = "done"]
            /\ outcome' = [outcome EXCEPT ![r] = result]
      BY <2>17 DEF UtlsRoundTrip, Finish, Goto
    <3>2. sent[r] = 0 /\ \A s \in Sidecars : <<r, s>> \notin accepted
      BY <2>17 DEF UtlsRoundTrip
    <3>3. accepted' = accepted /\ target' = target
      BY <2>17 DEF UtlsRoundTrip
    <3>4. sent'[r] = n /\ pc'[r] = "done" /\ outcome'[r] = result
      BY <3>1, <3>2
    <3>5. \A q \in Requests \ {r} :
            sent'[q] = sent[q] /\ pc'[q] = pc[q] /\ outcome'[q] = outcome[q]
      BY <3>1
    <3> QED
      BY SMTT(30), <3>1, <3>2, <3>3, <3>4, <3>5
  <2>18. ASSUME NEW s \in Sidecars, Listen(s)
        PROVE  DeliveryInv'
    BY <2>18 DEF Listen
  <2>19. ASSUME NEW s \in Sidecars, Exit(s)
        PROVE  DeliveryInv'
    BY <2>19 DEF Exit
  <2>20. ASSUME NEW s \in Sidecars, Crash(s)
        PROVE  DeliveryInv'
    BY <2>20 DEF Crash
  <2>21. ASSUME NEW r \in Requests, NEW s \in Sidecars, Fetch(r, s)
        PROVE  DeliveryInv'
    BY <2>21 DEF Fetch
  <2>23. ASSUME NEW r \in Requests, EndedEarly(r)
        PROVE  DeliveryInv'
    BY <2>23 DEF EndedEarly, GiveUp, Goto
  <2>24. ASSUME NEW r \in Requests, Probe(r)
        PROVE  DeliveryInv'
    BY <2>24 DEF Probe, Goto
  <2>25. ASSUME NEW r \in Requests, DeadlinePassed(r)
        PROVE  DeliveryInv'
    BY <2>25 DEF DeadlinePassed, GiveUp, Goto
  <2>26. ASSUME NEW r \in Requests, ProbeFails(r)
        PROVE  DeliveryInv'
    BY <2>26 DEF ProbeFails, Goto
  <2>22. CASE UNCHANGED vars
    BY <2>22 DEF vars
  <2>27. ASSUME NEW r \in Requests, RequestStep(r)
        PROVE  DeliveryInv'
    <3>1. \/ Acquire(r) \/ Start(r)
          \/ Probe(r) \/ ProbeEnds(r) \/ DeadlinePassed(r)
          \/ InstallClient(r) \/ ReadEndpoint(r) \/ Dial(r)
          \/ ForwardFails(r) \/ Answer(r)
          \/ InvalidateSidecar(r) \/ SetEndpoint(r) \/ UtlsRoundTrip(r)
      BY Zenon, <2>27 DEF RequestStep
    <3>2. CASE Acquire(r)
      BY Zenon, <3>2, <2>1, <2>2, <2>3, <2>4 DEF Acquire
    <3>3. CASE Start(r)
      BY Zenon, <3>3, <2>6, <2>7, <2>8, <2>23 DEF Start
    <3>4. CASE ProbeEnds(r)
      BY Zenon, <3>4, <2>5, <2>26 DEF ProbeEnds
    <3>5. CASE Dial(r)
      BY Zenon, <3>5, <2>11, <2>12 DEF Dial
    <3> QED
      BY Zenon, <3>1, <3>2, <3>3, <3>4, <3>5, <2>9, <2>10, <2>13, <2>14, <2>15,
         <2>16, <2>17, <2>24, <2>25
  <2>28. ASSUME NEW s \in Sidecars, SidecarStep(s)
        PROVE  DeliveryInv'
    BY Zenon, <2>28, <2>18, <2>19, <2>20, <2>21 DEF SidecarStep
  <2> QED
    BY Zenon, <2>22, <2>27, <2>28 DEF Next
<1> QED
  BY <1>1, <1>2, TypeAndControl, PTL DEF Spec

\* Every endpoint in use belongs to a sidecar that has listened.
LEMMA Endpoint == Spec => []EndpointInv
<1> USE BoundsAssumption
<1>1. Init => EndpointInv
  BY DEF Init, EndpointInv, UpInv, EndpointsHaveListened, Forwardable, NoSidecar, Sidecars
<1>2. TypeOK /\ ControlInv /\ EndpointInv /\ [Next]_vars => EndpointInv'
  <2> SUFFICES ASSUME TypeOK, ControlInv, EndpointInv, [Next]_vars
               PROVE  EndpointInv'
    OBVIOUS
  <2> USE DEF EndpointInv, UpInv, EndpointsHaveListened, Forwardable,
              TypeOK, ControlInv, Endpoints, Sidecars, NoSidecar, PC, StartPC,
              vars, osVars, bunVars, requestVars
  <2>1. ASSUME NEW r \in Requests, AcquireCached(r)
        PROVE  EndpointInv'
    BY <2>1 DEF AcquireCached, Acquiring, EndpointReady, Goto
  <2>2. ASSUME NEW r \in Requests, AcquireStartErr(r)
        PROVE  EndpointInv'
    BY <2>2 DEF AcquireStartErr, Acquiring, EndpointFailed, Finish, Goto
  <2>3. ASSUME NEW r \in Requests, SpawnFails(r)
        PROVE  EndpointInv'
    BY <2>3 DEF SpawnFails, Acquiring, EndpointFailed, Finish, Goto
  <2>4. ASSUME NEW r \in Requests, Spawn(r)
        PROVE  EndpointInv'
    BY <2>4 DEF Spawn, Acquiring, Goto
  <2>5. ASSUME NEW r \in Requests, StartReady(r)
        PROVE  EndpointInv'
    BY <2>5 DEF StartReady, EndpointReady, Goto
  <2>6. ASSUME NEW r \in Requests, StartTimeout(r)
        PROVE  EndpointInv'
    BY <2>6 DEF StartTimeout, StartFailed, EndpointFailed, Finish, Goto
  <2>7. ASSUME NEW r \in Requests, ReadPort(r)
        PROVE  EndpointInv'
    BY <2>7 DEF ReadPort, Goto
  <2>8. ASSUME NEW r \in Requests, Reap(r)
        PROVE  EndpointInv'
    BY <2>8 DEF Reap, StartFailed, EndpointFailed, Finish, Goto
  <2>9. ASSUME NEW r \in Requests, InstallClient(r)
        PROVE  EndpointInv'
    BY <2>9 DEF InstallClient, Goto
  <2>10. ASSUME NEW r \in Requests, ReadEndpoint(r)
        PROVE  EndpointInv'
    BY <2>10 DEF ReadEndpoint, Goto
  <2>11. ASSUME NEW r \in Requests, DialAccepted(r)
        PROVE  EndpointInv'
    BY <2>11 DEF DialAccepted, Goto
  <2>12. ASSUME NEW r \in Requests, DialRefused(r)
        PROVE  EndpointInv'
    BY <2>12 DEF DialRefused, Finish, Goto
  <2>13. ASSUME NEW r \in Requests, ForwardFails(r)
        PROVE  EndpointInv'
    BY <2>13 DEF ForwardFails, Finish, Goto
  <2>14. ASSUME NEW r \in Requests, Answer(r)
        PROVE  EndpointInv'
    BY <2>14 DEF Answer, Finish, Goto
  <2>15. ASSUME NEW r \in Requests, InvalidateSidecar(r)
        PROVE  EndpointInv'
    BY <2>15 DEF InvalidateSidecar, Goto
  <2>16. ASSUME NEW r \in Requests, SetEndpoint(r)
        PROVE  EndpointInv'
    BY <2>16 DEF SetEndpoint, Goto
  <2>17. ASSUME NEW r \in Requests, UtlsRoundTrip(r)
        PROVE  EndpointInv'
    BY <2>17 DEF UtlsRoundTrip, Finish, Goto
  <2>18. ASSUME NEW s \in Sidecars, Listen(s)
        PROVE  EndpointInv'
    BY <2>18 DEF Listen
  <2>19. ASSUME NEW s \in Sidecars, Exit(s)
        PROVE  EndpointInv'
    BY <2>19 DEF Exit
  <2>20. ASSUME NEW s \in Sidecars, Crash(s)
        PROVE  EndpointInv'
    BY <2>20 DEF Crash
  <2>21. ASSUME NEW r \in Requests, NEW s \in Sidecars, Fetch(r, s)
        PROVE  EndpointInv'
    BY <2>21 DEF Fetch
  <2>23. ASSUME NEW r \in Requests, EndedEarly(r)
        PROVE  EndpointInv'
    BY <2>23 DEF EndedEarly, GiveUp, Goto
  <2>24. ASSUME NEW r \in Requests, Probe(r)
        PROVE  EndpointInv'
    BY <2>24 DEF Probe, Goto
  <2>25. ASSUME NEW r \in Requests, DeadlinePassed(r)
        PROVE  EndpointInv'
    BY <2>25 DEF DeadlinePassed, GiveUp, Goto
  <2>26. ASSUME NEW r \in Requests, ProbeFails(r)
        PROVE  EndpointInv'
    BY <2>26 DEF ProbeFails, Goto
  <2>22. CASE UNCHANGED vars
    BY <2>22 DEF vars
  <2>27. ASSUME NEW r \in Requests, RequestStep(r)
        PROVE  EndpointInv'
    <3>1. \/ Acquire(r) \/ Start(r)
          \/ Probe(r) \/ ProbeEnds(r) \/ DeadlinePassed(r)
          \/ InstallClient(r) \/ ReadEndpoint(r) \/ Dial(r)
          \/ ForwardFails(r) \/ Answer(r)
          \/ InvalidateSidecar(r) \/ SetEndpoint(r) \/ UtlsRoundTrip(r)
      BY Zenon, <2>27 DEF RequestStep
    <3>2. CASE Acquire(r)
      BY Zenon, <3>2, <2>1, <2>2, <2>3, <2>4 DEF Acquire
    <3>3. CASE Start(r)
      BY Zenon, <3>3, <2>6, <2>7, <2>8, <2>23 DEF Start
    <3>4. CASE ProbeEnds(r)
      BY Zenon, <3>4, <2>5, <2>26 DEF ProbeEnds
    <3>5. CASE Dial(r)
      BY Zenon, <3>5, <2>11, <2>12 DEF Dial
    <3> QED
      BY Zenon, <3>1, <3>2, <3>3, <3>4, <3>5, <2>9, <2>10, <2>13, <2>14, <2>15,
         <2>16, <2>17, <2>24, <2>25
  <2>28. ASSUME NEW s \in Sidecars, SidecarStep(s)
        PROVE  EndpointInv'
    BY Zenon, <2>28, <2>18, <2>19, <2>20, <2>21 DEF SidecarStep
  <2> QED
    BY Zenon, <2>22, <2>27, <2>28 DEF Next
<1> QED
  BY <1>1, <1>2, TypeAndControl, PTL DEF Spec

THEOREM TypeCorrect == Spec => []TypeOK
  BY TypeAndControl, PTL

\* The upstream receives a request at most once: RoundTrip's retry and the
\* uTLS fallback never repeat what a sidecar has taken.
THEOREM DeliveredAtMostOnce == Spec => []SentAtMostOnce
<1>1. DeliveryInv => SentAtMostOnce
  <2> SUFFICES ASSUME DeliveryInv, NEW r \in Requests PROVE sent[r] <= 1
    BY DEF SentAtMostOnce
  <2>1. sent[r] \in {0, 1}
    BY DEF DeliveryInv
  <2> QED
    BY <2>1
<1> QED
  BY <1>1, DeliveryInvariant, PTL

\* No sidecar process is left with an open stdin pipe nobody will close.
THEOREM NoOrphanSidecar == Spec => []OneOwnedSidecar
<1>1. OwnershipInv => OneOwnedSidecar
  BY DEF OwnershipInv, OneOwnedSidecar, NoSidecar
<1> QED
  BY <1>1, Ownership, PTL

\* A request is never sent to a port nobody has listened on yet.
THEOREM NeverTooEarly == Spec => []EndpointsHaveListened
<1>1. EndpointInv => EndpointsHaveListened
  BY DEF EndpointInv
<1> QED
  BY <1>1, Endpoint, PTL

(***************************************************************************)
(* The transport implements Delivery.  A forward that is answered, given   *)
(* up or refused tells the caller; a fetch is what the upstream sees.      *)
(***************************************************************************)
LEMMA QuietStep ==
  ASSUME sent' = sent, outcome' = outcome
  PROVE  [Abstract!Next]_Abstract!vars
  BY DEF Abstract!vars

LEMMA ErrorStep ==
  ASSUME TypeOK, NEW r \in Requests, outcome[r] = "none",
         sent' = sent, outcome' = [outcome EXCEPT ![r] = "error"]
  PROVE  [Abstract!Next]_Abstract!vars
  BY DEF TypeOK, Abstract!Next, Abstract!Fail, Abstract!Tell

\* Where a request is told an error or goes on.
LEMMA ErrorOrQuiet ==
  ASSUME TypeOK, NEW r \in Requests, outcome[r] = "none", sent' = sent,
         outcome' \in {[outcome EXCEPT ![r] = "none"], [outcome EXCEPT ![r] = "error"]}
  PROVE  [Abstract!Next]_Abstract!vars
<1>1. CASE outcome' = [outcome EXCEPT ![r] = "none"]
  <2>1. outcome' = outcome
    BY <1>1 DEF TypeOK
  <2> QED
    BY <2>1, QuietStep
<1>2. CASE outcome' = [outcome EXCEPT ![r] = "error"]
  BY <1>2, ErrorStep
<1> QED
  BY <1>1, <1>2

THEOREM ImplementsDelivery == Spec => DeliverySpec
<1>1. Init => Abstract!Init
  BY DEF Init, Abstract!Init
<1>2. TypeOK /\ ControlInv /\ DeliveryInv /\ [Next]_vars => [Abstract!Next]_Abstract!vars
  <2> SUFFICES ASSUME TypeOK, ControlInv, DeliveryInv, [Next]_vars
               PROVE  [Abstract!Next]_Abstract!vars
    OBVIOUS
  <2> USE DEF vars, osVars, bunVars, requestVars
  <2>1. ASSUME NEW r \in Requests, AcquireCached(r)
        PROVE  [Abstract!Next]_Abstract!vars
    BY <2>1, QuietStep DEF AcquireCached, Acquiring, EndpointReady, Goto
  <2>2. ASSUME NEW r \in Requests, AcquireStartErr(r)
        PROVE  [Abstract!Next]_Abstract!vars
    BY <2>2, ErrorOrQuiet DEF DeliveryInv, AcquireStartErr, Acquiring, EndpointFailed, Finish, Goto
  <2>3. ASSUME NEW r \in Requests, SpawnFails(r)
        PROVE  [Abstract!Next]_Abstract!vars
    BY <2>3, ErrorOrQuiet DEF DeliveryInv, SpawnFails, Acquiring, EndpointFailed, Finish, Goto
  <2>4. ASSUME NEW r \in Requests, Spawn(r)
        PROVE  [Abstract!Next]_Abstract!vars
    BY <2>4, QuietStep DEF Spawn, Acquiring, Goto
  <2>5. ASSUME NEW r \in Requests, StartReady(r)
        PROVE  [Abstract!Next]_Abstract!vars
    BY <2>5, QuietStep DEF StartReady, EndpointReady, Goto
  <2>6. ASSUME NEW r \in Requests, StartTimeout(r)
        PROVE  [Abstract!Next]_Abstract!vars
    BY <2>6, ErrorOrQuiet DEF DeliveryInv, StartTimeout, StartFailed, EndpointFailed, Finish, Goto
  <2>7. ASSUME NEW r \in Requests, ReadPort(r)
        PROVE  [Abstract!Next]_Abstract!vars
    BY <2>7, QuietStep DEF ReadPort, Goto
  <2>8. ASSUME NEW r \in Requests, Reap(r)
        PROVE  [Abstract!Next]_Abstract!vars
    BY <2>8, ErrorOrQuiet DEF DeliveryInv, Reap, StartFailed, EndpointFailed, Finish, Goto
  <2>9. ASSUME NEW r \in Requests, InstallClient(r)
        PROVE  [Abstract!Next]_Abstract!vars
    BY <2>9, QuietStep DEF InstallClient, Goto
  <2>10. ASSUME NEW r \in Requests, ReadEndpoint(r)
        PROVE  [Abstract!Next]_Abstract!vars
    BY <2>10, QuietStep DEF ReadEndpoint, Goto
  <2>11. ASSUME NEW r \in Requests, DialAccepted(r)
        PROVE  [Abstract!Next]_Abstract!vars
    BY <2>11, QuietStep DEF DialAccepted, Goto
  <2>12. ASSUME NEW r \in Requests, DialRefused(r)
        PROVE  [Abstract!Next]_Abstract!vars
    BY <2>12, ErrorOrQuiet DEF DeliveryInv, DialRefused, Finish, Goto
  <2>13. ASSUME NEW r \in Requests, ForwardFails(r)
        PROVE  [Abstract!Next]_Abstract!vars
    BY <2>13, ErrorStep DEF DeliveryInv, ForwardFails, Finish, Goto
  <2>14. ASSUME NEW r \in Requests, Answer(r)
        PROVE  [Abstract!Next]_Abstract!vars
    BY <2>14 DEF Answer, Finish, TypeOK, DeliveryInv,
                 Abstract!Next, Abstract!Succeed, Abstract!Tell
  <2>15. ASSUME NEW r \in Requests, InvalidateSidecar(r)
        PROVE  [Abstract!Next]_Abstract!vars
    BY <2>15, QuietStep DEF InvalidateSidecar, Goto
  <2>16. ASSUME NEW r \in Requests, SetEndpoint(r)
        PROVE  [Abstract!Next]_Abstract!vars
    BY <2>16, QuietStep DEF SetEndpoint, Goto
  <2>17. ASSUME NEW r \in Requests, UtlsRoundTrip(r)
        PROVE  [Abstract!Next]_Abstract!vars
    <3>1. sent[r] = 0 /\ outcome[r] = "none"
      BY <2>17 DEF UtlsRoundTrip, DeliveryInv
    <3>2. PICK k \in {0, 1}, result \in {"ok", "error"} :
            /\ result = "ok" => k = 1
            /\ sent' = [sent EXCEPT ![r] = @ + k]
            /\ outcome' = [outcome EXCEPT ![r] = result]
      BY <2>17 DEF UtlsRoundTrip, Finish
    <3>3. CASE k = 0
      <4>1. result = "error"
        BY <3>2, <3>3
      <4>2. sent' = sent
        BY <3>1, <3>2, <3>3 DEF TypeOK
      <4> QED
        BY <3>1, <3>2, <4>1, <4>2, ErrorStep
    <3>4. CASE k = 1
      <4>1. sent' = [sent EXCEPT ![r] = 1]
        BY <3>1, <3>2, <3>4
      <4> QED
        BY <3>1, <3>2, <4>1 DEF Abstract!Next, Abstract!Exchange, Abstract!Receive, Abstract!Tell
    <3> QED
      BY <3>3, <3>4
  <2>18. ASSUME NEW s \in Sidecars, Listen(s)
        PROVE  [Abstract!Next]_Abstract!vars
    BY <2>18, QuietStep DEF Listen
  <2>19. ASSUME NEW s \in Sidecars, Exit(s)
        PROVE  [Abstract!Next]_Abstract!vars
    BY <2>19, QuietStep DEF Exit
  <2>20. ASSUME NEW s \in Sidecars, Crash(s)
        PROVE  [Abstract!Next]_Abstract!vars
    BY <2>20, QuietStep DEF Crash
  <2>21. ASSUME NEW r \in Requests, NEW s \in Sidecars, Fetch(r, s)
        PROVE  [Abstract!Next]_Abstract!vars
    <3>1. sent[r] = 0
      BY <2>21 DEF Fetch, DeliveryInv
    <3>2. sent' = [sent EXCEPT ![r] = 1] /\ outcome' = outcome
      BY <2>21, <3>1 DEF Fetch
    <3> QED
      BY <3>1, <3>2 DEF Abstract!Next, Abstract!Arrive, Abstract!Receive
  <2>23. ASSUME NEW r \in Requests, EndedEarly(r)
        PROVE  [Abstract!Next]_Abstract!vars
    BY <2>23, QuietStep DEF EndedEarly, GiveUp, Goto
  <2>24. ASSUME NEW r \in Requests, Probe(r)
        PROVE  [Abstract!Next]_Abstract!vars
    BY <2>24, QuietStep DEF Probe, Goto
  <2>25. ASSUME NEW r \in Requests, DeadlinePassed(r)
        PROVE  [Abstract!Next]_Abstract!vars
    BY <2>25, QuietStep DEF DeadlinePassed, GiveUp, Goto
  <2>26. ASSUME NEW r \in Requests, ProbeFails(r)
        PROVE  [Abstract!Next]_Abstract!vars
    BY <2>26, QuietStep DEF ProbeFails, Goto
  <2>22. CASE UNCHANGED vars
    BY <2>22, QuietStep DEF vars
  <2>27. ASSUME NEW r \in Requests, RequestStep(r)
        PROVE  [Abstract!Next]_Abstract!vars
    <3>1. \/ Acquire(r) \/ Start(r)
          \/ Probe(r) \/ ProbeEnds(r) \/ DeadlinePassed(r)
          \/ InstallClient(r) \/ ReadEndpoint(r) \/ Dial(r)
          \/ ForwardFails(r) \/ Answer(r)
          \/ InvalidateSidecar(r) \/ SetEndpoint(r) \/ UtlsRoundTrip(r)
      BY Zenon, <2>27 DEF RequestStep
    <3>2. CASE Acquire(r)
      BY Zenon, <3>2, <2>1, <2>2, <2>3, <2>4 DEF Acquire
    <3>3. CASE Start(r)
      BY Zenon, <3>3, <2>6, <2>7, <2>8, <2>23 DEF Start
    <3>4. CASE ProbeEnds(r)
      BY Zenon, <3>4, <2>5, <2>26 DEF ProbeEnds
    <3>5. CASE Dial(r)
      BY Zenon, <3>5, <2>11, <2>12 DEF Dial
    <3> QED
      BY Zenon, <3>1, <3>2, <3>3, <3>4, <3>5, <2>9, <2>10, <2>13, <2>14, <2>15,
         <2>16, <2>17, <2>24, <2>25
  <2>28. ASSUME NEW s \in Sidecars, SidecarStep(s)
        PROVE  [Abstract!Next]_Abstract!vars
    BY Zenon, <2>28, <2>18, <2>19, <2>20, <2>21 DEF SidecarStep
  <2> QED
    BY Zenon, <2>22, <2>27, <2>28 DEF Next
<1> QED
  BY <1>1, <1>2, TypeAndControl, DeliveryInvariant, PTL DEF Spec, DeliverySpec, Abstract!Spec

=============================================================================
