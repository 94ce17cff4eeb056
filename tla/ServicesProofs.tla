----------------------------- MODULE ServicesProofs -----------------------------
(***************************************************************************)
(* Starts, outages and ends for any number of outages, stops and requests. *)
(* A service that serves has its queue because declaring it is the last    *)
(* step of its start (Attaching).                                          *)
(***************************************************************************)
EXTENDS Services, TLAPS

\* A user of the queue that is past its last step was attached.
Attaching ==
    \A p \in Users :
        (phase[p] = "serving" \/ (phase[p] = "starting" /\ at[p] > Len(Steps(p))))
            => p \in attached \cup deaf

\* The places of the starts are a function of the services.
Places == at \in [Services -> Nat]

Inv == TypeOK /\ Places /\ Attaching

\* The length of each start.
LEMMA StartLength ==
    ASSUME NEW p \in Services
    PROVE  Len(Steps(p)) \in Nat /\ Len(Steps(p)) > 0
<1>1. CASE p = "gateway"
  BY <1>1 DEF Steps, GatewaySteps
<1>2. CASE p = "repo"
  BY <1>2 DEF Steps, RepoSteps
<1>3. CASE p = "vcodec"
  BY <1>3 DEF Steps, VcodecSteps
<1> QED
  BY <1>1, <1>2, <1>3 DEF Services

\* The users of the queue declare it last.
LEMMA DeclaringIsLast ==
    ASSUME NEW p \in Users
    PROVE  Steps(p)[Len(Steps(p))] = "declare"
<1>1. CASE p = "gateway"
  BY <1>1 DEF Steps, GatewaySteps
<1>2. CASE p = "vcodec"
  BY <1>2 DEF Steps, VcodecSteps
<1> QED
  BY <1>1, <1>2 DEF Users

\* Nobody else declares it.
LEMMA OnlyUsersDeclare ==
    ASSUME NEW p \in Services, NEW i \in 1..Len(Steps(p)), Steps(p)[i] = "declare"
    PROVE  p \in Users
<1> SUFFICES ASSUME p = "repo" PROVE FALSE
  BY DEF Users, Services
<1> QED
  BY DEF Steps, RepoSteps

-----------------------------------------------------------------------------
LEMMA InitInv ==
    ASSUME Init PROVE Inv
<1>1. \A p \in Services : 1 \in 1..(Len(Steps(p)) + 1)
  BY StartLength
<1>2. TypeOK
  BY <1>1, ServicesAssumption DEF Init, TypeOK, Services
<1>3. Places
  BY DEF Init, Places
<1>4. Attaching
  BY DEF Init, Attaching, Users, Services
<1> QED
  BY <1>2, <1>3, <1>4 DEF Inv

LEMMA StartKeeps ==
    ASSUME Inv, NEW p \in Services, Start(p) PROVE Inv'
<1> USE DEF Inv, Start, Goto
<1>1. TypeOK'
  BY StartLength DEF TypeOK, Places
<1>2. Places'
  BY DEF Places
<1>3. Attaching'
  <2> SUFFICES ASSUME NEW q \in Users, phase'[q] = "serving"
                       \/ (phase'[q] = "starting" /\ at'[q] > Len(Steps(q)))
               PROVE  q \in attached \cup deaf
    BY DEF Attaching
  <2>1. q # p
    BY StartLength DEF TypeOK, Places
  <2> QED
    BY <2>1 DEF Attaching, TypeOK, Places, Users, Services
<1> QED
  BY <1>1, <1>2, <1>3

\* One step of a start: the declaration fixes the kind of the queue and is what
\* attaches.
LEMMA AdvanceKeeps ==
    ASSUME Inv, NEW p \in Services, Advance(p) PROVE Inv'
<1> DEFINE step == Steps(p)[at[p]]
<1>1. at[p] \in 1..Len(Steps(p)) /\ at' = [at EXCEPT ![p] = @ + 1]
  BY StartLength DEF Inv, TypeOK, Places, Advance
<1>2. Places'
  BY <1>1 DEF Inv, Places
<1>3. CASE step = "declare"
  <2>1. p \in Users
    BY <1>1, <1>3, OnlyUsersDeclare
  <2>2. p \in linked /\ queue \in {None, KindOf(p)}
    BY <1>3 DEF Advance, Succeeds, Accepted
  <2>3. queue' = KindOf(p) /\ attached' = attached \cup {p} /\ linked' = linked
    BY <1>3 DEF Advance
  <2>4. TypeOK'
    BY <1>1, <2>1, <2>2, <2>3, StartLength DEF Inv, TypeOK, Places, Advance, KindOf
  <2>5. Attaching'
    BY <1>1, <2>3 DEF Inv, Attaching, Places, Advance, Users, Services
  <2> QED
    BY <1>2, <2>4, <2>5 DEF Inv
<1>4. CASE step # "declare"
  <2>1. UNCHANGED <<queue, attached, deaf, phase>> /\ linked \subseteq linked'
        /\ linked' \subseteq Services
    BY <1>4 DEF Inv, TypeOK, Advance
  <2>2. TypeOK'
    BY <1>1, <2>1, StartLength DEF Inv, TypeOK, Places, Advance
  <2>3. Attaching'
    <3> SUFFICES ASSUME NEW q \in Users, phase[q] = "serving"
                         \/ (phase[q] = "starting" /\ at'[q] > Len(Steps(q)))
                 PROVE  q \in attached \cup deaf
      BY <2>1 DEF Attaching
    <3>1. CASE q # p
      BY <1>1, <3>1 DEF Inv, Attaching, Places, Users, Services
    <3>2. CASE q = p
      <4>1. at'[p] <= Len(Steps(p))
        <5>1. at[p] # Len(Steps(p))
          BY <1>4, <3>2, DeclaringIsLast
        <5> QED
          BY <1>1, <5>1, StartLength DEF Inv, Places
      <4>2. phase[p] = "starting"
        BY DEF Advance
      <4> QED
        BY <1>1, <3>2, <4>1, <4>2, StartLength DEF Inv, Places
    <3> QED
      BY <3>1, <3>2
  <2> QED
    BY <1>2, <2>2, <2>3 DEF Inv
<1> QED
  BY <1>3, <1>4

\* A process that ends takes its consumer along.
LEMMA GoneKeeps ==
    ASSUME Inv, NEW p \in Services, Gone(p), UNCHANGED <<up, configured>>,
           queue' \in {queue, "durable", "transient"}, inflight' \in {0, inflight},
           stops' \in {stops, stops + 1}, stops' <= MaxStops,
           outages' \in {outages, outages + 1}, outages' <= MaxOutages
    PROVE  Inv'
<1>1. TypeOK'
  BY ServicesAssumption DEF Inv, TypeOK, Places, Gone, Goto, LeftAttached, Detached
<1>2. Places'
  BY DEF Inv, Places, Gone
<1>3. Attaching'
  BY DEF Inv, TypeOK, Attaching, Gone, Goto, LeftAttached, Detached, Users, Services
<1> QED
  BY <1>1, <1>2, <1>3 DEF Inv

LEMMA ServeKeeps ==
    ASSUME Inv, NEW p \in Services, Serve(p) PROVE Inv'
<1> USE DEF Inv, Serve, Goto
<1>1. TypeOK'
  BY DEF TypeOK
<1>2. Places'
  BY DEF Places
<1>3. Attaching'
  BY DEF TypeOK, Attaching, Users, Services
<1> QED
  BY <1>1, <1>2, <1>3

LEMMA OutageKeeps ==
    ASSUME Inv, NEW d \in Deps, Outage(d) PROVE Inv'
<1> USE DEF Inv, Outage
<1>1. TypeOK'
  BY ServicesAssumption DEF TypeOK
<1>2. Places'
  BY DEF Places
<1>3. Attaching'
  BY DEF Attaching
<1> QED
  BY <1>1, <1>2, <1>3

\* The steps that leave the queue and who is attached to it alone.
LEMMA RestKeeps ==
    ASSUME Inv,
           (\E d \in Deps : Recover(d)) \/ Request \/ Reply \/ Shutdown \/ UNCHANGED vars
    PROVE  Inv'
<1> USE DEF Inv
<1>1. /\ UNCHANGED <<at, linked, attached, deaf, queue, outages, stops, configured>>
      /\ phase' = phase \/ Shutdown
  BY DEF Recover, Request, Reply, Shutdown, vars, serviceVars
<1>2. up' \subseteq Deps /\ inflight' \in 0..MaxRequests
  BY ServicesAssumption DEF TypeOK, Recover, Request, Reply, Shutdown, vars
<1>3. TypeOK'
  BY <1>1, <1>2 DEF TypeOK, Shutdown, Goto
<1>4. Places'
  BY <1>1 DEF Places
<1>5. Attaching'
  BY <1>1 DEF TypeOK, Attaching, Shutdown, Goto, Users, Services
<1> QED
  BY <1>3, <1>4, <1>5

LEMMA SignalKeeps ==
    ASSUME Inv, Signal PROVE Inv'
<1> USE DEF Inv, Signal, Goto, LeftAttached, Detached
<1>1. TypeOK'
  BY ServicesAssumption DEF TypeOK, Users, Services
<1>2. Places'
  BY DEF Places
<1>3. Attaching'
  BY DEF TypeOK, Attaching, Users, Services
<1> QED
  BY <1>1, <1>2, <1>3

LEMMA NextKeeps ==
    ASSUME Inv, [Next]_vars PROVE Inv'
<1>1. ASSUME NEW p \in Services, Start(p) PROVE Inv'
  BY <1>1, StartKeeps
<1>2. ASSUME NEW p \in Services, Step(p) PROVE Inv'
  <2>1. CASE StepFails(p)
    BY <2>1, GoneKeeps DEF Inv, TypeOK, StepFails, OnFailure, Exits
  <2> QED
    BY <1>2, <2>1, AdvanceKeeps, ServeKeeps DEF Step
<1>3. ASSUME NEW p \in Services, Kill(p) PROVE Inv'
  <2>1. Gone(p) /\ UNCHANGED <<up, configured, queue, outages>> /\ inflight' \in {0, inflight}
    BY <1>3 DEF Kill, Ends
  <2>2. stops' = stops + 1 /\ stops' <= MaxStops
    BY <1>3, ServicesAssumption DEF Kill, Inv, TypeOK
  <2> QED
    BY <2>1, <2>2, GoneKeeps DEF Inv, TypeOK
<1>4. ASSUME NEW d \in Deps, Outage(d) PROVE Inv'
  BY <1>4, OutageKeeps
<1>5. ASSUME Stop PROVE Inv'
  <2>1. "gateway" \in Services
    BY DEF Services
  <2> QED
    BY <1>5, <2>1, GoneKeeps DEF Stop, Ends, Inv, TypeOK
<1>6. ASSUME NEW p \in Services, CallFails(p) PROVE Inv'
  <2>1. Gone(p) /\ UNCHANGED <<up, configured, inflight, stops>>
    BY <1>6 DEF CallFails, OnFailure, Exits
  <2>2. outages' = outages + 1 /\ outages' <= MaxOutages
    BY <1>6, ServicesAssumption DEF CallFails, Inv, TypeOK
  <2>3. queue' \in {queue, "durable", "transient"}
    BY <1>6 DEF CallFails, KindOf
  <2> QED
    BY <2>1, <2>2, <2>3, GoneKeeps DEF Inv, TypeOK
<1> QED
  BY <1>1, <1>2, <1>3, <1>4, <1>5, <1>6, RestKeeps, SignalKeeps DEF Next

-----------------------------------------------------------------------------
LEMMA Invariance == Spec => []Inv
<1>1. Init => Inv
  BY InitInv
<1>2. Inv /\ [Next]_vars => Inv'
  BY NextKeeps
<1> QED
  BY <1>1, <1>2, PTL DEF Spec

\* Every service is in a phase and at a place of its own start, and whoever is
\* attached is linked.
THEOREM TypeSafety == Spec => []TypeOK
<1>1. Inv => TypeOK
  BY DEF Inv
<1> QED
  BY <1>1, Invariance, PTL

\* Whatever fails and however often it is started again, no gateway and no vcodec
\* serves without having declared notify.q first (main.go, rmq.rs).
THEOREM ServingHasQueue == Spec => []ServingIsAttached
<1>1. Inv => ServingIsAttached
  BY DEF Inv, Attaching, ServingIsAttached
<1> QED
  BY <1>1, Invariance, PTL

================================================================================
