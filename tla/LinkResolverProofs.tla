--------------------------- MODULE LinkResolverProofs ---------------------------
(***************************************************************************)
(* Proofs about LinkResolver for every set of providers, secrets, services *)
(* and pod lists: listLinkInfos stays well typed, its secrets loop gives   *)
(* each missing provider at most one link info and keys quarksLinks by the *)
(* typed infos, and every quarks link with an address is backed by the     *)
(* service getServiceRecords recorded for it, with its job instances       *)
(* numbered from 0.                                                        *)
(***************************************************************************)
EXTENDS LinkResolver, TLAPS

USE LinkAssumption

\* The pc values of listLinkInfos.
PcValues == {"Start", "ListSecrets", "ListServices", "Secrets", "Services",
             "Pods", "Missing", "Done"}

\* The records Init lists are records of the listed kinds.
LEMMA InputsTyped ==
    /\ SecretInputs \subseteq SecretRec
    /\ ServiceInputs \subseteq ServiceRec
<1>1. SecretInputs \subseteq SecretRec
      <2> SUFFICES ASSUME NEW r \in SecretInputs PROVE r \in SecretRec
          OBVIOUS
      <2>1. CASE \E n \in SecretNames, b \in BOOLEAN :
                     r = [name |-> n, forDepl |-> b, provider |-> Malformed, typed |-> FALSE]
            BY <2>1 DEF SecretRec
      <2>2. CASE r \in [name: SecretNames, forDepl: {TRUE}, provider: Providers, typed: BOOLEAN]
            BY <2>2 DEF SecretRec
      <2>. QED BY <2>1, <2>2 DEF SecretInputs
<1>2. ServiceInputs \subseteq ServiceRec
      <2> SUFFICES ASSUME NEW r \in ServiceInputs PROVE r \in ServiceRec
          OBVIOUS
      <2>1. CASE \E n \in ServiceNames :
                     r = [name |-> n, forDepl |-> FALSE, provides |-> NoProvider, pods |-> <<>>]
            BY <2>1 DEF ServiceRec
      <2>2. CASE r \in [name: ServiceNames, forDepl: {TRUE}, provides: SecretNames, pods: PodLists]
            BY <2>2 DEF ServiceRec
      <2>. QED BY <2>1, <2>2 DEF ServiceInputs
<1>. QED BY <1>1, <1>2

\* A listing is a finite sequence of its records.
LEMMA ListingsSeq ==
    ASSUME NEW R, NEW k \in Nat
    PROVE  Listings(R, k) \subseteq Seq(R)
<1> SUFFICES ASSUME NEW s \in Listings(R, k) PROVE s \in Seq(R)
    OBVIOUS
<1>1. PICK n \in 0..k : s \in [1..n -> R]
      BY DEF Listings
<1>. QED BY <1>1

LEMMA InitTypeOK == Init => TypeOK
<1> SUFFICES ASSUME Init PROVE TypeOK
    OBVIOUS
<1>1. secrets \in Seq(SecretRec) /\ services \in Seq(ServiceRec)
      BY InputsTyped, ListingsSeq DEF Init
<1>2. IsLinkMap(qlinks) /\ svcRecords \in [DOMAIN svcRecords -> 1..Len(services)]
      BY DEF Init, IsLinkMap
<1>. QED BY <1>1, <1>2 DEF Init, TypeOK

-----------------------------------------------------------------------------
(* Type correctness, one lemma per action.                                 *)

\* TypeOK' from one fact per variable, the inputs unchanged.
LEMMA TypeFrame ==
    ASSUME TypeOK, UNCHANGED inputs,
           pc' \in PcValues, found' \subseteq missing,
           i' \in 1..(Len(secrets) + 1), j' \in 1..(Len(services) + 1),
           infos' \in Seq(LinkInfo), IsLinkMap(qlinks'),
           svcRecords' \in [DOMAIN svcRecords' -> 1..Len(services)],
           DOMAIN svcRecords' \subseteq SecretNames,
           pending' \subseteq DOMAIN qlinks',
           result' = <<>> \/ IsResult(result')
    PROVE  TypeOK'
<1>1. missing' \subseteq Providers /\ secrets' \in Seq(SecretRec) /\ services' \in Seq(ServiceRec)
      BY DEF TypeOK, inputs
<1>2. /\ found' \subseteq missing'
      /\ i' \in 1..(Len(secrets') + 1) /\ j' \in 1..(Len(services') + 1)
      /\ svcRecords' \in [DOMAIN svcRecords' -> 1..Len(services')]
      BY DEF inputs
<1>. QED BY <1>1, <1>2 DEF TypeOK, PcValues

\* The variables an action leaves alone keep their type.
LEMMA KeepType ==
    ASSUME TypeOK
    PROVE  /\ found' = found => found' \subseteq missing
           /\ i' = i => i' \in 1..(Len(secrets) + 1)
           /\ j' = j => j' \in 1..(Len(services) + 1)
           /\ infos' = infos => infos' \in Seq(LinkInfo)
           /\ qlinks' = qlinks => IsLinkMap(qlinks')
           /\ svcRecords' = svcRecords =>
                 /\ svcRecords' \in [DOMAIN svcRecords' -> 1..Len(services)]
                 /\ DOMAIN svcRecords' \subseteq SecretNames
           /\ <<qlinks', pending'>> = <<qlinks, pending>> => pending' \subseteq DOMAIN qlinks'
           /\ result' = result => (result' = <<>> \/ IsResult(result'))
BY DEF TypeOK

\* An early return leaves everything but pc and the result as it was.
LEMMA FailType ==
    ASSUME TypeOK, NEW e \in Errors, Fail(e)
    PROVE  TypeOK'
<1>1. IsResult(result')
      BY DEF Fail, IsResult
<1>2. "Done" \in PcValues
      BY DEF PcValues
<1>. QED BY <1>1, <1>2, KeepType, TypeFrame DEF Fail

LEMMA GotoType ==
    ASSUME TypeOK, NEW to \in PcValues, Goto(to)
    PROVE  TypeOK'
BY KeepType, TypeFrame DEF Goto

LEMMA SecretStepType ==
    ASSUME TypeOK, SecretStep
    PROVE  TypeOK'
<1> DEFINE s == secrets[i]
<1>1. s \in SecretRec
      BY DEF SecretStep, TypeOK
<1>2. CASE /\ ~s.forDepl \/ (s.provider # Malformed /\ s.provider \notin missing)
           /\ i' = i + 1
           /\ UNCHANGED <<inputs, pc, found, j, infos, qlinks, svcRecords, pending, result>>
      <2>1. i' \in 1..(Len(secrets) + 1)
            BY <1>2 DEF SecretStep, TypeOK
      <2>2. /\ UNCHANGED inputs /\ pc' = pc /\ found' = found /\ j' = j
            /\ infos' = infos /\ qlinks' = qlinks /\ svcRecords' = svcRecords
            /\ pending' = pending /\ result' = result
            BY <1>2
      <2>3. pc' \in PcValues
            BY <2>2 DEF TypeOK, PcValues
      <2>. QED BY <2>1, <2>2, <2>3, KeepType, TypeFrame
<1>3. CASE s.forDepl /\ s.provider = Malformed /\ Fail([kind |-> "ParseLink"])
      BY <1>3, FailType DEF Errors
<1>4. CASE s.forDepl /\ s.provider \in found
                     /\ Fail([kind |-> "DupSecret", provider |-> s.provider])
      <2>1. [kind |-> "DupSecret", provider |-> s.provider] \in Errors
            BY <1>4 DEF TypeOK, Errors
      <2>. QED BY <1>4, <2>1, FailType
<1>5. CASE /\ s.forDepl /\ s.provider \in missing \ found
           /\ infos' = Append(infos, [secret |-> s.name, provider |-> s.provider,
                                      typed |-> s.typed])
           /\ qlinks' = IF s.typed THEN Put(qlinks, s.name, NoLink) ELSE qlinks
           /\ found' = found \cup {s.provider}
           /\ i' = i + 1
           /\ UNCHANGED <<inputs, pc, j, svcRecords, pending, result>>
      <2>1. [secret |-> s.name, provider |-> s.provider, typed |-> s.typed] \in LinkInfo
            BY <1>1, <1>5 DEF SecretRec, LinkInfo, TypeOK
      <2>2. infos' \in Seq(LinkInfo)
            BY <1>5, <2>1 DEF TypeOK
      <2>3. NoLink \in QuarksLink
            BY DEF NoLink, QuarksLink
      <2>4. IsLinkMap(qlinks') /\ pending' \subseteq DOMAIN qlinks'
            BY <1>1, <1>5, <2>3 DEF TypeOK, IsLinkMap, Put, SecretRec
      <2>5. found' \subseteq missing /\ i' \in 1..(Len(secrets) + 1)
            <3>1. found \subseteq missing /\ i \in 1..(Len(secrets) + 1)
                  BY DEF TypeOK
            <3>2. i <= Len(secrets)
                  BY DEF SecretStep
            <3>. QED BY <1>5, <3>1, <3>2
      <2>6. /\ UNCHANGED inputs /\ pc' = pc /\ j' = j /\ svcRecords' = svcRecords
            /\ result' = result
            BY <1>5
      <2>7. pc' \in PcValues
            BY <2>6 DEF TypeOK, PcValues
      <2>. QED BY <2>2, <2>4, <2>5, <2>6, <2>7, KeepType, TypeFrame
<1>. QED BY <1>2, <1>3, <1>4, <1>5 DEF SecretStep

LEMMA ServiceStepType ==
    ASSUME TypeOK, ServiceStep
    PROVE  TypeOK'
<1> DEFINE v == services[j]
<1>1. v \in ServiceRec /\ j \in 1..Len(services)
      BY DEF ServiceStep, TypeOK
<1>2. CASE /\ ~v.forDepl \/ v.provides = NoProvider
           /\ j' = j + 1
           /\ UNCHANGED <<inputs, pc, found, i, infos, qlinks, svcRecords, pending, result>>
      <2>1. j' \in 1..(Len(services) + 1)
            BY <1>1, <1>2
      <2>2. /\ UNCHANGED inputs /\ pc' = pc /\ found' = found /\ i' = i
            /\ infos' = infos /\ qlinks' = qlinks /\ svcRecords' = svcRecords
            /\ pending' = pending /\ result' = result
            BY <1>2
      <2>3. pc' \in PcValues
            BY <2>2 DEF TypeOK, PcValues
      <2>. QED BY <2>1, <2>2, <2>3, KeepType, TypeFrame
<1>3. CASE v.forDepl /\ v.provides \in DOMAIN svcRecords
           /\ Fail([kind |-> "DupService", provider |-> v.provides])
      <2>1. [kind |-> "DupService", provider |-> v.provides] \in Errors
            BY <1>3 DEF TypeOK, Errors
      <2>. QED BY <1>3, <2>1, FailType
<1>4. CASE /\ v.forDepl /\ v.provides \in SecretNames \ DOMAIN svcRecords
           /\ svcRecords' = Put(svcRecords, v.provides, j)
           /\ j' = j + 1
           /\ UNCHANGED <<inputs, pc, found, i, infos, qlinks, pending, result>>
      <2>1. j' \in 1..(Len(services) + 1)
            BY <1>1, <1>4
      <2>2. /\ svcRecords' \in [DOMAIN svcRecords' -> 1..Len(services)]
            /\ DOMAIN svcRecords' \subseteq SecretNames
            BY <1>1, <1>4 DEF TypeOK, Put
      <2>3. /\ UNCHANGED inputs /\ pc' = pc /\ found' = found /\ i' = i
            /\ infos' = infos /\ qlinks' = qlinks /\ pending' = pending /\ result' = result
            BY <1>4
      <2>4. pc' \in PcValues
            BY <2>3 DEF TypeOK, PcValues
      <2>. QED BY <2>1, <2>2, <2>3, <2>4, KeepType, TypeFrame
<1>. QED BY <1>2, <1>3, <1>4 DEF ServiceStep

LEMMA ServicesDoneType ==
    ASSUME TypeOK, ServicesDone
    PROVE  TypeOK'
<1>1. /\ UNCHANGED inputs /\ found' = found /\ i' = i /\ j' = j /\ infos' = infos
      /\ qlinks' = qlinks /\ svcRecords' = svcRecords /\ result' = result
      /\ pc' \in PcValues /\ pending' \subseteq DOMAIN qlinks'
      BY DEF ServicesDone, PcValues
<1>. QED BY <1>1, KeepType, TypeFrame

\* A job instance list built from a pod list.
LEMMA InstancesType ==
    ASSUME NEW pods \in Seq(BOOLEAN)
    PROVE  InstancesOf(pods) \in Seq(JobInstance)
BY DEF InstancesOf, JobInstance

LEMMA PodStepType ==
    ASSUME TypeOK, PodStep
    PROVE  TypeOK'
<1>1. PICK q \in pending :
         \/ /\ q \notin DOMAIN svcRecords
            /\ pending' = pending \ {q}
            /\ UNCHANGED <<inputs, pc, found, i, j, infos, qlinks, svcRecords, result>>
         \/ /\ q \in DOMAIN svcRecords
            /\ LET v == services[svcRecords[q]] IN
               \/ Fail([kind |-> "ListPods", link |-> q])
               \/ /\ v.pods = <<>>
                  /\ Fail([kind |-> "NoPods", link |-> q])
               \/ /\ v.pods # <<>>
                  /\ \E k \in DOMAIN v.pods : ~v.pods[k]
                  /\ Fail([kind |-> "NoIP", link |-> q])
               \/ /\ v.pods # <<>>
                  /\ \A k \in DOMAIN v.pods : v.pods[k]
                  /\ qlinks' = [qlinks EXCEPT ![q] = [address |-> v.name,
                                                      instances |-> InstancesOf(v.pods)]]
                  /\ pending' = pending \ {q}
                  /\ UNCHANGED <<inputs, pc, found, i, j, infos, svcRecords, result>>
      BY DEF PodStep
<1>2. q \in SecretNames
      BY DEF TypeOK, IsLinkMap
<1>3. \A e \in {"ListPods", "NoPods", "NoIP"} : [kind |-> e, link |-> q] \in Errors
      BY <1>2 DEF Errors
<1>4. pc' = pc => pc' \in PcValues
      BY DEF TypeOK, PcValues
<1>5. CASE q \notin DOMAIN svcRecords
      <2>1. /\ pending' = pending \ {q}
            /\ UNCHANGED inputs /\ pc' = pc /\ found' = found /\ i' = i /\ j' = j
            /\ infos' = infos /\ qlinks' = qlinks /\ svcRecords' = svcRecords /\ result' = result
            BY <1>1, <1>5
      <2>2. pending' \subseteq DOMAIN qlinks'
            BY <2>1 DEF TypeOK
      <2>. QED BY <1>4, <2>1, <2>2, KeepType, TypeFrame
<1>6. CASE q \in DOMAIN svcRecords
      <2> DEFINE v == services[svcRecords[q]]
      <2>1. v \in ServiceRec
            BY <1>6 DEF TypeOK
      <2>2. CASE Fail([kind |-> "ListPods", link |-> q])
                 \/ Fail([kind |-> "NoPods", link |-> q])
                 \/ Fail([kind |-> "NoIP", link |-> q])
            BY <2>2, <1>3, FailType
      <2>3. CASE /\ qlinks' = [qlinks EXCEPT ![q] = [address |-> v.name,
                                                     instances |-> InstancesOf(v.pods)]]
                 /\ pending' = pending \ {q}
                 /\ UNCHANGED <<inputs, pc, found, i, j, infos, svcRecords, result>>
            <3>1. [address |-> v.name, instances |-> InstancesOf(v.pods)] \in QuarksLink
                  BY <2>1, InstancesType DEF ServiceRec, QuarksLink
            <3>2. IsLinkMap(qlinks') /\ pending' \subseteq DOMAIN qlinks'
                  BY <2>3, <3>1 DEF TypeOK, IsLinkMap
            <3>3. /\ UNCHANGED inputs /\ pc' = pc /\ found' = found /\ i' = i /\ j' = j
                  /\ infos' = infos /\ svcRecords' = svcRecords /\ result' = result
                  BY <2>3
            <3>. QED BY <1>4, <3>2, <3>3, KeepType, TypeFrame
      <2>. QED BY <1>1, <1>6, <2>2, <2>3
<1>. QED BY <1>5, <1>6

LEMMA FinishType ==
    ASSUME TypeOK, Finish
    PROVE  TypeOK'
<1>1. CASE missing \ found # {} /\ Fail([kind |-> "Missing", providers |-> missing \ found])
      <2>1. [kind |-> "Missing", providers |-> missing \ found] \in Errors
            BY DEF TypeOK, Errors
      <2>. QED BY <1>1, <2>1, FailType
<1>2. CASE /\ missing \ found = {}
           /\ pc' = "Done"
           /\ result' = [ok |-> TRUE, infos |-> infos, links |-> qlinks,
                         injected |-> DOMAIN qlinks # {}]
           /\ UNCHANGED <<inputs, found, i, j, infos, qlinks, svcRecords, pending>>
      <2>1. IsResult(result')
            BY <1>2 DEF TypeOK, IsResult
      <2>2. /\ UNCHANGED inputs /\ found' = found /\ i' = i /\ j' = j /\ infos' = infos
            /\ qlinks' = qlinks /\ svcRecords' = svcRecords /\ pending' = pending
            /\ pc' \in PcValues
            BY <1>2 DEF PcValues
      <2>. QED BY <2>1, <2>2, KeepType, TypeFrame
<1>. QED BY <1>1, <1>2 DEF Finish

LEMMA NextType ==
    ASSUME TypeOK, [Next]_vars
    PROVE  TypeOK'
<1>1. CASE Start \/ ListSecrets \/ ListServices \/ SecretsDone \/ PodsDone
      <2>1. /\ {"Missing", "ListSecrets", "ListServices", "Secrets", "Services"} \subseteq PcValues
            /\ [kind |-> "ListSecrets"] \in Errors /\ [kind |-> "ListServices"] \in Errors
            BY DEF PcValues, Errors
      <2>. QED BY <1>1, <2>1, GotoType, FailType
               DEF Start, ListSecrets, ListServices, SecretsDone, PodsDone
<1>2. CASE UNCHANGED vars
      BY <1>2, KeepType, TypeFrame DEF vars, inputs, TypeOK, PcValues
<1>. QED BY <1>1, <1>2, SecretStepType, ServiceStepType, ServicesDoneType,
            PodStepType, FinishType DEF Next

\* listLinkInfos is well typed for every set of providers, secrets,
\* services and pod lists: in particular every service record it keeps
\* indexes a listed service, and every quarks link it builds has one job
\* instance per pod, however many pods the selector matches.
THEOREM LinkTypeCorrect == Spec => []TypeOK
<1>1. Init => TypeOK
      BY InitTypeOK
<1>2. TypeOK /\ [Next]_vars => TypeOK'
      BY NextType
<1>. QED BY <1>1, <1>2, PTL DEF Spec

-----------------------------------------------------------------------------
(* The loop invariant behind LinkInfosSound and LinksBackedByService.       *)

\* found is the set of providers of the infos built so far.
FoundIsInfos == found = {infos[n].provider : n \in DOMAIN infos}

\* Every service record names a service of this deployment that claims the
\* provider it is recorded under.
RecordsBacked ==
    \A x \in DOMAIN svcRecords :
        services[svcRecords[x]].forDepl /\ services[svcRecords[x]].provides = x

\* A successful return hands back the infos and links built.
ResultIsState ==
    pc = "Done" /\ result.ok => result.infos = infos /\ result.links = qlinks

LInv ==
    /\ TypeOK
    /\ FoundIsInfos
    /\ DistinctProviders(infos)
    /\ DOMAIN qlinks = InfosOf(infos)
    /\ RecordsBacked
    /\ BackedBy(qlinks)
    /\ ResultIsState

\* A step that leaves the inputs, found, the infos, the links and the service
\* records alone keeps the invariant, once the result is accounted for.
LEMMA QuietLInv ==
    ASSUME LInv, TypeOK', ResultIsState',
           UNCHANGED <<inputs, found, infos, qlinks, svcRecords>>
    PROVE  LInv'
<1>1. services' = services
      BY DEF inputs
<1>2. FoundIsInfos' /\ DistinctProviders(infos)' /\ (DOMAIN qlinks = InfosOf(infos))'
      BY DEF LInv, FoundIsInfos, DistinctProviders, InfosOf
<1>3. RecordsBacked' /\ BackedBy(qlinks)'
      BY <1>1 DEF LInv, RecordsBacked, BackedBy
<1>. QED BY <1>2, <1>3 DEF LInv

LEMMA FailLInv ==
    ASSUME LInv, TypeOK', NEW e, Fail(e)
    PROVE  LInv'
<1>1. ResultIsState'
      BY DEF Fail, ResultIsState
<1>. QED BY <1>1, QuietLInv DEF Fail

LEMMA GotoLInv ==
    ASSUME LInv, TypeOK', NEW to, to # "Done", Goto(to)
    PROVE  LInv'
<1>1. ResultIsState'
      BY DEF Goto, ResultIsState
<1>. QED BY <1>1, QuietLInv DEF Goto

\* The job instances built from a pod list are the expected ones.
LEMMA InstancesExpected ==
    ASSUME NEW pods \in Seq(BOOLEAN)
    PROVE  InstancesOf(pods) = ExpectedInstances(pods)
BY DEF InstancesOf, ExpectedInstances

\* Appending to a sequence: the old positions keep their values and the new
\* one holds the appended element.
LEMMA AppendPositions ==
    ASSUME NEW S, NEW q \in Seq(S), NEW x
    PROVE  /\ DOMAIN Append(q, x) = DOMAIN q \cup {Len(q) + 1}
           /\ Len(q) + 1 \notin DOMAIN q
           /\ \A n \in DOMAIN q : Append(q, x)[n] = q[n]
           /\ Append(q, x)[Len(q) + 1] = x
OBVIOUS

LEMMA SecretStepLInv ==
    ASSUME LInv, TypeOK', SecretStep
    PROVE  LInv'
<1> DEFINE s == secrets[i]
           r == [secret |-> s.name, provider |-> s.provider, typed |-> s.typed]
<1>1. CASE /\ ~s.forDepl \/ (s.provider # Malformed /\ s.provider \notin missing)
           /\ i' = i + 1
           /\ UNCHANGED <<inputs, pc, found, j, infos, qlinks, svcRecords, pending, result>>
      <2>1. ResultIsState'
            BY <1>1 DEF ResultIsState, SecretStep
      <2>. QED BY <1>1, <2>1, QuietLInv
<1>2. CASE \/ s.forDepl /\ s.provider = Malformed /\ Fail([kind |-> "ParseLink"])
           \/ s.forDepl /\ s.provider \in found
              /\ Fail([kind |-> "DupSecret", provider |-> s.provider])
      BY <1>2, FailLInv
<1>3. CASE /\ s.forDepl /\ s.provider \in missing \ found
           /\ infos' = Append(infos, r)
           /\ qlinks' = IF s.typed THEN Put(qlinks, s.name, NoLink) ELSE qlinks
           /\ found' = found \cup {s.provider}
           /\ i' = i + 1
           /\ UNCHANGED <<inputs, pc, j, svcRecords, pending, result>>
      <2> DEFINE L == Len(infos) + 1
      <2>1. /\ DOMAIN infos' = DOMAIN infos \cup {L}
            /\ L \notin DOMAIN infos
            /\ \A n \in DOMAIN infos : infos'[n] = infos[n]
            /\ infos'[L] = r
            <3>1. infos \in Seq(LinkInfo)
                  BY DEF LInv, TypeOK
            <3>. QED BY <1>3, <3>1, AppendPositions
      <2>2. FoundIsInfos'
            BY <1>3, <2>1 DEF LInv, FoundIsInfos
      <2>3. DistinctProviders(infos)'
            <3> SUFFICES ASSUME NEW a \in DOMAIN infos', NEW b \in DOMAIN infos', a # b
                         PROVE  infos'[a].provider # infos'[b].provider
                BY DEF DistinctProviders
            <3>1. CASE a \in DOMAIN infos /\ b \in DOMAIN infos
                  BY <2>1, <3>1 DEF LInv, DistinctProviders
            <3>2. CASE a = L \/ b = L
                  <4>1. s.provider \notin {infos[n].provider : n \in DOMAIN infos}
                        BY <1>3 DEF LInv, FoundIsInfos
                  <4>. QED BY <2>1, <3>2, <4>1
            <3>. QED BY <2>1, <3>1, <3>2
      <2>4. (DOMAIN qlinks = InfosOf(infos))'
            <3>1. InfosOf(infos') = InfosOf(infos) \cup (IF s.typed THEN {s.name} ELSE {})
                  BY <2>1 DEF InfosOf
            <3>2. DOMAIN qlinks' = DOMAIN qlinks \cup (IF s.typed THEN {s.name} ELSE {})
                  BY <1>3 DEF Put
            <3>. QED BY <3>1, <3>2 DEF LInv, InfosOf
      <2>5. RecordsBacked'
            BY <1>3 DEF LInv, RecordsBacked, inputs
      <2>6. BackedBy(qlinks)'
            <3>1. \A z \in DOMAIN qlinks' : qlinks'[z].address # NoService =>
                      z \in DOMAIN qlinks /\ qlinks'[z] = qlinks[z]
                  BY <1>3 DEF Put, NoLink
            <3>2. services' = services
                  BY <1>3 DEF inputs
            <3>. QED BY <3>1, <3>2 DEF LInv, BackedBy
      <2>7. ResultIsState'
            BY <1>3 DEF ResultIsState, LInv, TypeOK, SecretStep
      <2>. QED BY <2>2, <2>3, <2>4, <2>5, <2>6, <2>7 DEF LInv
<1>. QED BY <1>1, <1>2, <1>3 DEF SecretStep

LEMMA ServiceStepLInv ==
    ASSUME LInv, TypeOK', ServiceStep
    PROVE  LInv'
<1> DEFINE v == services[j]
<1>1. CASE /\ ~v.forDepl \/ v.provides = NoProvider
           /\ j' = j + 1
           /\ UNCHANGED <<inputs, pc, found, i, infos, qlinks, svcRecords, pending, result>>
      <2>1. ResultIsState'
            BY <1>1 DEF ResultIsState, ServiceStep
      <2>. QED BY <1>1, <2>1, QuietLInv
<1>2. CASE v.forDepl /\ v.provides \in DOMAIN svcRecords
           /\ Fail([kind |-> "DupService", provider |-> v.provides])
      BY <1>2, FailLInv
<1>3. CASE /\ v.forDepl /\ v.provides \in SecretNames \ DOMAIN svcRecords
           /\ svcRecords' = Put(svcRecords, v.provides, j)
           /\ j' = j + 1
           /\ UNCHANGED <<inputs, pc, found, i, infos, qlinks, pending, result>>
      <2>1. services' = services
            BY <1>3 DEF inputs
      <2>2. RecordsBacked'
            <3> SUFFICES ASSUME NEW x \in DOMAIN svcRecords'
                         PROVE  services[svcRecords'[x]].forDepl
                                /\ services[svcRecords'[x]].provides = x
                BY <2>1 DEF RecordsBacked
            <3>1. CASE x = v.provides
                  BY <1>3, <3>1 DEF Put
            <3>2. CASE x # v.provides
                  BY <1>3, <3>2 DEF Put, LInv, RecordsBacked
            <3>. QED BY <3>1, <3>2
      <2>3. /\ FoundIsInfos' /\ DistinctProviders(infos)'
            /\ (DOMAIN qlinks = InfosOf(infos))' /\ BackedBy(qlinks)'
            BY <1>3, <2>1 DEF LInv, FoundIsInfos, DistinctProviders, InfosOf, BackedBy
      <2>4. ResultIsState'
            BY <1>3 DEF ResultIsState, ServiceStep
      <2>. QED BY <2>2, <2>3, <2>4 DEF LInv
<1>. QED BY <1>1, <1>2, <1>3 DEF ServiceStep

LEMMA ServicesDoneLInv ==
    ASSUME LInv, TypeOK', ServicesDone
    PROVE  LInv'
<1>1. ResultIsState'
      BY DEF ResultIsState, ServicesDone
<1>. QED BY <1>1, QuietLInv DEF ServicesDone

LEMMA PodStepLInv ==
    ASSUME LInv, TypeOK', PodStep
    PROVE  LInv'
<1>1. PICK q \in pending :
         \/ /\ q \notin DOMAIN svcRecords
            /\ pending' = pending \ {q}
            /\ UNCHANGED <<inputs, pc, found, i, j, infos, qlinks, svcRecords, result>>
         \/ /\ q \in DOMAIN svcRecords
            /\ LET v == services[svcRecords[q]] IN
               \/ Fail([kind |-> "ListPods", link |-> q])
               \/ /\ v.pods = <<>>
                  /\ Fail([kind |-> "NoPods", link |-> q])
               \/ /\ v.pods # <<>>
                  /\ \E k \in DOMAIN v.pods : ~v.pods[k]
                  /\ Fail([kind |-> "NoIP", link |-> q])
               \/ /\ v.pods # <<>>
                  /\ \A k \in DOMAIN v.pods : v.pods[k]
                  /\ qlinks' = [qlinks EXCEPT ![q] = [address |-> v.name,
                                                      instances |-> InstancesOf(v.pods)]]
                  /\ pending' = pending \ {q}
                  /\ UNCHANGED <<inputs, pc, found, i, j, infos, svcRecords, result>>
      BY DEF PodStep
<1>2. pc = "Pods"
      BY DEF PodStep
<1>3. CASE q \notin DOMAIN svcRecords
      <2>1. ResultIsState'
            BY <1>1, <1>2, <1>3 DEF ResultIsState
      <2>. QED BY <1>1, <1>3, <2>1, QuietLInv
<1>4. CASE q \in DOMAIN svcRecords
      <2> DEFINE k == svcRecords[q]
                 v == services[k]
      <2>1. CASE Fail([kind |-> "ListPods", link |-> q])
                 \/ Fail([kind |-> "NoPods", link |-> q])
                 \/ Fail([kind |-> "NoIP", link |-> q])
            BY <2>1, FailLInv
      <2>2. CASE /\ qlinks' = [qlinks EXCEPT ![q] = [address |-> v.name,
                                                     instances |-> InstancesOf(v.pods)]]
                 /\ pending' = pending \ {q}
                 /\ UNCHANGED <<inputs, pc, found, i, j, infos, svcRecords, result>>
            <3>1. services' = services /\ DOMAIN qlinks' = DOMAIN qlinks
                  BY <2>2 DEF inputs
            <3>2. k \in DOMAIN services /\ v \in ServiceRec
                  BY <1>4 DEF LInv, TypeOK
            <3>3. v.forDepl /\ v.provides = q
                  BY <1>4 DEF LInv, RecordsBacked
            <3>4. InstancesOf(v.pods) = ExpectedInstances(v.pods)
                  <4>1. v.pods \in Seq(BOOLEAN)
                        BY <3>2 DEF ServiceRec
                  <4>. QED BY <4>1, InstancesExpected
            <3>5. BackedBy(qlinks)'
                  <4> SUFFICES ASSUME NEW z \in DOMAIN qlinks', qlinks'[z].address # NoService
                               PROVE  \E k2 \in DOMAIN services :
                                          /\ services[k2].forDepl /\ services[k2].provides = z
                                          /\ qlinks'[z].address = services[k2].name
                                          /\ qlinks'[z].instances = ExpectedInstances(services[k2].pods)
                      BY <3>1 DEF BackedBy
                  <4>1. CASE z = q
                        <5>1. qlinks'[z] = [address |-> v.name, instances |-> InstancesOf(v.pods)]
                              BY <2>2, <3>1, <4>1
                        <5>. QED BY <3>2, <3>3, <3>4, <4>1, <5>1
                  <4>2. CASE z # q
                        BY <2>2, <3>1, <4>2 DEF LInv, BackedBy
                  <4>. QED BY <4>1, <4>2
            <3>6. /\ FoundIsInfos' /\ DistinctProviders(infos)'
                  /\ (DOMAIN qlinks = InfosOf(infos))' /\ RecordsBacked'
                  BY <2>2, <3>1 DEF LInv, FoundIsInfos, DistinctProviders, InfosOf, RecordsBacked
            <3>7. ResultIsState'
                  BY <1>2, <2>2 DEF ResultIsState
            <3>. QED BY <3>5, <3>6, <3>7 DEF LInv
      <2>. QED BY <1>1, <1>4, <2>1, <2>2
<1>. QED BY <1>3, <1>4

LEMMA FinishLInv ==
    ASSUME LInv, TypeOK', Finish
    PROVE  LInv'
<1>1. CASE missing \ found # {} /\ Fail([kind |-> "Missing", providers |-> missing \ found])
      BY <1>1, FailLInv
<1>2. CASE /\ missing \ found = {}
           /\ pc' = "Done"
           /\ result' = [ok |-> TRUE, infos |-> infos, links |-> qlinks,
                         injected |-> DOMAIN qlinks # {}]
           /\ UNCHANGED <<inputs, found, i, j, infos, qlinks, svcRecords, pending>>
      <2>1. ResultIsState'
            BY <1>2 DEF ResultIsState
      <2>. QED BY <1>2, <2>1, QuietLInv
<1>. QED BY <1>1, <1>2 DEF Finish

LEMMA NextLInv ==
    ASSUME LInv, [Next]_vars
    PROVE  LInv'
<1>1. TypeOK'
      BY NextType DEF LInv
<1>2. CASE Start \/ ListSecrets \/ ListServices \/ SecretsDone \/ PodsDone
      BY <1>1, <1>2, GotoLInv, FailLInv
         DEF Start, ListSecrets, ListServices, SecretsDone, PodsDone
<1>3. CASE UNCHANGED vars
      <2>1. ResultIsState'
            BY <1>3 DEF vars, LInv, ResultIsState
      <2>. QED BY <1>1, <1>3, <2>1, QuietLInv DEF vars, inputs
<1>. QED BY <1>1, <1>2, <1>3, SecretStepLInv, ServiceStepLInv, ServicesDoneLInv,
            PodStepLInv, FinishLInv DEF Next

LEMMA InitLInv == Init => LInv
<1> SUFFICES ASSUME Init PROVE LInv
    OBVIOUS
<1>1. TypeOK
      BY InitTypeOK
<1>. QED BY <1>1 DEF Init, LInv, FoundIsInfos, DistinctProviders, InfosOf,
               RecordsBacked, BackedBy, ResultIsState

LEMMA LInvInvariant == Spec => []LInv
<1>1. LInv /\ [Next]_vars => LInv'
      BY NextLInv
<1>. QED BY InitLInv, <1>1, PTL DEF Spec

\* The secrets loop of listLinkInfos gives each missing provider at most one
\* link info, and quarksLinks is keyed by exactly the secrets of the typed
\* infos, in every state and in what the call returns, for every listing.
THEOREM LinkInfosSoundHolds == Spec => []LinkInfosSound
<1>1. LInv => LinkInfosSound
      BY DEF LInv, ResultIsState, LinkInfosSound
<1>. QED BY <1>1, LInvInvariant, PTL

\* Every quarks link with an address, built or returned, was joined to a
\* service of this deployment that claims its secret, with one instance per
\* pod of that service numbered from 0 and only the first bootstrapping.
THEOREM LinksBackedHolds == Spec => []LinksBackedByService
<1>1. LInv => LinksBackedByService
      BY DEF LInv, ResultIsState, LinksBackedByService
<1>. QED BY <1>1, LInvInvariant, PTL
====
