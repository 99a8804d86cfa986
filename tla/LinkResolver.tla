----------------------------- MODULE LinkResolver -----------------------------
(***************************************************************************)
(* listLinkInfos, getServiceRecords and listPodsFromSelector               *)
(* (src/unnamed/part_000) for one BOSHDeployment: the discovery of the     *)
(* secrets, services and pods that provide the manifest's missing link     *)
(* providers.  The namespace content the three List calls return is an    *)
(* input chosen in Init and never changed; the loops run one element per   *)
(* step, and ranging over a Go map is a nondeterministic choice of order.  *)
(***************************************************************************)
EXTENDS Naturals, Sequences, FiniteSets

CONSTANTS
    Providers,      \* link provider names a manifest can consume
    SecretNames,    \* names of the secrets in the namespace
    ServiceNames,   \* names of the services in the namespace
    Malformed,      \* link provider annotation that newLinkProvider rejects
    NoProvider,     \* service without the link-provider-service annotation
    NoService,      \* quarks link without a service record (no address)
    PodLists,       \* the pod lists a selector can match: one Boolean per
                    \* pod, TRUE when the pod has an IP
    MaxList         \* bound on the length of a List result

ASSUME LinkAssumption ==
    /\ IsFiniteSet(Providers) /\ IsFiniteSet(SecretNames) /\ IsFiniteSet(ServiceNames)
    /\ Malformed \notin Providers
    /\ NoProvider \notin SecretNames
    /\ NoService \notin ServiceNames
    /\ PodLists \subseteq Seq(BOOLEAN)
    /\ <<>> \in PodLists     \* a selector may match no pod
    /\ MaxList \in Nat

\* A listed secret: its name, whether its deployment-name annotation is this
\* deployment, the provider name parsed from its link annotation and whether
\* the provider type is non-empty.
SecretRec == [name: SecretNames, forDepl: BOOLEAN,
              provider: Providers \cup {Malformed}, typed: BOOLEAN]

\* A listed service: its name, whether it is annotated for this deployment,
\* the value of its link-provider-service annotation and the pods its
\* selector matches.
ServiceRec == [name: ServiceNames, forDepl: BOOLEAN,
               provides: SecretNames \cup {NoProvider}, pods: PodLists]

\* Sequences of records with pairwise distinct names (a List result).
Listings(Recs, k) ==
    {s \in UNION {[1..n -> Recs] : n \in 0..k} :
        \A a, b \in DOMAIN s : a # b => s[a].name # s[b].name}

\* The listings Init ranges over.  A record the loops skip (not annotated
\* for this deployment, or a service without provider annotation) is
\* represented once per name: its other fields are never read.
SecretInputs ==
    {[name |-> n, forDepl |-> FALSE, provider |-> Malformed, typed |-> FALSE] : n \in SecretNames}
    \cup {[name |-> n, forDepl |-> TRUE, provider |-> Malformed, typed |-> FALSE] : n \in SecretNames}
    \cup [name: SecretNames, forDepl: {TRUE}, provider: Providers, typed: BOOLEAN]
ServiceInputs ==
    {[name |-> n, forDepl |-> FALSE, provides |-> NoProvider, pods |-> <<>>] : n \in ServiceNames}
    \cup [name: ServiceNames, forDepl: {TRUE}, provides: SecretNames, pods: PodLists]

\* bdm.JobInstance: its index among the pods and whether it is the bootstrap
\* instance (the pod's name, UID and IP are left out).
JobInstance == [index: Nat, bootstrap: BOOLEAN]

\* bdm.QuarksLink: type set, DNS address of the service, job instances.
QuarksLink == [address: ServiceNames \cup {NoService}, instances: Seq(JobInstance)]
NoLink == [address |-> NoService, instances |-> <<>>]

LinkInfo == [secret: SecretNames, provider: Providers, typed: BOOLEAN]

Errors ==
    {[kind |-> k] : k \in {"ListSecrets", "ListServices", "ParseLink"}}
    \cup [kind: {"DupSecret"}, provider: Providers]
    \cup [kind: {"DupService"}, provider: SecretNames]
    \cup [kind: {"ListPods", "NoPods", "NoIP"}, link: SecretNames]
    \cup [kind: {"Missing"}, providers: SUBSET Providers]

\* quarksLinks: a map from secret names to quarks links.
IsLinkMap(f) ==
    /\ DOMAIN f \subseteq SecretNames
    /\ \A x \in DOMAIN f : f[x] \in QuarksLink

\* The value returned to Reconcile.
IsResult(r) ==
    \/ r \in {[ok |-> FALSE, err |-> e] : e \in Errors}
    \/ /\ DOMAIN r = {"ok", "infos", "links", "injected"}
       /\ r.ok = TRUE /\ r.infos \in Seq(LinkInfo)
       /\ IsLinkMap(r.links) /\ r.injected \in BOOLEAN

VARIABLES
    missing,    \* manifest.ListMissingProviders(): names consumed, not provided
    secrets,    \* the secrets List returns
    services,   \* the services List returns
    pc,         \* step of listLinkInfos
    found,      \* missing providers already matched (missingProviders[n] = true)
    i,          \* index into secrets
    j,          \* index into services
    infos,      \* linkInfos built so far
    qlinks,     \* quarksLinks: secret name -> QuarksLink, for typed providers
    svcRecords, \* provider-service annotation -> index of the service
    pending,    \* quarksLinks keys the pods loop has not visited yet
    result      \* what listLinkInfos returned, once pc = "Done"

inputs == <<missing, secrets, services>>
vars == <<missing, secrets, services, pc, found, i, j, infos, qlinks,
          svcRecords, pending, result>>

TypeOK ==
    /\ missing \subseteq Providers
    /\ secrets \in Seq(SecretRec)
    /\ services \in Seq(ServiceRec)
    /\ pc \in {"Start", "ListSecrets", "ListServices", "Secrets", "Services",
               "Pods", "Missing", "Done"}
    /\ found \subseteq missing
    /\ i \in 1..(Len(secrets) + 1)
    /\ j \in 1..(Len(services) + 1)
    /\ infos \in Seq(LinkInfo)
    /\ IsLinkMap(qlinks)
    /\ svcRecords \in [DOMAIN svcRecords -> 1..Len(services)]
    /\ DOMAIN svcRecords \subseteq SecretNames
    /\ pending \subseteq DOMAIN qlinks
    /\ result = <<>> \/ IsResult(result)

Init ==
    /\ missing \in SUBSET Providers
    /\ secrets \in Listings(SecretInputs, MaxList)
    /\ services \in Listings(ServiceInputs, MaxList)
    /\ pc = "Start"
    /\ found = {}
    /\ i = 1
    /\ j = 1
    /\ infos = <<>>
    /\ qlinks = [s \in {} |-> NoLink]
    /\ svcRecords = [s \in {} |-> 1]
    /\ pending = {}
    /\ result = <<>>

-----------------------------------------------------------------------------
\* f extended with x |-> y (Go map assignment).
Put(f, x, y) == [z \in DOMAIN f \cup {x} |-> IF z = x THEN y ELSE f[z]]

Fail(e) ==
    /\ pc' = "Done"
    /\ result' = [ok |-> FALSE, err |-> e]
    /\ UNCHANGED <<inputs, found, i, j, infos, qlinks, svcRecords, pending>>

Goto(to) ==
    /\ pc' = to
    /\ UNCHANGED <<inputs, found, i, j, infos, qlinks, svcRecords, pending, result>>

\* The lists are only read when some provider is missing.
Start ==
    /\ pc = "Start"
    /\ Goto(IF missing = {} THEN "Missing" ELSE "ListSecrets")

ListSecrets ==
    /\ pc = "ListSecrets"
    /\ Goto("ListServices") \/ Fail([kind |-> "ListSecrets"])

ListServices ==
    /\ pc = "ListServices"
    /\ Goto("Secrets") \/ Fail([kind |-> "ListServices"])

SecretStepNoDup ==
    /\ pc = "Secrets"
    /\ i <= Len(secrets)
    /\ LET s == secrets[i] IN
       \/ /\ ~s.forDepl \/ (s.provider # Malformed /\ s.provider \notin missing)
          /\ i' = i + 1
          /\ UNCHANGED <<inputs, pc, found, j, infos, qlinks, svcRecords, pending, result>>
       \/ /\ s.forDepl /\ s.provider = Malformed
          /\ Fail([kind |-> "ParseLink"])
       \/ /\ s.forDepl /\ s.provider \in missing
          /\ infos' = Append(infos, [secret |-> s.name, provider |-> s.provider,
                                     typed |-> s.typed])
          /\ qlinks' = IF s.typed THEN Put(qlinks, s.name, NoLink) ELSE qlinks
          /\ found' = found \cup {s.provider}
          /\ i' = i + 1
          /\ UNCHANGED <<inputs, pc, j, svcRecords, pending, result>>

\* One iteration of the loop over the secrets.
SecretStep ==
    /\ pc = "Secrets"
    /\ i <= Len(secrets)
    /\ LET s == secrets[i] IN
       \/ /\ ~s.forDepl \/ (s.provider # Malformed /\ s.provider \notin missing)
          /\ i' = i + 1
          /\ UNCHANGED <<inputs, pc, found, j, infos, qlinks, svcRecords, pending, result>>
       \/ /\ s.forDepl /\ s.provider = Malformed
          /\ Fail([kind |-> "ParseLink"])
       \/ /\ s.forDepl /\ s.provider \in found
          /\ Fail([kind |-> "DupSecret", provider |-> s.provider])
       \/ /\ s.forDepl /\ s.provider \in missing \ found
          /\ infos' = Append(infos, [secret |-> s.name, provider |-> s.provider,
                                     typed |-> s.typed])
          /\ qlinks' = IF s.typed THEN Put(qlinks, s.name, NoLink) ELSE qlinks
          /\ found' = found \cup {s.provider}
          /\ i' = i + 1
          /\ UNCHANGED <<inputs, pc, j, svcRecords, pending, result>>

SecretsDone ==
    /\ pc = "Secrets"
    /\ i > Len(secrets)
    /\ Goto("Services")

ServiceStepNextIndex ==
    /\ pc = "Services"
    /\ j <= Len(services)
    /\ LET v == services[j] IN
       \/ /\ ~v.forDepl \/ v.provides = NoProvider
          /\ j' = j + 1
          /\ UNCHANGED <<inputs, pc, found, i, infos, qlinks, svcRecords, pending, result>>
       \/ /\ v.forDepl /\ v.provides \in DOMAIN svcRecords
          /\ Fail([kind |-> "DupService", provider |-> v.provides])
       \/ /\ v.forDepl /\ v.provides \in SecretNames \ DOMAIN svcRecords
          /\ svcRecords' = Put(svcRecords, v.provides, j + 1)
          /\ j' = j + 1
          /\ UNCHANGED <<inputs, pc, found, i, infos, qlinks, pending, result>>

\* One iteration of the loop of getServiceRecords.
ServiceStep ==
    /\ pc = "Services"
    /\ j <= Len(services)
    /\ LET v == services[j] IN
       \/ /\ ~v.forDepl \/ v.provides = NoProvider
          /\ j' = j + 1
          /\ UNCHANGED <<inputs, pc, found, i, infos, qlinks, svcRecords, pending, result>>
       \/ /\ v.forDepl /\ v.provides \in DOMAIN svcRecords
          /\ Fail([kind |-> "DupService", provider |-> v.provides])
       \/ /\ v.forDepl /\ v.provides \in SecretNames \ DOMAIN svcRecords
          /\ svcRecords' = Put(svcRecords, v.provides, j)
          /\ j' = j + 1
          /\ UNCHANGED <<inputs, pc, found, i, infos, qlinks, pending, result>>

ServicesDone ==
    /\ pc = "Services"
    /\ j > Len(services)
    /\ pc' = "Pods"
    /\ pending' = DOMAIN qlinks
    /\ UNCHANGED <<inputs, found, i, j, infos, qlinks, svcRecords, result>>

InstancesFromOne(pods) == [k \in 1..Len(pods) |-> [index |-> k, bootstrap |-> k = 1]]

\* The job instances of a pod list whose pods all have an IP.
InstancesOf(pods) == [k \in 1..Len(pods) |-> [index |-> k - 1, bootstrap |-> k = 1]]

\* One iteration of the loop over quarksLinks, in Go's random map order.
PodStep ==
    /\ pc = "Pods"
    /\ \E q \in pending :
       \/ /\ q \notin DOMAIN svcRecords
          /\ pending' = pending \ {q}
          /\ UNCHANGED <<inputs, pc, found, i, j, infos, qlinks, svcRecords, result>>
       \/ /\ q \in DOMAIN svcRecords
          /\ LET v == services[svcRecords[q]] IN
             \/ Fail([kind |-> "ListPods", link |-> q])
             \/ /\ v.pods = <<>>
                /\ Fail([kind |-> "NoPods", link |-> q])
             \/ /\ v.pods # <<>>
                /\ \E k \in DOMAIN v.pods : ~v.pods[k]
                /\ Fail([kind |-> "NoIP", link |-> q])
             \/ /\ v.pods # <<>>
                /\ \A k \in DOMAIN v.pods : v.pods[k]
                /\ qlinks' = [qlinks EXCEPT ![q] = [address |-> v.name,
                                                    instances |-> InstancesOf(v.pods)]]
                /\ pending' = pending \ {q}
                /\ UNCHANGED <<inputs, pc, found, i, j, infos, svcRecords, result>>

PodsDone ==
    /\ pc = "Pods"
    /\ pending = {}
    /\ Goto("Missing")

\* The providers still not found fail the call together; otherwise the
\* quarks links are injected into the manifest properties when there are any.
Finish ==
    /\ pc = "Missing"
    /\ \/ /\ missing \ found # {}
          /\ Fail([kind |-> "Missing", providers |-> missing \ found])
       \/ /\ missing \ found = {}
          /\ pc' = "Done"
          /\ result' = [ok |-> TRUE, infos |-> infos, links |-> qlinks,
                        injected |-> DOMAIN qlinks # {}]
          /\ UNCHANGED <<inputs, found, i, j, infos, qlinks, svcRecords, pending>>

Next ==
    \/ Start \/ ListSecrets \/ ListServices \/ SecretStep \/ SecretsDone
    \/ ServiceStep \/ ServicesDone \/ PodStep \/ PodsDone \/ Finish

Spec == Init /\ [][Next]_vars /\ WF_vars(Next)

-----------------------------------------------------------------------------
(* Reference: what listLinkInfos promises for given listings, stated over  *)
(* the whole listings rather than loop by loop.                            *)

\* Secrets and services annotated for this deployment.
OwnSecrets  == {k \in DOMAIN secrets : secrets[k].forDepl}
OwnServices == {k \in DOMAIN services : services[k].forDepl /\ services[k].provides # NoProvider}

\* A secret that is rejected: its annotation does not parse, or an earlier
\* secret already provides the same missing provider.
BadSecret(k) ==
    /\ k \in OwnSecrets
    /\ \/ secrets[k].provider = Malformed
       \/ /\ secrets[k].provider \in missing
          /\ \E k2 \in OwnSecrets : k2 < k /\ secrets[k2].provider = secrets[k].provider

\* A service claiming a provider an earlier service already claims.
BadService(k) ==
    /\ k \in OwnServices
    /\ \E k2 \in OwnServices : k2 < k /\ services[k2].provides = services[k].provides

FirstOf(S) == CHOOSE k \in S : \A k2 \in S : k <= k2

SecretError ==
    LET k == FirstOf({k2 \in DOMAIN secrets : BadSecret(k2)}) IN
    IF secrets[k].provider = Malformed THEN [kind |-> "ParseLink"]
    ELSE [kind |-> "DupSecret", provider |-> secrets[k].provider]

\* A secret of this deployment that names a missing provider.
Matched(s) == s.forDepl /\ s.provider \in missing

\* Matches[m]: the matched secrets among the first m, in listing order
\* (SelectSeq of that prefix).
Matches[m \in Nat] ==
    IF m = 0 THEN <<>>
    ELSE IF m <= Len(secrets) /\ Matched(secrets[m])
         THEN Append(Matches[m - 1], secrets[m])
         ELSE Matches[m - 1]

\* Secrets matching a missing provider, in listing order.
Matching == Matches[Len(secrets)]
Typed    == {Matching[n].name : n \in {n2 \in DOMAIN Matching : Matching[n2].typed}}
Unfound  == missing \ {Matching[n].provider : n \in DOMAIN Matching}

\* The service joined to a typed link: its provider annotation names the secret.
Backing(q) == {k \in OwnServices : services[k].provides = q}
Served     == {q \in Typed : Backing(q) # {}}
ServiceOf(q) == services[CHOOSE k \in Backing(q) : TRUE]

PodFailure(q) ==
    IF ServiceOf(q).pods = <<>> THEN [kind |-> "NoPods", link |-> q]
    ELSE [kind |-> "NoIP", link |-> q]
PodsFail(q) == ~(ServiceOf(q).pods # <<>> /\ \A k \in DOMAIN ServiceOf(q).pods : ServiceOf(q).pods[k])

\* Job instances: one per pod in listing order, numbered from 0, and only
\* the one numbered 0 is the bootstrap instance.
ExpectedInstances(pods) ==
    [n \in DOMAIN pods |-> [index |-> n - 1, bootstrap |-> n - 1 = 0]]

Expected ==
    [ok |-> TRUE,
     infos |-> [n \in DOMAIN Matching |-> [secret |-> Matching[n].name,
                                           provider |-> Matching[n].provider,
                                           typed |-> Matching[n].typed]],
     links |-> [q \in Typed |->
                  IF q \in Served
                  THEN [address |-> ServiceOf(q).name,
                        instances |-> ExpectedInstances(ServiceOf(q).pods)]
                  ELSE NoLink],
     injected |-> Typed # {}]

\* Every outcome the reference allows for the current listings.
Reference ==
    IF missing = {} THEN {Expected}
    ELSE {[ok |-> FALSE, err |-> [kind |-> k]] : k \in {"ListSecrets", "ListServices"}}
         \cup
         IF \E k \in DOMAIN secrets : BadSecret(k)
         THEN {[ok |-> FALSE, err |-> SecretError]}
         ELSE IF \E k \in DOMAIN services : BadService(k)
         THEN {[ok |-> FALSE, err |-> [kind |-> "DupService",
                  provider |-> services[FirstOf({k \in DOMAIN services : BadService(k)})].provides]]}
         ELSE {[ok |-> FALSE, err |-> [kind |-> "ListPods", link |-> q]] : q \in Served}
              \cup {[ok |-> FALSE, err |-> PodFailure(q)] : q \in {q2 \in Served : PodsFail(q2)}}
              \cup IF \E q \in Served : PodsFail(q) THEN {}
                   ELSE IF Unfound # {}
                   THEN {[ok |-> FALSE, err |-> [kind |-> "Missing", providers |-> Unfound]]}
                   ELSE {Expected}

\* listLinkInfos returns what the reference allows: duplicates are rejected
\* in listing order before any link is built, services are joined to typed
\* links by the secret name, every pod backing a link has an IP and only
\* the first is the bootstrap instance, all unfound providers are reported
\* together, and quarks_links is injected exactly when a typed provider was
\* found.
ResolverMatchesReference == pc = "Done" => result \in Reference


-----------------------------------------------------------------------------
(* Invariants of the loops, stated for every state of the call.             *)

\* No two link infos name the same provider.
DistinctProviders(s) ==
    \A a, b \in DOMAIN s : a # b => s[a].provider # s[b].provider

\* The secrets loop gives each missing provider at most one link info (the
\* missingProviders[name] = true bookkeeping that rejects a second secret
\* of a provider), and quarksLinks is keyed by exactly the secrets of the
\* infos whose provider type is set; both hold of what listLinkInfos
\* returns.
InfosOf(s) == {s[n].secret : n \in {m \in DOMAIN s : s[m].typed}}
LinkInfosSound ==
    /\ DistinctProviders(infos)
    /\ DOMAIN qlinks = InfosOf(infos)
    /\ pc = "Done" /\ result.ok =>
          DistinctProviders(result.infos) /\ DOMAIN result.links = InfosOf(result.infos)

\* A quarks link with an address was joined to a service of this deployment
\* whose link-provider-service annotation names that link's secret: the
\* address is that service's name and there is one instance per pod of it,
\* numbered from 0, the first being the bootstrap instance.  The join goes
\* through svcRecords, built by getServiceRecords in an earlier loop and
\* read back by index in the pods loop.
BackedBy(links) ==
    \A q \in DOMAIN links : links[q].address # NoService =>
        \E k \in DOMAIN services :
            /\ services[k].forDepl /\ services[k].provides = q
            /\ links[q].address = services[k].name
            /\ links[q].instances = ExpectedInstances(services[k].pods)
LinksBackedByService ==
    /\ BackedBy(qlinks)
    /\ pc = "Done" /\ result.ok => BackedBy(result.links)
=============================================================================
