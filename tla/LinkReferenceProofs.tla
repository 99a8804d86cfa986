-------------------------- MODULE LinkReferenceProofs --------------------------
(***************************************************************************)
(* Proof that listLinkInfos returns what the whole-listing reference       *)
(* allows (ResolverMatchesReference), for every set of providers, secrets, *)
(* services and pod lists.  The argument is a loop invariant per phase of  *)
(* the call: after the secrets loop has seen the first m secrets, the      *)
(* infos are those of the matched secrets among them (Matches[m]) and none *)
(* of them is a bad secret; after the services loop has seen the first m   *)
(* services, the service records are keyed by the providers they claim and *)
(* none of them is a duplicate; during the pods loop every visited link    *)
(* holds the link the reference expects.                                   *)
(***************************************************************************)
EXTENDS LinkResolverProofs, NaturalsInduction, WellFoundedInduction

USE LinkAssumption

\* The link info built from a matched secret, and from a sequence of them.
InfoOf(s) == [secret |-> s.name, provider |-> s.provider, typed |-> s.typed]
InfoSeq(M) == [n \in DOMAIN M |-> InfoOf(M[n])]

\* Indexes of the matched secrets among the first m.
MatchedBefore(m) == {k \in 1..m : Matched(secrets[k])}

\* None of the first m secrets, or services, is rejected.
SecretsOK(m)  == \A k \in 1..m : ~BadSecret(k)
ServicesOK(m) == \A k \in 1..m : ~BadService(k)

\* The providers claimed by the services of this deployment among the first m.
ProvidesOf(m) == {services[k].provides : k \in {k2 \in OwnServices : k2 <= m}}

\* The quarks link the reference expects for a typed secret q.
ExpectedLink(q) ==
    IF q \in Served
    THEN [address |-> ServiceOf(q).name, instances |-> ExpectedInstances(ServiceOf(q).pods)]
    ELSE NoLink

\* Before the secrets loop nothing has been built.
EarlyPhase ==
    pc \in {"Start", "ListSecrets", "ListServices"} =>
        /\ i = 1 /\ j = 1 /\ infos = <<>> /\ found = {}
        /\ DOMAIN svcRecords = {} /\ pending = {}

\* The listings are read only when a provider is missing.
ListsRead ==
    pc \in {"ListSecrets", "ListServices", "Secrets", "Services", "Pods"} => missing # {}

\* The secrets loop has seen the first i - 1 secrets.
SecretsPhase ==
    pc = "Secrets" =>
        /\ infos = InfoSeq(Matches[i - 1])
        /\ SecretsOK(i - 1)
        /\ found = {secrets[k].provider : k \in MatchedBefore(i - 1)}
        /\ j = 1 /\ DOMAIN svcRecords = {} /\ pending = {}
        /\ \A q \in DOMAIN qlinks : qlinks[q] = NoLink

\* After the secrets loop the infos are those of all matched secrets.
SecretsDonePhase ==
    pc \in {"Services", "Pods", "Missing"} =>
        /\ infos = InfoSeq(Matching)
        /\ missing # {} => SecretsOK(Len(secrets))

\* The services loop has seen the first j - 1 services.
ServicesPhase ==
    pc = "Services" =>
        /\ ServicesOK(j - 1)
        /\ DOMAIN svcRecords = ProvidesOf(j - 1)
        /\ pending = {}
        /\ \A q \in DOMAIN qlinks : qlinks[q] = NoLink

\* During and after the pods loop every visited link is the expected one.
PodsPhase ==
    pc \in {"Pods", "Missing"} =>
        /\ missing # {} => /\ ServicesOK(Len(services))
                           /\ DOMAIN svcRecords = ProvidesOf(Len(services))
        /\ \A q \in DOMAIN qlinks :
              qlinks[q] = IF q \in pending THEN NoLink ELSE ExpectedLink(q)
        /\ \A q \in Served \ pending : ~PodsFail(q)
        /\ pc = "Missing" => pending = {}

\* quarksLinks is a Go map: a function on its keys.
LinksFcn == qlinks = [q \in DOMAIN qlinks |-> qlinks[q]]

RInv ==
    /\ LInv
    /\ LinksFcn
    /\ EarlyPhase
    /\ ListsRead
    /\ SecretsPhase
    /\ SecretsDonePhase
    /\ ServicesPhase
    /\ PodsPhase
    /\ ResolverMatchesReference

-----------------------------------------------------------------------------
(* Lemmas about the reference's operators.                                 *)

\* Induction over the naturals, for a set: the least natural outside S would
\* have its predecessor in S.
LEMMA NatSetInduction ==
    ASSUME NEW S \in SUBSET Nat, 0 \in S, \A n \in S : n + 1 \in S
    PROVE  Nat \subseteq S
<1> DEFINE R == OpToRel(<, Nat)
           T == Nat \ S
<1> SUFFICES ASSUME T # {} PROVE FALSE
    OBVIOUS
<1>1. IsWellFoundedOn(R, Nat)
      BY NatLessThanWellFounded
<1>2. PICK x \in T : \A y \in T : ~(<<y, x>> \in R)
      BY <1>1, WFMin
<1>3. x # 0 /\ x - 1 \in Nat
      OBVIOUS
<1>4. <<x - 1, x>> \in R
      BY <1>3 DEF OpToRel
<1>5. x - 1 \in S
      <2>1. x - 1 \notin T
            BY <1>2, <1>4
      <2>. QED BY <1>3, <2>1
<1>6. x \in S
      BY <1>3, <1>5
<1>. QED BY <1>6

\* Matches satisfies its recursive definition.
LEMMA MatchesDef ==
    Matches = [m \in Nat |-> IF m = 0 THEN <<>>
                             ELSE IF m <= Len(secrets) /\ Matched(secrets[m])
                                  THEN Append(Matches[m - 1], secrets[m])
                                  ELSE Matches[m - 1]]
<1> DEFINE Def(v, m) == IF m <= Len(secrets) /\ Matched(secrets[m])
                        THEN Append(v, secrets[m]) ELSE v
<1>1. NatInductiveDefHypothesis(Matches, <<>>, Def)
      BY DEF NatInductiveDefHypothesis, Matches
<1>2. NatInductiveDefConclusion(Matches, <<>>, Def)
      BY <1>1, NatInductiveDef
<1>. QED BY <1>2 DEF NatInductiveDefConclusion

\* No secret seen, none matched.
LEMMA MatchesZero == Matches[0] = <<>>
BY MatchesDef

\* One more secret: it is appended when it matches.
LEMMA MatchesStep ==
    ASSUME NEW m \in Nat
    PROVE  Matches[m + 1] = IF m + 1 <= Len(secrets) /\ Matched(secrets[m + 1])
                               THEN Append(Matches[m], secrets[m + 1])
                               ELSE Matches[m]
<1>1. m + 1 \in Nat /\ m + 1 # 0 /\ (m + 1) - 1 = m
      OBVIOUS
<1>. QED BY <1>1, MatchesDef

\* Every prefix's matches are a sequence of listed secrets.
LEMMA MatchesType ==
    ASSUME secrets \in Seq(SecretRec)
    PROVE  \A m \in Nat : Matches[m] \in Seq(SecretRec)
<1> DEFINE S == {m \in Nat : Matches[m] \in Seq(SecretRec)}
<1>1. 0 \in S
      <2>1. <<>> \in Seq(SecretRec)
            OBVIOUS
      <2>. QED BY <2>1, MatchesZero, Zenon
<1>2. ASSUME NEW n \in S PROVE n + 1 \in S
      <2>1. Matches[n] \in Seq(SecretRec)
            OBVIOUS
      <2>2. n + 1 <= Len(secrets) => secrets[n + 1] \in SecretRec
            OBVIOUS
      <2>3. Matches[n + 1] = IF n + 1 <= Len(secrets) /\ Matched(secrets[n + 1])
                             THEN Append(Matches[n], secrets[n + 1])
                             ELSE Matches[n]
            BY MatchesStep
      <2>4. Matches[n + 1] \in Seq(SecretRec)
            BY <2>1, <2>2, <2>3
      <2>. QED BY <2>4
<1>. QED BY <1>1, <1>2, NatSetInduction

\* With no provider missing no secret matches.
LEMMA MatchesNone ==
    ASSUME missing = {}
    PROVE  \A m \in Nat : Matches[m] = <<>>
<1> DEFINE S == {m \in Nat : Matches[m] = <<>>}
<1>1. 0 \in S
      BY MatchesZero
<1>2. ASSUME NEW n \in S PROVE n + 1 \in S
      <2>1. Matches[n + 1] = IF n + 1 <= Len(secrets) /\ Matched(secrets[n + 1])
                             THEN Append(Matches[n], secrets[n + 1])
                             ELSE Matches[n]
            BY MatchesStep
      <2>2. ~Matched(secrets[n + 1])
            BY DEF Matched
      <2>. QED BY <2>1, <2>2
<1>. QED BY <1>1, <1>2, NatSetInduction

\* The members of S up to m are those up to m - 1 and m itself.
LEMMA PrefixSplit ==
    ASSUME NEW S \in SUBSET Int, NEW m \in Int
    PROVE  {k \in S : k <= m} = {k \in S : k <= m - 1} \cup (IF m \in S THEN {m} ELSE {})
<1>1. \A k \in S : k <= m <=> k <= m - 1 \/ k = m
      OBVIOUS
<1>. QED BY <1>1

\* FirstOf picks the least element.
LEMMA FirstOfLeast ==
    ASSUME NEW S \in SUBSET Nat, NEW x \in S, \A y \in S : x <= y
    PROVE  FirstOf(S) = x
<1>1. FirstOf(S) \in S /\ \A y \in S : FirstOf(S) <= y
      BY DEF FirstOf
<1> DEFINE f == FirstOf(S)
<1>2. f \in Nat /\ f <= x /\ x <= f
      BY <1>1
<1>. QED BY <1>2

-----------------------------------------------------------------------------
(* The reference is a function of the inputs, which no step changes.       *)

\* What the reference says depends on the listings and the missing providers
\* only.
LEMMA InputsFrame ==
    ASSUME UNCHANGED inputs
    PROVE  /\ Matches' = Matches
           /\ Matching' = Matching
           /\ Typed' = Typed
           /\ Served' = Served
           /\ Unfound' = Unfound
           /\ Reference' = Reference
           /\ \A q : ExpectedLink(q)' = ExpectedLink(q)
           /\ \A q : PodsFail(q)' = PodsFail(q)
           /\ \A m : SecretsOK(m)' = SecretsOK(m)
           /\ \A m : ServicesOK(m)' = ServicesOK(m)
           /\ \A m : ProvidesOf(m)' = ProvidesOf(m)
           /\ \A m : MatchedBefore(m)' = MatchedBefore(m)
<1>1. secrets' = secrets /\ missing' = missing /\ services' = services
      BY DEF inputs
<1>2. Matches' = Matches
      BY <1>1 DEF Matches, Matched
<1>3. Matching' = Matching /\ Typed' = Typed /\ Unfound' = Unfound
      BY <1>1, <1>2 DEF Matching, Typed, Unfound
<1>4. Served' = Served
      BY <1>1, <1>3 DEF Served, Backing, OwnServices
<1>5. Reference' = Reference
      <2>1. Expected' = Expected
            BY <1>1, <1>3, <1>4 DEF Expected, ServiceOf, Backing, OwnServices,
               ExpectedInstances
      <2>2. \A k : BadSecret(k)' = BadSecret(k) /\ BadService(k)' = BadService(k)
            BY <1>1 DEF BadSecret, BadService, OwnSecrets, OwnServices
      <2>3. SecretError' = SecretError
            BY <1>1, <2>2 DEF SecretError, FirstOf
      <2>4. \A q : PodFailure(q)' = PodFailure(q) /\ PodsFail(q)' = PodsFail(q)
            BY <1>1 DEF PodFailure, PodsFail, ServiceOf, Backing, OwnServices
      <2>5. FirstOf({k \in DOMAIN services : BadService(k)})'
               = FirstOf({k \in DOMAIN services : BadService(k)})
            BY <1>1, <2>2 DEF FirstOf
      <2>. QED BY <1>1, <1>3, <1>4, <2>1, <2>2, <2>3, <2>4, <2>5 DEF Reference
<1>6. \A q : ExpectedLink(q)' = ExpectedLink(q) /\ PodsFail(q)' = PodsFail(q)
      BY <1>1, <1>4 DEF ExpectedLink, ServiceOf, Backing, OwnServices, PodsFail,
         ExpectedInstances
<1>7. \A m : /\ SecretsOK(m)' = SecretsOK(m) /\ ServicesOK(m)' = ServicesOK(m)
             /\ ProvidesOf(m)' = ProvidesOf(m) /\ MatchedBefore(m)' = MatchedBefore(m)
      BY <1>1 DEF SecretsOK, ServicesOK, ProvidesOf, MatchedBefore, Matched,
         BadSecret, BadService, OwnSecrets, OwnServices
<1>. QED BY <1>2, <1>3, <1>4, <1>5, <1>6, <1>7

-----------------------------------------------------------------------------
(* The infos built from matched secrets.                                   *)

\* No matched secret, no info.
LEMMA InfoSeqEmpty == InfoSeq(<<>>) = <<>>
BY DEF InfoSeq

\* One more matched secret, one more info at the end.
LEMMA InfoSeqAppend ==
    ASSUME NEW M \in Seq(SecretRec), NEW s
    PROVE  InfoSeq(Append(M, s)) = Append(InfoSeq(M), InfoOf(s))
BY DEF InfoSeq

\* The secrets of the typed infos are the typed matched secrets, and their
\* providers are the matched providers.
LEMMA InfoSeqSets ==
    ASSUME NEW M \in Seq(SecretRec)
    PROVE  /\ InfosOf(InfoSeq(M)) = {M[n].name : n \in {n2 \in DOMAIN M : M[n2].typed}}
           /\ {InfoSeq(M)[n].provider : n \in DOMAIN InfoSeq(M)} = {M[n].provider : n \in DOMAIN M}
BY DEF InfosOf, InfoSeq, InfoOf

\* The matched secrets are listed secrets.
LEMMA MatchingType ==
    ASSUME secrets \in Seq(SecretRec)
    PROVE  Matching \in Seq(SecretRec)
BY MatchesType DEF Matching

-----------------------------------------------------------------------------
(* The join of links and services, once every service has been seen.      *)

\* With no duplicate service, a typed secret is backed by a service exactly
\* when getServiceRecords recorded one for it, and the recorded one is the
\* only one backing it.
LEMMA RecordIsBacking ==
    ASSUME LInv, ServicesOK(Len(services)),
           DOMAIN svcRecords = ProvidesOf(Len(services))
    PROVE  /\ \A q : Backing(q) # {} <=> q \in DOMAIN svcRecords
           /\ \A q \in DOMAIN svcRecords :
                 /\ Backing(q) = {svcRecords[q]}
                 /\ ServiceOf(q) = services[svcRecords[q]]
<1>1. services \in Seq(ServiceRec) /\ OwnServices \subseteq 1..Len(services)
      BY DEF LInv, TypeOK, OwnServices
<1>2. ASSUME NEW q PROVE Backing(q) # {} <=> q \in DOMAIN svcRecords
      <2>1. DOMAIN svcRecords = {services[k].provides : k \in OwnServices}
            BY <1>1 DEF ProvidesOf
      <2>. QED BY <2>1 DEF Backing
<1>3. ASSUME NEW q \in DOMAIN svcRecords
      PROVE  Backing(q) = {svcRecords[q]}
      <2> DEFINE k0 == svcRecords[q]
      <2>1. k0 \in 1..Len(services) /\ q \in SecretNames
            BY DEF LInv, TypeOK
      <2>2. services[k0].forDepl /\ services[k0].provides = q
            BY DEF LInv, RecordsBacked
      <2>3. k0 \in Backing(q)
            <3>1. k0 \in DOMAIN services
                  BY <1>1, <2>1
            <3>2. services[k0].provides # NoProvider
                  BY <2>1, <2>2
            <3>. QED BY <2>2, <3>1, <3>2, Zenon DEF Backing, OwnServices
      <2>4. ASSUME NEW k \in Backing(q) PROVE k = k0
            <3>1. k \in OwnServices /\ services[k].provides = q /\ k \in 1..Len(services)
                  BY <1>1 DEF Backing
            <3>2. CASE k < k0
                  <4>1. BadService(k0)
                        BY <2>2, <2>3, <3>1, <3>2 DEF BadService, Backing
                  <4>. QED BY <2>1, <4>1 DEF ServicesOK
            <3>3. CASE k0 < k
                  <4>1. BadService(k)
                        BY <2>2, <2>3, <3>1, <3>3 DEF BadService, Backing
                  <4>. QED BY <3>1, <4>1 DEF ServicesOK
            <3>. QED BY <2>1, <3>1, <3>2, <3>3
      <2>. QED BY <2>3, <2>4, Zenon
<1>4. ASSUME NEW q \in DOMAIN svcRecords
      PROVE  ServiceOf(q) = services[svcRecords[q]]
      BY <1>3 DEF ServiceOf
<1>. QED BY <1>2, <1>3, <1>4

\* The first bad secret is one that follows only good ones.
LEMMA FirstBadSecret ==
    ASSUME secrets \in Seq(SecretRec), NEW k \in 1..Len(secrets),
           SecretsOK(k - 1), BadSecret(k)
    PROVE  FirstOf({k2 \in DOMAIN secrets : BadSecret(k2)}) = k
<1>1. \A y \in {k2 \in DOMAIN secrets : BadSecret(k2)} : k <= y
      BY DEF SecretsOK
<1>. QED BY <1>1, FirstOfLeast

\* The first duplicate service is one that follows only good ones.
LEMMA FirstBadService ==
    ASSUME services \in Seq(ServiceRec), NEW k \in 1..Len(services),
           ServicesOK(k - 1), BadService(k)
    PROVE  FirstOf({k2 \in DOMAIN services : BadService(k2)}) = k
<1>1. \A y \in {k2 \in DOMAIN services : BadService(k2)} : k <= y
      BY DEF ServicesOK
<1>. QED BY <1>1, FirstOfLeast

\* Once the secrets loop is done, the links are keyed by the typed matched
\* secrets and the providers found are the matched ones.
LEMMA DoneSecretsSets ==
    ASSUME LInv, infos = InfoSeq(Matching)
    PROVE  /\ DOMAIN qlinks = Typed
           /\ found = {Matching[n].provider : n \in DOMAIN Matching}
<1>1. Matching \in Seq(SecretRec)
      BY MatchingType DEF LInv, TypeOK
<1>2. InfosOf(infos) = {Matching[n].name : n \in {n2 \in DOMAIN Matching : Matching[n2].typed}}
      /\ {infos[n].provider : n \in DOMAIN infos} = {Matching[n].provider : n \in DOMAIN Matching}
      BY <1>1, InfoSeqSets
<1>. QED BY <1>2 DEF LInv, FoundIsInfos, Typed

-----------------------------------------------------------------------------
(* RInv, one lemma per action.                                             *)

\* An early return with an error the reference allows.
LEMMA FailRInv ==
    ASSUME RInv, LInv', NEW e, Fail(e), [ok |-> FALSE, err |-> e] \in Reference
    PROVE  RInv'
<1>1. /\ UNCHANGED inputs /\ pc' = "Done" /\ qlinks' = qlinks
      /\ result' = [ok |-> FALSE, err |-> e]
      BY DEF Fail
<1>2. LinksFcn'
      BY <1>1 DEF RInv, LinksFcn
<1>3. (EarlyPhase /\ ListsRead /\ SecretsPhase /\ SecretsDonePhase /\ ServicesPhase /\ PodsPhase)'
      BY <1>1 DEF EarlyPhase, ListsRead, SecretsPhase, SecretsDonePhase, ServicesPhase, PodsPhase
<1>4. Reference' = Reference
      BY <1>1, InputsFrame
<1>5. ResolverMatchesReference'
      BY <1>1, <1>4 DEF ResolverMatchesReference
<1>. QED BY <1>2, <1>3, <1>5 DEF RInv

\* A step that only moves pc, to a state other than "Done".
LEMMA GotoFrame ==
    ASSUME RInv, NEW to, to # "Done", Goto(to)
    PROVE  /\ UNCHANGED <<inputs, found, i, j, infos, qlinks, svcRecords, pending, result>>
           /\ pc' = to
           /\ LinksFcn' /\ ResolverMatchesReference'
<1>1. UNCHANGED <<inputs, found, i, j, infos, qlinks, svcRecords, pending, result>> /\ pc' = to
      BY DEF Goto
<1>. QED BY <1>1 DEF RInv, LinksFcn, ResolverMatchesReference

\* The start of listLinkInfos: straight to the providers check when none is
\* missing, otherwise to the List calls.
LEMMA StartRInv ==
    ASSUME RInv, LInv', Start
    PROVE  RInv'
<1>1. pc = "Start" /\ i = 1 /\ j = 1 /\ infos = <<>> /\ found = {}
      /\ DOMAIN svcRecords = {} /\ pending = {}
      BY DEF Start, RInv, EarlyPhase
<1>2. CASE missing = {}
      <2>1. /\ UNCHANGED <<inputs, found, i, j, infos, qlinks, svcRecords, pending, result>>
            /\ pc' = "Missing" /\ LinksFcn' /\ ResolverMatchesReference'
            BY <1>2, GotoFrame DEF Start
      <2>2. Matching = <<>>
            <3>1. Len(secrets) \in Nat
                  BY DEF RInv, LInv, TypeOK
            <3>. QED BY <1>2, <3>1, MatchesNone DEF Matching
      <2>3. Matching' = Matching /\ Typed' = Typed /\ Served' = Served
            BY <2>1, InputsFrame
      <2>4. Typed = {} /\ Served = {}
            BY <2>2 DEF Typed, Served
      <2>5. SecretsDonePhase'
            BY <1>1, <1>2, <2>1, <2>2, <2>3, InfoSeqEmpty DEF SecretsDonePhase, inputs
      <2>6. DOMAIN qlinks = {}
            BY <1>1 DEF RInv, LInv, InfosOf
      <2>7. PodsPhase'
            BY <1>1, <1>2, <2>1, <2>3, <2>4, <2>6 DEF PodsPhase, inputs
      <2>8. (EarlyPhase /\ ListsRead /\ SecretsPhase /\ ServicesPhase)'
            BY <2>1 DEF EarlyPhase, ListsRead, SecretsPhase, ServicesPhase
      <2>. QED BY <2>1, <2>5, <2>7, <2>8 DEF RInv
<1>3. CASE missing # {}
      <2>1. /\ UNCHANGED <<inputs, found, i, j, infos, qlinks, svcRecords, pending, result>>
            /\ pc' = "ListSecrets" /\ LinksFcn' /\ ResolverMatchesReference'
            BY <1>3, GotoFrame DEF Start
      <2>2. (EarlyPhase /\ ListsRead)'
            BY <1>1, <1>3, <2>1 DEF EarlyPhase, ListsRead, inputs
      <2>3. (SecretsPhase /\ SecretsDonePhase /\ ServicesPhase /\ PodsPhase)'
            BY <2>1 DEF SecretsPhase, SecretsDonePhase, ServicesPhase, PodsPhase
      <2>. QED BY <2>1, <2>2, <2>3 DEF RInv
<1>. QED BY <1>2, <1>3

\* The List errors are allowed whenever the listings are read.
LEMMA ListErrorsAllowed ==
    ASSUME missing # {}
    PROVE  /\ [ok |-> FALSE, err |-> [kind |-> "ListSecrets"]] \in Reference
           /\ [ok |-> FALSE, err |-> [kind |-> "ListServices"]] \in Reference
BY DEF Reference

\* Listing the secrets, or failing to.
LEMMA ListSecretsRInv ==
    ASSUME RInv, LInv', ListSecrets
    PROVE  RInv'
<1>1. pc = "ListSecrets" /\ missing # {}
      BY DEF ListSecrets, RInv, ListsRead
<1>2. CASE Goto("ListServices")
      <2>1. /\ UNCHANGED <<inputs, found, i, j, infos, qlinks, svcRecords, pending, result>>
            /\ pc' = "ListServices" /\ LinksFcn' /\ ResolverMatchesReference'
            BY <1>2, GotoFrame
      <2>2. (EarlyPhase /\ ListsRead)'
            BY <1>1, <2>1 DEF RInv, EarlyPhase, ListsRead, inputs
      <2>3. (SecretsPhase /\ SecretsDonePhase /\ ServicesPhase /\ PodsPhase)'
            BY <2>1 DEF SecretsPhase, SecretsDonePhase, ServicesPhase, PodsPhase
      <2>. QED BY <2>1, <2>2, <2>3 DEF RInv
<1>3. CASE Fail([kind |-> "ListSecrets"])
      BY <1>1, <1>3, ListErrorsAllowed, FailRInv
<1>. QED BY <1>2, <1>3 DEF ListSecrets

\* Listing the services, or failing to; the secrets loop starts from nothing.
LEMMA ListServicesRInv ==
    ASSUME RInv, LInv', ListServices
    PROVE  RInv'
<1>1. /\ pc = "ListServices" /\ missing # {}
      /\ i = 1 /\ j = 1 /\ infos = <<>> /\ found = {}
      /\ DOMAIN svcRecords = {} /\ pending = {}
      BY DEF ListServices, RInv, ListsRead, EarlyPhase
<1>2. CASE Goto("Secrets")
      <2>1. /\ UNCHANGED <<inputs, found, i, j, infos, qlinks, svcRecords, pending, result>>
            /\ pc' = "Secrets" /\ LinksFcn' /\ ResolverMatchesReference'
            BY <1>2, GotoFrame
      <2>2. Matches' = Matches /\ SecretsOK(0)' = SecretsOK(0)
            /\ MatchedBefore(0)' = MatchedBefore(0)
            BY <2>1, InputsFrame
      <2>3. SecretsOK(0) /\ MatchedBefore(0) = {}
            BY DEF SecretsOK, MatchedBefore
      <2>4. DOMAIN qlinks = {}
            BY <1>1 DEF RInv, LInv, InfosOf
      <2>5. SecretsPhase'
            BY <1>1, <2>1, <2>2, <2>3, <2>4, MatchesZero, InfoSeqEmpty DEF SecretsPhase
      <2>6. (EarlyPhase /\ ListsRead)'
            BY <1>1, <2>1 DEF EarlyPhase, ListsRead, inputs
      <2>7. (SecretsDonePhase /\ ServicesPhase /\ PodsPhase)'
            BY <2>1 DEF SecretsDonePhase, ServicesPhase, PodsPhase
      <2>. QED BY <2>1, <2>5, <2>6, <2>7 DEF RInv
<1>3. CASE Fail([kind |-> "ListServices"])
      BY <1>1, <1>3, ListErrorsAllowed, FailRInv
<1>. QED BY <1>2, <1>3 DEF ListServices

\* The first bad secret decides the error the reference allows.
LEMMA SecretErrorAllowed ==
    ASSUME missing # {}, secrets \in Seq(SecretRec), NEW k \in 1..Len(secrets),
           SecretsOK(k - 1), BadSecret(k)
    PROVE  /\ [ok |-> FALSE, err |-> SecretError] \in Reference
           /\ SecretError = IF secrets[k].provider = Malformed THEN [kind |-> "ParseLink"]
                            ELSE [kind |-> "DupSecret", provider |-> secrets[k].provider]
<1>1. FirstOf({k2 \in DOMAIN secrets : BadSecret(k2)}) = k
      BY FirstBadSecret
<1>2. \E k2 \in DOMAIN secrets : BadSecret(k2)
      OBVIOUS
<1>. QED BY <1>1, <1>2 DEF Reference, SecretError

\* An iteration of the secrets loop that goes on to the next secret.
LEMMA SecretsNext ==
    ASSUME RInv, LInv', pc = "Secrets", i \in 1..Len(secrets),
           UNCHANGED <<inputs, pc, j, svcRecords, pending, result>>,
           i' = i + 1, infos' = InfoSeq(Matches[i]), SecretsOK(i),
           found' = {secrets[k].provider : k \in MatchedBefore(i)},
           \A q \in DOMAIN qlinks' : qlinks'[q] = NoLink, LinksFcn'
    PROVE  RInv'
<1>0. UNCHANGED inputs
      OBVIOUS
<1>1. /\ Matches' = Matches
      /\ \A m : SecretsOK(m)' = SecretsOK(m)
      /\ \A m : MatchedBefore(m)' = MatchedBefore(m)
      BY <1>0, InputsFrame
<1>2. SecretsPhase'
      BY <1>1 DEF RInv, SecretsPhase, inputs
<1>3. (EarlyPhase /\ ListsRead /\ SecretsDonePhase /\ ServicesPhase /\ PodsPhase)'
      BY DEF RInv, EarlyPhase, ListsRead, SecretsDonePhase, ServicesPhase, PodsPhase, inputs
<1>4. ResolverMatchesReference'
      BY DEF ResolverMatchesReference
<1>. QED BY <1>2, <1>3, <1>4 DEF RInv

\* One secret: skipped, rejected as the first bad one, or matched.
LEMMA SecretStepRInv ==
    ASSUME RInv, LInv', SecretStep
    PROVE  RInv'
<1> DEFINE s == secrets[i]
<1>1. /\ pc = "Secrets" /\ missing # {}
      /\ secrets \in Seq(SecretRec) /\ i \in 1..Len(secrets) /\ i - 1 \in Nat
      /\ s \in SecretRec /\ missing \subseteq Providers /\ found \subseteq missing
      <2>1. pc = "Secrets" /\ i <= Len(secrets)
            BY DEF SecretStep
      <2>2. missing # {}
            BY <2>1 DEF RInv, ListsRead
      <2>3. TypeOK
            BY DEF RInv, LInv
      <2>4. secrets \in Seq(SecretRec) /\ i \in 1..(Len(secrets) + 1)
            /\ missing \subseteq Providers /\ found \subseteq missing
            BY <2>3 DEF TypeOK
      <2>. QED BY <2>1, <2>2, <2>4
<1>2. /\ infos = InfoSeq(Matches[i - 1])
      /\ SecretsOK(i - 1)
      /\ found = {secrets[k].provider : k \in MatchedBefore(i - 1)}
      /\ \A q \in DOMAIN qlinks : qlinks[q] = NoLink
      BY <1>1 DEF RInv, SecretsPhase
<1>3. Matches[i] = IF Matched(s) THEN Append(Matches[i - 1], s) ELSE Matches[i - 1]
      <2>1. Matches[(i - 1) + 1] = IF (i - 1) + 1 <= Len(secrets) /\ Matched(secrets[(i - 1) + 1])
                                   THEN Append(Matches[i - 1], secrets[(i - 1) + 1])
                                   ELSE Matches[i - 1]
            BY <1>1, MatchesStep
      <2>. QED BY <1>1, <2>1
<1>4. SecretsOK(i) <=> SecretsOK(i - 1) /\ ~BadSecret(i)
      BY <1>1 DEF SecretsOK
<1>5. /\ MatchedBefore(i) = MatchedBefore(i - 1) \cup (IF Matched(s) THEN {i} ELSE {})
      BY <1>1 DEF MatchedBefore
<1>6. CASE /\ ~s.forDepl \/ (s.provider # Malformed /\ s.provider \notin missing)
           /\ i' = i + 1
           /\ UNCHANGED <<inputs, pc, found, j, infos, qlinks, svcRecords, pending, result>>
      <2>1. ~Matched(s)
            BY <1>6 DEF Matched
      <2>2. ~BadSecret(i)
            BY <1>6 DEF BadSecret, OwnSecrets
      <2>3. LinksFcn'
            BY <1>6 DEF RInv, LinksFcn
      <2>. QED BY <1>1, <1>2, <1>3, <1>4, <1>5, <1>6, <2>1, <2>2, <2>3, SecretsNext
<1>7. CASE s.forDepl /\ s.provider = Malformed /\ Fail([kind |-> "ParseLink"])
      <2>1. BadSecret(i)
            BY <1>1, <1>7 DEF BadSecret, OwnSecrets
      <2>. QED BY <1>1, <1>2, <1>7, <2>1, SecretErrorAllowed, FailRInv
<1>8. CASE s.forDepl /\ s.provider \in found
           /\ Fail([kind |-> "DupSecret", provider |-> s.provider])
      <2>1. PICK k2 \in MatchedBefore(i - 1) : secrets[k2].provider = s.provider
            BY <1>2, <1>8
      <2>2. k2 \in OwnSecrets /\ k2 < i /\ s.provider \in missing
            BY <1>1, <1>8, <2>1 DEF MatchedBefore, Matched, OwnSecrets
      <2>3. BadSecret(i)
            BY <1>1, <1>8, <2>1, <2>2 DEF BadSecret, OwnSecrets
      <2>4. s.provider # Malformed
            BY <1>1, <2>2
      <2>. QED BY <1>1, <1>2, <1>8, <2>3, <2>4, SecretErrorAllowed, FailRInv
<1>9. CASE /\ s.forDepl /\ s.provider \in missing \ found
           /\ infos' = Append(infos, [secret |-> s.name, provider |-> s.provider,
                                      typed |-> s.typed])
           /\ qlinks' = IF s.typed THEN Put(qlinks, s.name, NoLink) ELSE qlinks
           /\ found' = found \cup {s.provider}
           /\ i' = i + 1
           /\ UNCHANGED <<inputs, pc, j, svcRecords, pending, result>>
      <2>1. Matched(s)
            BY <1>9 DEF Matched
      <2>2. infos' = InfoSeq(Matches[i])
            <3>1. Matches[i - 1] \in Seq(SecretRec)
                  BY <1>1, MatchesType
            <3>2. InfoSeq(Append(Matches[i - 1], s)) = Append(InfoSeq(Matches[i - 1]), InfoOf(s))
                  BY <3>1, InfoSeqAppend
            <3>. QED BY <1>2, <1>3, <1>9, <2>1, <3>2 DEF InfoOf
      <2>3. ~BadSecret(i)
            <3>1. s.provider # Malformed
                  BY <1>1, <1>9
            <3>2. ASSUME NEW k2 \in OwnSecrets, k2 < i, secrets[k2].provider = s.provider
                  PROVE  FALSE
                  <4>1. k2 \in MatchedBefore(i - 1)
                        BY <1>1, <1>9, <3>2 DEF OwnSecrets, MatchedBefore, Matched
                  <4>. QED BY <1>2, <1>9, <3>2, <4>1
            <3>. QED BY <3>1, <3>2 DEF BadSecret
      <2>4. found' = {secrets[k].provider : k \in MatchedBefore(i)}
            BY <1>2, <1>5, <1>9, <2>1
      <2>5. \A q \in DOMAIN qlinks' : qlinks'[q] = NoLink
            BY <1>2, <1>9 DEF Put
      <2>6. LinksFcn'
            BY <1>9 DEF RInv, LinksFcn, Put
      <2>. QED BY <1>1, <1>2, <1>4, <1>9, <2>2, <2>3, <2>4, <2>5, <2>6, SecretsNext
<1>. QED BY <1>6, <1>7, <1>8, <1>9 DEF SecretStep

\* The secrets loop ends having matched all matching secrets.
LEMMA SecretsDoneRInv ==
    ASSUME RInv, LInv', SecretsDone
    PROVE  RInv'
<1>1. pc = "Secrets" /\ missing # {} /\ i - 1 = Len(secrets)
      <2>1. pc = "Secrets" /\ i > Len(secrets)
            BY DEF SecretsDone
      <2>2. i \in 1..(Len(secrets) + 1) /\ secrets \in Seq(SecretRec)
            BY DEF RInv, LInv, TypeOK
      <2>. QED BY <2>1, <2>2 DEF RInv, ListsRead
<1>2. /\ infos = InfoSeq(Matches[i - 1])
      /\ SecretsOK(i - 1)
      /\ j = 1 /\ DOMAIN svcRecords = {} /\ pending = {}
      /\ \A q \in DOMAIN qlinks : qlinks[q] = NoLink
      BY <1>1 DEF RInv, SecretsPhase
<1>3. /\ UNCHANGED <<inputs, found, i, j, infos, qlinks, svcRecords, pending, result>>
      /\ pc' = "Services" /\ LinksFcn' /\ ResolverMatchesReference'
      BY GotoFrame DEF SecretsDone
<1>4. /\ Matching' = Matching
      /\ \A m : SecretsOK(m)' = SecretsOK(m)
      /\ \A m : ServicesOK(m)' = ServicesOK(m)
      /\ \A m : ProvidesOf(m)' = ProvidesOf(m)
      BY <1>3, InputsFrame
<1>5. SecretsDonePhase'
      BY <1>1, <1>2, <1>3, <1>4 DEF SecretsDonePhase, Matching, inputs
<1>6. ServicesOK(0) /\ ProvidesOf(0) = {}
      <2>1. services \in Seq(ServiceRec)
            BY DEF RInv, LInv, TypeOK
      <2>. QED BY <2>1 DEF ServicesOK, ProvidesOf, OwnServices
<1>7. ServicesPhase'
      BY <1>2, <1>3, <1>4, <1>6 DEF ServicesPhase
<1>8. (EarlyPhase /\ ListsRead /\ SecretsPhase /\ PodsPhase)'
      BY <1>1, <1>3 DEF EarlyPhase, ListsRead, SecretsPhase, PodsPhase, inputs
<1>. QED BY <1>3, <1>5, <1>7, <1>8 DEF RInv

\* With the secrets all good, the first duplicate service decides the error.
LEMMA DupServiceAllowed ==
    ASSUME missing # {}, secrets \in Seq(SecretRec), SecretsOK(Len(secrets)),
           services \in Seq(ServiceRec), NEW k \in 1..Len(services),
           ServicesOK(k - 1), BadService(k)
    PROVE  [ok |-> FALSE, err |-> [kind |-> "DupService", provider |-> services[k].provides]]
              \in Reference
<1>1. FirstOf({k2 \in DOMAIN services : BadService(k2)}) = k
      BY FirstBadService
<1>2. ~\E k2 \in DOMAIN secrets : BadSecret(k2)
      BY DEF SecretsOK
<1>3. \E k2 \in DOMAIN services : BadService(k2)
      OBVIOUS
<1>. QED BY <1>1, <1>2, <1>3 DEF Reference

\* An iteration of the services loop that goes on to the next service.
LEMMA ServicesNext ==
    ASSUME RInv, LInv', pc = "Services", j \in 1..Len(services),
           UNCHANGED <<inputs, pc, found, i, infos, qlinks, pending, result>>,
           j' = j + 1, ServicesOK(j), DOMAIN svcRecords' = ProvidesOf(j)
    PROVE  RInv'
<1>0. UNCHANGED inputs
      OBVIOUS
<1>1. /\ \A m : ServicesOK(m)' = ServicesOK(m)
      /\ \A m : ProvidesOf(m)' = ProvidesOf(m)
      BY <1>0, InputsFrame
<1>2. ServicesPhase'
      BY <1>1 DEF RInv, ServicesPhase
<1>3. SecretsDonePhase'
      <2>1. Matching' = Matching /\ \A m : SecretsOK(m)' = SecretsOK(m)
            BY <1>0, InputsFrame
      <2>. QED BY <2>1 DEF RInv, SecretsDonePhase, inputs
<1>4. (EarlyPhase /\ ListsRead /\ SecretsPhase /\ PodsPhase)'
      BY DEF RInv, EarlyPhase, ListsRead, SecretsPhase, PodsPhase, inputs
<1>5. LinksFcn' /\ ResolverMatchesReference'
      BY DEF RInv, LinksFcn, ResolverMatchesReference
<1>. QED BY <1>2, <1>3, <1>4, <1>5 DEF RInv

\* One service: skipped, rejected as the first duplicate, or recorded.
LEMMA ServiceStepRInv ==
    ASSUME RInv, LInv', ServiceStep
    PROVE  RInv'
<1> DEFINE v == services[j]
<1>1. /\ pc = "Services" /\ missing # {}
      /\ services \in Seq(ServiceRec) /\ j \in 1..Len(services)
      /\ secrets \in Seq(SecretRec) /\ v \in ServiceRec
      /\ DOMAIN svcRecords \subseteq SecretNames
      <2>1. pc = "Services" /\ j <= Len(services)
            BY DEF ServiceStep
      <2>2. missing # {}
            BY <2>1 DEF RInv, ListsRead
      <2>3. TypeOK
            BY DEF RInv, LInv
      <2>4. /\ services \in Seq(ServiceRec) /\ j \in 1..(Len(services) + 1)
            /\ secrets \in Seq(SecretRec) /\ DOMAIN svcRecords \subseteq SecretNames
            BY <2>3 DEF TypeOK
      <2>. QED BY <2>1, <2>2, <2>4
<1>2. /\ SecretsOK(Len(secrets))
      /\ ServicesOK(j - 1)
      /\ DOMAIN svcRecords = ProvidesOf(j - 1)
      BY <1>1 DEF RInv, SecretsDonePhase, ServicesPhase
<1>3. ServicesOK(j) <=> ServicesOK(j - 1) /\ ~BadService(j)
      BY <1>1 DEF ServicesOK
<1>0. OwnServices \subseteq 1..Len(services)
      BY <1>1 DEF OwnServices
<1>4. ProvidesOf(j) = ProvidesOf(j - 1) \cup (IF j \in OwnServices THEN {v.provides} ELSE {})
      <2>1. {k2 \in OwnServices : k2 <= j}
               = {k2 \in OwnServices : k2 <= j - 1} \cup (IF j \in OwnServices THEN {j} ELSE {})
            <3>1. OwnServices \subseteq Int /\ j \in Int
                  BY <1>0, <1>1
            <3>. QED BY <3>1, PrefixSplit
      <2>. QED BY <2>1 DEF ProvidesOf
<1>5. CASE /\ ~v.forDepl \/ v.provides = NoProvider
           /\ j' = j + 1
           /\ UNCHANGED <<inputs, pc, found, i, infos, qlinks, svcRecords, pending, result>>
      <2>1. j \notin OwnServices
            BY <1>5 DEF OwnServices
      <2>2. ~BadService(j)
            BY <2>1 DEF BadService
      <2>. QED BY <1>1, <1>2, <1>3, <1>4, <1>5, <2>1, <2>2, ServicesNext
<1>6. CASE v.forDepl /\ v.provides \in DOMAIN svcRecords
           /\ Fail([kind |-> "DupService", provider |-> v.provides])
      <2>1. PICK k \in {k2 \in OwnServices : k2 <= j - 1} : services[k].provides = v.provides
            BY <1>2, <1>6 DEF ProvidesOf
      <2>2. j \in OwnServices
            <3>1. j \in DOMAIN services
                  BY <1>1
            <3>2. v.forDepl /\ v.provides \in SecretNames
                  BY <1>1, <1>6
            <3>3. v.provides # NoProvider
                  BY <3>2
            <3>. QED BY <3>1, <3>2, <3>3, Zenon DEF OwnServices
      <2>3. BadService(j)
            <3>1. k \in OwnServices /\ k < j
                  BY <1>0, <1>1, <2>1
            <3>. QED BY <2>1, <2>2, <3>1 DEF BadService
      <2>. QED BY <1>1, <1>2, <1>6, <2>3, DupServiceAllowed, FailRInv
<1>7. CASE /\ v.forDepl /\ v.provides \in SecretNames \ DOMAIN svcRecords
           /\ svcRecords' = Put(svcRecords, v.provides, j)
           /\ j' = j + 1
           /\ UNCHANGED <<inputs, pc, found, i, infos, qlinks, pending, result>>
      <2>1. j \in OwnServices
            <3>1. j \in DOMAIN services
                  BY <1>1
            <3>2. v.forDepl /\ v.provides \in SecretNames
                  BY <1>1, <1>7
            <3>3. v.provides # NoProvider
                  BY <3>2
            <3>. QED BY <3>1, <3>2, <3>3, Zenon DEF OwnServices
      <2>2. ~BadService(j)
            <3>1. ASSUME NEW k \in OwnServices, k < j, services[k].provides = v.provides
                  PROVE  FALSE
                  <4>1. k \in {k2 \in OwnServices : k2 <= j - 1}
                        BY <1>0, <1>1, <3>1
                  <4>2. v.provides \in ProvidesOf(j - 1)
                        BY <3>1, <4>1 DEF ProvidesOf
                  <4>. QED BY <1>2, <1>7, <4>2
            <3>. QED BY <3>1 DEF BadService
      <2>3. DOMAIN svcRecords' = ProvidesOf(j)
            BY <1>2, <1>4, <1>7, <2>1 DEF Put
      <2>. QED BY <1>1, <1>2, <1>3, <1>7, <2>2, <2>3, ServicesNext
<1>. QED BY <1>5, <1>6, <1>7 DEF ServiceStep

\* The services loop ends with a record for every claimed provider.
LEMMA ServicesDoneRInv ==
    ASSUME RInv, LInv', ServicesDone
    PROVE  RInv'
<1>1. /\ pc = "Services" /\ missing # {} /\ j - 1 = Len(services)
      /\ pc' = "Pods" /\ pending' = DOMAIN qlinks
      /\ UNCHANGED <<inputs, found, i, j, infos, qlinks, svcRecords, result>>
      <2>1. pc = "Services" /\ j > Len(services)
            BY DEF ServicesDone
      <2>2. j \in 1..(Len(services) + 1) /\ services \in Seq(ServiceRec)
            BY DEF RInv, LInv, TypeOK
      <2>. QED BY <2>1, <2>2 DEF RInv, ListsRead, ServicesDone
<1>2. /\ infos = InfoSeq(Matching)
      /\ ServicesOK(j - 1)
      /\ DOMAIN svcRecords = ProvidesOf(j - 1)
      /\ \A q \in DOMAIN qlinks : qlinks[q] = NoLink
      BY <1>1 DEF RInv, SecretsDonePhase, ServicesPhase
<1>3. /\ Matching' = Matching /\ Served' = Served
      /\ \A m : SecretsOK(m)' = SecretsOK(m)
      /\ \A m : ServicesOK(m)' = ServicesOK(m)
      /\ \A m : ProvidesOf(m)' = ProvidesOf(m)
      BY <1>1, InputsFrame
<1>4. Served \subseteq DOMAIN qlinks
      <2>1. DOMAIN qlinks = Typed
            BY <1>2, DoneSecretsSets DEF RInv
      <2>. QED BY <2>1 DEF Served
<1>5. SecretsDonePhase'
      BY <1>1, <1>2, <1>3 DEF RInv, SecretsDonePhase, inputs
<1>6. PodsPhase'
      BY <1>1, <1>2, <1>3, <1>4 DEF PodsPhase, inputs
<1>7. (EarlyPhase /\ ListsRead /\ SecretsPhase /\ ServicesPhase)'
      BY <1>1 DEF EarlyPhase, ListsRead, SecretsPhase, ServicesPhase, inputs
<1>8. LinksFcn' /\ ResolverMatchesReference'
      BY <1>1 DEF RInv, LinksFcn, ResolverMatchesReference
<1>. QED BY <1>5, <1>6, <1>7, <1>8 DEF RInv

\* With the secrets and services all good, the reference allows a pod error
\* of each served link, and the final outcome once no pod fails.
LEMMA PodOutcomesAllowed ==
    ASSUME missing # {}, secrets \in Seq(SecretRec), SecretsOK(Len(secrets)),
           services \in Seq(ServiceRec), ServicesOK(Len(services))
    PROVE  /\ \A q \in Served : [ok |-> FALSE, err |-> [kind |-> "ListPods", link |-> q]] \in Reference
           /\ \A q \in Served : PodsFail(q) => [ok |-> FALSE, err |-> PodFailure(q)] \in Reference
           /\ (\A q \in Served : ~PodsFail(q)) /\ Unfound # {} =>
                 [ok |-> FALSE, err |-> [kind |-> "Missing", providers |-> Unfound]] \in Reference
           /\ (\A q \in Served : ~PodsFail(q)) /\ Unfound = {} => Expected \in Reference
<1>1. ~\E k \in DOMAIN secrets : BadSecret(k)
      BY DEF SecretsOK
<1>2. ~\E k \in DOMAIN services : BadService(k)
      BY DEF ServicesOK
<1>. QED BY <1>1, <1>2 DEF Reference

\* An iteration of the pods loop that goes on to the next link.
LEMMA PodsNext ==
    ASSUME RInv, LInv', pc = "Pods", NEW q \in pending,
           UNCHANGED <<inputs, pc, found, i, j, infos, svcRecords, result>>,
           pending' = pending \ {q}, DOMAIN qlinks' = DOMAIN qlinks, LinksFcn',
           \A z \in DOMAIN qlinks' : qlinks'[z] = IF z \in pending' THEN NoLink ELSE ExpectedLink(z),
           \A z \in Served \ pending' : ~PodsFail(z)
    PROVE  RInv'
<1>0. UNCHANGED inputs
      OBVIOUS
<1>1. /\ Matching' = Matching /\ Served' = Served
      /\ \A z : ExpectedLink(z)' = ExpectedLink(z) /\ PodsFail(z)' = PodsFail(z)
      /\ \A m : SecretsOK(m)' = SecretsOK(m)
      /\ \A m : ServicesOK(m)' = ServicesOK(m)
      /\ \A m : ProvidesOf(m)' = ProvidesOf(m)
      BY <1>0, InputsFrame
<1>2. PodsPhase'
      BY <1>1 DEF RInv, PodsPhase, inputs
<1>3. SecretsDonePhase'
      BY <1>1 DEF RInv, SecretsDonePhase, inputs
<1>4. (EarlyPhase /\ ListsRead /\ SecretsPhase /\ ServicesPhase)'
      BY DEF RInv, EarlyPhase, ListsRead, SecretsPhase, ServicesPhase, inputs
<1>5. ResolverMatchesReference'
      BY DEF ResolverMatchesReference
<1>. QED BY <1>2, <1>3, <1>4, <1>5 DEF RInv

\* The facts the pods loop and Finish rely on.
LEMMA PodsFacts ==
    ASSUME RInv, pc \in {"Pods", "Missing"}
    PROVE  /\ infos = InfoSeq(Matching)
           /\ DOMAIN qlinks = Typed
           /\ found = {Matching[n].provider : n \in DOMAIN Matching}
           /\ \A q \in DOMAIN qlinks :
                 qlinks[q] = IF q \in pending THEN NoLink ELSE ExpectedLink(q)
           /\ \A q \in Served \ pending : ~PodsFail(q)
           /\ pending \subseteq DOMAIN qlinks
           /\ secrets \in Seq(SecretRec) /\ services \in Seq(ServiceRec)
           /\ missing # {} =>
                 /\ SecretsOK(Len(secrets)) /\ ServicesOK(Len(services))
                 /\ DOMAIN svcRecords = ProvidesOf(Len(services))
<1>1. infos = InfoSeq(Matching)
      BY DEF RInv, SecretsDonePhase
<1>2. DOMAIN qlinks = Typed /\ found = {Matching[n].provider : n \in DOMAIN Matching}
      BY <1>1, DoneSecretsSets DEF RInv
<1>3. pending \subseteq DOMAIN qlinks /\ secrets \in Seq(SecretRec) /\ services \in Seq(ServiceRec)
      BY DEF RInv, LInv, TypeOK
<1>. QED BY <1>1, <1>2, <1>3 DEF RInv, SecretsDonePhase, PodsPhase

\* One link of the pods loop: no service, a pod error, or the expected link.
LEMMA PodStepRInv ==
    ASSUME RInv, LInv', PodStep
    PROVE  RInv'
<1>1. PICK q \in pending :
         \/ /\ q \notin DOMAIN svcRecords
            /\ pending' = pending \ {q}
            /\ UNCHANGED <<inputs, pc, found, i, j, infos, qlinks, svcRecords, result>>
         \/ /\ q \in DOMAIN svcRecords
            /\ LET v == services[svcRecords[q]] IN
               \/ Fail([kind |-> "ListPods", link |-> q])
               \/ /\ v.pods = <<>>
                  /\ Fail([kind |-> "NoPods", link |-> q])
               \/ /\ v.pods # <<>>
                  /\ \E k \in DOMAIN v.pods : ~v.pods[k]
                  /\ Fail([kind |-> "NoIP", link |-> q])
               \/ /\ v.pods # <<>>
                  /\ \A k \in DOMAIN v.pods : v.pods[k]
                  /\ qlinks' = [qlinks EXCEPT ![q] = [address |-> v.name,
                                                      instances |-> InstancesOf(v.pods)]]
                  /\ pending' = pending \ {q}
                  /\ UNCHANGED <<inputs, pc, found, i, j, infos, svcRecords, result>>
      BY DEF PodStep
<1>2. /\ pc = "Pods" /\ missing # {}
      /\ DOMAIN qlinks = Typed
      /\ \A z \in DOMAIN qlinks :
            qlinks[z] = IF z \in pending THEN NoLink ELSE ExpectedLink(z)
      /\ \A z \in Served \ pending : ~PodsFail(z)
      /\ q \in DOMAIN qlinks
      /\ secrets \in Seq(SecretRec) /\ services \in Seq(ServiceRec)
      /\ SecretsOK(Len(secrets)) /\ ServicesOK(Len(services))
      /\ DOMAIN svcRecords = ProvidesOf(Len(services))
      <2>1. pc = "Pods"
            BY DEF PodStep
      <2>2. missing # {}
            BY <2>1 DEF RInv, ListsRead
      <2>. QED BY <2>1, <2>2, PodsFacts
<1>3. /\ \A z : Backing(z) # {} <=> z \in DOMAIN svcRecords
      /\ \A z \in DOMAIN svcRecords : ServiceOf(z) = services[svcRecords[z]]
      BY <1>2, RecordIsBacking DEF RInv
<1>4. q \in Served <=> q \in DOMAIN svcRecords
      BY <1>2, <1>3 DEF Served
<1>5. CASE /\ q \notin DOMAIN svcRecords
           /\ pending' = pending \ {q}
           /\ UNCHANGED <<inputs, pc, found, i, j, infos, qlinks, svcRecords, result>>
      <2>1. ExpectedLink(q) = NoLink
            BY <1>4, <1>5 DEF ExpectedLink
      <2>2. \A z \in DOMAIN qlinks' : qlinks'[z] = IF z \in pending' THEN NoLink ELSE ExpectedLink(z)
            BY <1>2, <1>5, <2>1
      <2>3. \A z \in Served \ pending' : ~PodsFail(z)
            BY <1>2, <1>4, <1>5
      <2>4. LinksFcn'
            BY <1>5 DEF RInv, LinksFcn
      <2>. QED BY <1>2, <1>5, <2>2, <2>3, <2>4, PodsNext
<1>6. CASE q \in DOMAIN svcRecords
      <2> DEFINE v == services[svcRecords[q]]
      <2>1. q \in Served /\ ServiceOf(q) = v
            BY <1>3, <1>4, <1>6
      <2>2. v \in ServiceRec /\ v.pods \in Seq(BOOLEAN)
            <3>1. svcRecords[q] \in 1..Len(services)
                  BY <1>6 DEF RInv, LInv, TypeOK
            <3>2. v \in ServiceRec
                  <4>1. services \in Seq(ServiceRec)
                        BY <1>2
                  <4>. QED BY <4>1, <3>1
            <3>3. v.pods \in PodLists
                  BY <3>2 DEF ServiceRec
            <3>. QED BY <3>2, <3>3
      <2>3. CASE Fail([kind |-> "ListPods", link |-> q])
            BY <1>2, <2>1, <2>3, PodOutcomesAllowed, FailRInv
      <2>4. CASE v.pods = <<>> /\ Fail([kind |-> "NoPods", link |-> q])
            <3>1. PodsFail(q) /\ PodFailure(q) = [kind |-> "NoPods", link |-> q]
                  BY <2>1, <2>4 DEF PodsFail, PodFailure
            <3>. QED BY <1>2, <2>1, <2>4, <3>1, PodOutcomesAllowed, FailRInv
      <2>5. CASE /\ v.pods # <<>>
                 /\ \E k \in DOMAIN v.pods : ~v.pods[k]
                 /\ Fail([kind |-> "NoIP", link |-> q])
            <3>1. PodsFail(q) /\ PodFailure(q) = [kind |-> "NoIP", link |-> q]
                  BY <2>1, <2>5 DEF PodsFail, PodFailure
            <3>. QED BY <1>2, <2>1, <2>5, <3>1, PodOutcomesAllowed, FailRInv
      <2>6. CASE /\ v.pods # <<>>
                 /\ \A k \in DOMAIN v.pods : v.pods[k]
                 /\ qlinks' = [qlinks EXCEPT ![q] = [address |-> v.name,
                                                     instances |-> InstancesOf(v.pods)]]
                 /\ pending' = pending \ {q}
                 /\ UNCHANGED <<inputs, pc, found, i, j, infos, svcRecords, result>>
            <3>1. ExpectedLink(q) = [address |-> v.name, instances |-> InstancesOf(v.pods)]
                  BY <2>1, <2>2, InstancesExpected DEF ExpectedLink
            <3>2. ~PodsFail(q)
                  BY <2>1, <2>6 DEF PodsFail
            <3>3. DOMAIN qlinks' = DOMAIN qlinks
                  BY <2>6
            <3>4. \A z \in DOMAIN qlinks' : qlinks'[z] = IF z \in pending' THEN NoLink ELSE ExpectedLink(z)
                  BY <1>2, <2>6, <3>1, <3>3
            <3>5. \A z \in Served \ pending' : ~PodsFail(z)
                  BY <1>2, <2>6, <3>2
            <3>6. LinksFcn'
                  BY <2>6, <3>3 DEF RInv, LinksFcn
            <3>. QED BY <1>2, <2>6, <3>3, <3>4, <3>5, <3>6, PodsNext
      <2>. QED BY <1>1, <1>6, <2>3, <2>4, <2>5, <2>6
<1>. QED BY <1>1, <1>5, <1>6

\* The pods loop ends with every link the expected one.
LEMMA PodsDoneRInv ==
    ASSUME RInv, LInv', PodsDone
    PROVE  RInv'
<1>1. /\ pc = "Pods" /\ pending = {}
      /\ UNCHANGED <<inputs, found, i, j, infos, qlinks, svcRecords, pending, result>>
      /\ pc' = "Missing" /\ LinksFcn' /\ ResolverMatchesReference'
      BY GotoFrame DEF PodsDone
<1>2. /\ Matching' = Matching /\ Served' = Served
      /\ \A z : ExpectedLink(z)' = ExpectedLink(z) /\ PodsFail(z)' = PodsFail(z)
      /\ \A m : SecretsOK(m)' = SecretsOK(m)
      /\ \A m : ServicesOK(m)' = ServicesOK(m)
      /\ \A m : ProvidesOf(m)' = ProvidesOf(m)
      BY <1>1, InputsFrame
<1>3. (SecretsDonePhase /\ PodsPhase)'
      BY <1>1, <1>2 DEF RInv, SecretsDonePhase, PodsPhase, inputs
<1>4. (EarlyPhase /\ ListsRead /\ SecretsPhase /\ ServicesPhase)'
      BY <1>1 DEF EarlyPhase, ListsRead, SecretsPhase, ServicesPhase
<1>. QED BY <1>1, <1>3, <1>4 DEF RInv

\* When the pods loop is over, the links and infos built are the expected
\* ones, and the providers not found are the unfound ones.
LEMMA MissingFacts ==
    ASSUME RInv, pc = "Missing"
    PROVE  /\ [ok |-> TRUE, infos |-> infos, links |-> qlinks,
               injected |-> DOMAIN qlinks # {}] = Expected
           /\ Unfound = missing \ found
           /\ \A q \in Served : ~PodsFail(q)
<1>1. /\ infos = InfoSeq(Matching)
      /\ DOMAIN qlinks = Typed
      /\ found = {Matching[n].provider : n \in DOMAIN Matching}
      /\ \A q \in DOMAIN qlinks : qlinks[q] = IF q \in pending THEN NoLink ELSE ExpectedLink(q)
      /\ \A q \in Served \ pending : ~PodsFail(q)
      BY PodsFacts
<1>2. pending = {}
      BY DEF RInv, PodsPhase
<1>3. qlinks = [q \in Typed |-> ExpectedLink(q)]
      BY <1>1, <1>2 DEF RInv, LinksFcn
<1>4. infos = [n \in DOMAIN Matching |-> [secret |-> Matching[n].name,
                                          provider |-> Matching[n].provider,
                                          typed |-> Matching[n].typed]]
      BY <1>1 DEF InfoSeq, InfoOf
<1>5. [ok |-> TRUE, infos |-> infos, links |-> qlinks, injected |-> DOMAIN qlinks # {}] = Expected
      BY <1>1, <1>3, <1>4 DEF Expected, ExpectedLink
<1>. QED BY <1>1, <1>2, <1>5 DEF Unfound

\* The final providers check returns the reference's outcome.
LEMMA FinishRInv ==
    ASSUME RInv, LInv', Finish
    PROVE  RInv'
<1>1. pc = "Missing" /\ found \subseteq missing
      BY DEF Finish, RInv, LInv, TypeOK
<1>2. /\ [ok |-> TRUE, infos |-> infos, links |-> qlinks,
          injected |-> DOMAIN qlinks # {}] = Expected
      /\ Unfound = missing \ found
      /\ \A q \in Served : ~PodsFail(q)
      BY <1>1, MissingFacts
<1>3. missing # {} =>
         /\ secrets \in Seq(SecretRec) /\ services \in Seq(ServiceRec)
         /\ SecretsOK(Len(secrets)) /\ ServicesOK(Len(services))
      BY <1>1, PodsFacts
<1>4. CASE missing \ found # {} /\ Fail([kind |-> "Missing", providers |-> missing \ found])
      BY <1>2, <1>3, <1>4, PodOutcomesAllowed, FailRInv
<1>5. CASE /\ missing \ found = {}
           /\ pc' = "Done"
           /\ result' = [ok |-> TRUE, infos |-> infos, links |-> qlinks,
                         injected |-> DOMAIN qlinks # {}]
           /\ UNCHANGED <<inputs, found, i, j, infos, qlinks, svcRecords, pending>>
      <2>1. Expected \in Reference
            <3>1. CASE missing = {}
                  BY <3>1 DEF Reference
            <3>2. CASE missing # {}
                  BY <1>2, <1>3, <1>5, <3>2, PodOutcomesAllowed
            <3>. QED BY <3>1, <3>2
      <2>2. Reference' = Reference
            BY <1>5, InputsFrame
      <2>3. ResolverMatchesReference'
            BY <1>2, <1>5, <2>1, <2>2 DEF ResolverMatchesReference
      <2>4. LinksFcn'
            BY <1>5 DEF RInv, LinksFcn
      <2>5. (EarlyPhase /\ ListsRead /\ SecretsPhase /\ SecretsDonePhase /\ ServicesPhase /\ PodsPhase)'
            BY <1>5 DEF EarlyPhase, ListsRead, SecretsPhase, SecretsDonePhase, ServicesPhase, PodsPhase
      <2>. QED BY <2>3, <2>4, <2>5 DEF RInv
<1>. QED BY <1>4, <1>5 DEF Finish

\* A step that changes nothing.
LEMMA StutterRInv ==
    ASSUME RInv, LInv', UNCHANGED vars
    PROVE  RInv'
<1>1. /\ UNCHANGED inputs
      /\ UNCHANGED <<pc, found, i, j, infos, qlinks, svcRecords, pending, result>>
      BY DEF vars, inputs
<1>2. /\ Matches' = Matches /\ Matching' = Matching /\ Served' = Served
      /\ Reference' = Reference
      /\ \A z : ExpectedLink(z)' = ExpectedLink(z) /\ PodsFail(z)' = PodsFail(z)
      /\ \A m : SecretsOK(m)' = SecretsOK(m)
      /\ \A m : ServicesOK(m)' = ServicesOK(m)
      /\ \A m : ProvidesOf(m)' = ProvidesOf(m)
      /\ \A m : MatchedBefore(m)' = MatchedBefore(m)
      BY <1>1, InputsFrame
<1>3. (LinksFcn /\ EarlyPhase /\ ListsRead)'
      BY <1>1 DEF RInv, LinksFcn, EarlyPhase, ListsRead, inputs
<1>4. (SecretsPhase /\ SecretsDonePhase)'
      BY <1>1, <1>2 DEF RInv, SecretsPhase, SecretsDonePhase, inputs
<1>5. (ServicesPhase /\ PodsPhase)'
      BY <1>1, <1>2 DEF RInv, ServicesPhase, PodsPhase, inputs
<1>6. ResolverMatchesReference'
      BY <1>1, <1>2 DEF RInv, ResolverMatchesReference
<1>. QED BY <1>3, <1>4, <1>5, <1>6 DEF RInv

\* RInv is inductive.
LEMMA NextRInv ==
    ASSUME RInv, [Next]_vars
    PROVE  RInv'
<1>1. LInv'
      BY NextLInv DEF RInv
<1>. QED BY <1>1, StartRInv, ListSecretsRInv, ListServicesRInv, SecretStepRInv,
            SecretsDoneRInv, ServiceStepRInv, ServicesDoneRInv, PodStepRInv,
            PodsDoneRInv, FinishRInv, StutterRInv DEF Next

\* RInv holds when the call starts.
LEMMA InitRInv == Init => RInv
<1> SUFFICES ASSUME Init PROVE RInv
    OBVIOUS
<1>1. LInv
      BY InitLInv
<1>2. LinksFcn /\ EarlyPhase
      BY DEF Init, LinksFcn, EarlyPhase
<1>3. ListsRead /\ SecretsPhase /\ SecretsDonePhase /\ ServicesPhase /\ PodsPhase
      /\ ResolverMatchesReference
      BY DEF Init, ListsRead, SecretsPhase, SecretsDonePhase, ServicesPhase, PodsPhase,
         ResolverMatchesReference
<1>. QED BY <1>1, <1>2, <1>3 DEF RInv

-----------------------------------------------------------------------------
\* listLinkInfos returns exactly what the whole-listing reference allows, for
\* every listing of secrets, services and pods and every set of missing
\* providers: the first malformed or duplicate secret in listing order, else
\* the first duplicate service, else a pod error of a served link, else all
\* unfound providers together, else the expected infos and quarks links.
THEOREM ReferenceHolds == Spec => []ResolverMatchesReference
<1>1. Init => RInv
      BY InitRInv
<1>2. RInv /\ [Next]_vars => RInv'
      BY NextRInv
<1>3. RInv => ResolverMatchesReference
      BY DEF RInv
<1>. QED BY <1>1, <1>2, <1>3, PTL DEF Spec
====
