CONSTANTS
    p1 = p1
    p2 = p2
    s1 = s1
    s2 = s2
    v1 = v1
    v2 = v2
    Malformed = Malformed
    NoProvider = NoProvider
    NoService = NoService
    Providers <- MCProviders
    SecretNames <- MCSecretNames
    ServiceNames <- MCServiceNames
    PodLists <- MCPodLists
    MaxList <- MCMaxList
SPECIFICATION Spec
\* listLinkInfos returns: a finished call has no further step.
CHECK_DEADLOCK FALSE
INVARIANTS
    TypeOK
    ResolverMatchesReference
    LinkInfosSound
    LinksBackedByService
