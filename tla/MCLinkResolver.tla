--------------------------- MODULE MCLinkResolver ---------------------------
(* Instance of LinkResolver for TLC: two providers, two secrets and two    *)
(* services, so that duplicates, a missing provider next to a found one,   *)
(* and two links visited in either map order all occur.                    *)
EXTENDS LinkResolver

CONSTANTS p1, p2, s1, s2, v1, v2

MCProviders    == {p1, p2}
MCSecretNames  == {s1, s2}
MCServiceNames == {v1, v2}
MCPodLists     == {<<>>, <<TRUE>>, <<TRUE, TRUE>>, <<TRUE, FALSE>>}
\* Two records per List result: enough for a duplicate or a found and a
\* missing provider side by side.
MCMaxList      == 2
=============================================================================
