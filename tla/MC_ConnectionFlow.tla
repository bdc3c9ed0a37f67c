-------------------------- MODULE MC_ConnectionFlow --------------------------
EXTENDS ConnectionFlow, TLC

FlowSymmetry == Permutations(Hosts) \union Permutations(Keys) \union Permutations(Calls)

\* Two hosts present different keys.
HostsDiffer == \A host, other \in Hosts : host # other => serverKey[host] # serverKey[other]

\* What a user does who went on too early is followed until a session opens.
Patient == hasty => HostsDiffer /\ \A t \in Calls : open[t] = None
=============================================================================
