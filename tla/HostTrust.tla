------------------------------ MODULE HostTrust ------------------------------
(***************************************************************************)
(* The stored host keys and the commands that read and write them:         *)
(* probe_ssh_host, get_known_host and trust_host_fingerprint               *)
(* (src-tauri/src/terminal.rs) over the table host_fingerprints            *)
(* (crates/persistence/src/repository.rs).                                 *)
(*                                                                         *)
(* trust_host_fingerprint asks for the stored keys in one query, and then  *)
(* writes in a transaction that asks again; any number of calls may be at  *)
(* either point.  A key is an algorithm with its fingerprint; what a call  *)
(* changes in a row that is there, its times and its revision, is left out.*)
(***************************************************************************)
EXTENDS FiniteSets

CONSTANTS Hosts,  \* endpoints: a host and a port
          Keys,   \* host keys
          Calls,  \* calls of trust_host_fingerprint that may be under way
          None    \* no call

ASSUME HostTrustAssumption ==
    None \notin Hosts \union Keys \union Calls

VARIABLES stored,     \* the keys stored for each host
          serverKey,  \* the key each host presents
          call        \* the calls of trust_host_fingerprint under way

hostTrustVars == <<stored, serverKey, call>>

CallStage == {"check", "insert", "stored", "refused"}
Call == [host : Hosts, key : Keys, at : CallStage]

ASSUME NoCallAssumption == None \notin Call

HostTrustInit ==
    /\ stored \in [Hosts -> {{}} \union {{key} : key \in Keys}]
    /\ serverKey \in [Hosts -> Keys]
    /\ call = [c \in Calls |-> None]

\* Some key is stored for the host, and this one is not.
Mismatch(host, key) == stored[host] # {} /\ key \notin stored[host]

\* get_known_host answers with the key itself: the first of the stored ones.
KnownHost(host, key) == stored[host] = {key}

-----------------------------------------------------------------------------
TrustHostFingerprint(c, host, key) ==
    /\ call[c] = None
    /\ call' = [call EXCEPT ![c] = [host |-> host, key |-> key, at |-> "check"]]
    /\ UNCHANGED <<stored, serverKey>>

MovedOn(c, at) == [host |-> call[c].host, key |-> call[c].key, at |-> at]

\* The query of the command itself.
CheckStored(c) ==
    /\ call[c] # None /\ call[c].at = "check"
    /\ call' = [call EXCEPT ![c] = MovedOn(c, IF Mismatch(call[c].host, call[c].key)
                                              THEN "refused" ELSE "insert")]
    /\ UNCHANGED <<stored, serverKey>>

\* A variant that trusts the check before.
SaveFingerprint_NoCheck(c) ==
    /\ call[c] # None /\ call[c].at = "insert"
    /\ stored' = [stored EXCEPT ![call[c].host] = @ \union {call[c].key}]
    /\ call' = [call EXCEPT ![c] = MovedOn(c, "stored")]
    /\ UNCHANGED serverKey

\* The transaction: any other key for the host is a conflict.
SaveFingerprint(c) ==
    /\ call[c] # None /\ call[c].at = "insert"
    /\ IF \E key \in stored[call[c].host] : key # call[c].key
       THEN /\ call' = [call EXCEPT ![c] = MovedOn(c, "refused")]
            /\ UNCHANGED stored
       ELSE /\ call' = [call EXCEPT ![c] = MovedOn(c, "stored")]
            /\ stored' = [stored EXCEPT ![call[c].host] = @ \union {call[c].key}]
    /\ UNCHANGED serverKey

\* Either query may fail.
QueryFails(c) ==
    /\ call[c] # None /\ call[c].at \in {"check", "insert"}
    /\ call' = [call EXCEPT ![c] = MovedOn(c, "refused")]
    /\ UNCHANGED <<stored, serverKey>>

\* The caller has its answer.
CallReturns(c) ==
    /\ call[c] # None /\ call[c].at \in {"stored", "refused"}
    /\ call' = [call EXCEPT ![c] = None]
    /\ UNCHANGED <<stored, serverKey>>

\* A host is set up anew, or something else answers in its place.
ServerKeyChanges ==
    /\ \E host \in Hosts, key \in Keys : serverKey' = [serverKey EXCEPT ![host] = key]
    /\ UNCHANGED <<stored, call>>

HostTrustNext ==
    \/ \E c \in Calls :
          \/ \E host \in Hosts, key \in Keys : TrustHostFingerprint(c, host, key)
          \/ CheckStored(c) \/ SaveFingerprint(c) \/ QueryFails(c)
          \/ CallReturns(c)
    \/ ServerKeyChanges

HostTrustSpec == HostTrustInit /\ [][HostTrustNext]_hostTrustVars

-----------------------------------------------------------------------------
HostTrustTypeOK ==
    /\ stored \in [Hosts -> SUBSET Keys]
    /\ serverKey \in [Hosts -> Keys]
    /\ call \in [Calls -> Call \union {None}]

(***************************************************************************)
(* A host has one trusted key at most.  The table itself would allow one   *)
(* of each algorithm; what keeps the keys of two calls for one host apart, *)
(* however their queries interleave, is the check in the transaction.      *)
(***************************************************************************)
OneKeyPerHost ==
    \A host \in Hosts : \A key, other \in stored[host] : key = other

(***************************************************************************)
(* A stored key is never replaced, nor lost.                               *)
(***************************************************************************)
StoredIsKept == [][\A host \in Hosts : stored[host] \subseteq stored'[host]]_hostTrustVars
=============================================================================
