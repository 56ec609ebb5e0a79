----------------------------- MODULE Federation -----------------------------
(***************************************************************************)
(* federation.py: domains an administrator has approved, the               *)
(* advertisements their nodes publish, and the leases allocated from them. *)
(* The directory has no lock: it is used by one thread.  A lease is handed *)
(* out and not kept; it is kept here to say something of it.               *)
(***************************************************************************)
EXTENDS Optional, Naturals, FiniteSets

CONSTANTS
  Domain, CellNode, Ability,
  MaxFedNow,          \* bound: the clock stops here
  MaxFedLease,        \* bound: the longest lease asked for
  MaxGranted          \* bound: leases followed

ASSUME FederationAssumption == {MaxFedNow, MaxFedLease, MaxGranted} \subseteq Nat

Units == 1 .. 2

VARIABLES
  fedNow,
  allowed,      \* TrustDomainRegistry: the capabilities approved for a domain
  adverts,      \* FederatedCapabilityDirectory._advertisements
  granted,      \* the leases handed out
  grace         \* history: when the last advertisement accepted for an ability runs out

federationVars == <<fedNow, allowed, adverts, granted, grace>>

Horizon == 0 .. MaxFedNow + 1
Advert == [abilities : SUBSET Ability, units : Units, expires : Horizon]
FedLease == [domain : Domain, node : CellNode, ability : Ability, units : Units,
             expires : 0 .. MaxFedNow + MaxFedLease + 1]

FederationTypeOK ==
  /\ fedNow \in 0 .. MaxFedNow
  /\ allowed \in [Domain -> SUBSET Ability]
  /\ adverts \in [Domain \X CellNode -> Maybe(Advert)]
  /\ granted \subseteq FedLease /\ grace \in [Domain -> [Ability -> Horizon]]

FederationInit ==
  /\ fedNow = 0
  /\ allowed = [d \in Domain |-> {}]
  /\ adverts = [k \in Domain \X CellNode |-> None]
  /\ granted = {} /\ grace = [d \in Domain |-> [a \in Ability |-> 0]]

FedTick ==
  /\ fedNow < MaxFedNow
  /\ fedNow' = fedNow + 1
  /\ UNCHANGED <<allowed, adverts, granted, grace>>

\* approve of a domain, or again with other capabilities; a new root is refused.
\* Nothing published before is looked at again.
ApproveDomain(d, S) ==
  /\ S # {} /\ allowed[d] # S
  /\ allowed' = [allowed EXCEPT ![d] = S]
  /\ UNCHANGED <<fedNow, adverts, granted, grace>>

\* Mutant of Permitted: the registry is asked for the domain only.
PermittedDomain(d, S) == allowed[d] # {}

\* The registry's part of publish
Permitted(d, S) == allowed[d] # {} /\ S \subseteq allowed[d]

LaterOf(t, u) == IF t > u THEN t ELSE u

\* publish: a node's advertisement replaces the one before.
PublishAdvert(d, n, ad) ==
  /\ ad.abilities # {} /\ ad.expires > fedNow
  /\ Permitted(d, ad.abilities)
  /\ adverts' = [adverts EXCEPT ![<<d, n>>] = ad]
  /\ grace' = [grace EXCEPT ![d] = [a \in Ability |->
       IF a \in ad.abilities \cap allowed[d] THEN LaterOf(@[a], ad.expires) ELSE @[a]]]
  /\ UNCHANGED <<fedNow, allowed, granted>>

\* purge_expired
Purged == [k \in Domain \X CellNode |->
             IF adverts[k] # None /\ adverts[k].expires <= fedNow THEN None ELSE adverts[k]]

\* candidates with enough units; allocate takes one with the most.
CellCandidates(a, units) ==
  LET fit == {k \in Domain \X CellNode :
                Purged[k] # None /\ a \in Purged[k].abilities /\ Purged[k].units >= units}
  IN {k \in fit : \A l \in fit : Purged[k].units >= Purged[l].units}

\* allocate: the lease ends with the advertisement at the latest.
Allocate(a, units, seconds) ==
  /\ adverts' = Purged
  /\ \/ CellCandidates(a, units) = {} /\ UNCHANGED granted
     \/ \E k \in CellCandidates(a, units) :
          granted' = granted \cup
            {[domain |-> k[1], node |-> k[2], ability |-> a, units |-> units,
              expires |-> IF Purged[k].expires < fedNow + seconds
                            THEN Purged[k].expires ELSE fedNow + seconds]}
  /\ Cardinality(granted') <= MaxGranted
  /\ <<adverts, granted>>' # <<adverts, granted>>
  /\ UNCHANGED <<fedNow, allowed, grace>>

FederationNext ==
  \/ FedTick
  \/ \E d \in Domain :
       \/ \E S \in SUBSET Ability : ApproveDomain(d, S)
       \/ \E n \in CellNode, ad \in Advert : PublishAdvert(d, n, ad)
  \/ \E a \in Ability, units \in Units, seconds \in 1 .. MaxFedLease : Allocate(a, units, seconds)

FederationSpec == FederationInit /\ [][FederationNext]_federationVars

-----------------------------------------------------------------------------
(* Properties *)

\* Taking a capability from a domain does not withdraw what its nodes have
\* advertised, but the effect is bounded: no lease on it outlives the last
\* advertisement accepted while the domain still had it.
NarrowingTakesEffect ==
  \A l \in granted : l.ability \notin allowed[l.domain] => l.expires <= grace[l.domain][l.ability]
=============================================================================
