----------------------------- MODULE MCServices -----------------------------
(***************************************************************************)
(* What answers requests beside the CA, checked in one run: the ACME       *)
(* server, the sessions of the REST servers and of the web console, the    *)
(* lockout of accounts, enrolment tokens and trust anchors.  They share no *)
(* state here, and each behaviour is one of the service that service       *)
(* names, chosen at the start.                                             *)
(***************************************************************************)
EXTENDS AcmeOrder, MCSessions, Lockout, WebSession, EstTokens, Tamp

CONSTANTS www, addr

VARIABLE service

ServiceNames == {"acme", "sessions", "lockout", "web", "est", "tamp in", "tamp out"}

\* A wildcard name and an IP address.
MCKind == www :> "wild" @@ addr :> "ip"

\* Adding an anchor, re-adding one, changing one.
MCEdits ==
    {<<[op |-> "add", key |-> k]>> : k \in TampKeys}
    \union {<<[op |-> "change", key |-> k]>> : k \in TampKeys}
    \union {<<[op |-> "remove", key |-> k], [op |-> "add", key |-> k]>> : k \in TampKeys}

\* One set of values serves as validation tasks and as session calls, another
\* as finalizations and as sessions: a permutation acts on both services, of
\* which one is at rest.
ASSUME SharedValues == Tasks = Calls /\ Handlers = Sessions

ServicesSymmetry == Permutations(Tasks) \union Permutations(Handlers)

ServicesInit ==
    /\ service \in ServiceNames
    /\ AcmeInit /\ Init /\ LockoutInit /\ WebInit /\ EstInit /\ TampInit
    /\ service # "acme" => ca_client

\* The step of one service leaves the others alone.
ServicesNext ==
    /\ UNCHANGED service
    /\ \/ /\ service = "acme" /\ AcmeNext
          /\ UNCHANGED <<vars, lockoutVars, webVars, estVars, tampVars>>
       \/ /\ service = "sessions" /\ Next
          /\ UNCHANGED <<acmeVars, lockoutVars, webVars, estVars, tampVars>>
       \/ /\ service = "lockout" /\ LockoutNext
          /\ UNCHANGED <<acmeVars, vars, webVars, estVars, tampVars>>
       \/ /\ service = "web" /\ WebNext
          /\ UNCHANGED <<acmeVars, vars, lockoutVars, estVars, tampVars>>
       \/ /\ service = "est" /\ EstNext
          /\ UNCHANGED <<acmeVars, vars, lockoutVars, webVars, tampVars>>
       \/ /\ service = "tamp in" /\ TampInNext
          /\ UNCHANGED <<acmeVars, vars, lockoutVars, webVars, estVars>>
       \/ /\ service = "tamp out" /\ TampOutNext
          /\ UNCHANGED <<acmeVars, vars, lockoutVars, webVars, estVars>>

serviceVars == <<acmeVars, vars, lockoutVars, webVars, estVars, tampVars, service>>

ServicesSpec == ServicesInit /\ [][ServicesNext]_serviceVars
=============================================================================
