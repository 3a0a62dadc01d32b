--------------------------- MODULE IssuancePolicy ---------------------------
(* What a registration authority promises those who rely on its            *)
(* certificates, without handlers, rows or retries: evidence is gathered,  *)
(* a certificate is issued only when the evidence gathered by then         *)
(* suffices for it, and neither is ever taken back or rewritten.  The      *)
(* approval workflow of the CA and the orders of the ACME server are two   *)
(* implementations, each with its own kind of evidence.                    *)

CONSTANT Suffices(_, _)     \* whether a set of evidence suffices for an issuance

VARIABLES
    evidence,   \* what has been established
    issuances   \* the certificates, with what they were issued for

policyVars == <<evidence, issuances>>

PolicyInit == evidence = {} /\ issuances = {}

Gather ==
    /\ \E e \in evidence' : evidence' = evidence \union {e}
    /\ UNCHANGED issuances

Certify ==
    /\ \E x \in issuances' : Suffices(evidence, x) /\ issuances' = issuances \union {x}
    /\ UNCHANGED evidence

PolicyNext == Gather \/ Certify

PolicySpec == PolicyInit /\ [][PolicyNext]_policyVars
=============================================================================
