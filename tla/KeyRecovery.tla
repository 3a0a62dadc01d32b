----------------------------- MODULE KeyRecovery -----------------------------
(***************************************************************************)
(* Escrow and recovery of a private key (crates/ostrich-kra): escrow_key   *)
(* wraps it under a key-encryption key that is split among the agents and  *)
(* kept nowhere; initiate_recovery, submit_share and complete_recovery     *)
(* bring it back.  The KEK is one byte: the bytes are shared independently.*)
(***************************************************************************)
EXTENDS Shamir, FiniteSets

CONSTANTS
    KraAgents,      \* the share indices whose agents take part in a recovery
    NumShares,      \* num_agents of the escrow
    KekBytes,       \* KEKs that generate_kek may produce
    Coefficients,   \* random coefficients that split may draw
    MaxThreshold,   \* largest threshold of an escrow
    NoEscrow

ASSUME KraAssumption ==
    /\ NumShares \in 1..255
    /\ KraAgents \subseteq 1..NumShares
    /\ KekBytes \subseteq Byte
    /\ Coefficients \subseteq Byte
    /\ MaxThreshold \in 1..NumShares

VARIABLES
    escrow,         \* the row of escrowed_keys: the KEK it is wrapped under, the threshold
    kraShares,      \* the shares the agents hold
    session,        \* whether there is a recovery request
    shareRows,      \* the agents with a row in recovery_shares
    collected,      \* shares_collected, as submit_share answered last
    attempt         \* the last complete_recovery: the shares, the threshold, the answer

kraVars == <<escrow, kraShares, session, shareRows, collected, attempt>>

NoAttempt == [used |-> << >>, threshold |-> 0, answer |-> "none"]

KraInit ==
    /\ escrow = NoEscrow
    /\ kraShares = [a \in KraAgents |-> {}]
    /\ session = FALSE
    /\ shareRows = {}
    /\ collected = 0
    /\ attempt = NoAttempt

\* The shares are returned for distribution; the KEK is dropped.
EscrowKey(kek, threshold, coefs) ==
    /\ escrow = NoEscrow
    /\ threshold # 0 /\ threshold <= NumShares
    /\ Len(coefs) = threshold - 1
    /\ escrow' = [kek |-> kek, threshold |-> threshold]
    /\ kraShares' = [a \in KraAgents |-> split(kek, coefs, a)]
    /\ UNCHANGED <<session, shareRows, collected, attempt>>

\* The request is for 3 of 5 shares whatever the escrow's threshold is.
InitiateRecovery ==
    /\ escrow # NoEscrow
    /\ ~session
    /\ session' = TRUE
    /\ UNCHANGED <<escrow, kraShares, shareRows, collected, attempt>>

\* The row has no index and no submitted_at, which the count asks for.
SubmitShare(a) ==
    /\ session
    /\ a \notin shareRows        \* unique_agent_per_request
    /\ shareRows' = shareRows \union {a}
    /\ collected' = 0
    /\ UNCHANGED <<escrow, kraShares, session, attempt>>

\* Two points with one x make a denominator zero; no point at all is an index
\* out of bounds.
Panics(used, threshold) ==
    \/ threshold = 0
    \/ \E i, j \in 1..threshold : i # j /\ used[i] = used[j]

\* unwrap_key authenticates: another KEK does not open the wrapped key.
CompleteRecovery(used, threshold) ==
    /\ session
    /\ attempt = NoAttempt
    /\ attempt' = [used |-> used, threshold |-> threshold, answer |->
         CASE Len(used) < threshold -> "insufficient"
           [] Len(used) >= threshold /\ Panics(used, threshold) -> "panic"
           [] OTHER -> IF reconstruct([k \in DOMAIN used |-> <<used[k], kraShares[used[k]]>>],
                                      threshold) = escrow.kek
                       THEN "key" ELSE "unwrap failed"]
    /\ UNCHANGED <<escrow, kraShares, session, shareRows, collected>>

\* The next attempt of the caller.
NextAttempt ==
    /\ attempt # NoAttempt
    /\ attempt' = NoAttempt
    /\ UNCHANGED <<escrow, kraShares, session, shareRows, collected>>

SeqsUpTo(S, n) == UNION { [1..m -> S] : m \in 0..n }

KraNext ==
    \/ \E kek \in KekBytes, threshold \in 1..MaxThreshold :
          \E coefs \in [1..(threshold - 1) -> Coefficients] : EscrowKey(kek, threshold, coefs)
    \/ InitiateRecovery
    \/ \E a \in KraAgents : SubmitShare(a)
    \/ \E used \in SeqsUpTo(KraAgents, MaxThreshold), threshold \in 0..MaxThreshold :
          CompleteRecovery(used, threshold)
    \/ NextAttempt

KraSpec == KraInit /\ [][KraNext]_kraVars

-----------------------------------------------------------------------------
(* Properties.                                                             *)

\* Any threshold of distinct shares recovers the key, whichever agents present
\* them and in whatever order, up to the last index a u8 has (split,
\* reconstruct and the field arithmetic under them, in which gf_inv inverts each
\* of the 255 bytes that are not zero); and "any M-1 shares reveal no
\* information about the secret", checked for M = 2: every secret is possible
\* for each single share.
QuorumRecovers ==
    escrow # NoEscrow =>
      /\ FieldInverses
      /\ LET n == attempt.threshold
         IN  /\ attempt.answer # "none"
             /\ n = escrow.threshold /\ Len(attempt.used) >= n
             /\ Cardinality({ attempt.used[k] : k \in 1..n }) = n
             => attempt.answer = "key"
      /\ escrow.threshold = 2 /\ ~session =>
           \A a \in KraAgents, s \in KekBytes :
             \E c \in Byte : split(s, <<c>>, a) = kraShares[a]
=============================================================================
