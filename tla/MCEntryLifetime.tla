-------------------------- MODULE MCEntryLifetime --------------------------
(***************************************************************************)
(* EntryLifetime on small sets, for TLC, and a statement of the source     *)
(* about it that does not hold.                                            *)
(***************************************************************************)
EXTENDS EntryLifetime

CONSTANTS op, t1, a1, a2, p1

\* What no action reads is not told apart.
LifetimeView == <<store, life, idle>>

ClaimView == <<store, life, unread>>

(***************************************************************************)
(* crates/storage/src/lib.rs:62: "Extends the TTL of a persistent entry    *)
(* when it is read, so long-lived entries (e.g. freeze flags) are kept     *)
(* alive by the traffic that touches them": a flag that some transaction   *)
(* read within Threshold ledgers is live.                                  *)
(***************************************************************************)
TrafficKeepsFlagsAlive ==
  \A t \in Tokens, a \in Accounts :
    IsFrozen(t, a) /\ unread[FreezeKey(t, a)] <= Threshold => life[FreezeKey(t, a)] > 0
=============================================================================
