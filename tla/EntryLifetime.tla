--------------------------- MODULE EntryLifetime ---------------------------
(***************************************************************************)
(* The contract with the lifetimes of its persistent entries: bindings and *)
(* freeze flags (touch in crates/storage).  Ledgers pass; an entry whose   *)
(* lifetime is over is archived by the host, and no transaction reads it   *)
(* before somebody restores it.  Reading an entry renews it, but a         *)
(* transaction that fails keeps nothing, the renewal included.             *)
(***************************************************************************)
EXTENDS ComplianceHooks

CONSTANTS
  Threshold,   \* TTL_THRESHOLD: an entry is renewed at or below it
  ExtendTo,    \* TTL_EXTEND_TO: the lifetime it is renewed to
  MinTtl       \* the host: the lifetime of an entry created or restored

ASSUME LifetimeAssumption ==
  /\ Threshold \in Nat \ {0} /\ ExtendTo \in Nat /\ MinTtl \in Nat
  /\ Threshold < ExtendTo
  /\ Threshold < MinTtl
  /\ None \notin Accounts

VARIABLES
  life,     \* ledgers an entry has left, 0 when it is absent or archived
  idle,     \* history: ledgers since a committed transaction read the entry
  unread,   \* history: ledgers since any transaction read it, failed ones too
  by        \* history: what the last step was

lifetimes == <<life, idle, unread, by>>

\* storage/keys.rs: TokenBinding(token) and Freeze(token, account).
BindingKey(token) == <<token, None>>
FreezeKey(token, account) == <<token, account>>

Keys == Tokens \X (Accounts \cup {None})

Present(key) ==
  IF key[2] = None THEN IsTokenBound(key[1]) ELSE IsFrozen(key[1], key[2])

Longest == IF ExtendTo < MinTtl THEN MinTtl ELSE ExtendTo

\* The history counters stop above the threshold.
LongAgo == Threshold + 1

LifetimeTypeOK ==
  /\ life \in [Keys -> 0 .. Longest]
  /\ idle \in [Keys -> 0 .. LongAgo]
  /\ unread \in [Keys -> 0 .. LongAgo]
  /\ by \in {"none", "administration", "hook", "view", "ledger", "restoration"}

-----------------------------------------------------------------------------
(* What a transaction does to the lifetimes. *)

\* Mutant: the extension asked for is longer than the constant.
Renewed_Beyond(ledgers) ==
  IF ledgers <= Threshold THEN ExtendTo + Threshold ELSE ledgers

\* The host extends a lifetime at or below the threshold, and no other.
Renewed(ledgers) == IF ledgers <= Threshold THEN ExtendTo ELSE ledgers

\* Mutant: reading a binding does not renew it.
Touched_FlagsOnly(read) == {key \in read : key[2] # None}

\* Both helpers that read a persistent entry touch it.
Touched(read) == read

\* What a transaction leaves an entry that stays: its renewal, if it commits.
Kept(key, read, committed) ==
  IF committed /\ key \in Touched(read) THEN Renewed(life[key]) ELSE life[key]

\* An entry written anew starts over, one written again keeps its lifetime.
Settles(read, committed) ==
  /\ life' = [key \in Keys |->
       IF ~ Present(key)' THEN 0
       ELSE IF Present(key) THEN Kept(key, read, committed) ELSE MinTtl]
  /\ idle' = [key \in Keys |-> IF committed /\ key \in read THEN 0 ELSE idle[key]]
  /\ unread' = [key \in Keys |-> IF key \in read THEN 0 ELSE unread[key]]

\* The host refuses a transaction that reads an archived entry.
NoneArchived(read) == \A key \in read : Present(key) => life[key] > 0

\* A transaction of the contract, with the keys it reads.
Sent(A, read, kind) ==
  /\ A
  /\ by' = kind
  /\ UNCHANGED upgraded
  /\ NoneArchived(read)
  /\ Settles(read, tx'.result = Allow)

\* The views of a binding and of a flag renew too, when sent as transactions.
Viewed(read) ==
  /\ NoneArchived(read)
  /\ UNCHANGED vars
  /\ by' = "view"
  /\ Settles(read, TRUE)

\* bind_token and unbind_token read the binding, once the admin has signed.
BindingReads(signer, token) ==
  IF AdminGate(signer) = Allow THEN {BindingKey(token)} ELSE {}

\* The scope gate reads the binding, the call itself the flag.
FreezeReads(signer, token, account) ==
  CASE AdminGate(signer) # Allow \/ config = None -> {}
    [] AdminGate(signer) = Allow /\ config # None ->
         IF IsTokenBound(token) THEN {BindingKey(token), FreezeKey(token, account)}
                                ELSE {BindingKey(token)}

\* The parties of an operation who hold funds.
Holders(op, parties) == {i \in DOMAIN parties : HoldsFunds(Parties(op)[i])}

\* A hook that allows has read the flag of every holder; one that a freeze
\* stops has read, of the flags there are, the first holder's who has one.
FlagsReached(op, token, parties) ==
  {i \in Holders(op, parties) :
     \/ tx'.result = Allow
     \/ /\ tx'.result = "account_frozen"
        /\ IsFrozen(token, parties[i])
        /\ \A j \in Holders(op, parties) : IsFrozen(token, parties[j]) => i <= j}

\* The binding comes first, once there is a configuration.
HookReads(op, token, parties) ==
  IF config = None
  THEN {}
  ELSE {BindingKey(token)}
         \cup {FreezeKey(token, parties[i]) : i \in FlagsReached(op, token, parties)}

-----------------------------------------------------------------------------
(* The ledger. *)

CountUp(counter) == IF counter < LongAgo THEN counter + 1 ELSE LongAgo

\* A ledger closes.
Tick ==
  /\ life' = [key \in Keys |-> IF life[key] = 0 THEN 0 ELSE life[key] - 1]
  /\ idle' = [key \in Keys |-> CountUp(idle[key])]
  /\ unread' = [key \in Keys |-> CountUp(unread[key])]
  /\ by' = "ledger"
  /\ UNCHANGED vars

\* Anybody may pay for the restoration of an archived entry.
Restore(key) ==
  /\ Present(key)
  /\ life[key] = 0
  /\ life' = [life EXCEPT ![key] = MinTtl]
  /\ by' = "restoration"
  /\ UNCHANGED <<vars, idle, unread>>

Administers(A, read) == Sent(A, read, "administration")

Administration ==
  \E signer \in Signers :
    \/ \E a \in Signers : Administers(Initialize(signer, a), {})
    \/ \E p \in Policies \cup {None}, b \in BOOLEAN :
         Administers(SetConfig(signer, p, b), {})
    \/ \E t \in Tokens :
         \/ \E s \in Sacs \cup {None} :
              Administers(BindToken(signer, t, s), BindingReads(signer, t))
         \/ Administers(UnbindToken(signer, t), BindingReads(signer, t))
         \/ \E a \in Accounts :
              \/ Administers(Freeze(signer, t, a), FreezeReads(signer, t, a))
              \/ Administers(Unfreeze(signer, t, a), FreezeReads(signer, t, a))

\* The parties of a hook are given the same answers: they decide which flag is
\* reached, and no lifetime otherwise.
Same(answer, n) == [i \in 1 .. n |-> answer]

Screens(A, op, token, parties) == Sent(A, HookReads(op, token, parties), "hook")

Hooks ==
  \E t \in Tokens, x \in Accounts, p, s \in Answers :
    \/ Screens(BeforeRegister(t, x, Same(p, 1), Same(s, 1)), "register", t, <<x>>)
    \/ Screens(BeforeMerge(t, x, Same(p, 1), Same(s, 1)), "merge", t, <<x>>)
    \/ Screens(BeforeWithdraw(t, x, Same(p, 2), Same(s, 2)), "withdraw", t, <<x, x>>)
    \/ \E y \in Accounts :
         \/ Screens(BeforeDeposit(t, x, y, Same(p, 2), Same(s, 2)), "deposit", t, <<x, y>>)
         \/ Screens(BeforeTransfer(t, x, y, Same(p, 2), Same(s, 2)), "transfer", t, <<x, y>>)
         \/ \E z \in Accounts :
              Screens(BeforeTransferFrom(t, z, x, y, Same(p, 3), Same(s, 3)),
                      "transfer_from", t, <<z, x, y>>)

Views ==
  \E t \in Tokens :
    \/ Viewed({BindingKey(t)})
    \/ \E a \in Accounts : Viewed({FreezeKey(t, a)})

\* The entries of an upgraded contract may be of any age, or archived.
LifetimeInit ==
  /\ Init
  /\ life \in [Keys -> 0 .. MinTtl]
  /\ \A key \in Keys : ~ Present(key) => life[key] = 0
  /\ idle = [key \in Keys |-> LongAgo]
  /\ unread = [key \in Keys |-> LongAgo]
  /\ by = "none"

LifetimeNext ==
  Administration \/ Hooks \/ Views \/ Tick \/ (\E key \in Keys : Restore(key))

LifetimeSpec == LifetimeInit /\ [][LifetimeNext]_<<vars, lifetimes>>

-----------------------------------------------------------------------------
(* Properties. *)

(***************************************************************************)
(* An entry that a committed transaction reads at least once in every      *)
(* Threshold ledgers is never archived: the renewal reaches from one       *)
(* reading to the next, and every path that reads renews.                  *)
(***************************************************************************)
ReadEntriesStayLive ==
  \A key \in Keys : Present(key) /\ idle[key] <= Threshold => life[key] > 0

(***************************************************************************)
(* The traffic of a token renews no freeze flag, however busy the account: *)
(* the hook that reads a flag is refused by it, and takes its renewal      *)
(* back.  Only freeze, unfreeze, the view and a restoration renew one.     *)
(***************************************************************************)
HooksRenewNoFlag ==
  [][by' = "hook" => \A t \in Tokens, a \in Accounts :
                       life'[FreezeKey(t, a)] = life[FreezeKey(t, a)]]_<<vars, lifetimes>>
=============================================================================
