------------------------ MODULE EntryLifetimeProofs -------------------------
(***************************************************************************)
(* Proofs about the lifetimes of the contract's entries, for every         *)
(* threshold, extension and lifetime of new entries that the assumptions   *)
(* of EntryLifetime allow.                                                 *)
(***************************************************************************)
EXTENDS EntryLifetime, ComplianceHooksProofs

(***************************************************************************)
(* The inductive invariant.  What an entry has left and the time since it  *)
(* was read add up to more than the threshold, as long as it was read      *)
(* within the threshold; and an entry that is absent has nothing left.     *)
(***************************************************************************)
EarnsItsLife ==
  \A key \in Keys :
    /\ Present(key) /\ idle[key] <= Threshold => life[key] + idle[key] > Threshold
    /\ ~ Present(key) => life[key] = 0

LifetimeInv == LifetimeTypeOK /\ EarnsItsLife

\* A presence is a question of the bindings and the freezes alone.
LEMMA SamePresence ==
  ASSUME UNCHANGED store, NEW key
  PROVE  Present(key)' <=> Present(key)
  BY DEF store, Present, IsTokenBound, IsFrozen

\* Renewed, a lifetime is above the threshold and within the longest.
LEMMA RenewedLasts ==
  ASSUME NEW ledgers \in 0 .. Longest
  PROVE  Renewed(ledgers) \in Threshold + 1 .. Longest
  BY LifetimeAssumption DEF Renewed, Longest

(***************************************************************************)
(* A transaction that settles, whatever it read and however it ended,      *)
(* keeps the invariant: an entry it renews is renewed past the threshold,  *)
(* a new one starts past it, and the others have not moved.                *)
(***************************************************************************)
LEMMA SettlingKeeps ==
  ASSUME LifetimeInv, NEW read, NEW committed \in BOOLEAN, Settles(read, committed),
         by' \in {"administration", "hook", "view"}
  PROVE  LifetimeInv'
<1>1. \A key \in Keys :
        /\ ~ Present(key)' => life'[key] = 0
        /\ Present(key)' /\ ~ Present(key) => life'[key] = MinTtl
        /\ Present(key)' /\ Present(key) => life'[key] = Kept(key, read, committed)
  BY DEF Settles
<1>2. \A key \in Keys :
        /\ idle'[key] = IF committed /\ key \in read THEN 0 ELSE idle[key]
        /\ unread'[key] = IF key \in read THEN 0 ELSE unread[key]
  BY DEF Settles
<1>3. \A key \in Keys : life[key] \in 0 .. Longest /\ idle[key] \in 0 .. LongAgo
  BY DEF LifetimeInv, LifetimeTypeOK
<1>4. ASSUME NEW key \in Keys
      PROVE  /\ life'[key] \in 0 .. Longest
             /\ Present(key)' /\ idle'[key] <= Threshold =>
                  life'[key] + idle'[key] > Threshold
             /\ ~ Present(key)' => life'[key] = 0
  <2>1. MinTtl \in Threshold + 1 .. Longest
    BY LifetimeAssumption DEF Longest
  <2>2. Renewed(life[key]) \in Threshold + 1 .. Longest
    BY <1>3, RenewedLasts
  <2>3. idle'[key] \in 0 .. LongAgo
    BY <1>2, <1>3, LifetimeAssumption DEF LongAgo
  <2>4. CASE ~ Present(key)'
    BY <1>1, <2>4, LifetimeAssumption DEF Longest
  <2>5. CASE Present(key)' /\ ~ Present(key)
    <3>1. life'[key] = MinTtl
      BY <1>1, <2>5
    <3> QED  BY <2>1, <2>3, <2>5, <3>1, LifetimeAssumption DEF LongAgo
  <2>6. CASE Present(key)' /\ Present(key)
    <3>1. CASE committed /\ key \in read
      <4>1. life'[key] = Renewed(life[key])
        BY <1>1, <2>6, <3>1 DEF Kept, Touched
      <4> QED  BY <2>2, <2>3, <2>6, <4>1, LifetimeAssumption DEF LongAgo
    <3>2. CASE ~ (committed /\ key \in read)
      <4>1. life'[key] = life[key] /\ idle'[key] = idle[key]
        BY <1>1, <1>2, <2>6, <3>2 DEF Kept, Touched
      <4> QED  BY <1>3, <2>6, <4>1 DEF LifetimeInv, EarnsItsLife
    <3> QED  BY <3>1, <3>2
  <2> QED  BY <2>4, <2>5, <2>6
<1>5. LifetimeTypeOK'
  <2>1. life' \in [Keys -> 0 .. Longest]
    BY <1>4 DEF Settles
  <2>2. idle' \in [Keys -> 0 .. LongAgo] /\ unread' \in [Keys -> 0 .. LongAgo]
    BY LifetimeAssumption DEF Settles, LifetimeInv, LifetimeTypeOK, LongAgo
  <2> QED  BY <2>1, <2>2 DEF LifetimeTypeOK, Longest, LongAgo
<1>6. EarnsItsLife'
  BY <1>4 DEF EarnsItsLife
<1> QED  BY <1>5, <1>6 DEF LifetimeInv

\* However a transaction comes about, it settles what it read.
Settled(kind) ==
  /\ \E read : Settles(read, tx'.result = Allow)
  /\ by' = kind
  /\ UNCHANGED upgraded

LEMMA AdministrationSettles ==
  ASSUME Administration
  PROVE  Settled("administration")
  BY Zenon DEF Administration, Administers, Sent, Settled

LEMMA HooksSettle ==
  ASSUME Hooks
  PROVE  Settled("hook")
<1>1. PICK t \in Tokens, x \in Accounts, p \in Answers, s \in Answers :
    \/ Screens(BeforeRegister(t, x, Same(p, 1), Same(s, 1)), "register", t, <<x>>)
    \/ Screens(BeforeMerge(t, x, Same(p, 1), Same(s, 1)), "merge", t, <<x>>)
    \/ Screens(BeforeWithdraw(t, x, Same(p, 2), Same(s, 2)), "withdraw", t, <<x, x>>)
    \/ \E y \in Accounts :
         \/ Screens(BeforeDeposit(t, x, y, Same(p, 2), Same(s, 2)), "deposit", t, <<x, y>>)
         \/ Screens(BeforeTransfer(t, x, y, Same(p, 2), Same(s, 2)), "transfer", t, <<x, y>>)
         \/ \E z \in Accounts :
              Screens(BeforeTransferFrom(t, z, x, y, Same(p, 3), Same(s, 3)),
                      "transfer_from", t, <<z, x, y>>)
  BY Zenon DEF Hooks
<1> QED  BY <1>1, Zenon DEF Screens, Sent, Settled

\* A view settles as a transaction that commits.
LEMMA ViewsSettle ==
  ASSUME Views
  PROVE  (\E read : Settles(read, TRUE)) /\ by' = "view"
  BY Zenon DEF Views, Viewed

\* A ledger that closes takes from the life of an entry what it adds to its
\* idleness.
LEMMA TickKeeps ==
  ASSUME LifetimeInv, Tick
  PROVE  LifetimeInv'
<1>1. UNCHANGED store
  BY DEF Tick, vars
<1>2. \A key \in Keys :
        /\ life[key] \in 0 .. Longest
        /\ idle[key] \in 0 .. LongAgo
        /\ unread[key] \in 0 .. LongAgo
  BY DEF LifetimeInv, LifetimeTypeOK
<1>3. \A key \in Keys :
        /\ life'[key] = IF life[key] = 0 THEN 0 ELSE life[key] - 1
        /\ idle'[key] = CountUp(idle[key])
        /\ unread'[key] = CountUp(unread[key])
  BY DEF Tick
<1>4. \A counter \in 0 .. LongAgo :
        /\ CountUp(counter) \in 0 .. LongAgo
        /\ CountUp(counter) <= Threshold => CountUp(counter) = counter + 1
  BY LifetimeAssumption DEF CountUp, LongAgo
<1>5. ASSUME NEW key \in Keys
      PROVE  /\ life'[key] \in 0 .. Longest
             /\ idle'[key] \in 0 .. LongAgo
             /\ unread'[key] \in 0 .. LongAgo
             /\ Present(key)' /\ idle'[key] <= Threshold =>
                  life'[key] + idle'[key] > Threshold
             /\ ~ Present(key)' => life'[key] = 0
  <2>1. Present(key)' <=> Present(key)
    BY <1>1, SamePresence
  <2>2. /\ Present(key) /\ idle[key] <= Threshold => life[key] + idle[key] > Threshold
        /\ ~ Present(key) => life[key] = 0
    BY DEF LifetimeInv, EarnsItsLife
  <2>3. /\ life'[key] \in 0 .. Longest
        /\ idle'[key] \in 0 .. LongAgo
        /\ unread'[key] \in 0 .. LongAgo
    BY <1>2, <1>3, <1>4, LifetimeAssumption DEF Longest
  <2>4. ASSUME Present(key)', idle'[key] <= Threshold
        PROVE  life'[key] + idle'[key] > Threshold
    <3>1. idle'[key] = idle[key] + 1 /\ idle[key] < Threshold
      BY <1>2, <1>3, <1>4, <2>4, LifetimeAssumption DEF LongAgo
    <3>2. life[key] > 0 /\ life[key] + idle[key] > Threshold
      BY <1>2, <2>1, <2>2, <2>4, <3>1, LifetimeAssumption DEF LongAgo, Longest
    <3> QED  BY <1>2, <1>3, <3>1, <3>2, LifetimeAssumption DEF LongAgo, Longest
  <2>5. ~ Present(key)' => life'[key] = 0
    BY <1>3, <2>1, <2>2
  <2> QED  BY <2>3, <2>4, <2>5
<1>6. LifetimeTypeOK'
  <2>1. /\ life' \in [Keys -> 0 .. Longest]
        /\ idle' \in [Keys -> 0 .. LongAgo]
        /\ unread' \in [Keys -> 0 .. LongAgo]
    BY <1>5 DEF Tick
  <2> QED  BY <2>1 DEF LifetimeTypeOK, Longest, LongAgo, Tick
<1>7. EarnsItsLife'
  BY <1>5 DEF EarnsItsLife
<1> QED  BY <1>6, <1>7 DEF LifetimeInv

\* An entry restored starts past the threshold again.
LEMMA RestoreKeeps ==
  ASSUME LifetimeInv, NEW key \in Keys, Restore(key)
  PROVE  LifetimeInv'
<1>1. UNCHANGED <<store, idle, unread>>
  BY DEF Restore, vars
<1>2. MinTtl \in Threshold + 1 .. Longest
  BY LifetimeAssumption DEF Longest
<1>3. life' = [life EXCEPT ![key] = MinTtl]
  BY DEF Restore
<1>4. LifetimeTypeOK'
  <2>1. life' \in [Keys -> 0 .. Longest]
    BY <1>2, <1>3, LifetimeAssumption DEF LifetimeInv, LifetimeTypeOK
  <2> QED  BY <1>1, <2>1 DEF LifetimeInv, LifetimeTypeOK, Longest, LongAgo, Restore
<1>5. ASSUME NEW k \in Keys
      PROVE  /\ Present(k)' /\ idle'[k] <= Threshold => life'[k] + idle'[k] > Threshold
             /\ ~ Present(k)' => life'[k] = 0
  <2>1. Present(k)' <=> Present(k)
    BY <1>1, SamePresence
  <2>2. CASE k = key
    <3>1. life'[k] = MinTtl /\ idle'[k] \in 0 .. LongAgo
      BY <1>1, <1>3, <2>2 DEF LifetimeInv, LifetimeTypeOK
    <3>2. Present(k)
      BY <2>2 DEF Restore
    <3> QED  BY <1>2, <2>1, <3>1, <3>2, LifetimeAssumption DEF LongAgo
  <2>3. CASE k # key
    <3>1. life'[k] = life[k]
      BY <1>3, <2>3 DEF LifetimeInv, LifetimeTypeOK
    <3> QED  BY <1>1, <2>1, <3>1 DEF LifetimeInv, EarnsItsLife
  <2> QED  BY <2>2, <2>3
<1>6. EarnsItsLife'
  BY <1>5 DEF EarnsItsLife
<1> QED  BY <1>4, <1>6 DEF LifetimeInv

\* At the start nothing counts as read, and what is absent has nothing left.
LEMMA InitLifetimeInv ==
  ASSUME LifetimeInit
  PROVE  LifetimeInv
<1>1. life \in [Keys -> 0 .. Longest]
  BY LifetimeAssumption DEF LifetimeInit, Longest
<1>2. LongAgo \in 0 .. LongAgo /\ ~ LongAgo <= Threshold
  BY LifetimeAssumption DEF LongAgo
<1>3. LifetimeTypeOK
  BY <1>1, <1>2 DEF LifetimeInit, LifetimeTypeOK
<1>4. EarnsItsLife
  BY <1>2 DEF LifetimeInit, EarnsItsLife
<1> QED  BY <1>3, <1>4 DEF LifetimeInv

LEMMA StepLifetimeInv ==
  ASSUME LifetimeInv, [LifetimeNext]_<<vars, lifetimes>>
  PROVE  LifetimeInv'
<1>1. CASE UNCHANGED <<vars, lifetimes>>
  <2>1. \A key : Present(key)' <=> Present(key)
    BY <1>1, SamePresence DEF vars
  <2> QED  BY <1>1, <2>1 DEF LifetimeInv, LifetimeTypeOK, EarnsItsLife, lifetimes,
                          Longest, LongAgo
<1>2. CASE Administration
  <2>1. (tx'.result = Allow) \in BOOLEAN
    OBVIOUS
  <2> QED  BY <1>2, <2>1, AdministrationSettles, SettlingKeeps DEF Settled
<1>3. CASE Hooks
  <2>1. (tx'.result = Allow) \in BOOLEAN
    OBVIOUS
  <2> QED  BY <1>3, <2>1, HooksSettle, SettlingKeeps DEF Settled
<1>4. CASE Views
  BY <1>4, ViewsSettle, SettlingKeeps
<1>5. CASE Tick
  BY <1>5, TickKeeps
<1>6. CASE \E key \in Keys : Restore(key)
  BY <1>6, RestoreKeeps
<1> QED  BY <1>1, <1>2, <1>3, <1>4, <1>5, <1>6 DEF LifetimeNext

\* LifetimeTypeOK holds: every lifetime stays within the longest one.
THEOREM LifetimeTypeCorrect == LifetimeSpec => []LifetimeTypeOK
<1>1. LifetimeInv => LifetimeTypeOK
  BY DEF LifetimeInv
<1> QED  BY <1>1, InitLifetimeInv, StepLifetimeInv, PTL DEF LifetimeSpec

(***************************************************************************)
(* An entry that a committed transaction reads at least once in every      *)
(* Threshold ledgers is never archived, whatever the threshold, as long as *)
(* a renewal and a creation reach past it.                                 *)
(***************************************************************************)
THEOREM ReadingKeepsAlive == LifetimeSpec => []ReadEntriesStayLive
<1>1. LifetimeInv => ReadEntriesStayLive
  <2> SUFFICES ASSUME LifetimeInv, NEW key \in Keys,
                      Present(key), idle[key] <= Threshold
               PROVE  life[key] > 0
    BY DEF ReadEntriesStayLive
  <2>1. life[key] \in 0 .. Longest /\ idle[key] \in 0 .. LongAgo
    BY DEF LifetimeInv, LifetimeTypeOK
  <2>2. life[key] + idle[key] > Threshold
    BY DEF LifetimeInv, EarnsItsLife
  <2> QED  BY <2>1, <2>2, LifetimeAssumption DEF Longest, LongAgo
<1> QED  BY <1>1, InitLifetimeInv, StepLifetimeInv, PTL DEF LifetimeSpec

-----------------------------------------------------------------------------
(* Hooks and freeze flags. *)

\* A hook that is allowed has met no frozen fund-holder.
LEMMA AllowedHoldersAreFree ==
  ASSUME NEW op \in Operations, NEW token, NEW parties,
         DOMAIN parties = 1 .. Len(Parties(op)), Len(parties) = Len(Parties(op)),
         NEW pa, NEW sa,
         \A j \in DOMAIN parties : pa[j] \in Answers /\ sa[j] \in Answers,
         Enforce(op, token, parties, pa, sa), tx'.result = Allow,
         NEW i \in DOMAIN parties, HoldsFunds(Parties(op)[i]), parties[i] \in Accounts
  PROVE  ~ IsFrozen(token, parties[i])
<1> DEFINE frozenHere == {a \in Accounts : IsFrozen(token, a)}
<1>1. Evaluate(config, binding[token], frozenHere, op, parties, pa, sa) = Allow
  BY DEF Enforce, Leaves
<1>2. \A j \in DOMAIN parties :
        ScreenParty(config, binding[token].sac, Parties(op)[j],
                    parties[j] \in frozenHere, pa[j], sa[j]) = Allow
  <2> HIDE DEF frozenHere
  <2> QED  BY <1>1, EvaluateDecides
<1>3. ~ (HoldsFunds(Parties(op)[i]) /\ parties[i] \in frozenHere)
  <2> HIDE DEF frozenHere
  <2>1. ScreenParty(config, binding[token].sac, Parties(op)[i],
                    parties[i] \in frozenHere, pa[i], sa[i]) = Allow
    BY <1>2
  <2> QED  BY <2>1 DEF ScreenParty, AndThen, FreezeGate, Allow
<1> QED  BY <1>3

\* The lifetime of a flag outlasts a hook as it is.
SparesFlags ==
  \A t \in Tokens, a \in Accounts : life'[FreezeKey(t, a)] = life[FreezeKey(t, a)]

\* An entry that is not renewed, written or removed keeps its lifetime.
LEMMA SettlingSame ==
  ASSUME LifetimeInv, UNCHANGED store, NEW read, NEW committed, Settles(read, committed),
         NEW key \in Keys, Present(key) => ~ (committed /\ key \in read)
  PROVE  life'[key] = life[key]
<1>1. Present(key)' <=> Present(key)
  BY SamePresence
<1>2. /\ ~ Present(key)' => life'[key] = 0
      /\ Present(key)' /\ Present(key) => life'[key] = Kept(key, read, committed)
  BY DEF Settles
<1>3. ~ Present(key) => life[key] = 0
  BY DEF LifetimeInv, EarnsItsLife
<1>4. Present(key) => Kept(key, read, committed) = life[key]
  BY DEF Kept, Touched
<1> QED  BY <1>1, <1>2, <1>3, <1>4

\* A hook renews no flag: those it reads and renews are absent.
LEMMA EnforcingSparesFlags ==
  ASSUME LifetimeInv, NEW op \in Operations, NEW token, NEW parties,
         DOMAIN parties = 1 .. Len(Parties(op)), Len(parties) = Len(Parties(op)),
         \A j \in DOMAIN parties : parties[j] \in Accounts,
         NEW pa, NEW sa,
         \A j \in DOMAIN parties : pa[j] \in Answers /\ sa[j] \in Answers,
         Enforce(op, token, parties, pa, sa),
         Settles(HookReads(op, token, parties), tx'.result = Allow)
  PROVE  SparesFlags
<1> SUFFICES ASSUME NEW t \in Tokens, NEW a \in Accounts
             PROVE  life'[FreezeKey(t, a)] = life[FreezeKey(t, a)]
  BY DEF SparesFlags
<1> DEFINE key == FreezeKey(t, a)
           read == HookReads(op, token, parties)
<1>1. key \in Keys
  BY DEF FreezeKey, Keys
<1>2. UNCHANGED store
  BY DEF Enforce, Leaves
<1>3. ASSUME Present(key)
      PROVE  ~ (tx'.result = Allow /\ key \in read)
  <2> SUFFICES ASSUME tx'.result = Allow, key \in read
               PROVE  FALSE
    OBVIOUS
  <2>1. FlagsReached(op, token, parties) = Holders(op, parties)
    BY DEF FlagsReached
  <2>2. key # BindingKey(token)
    BY LifetimeAssumption DEF FreezeKey, BindingKey
  <2>3. PICK i \in DOMAIN parties :
          HoldsFunds(Parties(op)[i]) /\ key = FreezeKey(token, parties[i])
    <3>1. config # None
      BY Zenon DEF HookReads
    <3>2. key = BindingKey(token)
            \/ \E i \in FlagsReached(op, token, parties) : key = FreezeKey(token, parties[i])
      <4> HIDE DEF key
      <4> QED  BY <3>1 DEF HookReads
    <3> QED  BY <2>1, <2>2, <3>2 DEF Holders
  <2>4. ~ IsFrozen(token, parties[i])
    BY <2>3, AllowedHoldersAreFree
  <2>5. IsFrozen(token, parties[i])
    <3>1. t = token /\ a = parties[i] /\ a # None
      BY <2>3, LifetimeAssumption DEF FreezeKey
    <3> QED  BY <1>3, <3>1 DEF Present, FreezeKey
  <2> QED  BY <2>4, <2>5
<1> QED  BY <1>1, <1>2, <1>3, SettlingSame

\* Whichever hook runs, and however it ends, it renews no flag.
LEMMA HooksSpareFlags ==
  ASSUME LifetimeInv, Hooks
  PROVE  SparesFlags
<1>1. PICK t \in Tokens, x \in Accounts, p \in Answers, s \in Answers :
    \/ Screens(BeforeRegister(t, x, Same(p, 1), Same(s, 1)), "register", t, <<x>>)
    \/ Screens(BeforeMerge(t, x, Same(p, 1), Same(s, 1)), "merge", t, <<x>>)
    \/ Screens(BeforeWithdraw(t, x, Same(p, 2), Same(s, 2)), "withdraw", t, <<x, x>>)
    \/ \E y \in Accounts :
         \/ Screens(BeforeDeposit(t, x, y, Same(p, 2), Same(s, 2)), "deposit", t, <<x, y>>)
         \/ Screens(BeforeTransfer(t, x, y, Same(p, 2), Same(s, 2)), "transfer", t, <<x, y>>)
         \/ \E z \in Accounts :
              Screens(BeforeTransferFrom(t, z, x, y, Same(p, 3), Same(s, 3)),
                      "transfer_from", t, <<z, x, y>>)
  BY Zenon DEF Hooks
<1> DEFINE Run(op, parties, n) ==
             /\ Enforce(op, t, parties, Same(p, n), Same(s, n))
             /\ Settles(HookReads(op, t, parties), tx'.result = Allow)
<1>2. \/ Run("register", <<x>>, 1)
      \/ Run("merge", <<x>>, 1)
      \/ Run("withdraw", <<x, x>>, 2)
      \/ \E y \in Accounts :
           \/ Run("deposit", <<x, y>>, 2)
           \/ Run("transfer", <<x, y>>, 2)
           \/ \E z \in Accounts : Run("transfer_from", <<z, x, y>>, 3)
  BY <1>1, Zenon DEF Screens, Sent, BeforeRegister, BeforeMerge, BeforeWithdraw,
                     BeforeDeposit, BeforeTransfer, BeforeTransferFrom
<1>3. ASSUME NEW op \in Operations, NEW parties, NEW n,
             n = Len(Parties(op)), DOMAIN parties = 1 .. n, Len(parties) = n,
             \A j \in 1 .. n : parties[j] \in Accounts,
             Run(op, parties, n)
      PROVE  SparesFlags
  <2>1. \A j \in DOMAIN parties : Same(p, n)[j] \in Answers /\ Same(s, n)[j] \in Answers
    BY <1>3 DEF Same
  <2> QED  BY <1>3, <2>1, EnforcingSparesFlags
<1>4. /\ \A op \in {"register", "merge"} :
           op \in Operations /\ Parties(op) = <<"account">>
      /\ \A op \in {"deposit", "transfer", "withdraw"} :
           op \in Operations /\ Parties(op) = <<"from", "to">>
      /\ "transfer_from" \in Operations
      /\ Parties("transfer_from") = <<"spender", "from", "to">>
  BY DEF Operations, Parties
<1>5. \A u, v, w \in Accounts :
        /\ DOMAIN <<u>> = 1 .. 1 /\ \A j \in 1 .. 1 : <<u>>[j] \in Accounts
        /\ DOMAIN <<u, v>> = 1 .. 2 /\ \A j \in 1 .. 2 : <<u, v>>[j] \in Accounts
        /\ DOMAIN <<u, v, w>> = 1 .. 3 /\ \A j \in 1 .. 3 : <<u, v, w>>[j] \in Accounts
  OBVIOUS
<1> HIDE DEF Run
<1>6. ASSUME Run("register", <<x>>, 1) \/ Run("merge", <<x>>, 1)
      PROVE  SparesFlags
  <2>1. DOMAIN <<x>> = 1 .. 1 /\ \A j \in 1 .. 1 : <<x>>[j] \in Accounts
    BY <1>5
  <2>2. Len(<<x>>) = 1 /\ Len(<<"account">>) = 1
    OBVIOUS
  <2> QED  BY <1>3, <1>4, <1>6, <2>1, <2>2
<1>7. ASSUME NEW y \in Accounts,
             \/ Run("withdraw", <<x, x>>, 2)
             \/ Run("deposit", <<x, y>>, 2)
             \/ Run("transfer", <<x, y>>, 2)
      PROVE  SparesFlags
  <2>1. \A u \in {x, y} :
          /\ Len(<<x, u>>) = 2 /\ DOMAIN <<x, u>> = 1 .. 2
          /\ \A j \in 1 .. 2 : <<x, u>>[j] \in Accounts
    BY <1>5
  <2>2. Len(<<"from", "to">>) = 2
    OBVIOUS
  <2> QED  BY <1>3, <1>4, <1>7, <2>1, <2>2
<1>8. ASSUME NEW y \in Accounts, NEW z \in Accounts, Run("transfer_from", <<z, x, y>>, 3)
      PROVE  SparesFlags
  <2>1. /\ Len(<<z, x, y>>) = 3 /\ DOMAIN <<z, x, y>> = 1 .. 3
        /\ \A j \in 1 .. 3 : <<z, x, y>>[j] \in Accounts
    BY <1>5
  <2>2. Len(<<"spender", "from", "to">>) = 3
    OBVIOUS
  <2> QED  BY <1>3, <1>4, <1>8, <2>1, <2>2
<1> QED  BY <1>2, <1>6, <1>7, <1>8

(***************************************************************************)
(* No traffic keeps a freeze flag alive: whatever the sets of tokens,      *)
(* accounts and external contracts, no hook ever renews one.               *)
(***************************************************************************)
THEOREM HooksRenewNothingFrozen == LifetimeSpec => HooksRenewNoFlag
<1>1. ASSUME LifetimeInv, LifetimeNext, by' = "hook"
      PROVE  \A t \in Tokens, a \in Accounts :
               life'[FreezeKey(t, a)] = life[FreezeKey(t, a)]
  <2>1. ~ Administration /\ ~ Views /\ ~ Tick /\ ~ \E key \in Keys : Restore(key)
    BY <1>1, AdministrationSettles, ViewsSettle DEF Settled, Tick, Restore
  <2>2. SparesFlags
    BY <1>1, <2>1, HooksSpareFlags DEF LifetimeNext
  <2> QED  BY <2>2 DEF SparesFlags
<1>2. LifetimeInv /\ [LifetimeNext]_<<vars, lifetimes>> =>
        [by' = "hook" => \A t \in Tokens, a \in Accounts :
           life'[FreezeKey(t, a)] = life[FreezeKey(t, a)]]_<<vars, lifetimes>>
  BY <1>1
<1> QED  BY <1>2, InitLifetimeInv, StepLifetimeInv, PTL DEF LifetimeSpec, HooksRenewNoFlag
-----------------------------------------------------------------------------
(***************************************************************************)
(* Entries that age, are archived and restored only ever refuse the        *)
(* contract a transaction: those that run are transactions of the contract *)
(* alone, and what is proved of that holds here.                           *)
(***************************************************************************)
THEOREM AgeingOnlyRefuses == LifetimeSpec => Spec
<1>1. LifetimeInit => Init
  BY DEF LifetimeInit
<1>2. ASSUME Administration
      PROVE  AdminNext /\ UNCHANGED upgraded
  BY <1>2, Zenon DEF Administration, Administers, Sent, AdminNext
<1>3. ASSUME TypeOK, Hooks
      PROVE  HookNext /\ UNCHANGED upgraded
  <2>1. PICK t \in Tokens, x \in Accounts, p \in Answers, s \in Answers :
      \/ Screens(BeforeRegister(t, x, Same(p, 1), Same(s, 1)), "register", t, <<x>>)
      \/ Screens(BeforeMerge(t, x, Same(p, 1), Same(s, 1)), "merge", t, <<x>>)
      \/ Screens(BeforeWithdraw(t, x, Same(p, 2), Same(s, 2)), "withdraw", t, <<x, x>>)
      \/ \E y \in Accounts :
           \/ Screens(BeforeDeposit(t, x, y, Same(p, 2), Same(s, 2)), "deposit", t, <<x, y>>)
           \/ Screens(BeforeTransfer(t, x, y, Same(p, 2), Same(s, 2)), "transfer", t, <<x, y>>)
           \/ \E z \in Accounts :
                Screens(BeforeTransferFrom(t, z, x, y, Same(p, 3), Same(s, 3)),
                        "transfer_from", t, <<z, x, y>>)
    BY <1>3, Zenon DEF Hooks
  <2>2. PICK y \in Accounts, z \in Accounts :
      \/ BeforeRegister(t, x, Same(p, 1), Same(s, 1))
      \/ BeforeMerge(t, x, Same(p, 1), Same(s, 1))
      \/ BeforeWithdraw(t, x, Same(p, 2), Same(s, 2))
      \/ BeforeDeposit(t, x, y, Same(p, 2), Same(s, 2))
      \/ BeforeTransfer(t, x, y, Same(p, 2), Same(s, 2))
      \/ BeforeTransferFrom(t, z, x, y, Same(p, 3), Same(s, 3))
    BY <2>1, Zenon DEF Screens, Sent
  <2>3. \A n \in Nat : Same(p, n) \in [1 .. n -> Answers] /\ Same(s, n) \in [1 .. n -> Answers]
    BY DEF Same
  <2>4. /\ Same(p, 1) \in [1 .. 1 -> Answers] /\ Same(s, 1) \in [1 .. 1 -> Answers]
        /\ Same(p, 2) \in [1 .. 2 -> Answers] /\ Same(s, 2) \in [1 .. 2 -> Answers]
        /\ Same(p, 3) \in [1 .. 3 -> Answers] /\ Same(s, 3) \in [1 .. 3 -> Answers]
    BY <2>3
  <2>5. HookNext
    BY <1>3, <2>2, <2>4, AnyAnswersWillDo
  <2> QED  BY <1>3, <2>5, HooksSettle DEF Settled
<1>4. ASSUME TypeOK, [LifetimeNext]_<<vars, lifetimes>>
      PROVE  [Next]_vars
  <2>1. CASE Views \/ Tick \/ (\E key \in Keys : Restore(key))
    BY <2>1 DEF Views, Viewed, Tick, Restore
  <2> QED  BY <1>2, <1>3, <1>4, <2>1 DEF LifetimeNext, Next
<1>5. TypeOK /\ [LifetimeNext]_<<vars, lifetimes>> => TypeOK'
  BY <1>4, StepTypeOK
<1>6. Init => TypeOK
  BY InitTypeOK
<1> QED  BY <1>1, <1>4, <1>5, <1>6, PTL DEF LifetimeSpec, Spec
=============================================================================
