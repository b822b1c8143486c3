----------------------------- MODULE AuditTrail -----------------------------
(***************************************************************************)
(* The contract and the audit bridge that follows it (safeguard-audit,     *)
(* another repository, as docs/events.md and docs/storage.md use it): the  *)
(* events published travel in order, any of them may be missed, and the    *)
(* bridge holds its count of configuration events against config_version().*)
(***************************************************************************)
EXTENDS ComplianceHooks

CONSTANT
  MaxInFlight   \* bound on the events published and not yet delivered

ASSUME AuditAssumption == MaxInFlight \in Nat \ {0}

VARIABLES
  wire,     \* events published, neither delivered nor missed, in order
  view,     \* what the bridge believes of the contract
  missed    \* history: the types of the events that were missed

auditVars == <<wire, view, missed>>

EventTypes == {event.type : event \in Events}

AuditTypeOK ==
  /\ TypeOK
  /\ wire \in Seq(Events) /\ Len(wire) <= MaxInFlight
  /\ view \in [admin : Signers \cup {None}, config : Configs \cup {None},
               configChanges : 0 .. MaxU32, scope : SUBSET Tokens,
               frozen : SUBSET (Tokens \X Accounts)]
  /\ missed \subseteq EventTypes

\* Mutant: the storage helper and the entry point both publish the event.
Published_Twice(event) ==
  IF event = None THEN wire ELSE wire \o <<event, event>>

\* A committed transaction publishes its event, if it has one; a failed one
\* publishes nothing.
Published(event) == IF event = None THEN wire ELSE Append(wire, event)

\* Administration only: a hook changes and publishes nothing (HookStep).
Transacts ==
  /\ Len(wire) < MaxInFlight
  /\ AdminNext
  /\ wire' = Published(tx'.event)
  /\ UNCHANGED <<upgraded, view, missed>>

\* The bridge indexes the next event.
Delivers ==
  /\ wire # <<>>
  /\ view' = Apply(view, Head(wire))
  /\ wire' = Tail(wire)
  /\ UNCHANGED <<vars, missed>>

\* An outage of the bridge, or of whom it asks: an event is never seen.
Misses ==
  \E i \in DOMAIN wire :
    /\ missed' = missed \cup {wire[i].type}
    /\ wire' = [j \in 1 .. Len(wire) - 1 |-> IF j < i THEN wire[j] ELSE wire[j + 1]]
    /\ UNCHANGED <<vars, view>>

\* The bridge is up to date when it starts to follow.
AuditInit ==
  /\ Init
  /\ wire = <<>>
  /\ view = AuditView
  /\ missed = {}

AuditNext == Transacts \/ Delivers \/ Misses

AuditSpec == AuditInit /\ [][AuditNext]_<<vars, auditVars>>

-----------------------------------------------------------------------------
(* Properties. *)

(***************************************************************************)
(* A bridge that saw every event believes what is on the ledger, however   *)
(* long it lagged behind: what events.md promises the evidence to be.      *)
(***************************************************************************)
CaughtUpIsRight == wire = <<>> /\ missed = {} => view = AuditView

(***************************************************************************)
(* The version shows every gap and no other: as long as the bridge has     *)
(* counted as many configuration events as config_version() says, the      *)
(* configuration it believes in is the one in force and it missed no       *)
(* change of it, whatever other events it missed or waits for; and when    *)
(* everything published has arrived, a difference is a change it missed.   *)
(***************************************************************************)
VersionShowsGaps ==
  IF view.configChanges = configVersion
  THEN view.config = config /\ "ComplianceConfigChanged" \notin missed
  ELSE wire = <<>> => "ComplianceConfigChanged" \in missed
=============================================================================
