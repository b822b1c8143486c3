-------------------------- MODULE DeploymentRecord --------------------------
(***************************************************************************)
(* The deployment record of the operator CLI (cli/src/config.rs): what it  *)
(* says of a deployment, and how a command reads its tokens and its        *)
(* signing source out of it.  An absent option is None, and so is the Err  *)
(* of a lookup that finds nothing.                                         *)
(***************************************************************************)
EXTENDS Compliance

CONSTANTS
  Texts,         \* what may be typed after --token
  AddressLike    \* the texts that start with a C or a G

ASSUME TextsAssumption == AddressLike \subseteq Texts /\ None \notin Texts

\* A token as listed: its local name, its address and the SAC it wraps.
ListedTokens(Ids, Sacs) ==
  [alias : Texts, id : Ids, sac : Sacs \cup {None}]

(***************************************************************************)
(* The record.  `hooks' tells which contract it names, `identity' and      *)
(* `namesSecret' where the admin's signature comes from.  The network's    *)
(* name and endpoint are left out: no command chooses between two.         *)
(***************************************************************************)
Records(Hooks, Keys, Policies, Sacs, Ids) ==
  [hooks : Hooks, policy : Policies \cup {None}, sacPassthrough : BOOLEAN,
   admin : Keys, identity : Keys \cup {None}, namesSecret : BOOLEAN,
   tokens : Seq(ListedTokens(Ids, Sacs))]

Named(record, arg) == {i \in DOMAIN record.tokens : record.tokens[i].alias = arg}

\* The first token listed under a name.
TokenNamed(record, arg) ==
  record.tokens[CHOOSE i \in Named(record, arg) :
                  \A j \in Named(record, arg) : i <= j]

\* An alias stands for its token; any other text passes if it starts like an
\* address.
ResolveToken(record, arg) ==
  CASE Named(record, arg) # {} -> TokenNamed(record, arg).id
    [] Named(record, arg) = {} /\ arg \in AddressLike    -> arg
    [] Named(record, arg) = {} /\ arg \notin AddressLike -> None

\* Mutant: only a SAC typed on the command line counts.
SacFor_Unrecorded(record, arg) == None

\* The SAC is looked up by alias only.
SacFor(record, arg) ==
  IF Named(record, arg) = {} THEN None ELSE TokenNamed(record, arg).sac

\* --source, else the record's identity, else the secret in the environment
\* variable the record names (`secret' is None when it is unset or empty).
AdminSource(record, explicit, secret) ==
  CASE explicit # None -> explicit
    [] explicit = None /\ record.identity # None -> record.identity
    [] explicit = None /\ record.identity = None ->
         IF record.namesSecret THEN secret ELSE None
=============================================================================
