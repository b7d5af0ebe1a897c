---------------------------- MODULE OperationPolicy ----------------------------
(***************************************************************************)
(* OperationPolicy (sandbox/policy.py): the access lists and relationships  *)
(* the trusted host configures, and the decision permits takes on each      *)
(* request.  RealGovernor owns one and asks it before every operation.      *)
(***************************************************************************)
EXTENDS Integers, FiniteSets, Sequences

CONSTANTS
    Agent,         \* agent identities
    Capability,    \* capability labels
    ResourceName,  \* names an agent or the host may write in a request
    Canonical      \* those that valid_resource_name accepts

ASSUME PolicyAssumption ==
    /\ {"fs:read", "fs:write", "delegate"} \subseteq Capability
    /\ Canonical \subseteq ResourceName

VARIABLES
    resources,      \* _resources: operations allowed per <<agent, name>>; {} is no entry
    relationships   \* _relationships: two-element sets of agents

Operation == {"read", "write"}

(* A bug: any spelling of a name is accepted. *)
AnyResourceName(name) == TRUE

(* valid_resource_name. *)
ValidResourceName(name) == name \in Canonical

PolicyTypeOK ==
    /\ resources \in [Agent \X ResourceName -> SUBSET Operation]
    /\ relationships \subseteq SUBSET Agent

PolicyInit ==
    /\ resources = [p \in Agent \X ResourceName |-> {}]
    /\ relationships = {}

-------------------------------------------------------------------------------
(* A bug: one declared relationship, of whomever, will do. *)
UnrelatedUnlessAnyDeclared(agent, name) ==
    \E other \in Agent \ {agent} : resources[<<other, name>>] # {} /\ relationships = {}

(* Another agent has an entry for this name and is not related to this one. *)
UnrelatedSharer(agent, name) ==
    \E other \in Agent \ {agent} :
        resources[<<other, name>>] # {} /\ {other, agent} \notin relationships

AllowResource(agent, name, operations) ==
    /\ ValidResourceName(name)
    /\ operations # {}
    /\ ~UnrelatedSharer(agent, name)
    /\ resources' = [resources EXCEPT ![<<agent, name>>] = operations]
    /\ UNCHANGED relationships

DeclareRelationship(first, second) ==
    /\ first # second
    /\ relationships' = relationships \cup {{first, second}}
    /\ UNCHANGED resources

-------------------------------------------------------------------------------
(* permits, one operator per request kind that it decides on; a capability  *)
(* request and an exit are always permitted, a backing-state query never.   *)
FsCapability(operation) == IF operation = "read" THEN "fs:read" ELSE "fs:write"

PermitsAccess(agent, operation, name, held) ==
    /\ FsCapability(operation) \in held
    /\ operation \in resources[<<agent, name>>]

(* A bug: the receiver need not be related to the sender. *)
PermitsDelegationToAnyone(agent, to, authority, held) ==
    /\ "delegate" \in held
    /\ authority \subseteq held

PermitsDelegation(agent, to, authority, held) ==
    /\ "delegate" \in held
    /\ {agent, to} \in relationships
    /\ authority \subseteq held

PermitsQuery == FALSE
===============================================================================
