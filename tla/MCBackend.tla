----------------------------- MODULE MCBackend -----------------------------
(***************************************************************************)
(* Model checking of four parts of the backend that share no state: the    *)
(* answers to prompts, the drafts the answers carry, friendships, and the  *)
(* chat of one connection.  One of them is chosen at the start and runs,   *)
(* the others stay as they are at their start.                             *)
(***************************************************************************)
EXTENDS AIInteraction, ActionDraft, Friends, RealtimeGateway, TLC

VARIABLE part   \* the part that runs

backendVars == <<part, vars, draftVars, friendVars, gatewayVars>>

BackendInit ==
  /\ part \in {"answers", "drafts", "friends", "gateway"}
  /\ Init /\ DraftInit /\ FriendsInit /\ GatewayInit
  /\ part # "drafts" => draft.status = "READY"

BackendNext ==
  /\ UNCHANGED part
  /\ \/ part = "answers" /\ Next /\ UNCHANGED <<draftVars, friendVars, gatewayVars>>
     \/ part = "drafts" /\ DraftNext /\ UNCHANGED <<vars, friendVars, gatewayVars>>
     \/ part = "friends" /\ FriendsNext /\ UNCHANGED <<vars, draftVars, gatewayVars>>
     \/ part = "gateway" /\ GatewayNext /\ UNCHANGED <<vars, draftVars, friendVars>>

BackendSpec == BackendInit /\ [][BackendNext]_backendVars

Symmetry == Permutations(Prompts)
=============================================================================
