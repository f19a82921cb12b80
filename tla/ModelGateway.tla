---------------------------- MODULE ModelGateway ----------------------------
(***************************************************************************)
(* runtime/model_gateway.py: how one turn of the lead (loop.py) asks the   *)
(* provider.  Each call tries a request up to MaxTries times; what the     *)
(* turn remembers between its calls is its RecoveryState.                  *)
(***************************************************************************)
EXTENDS Naturals

CONSTANTS
    MaxTries,       \* max_retries
    Overloads,      \* max_consecutive_529
    MaxRequests     \* bound on the calls of a turn

ASSUME GatewayAssumption ==
    /\ MaxTries \in Nat
    /\ Overloads \in Nat \ {0}
    /\ MaxRequests \in Nat

VARIABLES
    asking,         \* the turn is in a call of the gateway, or done
    tries,          \* attempt of with_retry
    requests,       \* calls of this turn
    fallback,       \* there is a fallback_model
    currentModel, consecutive529, reactiveCompact,   \* RecoveryState
    streak,         \* history: overloads since the provider last answered
    longest         \* history: the longest streak of the turn

recoveryState == <<currentModel, consecutive529, reactiveCompact>>
gwVars == <<asking, tries, requests, fallback, recoveryState, streak, longest>>

GwTypeOK ==
    /\ asking \in {"between", "calling", "ended"}
    /\ tries \in 0..MaxTries
    /\ requests \in 0..MaxRequests
    /\ fallback \in BOOLEAN
    /\ reactiveCompact \in BOOLEAN
    /\ currentModel \in {"primary", "fallback"}
    /\ consecutive529 \in Nat
    /\ streak \in Nat
    /\ longest \in Nat

(* new_recovery_state                                                      *)
GwInit ==
    /\ asking = "between"
    /\ tries = 0
    /\ requests = 0
    /\ fallback \in BOOLEAN
    /\ currentModel = "primary"
    /\ consecutive529 = 0
    /\ reactiveCompact = FALSE
    /\ streak = 0
    /\ longest = 0

Ask ==
    /\ asking = "between"
    /\ requests < MaxRequests
    /\ requests' = requests + 1
    /\ tries' = 0
    /\ asking' = "calling"
    /\ UNCHANGED <<fallback, recoveryState, streak, longest>>

BugKeepsCount ==
    /\ asking = "calling"
    /\ tries < MaxTries
    /\ asking' \in {"between", "ended"}
    /\ streak' = 0
    /\ UNCHANGED <<tries, requests, fallback, recoveryState, longest>>

(* The provider answers; the turn asks again after tool calls, or ends.    *)
Answered ==
    /\ asking = "calling"
    /\ tries < MaxTries
    /\ asking' \in {"between", "ended"}
    /\ consecutive529' = 0
    /\ streak' = 0
    /\ UNCHANGED <<tries, requests, fallback, currentModel, reactiveCompact, longest>>

RateLimited ==
    /\ asking = "calling"
    /\ tries < MaxTries
    /\ tries' = tries + 1
    /\ UNCHANGED <<asking, requests, fallback, recoveryState, streak, longest>>

(* An overloaded provider: Overloads times running and the next request    *)
(* goes to the fallback, if there is one.                                  *)
Overloaded ==
    /\ asking = "calling"
    /\ tries < MaxTries
    /\ tries' = tries + 1
    /\ IF consecutive529 + 1 >= Overloads /\ fallback
       THEN currentModel' = "fallback" /\ consecutive529' = 0
       ELSE consecutive529' = consecutive529 + 1 /\ UNCHANGED currentModel
    /\ streak' = streak + 1
    /\ longest' = IF streak' > longest THEN streak' ELSE longest
    /\ UNCHANGED <<asking, requests, fallback, reactiveCompact>>

(* Any other error is not tried again, and ends the turn; a prompt that is *)
(* too long is compacted once, and the next call goes on with the same     *)
(* RecoveryState.                                                          *)
Fails ==
    /\ asking = "calling"
    /\ tries < MaxTries
    /\ \/ asking' = "ended" /\ UNCHANGED reactiveCompact
       \/ /\ ~reactiveCompact
          /\ reactiveCompact' = TRUE
          /\ asking' = "between"
    /\ UNCHANGED <<tries, requests, fallback, currentModel, consecutive529, streak, longest>>

GivesUp ==
    /\ asking = "calling"
    /\ tries = MaxTries
    /\ asking' = "ended"
    /\ UNCHANGED <<tries, requests, fallback, recoveryState, streak, longest>>

GwNext == Ask \/ Answered \/ RateLimited \/ Overloaded \/ Fails \/ GivesUp

GwSpec == GwInit /\ [][GwNext]_gwVars

-----------------------------------------------------------------------------
(* A turn leaves the primary model exactly when the provider was           *)
(* overloaded Overloads times with no answer in between: rate limits,      *)
(* calls that failed otherwise and the compaction of the prompt neither    *)
(* excuse an overloaded provider nor stand in for one.                     *)
FallbackIsEarned == currentModel = "fallback" <=> fallback /\ longest >= Overloads
=============================================================================
