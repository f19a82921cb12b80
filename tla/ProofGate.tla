----------------------------- MODULE ProofGate -----------------------------
(***************************************************************************)
(* What the research workflow promises about a published result, without   *)
(* its stages: a proof draft can be edited at any time before it is        *)
(* accepted, every edit voids the approvals given so far, a draft is       *)
(* accepted exactly when both reviewers have approved it as it stands, and *)
(* only accepted drafts are published.                                     *)
(***************************************************************************)
CONSTANT Methods

VARIABLES
    draft,       \* the content of each method's proof, a value of any kind
    approvals,   \* the reviews the present content has passed
    accepted,    \* methods whose proof can no longer change
    published    \* the methods a summary was based on

vars == <<draft, approvals, accepted, published>>

Reviews == {"structural", "detailed"}

TypeOK ==
    /\ approvals \in [Methods -> SUBSET Reviews]
    /\ accepted \in SUBSET Methods
    /\ published \in SUBSET Methods

Init ==
    /\ approvals = [m \in Methods |-> {}]
    /\ accepted = {}
    /\ published = {}

OthersKeep(f, m) == \A n \in Methods \ {m} : f'[n] = f[n]

Edit(m) ==
    /\ m \notin accepted
    /\ published = {}
    /\ OthersKeep(draft, m)
    /\ OthersKeep(approvals, m)
    /\ approvals'[m] = {}
    /\ UNCHANGED <<accepted, published>>

ApproveStructure(m) ==
    /\ m \notin accepted
    /\ approvals[m] = {}
    /\ approvals'[m] = {"structural"}
    /\ OthersKeep(approvals, m)
    /\ UNCHANGED <<draft, accepted, published>>

(* The second approval accepts the draft.                                  *)
ApproveDetails(m) ==
    /\ approvals[m] = {"structural"}
    /\ approvals'[m] = Reviews
    /\ OthersKeep(approvals, m)
    /\ accepted' = accepted \cup {m}
    /\ UNCHANGED <<draft, published>>

Publish(S) ==
    /\ published = {}
    /\ S # {}
    /\ S \subseteq accepted
    /\ published' = S
    /\ UNCHANGED <<draft, approvals, accepted>>

Next ==
    \/ \E m \in Methods : Edit(m) \/ ApproveStructure(m) \/ ApproveDetails(m)
    \/ \E S \in SUBSET Methods : Publish(S)

Spec == Init /\ [][Next]_vars
=============================================================================
