---------------------------- MODULE WalletPasses ----------------------------
(***************************************************************************)
(* The passes and the pass template of the cloud's wallet service          *)
(* (api/internal/modules/wallet): what jobs issue, what cards are bound    *)
(* to, and the status machine of a pass.  One tenant, one template.        *)
(***************************************************************************)
EXTENDS Naturals, FiniteSets

CONSTANTS Passes,   \* pass ids the service may draw (walletID)
          Stock,    \* the passes that may exist before the first request
          MaxOps    \* bound on the requests of administrators

VARIABLES passes,   \* Passes -> [status, user]; user: the target is a user
          template, \* is the template "active"?
          ops       \* requests served, a bound of the model

ASSUME WalletPassesAssumption == Stock \subseteq Passes /\ MaxOps \in Nat

passVars == <<passes, template, ops>>

NoPass == [status |-> "none", user |-> FALSE]
PassStatus == {"none", "issued", "active", "suspended", "revoked"}
PassType == [status: PassStatus, user: BOOLEAN]

Fresh == {p \in Passes : passes[p].status = "none"}
Issued(user) == [status |-> "issued", user |-> user]

\* An administrator's request; every one of them counts against the bound.
Request == ops < MaxOps /\ ops' = ops + 1

-----------------------------------------------------------------------------
Existing == [status: PassStatus \ {"none"}, user: {TRUE}]

PassesInit == /\ \E S \in SUBSET Stock : \E f \in [S -> Existing] :
                   passes = [p \in Passes |-> IF p \in S THEN f[p] ELSE NoPass]
              /\ template = TRUE
              /\ ops = 0

CanTransitPassStatus(current, next) ==
    \/ current = next
    \/ next = "suspended" /\ current \in {"active", "issued"}
    \/ next = "active"    /\ current \in {"issued", "suspended"}
    \/ next = "revoked"   /\ current \in {"issued", "active", "suspended"}

UpdateTemplateStatus ==
    /\ Request
    /\ template' = ~template
    /\ UNCHANGED passes

\* CreateUnassignedCard: a pass without a target.
CreateUnassignedCard(p) ==
    /\ Request /\ template /\ p \in Fresh
    /\ passes' = [passes EXCEPT ![p] = Issued(FALSE)]
    /\ UNCHANGED template

\* IssuePass: a pass for a user.
IssuePass(p) ==
    /\ Request /\ template /\ p \in Fresh
    /\ passes' = [passes EXCEPT ![p] = Issued(TRUE)]
    /\ UNCHANGED template

\* These two record a pass that is active at once, whatever the template
\* says.  EnrollApplePass returns the pass the user's phone already has, if
\* any, and then changes nothing.
RecordActive(p) ==
    /\ Request /\ p \in Fresh
    /\ passes' = [passes EXCEPT ![p] = [status |-> "active", user |-> TRUE]]
    /\ UNCHANGED template
EnrollApplePass(p) == RecordActive(p)
RegisterNFCCard(p) == RecordActive(p)

AssignPass(p) ==
    /\ Request /\ passes[p].status \notin {"none", "revoked"}
    /\ passes' = [passes EXCEPT ![p] = [status |-> "active", user |-> TRUE]]
    /\ UNCHANGED template

DeassignPass(p) ==
    /\ Request /\ passes[p].status \notin {"none", "revoked"}
    /\ passes' = [passes EXCEPT ![p] = Issued(FALSE)]
    /\ UNCHANGED template

\* SuspendPass, ActivatePass, RevokePass.
UpdatePassStatus(p, next) ==
    /\ Request /\ passes[p].status # "none"
    /\ CanTransitPassStatus(passes[p].status, next)
    /\ passes' = [passes EXCEPT ![p].status = next]
    /\ UNCHANGED template

PassRequest ==
    \/ UpdateTemplateStatus
    \/ \E p \in Passes : \/ CreateUnassignedCard(p) \/ IssuePass(p) \/ EnrollApplePass(p) \/ RegisterNFCCard(p)
                         \/ AssignPass(p) \/ DeassignPass(p)
                         \/ \E s \in {"suspended", "active", "revoked"} : UpdatePassStatus(p, s)
=============================================================================
