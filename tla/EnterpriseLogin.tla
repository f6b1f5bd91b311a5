-------------------------- MODULE EnterpriseLogin --------------------------
(***************************************************************************)
(* Logins through a tenant's identity provider (routes_enterprise_auth.go, *)
(* routes_enterprise_callback.go, routes_enterprise_exchange.go), the      *)
(* provisioning of employees at their first login and its approval         *)
(* (service_employees.go).  A login is a sequence of critical sections of  *)
(* the enterprise and the auth service with nothing held between them.     *)
(* The auth service keeps an account per email, whose id is made of the    *)
(* employee's external id, and the refresh sessions of each account; the   *)
(* database holds at most one account for an email.  The role a login      *)
(* gives and a deprovisioning takes is Auth's.                             *)
(***************************************************************************)
EXTENDS EnterpriseDirectory

CONSTANTS Slots,              \* login requests under way
          Identities,         \* what the identity provider says: email, ext (the subject), act
          ApprovalRequired    \* EnterpriseJITProvisionApprovalRequired

ASSUME IdentitiesAssumption == Identities \subseteq [email : Emails, ext : Exts \cup {NoExt}, act : BOOLEAN]

VARIABLES
    tokens,     \* providers of the state tokens that were started and not consumed, in memory
    consumed,   \* identities whose SAML assertion was presented, in memory
    slot,       \* what each login is doing
    accounts,   \* the auth service: email -> the id of its account
    sessions    \* the refresh sessions

loginVars == <<tokens, consumed, slot, accounts, sessions>>
allDirVars == <<dirVars, loginVars>>

NoAccount == "no account"
NoLogin == [pc |-> "none"]

Go(l, x) == slot' = [slot EXCEPT ![l] = x]
At(l, pc) == slot[l].pc = pc
To(l, pc) == Go(l, [slot[l] EXCEPT !.pc = pc])
End(l) == Go(l, NoLogin)

(* ------------------------------ approvals ------------------------------ *)

MaySubject(a, id) == a.ext \in {NoExt, id.ext} \/ id.ext = NoExt

\* A slip: a request that waits counts as well.
approvedFor_Bug(id) == \E i \in DOMAIN core.apprs : core.apprs[i].email = id.email /\ MaySubject(core.apprs[i], id)

\* HasApprovedJITProvisionApproval.
approvedFor(id) ==
    \E i \in DOMAIN core.apprs : /\ core.apprs[i].email = id.email /\ core.apprs[i].st = "approved"
                                 /\ MaySubject(core.apprs[i], id)

Approval(id) == [email |-> id.email, ext |-> id.ext, st |-> "pending", sync |-> "none", tries |-> 0]

\* UpsertJITProvisionApprovalRequest: the first request that waits for this identity, or a new one.
upsertApproval(apprs, id) ==
    LET same == {i \in DOMAIN apprs : apprs[i].email = id.email /\ apprs[i].st = "pending" /\ MaySubject(apprs[i], id)}
        i == CHOOSE n \in same : \A m \in same : n <= m
    IN  IF same = {} THEN <<Approval(id)>> \o apprs
        ELSE [apprs EXCEPT ![i].ext = IF id.ext = NoExt THEN @ ELSE id.ext]

\* ReviewJITProvisionApproval: any decision may be changed; what was told of it is told again, but the
\* attempts are not counted anew.
ReviewJITProvisionApproval(s, i, d) == [s EXCEPT !.apprs[i].st = d, !.apprs[i].sync = "pending"]

reviewEnterpriseJITProvisionApproval == \E i \in DOMAIN core.apprs, d \in {"approved", "rejected"}, ok \in BOOLEAN :
    /\ Free /\ AskSaving(ok)
    /\ persistLocked(ReviewJITProvisionApproval(core, i, d), ok)
    /\ dhist' = IF d = "approved" THEN [dhist EXCEPT !.approved = @ \cup {[email |-> core.apprs[i].email, ext |-> core.apprs[i].ext]}]
                ELSE dhist
    /\ UNCHANGED <<job, loginVars>>

\* UpdateJITProvisionApprovalExternalSync: whatever was decided since.
updateExternalSync(i, st, ok) ==
    persistLocked([core EXCEPT !.apprs[i].sync = st, !.apprs[i].tries = IF st = "failed" THEN @ + 1 ELSE @], ok)

updateEnterpriseJITProvisionApprovalExternalSync == \E i \in DOMAIN core.apprs, st \in {"synced", "failed"}, ok \in BOOLEAN :
    /\ Free /\ AskSaving(ok)
    /\ updateExternalSync(i, st, ok)
    /\ UNCHANGED <<job, dhist, loginVars>>

enterpriseJITApprovalExternalSyncCallback == \E i \in DOMAIN core.apprs, st \in {"synced", "failed"}, ok \in BOOLEAN :
    /\ Free /\ AskSaving(ok)
    /\ updateExternalSync(i, st, ok)
    /\ UNCHANGED <<job, dhist, loginVars>>

\* Decided, and not told yet or told in vain.
enterpriseJITApprovalExternalSyncCandidate(a) == a.st # "pending" /\ a.sync \in {"pending", "failed"}

\* The worker tells nobody: it marks one approval after the other.
runEnterpriseJITApprovalExternalSyncWorkerTick == \E i \in DOMAIN core.apprs, ok \in BOOLEAN :
    /\ Free /\ May(ok) /\ Cost(ok)
    /\ enterpriseJITApprovalExternalSyncCandidate(core.apprs[i])
    /\ core.apprs[i].sync = "failed" => core.apprs[i].tries < SyncAttempts
    /\ updateExternalSync(i, "synced", ok)
    /\ UNCHANGED <<job, dhist, loginVars>>

(* --------------------------- arriving at a login ----------------------- *)

ResolveTenantByEmail == core.dom = "active"

\* One token for a provider is enough: it is consumed by its first use, whoever comes with it.
StartAuthStateToken(provider) == tokens' = tokens \cup {provider}
ConsumeAuthStateToken(provider) == tokens' = tokens \ {provider}

enterpriseAuthStart ==
    /\ Free /\ Ask
    /\ ResolveTenantByEmail /\ core.idp.on
    /\ StartAuthStateToken(core.idp.provider)
    /\ UNCHANGED <<core, stored, job, dhist, consumed, slot, accounts, sessions>>

StateTokenExpires == \E provider \in tokens :
    /\ tokens' = tokens \ {provider}
    /\ UNCHANGED <<dirVars, consumed, slot, accounts, sessions>>

issueEnterpriseTrustedSession(l, id) == Go(l, [pc |-> "begin", id |-> id, jit |-> core.idp.jit, raced |-> FALSE, known |-> FALSE])

\* An assertion is good once, until the process restarts.
markSAMLAssertionConsumed(id) == id \notin consumed /\ consumed' = consumed \cup {id}

\* What the identity provider signed: of its own protocol, for this client, not expired.  An ID token
\* may be presented again, an assertion may not.
VerifyOIDCIDToken(good) == good /\ core.idp.provider = "oidc" /\ UNCHANGED consumed
VerifySAMLResponse(good, id) == good /\ core.idp.provider = "saml" /\ markSAMLAssertionConsumed(id)

\* The state token is consumed before anything else is looked at: a login that fails has lost it.
enterpriseOIDCCallback == \E l \in Slots, id \in Identities, provider \in tokens, good \in BOOLEAN :
    /\ Free /\ slot[l] = NoLogin /\ Ask
    /\ ConsumeAuthStateToken(provider)
    /\ \/ provider = "oidc" /\ core.idp.on /\ VerifyOIDCIDToken(good) /\ issueEnterpriseTrustedSession(l, id)
       \/ (~good \/ ~core.idp.on \/ {provider, core.idp.provider} # {"oidc"}) /\ UNCHANGED <<slot, consumed>>
    /\ UNCHANGED <<core, stored, job, dhist, accounts, sessions>>

enterpriseSAMLCallback == \E l \in Slots, id \in Identities, provider \in tokens, good \in BOOLEAN :
    /\ Free /\ slot[l] = NoLogin /\ Ask
    /\ ConsumeAuthStateToken(provider)
    /\ \/ provider = "saml" /\ core.idp.on /\ VerifySAMLResponse(good, id) /\ issueEnterpriseTrustedSession(l, id)
       \/ /\ ~good \/ ~core.idp.on \/ {provider, core.idp.provider} # {"saml"} \/ id \in consumed
          /\ UNCHANGED <<slot, consumed>>
    /\ UNCHANGED <<core, stored, job, dhist, accounts, sessions>>

\* Without a state token.  The subject is the one the request names, if it names one.
enterpriseAuthExchange == \E l \in Slots, id \in Identities, subject \in Exts :
    /\ Free /\ slot[l] = NoLogin /\ Ask
    /\ ResolveTenantByEmail /\ core.idp.on
    /\ VerifyOIDCIDToken(TRUE) \/ VerifySAMLResponse(TRUE, id)
    /\ issueEnterpriseTrustedSession(l, [id EXCEPT !.ext = subject])
    /\ UNCHANGED <<core, stored, job, dhist, tokens, accounts, sessions>>

(* ---------------------- issueEnterpriseTrustedSession ------------------ *)

Session(email, l) == [email |-> email, raced |-> slot[l].raced, jit |-> slot[l].jit, kept |-> FALSE]

\* LoginByTrustedIdentity: a session for the account there is.
LoginByTrustedIdentity(l) ==
    LET e == slot[l].id.email
    IN  sessions' = IF accounts[e] = NoAccount THEN sessions ELSE sessions \cup {Session(e, l)}

\* Not provisioned at login: the account is all that is asked for.
PlainLogin(l) ==
    /\ At(l, "begin") /\ ~slot[l].jit
    /\ LoginByTrustedIdentity(l) /\ End(l)
    /\ UNCHANGED <<dirVars, tokens, consumed, accounts>>

\* findJITEmployeeMatchIndexLocked: the external id first, then the email; the newest row.
First(S) == IF S = {} THEN 0 ELSE CHOOSE i \in S : \A j \in S : i <= j
findJITEmployeeMatch(emps, id) ==
    LET x == First({i \in DOMAIN emps : id.ext # NoExt /\ emps[i].ext = id.ext})
    IN  IF x > 0 THEN x ELSE First({i \in DOMAIN emps : emps[i].email = id.email})

\* What a login is refused for, if it is: outside the domain, not active, another person's external id.
Refused(emps, id) ==
    LET k == findJITEmployeeMatch(emps, id)
    IN  IF core.dom # "active" THEN "domain"
        ELSE IF ~id.act \/ (k > 0 /\ ~emps[k].act) THEN "inactive"
        ELSE IF k > 0 /\ id.ext # NoExt /\ emps[k].ext \notin {NoExt, id.ext} THEN "conflict"
        ELSE "no"

Refuse(l, why) == IF why = "inactive" THEN To(l, "inactive") ELSE End(l)

\* HasActiveJITEmployeeIdentity, where a new employee needs an approval.
HasActiveJITEmployeeIdentity(l) ==
    LET id == slot[l].id
        why == IF ~id.act THEN "inactive" ELSE Refused(core.emps, id)
    IN  /\ At(l, "begin") /\ slot[l].jit /\ Free
        /\ IF why # "no" /\ (ApprovalRequired \/ ~id.act) THEN Refuse(l, why)
           ELSE IF ApprovalRequired /\ findJITEmployeeMatch(core.emps, id) = 0 THEN To(l, "approve")
           ELSE Go(l, [slot[l] EXCEPT !.pc = "provision", !.known = ApprovalRequired])
        /\ UNCHANGED <<dirVars, tokens, consumed, accounts, sessions>>

HasApprovedJITProvisionApproval(l) ==
    /\ At(l, "approve") /\ Free
    /\ To(l, IF approvedFor(slot[l].id) THEN "provision" ELSE "unapproved")
    /\ UNCHANGED <<dirVars, tokens, consumed, accounts, sessions>>

\* applyEnterpriseJITApprovalRequiredAudit: the request for an approval is kept, if it can be.
applyEnterpriseJITApprovalRequiredAudit(l) == \E ok \in BOOLEAN :
    /\ At(l, "unapproved") /\ Free /\ May(ok) /\ Cost(ok)
    /\ IF core.dom = "active"
       THEN persistLocked([core EXCEPT !.apprs = upsertApproval(@, slot[l].id)], ok)
       ELSE ok /\ UNCHANGED <<core, stored>>
    /\ End(l)
    /\ UNCHANGED <<job, dhist, tokens, consumed, accounts, sessions>>

\* ResolveOrProvisionJITEmployeeWithProfile: the employee takes the email and the subject of the login.
ResolveOrProvisionJITEmployee(l) == \E ok \in BOOLEAN :
    LET id == slot[l].id
        k == findJITEmployeeMatch(core.emps, id)
        why == Refused(core.emps, id)
        new == [id |-> NextId(core.emps), email |-> id.email, ext |-> id.ext, act |-> TRUE, by |-> NoRequest]
        emps == IF k = 0 THEN <<new>> \o core.emps
                ELSE [core.emps EXCEPT ![k].email = id.email, ![k].ext = IF id.ext = NoExt THEN @ ELSE id.ext]
    IN  /\ At(l, "provision") /\ Free
        /\ IF why # "no"
           THEN ok /\ Refuse(l, why) /\ UNCHANGED <<dirVars>>
           ELSE /\ May(ok) /\ Cost(ok)
                /\ persistLocked([core EXCEPT !.emps = emps], ok)
                /\ dhist' = [dhist EXCEPT !.made = IF k = 0 THEN @ \cup {[email |-> id.email, ext |-> id.ext, known |-> slot[l].known]}
                                                    ELSE @,
                                          !.out = @ \ {id.email}]
                /\ IF ok THEN Go(l, [slot[l] EXCEPT !.pc = "probe", !.id.ext = emps[IF k = 0 THEN 1 ELSE k].ext])
                   ELSE End(l)
                /\ UNCHANGED job
        /\ UNCHANGED <<tokens, consumed, accounts, sessions>>

\* The probe that finds out whether there is an account opens a session of its own.
Probe(l) ==
    /\ At(l, "probe")
    /\ LoginByTrustedIdentity(l) /\ To(l, "trusted")
    /\ UNCHANGED <<dirVars, tokens, consumed, accounts>>

\* The id of the account, made of the employee's external id.
enterpriseJITTrustedUser(id) == IF id.ext = NoExt THEN id.email ELSE id.ext

\* With another account id the email is taken.
LoginByTrustedUser(l) ==
    LET id == slot[l].id
        user == enterpriseJITTrustedUser(id)
    IN  /\ At(l, "trusted")
        /\ IF accounts[id.email] \in {NoAccount, user}
           THEN accounts' = [accounts EXCEPT ![id.email] = user] /\ sessions' = sessions \cup {Session(id.email, l)}
           ELSE UNCHANGED <<accounts, sessions>>
        /\ End(l)
        /\ UNCHANGED <<dirVars, tokens, consumed>>

Kept(s) == [email |-> s.email, raced |-> s.raced, jit |-> s.jit, kept |-> TRUE]

\* A slip: the sessions stay.
RevokeRefreshTokens_Bug(email, ok) == UNCHANGED sessions

\* RevokeRefreshTokensByUserEmail.  A lookup or a delete that fails is not told to anybody: the
\* sessions are where they were (kept).
RevokeRefreshTokens(email, ok) ==
    sessions' = IF ok THEN {s \in sessions : s.email # email}
                ELSE {s \in sessions : s.email # email} \cup {Kept(s) : s \in {r \in sessions : r.email = email}}

\* The employee left: their sessions end, and the logins that have passed the check may still open one.
applyEnterpriseJITDeprovisionOnInactive(l) == \E ok \in BOOLEAN :
    LET e == slot[l].id.email
    IN  /\ At(l, "inactive") /\ May(ok) /\ Cost(ok)
        /\ RevokeRefreshTokens(e, ok)
        /\ slot' = [m \in Slots |-> IF m = l THEN NoLogin
                                    ELSE IF slot[m].pc \in {"probe", "trusted"} /\ slot[m].id.email = e
                                    THEN [slot[m] EXCEPT !.raced = TRUE] ELSE slot[m]]
        /\ dhist' = [dhist EXCEPT !.out = @ \cup {e}]
        /\ UNCHANGED <<core, stored, job, tokens, consumed, accounts>>

(* ------------------------------ specification -------------------------- *)

\* The process restarts: what it held in memory is gone, the directory is as it was saved.
RestartDirectory ==
    /\ budget.fault > 0 /\ budget' = [budget EXCEPT !.fault = @ - 1]
    /\ core' = stored /\ job' = Unlocked
    /\ tokens' = {} /\ consumed' = {} /\ slot' = [l \in Slots |-> NoLogin]
    /\ UNCHANGED <<stored, dhist, accounts, sessions>>

LoginInit ==
    /\ DirInit
    /\ tokens = {} /\ consumed = {}
    /\ slot = [l \in Slots |-> NoLogin]
    /\ accounts \in [Emails -> {NoAccount, "local"}]
    /\ sessions = {}

LoginRequests ==
    \/ enterpriseAuthStart
    \/ enterpriseOIDCCallback
    \/ enterpriseSAMLCallback
    \/ enterpriseAuthExchange
    \/ reviewEnterpriseJITProvisionApproval
    \/ updateEnterpriseJITProvisionApprovalExternalSync
    \/ enterpriseJITApprovalExternalSyncCallback

LoginSteps(l) ==
    \/ PlainLogin(l)
    \/ HasActiveJITEmployeeIdentity(l)
    \/ HasApprovedJITProvisionApproval(l)
    \/ applyEnterpriseJITApprovalRequiredAudit(l)
    \/ ResolveOrProvisionJITEmployee(l)
    \/ Probe(l)
    \/ LoginByTrustedUser(l)
    \/ applyEnterpriseJITDeprovisionOnInactive(l)

LoginNext ==
    \/ LoginRequests
    \/ \E l \in Slots : LoginSteps(l)
    \/ runEnterpriseJITApprovalExternalSyncWorkerTick
    \/ StateTokenExpires
    \/ RestartDirectory

\* Logins among everything else that happens to the directory.
LoginSpec == LoginInit /\ [][LoginNext \/ (DirNext /\ UNCHANGED loginVars)]_allDirVars

(* ------------------------------- properties ---------------------------- *)

(***************************************************************************)
(* Once a login was refused because its employee is not active any more,   *)
(* the person has no session until a login finds them active again: except *)
(* one that was open before and that a failed revocation left, one of a    *)
(* login that had passed the check before, and where employees are not     *)
(* provisioned at login, where nobody checks.                              *)
(***************************************************************************)
DeprovisionHolds == \A s \in sessions : s.email \in dhist.out => s.kept \/ s.raced \/ ~s.jit

(***************************************************************************)
(* Where provisioning needs an approval, a login makes an employee only of *)
(* somebody a reviewer had approved: under the email of the login, and for *)
(* its subject if the approval names one.  Except of somebody whom the     *)
(* directory knew when the login was checked and does not know by this     *)
(* name any more when it provisions: nothing is checked again there.       *)
(***************************************************************************)
ProvisionedWasApproved ==
    ApprovalRequired => \A m \in dhist.made : m.known \/ \E a \in dhist.approved : a.email = m.email /\ MaySubject(a, m)
=============================================================================
