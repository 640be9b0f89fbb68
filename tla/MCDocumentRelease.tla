-------------------------- MODULE MCDocumentRelease --------------------------
(***************************************************************************)
(* Small instances of DocumentRelease for TLC.                             *)
(***************************************************************************)
EXTENDS DocumentRelease, TLC

CONSTANTS alice, bob, a1, a2, k1, k2, k3, offline

MCUsers == {alice, bob}
MCArtifacts == {a1, a2}
MCDeployable == {a1}
MCKeys == {k1, k2, k3}
KeySymmetry == Permutations(MCKeys)

MCStaging ==
    [enabled |-> TRUE, directPublish |-> TRUE, promotesFromStaging |-> FALSE,
     publishers |-> {"owner", "admin", "member"}, recoverers |-> {"owner", "admin"},
     requiredApprovals |-> 0, separateApprover |-> FALSE]

MCProduction ==
    [enabled |-> TRUE, directPublish |-> FALSE, promotesFromStaging |-> TRUE,
     publishers |-> {"owner", "admin"}, recoverers |-> {"owner", "admin"},
     requiredApprovals |-> 1, separateApprover |-> TRUE]

MCFreeProduction == [MCProduction EXCEPT !.requiredApprovals = 0]

\* Approval by the requester suffices, so that one member can do everything.
MCSelfApproved == [MCProduction EXCEPT !.separateApprover = FALSE]

MCSelfApprovedProduction == {MCSelfApproved}
MCApprovalComesAndGoes == {MCFreeProduction, MCSelfApproved}
MCStagingPolicies == {MCStaging}
MCProductionPolicies == {MCProduction, MCFreeProduction}
MCOneUser == {alice}
MCOneAdmin == [u \in MCOneUser |-> "owner"]
MCOneArtifact == {a1}
MCTwoKeys == {k1, k2}
MCOneKey == {k1}
GovernanceSymmetry == Permutations(MCTwoKeys) \union Permutations(MCUsers)
MCUnapprovedProduction == {MCFreeProduction}
MCChangingStaging == {MCStaging, [MCStaging EXCEPT !.enabled = FALSE]}
MCRoleChanges == {"admin", "viewer"}
MCTwoPlans == {Features, {}}
MCAdmins == [u \in MCUsers |-> "admin"]
MCNoRoles == {}
MCOnePlan == {Features}

=============================================================================
