---------------------------- MODULE MCProvisioning ----------------------------
(* The seeded workflows, and what may happen to them.                        *)
EXTENDS Provisioning

\* Slack and GitHub stand for the three steps that run side by side.
Joiner ==
    Part(NewJoiner, {"create_email_account", "invite_to_slack", "grant_github_access",
                     "enrol_in_payroll", "email_the_manager"})

NeedsOf == [s \in Step |-> Workflow[s].needs]

OnErrorOf == [s \in Step |-> Workflow[s].onError]

CompensableOf == {s \in Step : Workflow[s].undo # NoRoute}

TriesOf ==
    [slot \in Slot |-> IF slot[2] = "EXECUTE" THEN Workflow[slot[1]].tries ELSE 1]

Steps == DOMAIN Workflow

AllWork == [s \in Step |-> "work"]

AnyResult == [slot \in Slot |-> BOOLEAN]

\* The mail system and GitHub cannot be reached now and then, and answers of the
\* mail system do not come back.
SomeTrouble ==
    [slot \in Slot |->
        CASE slot = Do("create_email_account") -> {"unreachable", "lost answer"}
          [] slot = Do("grant_github_access") -> {"unreachable"}
          [] OTHER -> {}]

NoTrouble == [slot \in Slot |-> {}]

\* For the divergences in README.md: answers get lost.
LostAnswers == [slot \in Slot |-> {"lost answer"}]

RejectTarget == {Request("payroll/reject-next", Target)}

BreakTarget == {Request("fail_after_upgrade", Target)}
==============================================================================
