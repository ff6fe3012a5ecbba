---------------------------- MODULE MCManagerAudit ----------------------------
(* The instances of MCManager with the audit.                              *)
EXTENDS MCManager, ManagerAudit

PromptAuditSpec == AuditInit /\ [][PromptNext /\ AuditStep]_auditVars
PromptFairAuditSpec == PromptAuditSpec /\ Fairness
===============================================================================
