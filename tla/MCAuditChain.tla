---------------------------- MODULE MCAuditChain ----------------------------
EXTENDS AuditVerify, AuditChainInv

CONSTANTS e1, p1, p2, t1, t2
=============================================================================
