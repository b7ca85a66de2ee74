---------------------------- MODULE MCAuditFiles ----------------------------
EXTENDS AuditFiles

CONSTANTS a, b
MCSize == [t \in Traces |-> IF t = a THEN 2 ELSE 1]
MCTips == {[trace |-> t, count |-> MCSize[t]] : t \in Traces}
=============================================================================
