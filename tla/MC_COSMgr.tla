------------------------------ MODULE MC_COSMgr ------------------------------
EXTENDS COSMgr, TLC

CONSTANTS t0, t1, r0, o1, o2

MC_VPOf == (t0 :> 0) @@ (t1 :> 1)
MC_HomeOf == (r0 :> 0)
=============================================================================
