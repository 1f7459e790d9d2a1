------------------------------ MODULE MCKernel ------------------------------
(* Five structures of a kernel, rebuilt in user space by programs of their   *)
(* own; one of them runs, and part says which.  Only the threads of the      *)
(* object list are asked to go on.                                           *)
EXTENDS KmemCache, PageTable, TimerWheel, ObjList, RingBuf

VARIABLE part

KernelInit == /\ part \in {"slabs", "pages", "timers", "list", "ring"}
              /\ Init /\ TableInit /\ WheelInit /\ ListInit /\ RingInit

KernelNext ==
    \/ part = "slabs" /\ Next /\ UNCHANGED <<part, tableVars, wheelVars, listVars, ringVars>>
    \/ part = "pages" /\ TableNext /\ UNCHANGED <<part, vars, wheelVars, listVars, ringVars>>
    \/ part = "timers" /\ WheelNext /\ UNCHANGED <<part, vars, tableVars, listVars, ringVars>>
    \/ part = "list" /\ ListNext /\ UNCHANGED <<part, vars, tableVars, wheelVars, ringVars>>
    \/ part = "ring" /\ RingNext /\ UNCHANGED <<part, vars, tableVars, wheelVars, listVars>>

KernelSpec ==
    KernelInit /\ [][KernelNext]_<<part, vars, tableVars, wheelVars, listVars, ringVars>>
               /\ ListFairness
=============================================================================
