--------------------------- MODULE PrivateMemory ---------------------------
(***************************************************************************)
(* What virtual memory promises: every address space has pages of its own, *)
(* which only its own writes change; a fork starts with a copy of them.    *)
(***************************************************************************)
CONSTANTS Mm,         \* address spaces
          Page,       \* virtual pages
          Value,      \* what a page can hold
          Fresh       \* of a page nobody has touched yet

VARIABLES prot,  \* per address space: the pages that are mapped "r" or "rw", or "none"
          data   \* per address space and page: the value in it

vars == <<prot, data>>

Nothing == [v \in Page |-> "none"]
Untouched == [v \in Page |-> Fresh]

\* A new address space may have its pages mapped at once.
Init ==
  /\ prot \in [Mm -> [Page -> {"none", "r", "rw"}]]
  /\ data = [mm \in Mm |-> Untouched]

\* More pages of mm are mapped.
Map(mm) ==
  /\ data' = data
  /\ \A v \in Page : prot[mm][v] # "none" => prot'[mm][v] = prot[mm][v]
  /\ \A other \in Mm \ {mm} : prot'[other] = prot[other]

\* The loader, or a first access, gives a mapped page its first value.
Touch(mm, v, x) ==
  /\ prot[mm][v] # "none" /\ data[mm][v] = Fresh
  /\ data' = [data EXCEPT ![mm][v] = x]
  /\ UNCHANGED prot

Write(mm, v, x) ==
  /\ prot[mm][v] = "rw" /\ data[mm][v] # Fresh
  /\ data' = [data EXCEPT ![mm][v] = x]
  /\ UNCHANGED prot

Fork(mm, child) ==
  /\ prot[child] = Nothing
  /\ prot' = [prot EXCEPT ![child] = prot[mm]]
  /\ data' = [data EXCEPT ![child] = data[mm]]

Destroy(mm) ==
  /\ prot' = [prot EXCEPT ![mm] = Nothing]
  /\ data' = [data EXCEPT ![mm] = Untouched]

Next ==
  \E mm \in Mm :
    \/ Map(mm)
    \/ \E v \in Page, x \in Value : Touch(mm, v, x) \/ Write(mm, v, x)
    \/ \E child \in Mm : Fork(mm, child)
    \/ Destroy(mm)

Spec == Init /\ [][Next]_vars
=============================================================================
