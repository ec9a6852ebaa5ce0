------------------------------ MODULE EnvStore ------------------------------
(***************************************************************************)
(* What the environment code of the boot loader promises: the flash holds  *)
(* a whole environment or none, and only one that was in memory gets       *)
(* there; at start it is what comes into memory, or else the default one.  *)
(***************************************************************************)
CONSTANTS
  Envs,       \* the environments
  Default,    \* the one compiled in, a member of Envs
  None        \* no environment, not a member of Envs

VARIABLES
  stored,     \* the environment in the flash, or None
  memory      \* the environment in memory; None before it is loaded

storeVars == <<stored, memory>>

StoreInit == stored = None /\ memory = None

Load   == /\ memory = None
          /\ memory' = IF stored = None THEN Default ELSE stored
          /\ UNCHANGED stored
Change == memory # None /\ memory' \in Envs /\ UNCHANGED stored
Lose   == stored' = None /\ UNCHANGED memory
Store  == memory # None /\ stored' = memory /\ UNCHANGED memory
\* the power goes, perhaps while the last word of the store is written
Restart == /\ memory' = None
           /\ \/ stored' \in {stored, None}
              \/ memory # None /\ stored' = memory

StoreSpec ==
  StoreInit /\ [][Load \/ Change \/ Lose \/ Store \/ Restart]_storeVars
=============================================================================
