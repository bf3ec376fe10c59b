----------------------------- MODULE MCRecovery -----------------------------
(***************************************************************************)
(* Two bounded instances in one run, which never meet: production's        *)
(* commands over its backup sets (Recovery), with Bronze and one later     *)
(* stage, and development taking such sets over (DevRefresh), under a      *)
(* writer lock of its own.  `part` says which of them moves.               *)
(***************************************************************************)
EXTENDS Recovery, DevRefresh

VARIABLE part

MCStages == <<"bronze", "gold">>

\* There is one state of the part that does not move.
MCInit ==
  /\ Init /\ DevInit
  /\ \/ part = "production" /\ own = None
     \/ part = "development" /\ Started = {Bronze} /\ stores[Bronze] = 1

ProductionStep == part = "production" /\ Next /\ UNCHANGED <<part, devVars>>

DevelopmentStep == part = "development" /\ DevNext /\ UNCHANGED <<part, vars>>

MCNext == ProductionStep \/ DevelopmentStep

MCSpec == MCInit /\ [][MCNext]_<<vars, devVars, part>>

=============================================================================
