--------------------------- MODULE MCRunPipeline ---------------------------
(***************************************************************************)
(* What a request to /run passes on small instances: RunPipeline, and the  *)
(* SLA engine, which decides whether it is shed.  They share no state (a   *)
(* shed request is one of the runs that end without an answer), so a       *)
(* behaviour exercises one of them, picked by `part`.                      *)
(*                                                                         *)
(* RunPipeline has two clients, two API instances with one permit each,    *)
(* and two kinds of tenant, one with a plan and a budget that retrieves    *)
(* locally and one without that retrieves externally: what governs one has *)
(* no state in common with what the other passes.                          *)
(***************************************************************************)
EXTENDS RunPipeline, SlaEngine

CONSTANT Parts

VARIABLE part

TenantKinds == {[governed |-> TRUE, external |-> FALSE],
                [governed |-> FALSE, external |-> TRUE]}

OneEach == [c \in Callers |-> c]

Quiet == /\ trouble = FALSE
         /\ route = CHOOSE r \in Routes : TRUE
         /\ policy = CHOOSE p \in Policies : TRUE

MCInit ==
    /\ part \in Parts
    /\ Init /\ SlaInit
    /\ part = "run" => Quiet
    /\ part = "sla" => tenant = CHOOSE k \in Tenants : TRUE

ARun(A) == part = "run" /\ A /\ UNCHANGED <<part, slaVars>>
ASla(A) == part = "sla" /\ A /\ UNCHANGED <<part, vars>>

MCNext == ARun(Next) \/ ASla(SlaNext)

allVars == <<part, vars, slaVars>>

(* The fairness of RunPipeline!FairSpec and of SlaSpec.                    *)
MCSpec ==
    /\ MCInit /\ [][MCNext]_allVars
    /\ WF_allVars(ARun(Tick))
    /\ WF_allVars(ASla(MinuteEnds))
    /\ \A c \in Callers : WF_allVars(ASla(Proceed(c)))
=============================================================================
