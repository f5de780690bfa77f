--------------------------- MODULE MCEngineSwitch ---------------------------
(* Three settings in one run: requests that cross each other; a promotion    *)
(* with a request and a restart beside it; restarts between requests.        *)
EXTENDS EngineSwitch

CONSTANTS vllm, sglang

VARIABLE scenario

MCInit ==
    /\ Init
    /\ \/ scenario = "requests" /\ ~store.auto /\ ~store.unloaded
          /\ store.promo = NoPromotion /\ store.engine = vllm
       \/ scenario = "promotion" /\ store.promo # NoPromotion
       \/ scenario = "restarts" /\ store.promo = NoPromotion

\* The bounds of each setting.
MCNext ==
    /\ UNCHANGED scenario
    /\ Next
    /\ scenario = "requests" =>
        restarts' = 0 /\ asked' <= (IF boot.pc = "done" THEN 3 ELSE 0)
    /\ scenario # "requests" => asked' <= 1

MCSpec ==
    /\ MCInit /\ [][MCNext]_<<vars, scenario>>
    /\ WF_vars(BootStep) /\ \A j \in JobIds : WF_vars(JobStep(j))
=============================================================================
