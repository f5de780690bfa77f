---------------------------- MODULE MCModelCache ----------------------------
(* Settings of the model cache in one run: downloads beside restarts and     *)
(* uninstalls; a preparation with retries, a peer and an older cache;        *)
(* a preparation beside a download; cleanup between preparations.            *)
EXTENDS ModelCache

VARIABLE scenario

MCInit ==
    /\ Init
    /\ scenario \in {"downloads", "preparation", "meeting", "cleanup"}
    /\ scenario # "preparation" => tree["legacy"].marks # {}

MCNext ==
    /\ UNCHANGED scenario
    /\ Next
    /\ scenario = "downloads" =>
        /\ op'.tries = 0 /\ saved'
        /\ restarts' = 1 => "timed-out" \notin crossed'
    /\ scenario = "preparation" => (\A j \in JobIds : jobs'[j].pc = "none") /\ saved'
    /\ scenario = "meeting" =>
        op'.tries <= 1 /\ saved' /\ restarts' = 0 /\ jobs'[2].pc = "none"
    /\ scenario = "cleanup" =>
        /\ jobs'[2].pc # "none" => jobs'[1].pc = "ended"
        /\ \A j \in JobIds : ~jobs'[j].told
        /\ "timed-out" \notin crossed'
        /\ op'.tries + restarts' <= (IF jobs'[1].pc = "none" THEN 2 ELSE 1)
        /\ Busy => ~HelperUp'

MCSpec ==
    /\ MCInit /\ [][MCNext]_<<vars, scenario>>
    /\ WF_vars(HelperEnds) /\ \A j \in JobIds : WF_vars(JobStep(j))
=============================================================================
