---------------------------- MODULE MCAppLibrary ----------------------------
(* Five settings in one run: applications and a dependency; a manifest that  *)
(* moves on; packs that share a component; configurations; sharing on the    *)
(* network and a restart.                                                    *)
EXTENDS AppLibrary, TLC

CONSTANTS research, search, hermes, knowledge, tools

VARIABLE scenario

MCAppOrder == <<research, search, hermes>>
MCDeps == [a \in {research, search, hermes} |-> IF a = research THEN <<search>> ELSE <<>>]
MCPackApps == (knowledge :> <<research>>) @@ (tools :> <<search, hermes>>)

MCInit ==
    /\ Init
    /\ scenario \in {"apps", "manifest", "packs", "configurations", "sharing"}
    /\ scenario # "manifest" => kept = 1
    /\ scenario = "sharing" => \A a \in Apps : Runs(a)

\* The applications that are not asked about.
Apart(S) == \A a \in S : /\ app'[a] = app[a] /\ cfg'[a] = 0 /\ job'[<<"app", a>>] = NoJob

\* While the manifest or the sharing changes, the requests concern one application;
\* when the daemon restarts in the middle of a configuration, the one it boots with.
MCNext ==
    /\ UNCHANGED scenario
    /\ \/ /\ AppRequest
          /\ asked < (IF scenario \in {"apps", "configurations"} THEN 3 ELSE 2)
          /\ scenario \in {"sharing", "manifest"} => Apart({search, hermes})
       \/ PackRequest /\ scenario = "packs"
       \/ ConfigRequest /\ scenario = "configurations"
       \/ /\ SharingRequest
          /\ scenario = "sharing"
          /\ Active(<<"share", 1>>)' \/ ~Active(<<"share", 2>>)'
          /\ tunnel' \subseteq {research} /\ lan' \ lan \subseteq {research}
       \/ \E k \in Keys : JobStep(k)
       \/ Restart /\ scenario \in {"sharing", "configurations"} /\ asked < 2
       \/ Restart /\ scenario = "manifest" /\ asked = 0
       \/ (Publish \/ Refresh) /\ scenario = "manifest"
    /\ scenario = "configurations" /\ restarts' = 1 =>
          faults' = 0 /\ Apart({research, search}) /\ (restarts = 1 \/ cfg[hermes] > 0)
    /\ scenario = "sharing" /\ restarts' = 1 => ~Active(<<"share", 2>>)'
    /\ scenario = "sharing" => faults' = 0 \/ \E k \in Sharers : LocalNetSet(k, FALSE)

MCSpec ==
    /\ MCInit /\ [][MCNext]_<<vars, scenario>>
    /\ WF_vars(\E k \in Keys : JobStep(k))
=============================================================================
