----------------------------- MODULE MCSamples ------------------------------
(* Small campaigns: traces of two CPUs that are combined, and of another   *)
(* plugin, with two kinds of events, one of which a trace may not have.    *)
EXTENDS SamplePipeline, TLC

CONSTANTS sched, release

Found(a, b) == (sched :> a) @@ (release :> b)

SmallCampaigns ==
    {[number |-> <<Found(1, 1), Found(1, r), Found(1, 0)>>, target |-> <<"P", "P", "G">>] :
       r \in {NotPresent, 1}}
    \cup {[number |-> <<Found(1, NotPresent), Found(2, 1)>>, target |-> <<"P", "G">>]}
=============================================================================
