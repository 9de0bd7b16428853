------------------------- MODULE MCWebhookDelivery -------------------------
(***************************************************************************)
(* Small instances of WebhookDelivery.  A behaviour of the first run is    *)
(* about published events, with overlapping requests, polls and crashes,   *)
(* or about tests and replays too, with one worker, one caller and no      *)
(* crash: with two workers they do collide (ClaimedByOne).                 *)
(***************************************************************************)
EXTENDS WebhookDelivery

VARIABLE about

AboutStep ==
  /\ about' = about
  /\ about = "published" => used' = {}
  /\ about = "direct" => /\ crashes' = 0
                         /\ \A w \in Workers \ {CHOOSE v \in Workers : TRUE} : pc'[w] = "idle"
                         /\ \A c \in Callers \ {CHOOSE b \in Callers : TRUE} : cpc'[c] = "idle"

MCInit == Init /\ about \in {"published", "direct"}
MCNext == Next /\ AboutStep

MCFairSpec ==
  /\ MCInit /\ [][MCNext]_<<vars, about>>
  /\ \A w \in Workers : WF_<<vars, about>>(WorkerStep(w) /\ AboutStep)
  /\ \A c \in Callers : WF_<<vars, about>>(CallerStep(c) /\ AboutStep)
  /\ WF_<<vars, about>>(Tick /\ AboutStep)

\* Tests and replays with two workers.
MCTwoWorkersSpec == Init /\ about = "colliding" /\ [][MCNext]_<<vars, about>>
=============================================================================
