--------------------------- MODULE MCCanaryDeploy ---------------------------
(* Instances of CanaryDeploy for TLC: the inputs executions are started with. *)
EXTENDS CanaryRefinement
LOCAL INSTANCE TLC

CONSTANTS web, old, new, bad, vetoed

Deploy(img, target, auto) ==
  [Service |-> web, ImageTag |-> img, TargetReplicas |-> target, CanaryReplicas |-> 1,
   BakeSeconds |-> 1, AutoPromote |-> auto, Simulate |-> {}]

\* One deploy, with every branch of the workflow and every degenerate count.
SingleInputs ==
  { Deploy(new, 3, TRUE), Deploy(new, 2, FALSE), Deploy(new, 0, TRUE),
    Deploy(bad, 3, FALSE), Deploy(vetoed, 3, TRUE) }
  \cup { [Deploy(new, 3, FALSE) EXCEPT !.Simulate = {f}] :
           f \in {"policy", "health", "traffic"} }
  \cup { [Deploy(bad, 3, TRUE) EXCEPT !.CanaryReplicas = 0],
         [Deploy(bad, 3, TRUE) EXCEPT !.BakeSeconds = 0] }

\* Two deploys of one service at the same time.
PairInputs == { Deploy(new, 2, TRUE), Deploy(new, 3, TRUE) }

\* Two deploys of one service, one of them of an image that never gets ready.
GoodAndBadInputs == { Deploy(new, 2, FALSE), Deploy(bad, 2, FALSE) }

\* A deploy that waits for approval, if the webhook lets its image through.
GatedInputs == { Deploy(new, 2, FALSE), Deploy(vetoed, 2, FALSE) }

\* A single deploy that waits for approval.
ManualInputs == { Deploy(new, 2, FALSE) }

\* A single deploy that promotes by itself.
AutoInputs == { Deploy(new, 2, TRUE) }

Interchangeable == Permutations(Workflows)
=============================================================================
