---------------------------- MODULE MergeTarget ----------------------------
(***************************************************************************)
(* The merge targets of the constraint nodes: m_MergeTarget, GetMergeTarget*)
(* and GetMergeTarget2 of include/analysis/points-to/ConstraintGraph.h.    *)
(* Module ConstraintGraph keeps only the representative of each node, rep; *)
(* here the chain of targets is followed step by step, and compressed, and *)
(* rep is what it is compared with.                                        *)
(***************************************************************************)
EXTENDS Naturals, Sequences

CONSTANT NodeNum   \* m_NodeNo

ASSUME NodeNumAssumption == NodeNum \in Nat \ {0}

Node == 0 .. NodeNum - 1

VARIABLES
  target,   \* m_MergeTarget of each node
  rep,      \* the representatives as ConstraintGraph keeps them
  pc,       \* "idle", "walk", "compress" or "answer"
  sid,      \* the node asked for
  did,      \* the node the walk stands at
  path      \* the nodes whose target is still to be set

chainVars == <<target, rep, pc, sid, did, path>>

ChainInit ==
  /\ target = [n \in Node |-> n]
  /\ rep = [n \in Node |-> n]
  /\ pc = "idle" /\ sid = 0 /\ did = 0 /\ path = {}

\* Seeded fault: nodes are merged in both directions.
SetMergeTargetEitherWay(s, d) ==
  /\ pc = "idle" /\ d # s
  /\ target' = [target EXCEPT ![s] = d]
  /\ rep' = [n \in Node |-> IF rep[n] = s THEN d ELSE rep[n]]
  /\ UNCHANGED <<pc, sid, did, path>>

\* MergeNode, which the cycle detectors call for two representatives.
SetMergeTarget(s, d) ==
  /\ pc = "idle" /\ d < s /\ rep[s] = s /\ rep[d] = d
  /\ target' = [target EXCEPT ![s] = d]
  /\ rep' = [n \in Node |-> IF rep[n] = s THEN d ELSE rep[n]]
  /\ UNCHANGED <<pc, sid, did, path>>

\* The call: GetMergeTarget starts its path with the node asked for.
Ask(n) ==
  /\ pc = "idle"
  /\ sid' = n /\ did' = target[n]
  /\ path' = IF target[n] # n THEN {n} ELSE {}
  /\ pc' = "walk"
  /\ UNCHANGED <<target, rep>>

\* One round of the loop condition Did != (TmpId = GetNodeTarget (Did)).
Walk ==
  /\ pc = "walk" /\ target[did] # did
  /\ path' = path \cup {did}
  /\ did' = target[did]
  /\ UNCHANGED <<target, rep, pc, sid>>

\* GetMergeTarget sets the targets on its path, GetMergeTarget2 does not.
EndWalk ==
  /\ pc = "walk" /\ target[did] = did
  /\ \/ pc' = "compress" /\ UNCHANGED path
     \/ pc' = "answer" /\ path' = {}
  /\ UNCHANGED <<target, rep, sid, did>>

\* Seeded fault: a node of the path is pointed at the node asked for.
CompressToStart ==
  /\ pc = "compress"
  /\ \E n \in path : target' = [target EXCEPT ![n] = sid] /\ path' = path \ {n}
  /\ UNCHANGED <<rep, pc, sid, did>>

Compress ==
  /\ pc = "compress"
  /\ \E n \in path : target' = [target EXCEPT ![n] = did] /\ path' = path \ {n}
  /\ UNCHANGED <<rep, pc, sid, did>>

EndCompress ==
  /\ pc = "compress" /\ path = {}
  /\ pc' = "answer"
  /\ UNCHANGED <<target, rep, sid, did, path>>

Return ==
  /\ pc = "answer"
  /\ pc' = "idle"
  /\ UNCHANGED <<target, rep, sid, did, path>>

ChainNext ==
  \/ \E s, d \in Node : SetMergeTarget(s, d)
  \/ \E n \in Node : Ask(n)
  \/ Walk \/ EndWalk \/ Compress \/ EndCompress \/ Return

ChainSpec == ChainInit /\ [][ChainNext]_chainVars

\* A call, once made, runs.
ChainFairSpec == ChainSpec /\ WF_chainVars(Walk \/ EndWalk \/ Compress \/ EndCompress)

-----------------------------------------------------------------------------
(* Properties *)

ChainTypeOK ==
  /\ target \in [Node -> Node] /\ rep \in [Node -> Node]
  /\ pc \in {"idle", "walk", "compress", "answer"}
  /\ sid \in Node /\ did \in Node /\ path \subseteq Node

\* Whatever was merged and compressed before, both functions answer with the
\* representative.
AnswersRepresentative == pc = "answer" => did = rep[sid]

\* Compressing changes no answer: at every moment a node and its target have
\* the same representative, and only a representative is its own target.
ChainsLeadToRep ==
  \A n \in Node : rep[n] = rep[target[n]] /\ (target[n] = n <=> rep[n] = n)

\* The loop ends: a call gets its answer.
CallsReturn == pc = "walk" ~> pc = "answer"

=============================================================================
