-------------------------- MODULE MCWorkerPipeline --------------------------
(* Small instances of WorkerPipeline.  A thread is a pair <<pod, stage>>.    *)
EXTENDS WorkerPipeline, TLC

CONSTANTS p1, p2

\* Two pods compete for the first stage, one thread runs the finalizer.
TwoPodsFirst == {<<p1, 0>>, <<p2, 0>>, <<p1, 1>>}

\* The same threads, but the finalizer runs in a pod of its own.
FinalizerApart ==
  {<<p1, 0>>, <<p2, 0>>} \cup {<<p, 1>> : p \in Pods \ {p1, p2}}

FirstOf  == [t \in Threads |-> t[1]]
SecondOf == [t \in Threads |-> t[2]]

SameChat == [m \in Messages |-> CHOOSE c \in Chats : TRUE]

AllStages == Stages

\* The messages are alike, and under FinalizerApart so are p1 and p2.
PipelineSymmetry == Permutations(Messages) \cup Permutations({p1, p2})

=============================================================================
