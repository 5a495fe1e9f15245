------------------------------- MODULE MCApi --------------------------------
(***************************************************************************)
(* Workers, pipelines and calls for checking Api.                          *)
(***************************************************************************)
EXTENDS Api

CONSTANTS w1, w2, module1, namespace1, job1, user1, user2

F == <<module1, "f">>
G == <<module1, "g">>
P == <<namespace1, "p">>

SomeFunctions == {F, G}
SomeOffers ==
  {[worker |-> w1, module |-> module1, version |-> "1", functions |-> {F}],
   [worker |-> w2, module |-> module1, version |-> "1", functions |-> {F, G}],
   [worker |-> w2, module |-> module1, version |-> "2", functions |-> {G}]}
Mounted == {F}
SomePipelines == {P}
SomeUses == [p \in SomePipelines |-> {F}]

SomeCalls ==
  {ListProcessors, ListFunctions, setModuleMounted(module1, TRUE), setModuleMounted(module1, FALSE),
   setFunctionMounted(F, FALSE), setFunctionMounted(G, TRUE), IsPipelineOnCore(namespace1),
   CreatePipelineOnCore(P), RemovePipelineFromCore(P), RunPipelineOnCore(P), StopRun(1),
   ListPipelines, GetPipeline(P), ListRuns, ListJobs, CreateJob(job1), DeleteJob(job1),
   Curl(postPipelineCallback(P, TRUE)), Curl(putPipelineCallback(P)),
   Curl(getRunCountCallback(namespace1)), Curl(getJobQueueCallback), Curl(getStatisticCallback(P)),
   Curl(getStatisticInfoCallback(namespace1))}

Sym == Permutations(Users)
=============================================================================
